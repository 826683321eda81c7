--------------------------- MODULE HubDocs_proofs ---------------------------
(* For every number of clients, sessions and edits: the room of a document   *)
(* is led and seeded by sessions that are in it, the editors converge, the   *)
(* file follows them, and no text that a file had before is lost.            *)
EXTENDS HubDocs, FiniteSetTheorems, TLAPS

(* A client only ever sends updates that bring something. *)
Telling == {m \in UpMsgs : m.type = "update" => m.edits # {}}

Channels ==
    /\ out \in [Clients -> Seq(Telling)] /\ up \in [Sessions -> Seq(Telling)]
    /\ down \in [Sessions -> Seq(DownMsgs)]
    /\ current \in [Clients -> Sessions \cup {None}]
    /\ clientOf \in [Sessions -> Clients \cup {None}]
    /\ link \in [Sessions -> {"idle", "up", "broken"}] /\ hubUp \subseteq Sessions

(* Each opening of a view makes at most one Y.Doc. *)
Blank == {c \in Clients : open[c] /\ ydoc[c] = 0}

OpensCount ==
    /\ born + Cardinality(Blank) <= opens
    /\ \A c \in Clients : ~open[c] => ydoc[c] = 0

(* A room that counts as seeded has something to replay, and to come back with. *)
SeedKept == (seeded => baseline # {}) /\ blob = baseline

DocInv == EditorTypes /\ Channels /\ RoomTypes /\ OpensCount /\ RoomInOrder /\ SeedKept

----------------------------------------------------------------------------
(* The members of a room.                                                   *)

LEMMA RemainingFacts ==
    ASSUME members \in Seq(Sessions), IsInjective(members),
           NEW s \in Sessions, IsMember(s)
    PROVE  /\ Remaining(s) \in Seq(Sessions)
           /\ IsInjective(Remaining(s))
           /\ Range(Remaining(s)) = Range(members) \ {s}
           /\ Head(members) # s => Remaining(s) # <<>> /\ Head(Remaining(s)) = Head(members)
<1> DEFINE k == CHOOSE i \in DOMAIN members : members[i] = s
<1>1. k \in 1..Len(members) /\ members[k] = s
  BY DEF IsMember, Contains
<1>2. Remaining(s) = SubSeq(members, 1, k - 1) \o SubSeq(members, k + 1, Len(members))
  BY DEF Remaining, RemoveAt
<1> HIDE DEF k
<1> DEFINE p == SubSeq(members, 1, k - 1)
           q == SubSeq(members, k + 1, Len(members))
<1>3. /\ p \in Seq(Sessions) /\ Len(p) = k - 1 /\ \A j \in 1..(k - 1) : p[j] = members[j]
      /\ q \in Seq(Sessions) /\ Len(q) = Len(members) - k
      /\ \A j \in 1..(Len(members) - k) : q[j] = members[j + k]
  BY <1>1
<1> HIDE DEF p, q
<1>4. /\ p \o q \in Seq(Sessions) /\ Len(p \o q) = Len(members) - 1
      /\ \A j \in 1..(k - 1) : (p \o q)[j] = members[j]
      /\ \A j \in k..(Len(members) - 1) : (p \o q)[j] = members[j + 1]
  <2>1. p \o q \in Seq(Sessions) /\ Len(p \o q) = Len(members) - 1
    BY <1>1, <1>3
  <2>2. \A j \in 1..(k - 1) : (p \o q)[j] = members[j]
    BY <1>1, <1>3
  <2>3. ASSUME NEW j \in k..(Len(members) - 1) PROVE (p \o q)[j] = members[j + 1]
    <3>1. /\ j - (k - 1) \in 1..(Len(members) - k) /\ (j - (k - 1)) + k = j + 1
          /\ j \in 1..(Len(p) + Len(q)) /\ j > Len(p)
      BY <1>1, <1>3
    <3>2. (p \o q)[j] = q[j - Len(p)]
      BY <1>3, <3>1
    <3> QED
      BY <1>3, <3>1, <3>2
  <2> QED
    BY <2>1, <2>2, <2>3
<1> DEFINE r == Remaining(s)
<1>5. /\ r \in Seq(Sessions) /\ Len(r) = Len(members) - 1
      /\ \A j \in 1..(k - 1) : r[j] = members[j]
      /\ \A j \in k..(Len(members) - 1) : r[j] = members[j + 1]
  BY <1>2, <1>4 DEF p, q
<1> HIDE DEF r
<1>6. \A j \in 1..Len(r) : \/ j < k /\ r[j] = members[j]
                           \/ j >= k /\ r[j] = members[j + 1]
  BY <1>1, <1>5
<1>7. IsInjective(r)
  <2> SUFFICES ASSUME NEW i \in 1..Len(r), NEW j \in 1..Len(r), r[i] = r[j]
               PROVE  i = j
    BY <1>5 DEF IsInjective
  <2>1. /\ i \in DOMAIN members /\ i + 1 \in DOMAIN members
        /\ j \in DOMAIN members /\ j + 1 \in DOMAIN members
    BY <1>5
  <2>2. \A a, b \in DOMAIN members : members[a] = members[b] => a = b
    BY DEF IsInjective
  <2>3. CASE i < k /\ j < k
    <3>1. r[i] = members[i] /\ r[j] = members[j]
      BY <1>1, <1>6, <2>3
    <3> QED
      BY <2>1, <2>2, <3>1
  <2>4. CASE i >= k /\ j >= k
    <3>1. i + 1 = j + 1
      BY <1>1, <1>6, <2>1, <2>2, <2>4
    <3> QED
      BY <3>1
  <2>5. CASE i < k /\ j >= k
    <3>1. i = j + 1
      BY <1>1, <1>6, <2>1, <2>2, <2>5
    <3> QED
      BY <1>1, <2>5, <3>1
  <2>6. CASE i >= k /\ j < k
    <3>1. i + 1 = j
      BY <1>1, <1>6, <2>1, <2>2, <2>6
    <3> QED
      BY <1>1, <2>6, <3>1
  <2> QED
    BY <1>1, <2>3, <2>4, <2>5, <2>6
<1>8. Range(r) = Range(members) \ {s}
  <2>1. \A j \in DOMAIN r : r[j] # s /\ \E i \in DOMAIN members : members[i] = r[j]
    <3> SUFFICES ASSUME NEW j \in DOMAIN r
                 PROVE  \E i \in DOMAIN members : members[i] = r[j] /\ i # k
      BY <1>1 DEF IsInjective
    <3>1. CASE j < k /\ r[j] = members[j]
      BY <1>1, <1>5, <3>1
    <3>2. CASE j >= k /\ r[j] = members[j + 1]
      BY <1>1, <1>5, <3>2
    <3> QED
      BY <1>5, <1>6, <3>1, <3>2
  <2>2. ASSUME NEW i \in DOMAIN members, members[i] # s
        PROVE  \E j \in DOMAIN r : r[j] = members[i]
    <3>1. CASE i < k
      BY <1>1, <1>5, <2>2, <3>1
    <3>2. CASE i > k
      <4>1. i - 1 \in k..(Len(members) - 1) /\ (i - 1) + 1 = i
        BY <1>1, <2>2, <3>2
      <4>2. r[i - 1] = members[i] /\ i - 1 \in DOMAIN r
        BY <1>1, <1>5, <4>1
      <4> QED
        BY <4>2
    <3> QED
      BY <1>1, <2>2, <3>1, <3>2
  <2> QED
    BY <2>1, <2>2 DEF Range
<1>9. Head(members) # s => r # <<>> /\ Head(r) = Head(members)
  BY <1>1, <1>5
<1> QED
  BY <1>5, <1>7, <1>8, <1>9 DEF r

LEMMA MembersFacts ==
    ASSUME members \in Seq(Sessions)
    PROVE  /\ \A s \in Sessions : IsMember(s) <=> s \in Range(members)
           /\ members = <<>> <=> Range(members) = {}
           /\ members # <<>> => Head(members) \in Range(members)
  BY DEF IsMember, Contains, Range

LEMMA JoinedFacts ==
    ASSUME members \in Seq(Sessions), IsInjective(members),
           NEW s \in Sessions, ~IsMember(s)
    PROVE  /\ Append(members, s) \in Seq(Sessions)
           /\ IsInjective(Append(members, s))
           /\ Range(Append(members, s)) = Range(members) \cup {s}
           /\ Append(members, s) # <<>>
           /\ Head(Append(members, s)) = IF members = <<>> THEN s ELSE Head(members)
<1> DEFINE r == Append(members, s)
<1>1. /\ r \in Seq(Sessions) /\ Len(r) = Len(members) + 1 /\ r # <<>>
      /\ \A j \in 1..Len(members) : r[j] = members[j]
      /\ r[Len(members) + 1] = s
  OBVIOUS
<1> HIDE DEF r
<1>2. \A j \in 1..Len(members) : members[j] # s
  BY DEF IsMember, Contains
<1>3. IsInjective(r)
  BY <1>1, <1>2 DEF IsInjective
<1>4. Range(r) = Range(members) \cup {s}
  BY <1>1 DEF Range
<1>5. Head(r) = IF members = <<>> THEN s ELSE Head(members)
  BY <1>1
<1> QED
  BY <1>1, <1>3, <1>4, <1>5 DEF r

----------------------------------------------------------------------------
(* Texts and messages.                                                      *)

LEMMA TextType ==
    ASSUME NEW es \in SUBSET Edits, seedText \in [Authors -> Texts]
    PROVE  Text(es) \in Texts
<1>1. \A e \in Integrated(es) : e \in Edits /\ e[1] \in Authors
  BY DEF Integrated, Edits
<1>2. \A e \in Integrated(es) :
         (IF IsSeed(e) THEN seedText[e[1]] ELSE {e}) \subseteq {Orig} \cup Edits
  BY <1>1 DEF Texts
<1> QED
  BY <1>2 DEF Text, Texts

LEMMA MsgFacts ==
    /\ Join \in Telling /\ Leave \in Telling
    /\ \A es \in SUBSET Edits : es # {} => Update(es) \in Telling /\ Compacted(es) \in Telling
    /\ \A t \in Texts : Snapshot(t) \in Telling
    /\ \A m \in Telling :
          /\ m.type = "update" => /\ m.edits \in SUBSET Edits /\ m.edits # {}
                                  /\ m.compaction \in BOOLEAN
          /\ m.type = "snapshot" => m.text \in Texts
    /\ \A b \in BOOLEAN, t \in Texts : Seed(b, t) \in DownMsgs
    /\ \A es \in SUBSET Edits : Update(es) \in DownMsgs
    /\ \A m \in DownMsgs : /\ m.type = "seed" => m.should \in BOOLEAN /\ m.text \in Texts
                           /\ m.type = "update" => m.edits \in SUBSET Edits
<1>1. /\ Join \in Telling /\ Leave \in Telling
      /\ \A es \in SUBSET Edits : es # {} => Update(es) \in Telling /\ Compacted(es) \in Telling
      /\ \A t \in Texts : Snapshot(t) \in Telling
  BY DEF Telling, UpMsgs, Join, Leave, Update, Compacted, Snapshot
<1>2. \A m \in Telling :
          /\ m.type = "update" => /\ m.edits \in SUBSET Edits /\ m.edits # {}
                                  /\ m.compaction \in BOOLEAN
          /\ m.type = "snapshot" => m.text \in Texts
  BY DEF Telling, UpMsgs, Join, Leave
<1>3. /\ \A b \in BOOLEAN, t \in Texts : Seed(b, t) \in DownMsgs
      /\ \A es \in SUBSET Edits : Update(es) \in DownMsgs
  BY DEF DownMsgs, Seed, Update
<1>4. \A m \in DownMsgs : /\ m.type = "seed" => m.should \in BOOLEAN /\ m.text \in Texts
                          /\ m.type = "update" => m.edits \in SUBSET Edits
  BY DEF DownMsgs
<1> QED
  BY <1>1, <1>2, <1>3, <1>4

LEMMA HeadTail ==
    ASSUME NEW S, NEW q \in Seq(S), q # <<>>
    PROVE  Head(q) \in S /\ Tail(q) \in Seq(S)
  OBVIOUS

LEMMA ConcatType ==
    ASSUME NEW S, NEW p \in Seq(S), NEW q \in Seq(S)
    PROVE  p \o q \in Seq(S)
  OBVIOUS

LEMMA SendType ==
    ASSUME Channels, NEW c \in Clients, NEW ms \in Seq(Telling), Send(c, ms)
    PROVE  out' \in [Clients -> Seq(Telling)] /\ up' \in [Sessions -> Seq(Telling)]
<1>1. CASE current[c] = None
  <2>1. out[c] \o ms \in Seq(Telling)
    BY ConcatType DEF Channels
  <2> QED
    BY <1>1, <2>1 DEF Channels, Send
<1>2. CASE current[c] # None
  <2>1. current[c] \in Sessions
    BY <1>2 DEF Channels
  <2>2. up[current[c]] \o ms \in Seq(Telling)
    BY <2>1, ConcatType DEF Channels
  <2> QED
    BY <1>2, <2>1, <2>2 DEF Channels, Send
<1> QED
  BY <1>1, <1>2

LEMMA BlankFacts ==
    ASSUME NEW S \in SUBSET Clients
    PROVE  IsFiniteSet(S) /\ Cardinality(S) \in Nat
  BY FS_Subset, FS_CardinalityType, DocsAssumption

(* What a step that leaves the editors alone keeps, and one that leaves the  *)
(* room alone.                                                               *)
LEMMA EditorsKept ==
    ASSUME EditorTypes, OpensCount, UNCHANGED editorVars
    PROVE  EditorTypes' /\ OpensCount'
<1>1. Blank' = Blank
  BY DEF editorVars, Blank
<1> QED
  BY <1>1 DEF editorVars, EditorTypes, OpensCount

LEMMA RoomKept ==
    ASSUME RoomTypes, RoomInOrder, SeedKept, UNCHANGED roomVars, hubUp \subseteq hubUp',
           md' \in Texts, hurt' \subseteq Mishaps, handover' \in BOOLEAN
    PROVE  RoomTypes' /\ RoomInOrder' /\ SeedKept'
<1>1. RoomTypes'
  BY DEF roomVars, RoomTypes
<1>2. RoomInOrder' /\ SeedKept'
  BY DEF roomVars, RoomInOrder, SeedKept, IsMember, Room
<1> QED
  BY <1>1, <1>2

----------------------------------------------------------------------------
(* The clients.                                                             *)

LEMMA ConnectStep ==
    ASSUME DocInv, NEW c \in Clients, NEW s \in Sessions, Connect(c, s)
    PROVE  DocInv'
<1> DEFINE first == IF open[c] THEN <<Join>> ELSE <<>>
<1>1. first \in Seq(Telling)
  BY MsgFacts
<1>2. Dial(c, s, first)
  BY DEF Connect
<1> HIDE DEF first
<1>3. first \o out[c] \in Seq(Telling)
  BY <1>1, ConcatType DEF DocInv, Channels
<1>4. Channels'
  BY <1>2, <1>3 DEF Dial, DocInv, Channels
<1>5. EditorTypes' /\ OpensCount'
  BY <1>2, EditorsKept DEF Dial, DocInv
<1>6. RoomTypes' /\ RoomInOrder' /\ SeedKept'
  BY <1>2, RoomKept DEF Dial, DocInv, RoomTypes
<1> QED
  BY <1>4, <1>5, <1>6 DEF DocInv

LEMMA BreakStep ==
    ASSUME DocInv, NEW s \in Sessions, Break(s)
    PROVE  DocInv'
<1>1. Channels'
  BY DEF Break, DocInv, Channels
<1>2. EditorTypes' /\ OpensCount'
  BY EditorsKept DEF Break, DocInv
<1>3. RoomTypes' /\ RoomInOrder' /\ SeedKept'
  BY RoomKept DEF Break, DocInv, RoomTypes
<1> QED
  BY <1>1, <1>2, <1>3 DEF DocInv

LEMMA LostType == \A q : LostIn(q) \subseteq Mishaps
  BY DEF LostIn, Mishaps

LEMMA NoticeStep ==
    ASSUME DocInv, NEW c \in Clients, Notice(c)
    PROVE  DocInv'
<1> DEFINE s == current[c]
<1>0. s \in Sessions /\ up[s] \in Seq(Telling) /\ out[c] \in Seq(Telling)
  BY DEF Notice, DocInv, Channels
<1>1. PICK k \in 0..Len(up[s]) :
         /\ out' = [out EXCEPT ![c] = SubSeq(up[s], k + 1, Len(up[s])) \o @]
         /\ IF s \in hubUp
            THEN up' = [up EXCEPT ![s] = SubSeq(up[s], 1, k)] /\ UNCHANGED hurt
            ELSE up' = [up EXCEPT ![s] = <<>>] /\ hurt' = hurt \cup LostIn(SubSeq(up[s], 1, k))
  BY DEF Notice
<1>2. SubSeq(up[s], 1, k) \in Seq(Telling)
      /\ SubSeq(up[s], k + 1, Len(up[s])) \in Seq(Telling)
  BY <1>0
<1>3. SubSeq(up[s], k + 1, Len(up[s])) \o out[c] \in Seq(Telling)
  BY <1>0, <1>2, ConcatType
<1>4. out' \in [Clients -> Seq(Telling)]
  BY <1>1, <1>3 DEF DocInv, Channels
<1>5. up' \in [Sessions -> Seq(Telling)]
  <2>1. \/ up' = [up EXCEPT ![s] = SubSeq(up[s], 1, k)]
        \/ up' = [up EXCEPT ![s] = <<>>]
    BY <1>1
  <2>2. up \in [Sessions -> Seq(Telling)] /\ <<>> \in Seq(Telling)
    BY DEF DocInv, Channels
  <2> HIDE DEF s
  <2>3. CASE up' = [up EXCEPT ![s] = SubSeq(up[s], 1, k)]
    BY <1>0, <1>2, <2>2, <2>3
  <2>4. CASE up' = [up EXCEPT ![s] = <<>>]
    BY <1>0, <2>2, <2>4
  <2> QED
    BY <2>1, <2>3, <2>4
<1>6. Channels'
  BY <1>4, <1>5 DEF Notice, DocInv, Channels
<1>7. EditorTypes' /\ OpensCount'
  BY EditorsKept DEF Notice, DocInv
<1>8. hurt' \subseteq Mishaps
  BY <1>1, LostType DEF DocInv, RoomTypes
<1>9. RoomTypes' /\ RoomInOrder' /\ SeedKept'
  BY <1>8, RoomKept DEF Notice, DocInv, RoomTypes
<1> QED
  BY <1>6, <1>7, <1>9 DEF DocInv

LEMMA OpenStep ==
    ASSUME DocInv, NEW c \in Clients, Open(c)
    PROVE  DocInv'
<1>1. Channels'
  <2>1. <<Join>> \in Seq(Telling)
    BY MsgFacts
  <2> QED
    BY <2>1, SendType DEF Open, DocInv, Channels
<1>2. EditorTypes'
  BY DocsAssumption DEF Open, DocInv, EditorTypes
<1>3. OpensCount'
  <2>1. Blank' = Blank \cup {c} /\ c \notin Blank
    BY DEF Open, DocInv, OpensCount, EditorTypes, Blank
  <2>2. Cardinality(Blank') = Cardinality(Blank) + 1
    BY <2>1, BlankFacts, FS_AddElement DEF Blank
  <2>3. Cardinality(Blank) \in Nat /\ born \in Nat /\ opens \in Nat
    BY BlankFacts, DocsAssumption DEF Blank, DocInv, EditorTypes
  <2> QED
    BY <2>2, <2>3 DEF Open, DocInv, OpensCount, EditorTypes
<1>4. RoomTypes' /\ RoomInOrder' /\ SeedKept'
  BY RoomKept DEF Open, DocInv, RoomTypes
<1> QED
  BY <1>1, <1>2, <1>3, <1>4 DEF DocInv

LEMMA CloseStep ==
    ASSUME DocInv, NEW c \in Clients, Close(c)
    PROVE  DocInv'
<1>1. Channels'
  <2>1. <<Leave>> \in Seq(Telling)
    BY MsgFacts
  <2> QED
    BY <2>1, SendType DEF Close, DocInv, Channels
<1>2. EditorTypes'
  <2>1. Text(have[c]) \in Texts
    BY TextType DEF DocInv, EditorTypes
  <2>2. local' \in [Clients -> Texts]
    BY <2>1 DEF Close, DocInv, EditorTypes
  <2>3. ydoc' \in [Clients -> 0..MaxOpens] /\ have' \in [Clients -> SUBSET Edits]
    BY DocsAssumption DEF Close, DocInv, EditorTypes
  <2>4. /\ open' \in [Clients -> BOOLEAN] /\ ready' \in [Clients -> BOOLEAN]
        /\ dirty' \in [Clients -> BOOLEAN]
    BY DEF Close, DocInv, EditorTypes
  <2> QED
    BY <2>2, <2>3, <2>4 DEF Close, DocInv, EditorTypes
<1>3. OpensCount'
  <2>1. Blank' \in SUBSET Blank
    BY DEF Close, DocInv, EditorTypes, Blank
  <2>2. Cardinality(Blank') <= Cardinality(Blank)
    BY <2>1, BlankFacts, FS_Subset DEF Blank
  <2>3. /\ Cardinality(Blank) \in Nat /\ Cardinality(Blank') \in Nat
        /\ born \in Nat /\ opens \in Nat
    BY <2>1, BlankFacts, DocsAssumption DEF Blank, DocInv, EditorTypes
  <2> QED
    BY <2>2, <2>3 DEF Close, DocInv, OpensCount, EditorTypes
<1>4. hurt' \subseteq Mishaps
  BY DEF Close, DocInv, RoomTypes, Mishaps
<1>5. RoomTypes' /\ RoomInOrder' /\ SeedKept'
  BY <1>4, RoomKept DEF Close, DocInv, RoomTypes
<1> QED
  BY <1>1, <1>2, <1>3, <1>5 DEF DocInv

LEMMA TypeStep ==
    ASSUME DocInv, NEW c \in Clients, Type(c)
    PROVE  DocInv'
<1> DEFINE e == <<ydoc[c], Cardinality(OwnEdits(c)) + 1>>
<1>1. e \in Edits /\ Send(c, <<Update({e})>>) /\ have' = [have EXCEPT ![c] = @ \cup {e}]
  BY DEF Type
<1> HIDE DEF e
<1>2. <<Update({e})>> \in Seq(Telling)
  BY <1>1, MsgFacts
<1>3. Channels'
  BY <1>1, <1>2, SendType DEF Type, DocInv, Channels
<1>4. EditorTypes'
  BY <1>1 DEF Type, DocInv, EditorTypes
<1>5. OpensCount'
  <2>1. Blank' = Blank
    BY DEF Type, Blank
  <2> QED
    BY <2>1 DEF Type, DocInv, OpensCount
<1>6. RoomTypes' /\ RoomInOrder' /\ SeedKept'
  BY RoomKept DEF Type, DocInv, RoomTypes
<1> QED
  BY <1>3, <1>4, <1>5, <1>6 DEF DocInv

LEMMA MaterialiseStep ==
    ASSUME DocInv, NEW c \in Clients, Materialise(c)
    PROVE  DocInv'
<1>1. Text(have[c]) \in Texts
  BY TextType DEF DocInv, EditorTypes
<1>2. <<Snapshot(Text(have[c]))>> \in Seq(Telling)
  BY <1>1, MsgFacts
<1>3. Channels'
  BY <1>2, SendType DEF Materialise, MaterialiseIf, DocInv, Channels
<1>4. EditorTypes'
  BY <1>1 DEF Materialise, MaterialiseIf, DocInv, EditorTypes
<1>5. OpensCount'
  <2>1. Blank' = Blank
    BY DEF Materialise, MaterialiseIf, Blank
  <2> QED
    BY <2>1 DEF Materialise, MaterialiseIf, DocInv, OpensCount
<1>6. RoomTypes' /\ RoomInOrder' /\ SeedKept'
  BY RoomKept DEF Materialise, MaterialiseIf, DocInv, RoomTypes
<1> QED
  BY <1>3, <1>4, <1>5, <1>6 DEF DocInv

LEMMA CompactStep ==
    ASSUME DocInv, NEW c \in Clients, Compact(c)
    PROVE  DocInv'
<1>1. <<Compacted(have[c])>> \in Seq(Telling)
  BY MsgFacts DEF Compact, DocInv, EditorTypes
<1>2. Channels'
  BY <1>1, SendType DEF Compact, DocInv, Channels
<1>3. EditorTypes' /\ OpensCount'
  BY EditorsKept DEF Compact, DocInv
<1>4. RoomTypes' /\ RoomInOrder' /\ SeedKept'
  BY RoomKept DEF Compact, DocInv, RoomTypes
<1> QED
  BY <1>2, <1>3, <1>4 DEF DocInv

LEMMA ReceivingFacts ==
    ASSUME Channels, NEW c \in Clients, NEW type, Receiving(c, type)
    PROVE  /\ current[c] \in Sessions
           /\ Head(down[current[c]]) \in DownMsgs /\ Head(down[current[c]]).type = type
           /\ down' \in [Sessions -> Seq(DownMsgs)]
<1>1. current[c] \in Sessions
  BY DEF Receiving, Channels
<1>2. Head(down[current[c]]) \in DownMsgs /\ Tail(down[current[c]]) \in Seq(DownMsgs)
  BY <1>1, HeadTail DEF Receiving, Channels
<1> QED
  BY <1>1, <1>2 DEF Receiving, Channels

LEMMA SeedStep ==
    ASSUME DocInv, NEW c \in Clients, ReceiveSeed(c)
    PROVE  DocInv'
<1>0. Channels /\ EditorTypes /\ RoomTypes /\ RoomInOrder /\ SeedKept /\ Receiving(c, "seed")
  BY DEF DocInv, ReceiveSeed
<1> DEFINE m == Head(down[current[c]])
           t == IF local[c] # {} THEN local[c] ELSE m.text
           a == born + 1
           seeds == m.should /\ t # {}
<1>1. m \in DownMsgs /\ m.should \in BOOLEAN /\ m.text \in Texts
  BY <1>0, ReceivingFacts, MsgFacts
<1>2. RoomTypes' /\ RoomInOrder' /\ SeedKept'
  BY <1>0, RoomKept DEF Receiving, RoomTypes
<1>3. CASE ~open[c] \/ ydoc[c] # 0
  <2>1. UNCHANGED <<ydoc, have, ready, dirty, seedText, born, out, up>>
    BY <1>3 DEF ReceiveSeed
  <2>2. EditorTypes' /\ OpensCount'
    BY <2>1, <1>0, EditorsKept DEF Receiving, editorVars, DocInv
  <2>3. Channels'
    BY <1>0, <2>1, ReceivingFacts DEF Receiving, Channels
  <2> QED
    BY <1>2, <2>2, <2>3 DEF DocInv
<1>4. CASE open[c] /\ ydoc[c] = 0
  <2>0. /\ born' = a /\ ydoc' = [ydoc EXCEPT ![c] = a]
        /\ have' = [have EXCEPT ![c] = IF seeds THEN {<<a, 1>>} ELSE {}]
        /\ seedText' = [seedText EXCEPT ![a] = IF seeds THEN t ELSE {}]
        /\ ready' = [ready EXCEPT ![c] = m.should]
        /\ dirty' = [dirty EXCEPT ![c] = local[c] # {} \/ seeds]
        /\ IF seeds THEN Send(c, <<Update({<<a, 1>>})>>) ELSE UNCHANGED <<out, up>>
    BY <1>4 DEF ReceiveSeed
  <2>1. c \in Blank /\ Blank \in SUBSET Clients
    BY <1>4 DEF Blank
  <2>2. IsFiniteSet(Blank) /\ Cardinality(Blank) \in Nat
    BY <2>1, BlankFacts
  <2>3. Cardinality(Blank \ {c}) = Cardinality(Blank) - 1 /\ Cardinality(Blank \ {c}) \in Nat
    BY <2>1, <2>2, BlankFacts, FS_RemoveElement
  <2>4. born \in Nat /\ opens \in 0..MaxOpens /\ born + Cardinality(Blank) <= opens
    BY <1>0, DocsAssumption DEF DocInv, OpensCount, EditorTypes
  <2>5. a \in Authors /\ a \in 0..MaxOpens /\ a # 0 /\ a + Cardinality(Blank \ {c}) <= opens
    BY <2>2, <2>3, <2>4, DocsAssumption DEF Authors
  <2>6. t \in Texts /\ {} \in Texts
    BY <1>0, <1>1 DEF EditorTypes, Texts
  <2>7. <<a, 1>> \in Edits
    BY <2>5, DocsAssumption DEF Edits
  <2>8. seeds \in BOOLEAN /\ (local[c] # {} \/ seeds) \in BOOLEAN
    BY <1>1, Zenon
  <2>9. UNCHANGED <<open, local, opens, current, clientOf, link, hubUp>>
    BY <1>0 DEF Receiving
  <2> HIDE DEF a, t, seeds, m
  <2>10. Blank' = Blank \ {c}
    BY <1>0, <2>0, <2>5, <2>9 DEF Blank, EditorTypes
  <2>11. OpensCount'
    <3>1. \A d \in Clients : ~open[d] => ydoc'[d] = 0
      BY <1>0, <1>4, <2>0 DEF DocInv, OpensCount, EditorTypes
    <3> QED
      BY <2>0, <2>5, <2>9, <2>10, <3>1 DEF OpensCount
  <2>12. /\ ydoc' \in [Clients -> 0..MaxOpens] /\ born' \in 0..MaxOpens
         /\ have' \in [Clients -> SUBSET Edits] /\ seedText' \in [Authors -> Texts]
    <3>1. (IF seeds THEN {<<a, 1>>} ELSE {}) \in SUBSET Edits
      BY <2>7
    <3>2. (IF seeds THEN t ELSE {}) \in Texts
      BY <2>6
    <3> QED
      BY <1>0, <2>0, <2>5, <3>1, <3>2 DEF EditorTypes
  <2>13. ready' \in [Clients -> BOOLEAN] /\ dirty' \in [Clients -> BOOLEAN]
    BY <1>0, <1>1, <2>0, <2>8 DEF EditorTypes
  <2>14. EditorTypes'
    BY <1>0, <2>9, <2>12, <2>13 DEF EditorTypes
  <2>15. out' \in [Clients -> Seq(Telling)] /\ up' \in [Sessions -> Seq(Telling)]
    <3>1. <<Update({<<a, 1>>})>> \in Seq(Telling)
      BY <2>7, MsgFacts
    <3> QED
      BY <1>0, <2>0, <3>1, SendType DEF Channels
  <2>16. Channels'
    BY <1>0, <2>9, <2>15, ReceivingFacts DEF Channels
  <2> QED
    BY <1>2, <2>11, <2>14, <2>16 DEF DocInv
<1> QED
  BY <1>3, <1>4

LEMMA ApplyStep ==
    ASSUME DocInv, NEW c \in Clients, ReceiveUpdate(c)
    PROVE  DocInv'
<1>0. Channels /\ EditorTypes /\ RoomTypes /\ RoomInOrder /\ SeedKept /\ Receiving(c, "update")
  BY DEF DocInv, ReceiveUpdate, Apply
<1>1. Head(down[current[c]]).edits \in SUBSET Edits
  BY <1>0, ReceivingFacts, MsgFacts
<1>2. RoomTypes' /\ RoomInOrder' /\ SeedKept'
  BY <1>0, RoomKept DEF Receiving, RoomTypes
<1>3. Channels'
  BY <1>0, ReceivingFacts DEF ReceiveUpdate, Apply, Receiving, Channels
<1>4. OpensCount'
  <2>1. Blank' = Blank
    BY <1>0 DEF ReceiveUpdate, Apply, Receiving, Blank
  <2> QED
    BY <1>0, <2>1 DEF ReceiveUpdate, Apply, Receiving, DocInv, OpensCount
<1>5. have' \in [Clients -> SUBSET Edits]
  BY <1>0, <1>1 DEF ReceiveUpdate, Apply, EditorTypes
<1>6. ready' \in [Clients -> BOOLEAN] /\ dirty' \in [Clients -> BOOLEAN]
  BY <1>0 DEF ReceiveUpdate, Apply, EditorTypes
<1>7. EditorTypes'
  BY <1>0, <1>5, <1>6 DEF ReceiveUpdate, Apply, Receiving, EditorTypes
<1> QED
  BY <1>2, <1>3, <1>4, <1>7 DEF DocInv

----------------------------------------------------------------------------
(* The hub.                                                                 *)

LEMMA PostType ==
    ASSUME Channels, NEW ss, NEW m \in DownMsgs
    PROVE  Post(ss, m) \in [Sessions -> Seq(DownMsgs)]
  BY DEF Channels, Post

LEMMA ReadingFacts ==
    ASSUME Channels, NEW s \in Sessions, NEW type, Reading(s, type)
    PROVE  /\ Head(up[s]) \in Telling /\ Head(up[s]).type = type
           /\ up' \in [Sessions -> Seq(Telling)]
<1>1. Head(up[s]) \in Telling /\ Tail(up[s]) \in Seq(Telling)
  BY HeadTail DEF Reading, Channels
<1> QED
  BY <1>1 DEF Reading, Channels

LEMMA SingleType ==
    ASSUME NEW S, NEW m \in S
    PROVE  <<m>> \in Seq(S) /\ <<>> \in Seq(S)
  OBVIOUS

LEMMA WelcomeType ==
    ASSUME Channels, RoomTypes, NEW s \in Sessions, Welcome(s)
    PROVE  down' \in [Sessions -> Seq(DownMsgs)]
<1>1. Seed(TRUE, md) \in DownMsgs /\ Seed(FALSE, {}) \in DownMsgs
      /\ Update(baseline \cup log) \in DownMsgs
  BY MsgFacts DEF RoomTypes, Texts
<1>2. <<Seed(TRUE, md)>> \in Seq(DownMsgs) /\ <<Seed(FALSE, {})>> \in Seq(DownMsgs)
      /\ Replay \in Seq(DownMsgs)
  BY <1>1, SingleType DEF Replay
<1> DEFINE ms == IF IsCold THEN <<Seed(TRUE, md)>> ELSE <<Seed(FALSE, {})>> \o Replay
<1>3. ms \in Seq(DownMsgs)
  BY <1>2, ConcatType
<1>4. down[s] \o ms \in Seq(DownMsgs)
  BY <1>3, ConcatType DEF Channels
<1> QED
  BY <1>4 DEF Welcome, Channels

(* A session that joins is last, and finds a seeder unless there is an edit. *)
LEMMA JoinStep ==
    ASSUME DocInv, NEW s \in Sessions, HandleJoin(s)
    PROVE  DocInv'
<1>0. /\ Channels /\ RoomTypes /\ RoomInOrder /\ SeedKept
      /\ Reading(s, "join") /\ s \in hubUp
  BY DEF DocInv, HandleJoin, Reading
<1>1. EditorTypes' /\ OpensCount'
  BY <1>0, EditorsKept DEF DocInv, Reading
<1>2. UNCHANGED <<seeded, baseline, log, blob, md, hurt, handover, out, current, clientOf,
                  link, hubUp>>
  BY <1>0 DEF HandleJoin, Reading
<1>3. CASE IsMember(s)
  <2>1. UNCHANGED <<members, leader, seeder, down>>
    BY <1>3 DEF HandleJoin
  <2>2. Channels'
    BY <1>0, <1>2, <2>1, ReadingFacts DEF Channels
  <2>3. RoomTypes' /\ RoomInOrder' /\ SeedKept'
    BY <1>0, <1>2, <2>1, RoomKept DEF roomVars, RoomTypes
  <2> QED
    BY <1>1, <2>2, <2>3 DEF DocInv
<1>4. CASE ~IsMember(s)
  <2>1. /\ members' = Append(members, s)
        /\ leader' = IF leader = None THEN s ELSE leader
        /\ seeder' = IF IsCold THEN s ELSE seeder
        /\ Welcome(s)
    BY <1>4 DEF HandleJoin, DocJoin
  <2>2. Channels'
    BY <1>0, <1>2, <2>1, ReadingFacts, WelcomeType DEF Channels
  <2>3. members \in Seq(Sessions) /\ IsInjective(members)
    BY <1>0 DEF RoomTypes, RoomInOrder
  <2>4. /\ members' \in Seq(Sessions) /\ IsInjective(members') /\ members' # <<>>
        /\ Range(members') = Range(members) \cup {s}
        /\ Head(members') = IF members = <<>> THEN s ELSE Head(members)
    BY <1>4, <2>1, <2>3, JoinedFacts
  <2>5. members # <<>> => Head(members) \in Sessions
    BY <2>3
  <2>6. leader' = Head(members')
    BY <1>0, <2>1, <2>3, <2>4, <2>5, DocsAssumption DEF RoomInOrder
  <2>7. RoomTypes'
    BY <1>0, <1>2, <2>1, <2>4 DEF RoomTypes
  <2>8. \A u \in Sessions : IsMember(u)' <=> u \in Range(members')
    BY <2>4 DEF IsMember, Contains, Range
  <2>9. seeder' # None => IsMember(seeder)'
    <3>1. seeder # None => seeder \in Range(members)
      BY <1>0, <2>3, MembersFacts DEF RoomInOrder, RoomTypes
    <3> QED
      BY <1>0, <2>1, <2>4, <2>8, <3>1 DEF RoomTypes
  <2>10. Room' = {} => seeder' # None
    BY <1>0, <1>2, <2>1, DocsAssumption DEF Room, IsCold, SeedKept
  <2>11. Range(members') \subseteq hubUp'
    BY <1>0, <1>2, <2>4 DEF RoomInOrder
  <2>12. RoomInOrder' /\ SeedKept'
    BY <1>0, <1>2, <2>4, <2>6, <2>9, <2>10, <2>11 DEF RoomInOrder, SeedKept
  <2> QED
    BY <1>1, <2>2, <2>7, <2>12 DEF DocInv
<1> QED
  BY <1>3, <1>4

(* A session that leaves takes its offices with it; they go to the member    *)
(* that joined first, which exists if anyone is left.                        *)
LEMMA LeaveRoom ==
    ASSUME Channels, RoomTypes, RoomInOrder, SeedKept, NEW s \in Sessions, IsMember(s),
           NEW bad \in SUBSET Mishaps, DocLeave(s, bad),
           UNCHANGED <<seeded, baseline, log, blob, md>>, hubUp \ {s} \subseteq hubUp'
    PROVE  /\ down' \in [Sessions -> Seq(DownMsgs)]
           /\ RoomTypes' /\ RoomInOrder' /\ SeedKept'
<1> DEFINE rest == Remaining(s)
           next == IF rest = <<>> THEN None ELSE Head(rest)
           cold == seeder = s /\ ~seeded
<1>0. /\ members \in Seq(Sessions) /\ IsInjective(members) /\ Range(members) \subseteq hubUp
      /\ leader = (IF members = <<>> THEN None ELSE Head(members))
      /\ seeder # None => IsMember(seeder)
      /\ seeder \in Sessions \cup {None}
  BY DEF RoomTypes, RoomInOrder
<1>1. /\ members' = rest
      /\ seeder' = IF seeder # s THEN seeder
                   ELSE IF cold /\ rest # <<>> THEN Head(rest) ELSE None
      /\ leader' = IF leader = s THEN next ELSE leader
      /\ down' = IF cold /\ rest # <<>> THEN Post({Head(rest)}, Seed(TRUE, md)) ELSE down
      /\ hurt' = hurt \cup bad \cup (IF cold THEN {"cold"} ELSE {})
      /\ handover' = (handover \/ leader = s)
  BY DEF DocLeave, LeaveTo
<1>2. /\ rest \in Seq(Sessions) /\ IsInjective(rest)
      /\ Range(rest) = Range(members) \ {s}
      /\ Head(members) # s => rest # <<>> /\ Head(rest) = Head(members)
  BY <1>0, RemainingFacts
<1> HIDE DEF rest
<1>3. rest # <<>> => Head(rest) \in Sessions /\ Head(rest) \in Range(rest)
  BY <1>2 DEF Range
<1>4. s \in Range(members) /\ members # <<>>
  BY <1>0, MembersFacts
<1>5. \A u \in Sessions : IsMember(u)' <=> u \in Range(rest)
  BY <1>1, <1>2 DEF IsMember, Contains, Range
<1>6. seeder # None => seeder \in Range(members)
  BY <1>0, MembersFacts
<1>7. leader' = next
  BY <1>0, <1>1, <1>2, <1>4
<1>8. Seed(TRUE, md) \in DownMsgs
  BY MsgFacts DEF RoomTypes
<1>9. down' \in [Sessions -> Seq(DownMsgs)]
  BY <1>1, <1>8, PostType DEF Channels
<1>10. RoomTypes'
  <2>1. leader' \in Sessions \cup {None} /\ seeder' \in Sessions \cup {None}
    BY <1>0, <1>1, <1>3, <1>7
  <2>2. hurt' \subseteq Mishaps
    BY <1>1 DEF RoomTypes, Mishaps
  <2>3. handover' \in BOOLEAN
    BY <1>1 DEF RoomTypes
  <2> QED
    BY <1>1, <1>2, <2>1, <2>2, <2>3 DEF RoomTypes
<1>11. seeder' # None => IsMember(seeder)'
  BY <1>0, <1>1, <1>2, <1>3, <1>5, <1>6
<1>12. members' # <<>> /\ Room' = {} => seeder' # None
  <2>1. Room' = Room
    BY DEF Room
  <2>2. Room = {} => ~seeded
    BY DEF Room, SeedKept
  <2>3. Room = {} => seeder # None
    BY <1>4 DEF RoomInOrder
  <2> QED
    BY <1>1, <1>3, <2>1, <2>2, <2>3, DocsAssumption
<1>13. RoomInOrder' /\ SeedKept'
  BY <1>0, <1>1, <1>2, <1>7, <1>11, <1>12 DEF RoomInOrder, SeedKept
<1> QED
  BY <1>9, <1>10, <1>13

LEMMA LeaveStep ==
    ASSUME DocInv, NEW s \in Sessions, HandleLeave(s)
    PROVE  DocInv'
<1>0. /\ Channels /\ RoomTypes /\ RoomInOrder /\ SeedKept
      /\ Reading(s, "leave") /\ s \in Sessions
  BY DEF DocInv, HandleLeave
<1>1. EditorTypes' /\ OpensCount'
  BY <1>0, EditorsKept DEF DocInv, Reading
<1>2. UNCHANGED <<seeded, baseline, log, blob, md, out, current, clientOf, link, hubUp>>
  BY <1>0 DEF HandleLeave, Reading
<1>3. CASE IsMember(s)
  <2>1. DocLeave(s, {})
    BY <1>3 DEF HandleLeave
  <2>2. {} \in SUBSET Mishaps /\ hubUp \ {s} \subseteq hubUp'
    BY <1>2
  <2>3. down' \in [Sessions -> Seq(DownMsgs)] /\ RoomTypes' /\ RoomInOrder' /\ SeedKept'
    BY <1>0, <1>2, <1>3, <2>1, <2>2, LeaveRoom
  <2>4. Channels'
    BY <1>0, <1>2, <2>3, ReadingFacts DEF Channels
  <2> QED
    BY <1>1, <2>3, <2>4 DEF DocInv
<1>4. CASE ~IsMember(s)
  <2>1. UNCHANGED <<members, leader, seeder, down, hurt, handover>>
    BY <1>4 DEF HandleLeave
  <2>2. Channels'
    BY <1>0, <1>2, <2>1, ReadingFacts DEF Channels
  <2>3. RoomTypes' /\ RoomInOrder' /\ SeedKept'
    BY <1>0, <1>2, <2>1, RoomKept DEF roomVars, RoomTypes
  <2> QED
    BY <1>1, <2>2, <2>3 DEF DocInv
<1> QED
  BY <1>3, <1>4

LEMMA UpdateStep ==
    ASSUME DocInv, NEW s \in Sessions, HandleUpdate(s)
    PROVE  DocInv'
<1>0. /\ Channels /\ RoomTypes /\ RoomInOrder /\ SeedKept /\ Reading(s, "update")
  BY DEF DocInv, HandleUpdate
<1> DEFINE m == Head(up[s])
<1>1. m \in Telling /\ m.edits \in SUBSET Edits /\ m.edits # {}
  BY <1>0, ReadingFacts, MsgFacts
<1>2. EditorTypes' /\ OpensCount'
  BY <1>0, EditorsKept DEF DocInv, Reading
<1>3. UNCHANGED <<members, leader, seeder, md, handover, out, current, clientOf, link, hubUp>>
  BY <1>0 DEF HandleUpdate, Reading
<1>4. /\ baseline' \in {baseline, m.edits} /\ blob' \in {blob, m.edits}
      /\ log' \in {log, {}, log \cup m.edits} /\ seeded' \in BOOLEAN
      /\ seeded' = seeded \/ baseline' = m.edits
      /\ blob = baseline => blob' = baseline'
      /\ Room' # {} \/ Room' = Room
      /\ hurt' \subseteq Mishaps
  BY <1>0, <1>1 DEF HandleUpdate, RoomTypes, Mishaps, Room
<1>5. Channels'
  <2>1. Update(m.edits) \in DownMsgs
    BY <1>1, MsgFacts
  <2>2. down' = down \/ down' = Post(Range(members) \ {s}, Update(m.edits))
    BY DEF HandleUpdate
  <2>3. down' \in [Sessions -> Seq(DownMsgs)]
    BY <1>0, <2>1, <2>2, PostType DEF Channels
  <2> QED
    BY <1>0, <1>3, <2>3, ReadingFacts DEF Channels
<1> HIDE DEF m
<1>6. RoomTypes'
  BY <1>0, <1>1, <1>3, <1>4 DEF RoomTypes
<1>7. RoomInOrder'
  BY <1>0, <1>3, <1>4 DEF RoomInOrder, IsMember
<1>8. SeedKept'
  BY <1>0, <1>1, <1>4 DEF SeedKept
<1> QED
  BY <1>2, <1>5, <1>6, <1>7, <1>8 DEF DocInv

LEMMA SnapshotStep ==
    ASSUME DocInv, NEW s \in Sessions, HandleSnapshot(s)
    PROVE  DocInv'
<1>0. /\ Channels /\ RoomTypes /\ RoomInOrder /\ SeedKept /\ Reading(s, "snapshot")
  BY DEF DocInv, HandleSnapshot
<1>1. Head(up[s]).text \in Texts
  BY <1>0, ReadingFacts, MsgFacts
<1>2. EditorTypes' /\ OpensCount'
  BY <1>0, EditorsKept DEF DocInv, Reading
<1>3. Channels'
  BY <1>0, ReadingFacts DEF HandleSnapshot, Reading, Channels
<1>4. md' \in Texts /\ handover' \in BOOLEAN
  BY <1>0, <1>1 DEF HandleSnapshot, RoomTypes
<1>5. RoomTypes' /\ RoomInOrder' /\ SeedKept'
  BY <1>0, <1>4, RoomKept DEF HandleSnapshot, Reading, RoomTypes
<1> QED
  BY <1>2, <1>3, <1>5 DEF DocInv

LEMMA EndStep ==
    ASSUME DocInv, NEW s \in Sessions, EndSession(s)
    PROVE  DocInv'
<1>0. Channels /\ RoomTypes /\ RoomInOrder /\ SeedKept
  BY DEF DocInv
<1> DEFINE lost == IF current[clientOf[s]] # s THEN LostIn(up[s]) ELSE {}
<1>1. lost \in SUBSET Mishaps
  BY LostType
<1>2. /\ hubUp' = hubUp \ {s}
      /\ UNCHANGED editorVars
      /\ UNCHANGED <<out, current, clientOf, link, seeded, baseline, log, blob, md>>
      /\ up' = [up EXCEPT ![s] = <<>>] \/ up' = up
  BY DEF EndSession
<1>3. EditorTypes' /\ OpensCount'
  BY <1>2, EditorsKept DEF DocInv
<1>4. up' \in [Sessions -> Seq(Telling)]
  <2>1. CASE up' = [up EXCEPT ![s] = <<>>]
    BY <1>0, <2>1 DEF Channels
  <2> QED
    BY <1>0, <1>2, <2>1 DEF Channels
<1>5. CASE IsMember(s)
  <2>1. DocLeave(s, lost)
    BY <1>5 DEF EndSession
  <2> HIDE DEF lost
  <2>2. hubUp \ {s} \subseteq hubUp'
    BY <1>2
  <2>3. down' \in [Sessions -> Seq(DownMsgs)] /\ RoomTypes' /\ RoomInOrder' /\ SeedKept'
    BY <1>0, <1>1, <1>2, <1>5, <2>1, <2>2, LeaveRoom
  <2>4. Channels'
    BY <1>0, <1>2, <1>4, <2>3 DEF Channels
  <2> QED
    BY <1>3, <2>3, <2>4 DEF DocInv
<1>6. CASE ~IsMember(s)
  <2>1. hurt' = hurt \cup lost /\ UNCHANGED <<members, leader, seeder, down, handover>>
    BY <1>6 DEF EndSession
  <2> HIDE DEF lost
  <2>2. Channels'
    BY <1>0, <1>2, <1>4, <2>1 DEF Channels
  <2>3. RoomTypes' /\ SeedKept'
    BY <1>0, <1>1, <1>2, <2>1 DEF RoomTypes, SeedKept
  <2>4. s \notin Range(members)
    BY <1>0, <1>6, MembersFacts DEF RoomTypes
  <2>5. RoomInOrder'
    BY <1>0, <1>2, <2>1, <2>4 DEF RoomInOrder, IsMember, Room
  <2> QED
    BY <1>3, <2>2, <2>3, <2>5 DEF DocInv
<1> QED
  BY <1>5, <1>6

LEMMA RestartStep ==
    ASSUME DocInv, HubRestart
    PROVE  DocInv'
<1>0. Channels /\ RoomTypes
  BY DEF DocInv
<1>1. EditorTypes' /\ OpensCount'
  BY EditorsKept DEF HubRestart, DocInv
<1>2. up' \in [Sessions -> Seq(Telling)]
  BY <1>0 DEF HubRestart, Channels
<1>3. down' \in [Sessions -> Seq(DownMsgs)] /\ link' \in [Sessions -> {"idle", "up", "broken"}]
  BY <1>0 DEF HubRestart, Channels
<1>4. Channels'
  BY <1>0, <1>2, <1>3 DEF HubRestart, Channels
<1>5. hurt' \subseteq Mishaps
  <2> DEFINE over == {s \in hubUp : current[clientOf[s]] # s}
             gone == UNION {LostIn(up[s]) : s \in over}
             lost == IF log # {} THEN {"lost"} ELSE {}
             cold == IF seeder # None /\ ~seeded THEN {"cold"} ELSE {}
  <2>1. gone \subseteq Mishaps
    BY LostType
  <2>2. lost \subseteq Mishaps /\ cold \subseteq Mishaps
    BY DEF Mishaps
  <2>3. hurt' = hurt \cup gone \cup lost \cup cold
    BY DEF HubRestart
  <2>4. hurt \subseteq Mishaps
    BY <1>0 DEF RoomTypes
  <2> HIDE DEF gone, lost, cold
  <2> QED
    BY <2>1, <2>2, <2>3, <2>4
<1>6. RoomTypes'
  BY <1>0, <1>5 DEF HubRestart, RoomTypes
<1>7. RoomInOrder' /\ SeedKept'
  <2>1. IsInjective(<<>>) /\ Range(<<>>) = {}
    BY DEF IsInjective, Range
  <2> QED
    BY <2>1 DEF HubRestart, RoomInOrder, SeedKept
<1> QED
  BY <1>1, <1>4, <1>6, <1>7 DEF DocInv

LEMMA InitDocInv == Init => DocInv
<1> SUFFICES ASSUME Init PROVE DocInv
  OBVIOUS
<1>1. EditorTypes /\ RoomTypes
  <2>1. {Orig} \in Texts /\ {} \in Texts
    BY DEF Texts
  <2>2. EditorTypes
    BY <2>1, DocsAssumption DEF Init, EditorTypes
  <2>3. RoomTypes
    <3>1. md \in Texts
      BY <2>1 DEF Init
    <3>2. members \in Seq(Sessions)
      BY DEF Init
    <3> QED
      BY <3>1, <3>2 DEF Init, RoomTypes
  <2> QED
    BY <2>2, <2>3
<1>2. Channels
  BY DEF Init, Channels
<1>3. OpensCount
  <2>1. Blank = {}
    BY DEF Init, Blank
  <2> QED
    BY <2>1, FS_EmptySet DEF Init, OpensCount
<1>4. RoomInOrder /\ SeedKept
  BY DEF Init, RoomInOrder, SeedKept, IsInjective, Range
<1> QED
  BY <1>1, <1>2, <1>3, <1>4 DEF DocInv

LEMMA StepDocInv == DocInv /\ [Next]_vars => DocInv'
<1> SUFFICES ASSUME DocInv, [Next]_vars PROVE DocInv'
  OBVIOUS
<1>1. ASSUME NEW c \in Clients, \/ Notice(c) \/ Open(c) \/ Close(c) \/ Type(c)
                                \/ Materialise(c) \/ Compact(c) \/ Receive(c)
                                \/ \E s \in Sessions : Connect(c, s)
      PROVE  DocInv'
  BY <1>1, NoticeStep, OpenStep, CloseStep, TypeStep, MaterialiseStep, CompactStep,
     SeedStep, ApplyStep, ConnectStep DEF Receive
<1>2. ASSUME NEW s \in Sessions, Break(s) \/ HubReads(s) \/ EndSession(s)
      PROVE  DocInv'
  BY <1>2, BreakStep, JoinStep, LeaveStep, UpdateStep, SnapshotStep, EndStep DEF HubReads
<1>3. CASE UNCHANGED vars
  <2>1. EditorTypes' /\ OpensCount'
    BY <1>3, EditorsKept DEF vars, DocInv
  <2>2. Channels'
    BY <1>3 DEF vars, linkVars, DocInv, Channels
  <2>3. RoomTypes' /\ RoomInOrder' /\ SeedKept'
    BY <1>3, RoomKept DEF vars, DocInv, RoomTypes
  <2> QED
    BY <2>1, <2>2, <2>3 DEF DocInv
<1> QED
  BY <1>1, <1>2, <1>3, RestartStep DEF Next

(* The variables keep their types in every behaviour. *)
THEOREM DocsTypeCorrect == Spec => []TypeOK
<1>1. DocInv => TypeOK
  <2>1. \A q \in Seq(Telling) : q \in Seq(UpMsgs)
    BY DEF Telling
  <2> QED
    BY <2>1 DEF DocInv, Channels, TypeOK, SessionTypes
<1> QED
  BY <1>1, InitDocInv, StepDocInv, PTL DEF Spec

(* Whoever leads or seeds a room is a running session in it, the leader is   *)
(* the one that joined first, and nobody in an empty document waits for a    *)
(* seeder that is not there.                                                 *)
THEOREM RoomAlwaysInOrder == Spec => []RoomInOrder
<1>1. DocInv => RoomInOrder
  BY DEF DocInv
<1> QED
  BY <1>1, InitDocInv, StepDocInv, PTL DEF Spec

----------------------------------------------------------------------------
(* The seed.                                                                *)

(* The i-th message on its way down session s asks its client to seed. *)
Asked(s, i) == i \in DOMAIN down[s] /\ down[s][i].type = "seed" /\ down[s][i].should

Seeding(a) == seedText[a] # {}

(* While every seeder lives to seed and nothing is lost, one client is asked *)
(* at most, and nobody once there is a seed; and the hub, which asks again   *)
(* only when the room is cold, does not find it cold any more.               *)
AskedOnce ==
    hurt \cap {"lost", "cold"} = {} =>
        /\ \A s, u \in Sessions : \A i, j \in Nat :
              Asked(s, i) /\ Asked(u, j) => s = u /\ i = j
        /\ \A s \in Sessions : \A i \in Nat : \A a \in Authors :
              Asked(s, i) => ~Seeding(a)
        /\ \A a, b \in Authors : Seeding(a) /\ Seeding(b) => a = b
        /\ IsCold => /\ \A s \in Sessions : \A i \in Nat : ~Asked(s, i)
                     /\ \A a \in Authors : ~Seeding(a)

LEMMA AskedNat ==
    ASSUME Channels
    PROVE  \A s \in Sessions : \A i : Asked(s, i) => i \in Nat
  BY DEF Channels, Asked

(* Requests to seed move up or vanish, and a room does not get cold unnoticed. *)
LEMMA AskedKept ==
    ASSUME AskedOnce, hurt \subseteq hurt', \A a \in Authors : Seeding(a)' => Seeding(a),
           NEW K \in [Sessions -> Nat],
           \A s \in Sessions : \A j \in Nat : Asked(s, j)' => Asked(s, j + K[s]),
           hurt' \cap {"lost", "cold"} = {} /\ IsCold' => IsCold
    PROVE  AskedOnce'
<1> SUFFICES ASSUME hurt' \cap {"lost", "cold"} = {}
             PROVE  /\ \A s, u \in Sessions : \A i, j \in Nat :
                          Asked(s, i)' /\ Asked(u, j)' => s = u /\ i = j
                    /\ \A s \in Sessions : \A i \in Nat : \A a \in Authors :
                          Asked(s, i)' => ~Seeding(a)'
                    /\ \A a, b \in Authors : Seeding(a)' /\ Seeding(b)' => a = b
                    /\ IsCold' => /\ \A s \in Sessions : \A i \in Nat : ~Asked(s, i)'
                                  /\ \A a \in Authors : ~Seeding(a)'
  BY DEF AskedOnce
<1>1. hurt \cap {"lost", "cold"} = {}
  OBVIOUS
<1>2. \A a \in Authors : Seeding(a)' => Seeding(a)
  OBVIOUS
<1>3. \A s \in Sessions : \A j \in Nat :
         Asked(s, j)' => j + K[s] \in Nat /\ Asked(s, j + K[s])
  OBVIOUS
<1>4. ASSUME NEW s \in Sessions, NEW u \in Sessions, NEW i \in Nat, NEW j \in Nat,
             Asked(s, i)', Asked(u, j)'
      PROVE  s = u /\ i = j
  <2>1. s = u /\ i + K[s] = j + K[u]
    BY <1>1, <1>3, <1>4 DEF AskedOnce
  <2>2. PICK k \in Nat : K[s] = k /\ K[u] = k
    BY <2>1
  <2>3. i = j
    BY <2>1, <2>2
  <2> QED
    BY <2>1, <2>3
<1> QED
  BY <1>1, <1>2, <1>3, <1>4 DEF AskedOnce

LEMMA AskedStill ==
    ASSUME AskedOnce, hurt \subseteq hurt', seedText' = seedText,
           \A s \in Sessions : \A j \in Nat : Asked(s, j)' => Asked(s, j),
           hurt' \cap {"lost", "cold"} = {} /\ IsCold' => IsCold
    PROVE  AskedOnce'
<1> DEFINE K == [s \in Sessions |-> 0]
<1>1. K \in [Sessions -> Nat] /\ \A s \in Sessions : \A j \in Nat : j + K[s] = j
  OBVIOUS
<1> HIDE DEF K
<1>2. \A s \in Sessions : \A j \in Nat : Asked(s, j)' => Asked(s, j + K[s])
  BY <1>1
<1>3. \A a \in Authors : Seeding(a)' => Seeding(a)
  BY DEF Seeding
<1> QED
  BY <1>1, <1>2, <1>3, AskedKept

(* The client of session s takes its oldest message. *)
LEMMA TakenFacts ==
    ASSUME Channels, NEW c \in Clients, NEW type, Receiving(c, type),
           NEW s \in Sessions, s = current[c]
    PROVE  /\ down[s] \in Seq(DownMsgs) /\ down[s] # <<>> /\ Head(down[s]).type = type
           /\ \A j \in Nat : Asked(s, j)' => Asked(s, j + 1) /\ j # 0
           /\ \A u \in Sessions : u # s => \A j \in Nat : Asked(u, j)' => Asked(u, j)
<1>1. /\ down[s] \in Seq(DownMsgs) /\ down[s] # <<>> /\ Head(down[s]).type = type
      /\ down' = [down EXCEPT ![s] = Tail(@)]
  BY DEF Receiving, Channels
<1>2. down'[s] = Tail(down[s]) /\ \A u \in Sessions : u # s => down'[u] = down[u]
  BY <1>1 DEF Channels
<1>3. \A j \in DOMAIN Tail(down[s]) :
         /\ j + 1 \in DOMAIN down[s] /\ Tail(down[s])[j] = down[s][j + 1]
         /\ j # 0
  BY <1>1
<1>4. \A j \in Nat : Asked(s, j)' => Asked(s, j + 1) /\ j # 0
  BY <1>2, <1>3 DEF Asked
<1>5. \A u \in Sessions : u # s => \A j \in Nat : Asked(u, j)' => Asked(u, j)
  BY <1>2 DEF Asked
<1> QED
  BY <1>1, <1>4, <1>5

LEMMA TakenOnce ==
    ASSUME Channels, AskedOnce, NEW c \in Clients, NEW type, Receiving(c, type),
           \A a \in Authors : Seeding(a)' => Seeding(a)
    PROVE  AskedOnce'
<1>1. PICK s \in Sessions : s = current[c]
  BY DEF Receiving, Channels
<1> DEFINE K == [u \in Sessions |-> IF u = s THEN 1 ELSE 0]
<1>2. K \in [Sessions -> Nat] /\ K[s] = 1 /\ \A u \in Sessions : u # s => K[u] = 0
  OBVIOUS
<1> HIDE DEF K
<1>3. ASSUME NEW u \in Sessions, NEW j \in Nat, Asked(u, j)'
      PROVE  Asked(u, j + K[u])
  <2>1. CASE u = s
    BY <1>1, <1>2, <1>3, <2>1, TakenFacts
  <2>2. CASE u # s
    <3>1. Asked(u, j) /\ j + 0 = j
      BY <1>1, <1>3, <2>2, TakenFacts
    <3> QED
      BY <1>2, <2>2, <3>1
  <2> QED
    BY <2>1, <2>2
<1>4. hurt' = hurt /\ (IsCold' <=> IsCold)
  BY DEF Receiving, roomVars, IsCold
<1> QED
  BY <1>2, <1>3, <1>4, AskedKept

(* Anything but a request to seed joins what is on its way down. *)
LEMMA PostedFacts ==
    ASSUME Channels, NEW ss, NEW m \in DownMsgs, m.type # "seed" \/ ~m.should,
           down' = Post(ss, m)
    PROVE  \A s \in Sessions : \A j \in Nat : Asked(s, j)' => Asked(s, j)
<1>1. \A q \in Seq(DownMsgs) : \A j \in DOMAIN Append(q, m) :
         \/ Append(q, m)[j] = m
         \/ j \in DOMAIN q /\ Append(q, m)[j] = q[j]
  OBVIOUS
<1>2. \A s \in Sessions : down'[s] = down[s] \/ down'[s] = Append(down[s], m)
  BY DEF Post
<1>3. ASSUME NEW s \in Sessions, NEW j \in Nat, Asked(s, j)' PROVE Asked(s, j)
  <2>1. CASE down'[s] = down[s]
    BY <1>3, <2>1 DEF Asked
  <2>2. CASE down'[s] = Append(down[s], m)
    <3>1. down[s] \in Seq(DownMsgs)
      BY DEF Channels
    <3>2. j \in DOMAIN Append(down[s], m) /\ Append(down[s], m)[j] # m
      BY <1>3, <2>2 DEF Asked
    <3> QED
      BY <1>1, <1>3, <2>2, <3>1, <3>2 DEF Asked
  <2> QED
    BY <1>2, <2>1, <2>2
<1> QED
  BY <1>3

LEMMA SeedOnce ==
    ASSUME DocInv, AskedOnce, NEW c \in Clients, ReceiveSeed(c)
    PROVE  AskedOnce'
<1>0. Channels /\ EditorTypes /\ Receiving(c, "seed")
  BY DEF DocInv, ReceiveSeed
<1>1. PICK s \in Sessions : s = current[c]
  BY <1>0 DEF Receiving, Channels
<1> DEFINE m == Head(down[s])
           a == born + 1
<1>2. \/ seedText' = seedText
      \/ \E t : seedText' = [seedText EXCEPT ![a] = t] /\ (m.should \/ t = {})
  BY <1>1 DEF ReceiveSeed
<1>3. \A b \in Authors : Seeding(b)' => Seeding(b) \/ (b = a /\ m.should)
  BY <1>0, <1>2 DEF Seeding, EditorTypes
<1>4. CASE ~m.should
  BY <1>0, <1>3, <1>4, TakenOnce
<1>5. CASE m.should
  <2>1. hurt' = hurt /\ (IsCold' <=> IsCold)
    BY <1>0 DEF Receiving, roomVars, IsCold
  <2>2. Asked(s, 1)
    BY <1>0, <1>1, <1>5, TakenFacts DEF Asked
  <2>3. /\ \A j \in Nat : Asked(s, j)' => Asked(s, j + 1) /\ j # 0
        /\ \A u \in Sessions : u # s => \A j \in Nat : Asked(u, j)' => Asked(u, j)
    BY <1>0, <1>1, TakenFacts
  <2> SUFFICES ASSUME hurt \cap {"lost", "cold"} = {} PROVE AskedOnce'
    BY <2>1 DEF AskedOnce
  <2>4. /\ \A b \in Authors : ~Seeding(b)
        /\ ~IsCold
        /\ \A u \in Sessions : \A j \in Nat : Asked(u, j) => u = s /\ j = 1
    BY <2>2 DEF AskedOnce
  <2>5. ASSUME NEW u \in Sessions, NEW j \in Nat, Asked(u, j)' PROVE FALSE
    <3>1. u = s
      BY <2>3, <2>4, <2>5
    <3>2. Asked(s, j + 1) /\ j # 0 /\ j + 1 \in Nat
      BY <2>3, <2>5, <3>1
    <3>3. j + 1 = 1
      BY <2>4, <3>2
    <3> QED
      BY <3>2, <3>3
  <2> HIDE DEF m, a
  <2> QED
    BY <1>3, <2>1, <2>4, <2>5 DEF AskedOnce
<1> QED
  BY <1>4, <1>5

(* Sessions, editors and saving neither ask nor seed. *)
LEMMA QuietOnce ==
    ASSUME AskedOnce, hurt \subseteq hurt', UNCHANGED <<seedText, seeded, seeder, log>>,
           \A s \in Sessions : down'[s] = down[s] \/ down'[s] = <<>>
    PROVE  AskedOnce'
<1>1. \A s \in Sessions : \A j \in Nat : Asked(s, j)' => Asked(s, j)
  BY DEF Asked
<1>2. IsCold' => IsCold
  BY DEF IsCold
<1> QED
  BY <1>1, <1>2, AskedStill

LEMMA ClientOnce ==
    ASSUME DocInv, AskedOnce, NEW c \in Clients,
           \/ Notice(c) \/ Open(c) \/ Close(c) \/ Type(c) \/ Materialise(c) \/ Compact(c)
           \/ \E s \in Sessions : Connect(c, s)
    PROVE  AskedOnce'
<1>1. UNCHANGED <<seedText, down>> /\ UNCHANGED roomVars /\ hurt \subseteq hurt'
  <2>1. CASE Notice(c) \/ \E s \in Sessions : Connect(c, s)
    BY <2>1 DEF Notice, Connect, Dial, editorVars
  <2>2. CASE Open(c) \/ Close(c) \/ Type(c)
    BY <2>2 DEF Open, Close, Type
  <2>3. CASE Materialise(c) \/ Compact(c)
    BY <2>3 DEF Materialise, MaterialiseIf, Compact, editorVars
  <2> QED
    BY <2>1, <2>2, <2>3
<1> QED
  BY <1>1, QuietOnce DEF roomVars

LEMMA LinkOnce ==
    ASSUME DocInv, AskedOnce, NEW s \in Sessions, Break(s) \/ HandleSnapshot(s)
    PROVE  AskedOnce'
<1>1. UNCHANGED <<seedText, hurt>> /\ UNCHANGED roomVars
  BY DEF Break, HandleSnapshot, Reading, editorVars
<1>2. \A u \in Sessions : down'[u] = down[u] \/ down'[u] = <<>>
  BY DEF Break, HandleSnapshot, DocInv, Channels
<1> QED
  BY <1>1, <1>2, QuietOnce DEF roomVars

LEMMA ApplyOnce ==
    ASSUME DocInv, AskedOnce, NEW c \in Clients, ReceiveUpdate(c)
    PROVE  AskedOnce'
<1>1. Channels /\ Receiving(c, "update") /\ seedText' = seedText
  BY DEF DocInv, ReceiveUpdate, Apply
<1>2. \A a \in Authors : Seeding(a)' => Seeding(a)
  BY <1>1 DEF Seeding
<1> QED
  BY <1>1, <1>2, TakenOnce

(* A cold room, which has not asked anyone, asks the session that joins.     *)
LEMMA JoinOnce ==
    ASSUME DocInv, AskedOnce, NEW s \in Sessions, HandleJoin(s)
    PROVE  AskedOnce'
<1>0. /\ Channels /\ RoomTypes
      /\ UNCHANGED <<seedText, hurt, seeded, log>>
  BY DEF DocInv, HandleJoin, Reading, editorVars
<1>1. CASE IsMember(s)
  BY <1>0, <1>1, QuietOnce DEF HandleJoin
<1>2. CASE ~IsMember(s) /\ ~IsCold
  <2>1. /\ seeder' = seeder
        /\ \/ down' = down
           \/ down' = [down EXCEPT ![s] = @ \o (<<Seed(FALSE, {})>> \o Replay)]
    BY <1>2 DEF HandleJoin, DocJoin, Welcome
  <2> DEFINE ms == <<Seed(FALSE, {})>> \o Replay
  <2>2. \A i \in DOMAIN ms : ms[i].type # "seed" \/ ~ms[i].should
    BY DEF Replay, Seed, Update
  <2>3. ms \in Seq(DownMsgs)
    <3>1. Seed(FALSE, {}) \in DownMsgs /\ Update(baseline \cup log) \in DownMsgs
      BY <1>0, MsgFacts DEF RoomTypes, Texts
    <3>2. <<Seed(FALSE, {})>> \in Seq(DownMsgs) /\ Replay \in Seq(DownMsgs)
      BY <3>1, SingleType DEF Replay
    <3> QED
      BY <3>2, ConcatType
  <2> HIDE DEF ms
  <2>4. \A u \in Sessions : \A j \in Nat : Asked(u, j)' => Asked(u, j)
    <3> SUFFICES ASSUME NEW u \in Sessions, NEW j \in Nat, Asked(u, j)' PROVE Asked(u, j)
      OBVIOUS
    <3>1. down[u] \in Seq(DownMsgs)
      BY <1>0 DEF Channels
    <3>2. down'[u] = down[u] \/ down'[u] = down[u] \o ms
      BY <1>0, <2>1 DEF Channels, ms
    <3>3. CASE down'[u] = down[u]
      BY <3>3 DEF Asked
    <3>4. CASE down'[u] = down[u] \o ms
      <4>1. j \in DOMAIN (down[u] \o ms) /\ (down[u] \o ms)[j].type = "seed"
            /\ (down[u] \o ms)[j].should
        BY <3>4 DEF Asked
      <4>2. CASE j <= Len(down[u])
        <5>1. j \in DOMAIN down[u] /\ (down[u] \o ms)[j] = down[u][j]
          BY <2>3, <3>1, <4>1, <4>2
        <5> QED
          BY <4>1, <5>1 DEF Asked
      <4>3. CASE j > Len(down[u])
        <5>1. j - Len(down[u]) \in DOMAIN ms /\ (down[u] \o ms)[j] = ms[j - Len(down[u])]
          BY <2>3, <3>1, <4>1, <4>3
        <5> QED
          BY <2>2, <4>1, <5>1
      <4>4. Len(down[u]) \in Nat
        BY <3>1
      <4> QED
        BY <4>2, <4>3, <4>4
    <3> QED
      BY <3>2, <3>3, <3>4
  <2>5. IsCold' => IsCold
    BY <1>0, <2>1 DEF IsCold
  <2> QED
    BY <1>0, <2>4, <2>5, AskedStill
<1>3. CASE ~IsMember(s) /\ IsCold
  <2>1. /\ seeder' = s
        /\ \/ down' = down
           \/ down' = [down EXCEPT ![s] = @ \o <<Seed(TRUE, md)>>]
    BY <1>3 DEF HandleJoin, DocJoin, Welcome
  <2>2. ~IsCold'
    BY <2>1, DocsAssumption DEF IsCold
  <2> SUFFICES ASSUME hurt \cap {"lost", "cold"} = {} PROVE AskedOnce'
    BY <1>0 DEF AskedOnce
  <2>3. /\ \A u \in Sessions : \A i \in Nat : ~Asked(u, i)
        /\ \A a \in Authors : ~Seeding(a)
    BY <1>3 DEF AskedOnce
  <2>4. ASSUME NEW u \in Sessions, NEW j \in Nat, Asked(u, j)'
        PROVE  u = s /\ j = Len(down[s]) + 1
    <3>1. down[u] \in Seq(DownMsgs)
      BY <1>0 DEF Channels
    <3>2. CASE down'[u] = down[u]
      BY <2>3, <2>4, <3>2 DEF Asked
    <3>3. CASE u = s /\ down'[u] = down[u] \o <<Seed(TRUE, md)>>
      <4>1. j \in 1..(Len(down[u]) + 1)
        BY <2>4, <3>1, <3>3 DEF Asked
      <4>2. CASE j <= Len(down[u])
        <5>1. j \in DOMAIN down[u] /\ (down[u] \o <<Seed(TRUE, md)>>)[j] = down[u][j]
          BY <3>1, <4>1, <4>2
        <5> QED
          BY <2>3, <2>4, <3>3, <5>1 DEF Asked
      <4> QED
        BY <3>1, <3>3, <4>1, <4>2
    <3>4. \/ down'[u] = down[u]
          \/ u = s /\ down'[u] = down[u] \o <<Seed(TRUE, md)>>
      BY <1>0, <2>1 DEF Channels
    <3> QED
      BY <3>2, <3>3, <3>4
  <2>5. \A a \in Authors : ~Seeding(a)'
    BY <1>0, <2>3 DEF Seeding
  <2> QED
    BY <2>2, <2>4, <2>5 DEF AskedOnce
<1> QED
  BY <1>1, <1>2, <1>3

(* Only a seeder that has not seeded leaves a cold room behind.              *)
LEMMA DepartOnce ==
    ASSUME AskedOnce, NEW s \in Sessions, NEW bad, DocLeave(s, bad),
           UNCHANGED <<seedText, seeded, log>>
    PROVE  AskedOnce'
<1> DEFINE cold == seeder = s /\ ~seeded
<1>1. /\ seeder # s => seeder' = seeder
      /\ ~cold => down' = down
      /\ hurt' = hurt \cup bad \cup (IF cold THEN {"cold"} ELSE {})
  BY DEF DocLeave, LeaveTo
<1>2. CASE cold
  <2>1. "cold" \in hurt'
    BY <1>1, <1>2
  <2> QED
    BY <2>1 DEF AskedOnce
<1>3. CASE ~cold
  <2>1. \A u \in Sessions : \A j \in Nat : Asked(u, j)' => Asked(u, j)
    BY <1>1, <1>3 DEF Asked
  <2>2. IsCold' => IsCold
    BY <1>1, <1>3 DEF IsCold
  <2>3. hurt \subseteq hurt'
    BY <1>1
  <2> QED
    BY <2>1, <2>2, <2>3, AskedStill
<1> QED
  BY <1>2, <1>3

LEMMA LeaveOnce ==
    ASSUME DocInv, AskedOnce, NEW s \in Sessions, HandleLeave(s) \/ EndSession(s)
    PROVE  AskedOnce'
<1>1. UNCHANGED <<seedText, seeded, log>>
  BY DEF HandleLeave, EndSession, Reading, editorVars
<1>2. \/ \E bad : DocLeave(s, bad)
      \/ UNCHANGED <<seeder, down>> /\ hurt \subseteq hurt'
  BY DEF HandleLeave, EndSession
<1> QED
  BY <1>1, <1>2, DepartOnce, QuietOnce

LEMMA UpdateOnce ==
    ASSUME DocInv, AskedOnce, NEW s \in Sessions, HandleUpdate(s)
    PROVE  AskedOnce'
<1>0. Channels /\ RoomTypes /\ Reading(s, "update") /\ UNCHANGED <<seedText, seeder>>
  BY DEF DocInv, HandleUpdate, Reading, editorVars
<1> DEFINE m == Head(up[s])
<1>1. m.edits \in SUBSET Edits /\ m.edits # {}
  BY <1>0, ReadingFacts, MsgFacts
<1>2. /\ hurt \subseteq hurt'
      /\ down' = down \/ down' = Post(Range(members) \ {s}, Update(m.edits))
      /\ IsCold' => IsCold
  BY <1>0, <1>1 DEF HandleUpdate, IsCold
<1> HIDE DEF m
<1>3. Update(m.edits) \in DownMsgs /\ Update(m.edits).type # "seed"
  BY <1>1, MsgFacts DEF Update
<1>4. \A u \in Sessions : \A j \in Nat : Asked(u, j)' => Asked(u, j)
  <2>1. CASE down' = down
    BY <2>1 DEF Asked
  <2>2. CASE down' = Post(Range(members) \ {s}, Update(m.edits))
    BY <1>0, <1>3, <2>2, PostedFacts
  <2> QED
    BY <1>2, <2>1, <2>2
<1> QED
  BY <1>0, <1>2, <1>4, AskedStill

LEMMA RestartOnce ==
    ASSUME DocInv, AskedOnce, HubRestart
    PROVE  AskedOnce'
<1>1. /\ seedText' = seedText /\ down' = [s \in Sessions |-> <<>>]
      /\ seeded' = (blob # {}) /\ hurt \subseteq hurt'
      /\ log # {} => "lost" \in hurt'
      /\ seeder # None /\ ~seeded => "cold" \in hurt'
  BY DEF HubRestart, editorVars
<1>2. \A s \in Sessions : \A j \in Nat : ~Asked(s, j)'
  BY <1>1 DEF Asked
<1>3. seeded => blob # {}
  BY DEF DocInv, SeedKept
<1>4. hurt' \cap {"lost", "cold"} = {} /\ IsCold' => IsCold
  BY <1>1, <1>3 DEF IsCold
<1> QED
  BY <1>1, <1>2, <1>4, AskedStill

LEMMA StepAskedOnce == DocInv /\ AskedOnce /\ [Next]_vars => AskedOnce'
<1> SUFFICES ASSUME DocInv, AskedOnce, [Next]_vars PROVE AskedOnce'
  OBVIOUS
<1>1. ASSUME NEW c \in Clients, \/ Notice(c) \/ Open(c) \/ Close(c) \/ Type(c)
                                \/ Materialise(c) \/ Compact(c) \/ Receive(c)
                                \/ \E s \in Sessions : Connect(c, s)
      PROVE  AskedOnce'
  BY <1>1, ClientOnce, SeedOnce, ApplyOnce DEF Receive
<1>2. ASSUME NEW s \in Sessions, Break(s) \/ HubReads(s) \/ EndSession(s)
      PROVE  AskedOnce'
  BY <1>2, LinkOnce, JoinOnce, LeaveOnce, UpdateOnce DEF HubReads
<1>3. CASE UNCHANGED vars
  BY <1>3, QuietOnce DEF vars, editorVars, roomVars
<1> QED
  BY <1>1, <1>2, <1>3, RestartOnce DEF Next

LEMMA InitAskedOnce == Init => AskedOnce
  BY DEF Init, AskedOnce, Asked, Seeding

(* Two clients never both put the file's text into the shared document, as   *)
(* long as every seeder lives to seed and nothing is lost.                   *)
THEOREM OneClientSeeds == Spec => []SeededOnce
<1>1. DocInv /\ AskedOnce => SeededOnce
  <2> SUFFICES ASSUME DocInv, AskedOnce, hurt \cap {"lost", "cold"} = {},
                      NEW es \in {Room} \cup {have[c] : c \in Clients}
               PROVE  Cardinality({e \in es : IsSeed(e)}) <= 1
    BY DEF SeededOnce, OneSeed
  <2>1. es \subseteq Edits
    BY DEF DocInv, EditorTypes, RoomTypes, Room
  <2>2. \A e, f \in es : IsSeed(e) /\ IsSeed(f) => e = f
    <3> SUFFICES ASSUME NEW e \in es, NEW f \in es, IsSeed(e), IsSeed(f) PROVE e = f
      OBVIOUS
    <3>1. /\ e = <<e[1], e[2]>> /\ f = <<f[1], f[2]>>
          /\ e[1] \in Authors /\ f[1] \in Authors /\ e[2] = 1 /\ f[2] = 1
      BY <2>1 DEF Edits, IsSeed
    <3>2. e[1] = f[1]
      BY <3>1 DEF IsSeed, AskedOnce, Seeding
    <3> QED
      BY <3>1, <3>2
  <2>3. CASE {e \in es : IsSeed(e)} = {}
    BY <2>3, FS_EmptySet
  <2>4. CASE {e \in es : IsSeed(e)} # {}
    <3>1. PICK e \in es : IsSeed(e)
      BY <2>4
    <3>2. {f \in es : IsSeed(f)} = {e}
      BY <2>2, <3>1
    <3> QED
      BY <3>2, FS_Singleton
  <2> QED
    BY <2>3, <2>4
<1> QED
  BY <1>1, InitDocInv, StepDocInv, InitAskedOnce, StepAskedOnce, PTL DEF Spec


----------------------------------------------------------------------------
(* Every edit is accounted for.                                             *)

Plain(m) == m.type = "update" /\ ~m.compaction

(* An update in q brings e. *)
Tells(q, e) == \E i \in DOMAIN q : Plain(q[i]) /\ e \in q[i].edits

NoLeave(q) == \A i \in DOMAIN q : q[i].type # "leave"

(* What the client sends and the hub has not read, without what a session    *)
(* that it has given up still holds.                                         *)
Way(c) == IF current[c] = None THEN out[c] ELSE up[current[c]]

Late == {s \in hubUp : current[clientOf[s]] # s}

Linked ==
    /\ \A s \in Sessions :
          /\ link[s] = "idle" => s \notin hubUp /\ \A c \in Clients : current[c] # s
          /\ link[s] = "up" => s \in hubUp /\ current[clientOf[s]] = s
          /\ link[s] # "up" => down[s] = <<>>
          /\ s \in hubUp => clientOf[s] \in Clients
    /\ \A c \in Clients : current[c] # None => clientOf[current[c]] = c /\ out[c] = <<>>

(* What a client has sent since it last left, it has sent for the view that  *)
(* is open.                                                                  *)
OwnSeq(q, opened, y, es) ==
    \A i \in DOMAIN q : (\A j \in DOMAIN q : i < j => q[j].type # "leave") =>
        /\ q[i].type = "join" => opened
        /\ q[i].type = "update" => opened /\ y # 0 /\ q[i].edits \subseteq es

Mine == \A c \in Clients : OwnSeq(Way(c), open[c], ydoc[c], have[c])

Seated(c) ==
    /\ current[c] # None /\ IsMember(current[c])
    /\ NoLeave(up[current[c]])

Present == \A c \in Clients : Seated(c) => open[c]

(* A Y.Doc with the edits es (or the one that is made when a seed arrives,   *)
(* for y = 0) has the edits r, or q brings them.                             *)
Brings(q, y, es, r) ==
    \E i \in 0..Len(q) :
        /\ IF i = 0 THEN y # 0 ELSE q[i].type = "seed"
        /\ \A e \in r : e \in es
                          \/ \E k \in DOMAIN q : i < k /\ q[k].type = "update" /\ e \in q[k].edits

Brought == \A c \in Clients : Seated(c) /\ link[current[c]] = "up" =>
    Brings(down[current[c]], ydoc[c], have[c], Room)

Empty == (~seeded => baseline = {}) /\ \A c \in Clients : ydoc[c] = 0 => have[c] = {}

(* The hub has e, or will read it in what a session left behind. *)
Known(e) == e \in Room \/ \E s \in Late : Tells(up[s], e)

CompactKnown(q) == \A i \in DOMAIN q : q[i].type = "update" /\ q[i].compaction =>
    \A e \in q[i].edits : Known(e)

Unlost == hurt \cap {"lost", "dropped"} = {}

HaveKnown == \A c \in Clients : \A e \in have[c] : Known(e) \/ Tells(Way(c), e)
DownKnown == \A s \in Sessions : \A i \in DOMAIN down[s] :
    down[s][i].type = "update" => \A e \in down[s][i].edits : Known(e)
UpKnown ==
    /\ \A s \in Sessions : CompactKnown(up[s])
    /\ \A c \in Clients : CompactKnown(out[c])

Accounted == Unlost => HaveKnown /\ DownKnown /\ UpKnown

ConvInv == Linked /\ Mine /\ Present /\ Brought /\ Empty /\ Accounted

----------------------------------------------------------------------------
(* Sequences.                                                               *)

LEMMA TailIndex ==
    ASSUME NEW S, NEW q \in Seq(S), q # <<>>
    PROVE  /\ Tail(q) \in Seq(S) /\ Len(Tail(q)) = Len(q) - 1 /\ Len(q) \in Nat \ {0}
           /\ 1 \in DOMAIN q /\ q[1] = Head(q)
           /\ \A i \in DOMAIN Tail(q) : i + 1 \in DOMAIN q /\ Tail(q)[i] = q[i + 1] /\ i \in Nat
           /\ \A i \in DOMAIN q : i = 1 \/ (i - 1 \in DOMAIN Tail(q) /\ Tail(q)[i - 1] = q[i])
  OBVIOUS

LEMMA ConcatIndex ==
    ASSUME NEW S, NEW p \in Seq(S), NEW q \in Seq(S)
    PROVE  /\ p \o q \in Seq(S) /\ Len(p \o q) = Len(p) + Len(q)
           /\ Len(p) \in Nat /\ Len(q) \in Nat
           /\ \A i \in DOMAIN p : /\ i \in DOMAIN (p \o q) /\ (p \o q)[i] = p[i]
                                  /\ i <= Len(p) /\ i \in Nat
           /\ \A i \in DOMAIN q : i + Len(p) \in DOMAIN (p \o q) /\ (p \o q)[i + Len(p)] = q[i]
           /\ \A i \in DOMAIN (p \o q) :
                 \/ i \in DOMAIN p /\ (p \o q)[i] = p[i]
                 \/ i > Len(p) /\ i - Len(p) \in DOMAIN q /\ (p \o q)[i] = q[i - Len(p)]
<1>1. p \o q \in Seq(S) /\ Len(p \o q) = Len(p) + Len(q) /\ Len(p) \in Nat /\ Len(q) \in Nat
  OBVIOUS
<1>2. \A i \in DOMAIN p : i \in DOMAIN (p \o q) /\ (p \o q)[i] = p[i] /\ i <= Len(p) /\ i \in Nat
  OBVIOUS
<1>3. ASSUME NEW i \in DOMAIN q
      PROVE  i + Len(p) \in DOMAIN (p \o q) /\ (p \o q)[i + Len(p)] = q[i]
  <2>1. i \in 1..Len(q) /\ i + Len(p) \in 1..(Len(p) + Len(q)) /\ i + Len(p) > Len(p)
    BY <1>1
  <2>2. (p \o q)[i + Len(p)] = q[(i + Len(p)) - Len(p)] /\ (i + Len(p)) - Len(p) = i
    BY <1>1, <2>1
  <2> QED
    BY <1>1, <2>1, <2>2
<1>4. ASSUME NEW i \in DOMAIN (p \o q)
      PROVE  \/ i \in DOMAIN p /\ (p \o q)[i] = p[i]
             \/ i > Len(p) /\ i - Len(p) \in DOMAIN q /\ (p \o q)[i] = q[i - Len(p)]
  <2>1. i \in 1..(Len(p) + Len(q))
    BY <1>1
  <2>2. CASE i <= Len(p)
    BY <1>1, <2>1, <2>2
  <2>3. CASE i > Len(p)
    BY <1>1, <2>1, <2>3
  <2> QED
    BY <1>1, <2>1, <2>2, <2>3
<1> QED
  BY <1>1, <1>2, <1>3, <1>4

LEMMA AddIndex ==
    ASSUME NEW S, NEW q \in Seq(S), NEW m \in S
    PROVE  /\ q \o <<m>> \in Seq(S) /\ Len(q \o <<m>>) = Len(q) + 1 /\ Len(q) \in Nat
           /\ \A i \in DOMAIN q : i \in DOMAIN (q \o <<m>>) /\ (q \o <<m>>)[i] = q[i]
                                  /\ i < Len(q) + 1 /\ i \in Nat
           /\ Len(q) + 1 \in DOMAIN (q \o <<m>>) /\ (q \o <<m>>)[Len(q) + 1] = m
           /\ \A i \in DOMAIN (q \o <<m>>) : \/ i \in DOMAIN q /\ (q \o <<m>>)[i] = q[i]
                                             \/ i = Len(q) + 1 /\ (q \o <<m>>)[i] = m
<1> DEFINE p == <<m>>
<1>1. p \in Seq(S) /\ Len(p) = 1 /\ DOMAIN p = {1} /\ p[1] = m
  OBVIOUS
<1> HIDE DEF p
<1>2. /\ q \o p \in Seq(S) /\ Len(q \o p) = Len(q) + 1 /\ Len(q) \in Nat
      /\ \A i \in DOMAIN q : i \in DOMAIN (q \o p) /\ (q \o p)[i] = q[i]
                             /\ i <= Len(q) /\ i \in Nat
      /\ 1 + Len(q) \in DOMAIN (q \o p) /\ (q \o p)[1 + Len(q)] = m
      /\ \A i \in DOMAIN (q \o p) : \/ i \in DOMAIN q /\ (q \o p)[i] = q[i]
                                    \/ /\ i - Len(q) = 1 /\ i \in Nat
                                       /\ (q \o p)[i] = p[i - Len(q)]
  <2>1. \A i \in DOMAIN (q \o p) : i \in Nat
    <3>1. q \o p \in Seq(S)
      BY <1>1, ConcatIndex
    <3> QED
      BY <3>1
  <2> QED
    BY <1>1, <2>1, ConcatIndex
<1>3. /\ 1 + Len(q) = Len(q) + 1
      /\ \A i \in Nat : i - Len(q) = 1 => i = Len(q) + 1
      /\ \A i \in Nat : i <= Len(q) => i < Len(q) + 1
  BY <1>2
<1>4. \A i \in DOMAIN (q \o p) : \/ i \in DOMAIN q /\ (q \o p)[i] = q[i]
                                 \/ i = Len(q) + 1 /\ (q \o p)[i] = m
  BY <1>1, <1>2, <1>3
<1> QED
  BY <1>2, <1>3, <1>4 DEF p

LEMMA EmptyConcat ==
    ASSUME NEW S, NEW q \in Seq(S)
    PROVE  <<>> \o q = q /\ q \o <<>> = q
  OBVIOUS

LEMMA AppendAdds ==
    ASSUME NEW S, NEW q \in Seq(S), NEW m \in S
    PROVE  Append(q, m) = q \o <<m>>
  OBVIOUS

LEMMA SplitIndex ==
    ASSUME NEW S, NEW q \in Seq(S), NEW k \in 0..Len(q)
    PROVE  /\ SubSeq(q, 1, k) \in Seq(S) /\ SubSeq(q, k + 1, Len(q)) \in Seq(S)
           /\ Len(q) \in Nat /\ k \in Nat
           /\ \A i \in DOMAIN SubSeq(q, 1, k) : i \in DOMAIN q /\ SubSeq(q, 1, k)[i] = q[i]
           /\ \A i \in DOMAIN SubSeq(q, k + 1, Len(q)) :
                 i + k \in DOMAIN q /\ SubSeq(q, k + 1, Len(q))[i] = q[i + k] /\ i \in Nat
           /\ \A i \in DOMAIN q :
                 \/ i \in DOMAIN SubSeq(q, 1, k)
                 \/ i - k \in DOMAIN SubSeq(q, k + 1, Len(q)) /\ (i - k) + k = i
<1>1. Len(q) \in Nat /\ k \in Nat /\ k <= Len(q)
  OBVIOUS
<1>2. /\ SubSeq(q, 1, k) \in Seq(S) /\ Len(SubSeq(q, 1, k)) = k
      /\ \A i \in 1..k : SubSeq(q, 1, k)[i] = q[i]
  BY <1>1
<1>3. /\ SubSeq(q, k + 1, Len(q)) \in Seq(S) /\ Len(SubSeq(q, k + 1, Len(q))) = Len(q) - k
      /\ \A i \in 1..(Len(q) - k) : SubSeq(q, k + 1, Len(q))[i] = q[i + k]
  BY <1>1
<1>4. DOMAIN SubSeq(q, 1, k) = 1..k /\ DOMAIN SubSeq(q, k + 1, Len(q)) = 1..(Len(q) - k)
      /\ DOMAIN q = 1..Len(q)
  BY <1>1, <1>2, <1>3
<1> DEFINE l == SubSeq(q, 1, k)
           r == SubSeq(q, k + 1, Len(q))
<1> HIDE DEF l, r
<1>5. \A i \in DOMAIN l : i \in DOMAIN q /\ l[i] = q[i]
  BY <1>1, <1>2, <1>4 DEF l
<1>6. \A i \in DOMAIN r : i + k \in DOMAIN q /\ r[i] = q[i + k] /\ i \in Nat
  <2>1. \A i \in 1..(Len(q) - k) : i \in Nat /\ i + k \in 1..Len(q)
    BY <1>1
  <2>2. DOMAIN r = 1..(Len(q) - k) /\ \A i \in 1..(Len(q) - k) : r[i] = q[i + k]
    BY <1>3, <1>4 DEF r
  <2> QED
    BY <1>4, <2>1, <2>2
<1>7. \A i \in DOMAIN q : i \in DOMAIN l \/ (i - k \in DOMAIN r /\ (i - k) + k = i)
  BY <1>1, <1>4 DEF l, r
<1> QED
  BY <1>1, <1>2, <1>3, <1>5, <1>6, <1>7 DEF l, r

----------------------------------------------------------------------------
(* What a client has on its way to the hub.                                 *)

LEMMA TellsAdd ==
    ASSUME NEW q \in Seq(Telling), NEW m \in Telling, NEW e
    PROVE  Tells(q \o <<m>>, e) <=> Tells(q, e) \/ (Plain(m) /\ e \in m.edits)
<1> DEFINE r == q \o <<m>>
<1>1. /\ \A i \in DOMAIN q : i \in DOMAIN r /\ r[i] = q[i]
      /\ Len(q) + 1 \in DOMAIN r /\ r[Len(q) + 1] = m
      /\ \A i \in DOMAIN r : \/ i \in DOMAIN q /\ r[i] = q[i]
                             \/ i = Len(q) + 1 /\ r[i] = m
  BY AddIndex
<1> HIDE DEF r
<1>2. Tells(r, e) <=> Tells(q, e) \/ (Plain(m) /\ e \in m.edits)
  BY <1>1 DEF Tells
<1> QED
  BY <1>2 DEF r

LEMMA TellsTail ==
    ASSUME NEW q \in Seq(Telling), q # <<>>, NEW e
    PROVE  Tells(q, e) <=> Tells(Tail(q), e) \/ (Plain(Head(q)) /\ e \in Head(q).edits)
<1> DEFINE r == Tail(q)
<1>1. /\ 1 \in DOMAIN q /\ q[1] = Head(q)
      /\ \A i \in DOMAIN r : i + 1 \in DOMAIN q /\ r[i] = q[i + 1]
      /\ \A i \in DOMAIN q : i = 1 \/ (i - 1 \in DOMAIN r /\ r[i - 1] = q[i])
  BY TailIndex
<1> HIDE DEF r
<1>2. Tells(q, e) <=> Tells(r, e) \/ (Plain(Head(q)) /\ e \in Head(q).edits)
  BY <1>1 DEF Tells
<1> QED
  BY <1>2 DEF r

LEMMA TellsSplit ==
    ASSUME NEW q \in Seq(Telling), NEW k \in 0..Len(q), NEW e, Tells(q, e)
    PROVE  Tells(SubSeq(q, 1, k), e) \/ Tells(SubSeq(q, k + 1, Len(q)), e)
<1> DEFINE l == SubSeq(q, 1, k)
           r == SubSeq(q, k + 1, Len(q))
<1>1. /\ \A i \in DOMAIN l : i \in DOMAIN q /\ l[i] = q[i]
      /\ \A i \in DOMAIN r : i + k \in DOMAIN q /\ r[i] = q[i + k]
      /\ \A i \in DOMAIN q : i \in DOMAIN l \/ (i - k \in DOMAIN r /\ (i - k) + k = i)
  BY SplitIndex
<1> HIDE DEF l, r
<1>2. Tells(l, e) \/ Tells(r, e)
  <2>1. PICK i \in DOMAIN q : Plain(q[i]) /\ e \in q[i].edits
    BY DEF Tells
  <2>2. CASE i \in DOMAIN l
    BY <1>1, <2>1, <2>2 DEF Tells
  <2>3. CASE i - k \in DOMAIN r /\ (i - k) + k = i
    <3>1. r[i - k] = q[i]
      BY <1>1, <2>3
    <3> QED
      BY <2>1, <2>3, <3>1 DEF Tells
  <2> QED
    BY <1>1, <2>2, <2>3
<1> QED
  BY <1>2 DEF l, r

(* A join put before a queue shifts what is in it.                           *)
LEMMA JoinedIndex ==
    ASSUME NEW q \in Seq(Telling), NEW r, r = <<Join>> \o q
    PROVE  /\ Join.type = "join"
           /\ \A i \in DOMAIN q : i + 1 \in DOMAIN r /\ r[i + 1] = q[i] /\ i \in Nat
           /\ \A i \in DOMAIN r :
                 /\ i \in Nat
                 /\ (i = 1 /\ r[i] = Join) \/ (i - 1 \in DOMAIN q /\ r[i] = q[i - 1])
<1> DEFINE p == <<Join>>
<1>1. /\ p \in Seq(Telling) /\ Len(p) = 1 /\ p[1] = Join /\ DOMAIN p = {1}
      /\ Join.type = "join" /\ r = p \o q
  BY MsgFacts DEF Join
<1> HIDE DEF p
<1>2. /\ \A i \in DOMAIN q : i + Len(p) \in DOMAIN r /\ r[i + Len(p)] = q[i]
      /\ \A i \in DOMAIN r : \/ i \in DOMAIN p /\ r[i] = p[i]
                             \/ i - Len(p) \in DOMAIN q /\ r[i] = q[i - Len(p)]
      /\ r \in Seq(Telling)
  BY <1>1, ConcatIndex
<1>3. (\A i \in DOMAIN q : i \in Nat) /\ \A i \in DOMAIN r : i \in Nat
  BY <1>2
<1> QED
  BY <1>1, <1>2, <1>3

LEMMA TellsJoined ==
    ASSUME NEW q \in Seq(Telling), NEW e
    PROVE  Tells(<<Join>> \o q, e) <=> Tells(q, e)
<1> SUFFICES ASSUME NEW r, r = <<Join>> \o q PROVE Tells(r, e) <=> Tells(q, e)
  OBVIOUS
<1>1. /\ \A i \in DOMAIN q : i + 1 \in DOMAIN r /\ r[i + 1] = q[i]
      /\ \A i \in DOMAIN r : \/ r[i].type = "join"
                             \/ i - 1 \in DOMAIN q /\ r[i] = q[i - 1]
  BY JoinedIndex
<1> QED
  BY <1>1 DEF Tells, Plain

(* More is sent. *)
LEMMA OwnAdd ==
    ASSUME NEW q \in Seq(Telling), NEW m \in Telling,
           NEW o, NEW y, NEW es, NEW o2, NEW y2, NEW es2,
           OwnSeq(q, o, y, es),
           m.type = "leave" \/ (/\ o => o2
                                /\ o /\ y # 0 => y2 # 0 /\ es \subseteq es2),
           m.type = "join" => o2,
           m.type = "update" => o2 /\ y2 # 0 /\ m.edits \subseteq es2
    PROVE  OwnSeq(q \o <<m>>, o2, y2, es2)
<1> DEFINE r == q \o <<m>>
<1>1. /\ \A i \in DOMAIN q : i \in DOMAIN r /\ r[i] = q[i] /\ i < Len(q) + 1
      /\ Len(q) + 1 \in DOMAIN r /\ r[Len(q) + 1] = m
      /\ \A i \in DOMAIN r : \/ i \in DOMAIN q /\ r[i] = q[i]
                             \/ i = Len(q) + 1 /\ r[i] = m
  BY AddIndex
<1> HIDE DEF r
<1>2. OwnSeq(r, o2, y2, es2)
  <2> SUFFICES ASSUME NEW i \in DOMAIN r, \A j \in DOMAIN r : i < j => r[j].type # "leave"
               PROVE  /\ r[i].type = "join" => o2
                      /\ r[i].type = "update" => o2 /\ y2 # 0 /\ r[i].edits \subseteq es2
    BY DEF OwnSeq
  <2>1. CASE i \in DOMAIN q /\ r[i] = q[i]
    <3>1. m.type # "leave" /\ \A j \in DOMAIN q : i < j => q[j].type # "leave"
      BY <1>1, <2>1
    <3>2. /\ q[i].type = "join" => o
          /\ q[i].type = "update" => o /\ y # 0 /\ q[i].edits \subseteq es
      BY <2>1, <3>1 DEF OwnSeq
    <3> QED
      BY <2>1, <3>1, <3>2
  <2>2. CASE i = Len(q) + 1 /\ r[i] = m
    BY <2>2
  <2> QED
    BY <1>1, <2>1, <2>2
<1> QED
  BY <1>2 DEF r

LEMMA OwnTail ==
    ASSUME NEW q \in Seq(Telling), q # <<>>, NEW o, NEW y, NEW es, OwnSeq(q, o, y, es)
    PROVE  OwnSeq(Tail(q), o, y, es)
<1> DEFINE r == Tail(q)
<1>1. /\ \A i \in DOMAIN r : i + 1 \in DOMAIN q /\ r[i] = q[i + 1] /\ i \in Nat
      /\ \A i \in DOMAIN q : i = 1 \/ (i - 1 \in DOMAIN r /\ r[i - 1] = q[i])
      /\ \A i \in DOMAIN q : i \in Nat
  BY TailIndex
<1> HIDE DEF r
<1>2. OwnSeq(r, o, y, es)
  <2> SUFFICES ASSUME NEW i \in DOMAIN r, \A j \in DOMAIN r : i < j => r[j].type # "leave"
               PROVE  /\ r[i].type = "join" => o
                      /\ r[i].type = "update" => o /\ y # 0 /\ r[i].edits \subseteq es
    BY DEF OwnSeq
  <2>1. ASSUME NEW j \in DOMAIN q, i + 1 < j PROVE q[j].type # "leave"
    <3>1. j \in Nat /\ i \in Nat
      BY <1>1
    <3>2. j # 1 /\ i < j - 1
      BY <2>1, <3>1
    <3> QED
      BY <1>1, <3>2
  <2> QED
    BY <1>1, <2>1 DEF OwnSeq
<1> QED
  BY <1>2 DEF r

LEMMA OwnSplit ==
    ASSUME NEW q \in Seq(Telling), NEW k \in 0..Len(q), NEW o, NEW y, NEW es, OwnSeq(q, o, y, es)
    PROVE  OwnSeq(SubSeq(q, k + 1, Len(q)), o, y, es)
<1> DEFINE l == SubSeq(q, 1, k)
           r == SubSeq(q, k + 1, Len(q))
<1>1. /\ \A i \in DOMAIN l : i \in DOMAIN q /\ l[i] = q[i] /\ i <= k
      /\ \A i \in DOMAIN r : i + k \in DOMAIN q /\ r[i] = q[i + k] /\ i \in Nat
      /\ \A i \in DOMAIN q : i \in DOMAIN l \/ (i - k \in DOMAIN r /\ (i - k) + k = i)
      /\ k \in Nat /\ \A i \in DOMAIN q : i \in Nat
  <2>1. \A i \in DOMAIN l : i <= k
    OBVIOUS
  <2> HIDE DEF l, r
  <2> QED
    BY <2>1, SplitIndex DEF l, r
<1> HIDE DEF l, r
<1>2. OwnSeq(r, o, y, es)
  <2> SUFFICES ASSUME NEW i \in DOMAIN r, \A j \in DOMAIN r : i < j => r[j].type # "leave"
               PROVE  /\ r[i].type = "join" => o
                      /\ r[i].type = "update" => o /\ y # 0 /\ r[i].edits \subseteq es
    BY DEF OwnSeq
  <2>1. ASSUME NEW j \in DOMAIN q, i + k < j PROVE q[j].type # "leave"
    <3>1. j \in Nat /\ i \in Nat /\ k \in Nat
      BY <1>1
    <3>2. j > k /\ i < j - k
      BY <2>1, <3>1
    <3>3. j - k \in DOMAIN r /\ r[j - k] = q[(j - k) + k] /\ (j - k) + k = j
      BY <1>1, <3>1, <3>2
    <3> QED
      BY <3>2, <3>3
  <2> QED
    BY <1>1, <2>1 DEF OwnSeq
<1> QED
  BY <1>2 DEF r

LEMMA OwnJoined ==
    ASSUME NEW q \in Seq(Telling), NEW o, NEW y, NEW es, OwnSeq(q, o, y, es), o
    PROVE  OwnSeq(<<Join>> \o q, o, y, es)
<1> SUFFICES ASSUME NEW r, r = <<Join>> \o q PROVE OwnSeq(r, o, y, es)
  OBVIOUS
<1>1. /\ \A i \in DOMAIN q : i + 1 \in DOMAIN r /\ r[i + 1] = q[i] /\ i \in Nat
      /\ \A i \in DOMAIN r : \/ r[i].type = "join"
                             \/ i - 1 \in DOMAIN q /\ r[i] = q[i - 1] /\ i \in Nat
  BY JoinedIndex
<1> SUFFICES ASSUME NEW i \in DOMAIN r, \A j \in DOMAIN r : i < j => r[j].type # "leave"
             PROVE  /\ r[i].type = "join" => o
                    /\ r[i].type = "update" => o /\ y # 0 /\ r[i].edits \subseteq es
  BY DEF OwnSeq
<1>2. CASE r[i].type = "join"
  BY <1>2
<1>3. CASE i - 1 \in DOMAIN q /\ r[i] = q[i - 1] /\ i \in Nat
  <2>1. ASSUME NEW j \in DOMAIN q, i - 1 < j PROVE q[j].type # "leave"
    <3>1. j \in Nat /\ i < j + 1
      BY <1>1, <1>3, <2>1
    <3> QED
      BY <1>1, <3>1
  <2> QED
    BY <1>3, <2>1 DEF OwnSeq
<1> QED
  BY <1>1, <1>2, <1>3

LEMMA NoLeaveAdd ==
    ASSUME NEW q \in Seq(Telling), NEW m \in Telling
    PROVE  NoLeave(q \o <<m>>) <=> NoLeave(q) /\ m.type # "leave"
<1> DEFINE r == q \o <<m>>
<1>1. /\ \A i \in DOMAIN q : i \in DOMAIN r /\ r[i] = q[i]
      /\ Len(q) + 1 \in DOMAIN r /\ r[Len(q) + 1] = m
      /\ \A i \in DOMAIN r : \/ i \in DOMAIN q /\ r[i] = q[i]
                             \/ i = Len(q) + 1 /\ r[i] = m
  BY AddIndex
<1> HIDE DEF r
<1>2. NoLeave(r) <=> NoLeave(q) /\ m.type # "leave"
  BY <1>1 DEF NoLeave
<1> QED
  BY <1>2 DEF r

LEMMA NoLeaveTail ==
    ASSUME NEW q \in Seq(Telling), q # <<>>
    PROVE  NoLeave(q) <=> NoLeave(Tail(q)) /\ Head(q).type # "leave"
<1> DEFINE r == Tail(q)
<1>1. /\ 1 \in DOMAIN q /\ q[1] = Head(q)
      /\ \A i \in DOMAIN r : i + 1 \in DOMAIN q /\ r[i] = q[i + 1]
      /\ \A i \in DOMAIN q : i = 1 \/ (i - 1 \in DOMAIN r /\ r[i - 1] = q[i])
  BY TailIndex
<1> HIDE DEF r
<1>2. NoLeave(q) <=> NoLeave(r) /\ Head(q).type # "leave"
  BY <1>1 DEF NoLeave
<1> QED
  BY <1>2 DEF r

----------------------------------------------------------------------------
(* Sessions and their clients.                                              *)

LEMMA LinkedKept ==
    ASSUME Linked, Channels, UNCHANGED <<current, clientOf, link, hubUp>>,
           \A s \in Sessions : link[s] # "up" => down'[s] = down[s],
           \A c \in Clients : current[c] # None => out'[c] = out[c]
    PROVE  Linked'
  BY DEF Linked

LEMMA SentFacts ==
    ASSUME Linked, Channels, NEW c \in Clients, NEW m \in Telling, Send(c, <<m>>),
           UNCHANGED <<current, clientOf, hubUp, members>>
    PROVE  /\ Way(c)' = Way(c) \o <<m>> /\ Way(c) \in Seq(Telling)
           /\ \A d \in Clients : d # c => Way(d)' = Way(d) /\ out'[d] = out[d]
           /\ Late' = Late /\ \A s \in Late : up'[s] = up[s]
           /\ \A s \in Sessions : \/ up'[s] = up[s]
                                  \/ up'[s] = up[s] \o <<m>> /\ s = current[c]
           /\ out'[c] = out[c] \/ (out'[c] = out[c] \o <<m>> /\ current[c] = None)
           /\ Seated(c)' <=> Seated(c) /\ m.type # "leave"
           /\ \A d \in Clients : d # c => (Seated(d)' <=> Seated(d))
<1>1. Late' = Late
  BY DEF Late
<1>2. CASE current[c] = None
  <2>1. out' = [out EXCEPT ![c] = out[c] \o <<m>>] /\ up' = up
    BY <1>2 DEF Send
  <2>2. out'[c] = out[c] \o <<m>> /\ \A d \in Clients : d # c => out'[d] = out[d]
    BY <2>1 DEF Channels
  <2>3. Way(c)' = Way(c) \o <<m>> /\ Way(c) \in Seq(Telling)
    BY <1>2, <2>2 DEF Way, Channels
  <2>4. \A d \in Clients : d # c => Way(d)' = Way(d)
    BY <2>1, <2>2 DEF Way
  <2>5. \A d \in Clients : Seated(d)' <=> Seated(d)
    BY <2>1 DEF Seated, IsMember
  <2>6. ~Seated(c)
    BY <1>2 DEF Seated
  <2> QED
    BY <1>1, <1>2, <2>1, <2>2, <2>3, <2>4, <2>5, <2>6
<1>3. CASE current[c] # None
  <2>1. PICK s \in Sessions : s = current[c]
    BY <1>3 DEF Channels
  <2>2. up' = [up EXCEPT ![s] = up[s] \o <<m>>] /\ out' = out
    BY <1>3, <2>1 DEF Send
  <2>3. up'[s] = up[s] \o <<m>> /\ \A u \in Sessions : u # s => up'[u] = up[u]
    BY <2>2 DEF Channels
  <2>4. clientOf[s] = c /\ s # None
    BY <1>3, <2>1 DEF Linked
  <2>5. \A d \in Clients : d # c => current[d] # s
    BY <2>4 DEF Linked
  <2>6. s \notin Late
    BY <2>1, <2>4 DEF Late
  <2>7. \A u \in Late : up'[u] = up[u]
    BY <2>3, <2>6 DEF Late, Channels
  <2>8. Way(c)' = Way(c) \o <<m>> /\ Way(c) \in Seq(Telling)
    BY <2>1, <2>3, <2>4 DEF Way, Channels
  <2>9. \A d \in Clients : d # c => Way(d)' = Way(d)
    BY <2>2, <2>3, <2>5 DEF Way, Channels
  <2>10. \A d \in Clients : d # c => (Seated(d)' <=> Seated(d))
    BY <2>3, <2>5 DEF Seated, IsMember, Channels
  <2>11. Seated(c)' <=> Seated(c) /\ m.type # "leave"
    <3>1. up[s] \in Seq(Telling)
      BY DEF Channels
    <3>2. NoLeave(up[s] \o <<m>>) <=> NoLeave(up[s]) /\ m.type # "leave"
      BY <3>1, NoLeaveAdd
    <3> QED
      BY <2>1, <2>3, <3>2 DEF Seated, IsMember
  <2> QED
    BY <1>1, <2>1, <2>2, <2>3, <2>7, <2>8, <2>9, <2>10, <2>11
<1> QED
  BY <1>2, <1>3

LEMMA StillFacts ==
    ASSUME UNCHANGED <<current, clientOf, hubUp, members, up, out>>
    PROVE  /\ \A c \in Clients : Way(c)' = Way(c) /\ (Seated(c)' <=> Seated(c))
           /\ Late' = Late
  BY DEF Way, Seated, IsMember, Late

LEMMA ReadFacts ==
    ASSUME Linked, Channels, NEW s \in Sessions, NEW type, Reading(s, type)
    PROVE  /\ up[s] \in Seq(Telling) /\ up[s] # <<>> /\ Head(up[s]) \in Telling
           /\ Head(up[s]).type = type /\ s \in hubUp /\ clientOf[s] \in Clients
           /\ up'[s] = Tail(up[s]) /\ \A u \in Sessions : u # s => up'[u] = up[u]
           /\ Late' = Late
           /\ \A c \in Clients : /\ current[c] = s => /\ c = clientOf[s] /\ Way(c) = up[s]
                                                      /\ Way(c)' = Tail(up[s])
                                 /\ current[c] # s => Way(c)' = Way(c)
<1>1. /\ up[s] \in Seq(Telling) /\ up[s] # <<>> /\ Head(up[s]) \in Telling
      /\ Head(up[s]).type = type /\ s \in hubUp /\ clientOf[s] \in Clients
  BY ReadingFacts DEF Reading, Channels, Linked
<1>2. up'[s] = Tail(up[s]) /\ \A u \in Sessions : u # s => up'[u] = up[u]
  BY DEF Reading, Channels
<1>3. Late' = Late
  BY DEF Reading, Late
<1>4. ASSUME NEW c \in Clients, current[c] = s
      PROVE  c = clientOf[s] /\ Way(c) = up[s] /\ Way(c)' = Tail(up[s])
  BY <1>2, <1>4, DocsAssumption DEF Linked, Way, Reading
<1>5. ASSUME NEW c \in Clients, current[c] # s
      PROVE  Way(c)' = Way(c)
  <2>1. UNCHANGED <<out, current>>
    BY DEF Reading
  <2>2. current[c] # None => up'[current[c]] = up[current[c]]
    BY <1>2, <1>5 DEF Channels
  <2> QED
    BY <2>1, <2>2 DEF Way
<1> QED
  BY <1>1, <1>2, <1>3, <1>4, <1>5

----------------------------------------------------------------------------
(* What is known stays known.                                               *)

LEMMA KnownKept ==
    ASSUME Room \subseteq Room',
           \A s \in Late : \A e : Tells(up[s], e) =>
               e \in Room' \/ \E u \in Late' : Tells(up'[u], e)
    PROVE  \A e : Known(e) => Known(e)'
  BY DEF Known

LEMMA KnownSame ==
    ASSUME Room' = Room, Late' = Late, \A s \in Late : up'[s] = up[s]
    PROVE  \A e : Known(e) => Known(e)'
  BY DEF Known

(* Messages that come down are those that have been on their way.            *)
Fewer == \A s \in Sessions : \A j \in DOMAIN down'[s] :
    \E i \in DOMAIN down[s] : down'[s][j] = down[s][i]

LEMMA FewerKnown ==
    ASSUME DownKnown, Fewer, \A e : Known(e) => Known(e)'
    PROVE  DownKnown'
<1> SUFFICES ASSUME NEW s \in Sessions, NEW j \in DOMAIN down'[s], down'[s][j].type = "update",
                    NEW e \in down'[s][j].edits
             PROVE  Known(e)'
  BY DEF DownKnown
<1>1. PICK i \in DOMAIN down[s] : down'[s][j] = down[s][i]
  BY DEF Fewer
<1>2. Known(e)
  BY <1>1 DEF DownKnown
<1> QED
  BY <1>2

LEMMA CompactAdd ==
    ASSUME NEW q \in Seq(Telling), NEW m \in Telling, CompactKnown(q),
           \A e : Known(e) => Known(e)',
           m.type = "update" /\ m.compaction => \A e \in m.edits : Known(e)'
    PROVE  \A r : r = q \o <<m>> => \A i \in DOMAIN r : r[i].type = "update" /\ r[i].compaction =>
              \A e \in r[i].edits : Known(e)'
<1> SUFFICES ASSUME NEW r, r = q \o <<m>>, NEW i \in DOMAIN r,
                    r[i].type = "update" /\ r[i].compaction, NEW e \in r[i].edits
             PROVE  Known(e)'
  OBVIOUS
<1>1. \/ i \in DOMAIN q /\ r[i] = q[i]
      \/ r[i] = m
  BY AddIndex
<1>2. CASE i \in DOMAIN q /\ r[i] = q[i]
  BY <1>2 DEF CompactKnown
<1>3. CASE r[i] = m
  BY <1>3
<1> QED
  BY <1>1, <1>2, <1>3

LEMMA CompactPart ==
    ASSUME NEW q, NEW r, CompactKnown(q),
           \A j \in DOMAIN r : \E i \in DOMAIN q : r[j] = q[i],
           \A e : Known(e) => Known(e)'
    PROVE  \A i \in DOMAIN r : r[i].type = "update" /\ r[i].compaction =>
              \A e \in r[i].edits : Known(e)'
<1> SUFFICES ASSUME NEW j \in DOMAIN r, r[j].type = "update", r[j].compaction, NEW e \in r[j].edits
             PROVE  Known(e)'
  OBVIOUS
<1>1. PICK i \in DOMAIN q : r[j] = q[i]
  OBVIOUS
<1> QED
  BY <1>1 DEF CompactKnown

LEMMA SentAccounts ==
    ASSUME DocInv, Linked, Accounted, NEW c \in Clients, NEW m \in Telling, Send(c, <<m>>),
           UNCHANGED <<current, clientOf, hubUp, members, baseline, log>>, hurt \subseteq hurt',
           \A d \in Clients : d # c => have'[d] = have[d],
           \A e \in have'[c] : e \in have[c] \/ (Plain(m) /\ e \in m.edits),
           Unlost /\ m.type = "update" /\ m.compaction => \A e \in m.edits : Known(e),
           Fewer
    PROVE  Accounted'
<1> SUFFICES ASSUME Unlost' PROVE HaveKnown' /\ DownKnown' /\ UpKnown'
  BY DEF Accounted
<1>0. Channels /\ EditorTypes
  BY DEF DocInv
<1>1. Unlost /\ HaveKnown /\ DownKnown /\ UpKnown
  BY DEF Unlost, Accounted
<1>2. /\ Way(c)' = Way(c) \o <<m>> /\ Way(c) \in Seq(Telling)
      /\ \A d \in Clients : d # c => Way(d)' = Way(d) /\ out'[d] = out[d]
      /\ Late' = Late /\ \A s \in Late : up'[s] = up[s]
      /\ \A s \in Sessions : \/ up'[s] = up[s]
                             \/ up'[s] = up[s] \o <<m>> /\ s = current[c]
      /\ out'[c] = out[c] \/ (out'[c] = out[c] \o <<m>> /\ current[c] = None)
  BY <1>0, SentFacts
<1>3. \A e : Known(e) => Known(e)'
  BY <1>2, KnownSame DEF Room
<1>4. HaveKnown'
  <2> SUFFICES ASSUME NEW d \in Clients, NEW e \in have'[d]
               PROVE  Known(e)' \/ Tells(Way(d)', e)
    BY DEF HaveKnown
  <2>1. CASE d # c
    BY <1>1, <1>2, <1>3, <2>1 DEF HaveKnown
  <2>2. CASE d = c
    <3>1. Tells(Way(c) \o <<m>>, e) <=> Tells(Way(c), e) \/ (Plain(m) /\ e \in m.edits)
      BY <1>2, TellsAdd
    <3> QED
      BY <1>1, <1>2, <1>3, <2>2, <3>1 DEF HaveKnown
  <2> QED
    BY <2>1, <2>2
<1>5. DownKnown'
  BY <1>1, <1>3, FewerKnown
<1>6. m.type = "update" /\ m.compaction => \A e \in m.edits : Known(e)'
  BY <1>1, <1>3
<1>7. ASSUME NEW q \in Seq(Telling), CompactKnown(q), NEW r, r = q \/ r = q \o <<m>>
      PROVE  \A i \in DOMAIN r : r[i].type = "update" /\ r[i].compaction =>
                \A e \in r[i].edits : Known(e)'
  <2>1. CASE r = q
    BY <1>3, <1>7, <2>1 DEF CompactKnown
  <2>2. CASE r = q \o <<m>>
    BY <1>3, <1>6, <1>7, <2>2, CompactAdd
  <2> QED
    BY <1>7, <2>1, <2>2
<1>8. UpKnown'
  <2>1. ASSUME NEW s \in Sessions PROVE CompactKnown(up[s])'
    <3>1. up[s] \in Seq(Telling) /\ CompactKnown(up[s])
      BY <1>0, <1>1 DEF Channels, UpKnown
    <3>2. up'[s] = up[s] \/ up'[s] = up[s] \o <<m>>
      BY <1>2
    <3> QED
      BY <1>7, <3>1, <3>2 DEF CompactKnown
  <2>2. ASSUME NEW d \in Clients PROVE CompactKnown(out[d])'
    <3>1. out[d] \in Seq(Telling) /\ CompactKnown(out[d])
      BY <1>0, <1>1 DEF Channels, UpKnown
    <3>2. out'[d] = out[d] \/ out'[d] = out[d] \o <<m>>
      BY <1>2
    <3> QED
      BY <1>7, <3>1, <3>2 DEF CompactKnown
  <2> QED
    BY <2>1, <2>2 DEF UpKnown
<1> QED
  BY <1>4, <1>5, <1>8

LEMMA StillAccounts ==
    ASSUME Accounted,
           UNCHANGED <<current, clientOf, hubUp, members, baseline, log, up, out>>,
           hurt \subseteq hurt', Fewer,
           \A c \in Clients : \A e \in have'[c] : e \in have[c] \/ (Unlost => Known(e))
    PROVE  Accounted'
<1> SUFFICES ASSUME Unlost' PROVE HaveKnown' /\ DownKnown' /\ UpKnown'
  BY DEF Accounted
<1>1. Unlost /\ HaveKnown /\ DownKnown /\ UpKnown
  BY DEF Unlost, Accounted
<1>2. Late' = Late /\ \A c \in Clients : Way(c)' = Way(c)
  BY StillFacts
<1>3. \A e : Known(e) => Known(e)'
  BY <1>2, KnownSame DEF Room
<1>4. HaveKnown'
  BY <1>1, <1>2, <1>3 DEF HaveKnown
<1>5. DownKnown'
  BY <1>1, <1>3, FewerKnown
<1>6. UpKnown'
  BY <1>1, <1>3 DEF UpKnown, CompactKnown
<1> QED
  BY <1>4, <1>5, <1>6

----------------------------------------------------------------------------
(* What comes down.                                                         *)

LEMMA BringsKept ==
    ASSUME NEW q, NEW y, NEW es, NEW r, Brings(q, y, es, r),
           NEW y2, NEW es2, y # 0 => y2 # 0, es \subseteq es2
    PROVE  Brings(q, y2, es2, r)
<1>1. PICK i \in 0..Len(q) :
         /\ IF i = 0 THEN y # 0 ELSE q[i].type = "seed"
         /\ \A e \in r : e \in es
                           \/ \E k \in DOMAIN q : i < k /\ q[k].type = "update" /\ e \in q[k].edits
  BY DEF Brings
<1>2. IF i = 0 THEN y2 # 0 ELSE q[i].type = "seed"
  BY <1>1
<1>3. \A e \in r : e \in es2
                     \/ \E k \in DOMAIN q : i < k /\ q[k].type = "update" /\ e \in q[k].edits
  BY <1>1
<1> QED
  BY <1>2, <1>3 DEF Brings

LEMMA BringsMore ==
    ASSUME NEW q \in Seq(DownMsgs), NEW p \in Seq(DownMsgs), NEW y, NEW es, NEW r, NEW r2,
           Brings(q, y, es, r),
           \A e \in r2 : \/ e \in r \/ e \in es
                         \/ \E k \in DOMAIN p : p[k].type = "update" /\ e \in p[k].edits
    PROVE  Brings(q \o p, y, es, r2)
<1> DEFINE t == q \o p
<1>1. /\ Len(t) = Len(q) + Len(p) /\ Len(p) \in Nat /\ Len(q) \in Nat
      /\ \A i \in DOMAIN q : i \in DOMAIN t /\ t[i] = q[i]
      /\ \A i \in DOMAIN p : i + Len(q) \in DOMAIN t /\ t[i + Len(q)] = p[i] /\ i \in Nat
      /\ DOMAIN q = 1..Len(q) /\ DOMAIN p = 1..Len(p)
  BY ConcatIndex
<1> HIDE DEF t
<1>2. PICK i \in 0..Len(q) :
         /\ IF i = 0 THEN y # 0 ELSE q[i].type = "seed"
         /\ \A e \in r : e \in es
                           \/ \E k \in DOMAIN q : i < k /\ q[k].type = "update" /\ e \in q[k].edits
  BY DEF Brings
<1>3. i \in 0..Len(t) /\ IF i = 0 THEN y # 0 ELSE t[i].type = "seed"
  BY <1>1, <1>2
<1>4. ASSUME NEW e \in r2
      PROVE  e \in es \/ \E k \in DOMAIN t : i < k /\ t[k].type = "update" /\ e \in t[k].edits
  <2>1. CASE e \in r
    BY <1>1, <1>2, <2>1
  <2>2. CASE \E k \in DOMAIN p : p[k].type = "update" /\ e \in p[k].edits
    <3>1. PICK k \in DOMAIN p : p[k].type = "update" /\ e \in p[k].edits
      BY <2>2
    <3>2. k + Len(q) \in DOMAIN t /\ t[k + Len(q)] = p[k] /\ i < k + Len(q)
      BY <1>1
    <3> QED
      BY <3>1, <3>2
  <2> QED
    BY <2>1, <2>2
<1>5. Brings(t, y, es, r2)
  BY <1>3, <1>4 DEF Brings
<1> QED
  BY <1>5 DEF t

(* The next message is taken: a seed makes a Y.Doc unless there is one, an   *)
(* update is applied if there is one.                                        *)
LEMMA BringsNext ==
    ASSUME NEW q \in Seq(DownMsgs), q # <<>>, NEW y, NEW es, NEW r, Brings(q, y, es, r),
           NEW y2, NEW es2, es \subseteq es2, y # 0 => y2 # 0,
           Head(q).type = "seed" => y2 # 0,
           Head(q).type = "update" /\ y # 0 => Head(q).edits \subseteq es2
    PROVE  Brings(Tail(q), y2, es2, r)
<1> DEFINE t == Tail(q)
<1>1. /\ Len(t) = Len(q) - 1 /\ Len(q) \in Nat \ {0}
      /\ 1 \in DOMAIN q /\ q[1] = Head(q)
      /\ \A i \in DOMAIN t : i + 1 \in DOMAIN q /\ t[i] = q[i + 1]
      /\ \A i \in DOMAIN q : i = 1 \/ (i - 1 \in DOMAIN t /\ t[i - 1] = q[i])
      /\ DOMAIN q = 1..Len(q)
  BY TailIndex
<1> HIDE DEF t
<1>2. PICK i \in 0..Len(q) :
         /\ IF i = 0 THEN y # 0 ELSE q[i].type = "seed"
         /\ \A e \in r : e \in es
                           \/ \E k \in DOMAIN q : i < k /\ q[k].type = "update" /\ e \in q[k].edits
  BY DEF Brings
<1>3. CASE i = 0
  <2>1. y # 0 /\ y2 # 0
    BY <1>2, <1>3
  <2>2. ASSUME NEW e \in r
        PROVE  e \in es2 \/ \E k \in DOMAIN t : 0 < k /\ t[k].type = "update" /\ e \in t[k].edits
    <3>1. CASE e \in es
      BY <3>1
    <3>2. CASE \E k \in DOMAIN q : q[k].type = "update" /\ e \in q[k].edits
      <4>1. PICK k \in DOMAIN q : q[k].type = "update" /\ e \in q[k].edits
        BY <3>2
      <4>2. CASE k = 1
        BY <1>1, <2>1, <4>1, <4>2
      <4>3. CASE k # 1
        <5>1. k - 1 \in DOMAIN t /\ t[k - 1] = q[k] /\ 0 < k - 1
          BY <1>1, <4>3
        <5> QED
          BY <4>1, <5>1
      <4> QED
        BY <4>2, <4>3
    <3> QED
      BY <1>2, <3>1, <3>2
  <2>3. 0 \in 0..Len(t)
    BY <1>1
  <2> QED
    BY <2>1, <2>2, <2>3 DEF Brings, t
<1>4. CASE i # 0
  <2>1. i - 1 \in 0..Len(t) /\ i \in Nat
    BY <1>1, <1>4
  <2>2. IF i - 1 = 0 THEN y2 # 0 ELSE t[i - 1].type = "seed"
    <3>1. CASE i = 1
      BY <1>1, <1>2, <3>1
    <3>2. CASE i # 1
      BY <1>1, <1>2, <1>4, <2>1, <3>2
    <3> QED
      BY <3>1, <3>2
  <2>3. ASSUME NEW e \in r
        PROVE  e \in es2
                 \/ \E k \in DOMAIN t : i - 1 < k /\ t[k].type = "update" /\ e \in t[k].edits
    <3>1. CASE e \in es
      BY <3>1
    <3>2. CASE \E k \in DOMAIN q : i < k /\ q[k].type = "update" /\ e \in q[k].edits
      <4>1. PICK k \in DOMAIN q : i < k /\ q[k].type = "update" /\ e \in q[k].edits
        BY <3>2
      <4>2. k # 1 /\ i - 1 < k - 1
        BY <1>1, <1>4, <2>1, <4>1
      <4>3. k - 1 \in DOMAIN t /\ t[k - 1] = q[k]
        BY <1>1, <4>2
      <4> QED
        BY <4>1, <4>2, <4>3
    <3> QED
      BY <1>2, <3>1, <3>2
  <2> QED
    BY <2>1, <2>2, <2>3 DEF Brings, t
<1> QED
  BY <1>3, <1>4

----------------------------------------------------------------------------
(* Steps of the clients.                                                    *)

LEMMA SentConv ==
    ASSUME DocInv, ConvInv, NEW c \in Clients, NEW m \in Telling, Send(c, <<m>>),
           UNCHANGED <<current, clientOf, link, hubUp, members, seeded, baseline, log>>,
           hurt \subseteq hurt',
           \A d \in Clients : d # c =>
               open'[d] = open[d] /\ ydoc'[d] = ydoc[d] /\ have'[d] = have[d],
           m.type = "leave" \/ (/\ open[c] => open'[c]
                                /\ ydoc[c] # 0 => ydoc'[c] # 0 /\ have[c] \subseteq have'[c]),
           m.type = "join" => open'[c],
           m.type = "update" => open'[c] /\ ydoc'[c] # 0 /\ m.edits \subseteq have'[c],
           ydoc'[c] = 0 => have'[c] = {},
           \A e \in have'[c] : e \in have[c] \/ (Plain(m) /\ e \in m.edits),
           Unlost /\ m.type = "update" /\ m.compaction => \A e \in m.edits : Known(e),
           Fewer, \A s \in Sessions : link[s] # "up" => down'[s] = down[s],
           \A d \in Clients : Seated(d) /\ Seated(d)' /\ link[current[d]] = "up" =>
               Brings(down'[current[d]], ydoc'[d], have'[d], Room)
    PROVE  ConvInv'
<1>0. Channels /\ EditorTypes /\ Linked /\ Mine /\ Present /\ Brought /\ Empty /\ Accounted
  BY DEF DocInv, ConvInv
<1>1. /\ Way(c)' = Way(c) \o <<m>> /\ Way(c) \in Seq(Telling)
      /\ \A d \in Clients : d # c => Way(d)' = Way(d) /\ out'[d] = out[d]
      /\ out'[c] = out[c] \/ (out'[c] = out[c] \o <<m>> /\ current[c] = None)
      /\ Seated(c)' <=> Seated(c) /\ m.type # "leave"
      /\ \A d \in Clients : d # c => (Seated(d)' <=> Seated(d))
  BY <1>0, SentFacts
<1>2. Linked'
  <2>1. \A d \in Clients : current[d] # None => out'[d] = out[d]
    BY <1>1
  <2> QED
    BY <1>0, <2>1, LinkedKept
<1>3. Mine'
  <2> SUFFICES ASSUME NEW d \in Clients, NEW w, w = Way(d)'
               PROVE  OwnSeq(w, open'[d], ydoc'[d], have'[d])
    BY DEF Mine
  <2>1. OwnSeq(Way(d), open[d], ydoc[d], have[d])
    BY <1>0 DEF Mine
  <2>2. CASE d # c
    BY <1>1, <2>1, <2>2
  <2>3. CASE d = c
    <3>1. OwnSeq(Way(c) \o <<m>>, open'[c], ydoc'[c], have'[c])
      BY <1>1, <2>1, <2>3, OwnAdd
    <3> QED
      BY <1>1, <2>3, <3>1
  <2> QED
    BY <2>2, <2>3
<1>4. Present'
  <2> SUFFICES ASSUME NEW d \in Clients, Seated(d)' PROVE open'[d]
    BY DEF Present
  <2>1. Seated(d) /\ open[d]
    BY <1>0, <1>1 DEF Present
  <2> QED
    BY <1>1, <2>1
<1>5. Brought'
  <2> SUFFICES ASSUME NEW d \in Clients, Seated(d)', link'[current'[d]] = "up"
               PROVE  Brings(down'[current'[d]], ydoc'[d], have'[d], Room')
    BY DEF Brought, Brings
  <2>1. Seated(d) /\ Room' = Room
    BY <1>1 DEF Room
  <2> QED
    BY <2>1
<1>6. Empty'
  BY <1>0 DEF Empty
<1>7. Accounted'
  BY <1>0, SentAccounts
<1> QED
  BY <1>2, <1>3, <1>4, <1>5, <1>6, <1>7 DEF ConvInv

LEMMA StillConv ==
    ASSUME DocInv, ConvInv,
           UNCHANGED <<current, clientOf, link, hubUp, members, seeded, baseline, log, up, out>>,
           hurt \subseteq hurt', open' = open,
           \A d \in Clients : (ydoc[d] # 0 => ydoc'[d] # 0) /\ have[d] \subseteq have'[d],
           \A d \in Clients : ydoc'[d] = 0 => have'[d] = {},
           \A d \in Clients : \A e \in have'[d] : e \in have[d] \/ (Unlost => Known(e)),
           Fewer, \A s \in Sessions : link[s] # "up" => down'[s] = down[s],
           \A d \in Clients : Seated(d) /\ link[current[d]] = "up" =>
               Brings(down'[current[d]], ydoc'[d], have'[d], Room)
    PROVE  ConvInv'
<1>0. Channels /\ EditorTypes /\ Linked /\ Mine /\ Present /\ Brought /\ Empty /\ Accounted
  BY DEF DocInv, ConvInv
<1>1. \A d \in Clients : Way(d)' = Way(d) /\ (Seated(d)' <=> Seated(d))
  BY StillFacts
<1>2. Linked'
  BY <1>0, LinkedKept
<1>3. Mine'
  <2> SUFFICES ASSUME NEW d \in Clients PROVE OwnSeq(Way(d), open[d], ydoc[d], have[d])'
    BY DEF Mine
  <2>1. OwnSeq(Way(d), open[d], ydoc[d], have[d])
    BY <1>0 DEF Mine
  <2>2. OwnSeq(Way(d), open[d], ydoc'[d], have'[d])
    BY <2>1 DEF OwnSeq
  <2> QED
    BY <1>1, <2>2 DEF OwnSeq
<1>4. Present'
  BY <1>0, <1>1 DEF Present
<1>5. Brought'
  <2> SUFFICES ASSUME NEW d \in Clients, Seated(d)', link'[current'[d]] = "up"
               PROVE  Brings(down'[current'[d]], ydoc'[d], have'[d], Room')
    BY DEF Brought, Brings
  <2>1. Seated(d) /\ Room' = Room
    BY <1>1 DEF Room
  <2> QED
    BY <2>1
<1>6. Empty'
  BY <1>0 DEF Empty
<1>7. Accounted'
  BY <1>0, StillAccounts
<1> QED
  BY <1>2, <1>3, <1>4, <1>5, <1>6, <1>7 DEF ConvInv

(* With nothing taken from what comes down, more in an editor only helps.    *)
LEMMA DownStill ==
    ASSUME ConvInv, down' = down,
           \A d \in Clients : ydoc[d] # 0 => ydoc'[d] # 0 /\ have[d] \subseteq have'[d],
           NEW d \in Clients, Seated(d), link[current[d]] = "up"
    PROVE  Brings(down'[current[d]], ydoc'[d], have'[d], Room)
<1>1. Brings(down[current[d]], ydoc[d], have[d], Room)
  BY DEF ConvInv, Brought
<1>2. (ydoc[d] # 0 => ydoc'[d] # 0) /\ have[d] \subseteq have'[d]
  BY DEF ConvInv, Empty
<1> QED
  BY <1>1, <1>2, BringsKept

LEMMA FewerSame == down' = down => Fewer
  BY DEF Fewer

LEMMA OpenConv ==
    ASSUME DocInv, ConvInv, NEW c \in Clients, Open(c)
    PROVE  ConvInv'
<1>0. Channels /\ EditorTypes /\ Present
  BY DEF DocInv, ConvInv
<1>1. /\ Send(c, <<Join>>) /\ Join \in Telling /\ Join.type = "join"
      /\ open' = [open EXCEPT ![c] = TRUE] /\ ~open[c]
      /\ UNCHANGED <<ydoc, have, current, clientOf, link, hubUp, down, hurt>>
      /\ UNCHANGED roomVars
  BY MsgFacts DEF Open, Join
<1>2. open'[c] /\ \A d \in Clients : d # c => open'[d] = open[d]
  BY <1>0, <1>1 DEF EditorTypes
<1>3. \A d \in Clients : Seated(d) /\ link[current[d]] = "up" =>
          Brings(down'[current[d]], ydoc'[d], have'[d], Room)
  BY <1>1, DownStill
<1>4. ydoc'[c] = 0 => have'[c] = {}
  BY <1>1 DEF ConvInv, Empty
<1>5. Fewer
  BY <1>1, FewerSame
<1> QED
  BY <1>1, <1>2, <1>3, <1>4, <1>5, SentConv DEF roomVars

LEMMA CloseConv ==
    ASSUME DocInv, ConvInv, NEW c \in Clients, Close(c)
    PROVE  ConvInv'
<1>0. Channels /\ EditorTypes
  BY DEF DocInv
<1>1. /\ Send(c, <<Leave>>) /\ Leave \in Telling /\ Leave.type = "leave"
      /\ open' = [open EXCEPT ![c] = FALSE]
      /\ ydoc' = [ydoc EXCEPT ![c] = 0] /\ have' = [have EXCEPT ![c] = {}]
      /\ UNCHANGED <<current, clientOf, link, hubUp, down>> /\ hurt \subseteq hurt'
      /\ UNCHANGED roomVars
  BY MsgFacts DEF Close, Leave
<1>2. /\ ydoc'[c] = 0 /\ have'[c] = {}
      /\ \A d \in Clients : d # c => /\ open'[d] = open[d] /\ ydoc'[d] = ydoc[d]
                                     /\ have'[d] = have[d]
  BY <1>0, <1>1 DEF EditorTypes
<1>3. ~Seated(c)'
  BY <1>0, <1>1, SentFacts DEF ConvInv, roomVars
<1>4. ASSUME NEW d \in Clients, Seated(d), Seated(d)', link[current[d]] = "up"
      PROVE  Brings(down'[current[d]], ydoc'[d], have'[d], Room)
  <2>1. d # c
    BY <1>3, <1>4
  <2>2. Brings(down[current[d]], ydoc[d], have[d], Room)
    BY <1>4 DEF ConvInv, Brought
  <2> QED
    BY <1>1, <1>2, <2>1, <2>2
<1>5. Fewer
  BY <1>1, FewerSame
<1> QED
  BY <1>1, <1>2, <1>4, <1>5, SentConv DEF roomVars

LEMMA TypeConv ==
    ASSUME DocInv, ConvInv, NEW c \in Clients, Type(c)
    PROVE  ConvInv'
<1>0. Channels /\ EditorTypes
  BY DEF DocInv
<1> DEFINE e == <<ydoc[c], Cardinality(OwnEdits(c)) + 1>>
           m == Update({e})
<1>1. /\ ydoc[c] # 0 /\ e \in Edits /\ Send(c, <<m>>)
      /\ have' = [have EXCEPT ![c] = @ \cup {e}]
      /\ UNCHANGED <<open, ydoc, current, clientOf, link, hubUp, down, hurt>>
      /\ UNCHANGED roomVars
  BY DEF Type
<1>2. m \in Telling /\ m.type = "update" /\ Plain(m) /\ m.edits = {e} /\ ~m.compaction
  BY <1>1, MsgFacts DEF Update, Plain
<1> HIDE DEF e, m
<1>3. open[c]
  BY <1>1 DEF DocInv, OpensCount
<1>4. have'[c] = have[c] \cup {e} /\ \A d \in Clients : d # c => have'[d] = have[d]
  BY <1>0, <1>1 DEF EditorTypes
<1>5. \A d \in Clients : Seated(d) /\ link[current[d]] = "up" =>
          Brings(down'[current[d]], ydoc'[d], have'[d], Room)
  <2>1. \A d \in Clients : ydoc[d] # 0 => ydoc'[d] # 0 /\ have[d] \subseteq have'[d]
    BY <1>1, <1>4
  <2> QED
    BY <1>1, <2>1, DownStill
<1>6. Fewer
  BY <1>1, FewerSame
<1>7. m.type # "leave" /\ m.type # "join"
  BY <1>2
<1> QED
  BY <1>1, <1>2, <1>3, <1>4, <1>5, <1>6, <1>7, SentConv DEF roomVars

LEMMA MaterialiseConv ==
    ASSUME DocInv, ConvInv, NEW c \in Clients, Materialise(c)
    PROVE  ConvInv'
<1>0. Channels /\ EditorTypes
  BY DEF DocInv
<1>1. /\ UNCHANGED <<open, ydoc, have, current, clientOf, link, hubUp, down, hurt>>
      /\ UNCHANGED roomVars
      /\ Send(c, <<Snapshot(Text(have[c]))>>) \/ UNCHANGED <<up, out>>
  BY DEF Materialise, MaterialiseIf
<1>2. \A d \in Clients : Seated(d) /\ link[current[d]] = "up" =>
          Brings(down'[current[d]], ydoc'[d], have'[d], Room)
  BY <1>1, DownStill
<1>3. Fewer
  BY <1>1, FewerSame
<1>4. \A d \in Clients : ydoc'[d] = 0 => have'[d] = {}
  BY <1>1 DEF ConvInv, Empty
<1>5. CASE Send(c, <<Snapshot(Text(have[c]))>>)
  <2> DEFINE m == Snapshot(Text(have[c]))
  <2>1. m \in Telling /\ m.type = "snapshot"
    BY <1>0, TextType, MsgFacts DEF EditorTypes, Snapshot
  <2>2. Send(c, <<m>>)
    BY <1>5
  <2> HIDE DEF m
  <2> QED
    BY <1>1, <1>2, <1>3, <1>4, <2>1, <2>2, SentConv DEF roomVars
<1>6. CASE UNCHANGED <<up, out>>
  BY <1>1, <1>2, <1>3, <1>4, <1>6, StillConv DEF roomVars
<1> QED
  BY <1>1, <1>5, <1>6

LEMMA CompactConv ==
    ASSUME DocInv, ConvInv, NEW c \in Clients, Compact(c)
    PROVE  ConvInv'
<1>0. Channels /\ EditorTypes /\ Linked /\ Accounted
  BY DEF DocInv, ConvInv
<1> DEFINE m == Compacted(have[c])
<1>1. /\ have[c] # {} /\ Send(c, <<m>>) /\ current[c] # None /\ up[current[c]] = <<>>
      /\ UNCHANGED <<open, ydoc, have, current, clientOf, link, hubUp, down, hurt>>
      /\ UNCHANGED roomVars
  BY DEF Compact, editorVars
<1>2. m \in Telling /\ m.type = "update" /\ ~Plain(m) /\ m.edits = have[c]
  <2>1. have[c] \in SUBSET Edits
    BY <1>0 DEF EditorTypes
  <2> QED
    BY <1>1, <2>1, MsgFacts DEF Compacted, Plain
<1> HIDE DEF m
<1>3. ydoc[c] # 0 /\ open[c] /\ \A d \in Clients : ydoc[d] = 0 => have[d] = {}
  BY <1>1 DEF ConvInv, Empty, DocInv, OpensCount
<1>4. Unlost => \A e \in have[c] : Known(e)
  <2> SUFFICES ASSUME Unlost, NEW e \in have[c] PROVE Known(e)
    OBVIOUS
  <2>1. Way(c) = <<>>
    BY <1>1 DEF Way
  <2>2. ~Tells(Way(c), e)
    BY <2>1 DEF Tells
  <2> QED
    BY <1>0, <2>2 DEF Accounted, HaveKnown
<1>5. \A d \in Clients : Seated(d) /\ link[current[d]] = "up" =>
          Brings(down'[current[d]], ydoc'[d], have'[d], Room)
  BY <1>1, DownStill
<1>6. Fewer
  BY <1>1, FewerSame
<1>7. m.type # "leave" /\ m.type # "join"
  BY <1>2
<1> QED
  BY <1>1, <1>2, <1>3, <1>4, <1>5, <1>6, <1>7, SentConv DEF roomVars

LEMMA TakeFacts ==
    ASSUME DocInv, ConvInv, NEW c \in Clients, NEW type, Receiving(c, type)
    PROVE  /\ current[c] \in Sessions /\ current[c] # None /\ link[current[c]] = "up"
           /\ down[current[c]] \in Seq(DownMsgs) /\ down[current[c]] # <<>>
           /\ Head(down[current[c]]) \in DownMsgs /\ Head(down[current[c]]).type = type
           /\ down'[current[c]] = Tail(down[current[c]])
           /\ \A u \in Sessions : u # current[c] => down'[u] = down[u]
           /\ \A d \in Clients : d # c /\ current[d] # None => down'[current[d]] = down[current[d]]
           /\ Fewer
           /\ \A u \in Sessions : link[u] # "up" => down'[u] = down[u]
           /\ UNCHANGED <<open, local, current, clientOf, link, hubUp, md, hurt, handover>>
           /\ UNCHANGED <<members, leader, seeder, seeded, baseline, log, blob>>
<1>0. Channels /\ Linked
  BY DEF DocInv, ConvInv
<1>1. PICK s \in Sessions : s = current[c]
  BY <1>0 DEF Receiving, Channels
<1>2. /\ s # None /\ link[s] = "up" /\ down[s] \in Seq(DownMsgs) /\ down[s] # <<>>
      /\ Head(down[s]).type = type /\ down' = [down EXCEPT ![s] = Tail(@)]
      /\ UNCHANGED <<open, local, current, clientOf, link, hubUp, md, hurt, handover>>
      /\ UNCHANGED <<members, leader, seeder, seeded, baseline, log, blob>>
  BY <1>0, <1>1 DEF Receiving, Channels, roomVars
<1>3. down'[s] = Tail(down[s]) /\ \A u \in Sessions : u # s => down'[u] = down[u]
  BY <1>0, <1>2 DEF Channels
<1>4. \A d \in Clients : d # c /\ current[d] # None => current[d] \in Sessions /\ current[d] # s
  BY <1>0, <1>1, <1>2 DEF Linked, Channels
<1>5. Fewer
  <2> SUFFICES ASSUME NEW u \in Sessions, NEW j \in DOMAIN down'[u]
               PROVE  \E i \in DOMAIN down[u] : down'[u][j] = down[u][i]
    BY DEF Fewer
  <2>1. CASE u = s
    <3>1. j \in DOMAIN Tail(down[s])
      BY <1>3, <2>1
    <3>2. j + 1 \in DOMAIN down[s] /\ Tail(down[s])[j] = down[s][j + 1]
      BY <1>2, <3>1, TailIndex
    <3> QED
      BY <1>3, <2>1, <3>2
  <2>2. CASE u # s
    BY <1>3, <2>2
  <2> QED
    BY <2>1, <2>2
<1>6. Head(down[s]) \in DownMsgs
  BY <1>2, HeadTail
<1> QED
  BY <1>1, <1>2, <1>3, <1>4, <1>5, <1>6

LEMMA SeedConv ==
    ASSUME DocInv, ConvInv, NEW c \in Clients, ReceiveSeed(c)
    PROVE  ConvInv'
<1>0. Channels /\ EditorTypes /\ Receiving(c, "seed") /\ Brought /\ Empty
  BY DEF DocInv, ConvInv, ReceiveSeed
<1> DEFINE s == current[c]
           a == born + 1
           t == IF local[c] # {} THEN local[c] ELSE Head(down[s]).text
           seeds == Head(down[s]).should /\ t # {}
           new == IF seeds THEN {<<a, 1>>} ELSE {}
<1>1. /\ s \in Sessions /\ link[s] = "up"
      /\ down[s] \in Seq(DownMsgs) /\ down[s] # <<>> /\ Head(down[s]).type = "seed"
      /\ down'[s] = Tail(down[s])
      /\ \A d \in Clients : d # c /\ current[d] # None => down'[current[d]] = down[current[d]]
      /\ Fewer /\ \A u \in Sessions : link[u] # "up" => down'[u] = down[u]
      /\ UNCHANGED <<open, current, clientOf, link, hubUp, hurt, members, seeded, baseline, log>>
  BY <1>0, TakeFacts
<1>2. CASE ~open[c] \/ ydoc[c] # 0
  <2>1. UNCHANGED <<ydoc, have, out, up>>
    BY <1>2 DEF ReceiveSeed
  <2>2. ASSUME NEW d \in Clients, Seated(d), link[current[d]] = "up"
        PROVE  Brings(down'[current[d]], ydoc'[d], have'[d], Room)
    <3>1. Brings(down[current[d]], ydoc[d], have[d], Room)
      BY <1>0, <2>2 DEF Brought
    <3>2. CASE d # c
      BY <1>1, <2>1, <2>2, <3>1, <3>2 DEF Seated
    <3>3. CASE d = c
      <4>1. ydoc[c] # 0
        BY <1>2, <2>2, <3>3 DEF ConvInv, Present
      <4>2. Brings(Tail(down[s]), ydoc[c], have[c], Room)
        BY <1>1, <3>1, <3>3, <4>1, BringsNext
      <4> QED
        BY <1>1, <2>1, <3>3, <4>2
    <3> QED
      BY <3>2, <3>3
  <2>3. \A d \in Clients : ydoc'[d] = 0 => have'[d] = {}
    BY <1>0, <2>1 DEF Empty
  <2> QED
    BY <1>1, <2>1, <2>2, <2>3, StillConv
<1>3. CASE open[c] /\ ydoc[c] = 0
  <2>1. /\ ydoc' = [ydoc EXCEPT ![c] = a] /\ have' = [have EXCEPT ![c] = new]
        /\ IF seeds THEN Send(c, <<Update({<<a, 1>>})>>) ELSE UNCHANGED <<out, up>>
    BY <1>3 DEF ReceiveSeed
  <2>2. a # 0 /\ have[c] = {} /\ {<<a, 1>>} \in SUBSET Edits
    <3>1. c \in Blank /\ Blank \in SUBSET Clients
      BY <1>3 DEF Blank
    <3>2. IsFiniteSet(Blank) /\ Cardinality(Blank) \in Nat
      BY <3>1, BlankFacts
    <3>3. Cardinality(Blank \ {c}) = Cardinality(Blank) - 1 /\ Cardinality(Blank \ {c}) \in Nat
      BY <3>1, <3>2, BlankFacts, FS_RemoveElement
    <3>4. born \in Nat /\ opens \in 0..MaxOpens /\ born + Cardinality(Blank) <= opens
      BY <1>0, DocsAssumption DEF DocInv, OpensCount, EditorTypes
    <3>5. a \in Authors /\ a # 0
      BY <3>2, <3>3, <3>4, DocsAssumption DEF Authors
    <3> QED
      BY <1>0, <1>3, <3>5, DocsAssumption DEF Edits, Empty
  <2>3. /\ ydoc'[c] = a /\ have'[c] = new
        /\ \A d \in Clients : d # c => ydoc'[d] = ydoc[d] /\ have'[d] = have[d]
    BY <1>0, <2>1 DEF EditorTypes
  <2> HIDE DEF a, t
  <2>4. ASSUME NEW d \in Clients, Seated(d), link[current[d]] = "up"
        PROVE  Brings(down'[current[d]], ydoc'[d], have'[d], Room)
    <3>1. Brings(down[current[d]], ydoc[d], have[d], Room)
      BY <1>0, <2>4 DEF Brought
    <3>2. CASE d # c
      BY <1>1, <2>3, <2>4, <3>1, <3>2 DEF Seated
    <3>3. CASE d = c
      <4>1. Brings(Tail(down[s]), a, new, Room)
        BY <1>1, <1>3, <2>2, <3>1, <3>3, BringsNext
      <4> QED
        BY <1>1, <2>3, <3>3, <4>1
    <3> QED
      BY <3>2, <3>3
  <2>5. CASE seeds
    <3> DEFINE m == Update({<<a, 1>>})
    <3>1. m \in Telling /\ m.type = "update" /\ Plain(m) /\ m.edits = {<<a, 1>>} /\ ~m.compaction
      BY <2>2, MsgFacts DEF Update, Plain
    <3>2. Send(c, <<m>>) /\ new = {<<a, 1>>}
      BY <2>1, <2>5
    <3>3. m.type # "leave" /\ m.type # "join"
      BY <3>1
    <3> HIDE DEF m, new, seeds, s
    <3>4. open'[c] /\ ydoc'[c] # 0 /\ m.edits \subseteq have'[c] /\ have[c] \subseteq have'[c]
      BY <1>1, <1>3, <2>2, <2>3, <3>1, <3>2
    <3>5. \A e \in have'[c] : Plain(m) /\ e \in m.edits
      BY <2>3, <3>1, <3>2
    <3>6. \A d \in Clients : d # c => open'[d] = open[d] /\ ydoc'[d] = ydoc[d] /\ have'[d] = have[d]
      BY <1>1, <2>3
    <3> QED
      BY <1>1, <2>4, <3>1, <3>2, <3>3, <3>4, <3>5, <3>6, SentConv
  <2>6. CASE ~seeds
    <3>1. UNCHANGED <<out, up>> /\ new = {}
      BY <2>1, <2>6
    <3>2. \A d \in Clients : (ydoc[d] # 0 => ydoc'[d] # 0) /\ have[d] \subseteq have'[d]
      BY <2>2, <2>3, <3>1
    <3>3. \A d \in Clients : ydoc'[d] = 0 => have'[d] = {}
      BY <1>0, <2>2, <2>3 DEF Empty
    <3>4. \A d \in Clients : \A e \in have'[d] : e \in have[d]
      BY <2>3, <3>1
    <3> QED
      BY <1>1, <2>4, <3>1, <3>2, <3>3, <3>4, StillConv
  <2> QED
    BY <2>5, <2>6
<1> QED
  BY <1>2, <1>3

LEMMA ApplyConv ==
    ASSUME DocInv, ConvInv, NEW c \in Clients, ReceiveUpdate(c)
    PROVE  ConvInv'
<1>0. Channels /\ EditorTypes /\ Receiving(c, "update") /\ Brought /\ Empty /\ Accounted
  BY DEF DocInv, ConvInv, ReceiveUpdate, Apply
<1> DEFINE s == current[c]
           es == Head(down[s]).edits
<1>1. /\ s \in Sessions /\ link[s] = "up"
      /\ down[s] \in Seq(DownMsgs) /\ down[s] # <<>> /\ Head(down[s]).type = "update"
      /\ down'[s] = Tail(down[s])
      /\ \A d \in Clients : d # c /\ current[d] # None => down'[current[d]] = down[current[d]]
      /\ Fewer /\ \A u \in Sessions : link[u] # "up" => down'[u] = down[u]
      /\ UNCHANGED <<open, current, clientOf, link, hubUp, hurt, members, seeded, baseline, log>>
  BY <1>0, TakeFacts
<1>2. /\ UNCHANGED <<ydoc, out, up>>
      /\ \/ have' = have /\ (~open[c] \/ ydoc[c] = 0)
         \/ have' = [have EXCEPT ![c] = have[c] \cup es] /\ ydoc[c] # 0
  BY DEF ReceiveUpdate, Apply
<1>3. /\ \A d \in Clients : d # c => have'[d] = have[d]
      /\ have'[c] = have[c] \/ (have'[c] = have[c] \cup es /\ ydoc[c] # 0)
      /\ open[c] /\ ydoc[c] # 0 => es \subseteq have'[c]
  BY <1>0, <1>2 DEF EditorTypes
<1>4. Unlost => \A e \in es : Known(e)
  <2>1. 1 \in DOMAIN down[s] /\ down[s][1] = Head(down[s])
    BY <1>1, TailIndex
  <2> QED
    BY <1>0, <1>1, <2>1 DEF Accounted, DownKnown
<1> HIDE DEF es
<1>5. ASSUME NEW d \in Clients, Seated(d), link[current[d]] = "up"
      PROVE  Brings(down'[current[d]], ydoc'[d], have'[d], Room)
  <2>1. Brings(down[current[d]], ydoc[d], have[d], Room)
    BY <1>0, <1>5 DEF Brought
  <2>2. CASE d # c
    BY <1>1, <1>2, <1>3, <1>5, <2>1, <2>2 DEF Seated
  <2>3. CASE d = c
    <3>1. open[c]
      BY <1>5, <2>3 DEF ConvInv, Present
    <3>2. have[c] \subseteq have'[c] /\ (ydoc[c] # 0 => es \subseteq have'[c])
      BY <1>3, <3>1
    <3>3. Brings(Tail(down[s]), ydoc[c], have'[c], Room)
      BY <1>1, <2>1, <2>3, <3>2, BringsNext DEF es
    <3> QED
      BY <1>1, <1>2, <2>3, <3>3
  <2> QED
    BY <2>2, <2>3
<1>6. \A d \in Clients : ydoc'[d] = 0 => have'[d] = {}
  BY <1>0, <1>2, <1>3 DEF Empty
<1>7. \A d \in Clients : have[d] \subseteq have'[d] /\ (ydoc[d] # 0 => ydoc'[d] # 0)
  BY <1>2, <1>3
<1>8. \A d \in Clients : \A e \in have'[d] : e \in have[d] \/ (Unlost => Known(e))
  BY <1>3, <1>4
<1> HIDE DEF s
<1> QED
  BY <1>1, <1>2, <1>5, <1>6, <1>7, <1>8, StillConv

----------------------------------------------------------------------------
(* Steps of the links.                                                      *)

LEMMA ConnectFacts ==
    ASSUME DocInv, Linked, NEW c \in Clients, NEW s \in Sessions, Connect(c, s)
    PROVE  /\ current[c] = None /\ link[s] = "idle" /\ s # None /\ s \notin hubUp
           /\ \A d \in Clients : current[d] # s
           /\ current'[c] = s /\ \A d \in Clients : d # c => current'[d] = current[d]
           /\ clientOf'[s] = c /\ \A u \in Sessions : u # s => clientOf'[u] = clientOf[u]
           /\ link'[s] = "up" /\ \A u \in Sessions : u # s => link'[u] = link[u]
           /\ out[c] \in Seq(Telling) /\ Way(c) = out[c]
           /\ up'[s] = out[c] \/ (up'[s] = <<Join>> \o out[c] /\ open[c])
           /\ \A u \in Sessions : u # s => up'[u] = up[u]
           /\ out'[c] = <<>> /\ \A d \in Clients : d # c => out'[d] = out[d]
           /\ Way(c)' = up'[s] /\ \A d \in Clients : d # c => Way(d)' = Way(d)
           /\ ~Seated(c)' /\ \A d \in Clients : d # c => (Seated(d)' <=> Seated(d))
           /\ hubUp' = hubUp \cup {s}
           /\ UNCHANGED editorVars /\ UNCHANGED roomVars /\ UNCHANGED <<down, md, hurt, handover>>
<1>0. Channels
  BY DEF DocInv
<1> DEFINE first == IF open[c] THEN <<Join>> ELSE <<>>
<1>1. /\ current[c] = None /\ link[s] = "idle"
      /\ current' = [current EXCEPT ![c] = s] /\ clientOf' = [clientOf EXCEPT ![s] = c]
      /\ link' = [link EXCEPT ![s] = "up"] /\ up' = [up EXCEPT ![s] = first \o out[c]]
      /\ out' = [out EXCEPT ![c] = <<>>] /\ hubUp' = hubUp \cup {s}
      /\ UNCHANGED editorVars /\ UNCHANGED roomVars /\ UNCHANGED <<down, md, hurt, handover>>
  BY DEF Connect, Dial, Idle
<1>2. /\ current'[c] = s /\ \A d \in Clients : d # c => current'[d] = current[d]
      /\ clientOf'[s] = c /\ \A u \in Sessions : u # s => clientOf'[u] = clientOf[u]
      /\ link'[s] = "up" /\ \A u \in Sessions : u # s => link'[u] = link[u]
      /\ up'[s] = first \o out[c] /\ \A u \in Sessions : u # s => up'[u] = up[u]
      /\ out'[c] = <<>> /\ \A d \in Clients : d # c => out'[d] = out[d]
  BY <1>0, <1>1 DEF Channels
<1>3. s # None /\ s \notin hubUp /\ \A d \in Clients : current[d] # s
  BY <1>0, <1>1, DocsAssumption DEF Linked
<1>4. /\ Way(c)' = first \o out[c] /\ Way(c) = out[c] /\ out[c] \in Seq(Telling)
      /\ \A d \in Clients : d # c => Way(d)' = Way(d)
  <2>1. Way(c)' = first \o out[c] /\ Way(c) = out[c] /\ out[c] \in Seq(Telling)
    BY <1>0, <1>1, <1>2, <1>3 DEF Way, Channels
  <2>2. ASSUME NEW d \in Clients, d # c PROVE Way(d)' = Way(d)
    <3>1. current'[d] = current[d] /\ out'[d] = out[d]
      BY <1>2, <2>2
    <3>2. current[d] # None => up'[current[d]] = up[current[d]]
      BY <1>0, <1>2, <1>3 DEF Channels
    <3> QED
      BY <3>1, <3>2 DEF Way
  <2> QED
    BY <2>1, <2>2
<1>5. (first = <<Join>> /\ open[c]) \/ first = <<>>
  OBVIOUS
<1> HIDE DEF first
<1>6. first = <<>> => first \o out[c] = out[c]
  BY <1>4, EmptyConcat
<1>7. ~Seated(c)' /\ \A d \in Clients : d # c => (Seated(d)' <=> Seated(d))
  <2>1. ~IsMember(s)
    BY <1>3, MembersFacts DEF DocInv, RoomTypes, RoomInOrder
  <2>2. ~Seated(c)'
    BY <1>1, <1>2, <2>1 DEF Seated, IsMember, roomVars
  <2>3. ASSUME NEW d \in Clients, d # c PROVE Seated(d)' <=> Seated(d)
    <3>1. current'[d] = current[d] /\ (current[d] # None => up'[current[d]] = up[current[d]])
      BY <1>0, <1>2, <1>3, <2>3 DEF Channels
    <3> QED
      BY <1>1, <3>1 DEF Seated, IsMember, roomVars
  <2> QED
    BY <2>2, <2>3
<1>8. Way(c)' = up'[s]
  BY <1>2, <1>4
<1> QED
  BY <1>1, <1>2, <1>3, <1>4, <1>5, <1>6, <1>7, <1>8

LEMMA ConnectConv ==
    ASSUME DocInv, ConvInv, NEW c \in Clients, NEW s \in Sessions, Connect(c, s)
    PROVE  ConvInv'
<1>0. Channels /\ EditorTypes /\ Linked /\ Mine /\ Present /\ Brought /\ Empty /\ Accounted
  BY DEF DocInv, ConvInv
<1>1. UNCHANGED <<open, ydoc, have, down, members, seeded, baseline, log, hurt>>
  BY <1>0, ConnectFacts DEF editorVars, roomVars
<1>2. /\ current'[c] = s /\ \A d \in Clients : d # c => current'[d] = current[d]
      /\ clientOf'[s] = c /\ \A u \in Sessions : u # s => clientOf'[u] = clientOf[u]
      /\ link'[s] = "up" /\ \A u \in Sessions : u # s => link'[u] = link[u]
      /\ \A u \in Sessions : u # s => up'[u] = up[u]
      /\ out'[c] = <<>> /\ \A d \in Clients : d # c => out'[d] = out[d]
      /\ hubUp' = hubUp \cup {s}
  BY <1>0, ConnectFacts
<1>3. /\ current[c] = None /\ link[s] = "idle" /\ s # None /\ s \notin hubUp
      /\ \A d \in Clients : current[d] # s
  BY <1>0, ConnectFacts
<1>4. /\ Way(c)' = up'[s] /\ Way(c) = out[c] /\ out[c] \in Seq(Telling)
      /\ \A d \in Clients : d # c => Way(d)' = Way(d)
  BY <1>0, ConnectFacts
<1>5. up'[s] = out[c] \/ (up'[s] = <<Join>> \o out[c] /\ open[c])
  BY <1>0, ConnectFacts
<1>6. ~Seated(c)' /\ \A d \in Clients : d # c => (Seated(d)' <=> Seated(d))
  BY <1>0, ConnectFacts
<1>7. Linked'
  <2> SUFFICES /\ \A u \in Sessions :
                     /\ link'[u] = "idle" => u \notin hubUp' /\ \A d \in Clients : current'[d] # u
                     /\ link'[u] = "up" => u \in hubUp' /\ current'[clientOf'[u]] = u
                     /\ link'[u] # "up" => down'[u] = <<>>
                     /\ u \in hubUp' => clientOf'[u] \in Clients
               /\ \A d \in Clients : current'[d] # None => /\ clientOf'[current'[d]] = d
                                                           /\ out'[d] = <<>>
    BY DEF Linked
  <2>1. ASSUME NEW u \in Sessions
        PROVE  /\ link'[u] = "idle" => u \notin hubUp' /\ \A d \in Clients : current'[d] # u
               /\ link'[u] = "up" => u \in hubUp' /\ current'[clientOf'[u]] = u
               /\ link'[u] # "up" => down'[u] = <<>>
               /\ u \in hubUp' => clientOf'[u] \in Clients
    <3>1. CASE u = s
      BY <1>1, <1>2, <3>1
    <3>2. CASE u # s
      <4>1. /\ link'[u] = link[u] /\ clientOf'[u] = clientOf[u] /\ (u \in hubUp' <=> u \in hubUp)
        BY <1>1, <1>2, <3>2
      <4>2. link[u] = "up" => clientOf[u] \in Clients /\ clientOf[u] # c
        BY <1>0, <1>3, DocsAssumption DEF Linked
      <4>3. link[u] = "up" => current'[clientOf'[u]] = u
        BY <1>0, <1>2, <4>1, <4>2 DEF Linked
      <4>4. link[u] = "idle" => \A d \in Clients : current'[d] # u
        BY <1>0, <1>2, <3>2 DEF Linked
      <4> QED
        BY <1>0, <1>1, <4>1, <4>3, <4>4 DEF Linked
    <3> QED
      BY <3>1, <3>2
  <2>2. ASSUME NEW d \in Clients, current'[d] # None
        PROVE  clientOf'[current'[d]] = d /\ out'[d] = <<>>
    <3>1. CASE d = c
      BY <1>2, <3>1
    <3>2. CASE d # c
      <4>1. current'[d] = current[d] /\ current[d] \in Sessions /\ current[d] # s
        BY <1>0, <1>2, <1>3, <2>2, <3>2 DEF Channels
      <4> QED
        BY <1>0, <1>2, <2>2, <3>2, <4>1 DEF Linked
    <3> QED
      BY <3>1, <3>2
  <2> QED
    BY <2>1, <2>2
<1>8. Mine'
  <2> SUFFICES ASSUME NEW d \in Clients PROVE OwnSeq(Way(d), open[d], ydoc[d], have[d])'
    BY DEF Mine
  <2>1. OwnSeq(Way(d), open[d], ydoc[d], have[d])
    BY <1>0 DEF Mine
  <2>2. CASE d # c
    BY <1>1, <1>4, <2>1, <2>2 DEF OwnSeq
  <2>3. CASE d = c
    <3>1. OwnSeq(out[c], open[c], ydoc[c], have[c])
      BY <1>4, <2>1, <2>3
    <3>2. OwnSeq(up'[s], open[c], ydoc[c], have[c])
      BY <1>4, <1>5, <3>1, OwnJoined
    <3> QED
      BY <1>1, <1>4, <2>3, <3>2 DEF OwnSeq
  <2> QED
    BY <2>2, <2>3
<1>10. Present'
  BY <1>0, <1>1, <1>6 DEF Present
<1>11. Brought'
  <2> SUFFICES ASSUME NEW d \in Clients, Seated(d)', link'[current'[d]] = "up"
               PROVE  Brings(down'[current'[d]], ydoc'[d], have'[d], Room')
    BY DEF Brought, Brings
  <2>1. d # c /\ Seated(d)
    BY <1>6
  <2>2. current'[d] = current[d] /\ current[d] \in Sessions /\ current[d] # s
    BY <1>0, <1>2, <1>3, <2>1 DEF Channels, Seated
  <2>3. link[current[d]] = "up"
    BY <1>2, <2>2
  <2>4. Room' = Room
    BY <1>1 DEF Room
  <2> QED
    BY <1>0, <1>1, <2>1, <2>2, <2>3, <2>4 DEF Brought
<1>12. Empty'
  BY <1>0, <1>1 DEF Empty
<1>13. Accounted'
  <2> SUFFICES ASSUME Unlost' PROVE HaveKnown' /\ DownKnown' /\ UpKnown'
    BY DEF Accounted
  <2>1. Unlost /\ HaveKnown /\ DownKnown /\ UpKnown
    BY <1>0, <1>1 DEF Unlost, Accounted
  <2>2. Late \subseteq Late' /\ \A u \in Late : up'[u] = up[u]
    <3> SUFFICES ASSUME NEW u \in Late PROVE u \in Late' /\ up'[u] = up[u]
      OBVIOUS
    <3>1. /\ u \in Sessions /\ u \in hubUp /\ u # s
          /\ clientOf[u] \in Clients /\ current[clientOf[u]] # u
      BY <1>0, <1>3 DEF Late, Channels, Linked
    <3>2. clientOf'[u] = clientOf[u] /\ current'[clientOf[u]] # u /\ u \in hubUp'
      BY <1>1, <1>2, <3>1
    <3> QED
      BY <1>2, <3>1, <3>2 DEF Late
  <2>3. \A e : Known(e) => Known(e)'
    BY <1>1, <2>2, KnownKept DEF Room
  <2>4. HaveKnown'
    <3> SUFFICES ASSUME NEW d \in Clients, NEW e \in have'[d] PROVE Known(e)' \/ Tells(Way(d)', e)
      BY DEF HaveKnown
    <3>1. Known(e) \/ Tells(Way(d), e)
      BY <1>1, <2>1 DEF HaveKnown
    <3>2. CASE d # c
      BY <1>4, <2>3, <3>1, <3>2
    <3>3. CASE d = c
      <4>1. Tells(out[c], e) => Tells(up'[s], e)
        <5>1. Tells(<<Join>> \o out[c], e) <=> Tells(out[c], e)
          BY <1>4, TellsJoined
        <5> QED
          BY <1>5, <5>1
      <4> QED
        BY <1>4, <2>3, <3>1, <3>3, <4>1
    <3> QED
      BY <3>2, <3>3
  <2>5. DownKnown'
    BY <1>1, <2>1, <2>3, FewerSame, FewerKnown
  <2>6. UpKnown'
    <3>1. ASSUME NEW u \in Sessions PROVE CompactKnown(up[u])'
      <4>1. CASE u # s
        BY <1>2, <2>1, <2>3, <4>1 DEF UpKnown, CompactKnown
      <4>2. CASE u = s
        <5>1. \A i \in DOMAIN up'[s] : up'[s][i].type = "update" =>
                 \E j \in DOMAIN out[c] : up'[s][i] = out[c][j]
          <6>1. CASE up'[s] = out[c]
            BY <6>1
          <6>2. CASE up'[s] = <<Join>> \o out[c]
            <7>1. \A i \in DOMAIN up'[s] : \/ up'[s][i].type = "join"
                                           \/ i - 1 \in DOMAIN out[c] /\ up'[s][i] = out[c][i - 1]
              BY <1>4, <6>2, JoinedIndex
            <7> QED
              BY <7>1
          <6> QED
            BY <1>5, <6>1, <6>2
        <5>2. CompactKnown(out[c])
          BY <2>1 DEF UpKnown
        <5> QED
          BY <2>3, <4>2, <5>1, <5>2 DEF CompactKnown
      <4> QED
        BY <4>1, <4>2
    <3>2. ASSUME NEW d \in Clients PROVE CompactKnown(out[d])'
      <4>1. CASE d # c
        BY <1>2, <2>1, <2>3, <4>1 DEF UpKnown, CompactKnown
      <4>2. CASE d = c
        BY <1>2, <4>2 DEF CompactKnown
      <4> QED
        BY <4>1, <4>2
    <3> QED
      BY <3>1, <3>2 DEF UpKnown
  <2> QED
    BY <2>4, <2>5, <2>6
<1> QED
  BY <1>7, <1>8, <1>10, <1>11, <1>12, <1>13 DEF ConvInv

LEMMA BreakConv ==
    ASSUME DocInv, ConvInv, NEW s \in Sessions, Break(s)
    PROVE  ConvInv'
<1>0. Channels /\ Linked /\ Mine /\ Present /\ Brought /\ Empty /\ Accounted
  BY DEF DocInv, ConvInv
<1>1. /\ link[s] = "up" /\ link' = [link EXCEPT ![s] = "broken"]
      /\ down' = [down EXCEPT ![s] = <<>>]
      /\ UNCHANGED <<open, ydoc, have, out, current, clientOf, up, hubUp, members, seeded,
                     baseline, log, hurt>>
  BY DEF Break, editorVars, roomVars
<1>2. /\ link'[s] = "broken" /\ \A u \in Sessions : u # s => link'[u] = link[u]
      /\ down'[s] = <<>> /\ \A u \in Sessions : u # s => down'[u] = down[u]
  BY <1>0, <1>1 DEF Channels
<1>3. \A c \in Clients : Way(c)' = Way(c) /\ (Seated(c)' <=> Seated(c))
  BY <1>1, StillFacts
<1>4. Linked'
  BY <1>0, <1>1, <1>2 DEF Linked
<1>5. Mine'
  BY <1>0, <1>1, <1>3 DEF Mine, OwnSeq
<1>6. Present'
  BY <1>0, <1>1, <1>3 DEF Present
<1>7. Brought'
  <2> SUFFICES ASSUME NEW d \in Clients, Seated(d)', link'[current'[d]] = "up"
               PROVE  Brings(down'[current'[d]], ydoc'[d], have'[d], Room')
    BY DEF Brought, Brings
  <2>1. Seated(d) /\ current'[d] = current[d] /\ current[d] \in Sessions /\ Room' = Room
    BY <1>0, <1>1, <1>3 DEF Seated, Channels, Room
  <2>2. current[d] # s
    BY <1>2, <2>1
  <2> QED
    BY <1>0, <1>1, <1>2, <2>1, <2>2 DEF Brought
<1>8. Empty'
  BY <1>0, <1>1 DEF Empty
<1>9. Accounted'
  <2>1. Fewer
    <3> SUFFICES ASSUME NEW u \in Sessions, NEW j \in DOMAIN down'[u]
                 PROVE  \E i \in DOMAIN down[u] : down'[u][j] = down[u][i]
      BY DEF Fewer
    <3>1. u # s
      BY <1>2
    <3> QED
      BY <1>2, <3>1
  <2> QED
    BY <1>0, <1>1, <2>1, StillAccounts
<1> QED
  BY <1>4, <1>5, <1>6, <1>7, <1>8, <1>9 DEF ConvInv

(* A queue that brings no update brings no edit.                             *)
LEMMA LostTells ==
    ASSUME NEW q, LostIn(q) \cap {"lost", "dropped"} = {}, NEW e
    PROVE  ~Tells(q, e)
  BY DEF LostIn, Tells, Plain

LEMMA NoticeFacts ==
    ASSUME DocInv, Linked, NEW c \in Clients, NEW s \in Sessions, s = current[c], Notice(c)
    PROVE  \E k \in 0..Len(up[s]) :
              /\ link[s] = "broken" /\ clientOf[s] = c
              /\ s # None /\ \A d \in Clients : d # c => current[d] # s
              /\ up[s] \in Seq(Telling) /\ Way(c) = up[s]
              /\ current'[c] = None /\ \A d \in Clients : d # c => current'[d] = current[d]
              /\ out'[c] = SubSeq(up[s], k + 1, Len(up[s]))
              /\ \A d \in Clients : d # c => out'[d] = out[d]
              /\ up'[s] = (IF s \in hubUp THEN SubSeq(up[s], 1, k) ELSE <<>>)
              /\ \A u \in Sessions : u # s => up'[u] = up[u]
              /\ hurt' = IF s \in hubUp THEN hurt ELSE hurt \cup LostIn(SubSeq(up[s], 1, k))
              /\ Way(c)' = out'[c] /\ \A d \in Clients : d # c => Way(d)' = Way(d)
              /\ ~Seated(c)' /\ \A d \in Clients : d # c => (Seated(d)' <=> Seated(d))
              /\ UNCHANGED editorVars /\ UNCHANGED roomVars
              /\ UNCHANGED <<clientOf, link, down, hubUp, md, handover>>
<1>0. Channels /\ Linked
  BY DEF DocInv
<1>1. s = current[c]
  OBVIOUS
<1>2. PICK k \in 0..Len(up[s]) :
         /\ out' = [out EXCEPT ![c] = SubSeq(up[s], k + 1, Len(up[s])) \o @]
         /\ IF s \in hubUp
            THEN up' = [up EXCEPT ![s] = SubSeq(up[s], 1, k)] /\ UNCHANGED hurt
            ELSE up' = [up EXCEPT ![s] = <<>>] /\ hurt' = hurt \cup LostIn(SubSeq(up[s], 1, k))
  BY <1>1 DEF Notice
<1> DEFINE taken == SubSeq(up[s], 1, k)
           left == SubSeq(up[s], k + 1, Len(up[s]))
<1>3. /\ link[s] = "broken" /\ current' = [current EXCEPT ![c] = None] /\ current[c] # None
      /\ UNCHANGED editorVars /\ UNCHANGED roomVars
      /\ UNCHANGED <<clientOf, link, down, hubUp, md, handover>>
  BY <1>1 DEF Notice
<1>4. up[s] \in Seq(Telling) /\ clientOf[s] = c /\ out[c] = <<>> /\ Way(c) = up[s]
  BY <1>0, <1>1, <1>3 DEF Channels, Linked, Way
<1>5. /\ taken \in Seq(Telling) /\ left \in Seq(Telling)
      /\ \A i \in DOMAIN taken : i \in DOMAIN up[s] /\ taken[i] = up[s][i]
      /\ \A i \in DOMAIN left : i + k \in DOMAIN up[s] /\ left[i] = up[s][i + k]
  BY <1>4, SplitIndex
<1>7. /\ out' = [out EXCEPT ![c] = left \o out[c]]
      /\ IF s \in hubUp
         THEN up' = [up EXCEPT ![s] = taken] /\ UNCHANGED hurt
         ELSE up' = [up EXCEPT ![s] = <<>>] /\ hurt' = hurt \cup LostIn(taken)
  BY <1>2
<1> HIDE DEF taken, left
<1>8. /\ out'[c] = left /\ \A d \in Clients : d # c => out'[d] = out[d]
      /\ up'[s] = (IF s \in hubUp THEN taken ELSE <<>>)
      /\ \A u \in Sessions : u # s => up'[u] = up[u]
      /\ current'[c] = None /\ \A d \in Clients : d # c => current'[d] = current[d]
      /\ s # None /\ \A d \in Clients : d # c => current[d] # s
  <2>1. left \o out[c] = left
    BY <1>4, <1>5, EmptyConcat
  <2>2. \A d \in Clients : d # c => current[d] # s
    BY <1>0, <1>1, <1>3, <1>4 DEF Linked
  <2> QED
    BY <1>0, <1>1, <1>3, <1>7, <2>1, <2>2 DEF Channels
<1>9. Way(c)' = out'[c] /\ \A d \in Clients : d # c => Way(d)' = Way(d)
  <2>1. Way(c)' = out'[c]
    BY <1>8 DEF Way
  <2>2. ASSUME NEW d \in Clients, d # c PROVE Way(d)' = Way(d)
    <3>1. current'[d] = current[d] /\ out'[d] = out[d] /\ current[d] # s
      BY <1>8, <2>2
    <3>2. current[d] # None => up'[current[d]] = up[current[d]]
      BY <1>0, <1>8, <3>1 DEF Channels
    <3> QED
      BY <3>1, <3>2 DEF Way
  <2> QED
    BY <2>1, <2>2
<1>10. ~Seated(c)' /\ \A d \in Clients : d # c => (Seated(d)' <=> Seated(d))
  <2>1. ~Seated(c)'
    BY <1>8 DEF Seated
  <2>2. ASSUME NEW d \in Clients, d # c PROVE Seated(d)' <=> Seated(d)
    <3>1. current'[d] = current[d] /\ (current[d] # None => up'[current[d]] = up[current[d]])
      BY <1>0, <1>8, <2>2 DEF Channels
    <3> QED
      BY <1>3, <3>1 DEF Seated, IsMember, roomVars
  <2> QED
    BY <2>1, <2>2
<1> QED
  BY <1>1, <1>3, <1>4, <1>7, <1>8, <1>9, <1>10 DEF taken, left

LEMMA NoticeConv ==
    ASSUME DocInv, ConvInv, NEW c \in Clients, Notice(c)
    PROVE  ConvInv'
<1>0. Channels /\ Linked /\ Mine /\ Present /\ Brought /\ Empty /\ Accounted
  BY DEF DocInv, ConvInv
<1>2. PICK s \in Sessions : s = current[c]
  BY <1>0 DEF Notice, Channels
<1>1. PICK k \in 0..Len(up[s]) :
         /\ link[s] = "broken" /\ clientOf[s] = c
         /\ s # None /\ \A d \in Clients : d # c => current[d] # s
         /\ up[s] \in Seq(Telling) /\ Way(c) = up[s]
         /\ current'[c] = None /\ \A d \in Clients : d # c => current'[d] = current[d]
         /\ out'[c] = SubSeq(up[s], k + 1, Len(up[s]))
         /\ \A d \in Clients : d # c => out'[d] = out[d]
         /\ up'[s] = (IF s \in hubUp THEN SubSeq(up[s], 1, k) ELSE <<>>)
         /\ \A u \in Sessions : u # s => up'[u] = up[u]
         /\ hurt' = IF s \in hubUp THEN hurt ELSE hurt \cup LostIn(SubSeq(up[s], 1, k))
         /\ Way(c)' = out'[c] /\ \A d \in Clients : d # c => Way(d)' = Way(d)
         /\ ~Seated(c)' /\ \A d \in Clients : d # c => (Seated(d)' <=> Seated(d))
         /\ UNCHANGED editorVars /\ UNCHANGED roomVars
         /\ UNCHANGED <<clientOf, link, down, hubUp, md, handover>>
  BY <1>0, <1>2, NoticeFacts
<1> DEFINE taken == SubSeq(up[s], 1, k)
           left == SubSeq(up[s], k + 1, Len(up[s]))
<1>3. UNCHANGED <<open, ydoc, have, clientOf, link, down, hubUp, members, seeded, baseline, log>>
  BY <1>1 DEF editorVars, roomVars
<1>4. up[s] \in Seq(Telling) /\ clientOf[s] = c /\ out[c] = <<>> /\ Way(c) = up[s]
  BY <1>0, <1>1, <1>2 DEF Linked
<1>5. /\ \A i \in DOMAIN taken : i \in DOMAIN up[s] /\ taken[i] = up[s][i]
      /\ \A i \in DOMAIN left : i + k \in DOMAIN up[s] /\ left[i] = up[s][i + k]
  BY <1>4, SplitIndex
<1>6. /\ \A e : Tells(up[s], e) => Tells(taken, e) \/ Tells(left, e)
      /\ OwnSeq(left, open[c], ydoc[c], have[c])
  <2>1. OwnSeq(up[s], open[c], ydoc[c], have[c])
    BY <1>0, <1>4 DEF Mine
  <2> QED
    BY <1>4, <2>1, TellsSplit, OwnSplit
<1>7. /\ out'[c] = left /\ up'[s] = (IF s \in hubUp THEN taken ELSE <<>>)
      /\ hurt' = IF s \in hubUp THEN hurt ELSE hurt \cup LostIn(taken)
  BY <1>1
<1> HIDE DEF taken, left
<1>8. /\ out'[c] = left /\ \A d \in Clients : d # c => out'[d] = out[d]
      /\ up'[s] = (IF s \in hubUp THEN taken ELSE <<>>)
      /\ \A u \in Sessions : u # s => up'[u] = up[u]
      /\ current'[c] = None /\ \A d \in Clients : d # c => current'[d] = current[d]
      /\ s # None /\ \A d \in Clients : d # c => current[d] # s
  BY <1>1, <1>7
<1>10. Way(c)' = left /\ \A d \in Clients : d # c => Way(d)' = Way(d)
  BY <1>1, <1>7
<1>11. ~Seated(c)' /\ \A d \in Clients : d # c => (Seated(d)' <=> Seated(d))
  BY <1>1
<1>9. Linked'
  <2>1. ASSUME NEW u \in Sessions
        PROVE  /\ link'[u] = "idle" => u \notin hubUp' /\ \A d \in Clients : current'[d] # u
               /\ link'[u] = "up" => u \in hubUp' /\ current'[clientOf'[u]] = u
               /\ link'[u] # "up" => down'[u] = <<>>
               /\ u \in hubUp' => clientOf'[u] \in Clients
    <3>1. u # None
      BY DocsAssumption
    <3>2. link[u] = "idle" => \A d \in Clients : current'[d] # u
      BY <1>0, <1>8, <3>1 DEF Linked
    <3>3. link[u] = "up" => clientOf[u] \in Clients /\ clientOf[u] # c
      BY <1>0, <1>1, <1>2, <1>3 DEF Linked
    <3>4. link[u] = "up" => current'[clientOf[u]] = u
      BY <1>0, <1>8, <3>3 DEF Linked
    <3> QED
      BY <1>0, <1>3, <3>2, <3>4 DEF Linked
  <2>2. ASSUME NEW d \in Clients, current'[d] # None
        PROVE  clientOf'[current'[d]] = d /\ out'[d] = <<>>
    <3>1. d # c
      BY <1>8, <2>2
    <3> QED
      BY <1>0, <1>3, <1>8, <2>2, <3>1 DEF Linked
  <2> QED
    BY <2>1, <2>2 DEF Linked
<1>12. Mine'
  <2> SUFFICES ASSUME NEW d \in Clients PROVE OwnSeq(Way(d), open[d], ydoc[d], have[d])'
    BY DEF Mine
  <2>1. CASE d # c
    <3>1. OwnSeq(Way(d), open[d], ydoc[d], have[d])
      BY <1>0 DEF Mine
    <3> QED
      BY <1>3, <1>10, <2>1, <3>1 DEF OwnSeq
  <2>2. CASE d = c
    BY <1>3, <1>6, <1>10, <2>2 DEF OwnSeq
  <2> QED
    BY <2>1, <2>2
<1>13. Present'
  BY <1>0, <1>3, <1>11 DEF Present
<1>14. Brought'
  <2> SUFFICES ASSUME NEW d \in Clients, Seated(d)', link'[current'[d]] = "up"
               PROVE  Brings(down'[current'[d]], ydoc'[d], have'[d], Room')
    BY DEF Brought, Brings
  <2>1. d # c /\ Seated(d) /\ current'[d] = current[d] /\ Room' = Room
    BY <1>3, <1>8, <1>11 DEF Room
  <2> QED
    BY <1>0, <1>3, <2>1 DEF Brought
<1>15. Empty'
  BY <1>0, <1>3 DEF Empty
<1>16. Accounted'
  <2> SUFFICES ASSUME Unlost' PROVE HaveKnown' /\ DownKnown' /\ UpKnown'
    BY DEF Accounted
  <2>1. Unlost /\ HaveKnown /\ DownKnown /\ UpKnown
    BY <1>0, <1>7 DEF Unlost, Accounted
  <2>2. s \in hubUp => s \in Late'
    BY <1>3, <1>4, <1>8 DEF Late
  <2>3. \A u \in Late : u \in Late' /\ up'[u] = up[u]
    <3> SUFFICES ASSUME NEW u \in Late PROVE u \in Late' /\ up'[u] = up[u]
      OBVIOUS
    <3>1. u \in Sessions /\ u \in hubUp /\ clientOf[u] \in Clients /\ current[clientOf[u]] # u
      BY <1>0 DEF Late, Channels, Linked
    <3>2. u # s /\ u # None
      BY <1>2, <1>4, <3>1, DocsAssumption
    <3>3. current'[clientOf[u]] # u
      BY <1>8, <3>1, <3>2
    <3> QED
      BY <1>3, <1>8, <3>1, <3>2, <3>3 DEF Late
  <2>4. \A e : Known(e) => Known(e)'
    BY <1>3, <2>3, KnownKept DEF Room
  <2>5. ASSUME NEW e, Tells(taken, e) PROVE Known(e)'
    <3>1. CASE s \in hubUp
      BY <1>8, <2>2, <2>5, <3>1 DEF Known
    <3>2. CASE s \notin hubUp
      <4>1. LostIn(taken) \cap {"lost", "dropped"} = {}
        BY <1>7, <3>2 DEF Unlost
      <4> QED
        BY <2>5, <4>1, LostTells
    <3> QED
      BY <3>1, <3>2
  <2>6. HaveKnown'
    <3> SUFFICES ASSUME NEW d \in Clients, NEW e \in have'[d] PROVE Known(e)' \/ Tells(Way(d)', e)
      BY DEF HaveKnown
    <3>1. Known(e) \/ Tells(Way(d), e)
      BY <1>3, <2>1 DEF HaveKnown
    <3>2. CASE d # c
      BY <1>10, <2>4, <3>1, <3>2
    <3>3. CASE d = c
      BY <1>4, <1>6, <1>10, <2>4, <2>5, <3>1, <3>3
    <3> QED
      BY <3>2, <3>3
  <2>7. DownKnown'
    BY <1>3, <2>1, <2>4, FewerSame, FewerKnown
  <2>8. UpKnown'
    <3>1. CompactKnown(up[s])
      BY <2>1 DEF UpKnown
    <3>2. ASSUME NEW u \in Sessions PROVE CompactKnown(up[u])'
      <4>1. CASE u # s
        BY <1>8, <2>1, <2>4, <4>1 DEF UpKnown, CompactKnown
      <4>2. CASE u = s
        <5>1. \A j \in DOMAIN up'[s] : \E i \in DOMAIN up[s] : up'[s][j] = up[s][i]
          BY <1>5, <1>8
        <5> QED
          BY <2>4, <3>1, <4>2, <5>1 DEF CompactKnown
      <4> QED
        BY <4>1, <4>2
    <3>3. ASSUME NEW d \in Clients PROVE CompactKnown(out[d])'
      <4>1. CASE d # c
        BY <1>8, <2>1, <2>4, <4>1 DEF UpKnown, CompactKnown
      <4>2. CASE d = c
        <5>1. \A j \in DOMAIN out'[c] : \E i \in DOMAIN up[s] : out'[c][j] = up[s][i]
          BY <1>5, <1>8
        <5> QED
          BY <2>4, <3>1, <4>2, <5>1 DEF CompactKnown
      <4> QED
        BY <4>1, <4>2
    <3> QED
      BY <3>2, <3>3 DEF UpKnown
  <2> QED
    BY <2>6, <2>7, <2>8
<1> QED
  BY <1>9, <1>12, <1>13, <1>14, <1>15, <1>16 DEF ConvInv

----------------------------------------------------------------------------
(* Steps of the hub.                                                        *)

(* What the hub reads it knows from then on.                                 *)
LEMMA ReadKnown ==
    ASSUME Linked, Channels, NEW s \in Sessions, NEW type, Reading(s, type),
           Room \subseteq Room', Plain(Head(up[s])) => Head(up[s]).edits \subseteq Room'
    PROVE  /\ \A e : Known(e) => Known(e)'
           /\ \A c \in Clients : \A e : Tells(Way(c), e) => Known(e)' \/ Tells(Way(c)', e)
<1>1. /\ up[s] \in Seq(Telling) /\ up[s] # <<>>
      /\ up'[s] = Tail(up[s]) /\ \A u \in Sessions : u # s => up'[u] = up[u]
      /\ Late' = Late
      /\ \A c \in Clients : /\ current[c] = s => Way(c) = up[s] /\ Way(c)' = Tail(up[s])
                            /\ current[c] # s => Way(c)' = Way(c)
  BY ReadFacts
<1>2. \A e : Tells(up[s], e) => Tells(Tail(up[s]), e) \/ e \in Room'
  BY <1>1, TellsTail
<1>3. \A e : Known(e) => Known(e)'
  <2>1. \A u \in Late : u \in Sessions
    BY DEF Late, Channels
  <2>2. \A u \in Late : \A e : Tells(up[u], e) => e \in Room' \/ Tells(up'[u], e)
    BY <1>1, <1>2, <2>1
  <2> QED
    BY <1>1, <2>2, KnownKept
<1>4. ASSUME NEW c \in Clients, NEW e, Tells(Way(c), e)
      PROVE  Known(e)' \/ Tells(Way(c)', e)
  BY <1>1, <1>2, <1>4 DEF Known
<1> QED
  BY <1>3, <1>4

LEMMA ReadConv ==
    ASSUME DocInv, ConvInv, NEW s \in Sessions, NEW type, Reading(s, type),
           hurt \subseteq hurt', ~seeded' => baseline' = {},
           Unlost' => /\ Room \subseteq Room'
                      /\ Plain(Head(up[s])) => Head(up[s]).edits \subseteq Room',
           \A u \in Sessions : \A j \in DOMAIN down'[u] : down'[u][j].type = "update" =>
               \/ \E i \in DOMAIN down[u] : down'[u][j] = down[u][i]
               \/ \A e \in down'[u][j].edits : Unlost' => e \in Room' \/ Known(e),
           \A u \in Sessions : link[u] # "up" => down'[u] = down[u],
           \A d \in Clients : Seated(d)' => open[d],
           \A d \in Clients : Seated(d)' /\ link[current[d]] = "up" =>
               Brings(down'[current[d]], ydoc[d], have[d], Room')
    PROVE  ConvInv'
<1>0. Channels /\ Linked /\ Mine /\ Present /\ Brought /\ Empty /\ Accounted
  BY DEF DocInv, ConvInv
<1>1. /\ up[s] \in Seq(Telling) /\ up[s] # <<>>
      /\ up'[s] = Tail(up[s]) /\ \A u \in Sessions : u # s => up'[u] = up[u]
      /\ \A c \in Clients : /\ current[c] = s => Way(c) = up[s] /\ Way(c)' = Tail(up[s])
                            /\ current[c] # s => Way(c)' = Way(c)
  BY <1>0, ReadFacts
<1>2. UNCHANGED <<open, ydoc, have, out, current, clientOf, link, hubUp>>
  BY DEF Reading, editorVars
<1>3. Linked'
  BY <1>0, <1>2, LinkedKept
<1>4. Mine'
  <2> SUFFICES ASSUME NEW d \in Clients PROVE OwnSeq(Way(d), open[d], ydoc[d], have[d])'
    BY DEF Mine
  <2>1. OwnSeq(Way(d), open[d], ydoc[d], have[d])
    BY <1>0 DEF Mine
  <2>2. CASE current[d] = s
    <3>1. Way(d) = up[s] /\ Way(d)' = Tail(up[s])
      BY <1>1, <2>2
    <3>2. OwnSeq(Tail(up[s]), open[d], ydoc[d], have[d])
      BY <1>1, <2>1, <3>1, OwnTail
    <3> QED
      BY <1>2, <3>1, <3>2 DEF OwnSeq
  <2>3. CASE current[d] # s
    BY <1>1, <1>2, <2>1, <2>3 DEF OwnSeq
  <2> QED
    BY <2>2, <2>3
<1>5. Present'
  BY <1>2 DEF Present
<1>6. Brought'
  <2> SUFFICES ASSUME NEW d \in Clients, Seated(d)', link'[current'[d]] = "up"
               PROVE  Brings(down'[current'[d]], ydoc'[d], have'[d], Room')
    BY DEF Brought, Brings
  <2> QED
    BY <1>2
<1>7. Empty'
  BY <1>0, <1>2 DEF Empty
<1>8. Accounted'
  <2> SUFFICES ASSUME Unlost' PROVE HaveKnown' /\ DownKnown' /\ UpKnown'
    BY DEF Accounted
  <2>1. Unlost /\ HaveKnown /\ DownKnown /\ UpKnown
    BY <1>0 DEF Unlost, Accounted
  <2>2. /\ \A e : Known(e) => Known(e)'
        /\ \A c \in Clients : \A e : Tells(Way(c), e) => Known(e)' \/ Tells(Way(c)', e)
    BY <1>0, ReadKnown
  <2>3. HaveKnown'
    BY <1>2, <2>1, <2>2 DEF HaveKnown
  <2>4. DownKnown'
    <3> SUFFICES ASSUME NEW u \in Sessions, NEW j \in DOMAIN down'[u],
                        down'[u][j].type = "update", NEW e \in down'[u][j].edits
                 PROVE  Known(e)'
      BY DEF DownKnown
    <3>1. CASE \E i \in DOMAIN down[u] : down'[u][j] = down[u][i]
      BY <2>1, <2>2, <3>1 DEF DownKnown
    <3>2. CASE e \in Room' \/ Known(e)
      BY <2>2, <3>2 DEF Known
    <3>3. \/ \E i \in DOMAIN down[u] : down'[u][j] = down[u][i]
          \/ e \in Room' \/ Known(e)
      OBVIOUS
    <3> QED
      BY <3>1, <3>2, <3>3
  <2>5. UpKnown'
    <3>1. ASSUME NEW u \in Sessions PROVE CompactKnown(up[u])'
      <4>1. CASE u # s
        BY <1>1, <2>1, <2>2, <4>1 DEF UpKnown, CompactKnown
      <4>2. CASE u = s
        <5>1. \A j \in DOMAIN up'[s] : \E i \in DOMAIN up[s] : up'[s][j] = up[s][i]
          BY <1>1, TailIndex
        <5>2. CompactKnown(up[s])
          BY <2>1 DEF UpKnown
        <5> QED
          BY <2>2, <4>2, <5>1, <5>2 DEF CompactKnown
      <4> QED
        BY <4>1, <4>2
    <3>2. ASSUME NEW d \in Clients PROVE CompactKnown(out[d])'
      BY <1>2, <2>1, <2>2 DEF UpKnown, CompactKnown
    <3> QED
      BY <3>1, <3>2 DEF UpKnown
  <2> QED
    BY <2>3, <2>4, <2>5
<1> QED
  BY <1>3, <1>4, <1>5, <1>6, <1>7, <1>8 DEF ConvInv

(* Who is seated after the hub has read a message other than a leave.        *)
LEMMA ReadSeats ==
    ASSUME Linked, Channels, NEW s \in Sessions, NEW type, Reading(s, type), NEW d \in Clients,
           current[d] # None
    PROVE  /\ current[d] # s => (NoLeave(up'[current[d]]) <=> NoLeave(up[current[d]]))
           /\ current[d] = s /\ type # "leave" =>
                 (NoLeave(up'[s]) <=> NoLeave(up[s]))
<1>1. /\ up[s] \in Seq(Telling) /\ up[s] # <<>> /\ Head(up[s]).type = type
      /\ up'[s] = Tail(up[s]) /\ \A u \in Sessions : u # s => up'[u] = up[u]
  BY ReadFacts
<1>2. current[d] \in Sessions
  BY DEF Channels
<1>3. NoLeave(up[s]) <=> NoLeave(Tail(up[s])) /\ Head(up[s]).type # "leave"
  BY <1>1, NoLeaveTail
<1> QED
  BY <1>1, <1>2, <1>3

(* The first message of a client that does not leave later is for its view.  *)
LEMMA HeadOwn ==
    ASSUME NEW q \in Seq(Telling), q # <<>>, NEW o, NEW y, NEW es, OwnSeq(q, o, y, es),
           NoLeave(Tail(q))
    PROVE  /\ Head(q).type = "join" => o
           /\ Head(q).type = "update" => o /\ y # 0 /\ Head(q).edits \subseteq es
<1> DEFINE t == Tail(q)
<1>1. /\ 1 \in DOMAIN q /\ q[1] = Head(q) /\ \A j \in DOMAIN q : j \in Nat
      /\ \A j \in DOMAIN q : j = 1 \/ (j - 1 \in DOMAIN t /\ t[j - 1] = q[j])
  BY TailIndex
<1> HIDE DEF t
<1>2. \A j \in DOMAIN q : 1 < j => q[j].type # "leave"
  <2> SUFFICES ASSUME NEW j \in DOMAIN q, 1 < j PROVE q[j].type # "leave"
    OBVIOUS
  <2>1. j - 1 \in DOMAIN t /\ t[j - 1] = q[j]
    BY <1>1
  <2> QED
    BY <2>1 DEF NoLeave, t
<1> QED
  BY <1>1, <1>2 DEF OwnSeq

(* What a client gets when it joins is all that it needs.                    *)
LEMMA BringsAfter ==
    ASSUME NEW q \in Seq(DownMsgs), NEW p \in Seq(DownMsgs), NEW y, NEW es, NEW r,
           Brings(p, 0, {}, r)
    PROVE  Brings(q \o p, y, es, r)
<1> DEFINE t == q \o p
<1>1. /\ Len(t) = Len(q) + Len(p) /\ Len(p) \in Nat /\ Len(q) \in Nat
      /\ \A i \in DOMAIN p : i + Len(q) \in DOMAIN t /\ t[i + Len(q)] = p[i] /\ i \in Nat
      /\ DOMAIN p = 1..Len(p)
  BY ConcatIndex
<1> HIDE DEF t
<1>2. PICK i \in 0..Len(p) :
         /\ IF i = 0 THEN 0 # 0 ELSE p[i].type = "seed"
         /\ \A e \in r : e \in {}
                           \/ \E k \in DOMAIN p : i < k /\ p[k].type = "update" /\ e \in p[k].edits
  BY DEF Brings
<1>3. i # 0 /\ p[i].type = "seed" /\ i \in DOMAIN p
  BY <1>1, <1>2
<1>4. i + Len(q) \in 0..Len(t) /\ i + Len(q) # 0 /\ t[i + Len(q)].type = "seed"
  BY <1>1, <1>3
<1>5. ASSUME NEW e \in r
      PROVE  \E k \in DOMAIN t : i + Len(q) < k /\ t[k].type = "update" /\ e \in t[k].edits
  <2>1. PICK k \in DOMAIN p : i < k /\ p[k].type = "update" /\ e \in p[k].edits
    BY <1>2
  <2>2. k + Len(q) \in DOMAIN t /\ t[k + Len(q)] = p[k] /\ i + Len(q) < k + Len(q)
    BY <1>1, <1>3, <2>1
  <2> QED
    BY <2>1, <2>2
<1>6. Brings(t, y, es, r)
  BY <1>4, <1>5 DEF Brings
<1> QED
  BY <1>6 DEF t

LEMMA OneMessage ==
    ASSUME NEW S, NEW m \in S, NEW r, r = <<m>> \/ r = <<m>> \o <<>>
    PROVE  r \in Seq(S) /\ Len(r) = 1 /\ DOMAIN r = {1} /\ r[1] = m
<1>1. <<m>> \in Seq(S) /\ Len(<<m>>) = 1 /\ DOMAIN <<m>> = {1} /\ <<m>>[1] = m
  OBVIOUS
<1>2. <<m>> \o <<>> = <<m>>
  BY <1>1, EmptyConcat
<1> QED
  BY <1>1, <1>2

LEMMA TwoMessages ==
    ASSUME NEW S, NEW m \in S, NEW n \in S, NEW r, r = <<m>> \o <<n>>
    PROVE  r \in Seq(S) /\ Len(r) = 2 /\ DOMAIN r = {1, 2} /\ r[1] = m /\ r[2] = n
<1> DEFINE q == <<m>>
<1>1. q \in Seq(S) /\ Len(q) = 1 /\ DOMAIN q = {1} /\ q[1] = m
  OBVIOUS
<1>2. r = q \o <<n>>
  OBVIOUS
<1> HIDE DEF q
<1>3. /\ q \o <<n>> \in Seq(S) /\ Len(q \o <<n>>) = 1 + 1
      /\ (q \o <<n>>)[1] = m /\ (q \o <<n>>)[1 + 1] = n
  BY <1>1, AddIndex
<1>4. Len(q \o <<n>>) = 2 /\ DOMAIN (q \o <<n>>) = {1, 2} /\ (q \o <<n>>)[2] = n
  BY <1>3
<1> QED
  BY <1>2, <1>3, <1>4

LEMMA WelcomeBrings ==
    ASSUME DocInv, Empty
    PROVE  LET ms == IF IsCold THEN <<Seed(TRUE, md)>> ELSE <<Seed(FALSE, {})>> \o Replay
           IN  /\ ms \in Seq(DownMsgs) /\ Brings(ms, 0, {}, Room)
               /\ \A j \in DOMAIN ms : ms[j].type = "update" => ms[j].edits = Room
<1> DEFINE ms == IF IsCold THEN <<Seed(TRUE, md)>> ELSE <<Seed(FALSE, {})>> \o Replay
<1>1. Seed(TRUE, md) \in DownMsgs /\ Seed(FALSE, {}) \in DownMsgs /\ Update(Room) \in DownMsgs
      /\ \A b, t : Seed(b, t).type = "seed"
      /\ Update(Room).type = "update" /\ Update(Room).edits = Room
  BY MsgFacts DEF DocInv, RoomTypes, Texts, Seed, Update, Room
<1> DEFINE no == Seed(FALSE, {})
           re == Update(Room)
<1>5. /\ no \in DownMsgs /\ no.type = "seed"
      /\ re \in DownMsgs /\ re.type = "update" /\ re.edits = Room
  BY <1>1
<1>2. CASE IsCold
  <2>1. Room = {}
    BY <1>2 DEF IsCold, Empty, Room
  <2>2. ms = <<Seed(TRUE, md)>>
    BY <1>2
  <2> HIDE DEF ms
  <2>3. ms \in Seq(DownMsgs) /\ Len(ms) = 1 /\ DOMAIN ms = {1} /\ ms[1].type = "seed"
    BY <1>1, <2>2, OneMessage, Zenon
  <2>4. 1 \in 0..Len(ms) /\ 1 # 0
    BY <2>3
  <2>5. Brings(ms, 0, {}, Room)
    BY <2>1, <2>3, <2>4 DEF Brings
  <2> QED
    BY <2>3, <2>5 DEF ms
<1>3. CASE ~IsCold /\ Room = {}
  <2>1. ms = <<no>> \o <<>>
    BY <1>3 DEF Replay, Room
  <2> HIDE DEF ms, no, re
  <2>3. ms \in Seq(DownMsgs) /\ Len(ms) = 1 /\ DOMAIN ms = {1} /\ ms[1].type = "seed"
    BY <1>5, <2>1, OneMessage
  <2>4. 1 \in 0..Len(ms) /\ 1 # 0
    BY <2>3
  <2>5. Brings(ms, 0, {}, Room)
    BY <1>3, <2>3, <2>4 DEF Brings
  <2> QED
    BY <2>3, <2>5 DEF ms
<1>4. CASE ~IsCold /\ Room # {}
  <2>1. ms = <<no>> \o <<re>>
    BY <1>4 DEF Replay, Room
  <2> HIDE DEF ms, no, re
  <2>2. /\ ms \in Seq(DownMsgs) /\ Len(ms) = 2 /\ DOMAIN ms = {1, 2}
        /\ ms[1] = no /\ ms[2] = re
    BY <1>5, <2>1, TwoMessages
  <2>3. ms \in Seq(DownMsgs) /\ Len(ms) = 2 /\ DOMAIN ms = {1, 2} /\ ms[1].type = "seed"
        /\ ms[2].type = "update" /\ ms[2].edits = Room
    BY <1>5, <2>2
  <2>4. 1 \in 0..Len(ms) /\ 1 # 0 /\ 1 < 2
    BY <2>3
  <2>5. Brings(ms, 0, {}, Room)
    BY <2>3, <2>4 DEF Brings
  <2> QED
    BY <2>3, <2>5 DEF ms
<1> QED
  BY <1>2, <1>3, <1>4

LEMMA JoinConv ==
    ASSUME DocInv, ConvInv, NEW s \in Sessions, HandleJoin(s)
    PROVE  ConvInv'
<1>0. /\ Channels /\ RoomTypes /\ Linked /\ Mine /\ Present /\ Brought /\ Empty
      /\ Reading(s, "join")
  BY DEF DocInv, ConvInv, HandleJoin
<1>1. /\ up[s] \in Seq(Telling) /\ up[s] # <<>> /\ Head(up[s]).type = "join"
      /\ \A c \in Clients : current[c] = s => Way(c) = up[s]
      /\ ~Plain(Head(up[s]))
  BY <1>0, ReadFacts DEF Plain
<1>2. UNCHANGED <<current, link, seeded, baseline, log, hurt>> /\ Room' = Room
  BY <1>0 DEF HandleJoin, Reading, Room
<1>3. \A d \in Clients : current[d] # None =>
         (NoLeave(up'[current[d]]) <=> NoLeave(up[current[d]]))
  BY <1>0, ReadSeats
<1>4. CASE IsMember(s)
  <2>1. UNCHANGED <<members, down>>
    BY <1>4 DEF HandleJoin
  <2>2. \A d \in Clients : Seated(d)' <=> Seated(d)
    BY <1>2, <1>3, <2>1 DEF Seated, IsMember
  <2>3. \A d \in Clients : Seated(d)' => open[d]
    BY <1>0, <2>2 DEF Present
  <2>4. \A d \in Clients : Seated(d)' /\ link[current[d]] = "up" =>
            Brings(down'[current[d]], ydoc[d], have[d], Room')
    BY <1>0, <1>2, <2>1, <2>2 DEF Brought
  <2> QED
    BY <1>0, <1>1, <1>2, <2>1, <2>3, <2>4, ReadConv DEF Empty
<1>5. CASE ~IsMember(s)
  <2> DEFINE ms == IF IsCold THEN <<Seed(TRUE, md)>> ELSE <<Seed(FALSE, {})>> \o Replay
  <2>1. /\ members' = Append(members, s)
        /\ down' = IF link[s] # "up" THEN down ELSE [down EXCEPT ![s] = @ \o ms]
    BY <1>5 DEF HandleJoin, DocJoin, Welcome
  <2>2. /\ ms \in Seq(DownMsgs) /\ Brings(ms, 0, {}, Room)
        /\ \A j \in DOMAIN ms : ms[j].type = "update" => ms[j].edits = Room
    BY <1>0, WelcomeBrings
  <2> HIDE DEF ms
  <2>3. /\ link[s] = "up" => down'[s] = down[s] \o ms
        /\ \A u \in Sessions : u # s \/ link[u] # "up" => down'[u] = down[u]
    BY <1>0, <2>1 DEF Channels
  <2>4. \A u \in Sessions : u # s => (IsMember(u)' <=> IsMember(u))
    <3>1. members \in Seq(Sessions)
      BY <1>0 DEF RoomTypes
    <3>2. /\ members' \in Seq(Sessions)
          /\ \A i \in DOMAIN members : i \in DOMAIN members' /\ members'[i] = members[i]
          /\ \A i \in DOMAIN members' :
                members'[i] = s \/ (i \in DOMAIN members /\ members'[i] = members[i])
      BY <2>1, <3>1
    <3> QED
      BY <3>1, <3>2 DEF IsMember, Contains
  <2>5. \A d \in Clients : Seated(d)' /\ current[d] # s => Seated(d)
    BY <1>0, <1>2, <1>3, <2>4 DEF Seated, Channels
  <2>6. ASSUME NEW d \in Clients, Seated(d)' PROVE open[d]
    <3>1. CASE current[d] = s
      <4>1. NoLeave(up'[s]) /\ up'[s] = Tail(up[s])
        BY <1>0, <1>2, <2>6, <3>1, ReadFacts DEF Seated
      <4>2. OwnSeq(up[s], open[d], ydoc[d], have[d])
        BY <1>0, <1>1, <3>1 DEF Mine
      <4> QED
        BY <1>1, <4>1, <4>2, HeadOwn
    <3>2. CASE current[d] # s
      BY <1>0, <2>5, <2>6, <3>2 DEF Present
    <3> QED
      BY <3>1, <3>2
  <2>7. ASSUME NEW d \in Clients, Seated(d)', link[current[d]] = "up"
        PROVE  Brings(down'[current[d]], ydoc[d], have[d], Room')
    <3>1. CASE current[d] = s
      <4>1. down[s] \in Seq(DownMsgs) /\ down'[s] = down[s] \o ms
        BY <1>0, <2>3, <2>7, <3>1 DEF Channels
      <4>2. Brings(down[s] \o ms, ydoc[d], have[d], Room)
        BY <2>2, <4>1, BringsAfter
      <4> QED
        BY <1>2, <3>1, <4>1, <4>2
    <3>2. CASE current[d] # s
      <4>1. Seated(d) /\ current[d] \in Sessions
        BY <1>0, <2>5, <2>7, <3>2 DEF Seated, Channels
      <4> QED
        BY <1>0, <1>2, <2>3, <2>7, <3>2, <4>1 DEF Brought
    <3> QED
      BY <3>1, <3>2
  <2>8. ASSUME NEW u \in Sessions, NEW j \in DOMAIN down'[u], down'[u][j].type = "update"
        PROVE  \/ \E i \in DOMAIN down[u] : down'[u][j] = down[u][i]
               \/ \A e \in down'[u][j].edits : e \in Room'
    <3>1. CASE u # s \/ link[u] # "up"
      BY <2>3, <3>1
    <3>2. CASE u = s /\ link[s] = "up"
      <4>1. down[s] \in Seq(DownMsgs) /\ down'[s] = down[s] \o ms
        BY <1>0, <2>3, <3>2 DEF Channels
      <4>2. \/ j \in DOMAIN down[s] /\ down'[s][j] = down[s][j]
            \/ j - Len(down[s]) \in DOMAIN ms /\ down'[s][j] = ms[j - Len(down[s])]
        BY <2>2, <2>8, <3>2, <4>1, ConcatIndex
      <4> QED
        BY <1>2, <2>2, <2>8, <3>2, <4>2
    <3> QED
      BY <3>1, <3>2
  <2> QED
    BY <1>0, <1>1, <1>2, <2>3, <2>6, <2>7, <2>8, ReadConv DEF Empty
<1> QED
  BY <1>4, <1>5

(* Session s has left: a seed may come down for someone else.                *)
LEMMA LeftFacts ==
    ASSUME Channels, RoomTypes, RoomInOrder, NEW s \in Sessions, IsMember(s), NEW bad,
           DocLeave(s, bad)
    PROVE  /\ \A u \in Sessions : IsMember(u)' <=> IsMember(u) /\ u # s
           /\ hurt \cup bad \subseteq hurt'
           /\ \A u \in Sessions :
                 \/ down'[u] = down[u]
                 \/ link[u] = "up" /\ down'[u] = down[u] \o <<Seed(TRUE, md)>>
           /\ handover' \/ (handover' = handover /\ leader' = leader /\ members' # <<>>)
<1>1. /\ members' = Remaining(s) /\ hurt \cup bad \subseteq hurt'
      /\ \/ down' = down
         \/ down' = Post({Head(Remaining(s))}, Seed(TRUE, md))
  BY DEF DocLeave, LeaveTo
<1>2. /\ members' \in Seq(Sessions) /\ members \in Seq(Sessions)
      /\ Range(members') = Range(members) \ {s}
  BY <1>1, RemainingFacts DEF RoomTypes, RoomInOrder
<1>3. \A u \in Sessions : IsMember(u)' <=> u \in Range(members')
  BY <1>2 DEF IsMember, Contains, Range
<1>4. \A u \in Sessions : IsMember(u) <=> u \in Range(members)
  BY <1>2, MembersFacts
<1>5. Seed(TRUE, md) \in DownMsgs
  BY MsgFacts DEF RoomTypes
<1>6. ASSUME NEW u \in Sessions
      PROVE  \/ down'[u] = down[u]
             \/ link[u] = "up" /\ down'[u] = down[u] \o <<Seed(TRUE, md)>>
  <2>1. down[u] \in Seq(DownMsgs)
    BY DEF Channels
  <2>2. Append(down[u], Seed(TRUE, md)) = down[u] \o <<Seed(TRUE, md)>>
    BY <1>5, <2>1, AppendAdds
  <2>3. down'[u] = down[u] \/ (link[u] = "up" /\ down'[u] = Append(down[u], Seed(TRUE, md)))
    BY <1>1 DEF Post
  <2> QED
    BY <2>2, <2>3
<1>7. handover' \/ (handover' = handover /\ leader' = leader /\ members' # <<>>)
  <2>1. /\ leader' = IF leader = s THEN IF Remaining(s) = <<>> THEN None ELSE Head(Remaining(s))
                     ELSE leader
        /\ handover' = (handover \/ leader = s)
    BY DEF DocLeave, LeaveTo
  <2>2. CASE leader = s
    BY <2>1, <2>2
  <2>3. CASE leader # s
    <3>1. members # <<>> /\ Head(members) # s
      BY <2>3, MembersFacts DEF RoomTypes, RoomInOrder
    <3>2. Remaining(s) # <<>>
      BY <3>1, RemainingFacts DEF RoomTypes, RoomInOrder
    <3>3. handover' = handover
      BY <2>1, <2>3 DEF RoomTypes
    <3> QED
      BY <1>1, <2>1, <2>3, <3>2, <3>3
  <2> QED
    BY <2>2, <2>3
<1> QED
  BY <1>1, <1>2, <1>3, <1>4, <1>6, <1>7

(* One more message does not take away what comes down.                      *)
LEMMA BringsOne ==
    ASSUME NEW q \in Seq(DownMsgs), NEW m \in DownMsgs, NEW y, NEW es, NEW r, NEW r2,
           Brings(q, y, es, r),
           \A e \in r2 : e \in r \/ e \in es \/ (m.type = "update" /\ e \in m.edits)
    PROVE  Brings(q \o <<m>>, y, es, r2)
<1> DEFINE p == <<m>>
<1>1. p \in Seq(DownMsgs) /\ DOMAIN p = {1} /\ p[1] = m
  BY OneMessage
<1> HIDE DEF p
<1>2. \A e \in r2 : \/ e \in r \/ e \in es
                    \/ \E k \in DOMAIN p : p[k].type = "update" /\ e \in p[k].edits
  BY <1>1
<1>3. Brings(q \o p, y, es, r2)
  BY <1>1, <1>2, BringsMore
<1> QED
  BY <1>3 DEF p

LEMMA BringsGrown ==
    ASSUME NEW q \in Seq(DownMsgs), NEW y, NEW es, NEW r, NEW r2, Brings(q, y, es, r),
           \A e \in r2 : e \in r \/ e \in es
    PROVE  Brings(q, y, es, r2)
<1>1. PICK i \in 0..Len(q) :
         /\ IF i = 0 THEN y # 0 ELSE q[i].type = "seed"
         /\ \A e \in r : e \in es
                           \/ \E k \in DOMAIN q : i < k /\ q[k].type = "update" /\ e \in q[k].edits
  BY DEF Brings
<1>2. \A e \in r2 : e \in es
                      \/ \E k \in DOMAIN q : i < k /\ q[k].type = "update" /\ e \in q[k].edits
  BY <1>1
<1>3. IF i = 0 THEN y # 0 ELSE q[i].type = "seed"
  BY <1>1
<1> QED
  BY <1>2, <1>3 DEF Brings

LEMMA LeaveFacts ==
    ASSUME DocInv, Linked, NEW s \in Sessions, HandleLeave(s)
    PROVE  /\ \A u \in Sessions : IsMember(u)' => IsMember(u) /\ u # s
           /\ \A d \in Clients : Seated(d)' =>
                 Seated(d) /\ current[d] # s /\ current[d] \in Sessions
           /\ hurt \subseteq hurt'
           /\ \A u \in Sessions :
                 \/ down'[u] = down[u]
                 \/ link[u] = "up" /\ down'[u] = down[u] \o <<Seed(TRUE, md)>>
           /\ \/ handover'
              \/ /\ handover' = handover /\ leader' = leader
                 /\ members' # <<>> \/ (members = <<>> /\ down' = down)
<1>0. Channels /\ RoomTypes /\ RoomInOrder /\ Reading(s, "leave")
  BY DEF DocInv, HandleLeave
<1> DEFINE n == Seed(TRUE, md)
<1>2. current' = current
  BY <1>0 DEF Reading
<1>3. /\ \A u \in Sessions : IsMember(u)' => IsMember(u) /\ u # s
      /\ hurt \subseteq hurt'
      /\ \A u \in Sessions :
            \/ down'[u] = down[u]
            \/ link[u] = "up" /\ down'[u] = down[u] \o <<n>>
      /\ \/ handover'
         \/ /\ handover' = handover /\ leader' = leader
            /\ members' # <<>> \/ (members = <<>> /\ down' = down)
  <2>1. CASE IsMember(s)
    <3>1. DocLeave(s, {})
      BY <2>1 DEF HandleLeave
    <3> QED
      BY <1>0, <2>1, <3>1, LeftFacts
  <2>2. CASE ~IsMember(s)
    <3>1. /\ hurt' = hurt /\ members' = members /\ down' = down /\ leader' = leader
          /\ handover' = handover
      BY <2>2 DEF HandleLeave
    <3> QED
      BY <2>2, <3>1 DEF IsMember
  <2> QED
    BY <2>1, <2>2
<1>4. ASSUME NEW d \in Clients, Seated(d)'
      PROVE  Seated(d) /\ current[d] # s /\ current[d] \in Sessions
  <2>1. current[d] # None /\ current[d] \in Sessions /\ NoLeave(up'[current[d]])
    BY <1>0, <1>2, <1>4 DEF Seated, Channels
  <2>2. IsMember(current[d]) /\ current[d] # s
    <3>1. PICK u \in Sessions : u = current[d]
      BY <2>1
    <3>2. IsMember(u)'
      BY <1>2, <1>4, <3>1 DEF Seated, IsMember
    <3> QED
      BY <1>3, <3>1, <3>2
  <2> QED
    BY <1>0, <2>1, <2>2, ReadSeats DEF Seated
<1> QED
  BY <1>3, <1>4

LEMMA LeaveConv ==
    ASSUME DocInv, ConvInv, NEW s \in Sessions, HandleLeave(s)
    PROVE  ConvInv'
<1>0. /\ Channels /\ RoomTypes /\ RoomInOrder /\ Linked /\ Present /\ Brought /\ Empty
      /\ Reading(s, "leave")
  BY DEF DocInv, ConvInv, HandleLeave
<1> DEFINE n == Seed(TRUE, md)
<1>1. ~Plain(Head(up[s])) /\ n \in DownMsgs /\ n.type = "seed"
  <2>1. ~Plain(Head(up[s]))
    BY <1>0, ReadFacts DEF Plain
  <2>2. n \in DownMsgs
    BY <1>0, MsgFacts DEF RoomTypes
  <2>3. n.type = "seed"
    BY DEF Seed
  <2> QED
    BY <2>1, <2>2, <2>3
<1>2. UNCHANGED <<current, link, seeded, baseline, log>> /\ Room' = Room
  BY <1>0 DEF HandleLeave, Reading, Room
<1>3. /\ hurt \subseteq hurt'
      /\ \A u \in Sessions :
            \/ down'[u] = down[u]
            \/ link[u] = "up" /\ down'[u] = down[u] \o <<n>>
  BY <1>0, LeaveFacts
<1> HIDE DEF n
<1>4. \A d \in Clients : Seated(d)' => Seated(d) /\ current[d] # s /\ current[d] \in Sessions
  BY <1>0, LeaveFacts
<1>5. ASSUME NEW d \in Clients, Seated(d)', link[current[d]] = "up"
      PROVE  Brings(down'[current[d]], ydoc[d], have[d], Room')
  <2>1. Brings(down[current[d]], ydoc[d], have[d], Room) /\ down[current[d]] \in Seq(DownMsgs)
    BY <1>0, <1>4, <1>5 DEF Brought, Channels
  <2>2. Brings(down[current[d]] \o <<n>>, ydoc[d], have[d], Room)
    BY <1>1, <2>1, BringsOne
  <2> QED
    BY <1>2, <1>3, <1>4, <1>5, <2>1, <2>2
<1>6. ASSUME NEW u \in Sessions, NEW j \in DOMAIN down'[u], down'[u][j].type = "update"
      PROVE  \E i \in DOMAIN down[u] : down'[u][j] = down[u][i]
  <2>1. CASE down'[u] = down[u]
    BY <2>1
  <2>2. CASE down'[u] = down[u] \o <<n>>
    <3>1. down[u] \in Seq(DownMsgs)
      BY <1>0 DEF Channels
    <3>2. \/ j \in DOMAIN down[u] /\ down'[u][j] = down[u][j]
          \/ down'[u][j] = n
      BY <1>1, <1>6, <2>2, <3>1, AddIndex
    <3> QED
      BY <1>1, <1>6, <3>2
  <2> QED
    BY <1>3, <2>1, <2>2
<1>7. \A u \in Sessions : link[u] # "up" => down'[u] = down[u]
  BY <1>3
<1>8. \A d \in Clients : Seated(d)' => open[d]
  BY <1>0, <1>4 DEF Present
<1> QED
  BY <1>0, <1>1, <1>2, <1>3, <1>5, <1>6, <1>7, <1>8, ReadConv DEF Empty

(* An update of a member goes to all the others, and adds to the room only   *)
(* what it brings.                                                           *)
LEMMA UpdateFacts ==
    ASSUME DocInv, Empty, NEW s \in Sessions, NEW m, m = Head(up[s]), HandleUpdate(s), IsMember(s)
    PROVE  /\ down' = Post(Range(members) \ {s}, Update(m.edits))
           /\ hurt \subseteq hurt'
           /\ Room' \subseteq Room \cup m.edits
           /\ ~seeded' => baseline' = {}
           /\ Unlost' => Room \subseteq Room'
           /\ Unlost' => m.edits \subseteq Room' \/ (m.compaction /\ Room' = Room)
<1>0. RoomTypes
  BY DEF DocInv
<1>1. /\ down' = Post(Range(members) \ {s}, Update(m.edits))
      /\ CASE m.compaction /\ s \in {leader, seeder} ->
                  /\ baseline' = m.edits /\ log' = {} /\ seeded' = TRUE
                  /\ blob' = m.edits
                  /\ hurt' = IF (baseline \cup log) \subseteq m.edits THEN hurt
                             ELSE hurt \cup {"dropped"}
           [] m.compaction /\ s \notin {leader, seeder} ->
                  UNCHANGED <<baseline, log, seeded, blob, hurt>>
           [] ~m.compaction /\ (s = seeder /\ ~seeded) ->
                  /\ baseline' = m.edits /\ seeded' = TRUE /\ blob' = m.edits
                  /\ UNCHANGED <<log, hurt>>
           [] OTHER ->
                  /\ log' = log \cup m.edits
                  /\ hurt' = IF seeded \/ \E e \in m.edits : IsSeed(e)
                             THEN hurt ELSE hurt \cup {"cold"}
                  /\ UNCHANGED <<baseline, seeded, blob>>
  BY DEF HandleUpdate
<1>2. CASE m.compaction /\ s \in {leader, seeder}
  <2>1. /\ baseline' = m.edits /\ log' = {} /\ seeded' = TRUE
        /\ hurt' = IF (baseline \cup log) \subseteq m.edits THEN hurt
                   ELSE hurt \cup {"dropped"}
    BY <1>1, <1>2
  <2> QED
    BY <1>1, <2>1 DEF Room, Unlost
<1>3. CASE m.compaction /\ s \notin {leader, seeder}
  <2>1. UNCHANGED <<baseline, log, seeded, hurt>>
    BY <1>1, <1>3
  <2> QED
    BY <1>0, <1>1, <1>3, <2>1 DEF Room, Empty
<1>4. CASE ~m.compaction /\ (s = seeder /\ ~seeded)
  <2>1. baseline' = m.edits /\ seeded' = TRUE /\ UNCHANGED <<log, hurt>>
    BY <1>1, <1>4
  <2> QED
    BY <1>0, <1>1, <1>4, <2>1 DEF Room, Empty
<1>5. CASE ~m.compaction /\ ~(s = seeder /\ ~seeded)
  <2>1. /\ log' = log \cup m.edits /\ UNCHANGED <<baseline, seeded>>
        /\ hurt \subseteq hurt'
    BY <1>1, <1>5
  <2> QED
    BY <1>0, <1>1, <2>1 DEF Room, Empty
<1> QED
  BY <1>2, <1>3, <1>4, <1>5

LEMMA UpdateConv ==
    ASSUME DocInv, ConvInv, NEW s \in Sessions, HandleUpdate(s)
    PROVE  ConvInv'
<1>0. /\ Channels /\ RoomTypes /\ Linked /\ Mine /\ Present /\ Brought /\ Empty /\ Accounted
      /\ Reading(s, "update")
  BY DEF DocInv, ConvInv, HandleUpdate
<1> DEFINE m == Head(up[s])
<1>1. /\ up[s] \in Seq(Telling) /\ up[s] # <<>> /\ m \in Telling /\ m.type = "update"
      /\ up'[s] = Tail(up[s])
      /\ \A c \in Clients : current[c] = s => Way(c) = up[s]
      /\ m.edits \in SUBSET Edits /\ m.compaction \in BOOLEAN
  BY <1>0, ReadFacts, MsgFacts
<1>2. UNCHANGED <<current, link, members>>
  BY <1>0 DEF HandleUpdate, Reading
<1>3. \A d \in Clients : Seated(d)' <=> Seated(d)
  <2>1. \A d \in Clients : current[d] # None =>
           (NoLeave(up'[current[d]]) <=> NoLeave(up[current[d]]))
    BY <1>0, ReadSeats
  <2> QED
    BY <1>2, <2>1 DEF Seated, IsMember
<1>4. CASE ~IsMember(s)
  <2>1. "lost" \in hurt' /\ hurt \subseteq hurt' /\ UNCHANGED <<seeded, baseline, log, down>>
    BY <1>4 DEF HandleUpdate
  <2>2. ~Unlost' /\ Room' = Room
    BY <2>1 DEF Unlost, Room
  <2>3. \A d \in Clients : Seated(d)' => open[d]
    BY <1>0, <1>3 DEF Present
  <2>4. \A d \in Clients : Seated(d)' /\ link[current[d]] = "up" =>
            Brings(down'[current[d]], ydoc[d], have[d], Room')
    BY <1>0, <1>2, <1>3, <2>1, <2>2 DEF Brought
  <2>5. \A u \in Sessions : \A j \in DOMAIN down'[u] :
           \E i \in DOMAIN down[u] : down'[u][j] = down[u][i]
    BY <2>1
  <2> QED
    BY <1>0, <2>1, <2>2, <2>3, <2>4, <2>5, ReadConv DEF Empty
<1>5. CASE IsMember(s)
  <2>1. /\ down' = Post(Range(members) \ {s}, Update(m.edits))
        /\ hurt \subseteq hurt'
        /\ Room' \subseteq Room \cup m.edits
        /\ ~seeded' => baseline' = {}
        /\ Unlost' => Room \subseteq Room'
        /\ Unlost' => m.edits \subseteq Room' \/ (m.compaction /\ Room' = Room)
    BY <1>0, <1>5, UpdateFacts
  <2>2. CompactKnown(up[s]) /\ m.compaction => \A e \in m.edits : Known(e)
    <3>1. 1 \in DOMAIN up[s] /\ up[s][1] = m
      BY <1>1, TailIndex
    <3> QED
      BY <1>1, <3>1 DEF CompactKnown
  <2> DEFINE n == Update(m.edits)
  <2>3. n \in DownMsgs /\ n.type = "update" /\ n.edits = m.edits
    BY <1>1, MsgFacts DEF Update
  <2>4. Plain(m) => ~m.compaction
    BY DEF Plain
  <2>5. down' = Post(Range(members) \ {s}, n)
    BY <2>1
  <2> HIDE DEF m, n
  <2>6. ASSUME NEW u \in Sessions
        PROVE  /\ down[u] \in Seq(DownMsgs)
               /\ down'[u] = down[u] \/ (link[u] = "up" /\ down'[u] = down[u] \o <<n>>)
               /\ link[u] = "up" /\ IsMember(u) /\ u # s => down'[u] = down[u] \o <<n>>
    <3>1. down[u] \in Seq(DownMsgs) /\ Append(down[u], n) = down[u] \o <<n>>
      BY <1>0, <2>3, AppendAdds DEF Channels
    <3>2. IsMember(u) <=> u \in Range(members)
      BY <1>0, MembersFacts DEF RoomTypes
    <3> QED
      BY <2>5, <3>1, <3>2 DEF Post
  <2>7. ASSUME NEW d \in Clients, Seated(d)', link[current[d]] = "up"
        PROVE  Brings(down'[current[d]], ydoc[d], have[d], Room')
    <3>1. /\ Seated(d) /\ current[d] \in Sessions /\ IsMember(current[d])
          /\ Brings(down[current[d]], ydoc[d], have[d], Room)
      BY <1>0, <1>3, <2>7 DEF Brought, Seated, Channels
    <3>2. CASE current[d] # s
      <4>1. down'[current[d]] = down[current[d]] \o <<n>> /\ down[current[d]] \in Seq(DownMsgs)
        BY <2>6, <2>7, <3>1, <3>2
      <4>2. \A e \in Room' : e \in Room \/ e \in have[d] \/ (n.type = "update" /\ e \in n.edits)
        BY <2>1, <2>3
      <4>3. Brings(down[current[d]] \o <<n>>, ydoc[d], have[d], Room')
        BY <2>3, <3>1, <4>1, <4>2, BringsOne
      <4> QED
        BY <4>1, <4>3
    <3>3. CASE current[d] = s
      <4>1. OwnSeq(up[s], open[d], ydoc[d], have[d]) /\ NoLeave(Tail(up[s]))
        <5>1. NoLeave(up[s])
          BY <3>1, <3>3 DEF Seated
        <5>2. OwnSeq(Way(d), open[d], ydoc[d], have[d]) /\ Way(d) = up[s]
          BY <1>0, <1>1, <3>3 DEF Mine
        <5> QED
          BY <1>1, <5>1, <5>2, NoLeaveTail
      <4>2. m.edits \subseteq have[d]
        BY <1>1, <4>1, HeadOwn DEF m
      <4>3. \A e \in Room' : e \in Room \/ e \in have[d]
        BY <2>1, <4>2
      <4>4. down[s] \in Seq(DownMsgs)
        BY <1>0 DEF Channels
      <4>5. Brings(down[s], ydoc[d], have[d], Room')
        BY <3>1, <3>3, <4>3, <4>4, BringsGrown
      <4>6. down'[s] = down[s]
        BY <1>0, <2>5 DEF Post
      <4> QED
        BY <3>3, <4>5, <4>6
    <3> QED
      BY <3>2, <3>3
  <2>8. ASSUME Unlost', NEW e \in m.edits PROVE e \in Room' \/ Known(e)
    <3>0. Unlost
      BY <2>1, <2>8 DEF Unlost
    <3>1. CompactKnown(up[s])
      BY <1>0, <3>0 DEF Accounted, UpKnown
    <3> QED
      BY <2>1, <2>2, <2>8, <3>1
  <2>9. ASSUME NEW u \in Sessions, NEW j \in DOMAIN down'[u], down'[u][j].type = "update"
        PROVE  \/ \E i \in DOMAIN down[u] : down'[u][j] = down[u][i]
               \/ \A e \in down'[u][j].edits : Unlost' => e \in Room' \/ Known(e)
    <3>1. CASE down'[u] = down[u]
      BY <3>1
    <3>2. CASE down'[u] = down[u] \o <<n>>
      <4>1. \/ j \in DOMAIN down[u] /\ down'[u][j] = down[u][j]
            \/ down'[u][j] = n
        BY <2>3, <2>6, <2>9, <3>2, AddIndex
      <4> QED
        BY <2>3, <2>8, <4>1
    <3> QED
      BY <2>6, <3>1, <3>2
  <2>10. \A d \in Clients : Seated(d)' => open[d]
    BY <1>0, <1>3 DEF Present
  <2>11. \A u \in Sessions : link[u] # "up" => down'[u] = down[u]
    BY <2>6
  <2>12. Unlost' => /\ Room \subseteq Room'
                    /\ Plain(Head(up[s])) => Head(up[s]).edits \subseteq Room'
    BY <2>1, <2>4 DEF m
  <2>13. hurt \subseteq hurt' /\ (~seeded' => baseline' = {})
    BY <2>1
  <2> QED
    BY <1>0, <2>7, <2>9, <2>10, <2>11, <2>12, <2>13, ReadConv
<1> QED
  BY <1>4, <1>5

LEMMA SnapshotConv ==
    ASSUME DocInv, ConvInv, NEW s \in Sessions, HandleSnapshot(s)
    PROVE  ConvInv'
<1>0. Channels /\ Linked /\ Present /\ Brought /\ Empty /\ Reading(s, "snapshot")
  BY DEF DocInv, ConvInv, HandleSnapshot
<1>1. ~Plain(Head(up[s]))
  BY <1>0, ReadFacts DEF Plain
<1>2. UNCHANGED <<current, link, members, seeded, baseline, log, down, hurt>> /\ Room' = Room
  BY <1>0 DEF HandleSnapshot, Reading, Room, roomVars
<1>3. \A d \in Clients : Seated(d)' <=> Seated(d)
  <2>1. \A d \in Clients : current[d] # None =>
           (NoLeave(up'[current[d]]) <=> NoLeave(up[current[d]]))
    BY <1>0, ReadSeats
  <2> QED
    BY <1>2, <2>1 DEF Seated, IsMember
<1>4. \A d \in Clients : Seated(d)' => open[d]
  BY <1>0, <1>3 DEF Present
<1>5. \A d \in Clients : Seated(d)' /\ link[current[d]] = "up" =>
          Brings(down'[current[d]], ydoc[d], have[d], Room')
  BY <1>0, <1>2, <1>3 DEF Brought
<1> QED
  BY <1>0, <1>1, <1>2, <1>4, <1>5, ReadConv DEF Empty

LEMMA EndFacts ==
    ASSUME DocInv, Linked, NEW s \in Sessions, EndSession(s)
    PROVE  /\ s \in hubUp /\ link[s] = "broken" /\ hubUp' = hubUp \ {s}
           /\ up'[s] = (IF current[clientOf[s]] # s THEN <<>> ELSE up[s])
           /\ \A u \in Sessions : u # s => up'[u] = up[u]
           /\ \A d \in Clients : Way(d)' = Way(d)
           /\ \A u \in Sessions : IsMember(u)' => IsMember(u) /\ u # s
           /\ \A d \in Clients : Seated(d)' =>
                 Seated(d) /\ current[d] # s /\ current[d] \in Sessions
           /\ hurt \cup (IF current[clientOf[s]] # s THEN LostIn(up[s]) ELSE {}) \subseteq hurt'
           /\ \A u \in Sessions :
                 \/ down'[u] = down[u]
                 \/ link[u] = "up" /\ down'[u] = down[u] \o <<Seed(TRUE, md)>>
           /\ \/ handover'
              \/ /\ handover' = handover /\ leader' = leader
                 /\ members' # <<>> \/ (members = <<>> /\ down' = down)
           /\ UNCHANGED editorVars
           /\ UNCHANGED <<out, current, clientOf, link, seeded, baseline, log, blob, md>>
<1>0. Channels /\ RoomTypes /\ RoomInOrder /\ Linked
  BY DEF DocInv
<1> DEFINE over == current[clientOf[s]] # s
           lost == IF over THEN LostIn(up[s]) ELSE {}
           n == Seed(TRUE, md)
<1>1. /\ s \in hubUp /\ link[s] = "broken" /\ hubUp' = hubUp \ {s}
      /\ up' = IF over THEN [up EXCEPT ![s] = <<>>] ELSE up
      /\ UNCHANGED editorVars
      /\ UNCHANGED <<out, current, clientOf, link, seeded, baseline, log, blob, md>>
  BY DEF EndSession
<1>2. /\ up'[s] = (IF over THEN <<>> ELSE up[s])
      /\ \A u \in Sessions : u # s => up'[u] = up[u]
      /\ Room' = Room
  BY <1>0, <1>1 DEF Channels, Room
<1>3. /\ \A u \in Sessions : IsMember(u)' => IsMember(u) /\ u # s
      /\ hurt \cup lost \subseteq hurt'
      /\ \A u \in Sessions :
            \/ down'[u] = down[u]
            \/ link[u] = "up" /\ down'[u] = down[u] \o <<n>>
      /\ \/ handover'
         \/ /\ handover' = handover /\ leader' = leader
            /\ members' # <<>> \/ (members = <<>> /\ down' = down)
  <2>1. CASE IsMember(s)
    <3>1. DocLeave(s, lost)
      BY <2>1 DEF EndSession
    <3> QED
      BY <1>0, <2>1, <3>1, LeftFacts
  <2>2. CASE ~IsMember(s)
    <3>1. /\ hurt' = hurt \cup lost /\ members' = members /\ down' = down
          /\ leader' = leader /\ handover' = handover
      BY <2>2 DEF EndSession
    <3> QED
      BY <2>2, <3>1 DEF IsMember
  <2> QED
    BY <2>1, <2>2
<1>5. \A d \in Clients : current[d] = s => ~over
  BY <1>0, DocsAssumption DEF Linked
<1>6. \A d \in Clients : Way(d)' = Way(d)
  <2> SUFFICES ASSUME NEW d \in Clients PROVE Way(d)' = Way(d)
    OBVIOUS
  <2>1. current[d] # None => current[d] \in Sessions /\ up'[current[d]] = up[current[d]]
    BY <1>0, <1>2, <1>5 DEF Channels
  <2> QED
    BY <1>1, <2>1 DEF Way
<1>7. ASSUME NEW d \in Clients, Seated(d)'
      PROVE  Seated(d) /\ current[d] # s /\ current[d] \in Sessions
  <2>1. current[d] # None /\ current[d] \in Sessions /\ NoLeave(up'[current[d]])
    BY <1>0, <1>1, <1>7 DEF Seated, Channels
  <2>2. IsMember(current[d]) /\ current[d] # s
    <3>1. PICK u \in Sessions : u = current[d]
      BY <2>1
    <3>2. IsMember(u)'
      BY <1>1, <1>7, <3>1 DEF Seated, IsMember
    <3> QED
      BY <1>3, <3>1, <3>2
  <2> QED
    BY <1>2, <2>1, <2>2 DEF Seated
<1> QED
  BY <1>1, <1>2, <1>3, <1>6, <1>7

LEMMA EndConv ==
    ASSUME DocInv, ConvInv, NEW s \in Sessions, EndSession(s)
    PROVE  ConvInv'
<1>0. /\ Channels /\ RoomTypes /\ Linked /\ Mine /\ Present /\ Brought /\ Empty /\ Accounted
  BY DEF DocInv, ConvInv
<1> DEFINE over == current[clientOf[s]] # s
           lost == IF over THEN LostIn(up[s]) ELSE {}
           n == Seed(TRUE, md)
<1>1. /\ s \in hubUp /\ link[s] = "broken" /\ hubUp' = hubUp \ {s}
      /\ UNCHANGED editorVars
      /\ UNCHANGED <<out, current, clientOf, link, seeded, baseline, log>>
  BY <1>0, EndFacts
<1>2. /\ up'[s] = (IF over THEN <<>> ELSE up[s])
      /\ \A u \in Sessions : u # s => up'[u] = up[u]
      /\ Room' = Room
  BY <1>0, EndFacts DEF Room
<1>3. /\ hurt \cup lost \subseteq hurt'
      /\ \A u \in Sessions :
            \/ down'[u] = down[u]
            \/ link[u] = "up" /\ down'[u] = down[u] \o <<n>>
  BY <1>0, EndFacts
<1>4. n \in DownMsgs /\ n.type = "seed"
  <2>1. n \in DownMsgs
    BY <1>0, MsgFacts DEF RoomTypes
  <2>2. n.type = "seed"
    BY DEF Seed
  <2> QED
    BY <2>1, <2>2
<1> HIDE DEF n
<1>5. UNCHANGED <<open, ydoc, have>>
  BY <1>1 DEF editorVars
<1>6. \A d \in Clients : Way(d)' = Way(d)
  BY <1>0, EndFacts
<1>7. \A d \in Clients : Seated(d)' => Seated(d) /\ current[d] # s /\ current[d] \in Sessions
  BY <1>0, EndFacts
<1>8. Linked'
  BY <1>0, <1>1, <1>3 DEF Linked
<1>9. Mine'
  BY <1>0, <1>5, <1>6 DEF Mine, OwnSeq
<1>10. Present'
  BY <1>0, <1>5, <1>7 DEF Present
<1>11. Brought'
  <2> SUFFICES ASSUME NEW d \in Clients, Seated(d)', link'[current'[d]] = "up"
               PROVE  Brings(down'[current'[d]], ydoc'[d], have'[d], Room')
    BY DEF Brought, Brings
  <2>1. /\ Brings(down[current[d]], ydoc[d], have[d], Room) /\ down[current[d]] \in Seq(DownMsgs)
        /\ current[d] \in Sessions
    BY <1>0, <1>1, <1>7 DEF Brought, Channels
  <2>2. Brings(down[current[d]] \o <<n>>, ydoc[d], have[d], Room)
    BY <1>4, <2>1, BringsOne
  <2>3. Brings(down'[current[d]], ydoc[d], have[d], Room)
    BY <1>3, <2>1, <2>2
  <2> QED
    BY <1>1, <1>2, <1>5, <2>3
<1>12. Empty'
  BY <1>0, <1>1, <1>5 DEF Empty
<1>13. Accounted'
  <2> SUFFICES ASSUME Unlost' PROVE HaveKnown' /\ DownKnown' /\ UpKnown'
    BY DEF Accounted
  <2>1. Unlost /\ HaveKnown /\ DownKnown /\ UpKnown
    BY <1>0, <1>3 DEF Unlost, Accounted
  <2>2. over => \A e : ~Tells(up[s], e)
    <3> SUFFICES ASSUME over, NEW e PROVE ~Tells(up[s], e)
      OBVIOUS
    <3>1. LostIn(up[s]) \cap {"lost", "dropped"} = {}
      BY <1>3 DEF Unlost
    <3> QED
      BY <3>1, LostTells
  <2>3. \A u \in Late : \A e : Tells(up[u], e) => u \in Late' /\ Tells(up'[u], e)
    <3> SUFFICES ASSUME NEW u \in Late, NEW e, Tells(up[u], e) PROVE u \in Late' /\ Tells(up'[u], e)
      OBVIOUS
    <3>1. u # s /\ u \in Sessions
      BY <1>0, <2>2 DEF Late, Channels
    <3>2. u \in Late'
      BY <1>1, <3>1 DEF Late
    <3> QED
      BY <1>2, <3>1, <3>2
  <2>4. \A e : Known(e) => Known(e)'
    BY <1>2, <2>3, KnownKept
  <2>5. HaveKnown'
    BY <1>5, <1>6, <2>1, <2>4 DEF HaveKnown
  <2>6. DownKnown'
    <3> SUFFICES ASSUME NEW u \in Sessions, NEW j \in DOMAIN down'[u],
                        down'[u][j].type = "update", NEW e \in down'[u][j].edits
                 PROVE  Known(e)'
      BY DEF DownKnown
    <3>1. \E i \in DOMAIN down[u] : down'[u][j] = down[u][i]
      <4>1. CASE down'[u] = down[u]
        BY <4>1
      <4>2. CASE down'[u] = down[u] \o <<n>>
        <5>1. down[u] \in Seq(DownMsgs)
          BY <1>0 DEF Channels
        <5>2. \/ j \in DOMAIN down[u] /\ down'[u][j] = down[u][j]
              \/ down'[u][j] = n
          BY <1>4, <4>2, <5>1, AddIndex
        <5> QED
          BY <1>4, <5>2
      <4> QED
        BY <1>3, <4>1, <4>2
    <3> QED
      BY <2>1, <2>4, <3>1 DEF DownKnown
  <2>7. UpKnown'
    <3>1. ASSUME NEW u \in Sessions PROVE CompactKnown(up[u])'
      <4>1. up'[u] = up[u] \/ up'[u] = <<>>
        BY <1>2
      <4>2. CompactKnown(up[u])
        BY <2>1 DEF UpKnown
      <4> QED
        BY <2>4, <4>1, <4>2 DEF CompactKnown
    <3>2. ASSUME NEW d \in Clients PROVE CompactKnown(out[d])'
      BY <1>1, <2>1, <2>4 DEF UpKnown, CompactKnown
    <3> QED
      BY <3>1, <3>2 DEF UpKnown
  <2> QED
    BY <2>5, <2>6, <2>7
<1> QED
  BY <1>8, <1>9, <1>10, <1>11, <1>12, <1>13 DEF ConvInv

(* A restart empties the room and what comes down, and takes from what is on *)
(* its way up only what sessions sent that their clients have given up.      *)
LEMMA RestartFacts ==
    ASSUME DocInv, Linked, HubRestart
    PROVE  /\ hubUp' = {} /\ members' = <<>> /\ baseline' = baseline /\ log' = {}
           /\ seeded' = (baseline # {}) /\ handover'
           /\ \A u \in Sessions : up'[u] = (IF u \in Late THEN <<>> ELSE up[u])
           /\ \A u \in Sessions : link'[u] # "up" /\ down'[u] = <<>>
           /\ \A u \in Sessions : link'[u] = "idle" => link[u] = "idle"
           /\ \A d \in Clients : Way(d)' = Way(d)
           /\ hurt \subseteq hurt' /\ \A u \in Late : LostIn(up[u]) \subseteq hurt'
           /\ log # {} => "lost" \in hurt'
           /\ UNCHANGED <<out, current, clientOf>> /\ UNCHANGED editorVars
<1>0. Channels /\ Linked /\ blob = baseline
  BY DEF DocInv, SeedKept
<1>1. /\ hubUp' = {} /\ members' = <<>> /\ baseline' = blob /\ log' = {}
      /\ seeded' = (blob # {}) /\ handover'
      /\ link' = [u \in Sessions |-> IF u \in hubUp THEN "broken" ELSE link[u]]
      /\ up' = [u \in Sessions |-> IF u \in Late THEN <<>> ELSE up[u]]
      /\ down' = [u \in Sessions |-> <<>>]
      /\ hurt \subseteq hurt'
      /\ \A u \in Late : LostIn(up[u]) \subseteq hurt'
      /\ log # {} => "lost" \in hurt'
      /\ UNCHANGED <<out, current, clientOf>> /\ UNCHANGED editorVars
  BY DEF HubRestart, Late
<1>2. /\ \A u \in Sessions : up'[u] = (IF u \in Late THEN <<>> ELSE up[u])
      /\ \A u \in Sessions : link'[u] # "up" /\ down'[u] = <<>>
      /\ \A u \in Sessions : link'[u] = "idle" => link[u] = "idle"
  BY <1>0, <1>1 DEF Linked, Channels
<1>3. \A d \in Clients : Way(d)' = Way(d)
  <2> SUFFICES ASSUME NEW d \in Clients PROVE Way(d)' = Way(d)
    OBVIOUS
  <2>1. current[d] # None => current[d] \in Sessions /\ clientOf[current[d]] = d
    BY <1>0 DEF Channels, Linked
  <2>2. current[d] # None => up'[current[d]] = up[current[d]]
    BY <1>2, <2>1 DEF Late
  <2> QED
    BY <1>1, <2>2 DEF Way
<1> QED
  BY <1>0, <1>1, <1>2, <1>3

LEMMA RestartConv ==
    ASSUME DocInv, ConvInv, HubRestart
    PROVE  ConvInv'
<1>0. Channels /\ Linked /\ Mine /\ Empty /\ Accounted
  BY DEF DocInv, ConvInv
<1>1. /\ hubUp' = {} /\ members' = <<>> /\ baseline' = baseline /\ log' = {}
      /\ seeded' = (baseline # {})
      /\ hurt \subseteq hurt'
      /\ \A u \in Late : LostIn(up[u]) \subseteq hurt'
      /\ log # {} => "lost" \in hurt'
      /\ UNCHANGED <<open, ydoc, have, out, current, clientOf>>
  BY <1>0, RestartFacts DEF editorVars
<1>2. /\ \A u \in Sessions : up'[u] = (IF u \in Late THEN <<>> ELSE up[u])
      /\ \A u \in Sessions : link'[u] # "up" /\ down'[u] = <<>>
      /\ \A u \in Sessions : link'[u] = "idle" => link[u] = "idle"
  BY <1>0, RestartFacts
<1>3. \A d \in Clients : Way(d)' = Way(d)
  BY <1>0, RestartFacts
<1>4. \A d \in Clients : ~Seated(d)'
  BY <1>1 DEF Seated, IsMember, Contains
<1>5. Linked'
  BY <1>0, <1>1, <1>2 DEF Linked
<1>6. Mine'
  BY <1>0, <1>1, <1>3 DEF Mine, OwnSeq
<1>7. Present' /\ Brought'
  BY <1>4 DEF Present, Brought
<1>8. Empty'
  BY <1>0, <1>1 DEF Empty
<1>9. Accounted'
  <2> SUFFICES ASSUME Unlost' PROVE HaveKnown' /\ DownKnown' /\ UpKnown'
    BY DEF Accounted
  <2>1. Unlost /\ HaveKnown /\ UpKnown
    BY <1>0, <1>1 DEF Unlost, Accounted
  <2>2. Room' = Room
    BY <1>0, <1>1 DEF Unlost, Room
  <2>3. ASSUME NEW u \in Late, NEW e PROVE ~Tells(up[u], e)
    <3>1. LostIn(up[u]) \cap {"lost", "dropped"} = {}
      BY <1>1 DEF Unlost
    <3> QED
      BY <3>1, LostTells
  <2>4. \A e : Known(e) => Known(e)'
    BY <2>2, <2>3, KnownKept
  <2>5. HaveKnown'
    BY <1>1, <1>3, <2>1, <2>4 DEF HaveKnown
  <2>6. DownKnown'
    BY <1>2 DEF DownKnown
  <2>7. UpKnown'
    <3>1. ASSUME NEW u \in Sessions PROVE CompactKnown(up[u])'
      <4>1. up'[u] = up[u] \/ up'[u] = <<>>
        BY <1>2
      <4>2. CompactKnown(up[u])
        BY <2>1 DEF UpKnown
      <4> QED
        BY <2>4, <4>1, <4>2 DEF CompactKnown
    <3>2. ASSUME NEW d \in Clients PROVE CompactKnown(out[d])'
      BY <1>1, <2>1, <2>4 DEF UpKnown, CompactKnown
    <3> QED
      BY <3>1, <3>2 DEF UpKnown
  <2> QED
    BY <2>5, <2>6, <2>7
<1> QED
  BY <1>5, <1>6, <1>7, <1>8, <1>9 DEF ConvInv

LEMMA InitConv == Init => ConvInv
<1> SUFFICES ASSUME Init PROVE ConvInv
  OBVIOUS
<1>1. /\ \A s \in Sessions : link[s] = "idle" /\ up[s] = <<>> /\ down[s] = <<>>
      /\ \A c \in Clients : /\ current[c] = None /\ out[c] = <<>>
                            /\ ydoc[c] = 0 /\ have[c] = {}
      /\ hubUp = {} /\ members = <<>> /\ baseline = {}
  BY DEF Init
<1>2. Linked
  BY <1>1, DocsAssumption DEF Linked
<1>3. Mine
  BY <1>1 DEF Mine, Way, OwnSeq
<1>4. Present /\ Brought
  BY <1>1 DEF Present, Brought, Seated
<1>5. Empty
  BY <1>1 DEF Empty
<1>6. Accounted
  BY <1>1 DEF Accounted, HaveKnown, DownKnown, UpKnown, CompactKnown
<1> QED
  BY <1>2, <1>3, <1>4, <1>5, <1>6 DEF ConvInv

LEMMA StutterConv ==
    ASSUME ConvInv, UNCHANGED vars
    PROVE  ConvInv'
<1>1. UNCHANGED <<open, ydoc, have, out, current, clientOf, link, up, down, hubUp, members,
                  seeded, baseline, log, hurt>>
  BY DEF vars, editorVars, linkVars, roomVars
<1>2. Linked'
  BY <1>1 DEF ConvInv, Linked
<1>3. Mine'
  BY <1>1 DEF ConvInv, Mine, Way, OwnSeq
<1>4. Present' /\ Brought'
  BY <1>1 DEF ConvInv, Present, Brought, Seated, NoLeave, IsMember, Brings, Room
<1>5. Empty'
  BY <1>1 DEF ConvInv, Empty
<1>6. Accounted'
  BY <1>1 DEF ConvInv, Accounted, HaveKnown, DownKnown, UpKnown, CompactKnown, Unlost,
     Known, Room, Late, Tells, Way
<1> QED
  BY <1>2, <1>3, <1>4, <1>5, <1>6 DEF ConvInv

LEMMA StepConv == DocInv /\ ConvInv /\ [Next]_vars => ConvInv'
<1> SUFFICES ASSUME DocInv, ConvInv, [Next]_vars PROVE ConvInv'
  OBVIOUS
<1>1. ASSUME NEW c \in Clients, \/ Notice(c) \/ Open(c) \/ Close(c) \/ Type(c)
                                \/ Materialise(c) \/ Compact(c) \/ Receive(c)
                                \/ \E s \in Sessions : Connect(c, s)
      PROVE  ConvInv'
  BY <1>1, NoticeConv, OpenConv, CloseConv, TypeConv, MaterialiseConv, CompactConv,
     SeedConv, ApplyConv, ConnectConv DEF Receive
<1>2. ASSUME NEW s \in Sessions, Break(s) \/ HubReads(s) \/ EndSession(s)
      PROVE  ConvInv'
  BY <1>2, BreakConv, JoinConv, LeaveConv, UpdateConv, SnapshotConv, EndConv DEF HubReads
<1> QED
  BY <1>1, <1>2, RestartConv, StutterConv DEF Next

(* A seated client for which nothing is on its way has the edits of the room. *)
LEMMA ConvEnough == DocInv /\ ConvInv => Converges
<1> SUFFICES ASSUME DocInv, ConvInv, Settled, Unlost, NEW c \in Clients, open[c]
             PROVE  have[c] = Room
  BY DEF Converges, Unlost
<1> DEFINE s == current[c]
<1>0. Channels /\ Brought /\ Accounted
  BY DEF DocInv, ConvInv
<1>1. /\ ydoc[c] # 0 /\ s # None /\ link[s] = "up" /\ IsMember(s) /\ s \in Sessions
      /\ up[s] = <<>> /\ down[s] = <<>>
  BY <1>0 DEF Settled, InTouch, Channels
<1>2. Seated(c) /\ Way(c) = <<>>
  BY <1>1 DEF Seated, Way, NoLeave
<1>3. Room \subseteq have[c]
  <2>1. Brings(<<>>, ydoc[c], have[c], Room)
    BY <1>0, <1>1, <1>2 DEF Brought
  <2> QED
    BY <2>1 DEF Brings
<1>4. Late = {}
  BY DEF Settled, Late
<1>5. have[c] \subseteq Room
  <2> SUFFICES ASSUME NEW e \in have[c] PROVE e \in Room
    OBVIOUS
  <2>1. Known(e) \/ Tells(Way(c), e)
    BY <1>0 DEF Accounted, HaveKnown
  <2>2. ~Tells(Way(c), e)
    BY <1>2 DEF Tells
  <2> QED
    BY <1>4, <2>1, <2>2 DEF Known
<1> QED
  BY <1>3, <1>5

(* Once everything has been delivered every editor has the edits of the      *)
(* room, those that a late joiner is given, and so shows the same text: with *)
(* any number of clients, reconnects and hub restarts, as long as no update  *)
(* was lost and no compaction dropped one.                                   *)
THEOREM EditorsConverge == Spec => []Converges
  BY ConvEnough, InitDocInv, StepDocInv, InitConv, StepConv, PTL DEF Spec

----------------------------------------------------------------------------
(* The file follows the editors.                                            *)

(* A snapshot in q that nothing revokes is of a view that has the initial    *)
(* state, and has its text, unless a newer one follows or is due.            *)
SavesSeq(q, y, rdy, drt, t) ==
    \A i \in DOMAIN q :
        q[i].type = "snapshot" /\ (\A j \in DOMAIN q : i < j => q[j].type # "leave") =>
           /\ y # 0 /\ rdy
           /\ \/ drt \/ q[i].text = t
              \/ \E j \in DOMAIN q : i < j /\ q[j].type = "snapshot"

SavesOf(c) == SavesSeq(Way(c), ydoc[c], ready[c], dirty[c], Text(have[c]))

Saves == \A c \in Clients : SavesOf(c)

(* All edits are of Y.Docs that exist.                                       *)
Made == 1..born
By(es, as) == \A e \in es : e[1] \in as
Written(q, as) == \A i \in DOMAIN q : q[i].type = "update" => By(q[i].edits, as)

Authored ==
    /\ \A c \in Clients : By(have[c], Made) /\ ydoc[c] \in Made \cup {0} /\ Written(out[c], Made)
    /\ \A s \in Sessions : Written(up[s], Made) /\ Written(down[s], Made)
    /\ By(Room, Made)

Unready == \A c \in Clients : ydoc[c] = 0 => ~ready[c] /\ ~dirty[c]

(* The first seed that q brings asks to seed, with the text t.               *)
Invited(q, t) ==
    \E i \in DOMAIN q : q[i] = Seed(TRUE, t) /\ \A j \in DOMAIN q : j < i => q[j].type # "seed"

HasSnap(q) == \E i \in DOMAIN q : q[i].type = "snapshot"

(* The client c will see to it that the file has its text.                   *)
Leads(c) ==
    IF ydoc[c] # 0
    THEN ready[c] /\ (dirty[c] \/ HasSnap(Way(c)) \/ md = Text(have[c]))
    ELSE link[current[c]] = "up" => Invited(down[current[c]], md)

(* Nobody has ever been in the room.                                         *)
Virgin == /\ ~seeded /\ log = {} /\ \A s \in Sessions : down[s] = <<>>
          /\ \A c \in Clients : ydoc[c] = 0

Led == ~handover =>
    /\ members = <<>> => Virgin
    /\ \A c \in Clients : Seated(c) /\ leader = current[c] => Leads(c)

FileInv == Saves /\ Authored /\ Unready /\ Led

----------------------------------------------------------------------------
(* Snapshots on their way.                                                   *)

LEMMA SavesAdd ==
    ASSUME NEW q \in Seq(Telling), NEW m \in Telling, NEW y, NEW rdy, NEW drt, NEW t,
           \/ m.type = "leave"
           \/ m.type = "snapshot" /\ y # 0 /\ rdy /\ m.text = t
           \/ m.type # "snapshot" /\ SavesSeq(q, y, rdy, drt, t)
    PROVE  SavesSeq(q \o <<m>>, y, rdy, drt, t)
<1> DEFINE n == Len(q) + 1
<1> SUFFICES ASSUME NEW r, r = q \o <<m>> PROVE SavesSeq(r, y, rdy, drt, t)
  OBVIOUS
<1>1. /\ \A i \in DOMAIN q : i \in DOMAIN r /\ r[i] = q[i] /\ i < n
      /\ n \in DOMAIN r /\ r[n] = m
      /\ \A i \in DOMAIN r : (i \in DOMAIN q /\ r[i] = q[i]) \/ (i = n /\ r[i] = m)
  BY AddIndex
<1> HIDE DEF n
<1> SUFFICES ASSUME NEW i \in DOMAIN r, r[i].type = "snapshot",
                    \A j \in DOMAIN r : i < j => r[j].type # "leave"
             PROVE  /\ y # 0 /\ rdy
                    /\ \/ drt \/ r[i].text = t
                       \/ \E j \in DOMAIN r : i < j /\ r[j].type = "snapshot"
  BY DEF SavesSeq
<1>2. CASE i = n /\ r[i] = m
  BY <1>2
<1>3. CASE i \in DOMAIN q /\ r[i] = q[i]
  <2>1. i < n /\ m.type # "leave"
    BY <1>1, <1>3
  <2>2. CASE m.type = "snapshot"
    BY <1>1, <2>1, <2>2
  <2>3. CASE m.type # "snapshot"
    <3>1. /\ SavesSeq(q, y, rdy, drt, t) /\ q[i].type = "snapshot"
          /\ \A j \in DOMAIN q : i < j => q[j].type # "leave"
      BY <1>1, <1>3, <2>1, <2>3
    <3>2. /\ y # 0 /\ rdy
          /\ \/ drt \/ q[i].text = t
             \/ \E j \in DOMAIN q : i < j /\ q[j].type = "snapshot"
      BY <1>3, <3>1 DEF SavesSeq
    <3> QED
      BY <1>1, <1>3, <3>2
  <2> QED
    BY <2>2, <2>3
<1> QED
  BY <1>1, <1>2, <1>3

(* What is left of a queue when its first k messages are gone.               *)
LEMMA SavesRest ==
    ASSUME NEW q, NEW r, NEW k \in Nat, NEW y, NEW rdy, NEW drt, NEW t,
           \A i \in DOMAIN r : i \in Nat /\ i + k \in DOMAIN q /\ r[i] = q[i + k],
           \A i \in DOMAIN q : i \in Nat /\ (i <= k \/ i - k \in DOMAIN r),
           SavesSeq(q, y, rdy, drt, t)
    PROVE  SavesSeq(r, y, rdy, drt, t)
<1> SUFFICES ASSUME NEW i \in DOMAIN r, r[i].type = "snapshot",
                    \A j \in DOMAIN r : i < j => r[j].type # "leave"
             PROVE  /\ y # 0 /\ rdy
                    /\ \/ drt \/ r[i].text = t
                       \/ \E j \in DOMAIN r : i < j /\ r[j].type = "snapshot"
  BY DEF SavesSeq
<1>1. i \in Nat /\ i + k \in DOMAIN q /\ q[i + k] = r[i]
  OBVIOUS
<1>2. ASSUME NEW j \in DOMAIN q, i + k < j
      PROVE  j - k \in DOMAIN r /\ i < j - k /\ r[j - k] = q[j]
  <2>1. j \in Nat /\ ~(j <= k) /\ i < j - k /\ (j - k) + k = j
    BY <1>1, <1>2
  <2>2. j - k \in DOMAIN r
    BY <2>1
  <2>3. r[j - k] = q[(j - k) + k]
    BY <2>2
  <2> QED
    BY <2>1, <2>2, <2>3
<1>3. \A j \in DOMAIN q : i + k < j => q[j].type # "leave"
  BY <1>2
<1>4. /\ y # 0 /\ rdy
      /\ \/ drt \/ q[i + k].text = t
         \/ \E j \in DOMAIN q : i + k < j /\ q[j].type = "snapshot"
  BY <1>1, <1>3 DEF SavesSeq
<1> QED
  BY <1>1, <1>2, <1>4

LEMMA SavesTail ==
    ASSUME NEW q \in Seq(Telling), q # <<>>, NEW y, NEW rdy, NEW drt, NEW t,
           SavesSeq(q, y, rdy, drt, t)
    PROVE  SavesSeq(Tail(q), y, rdy, drt, t)
<1> SUFFICES ASSUME NEW r, r = Tail(q) PROVE SavesSeq(r, y, rdy, drt, t)
  OBVIOUS
<1>1. /\ \A i \in DOMAIN r : i \in Nat /\ i + 1 \in DOMAIN q /\ r[i] = q[i + 1]
      /\ \A i \in DOMAIN q : i = 1 \/ i - 1 \in DOMAIN r
  BY TailIndex
<1>2. \A i \in DOMAIN q : i \in Nat /\ (i <= 1 \/ i - 1 \in DOMAIN r)
  BY <1>1
<1> QED
  BY <1>1, <1>2, SavesRest

LEMMA SavesSplit ==
    ASSUME NEW q \in Seq(Telling), NEW k \in 0..Len(q), NEW y, NEW rdy, NEW drt, NEW t,
           SavesSeq(q, y, rdy, drt, t)
    PROVE  SavesSeq(SubSeq(q, k + 1, Len(q)), y, rdy, drt, t)
<1> SUFFICES ASSUME NEW r, r = SubSeq(q, k + 1, Len(q)) PROVE SavesSeq(r, y, rdy, drt, t)
  OBVIOUS
<1>1. /\ k \in Nat
      /\ \A i \in DOMAIN r : i \in Nat /\ i + k \in DOMAIN q /\ r[i] = q[i + k]
      /\ \A i \in DOMAIN q : i \in DOMAIN SubSeq(q, 1, k) \/ i - k \in DOMAIN r
      /\ SubSeq(q, 1, k) \in Seq(Telling)
  BY SplitIndex
<1>2. \A i \in DOMAIN SubSeq(q, 1, k) : i <= k
  BY <1>1
<1>3. \A i \in DOMAIN q : i \in Nat /\ (i <= k \/ i - k \in DOMAIN r)
  BY <1>1, <1>2
<1> QED
  BY <1>1, <1>3, SavesRest

LEMMA SavesJoined ==
    ASSUME NEW q \in Seq(Telling), NEW y, NEW rdy, NEW drt, NEW t, SavesSeq(q, y, rdy, drt, t)
    PROVE  SavesSeq(<<Join>> \o q, y, rdy, drt, t)
<1> SUFFICES ASSUME NEW r, r = <<Join>> \o q PROVE SavesSeq(r, y, rdy, drt, t)
  OBVIOUS
<1>0. /\ Join.type = "join"
      /\ \A j \in DOMAIN q : j + 1 \in DOMAIN r /\ r[j + 1] = q[j] /\ j \in Nat
      /\ \A j \in DOMAIN r : /\ j \in Nat
                             /\ (j = 1 /\ r[j] = Join) \/ (j - 1 \in DOMAIN q /\ r[j] = q[j - 1])
  BY JoinedIndex
<1> SUFFICES ASSUME NEW i \in DOMAIN r, r[i].type = "snapshot",
                    \A j \in DOMAIN r : i < j => r[j].type # "leave"
             PROVE  /\ y # 0 /\ rdy
                    /\ \/ drt \/ r[i].text = t
                       \/ \E j \in DOMAIN r : i < j /\ r[j].type = "snapshot"
  BY DEF SavesSeq
<1>1. /\ \A j \in DOMAIN q : j + 1 \in DOMAIN r /\ r[j + 1] = q[j] /\ j \in Nat
      /\ i \in Nat /\ i - 1 \in DOMAIN q /\ r[i] = q[i - 1]
  BY <1>0
<1>2. \A j \in DOMAIN q : i - 1 < j => j + 1 \in DOMAIN r /\ i < j + 1 /\ r[j + 1] = q[j]
  BY <1>1
<1>3. \A j \in DOMAIN q : i - 1 < j => q[j].type # "leave"
  BY <1>2
<1>4. /\ y # 0 /\ rdy
      /\ \/ drt \/ q[i - 1].text = t
         \/ \E j \in DOMAIN q : i - 1 < j /\ q[j].type = "snapshot"
  BY <1>1, <1>3 DEF SavesSeq
<1> QED
  BY <1>1, <1>2, <1>4

(* What a Join stands before has the authors it had.                         *)
LEMMA WrittenJoined ==
    ASSUME NEW q \in Seq(Telling), NEW as, Written(q, as)
    PROVE  Written(<<Join>> \o q, as)
<1> SUFFICES ASSUME NEW r, r = <<Join>> \o q PROVE Written(r, as)
  OBVIOUS
<1>1. /\ Join.type = "join"
      /\ \A i \in DOMAIN r : (i = 1 /\ r[i] = Join) \/ (i - 1 \in DOMAIN q /\ r[i] = q[i - 1])
  BY JoinedIndex
<1>2. SUFFICES ASSUME NEW i \in DOMAIN r, r[i].type = "update" PROVE By(r[i].edits, as)
  BY DEF Written
<1>3. i - 1 \in DOMAIN q /\ r[i] = q[i - 1]
  BY <1>1, <1>2
<1> QED
  BY <1>2, <1>3 DEF Written

(* The view changes, and with its text the timer runs.                       *)
LEMMA SavesKept ==
    ASSUME NEW q, NEW y, NEW rdy, NEW drt, NEW t, NEW y2, NEW rdy2, NEW drt2, NEW t2,
           SavesSeq(q, y, rdy, drt, t),
           y # 0 /\ rdy => y2 # 0 /\ rdy2 /\ (drt2 \/ (~drt /\ t2 = t))
    PROVE  SavesSeq(q, y2, rdy2, drt2, t2)
  BY DEF SavesSeq

LEMMA SnapAdd ==
    ASSUME NEW q \in Seq(Telling), NEW m \in Telling
    PROVE  HasSnap(q \o <<m>>) <=> HasSnap(q) \/ m.type = "snapshot"
<1> DEFINE n == Len(q) + 1
<1> SUFFICES ASSUME NEW r, r = q \o <<m>>
             PROVE  HasSnap(r) <=> HasSnap(q) \/ m.type = "snapshot"
  OBVIOUS
<1>1. /\ \A i \in DOMAIN q : i \in DOMAIN r /\ r[i] = q[i]
      /\ n \in DOMAIN r /\ r[n] = m
      /\ \A i \in DOMAIN r : (i \in DOMAIN q /\ r[i] = q[i]) \/ (i = n /\ r[i] = m)
  BY AddIndex
<1> HIDE DEF n
<1> QED
  BY <1>1 DEF HasSnap

LEMMA SnapTail ==
    ASSUME NEW q \in Seq(Telling), q # <<>>
    PROVE  HasSnap(q) <=> HasSnap(Tail(q)) \/ Head(q).type = "snapshot"
<1> SUFFICES ASSUME NEW r, r = Tail(q)
             PROVE  HasSnap(q) <=> HasSnap(r) \/ Head(q).type = "snapshot"
  OBVIOUS
<1>1. /\ 1 \in DOMAIN q /\ q[1] = Head(q)
      /\ \A i \in DOMAIN r : i + 1 \in DOMAIN q /\ r[i] = q[i + 1]
      /\ \A i \in DOMAIN q : i = 1 \/ (i - 1 \in DOMAIN r /\ r[i - 1] = q[i])
  BY TailIndex
<1>2. HasSnap(r) => HasSnap(q)
  BY <1>1 DEF HasSnap
<1>3. ASSUME HasSnap(q), Head(q).type # "snapshot" PROVE HasSnap(r)
  <2>1. PICK i \in DOMAIN q : q[i].type = "snapshot"
    BY <1>3 DEF HasSnap
  <2>2. i - 1 \in DOMAIN r /\ r[i - 1] = q[i]
    BY <1>1, <1>3, <2>1
  <2> QED
    BY <2>1, <2>2 DEF HasSnap
<1>4. Head(q).type = "snapshot" => HasSnap(q)
  BY <1>1 DEF HasSnap
<1> QED
  BY <1>2, <1>3, <1>4

(* The first snapshot of a queue in which nobody leaves, read by the hub.    *)
LEMMA SavesHead ==
    ASSUME NEW q \in Seq(Telling), q # <<>>, NEW y, NEW rdy, NEW drt, NEW t,
           SavesSeq(q, y, rdy, drt, t), Head(q).type = "snapshot", NoLeave(Tail(q))
    PROVE  y # 0 /\ rdy /\ (drt \/ HasSnap(Tail(q)) \/ Head(q).text = t)
<1> SUFFICES ASSUME NEW r, r = Tail(q) PROVE y # 0 /\ rdy /\ (drt \/ HasSnap(r) \/ Head(q).text = t)
  OBVIOUS
<1>1. /\ 1 \in DOMAIN q /\ q[1] = Head(q) /\ \A j \in DOMAIN q : j \in Nat
      /\ \A j \in DOMAIN q : j = 1 \/ (j - 1 \in DOMAIN r /\ r[j - 1] = q[j])
  BY TailIndex
<1>2. \A j \in DOMAIN q : 1 < j => j - 1 \in DOMAIN r /\ r[j - 1] = q[j]
  BY <1>1
<1>3. \A j \in DOMAIN q : 1 < j => q[j].type # "leave"
  BY <1>2 DEF NoLeave
<1>4. /\ y # 0 /\ rdy
      /\ \/ drt \/ q[1].text = t
         \/ \E j \in DOMAIN q : 1 < j /\ q[j].type = "snapshot"
  BY <1>1, <1>3 DEF SavesSeq
<1> QED
  BY <1>1, <1>2, <1>4 DEF HasSnap

(* Invitations on their way.                                                 *)
LEMMA InvitedAdd ==
    ASSUME NEW q \in Seq(DownMsgs), NEW m \in DownMsgs, NEW t, Invited(q, t)
    PROVE  Invited(q \o <<m>>, t)
<1> DEFINE n == Len(q) + 1
<1> SUFFICES ASSUME NEW r, r = q \o <<m>> PROVE Invited(r, t)
  OBVIOUS
<1>1. /\ \A i \in DOMAIN q : i \in DOMAIN r /\ r[i] = q[i] /\ i < n
      /\ \A i \in DOMAIN r : (i \in DOMAIN q /\ r[i] = q[i]) \/ (i = n /\ r[i] = m)
      /\ n \in Nat /\ \A i \in DOMAIN q : i \in Nat
  BY AddIndex
<1> HIDE DEF n
<1>2. PICK i \in DOMAIN q : q[i] = Seed(TRUE, t) /\ \A j \in DOMAIN q : j < i => q[j].type # "seed"
  BY DEF Invited
<1>3. \A j \in DOMAIN r : j < i => r[j].type # "seed"
  BY <1>1, <1>2
<1> QED
  BY <1>1, <1>2, <1>3 DEF Invited

LEMMA InvitedTail ==
    ASSUME NEW q \in Seq(DownMsgs), q # <<>>, NEW t, Invited(q, t)
    PROVE  Head(q) = Seed(TRUE, t) \/ (Head(q).type = "update" /\ Invited(Tail(q), t))
<1> SUFFICES ASSUME NEW r, r = Tail(q), Head(q) # Seed(TRUE, t)
             PROVE  Head(q).type = "update" /\ Invited(r, t)
  OBVIOUS
<1>1. /\ 1 \in DOMAIN q /\ q[1] = Head(q) /\ \A i \in DOMAIN q : i \in Nat \ {0}
      /\ \A i \in DOMAIN r : i + 1 \in DOMAIN q /\ r[i] = q[i + 1] /\ i \in Nat
      /\ \A i \in DOMAIN q : i = 1 \/ (i - 1 \in DOMAIN r /\ r[i - 1] = q[i])
      /\ Head(q) \in DownMsgs
  BY TailIndex, HeadTail
<1>2. PICK i \in DOMAIN q : q[i] = Seed(TRUE, t) /\ \A j \in DOMAIN q : j < i => q[j].type # "seed"
  BY DEF Invited
<1>3. i # 1 /\ 1 < i /\ i - 1 \in DOMAIN r /\ r[i - 1] = Seed(TRUE, t)
  <2>1. i # 1
    BY <1>1, <1>2
  <2>2. 1 < i
    BY <1>1, <2>1
  <2> QED
    BY <1>1, <1>2, <2>1, <2>2
<1>4. Head(q).type # "seed"
  BY <1>1, <1>2, <1>3
<1>5. Head(q).type = "update"
  BY <1>1, <1>4 DEF DownMsgs
<1>6. \A j \in DOMAIN r : j < i - 1 => r[j].type # "seed"
  <2> SUFFICES ASSUME NEW j \in DOMAIN r, j < i - 1 PROVE r[j].type # "seed"
    OBVIOUS
  <2>1. j \in Nat /\ i \in Nat /\ j + 1 < i /\ j + 1 \in DOMAIN q /\ r[j] = q[j + 1]
    BY <1>1
  <2> QED
    BY <1>2, <2>1
<1> QED
  BY <1>3, <1>5, <1>6 DEF Invited

LEMMA InvitedNow ==
    ASSUME NEW t \in Texts, NEW r, r = <<>> \o <<Seed(TRUE, t)>>
    PROVE  Invited(r, t)
<1> DEFINE m == Seed(TRUE, t)
<1>1. m \in DownMsgs /\ r = <<>> \o <<m>>
  BY MsgFacts
<1> HIDE DEF m
<1>2. <<m>> \in Seq(DownMsgs)
  BY <1>1
<1>3. r = <<m>>
  BY <1>1, <1>2, EmptyConcat
<1>4. DOMAIN r = {1} /\ r[1] = m
  BY <1>1, <1>3, OneMessage
<1>5. \A j \in DOMAIN r : ~(j < 1)
  BY <1>4
<1> QED
  BY <1>4, <1>5 DEF Invited, m

----------------------------------------------------------------------------
(* Who wrote what.                                                           *)

LEMMA WrittenAdd ==
    ASSUME NEW S, NEW q \in Seq(S), NEW m \in S, NEW as, Written(q, as),
           m.type = "update" => By(m.edits, as)
    PROVE  Written(q \o <<m>>, as)
<1> DEFINE n == Len(q) + 1
<1> SUFFICES ASSUME NEW r, r = q \o <<m>> PROVE Written(r, as)
  OBVIOUS
<1>1. \A i \in DOMAIN r : (i \in DOMAIN q /\ r[i] = q[i]) \/ (i = n /\ r[i] = m)
  BY AddIndex
<1> QED
  BY <1>1 DEF Written

LEMMA WrittenConcat ==
    ASSUME NEW S, NEW p \in Seq(S), NEW q \in Seq(S), NEW as, Written(p, as), Written(q, as)
    PROVE  Written(p \o q, as)
<1> SUFFICES ASSUME NEW r, r = p \o q PROVE Written(r, as)
  OBVIOUS
<1>1. \A i \in DOMAIN r : \/ i \in DOMAIN p /\ r[i] = p[i]
                          \/ i - Len(p) \in DOMAIN q /\ r[i] = q[i - Len(p)]
  BY ConcatIndex
<1> QED
  BY <1>1 DEF Written

LEMMA WrittenTail ==
    ASSUME NEW S, NEW q \in Seq(S), q # <<>>, NEW as, Written(q, as)
    PROVE  /\ Written(Tail(q), as)
           /\ Head(q).type = "update" => By(Head(q).edits, as)
<1> SUFFICES ASSUME NEW r, r = Tail(q)
             PROVE  Written(r, as) /\ (Head(q).type = "update" => By(Head(q).edits, as))
  OBVIOUS
<1>1. /\ 1 \in DOMAIN q /\ q[1] = Head(q)
      /\ \A i \in DOMAIN r : i + 1 \in DOMAIN q /\ r[i] = q[i + 1]
  BY TailIndex
<1> QED
  BY <1>1 DEF Written

LEMMA WrittenMore ==
    ASSUME NEW q, NEW as, NEW bs, as \subseteq bs, Written(q, as)
    PROVE  Written(q, bs)
  BY DEF Written, By

----------------------------------------------------------------------------
(* Steps of the views.                                                       *)

(* Nothing changes for the view of d.                                        *)
Same(d) ==
    /\ Way(d)' = Way(d) /\ ydoc'[d] = ydoc[d] /\ ready'[d] = ready[d] /\ dirty'[d] = dirty[d]
    /\ Text(have[d])' = Text(have[d])

LEMMA TextStays ==
    ASSUME NEW d \in Clients, Integrated(have'[d]) = Integrated(have[d]),
           \A e \in have[d] : seedText'[e[1]] = seedText[e[1]]
    PROVE  Text(have[d])' = Text(have[d])
<1>1. \A e \in Integrated(have[d]) : seedText'[e[1]] = seedText[e[1]]
  BY DEF Integrated
<1> QED
  BY <1>1 DEF Text, IsSeed

LEMMA SavesStep ==
    ASSUME Saves, \A d \in Clients : Same(d) \/ SavesOf(d)'
    PROVE  Saves'
<1> SUFFICES ASSUME NEW d \in Clients, Same(d) PROVE SavesOf(d)'
  BY DEF Saves
<1>1. SavesOf(d)
  BY DEF Saves
<1> QED
  BY <1>1 DEF SavesOf, SavesSeq, Same

LEMMA LeadsSame ==
    ASSUME NEW d \in Clients, Same(d), md' = md, current'[d] = current[d], Leads(d),
           link'[current[d]] = link[current[d]],
           ydoc[d] = 0 /\ link[current[d]] = "up" /\ Invited(down[current[d]], md) =>
               Invited(down'[current[d]], md)
    PROVE  Leads(d)'
<1>1. CASE ydoc[d] # 0
  BY <1>1 DEF Leads, Same, HasSnap
<1>2. CASE ydoc[d] = 0
  <2>1. ydoc'[d] = 0
    BY <1>2 DEF Same
  <2>2. link[current[d]] = "up" => Invited(down'[current[d]], md)
    BY <1>2 DEF Leads
  <2>3. link'[current'[d]] = "up" => Invited(down'[current'[d]], md')
    BY <2>2
  <2> QED
    BY <2>1, <2>3 DEF Leads
<1> QED
  BY <1>1, <1>2

LEMMA LedStep ==
    ASSUME Led,
           ~handover' =>
               /\ ~handover /\ leader' = leader
               /\ members' = <<>> => members = <<>> /\ (Virgin => Virgin')
               /\ \A d \in Clients : Seated(d)' /\ leader = current'[d] =>
                     Seated(d) /\ current'[d] = current[d] /\ (Leads(d) => Leads(d)')
    PROVE  Led'
<1> SUFFICES ASSUME ~handover'
             PROVE  /\ members' = <<>> => Virgin'
                    /\ \A d \in Clients : Seated(d)' /\ leader' = current'[d] => Leads(d)'
  BY DEF Led
<1>1. /\ members = <<>> => Virgin
      /\ \A d \in Clients : Seated(d) /\ leader = current[d] => Leads(d)
  BY DEF Led
<1> QED
  BY <1>1

LEMMA ClientFile ==
    ASSUME DocInv, ConvInv, FileInv, NEW c \in Clients,
           UNCHANGED <<current, link, members, leader, seeded, baseline, log, md, handover>>,
           \A d \in Clients : d # c =>
               Same(d) /\ (current[d] # None => down'[current[d]] = down[current[d]]),
           SavesOf(c)',
           Made \subseteq Made',
           \A d \in Clients : By(have'[d], Made') /\ ydoc'[d] \in Made' \cup {0},
           \A d \in Clients : Written(out'[d], Made'),
           \A s \in Sessions : Written(up'[s], Made') /\ Written(down'[s], Made'),
           \A d \in Clients : ydoc'[d] = 0 => ~ready'[d] /\ ~dirty'[d],
           \A d \in Clients : Seated(d)' => Seated(d),
           Virgin => (\A s \in Sessions : down'[s] = <<>>) /\ \A d \in Clients : ydoc'[d] = 0,
           Seated(c)' /\ Seated(c) /\ leader = current[c] /\ Leads(c) => Leads(c)'
    PROVE  FileInv'
<1>0. Saves /\ Authored /\ Led
  BY DEF FileInv
<1>1. Saves'
  BY <1>0, SavesStep
<1>2. Authored'
  <2>1. By(Room', Made')
    BY <1>0 DEF Authored, By, Room
  <2> QED
    BY <2>1 DEF Authored
<1>3. Unready'
  BY DEF Unready
<1>4. Led'
  <2>1. ASSUME NEW d \in Clients, Seated(d)', leader = current'[d]
        PROVE  Seated(d) /\ current'[d] = current[d] /\ (Leads(d) => Leads(d)')
    <3>1. Seated(d) /\ current'[d] = current[d] /\ current[d] # None
      BY <2>1 DEF Seated
    <3>2. CASE d = c
      BY <2>1, <3>1, <3>2
    <3>3. CASE d # c
      <4>1. Same(d) /\ down'[current[d]] = down[current[d]] /\ link'[current[d]] = link[current[d]]
        BY <3>1, <3>3
      <4>2. Leads(d) => Leads(d)'
        BY <3>1, <4>1, LeadsSame
      <4> QED
        BY <3>1, <4>2
    <3> QED
      BY <3>2, <3>3
  <2>2. Virgin => Virgin'
    BY DEF Virgin
  <2> QED
    BY <1>0, <2>1, <2>2, LedStep
<1> QED
  BY <1>1, <1>2, <1>3, <1>4 DEF FileInv

LEMMA SentWritten ==
    ASSUME Linked, Channels, Authored, NEW c \in Clients, NEW m \in Telling, Send(c, <<m>>),
           UNCHANGED <<current, clientOf, hubUp, members>>,
           Made \subseteq Made', m.type = "update" => By(m.edits, Made')
    PROVE  /\ \A d \in Clients : Written(out'[d], Made')
           /\ \A s \in Sessions : Written(up'[s], Made')
<1>1. /\ \A d \in Clients : out'[d] = out[d] \/ out'[d] = out[d] \o <<m>>
      /\ \A s \in Sessions : up'[s] = up[s] \/ up'[s] = up[s] \o <<m>>
  BY SentFacts
<1>2. ASSUME NEW q \in Seq(Telling), Written(q, Made)
      PROVE  Written(q, Made') /\ Written(q \o <<m>>, Made')
  <2>1. Written(q, Made')
    BY <1>2, WrittenMore
  <2> QED
    BY <2>1, WrittenAdd
<1>3. /\ \A d \in Clients : out[d] \in Seq(Telling) /\ Written(out[d], Made)
      /\ \A s \in Sessions : up[s] \in Seq(Telling) /\ Written(up[s], Made)
  BY DEF Channels, Authored
<1> QED
  BY <1>1, <1>2, <1>3

(* The client c sends m, and that is all that changes for the others.        *)
LEMMA SentFile ==
    ASSUME DocInv, ConvInv, FileInv, NEW c \in Clients, NEW m \in Telling, Send(c, <<m>>),
           UNCHANGED <<current, clientOf, link, hubUp, members, leader, seeded, baseline, log>>,
           md' = md, handover' = handover,
           \A d \in Clients : d # c =>
               /\ ydoc'[d] = ydoc[d] /\ ready'[d] = ready[d] /\ dirty'[d] = dirty[d]
               /\ Text(have[d])' = Text(have[d])
               /\ current[d] # None => down'[current[d]] = down[current[d]],
           \/ m.type = "leave"
           \/ m.type = "snapshot" /\ ydoc'[c] # 0 /\ ready'[c] /\ m.text = Text(have[c])'
           \/ /\ m.type # "snapshot"
              /\ ydoc[c] # 0 /\ ready[c] => /\ ydoc'[c] # 0 /\ ready'[c]
                                            /\ \/ dirty'[c]
                                               \/ ~dirty[c] /\ Text(have[c])' = Text(have[c]),
           Made \subseteq Made', m.type = "update" => By(m.edits, Made'),
           \A d \in Clients : By(have'[d], Made') /\ ydoc'[d] \in Made' \cup {0},
           \A s \in Sessions : Written(down'[s], Made'),
           \A d \in Clients : ydoc'[d] = 0 => ~ready'[d] /\ ~dirty'[d],
           Virgin => (\A s \in Sessions : down'[s] = <<>>) /\ \A d \in Clients : ydoc'[d] = 0,
           m.type # "leave" /\ Seated(c) /\ leader = current[c] /\ Leads(c) => Leads(c)'
    PROVE  FileInv'
<1>0. Channels /\ Linked /\ Authored /\ Saves
  BY DEF DocInv, ConvInv, FileInv
<1>1. /\ Way(c)' = Way(c) \o <<m>> /\ Way(c) \in Seq(Telling)
      /\ \A d \in Clients : d # c => Way(d)' = Way(d)
      /\ Seated(c)' <=> Seated(c) /\ m.type # "leave"
      /\ \A d \in Clients : d # c => (Seated(d)' <=> Seated(d))
  BY <1>0, SentFacts
<1>2. SavesOf(c)'
  <2>1. SavesSeq(Way(c), ydoc[c], ready[c], dirty[c], Text(have[c]))
    BY <1>0 DEF Saves, SavesOf
  <2>2. m.type \notin {"leave", "snapshot"} =>
           SavesSeq(Way(c), ydoc'[c], ready'[c], dirty'[c], Text(have[c])')
    BY <2>1, SavesKept
  <2>3. SavesSeq(Way(c) \o <<m>>, ydoc'[c], ready'[c], dirty'[c], Text(have[c])')
    BY <1>1, <2>2, SavesAdd
  <2> QED
    BY <1>1, <2>3 DEF SavesOf, SavesSeq
<1>3. \A d \in Clients : d # c => Same(d)
  BY <1>1 DEF Same
<1>4. /\ \A d \in Clients : Written(out'[d], Made')
      /\ \A s \in Sessions : Written(up'[s], Made')
  BY <1>0, SentWritten
<1>5. \A d \in Clients : Seated(d)' => Seated(d)
  BY <1>1
<1> QED
  BY <1>1, <1>2, <1>3, <1>4, <1>5, ClientFile

(* Nothing is sent.                                                          *)
LEMMA StillFile ==
    ASSUME DocInv, ConvInv, FileInv, NEW c \in Clients,
           UNCHANGED <<current, clientOf, link, hubUp, members, leader, seeded, baseline, log>>,
           UNCHANGED <<up, out>>, md' = md, handover' = handover,
           \A d \in Clients : d # c =>
               /\ ydoc'[d] = ydoc[d] /\ ready'[d] = ready[d] /\ dirty'[d] = dirty[d]
               /\ Text(have[d])' = Text(have[d])
               /\ current[d] # None => down'[current[d]] = down[current[d]],
           ydoc[c] # 0 /\ ready[c] => /\ ydoc'[c] # 0 /\ ready'[c]
                                      /\ \/ dirty'[c]
                                         \/ ~dirty[c] /\ Text(have[c])' = Text(have[c]),
           Made \subseteq Made',
           \A d \in Clients : By(have'[d], Made') /\ ydoc'[d] \in Made' \cup {0},
           \A s \in Sessions : Written(down'[s], Made'),
           \A d \in Clients : ydoc'[d] = 0 => ~ready'[d] /\ ~dirty'[d],
           Virgin => (\A s \in Sessions : down'[s] = <<>>) /\ \A d \in Clients : ydoc'[d] = 0,
           Seated(c) /\ leader = current[c] /\ Leads(c) => Leads(c)'
    PROVE  FileInv'
<1>0. Authored /\ Saves
  BY DEF FileInv
<1>1. \A d \in Clients : Way(d)' = Way(d) /\ (Seated(d)' <=> Seated(d))
  BY StillFacts
<1>2. SavesOf(c)'
  <2>1. SavesSeq(Way(c), ydoc[c], ready[c], dirty[c], Text(have[c]))
    BY <1>0 DEF Saves, SavesOf
  <2>2. SavesSeq(Way(c), ydoc'[c], ready'[c], dirty'[c], Text(have[c])')
    BY <2>1, SavesKept
  <2> QED
    BY <1>1, <2>2 DEF SavesOf, SavesSeq
<1>3. \A d \in Clients : d # c => Same(d)
  BY <1>1 DEF Same
<1>4. /\ \A d \in Clients : Written(out'[d], Made')
      /\ \A s \in Sessions : Written(up'[s], Made')
  BY <1>0, WrittenMore DEF Authored
<1> QED
  BY <1>1, <1>2, <1>3, <1>4, ClientFile

LEMMA LeadsSent ==
    ASSUME NEW c \in Clients, NEW m \in Telling, Way(c) \in Seq(Telling),
           Way(c)' = Way(c) \o <<m>>, UNCHANGED <<ydoc, ready, dirty, down, link, current, md>>,
           Text(have[c])' = Text(have[c]), Leads(c)
    PROVE  Leads(c)'
<1>1. HasSnap(Way(c)) => HasSnap(Way(c)')
  BY SnapAdd
<1> QED
  BY <1>1 DEF Leads, HasSnap, Invited

LEMMA OpenFile ==
    ASSUME DocInv, ConvInv, FileInv, NEW c \in Clients, Open(c)
    PROVE  FileInv'
<1>0. Channels /\ Linked /\ Authored /\ Unready
  BY DEF DocInv, ConvInv, FileInv
<1>1. /\ Send(c, <<Join>>) /\ Join \in Telling /\ Join.type = "join"
      /\ UNCHANGED <<ydoc, have, ready, dirty, seedText, born, current, clientOf, link, down,
                     hubUp, md, handover>>
      /\ UNCHANGED <<members, leader, seeder, seeded, baseline, log, blob>>
  BY MsgFacts DEF Open, Join, roomVars
<1>2. \A d \in Clients : Text(have[d])' = Text(have[d])
  BY <1>1, TextStays
<1>3. Made' = Made
  BY <1>1 DEF Made
<1>4. Leads(c) => Leads(c)'
  <2>1. Way(c)' = Way(c) \o <<Join>> /\ Way(c) \in Seq(Telling)
    BY <1>0, <1>1, SentFacts
  <2> QED
    BY <1>1, <1>2, <2>1, LeadsSent
<1>5. /\ \A d \in Clients : By(have'[d], Made') /\ ydoc'[d] \in Made' \cup {0}
      /\ \A s \in Sessions : Written(down'[s], Made')
      /\ \A d \in Clients : ydoc'[d] = 0 => ~ready'[d] /\ ~dirty'[d]
  BY <1>0, <1>1, <1>3 DEF Authored, Unready
<1>6. Virgin => (\A s \in Sessions : down'[s] = <<>>) /\ \A d \in Clients : ydoc'[d] = 0
  BY <1>1 DEF Virgin
<1>7. ydoc[c] # 0 /\ ready[c] => /\ ydoc'[c] # 0 /\ ready'[c]
                                 /\ dirty'[c] \/ (~dirty[c] /\ Text(have[c])' = Text(have[c]))
  BY <1>1, <1>2
<1>8. Join.type # "snapshot" /\ Join.type # "update"
  BY <1>1
<1> QED
  BY <1>1, <1>2, <1>3, <1>4, <1>5, <1>6, <1>7, <1>8, SentFile

LEMMA CloseFile ==
    ASSUME DocInv, ConvInv, FileInv, NEW c \in Clients, Close(c)
    PROVE  FileInv'
<1>0. Channels /\ EditorTypes /\ Authored /\ Unready
  BY DEF DocInv, FileInv
<1>1. /\ Send(c, <<Leave>>) /\ Leave \in Telling /\ Leave.type = "leave"
      /\ ydoc' = [ydoc EXCEPT ![c] = 0] /\ have' = [have EXCEPT ![c] = {}]
      /\ ready' = [ready EXCEPT ![c] = FALSE] /\ dirty' = [dirty EXCEPT ![c] = FALSE]
      /\ UNCHANGED <<seedText, born, current, clientOf, link, hubUp, down, md, handover>>
      /\ UNCHANGED <<members, leader, seeder, seeded, baseline, log, blob>>
  BY MsgFacts DEF Close, Leave, roomVars
<1>2. /\ ydoc'[c] = 0 /\ have'[c] = {} /\ ~ready'[c] /\ ~dirty'[c]
      /\ \A d \in Clients : d # c => /\ ydoc'[d] = ydoc[d] /\ have'[d] = have[d]
                                     /\ ready'[d] = ready[d] /\ dirty'[d] = dirty[d]
  BY <1>0, <1>1 DEF EditorTypes
<1>3. \A d \in Clients : d # c => Text(have[d])' = Text(have[d])
  BY <1>1, <1>2, TextStays
<1>4. Made' = Made
  BY <1>1 DEF Made
<1>5. /\ \A d \in Clients : By(have'[d], Made') /\ ydoc'[d] \in Made' \cup {0}
      /\ \A s \in Sessions : Written(down'[s], Made')
      /\ \A d \in Clients : ydoc'[d] = 0 => ~ready'[d] /\ ~dirty'[d]
  BY <1>0, <1>1, <1>2, <1>4 DEF Authored, Unready, By
<1>6. Virgin => (\A s \in Sessions : down'[s] = <<>>) /\ \A d \in Clients : ydoc'[d] = 0
  BY <1>1, <1>2 DEF Virgin
<1>7. Leave.type # "update"
  BY <1>1
<1>8. \A d \in Clients : d # c =>
         /\ ydoc'[d] = ydoc[d] /\ ready'[d] = ready[d] /\ dirty'[d] = dirty[d]
         /\ Text(have[d])' = Text(have[d])
         /\ current[d] # None => down'[current[d]] = down[current[d]]
  BY <1>1, <1>2, <1>3
<1> QED
  BY <1>1, <1>4, <1>5, <1>6, <1>7, <1>8, SentFile

LEMMA TypeFile ==
    ASSUME DocInv, ConvInv, FileInv, NEW c \in Clients, Type(c)
    PROVE  FileInv'
<1>0. Channels /\ EditorTypes /\ Authored /\ Unready
  BY DEF DocInv, FileInv
<1> DEFINE e == <<ydoc[c], Cardinality(OwnEdits(c)) + 1>>
           m == Update({e})
<1>1. /\ ydoc[c] # 0 /\ e \in Edits /\ e[1] = ydoc[c] /\ Send(c, <<m>>)
      /\ have' = [have EXCEPT ![c] = @ \cup {e}] /\ dirty' = [dirty EXCEPT ![c] = TRUE]
      /\ UNCHANGED <<ydoc, ready, seedText, born, current, clientOf, link, hubUp, down, md,
                     handover>>
      /\ UNCHANGED <<members, leader, seeder, seeded, baseline, log, blob>>
  BY DEF Type, roomVars
<1>2. m \in Telling /\ m.type = "update" /\ m.edits = {e}
  BY <1>1, MsgFacts DEF Update
<1> HIDE DEF e, m
<1>3. /\ have'[c] = have[c] \cup {e} /\ dirty'[c]
      /\ \A d \in Clients : d # c => have'[d] = have[d] /\ dirty'[d] = dirty[d]
  BY <1>0, <1>1 DEF EditorTypes
<1>4. \A d \in Clients : d # c => Text(have[d])' = Text(have[d])
  BY <1>1, <1>3, TextStays
<1>5. Made' = Made
  BY <1>1 DEF Made
<1>6. ydoc[c] \in Made /\ By({e}, Made)
  BY <1>0, <1>1 DEF Authored, By
<1>7. /\ \A d \in Clients : By(have'[d], Made') /\ ydoc'[d] \in Made' \cup {0}
      /\ \A s \in Sessions : Written(down'[s], Made')
      /\ m.type = "update" => By(m.edits, Made')
  BY <1>0, <1>1, <1>2, <1>3, <1>5, <1>6 DEF Authored, By
<1>8. \A d \in Clients : ydoc'[d] = 0 => ~ready'[d] /\ ~dirty'[d]
  BY <1>0, <1>1, <1>3 DEF Unready
<1>9. ~Virgin
  BY <1>1 DEF Virgin
<1>10. Leads(c) => Leads(c)'
  BY <1>1, <1>3 DEF Leads
<1>11. \A d \in Clients : d # c =>
         /\ ydoc'[d] = ydoc[d] /\ ready'[d] = ready[d] /\ dirty'[d] = dirty[d]
         /\ Text(have[d])' = Text(have[d])
         /\ current[d] # None => down'[current[d]] = down[current[d]]
  BY <1>1, <1>3, <1>4
<1>12. /\ m.type # "snapshot" /\ (ydoc[c] # 0 /\ ready[c] => ydoc'[c] # 0 /\ ready'[c])
       /\ Made \subseteq Made'
  BY <1>1, <1>2, <1>5
<1> QED
  BY <1>1, <1>2, <1>3, <1>7, <1>8, <1>9, <1>10, <1>11, <1>12, SentFile

LEMMA MaterialiseFile ==
    ASSUME DocInv, ConvInv, FileInv, NEW c \in Clients, Materialise(c)
    PROVE  FileInv'
<1>0. Channels /\ EditorTypes /\ Authored /\ Unready /\ Linked
  BY DEF DocInv, ConvInv, FileInv
<1>1. /\ dirty[c] /\ dirty' = [dirty EXCEPT ![c] = FALSE]
      /\ UNCHANGED <<ydoc, have, ready, seedText, born, current, clientOf, link, hubUp, down,
                     md, handover>>
      /\ UNCHANGED <<members, leader, seeder, seeded, baseline, log, blob>>
      /\ IF ready[c] THEN Send(c, <<Snapshot(Text(have[c]))>>) ELSE UNCHANGED <<out, up>>
  BY DEF Materialise, MaterialiseIf, roomVars
<1>2. ~dirty'[c] /\ \A d \in Clients : d # c => dirty'[d] = dirty[d]
  BY <1>0, <1>1 DEF EditorTypes
<1>3. \A d \in Clients : Text(have[d])' = Text(have[d])
  BY <1>1, TextStays
<1>4. Made' = Made
  BY <1>1 DEF Made
<1>5. /\ \A d \in Clients : By(have'[d], Made') /\ ydoc'[d] \in Made' \cup {0}
      /\ \A s \in Sessions : Written(down'[s], Made')
  BY <1>0, <1>1, <1>4 DEF Authored
<1>6. \A d \in Clients : ydoc'[d] = 0 => ~ready'[d] /\ ~dirty'[d]
  BY <1>0, <1>1, <1>2 DEF Unready
<1>7. ydoc[c] # 0 /\ ~Virgin
  BY <1>0, <1>1 DEF Unready, Virgin
<1>8. \A d \in Clients : d # c =>
         /\ ydoc'[d] = ydoc[d] /\ ready'[d] = ready[d] /\ dirty'[d] = dirty[d]
         /\ Text(have[d])' = Text(have[d])
         /\ current[d] # None => down'[current[d]] = down[current[d]]
  BY <1>1, <1>2, <1>3
<1>9. CASE ready[c]
  <2> DEFINE t == Text(have[c])
             m == Snapshot(t)
  <2>1. Send(c, <<m>>)
    BY <1>1, <1>9
  <2>2. m \in Telling /\ m.type = "snapshot" /\ m.text = t
    BY <1>0, TextType, MsgFacts DEF EditorTypes, Snapshot
  <2>3. t = Text(have[c])'
    BY <1>3
  <2> HIDE DEF m, t
  <2>4. Leads(c)'
    <3>1. HasSnap(Way(c)')
      <4>1. Way(c)' = Way(c) \o <<m>> /\ Way(c) \in Seq(Telling)
        BY <1>0, <1>1, <2>1, <2>2, SentFacts
      <4> QED
        BY <2>2, <4>1, SnapAdd
    <3> QED
      BY <1>1, <1>7, <1>9, <3>1 DEF Leads, HasSnap
  <2>5. /\ m.type = "snapshot" /\ ydoc'[c] # 0 /\ ready'[c] /\ m.text = Text(have[c])'
        /\ m.type # "update" /\ Made \subseteq Made'
    BY <1>1, <1>4, <1>7, <1>9, <2>2, <2>3
  <2> QED
    BY <1>1, <1>5, <1>6, <1>7, <1>8, <2>1, <2>2, <2>4, <2>5, SentFile
<1>10. CASE ~ready[c]
  <2>1. UNCHANGED <<up, out>> /\ Made \subseteq Made'
    BY <1>1, <1>4, <1>10
  <2>2. ~Leads(c)
    BY <1>7, <1>10 DEF Leads
  <2> QED
    BY <1>1, <1>5, <1>6, <1>7, <1>8, <1>10, <2>1, <2>2, StillFile
<1> QED
  BY <1>9, <1>10

LEMMA CompactFile ==
    ASSUME DocInv, ConvInv, FileInv, NEW c \in Clients, Compact(c)
    PROVE  FileInv'
<1>0. Channels /\ EditorTypes /\ Linked /\ Authored /\ Unready
  BY DEF DocInv, ConvInv, FileInv
<1> DEFINE m == Compacted(have[c])
<1>1. /\ have[c] # {} /\ Send(c, <<m>>)
      /\ UNCHANGED <<ydoc, have, ready, dirty, seedText, born, current, clientOf, link, hubUp,
                     down, md, handover>>
      /\ UNCHANGED <<members, leader, seeder, seeded, baseline, log, blob>>
  BY DEF Compact, editorVars, roomVars
<1>2. m \in Telling /\ m.type = "update" /\ m.edits = have[c]
  <2>1. have[c] \in SUBSET Edits
    BY <1>0 DEF EditorTypes
  <2> QED
    BY <1>1, <2>1, MsgFacts DEF Compacted
<1> HIDE DEF m
<1>3. \A d \in Clients : Text(have[d])' = Text(have[d])
  BY <1>1, TextStays
<1>4. Made' = Made
  BY <1>1 DEF Made
<1>5. /\ \A d \in Clients : By(have'[d], Made') /\ ydoc'[d] \in Made' \cup {0}
      /\ \A s \in Sessions : Written(down'[s], Made')
      /\ \A d \in Clients : ydoc'[d] = 0 => ~ready'[d] /\ ~dirty'[d]
      /\ m.type = "update" => By(m.edits, Made')
  BY <1>0, <1>1, <1>2, <1>4 DEF Authored, Unready
<1>6. Virgin => (\A s \in Sessions : down'[s] = <<>>) /\ \A d \in Clients : ydoc'[d] = 0
  BY <1>1 DEF Virgin
<1>7. Leads(c) => Leads(c)'
  <2>1. Way(c)' = Way(c) \o <<m>> /\ Way(c) \in Seq(Telling)
    BY <1>0, <1>1, <1>2, SentFacts
  <2> QED
    BY <1>1, <1>2, <1>3, <2>1, LeadsSent
<1>8. /\ m.type # "snapshot" /\ Made \subseteq Made'
      /\ ydoc[c] # 0 /\ ready[c] => /\ ydoc'[c] # 0 /\ ready'[c]
                                    /\ dirty'[c] \/ (~dirty[c] /\ Text(have[c])' = Text(have[c]))
  BY <1>1, <1>2, <1>3, <1>4
<1> QED
  BY <1>1, <1>2, <1>3, <1>5, <1>6, <1>7, <1>8, SentFile

(* A seed makes a view that was invited lead with its text, or with the      *)
(* file's; one that is empty has nothing to save.                            *)
LEMMA SeedFile ==
    ASSUME DocInv, ConvInv, FileInv, NEW c \in Clients, ReceiveSeed(c)
    PROVE  FileInv'
<1>0. /\ Channels /\ EditorTypes /\ Receiving(c, "seed") /\ Empty /\ Authored /\ Unready
      /\ md \in Texts
  BY DEF DocInv, ConvInv, FileInv, ReceiveSeed, RoomTypes
<1> DEFINE s == current[c]
           a == born + 1
           h == Head(down[s])
           t == IF local[c] # {} THEN local[c] ELSE h.text
           seeds == h.should /\ t # {}
           new == IF seeds THEN {<<a, 1>>} ELSE {}
<1>1. /\ s \in Sessions /\ link[s] = "up"
      /\ down[s] \in Seq(DownMsgs) /\ down[s] # <<>> /\ h.type = "seed" /\ h \in DownMsgs
      /\ down'[s] = Tail(down[s]) /\ \A u \in Sessions : u # s => down'[u] = down[u]
      /\ \A d \in Clients : d # c /\ current[d] # None => down'[current[d]] = down[current[d]]
      /\ UNCHANGED <<open, current, clientOf, link, hubUp, members, leader, seeder, seeded,
                     baseline, log>>
      /\ UNCHANGED <<local, md, handover>>
  BY <1>0, TakeFacts
<1>2. ~Virgin
  BY <1>1 DEF Virgin
<1>3. \A u \in Sessions : Written(down'[u], Made)
  BY <1>0, <1>1, WrittenTail DEF Authored
<1>4. Invited(down[s], md) => h = Seed(TRUE, md)
  BY <1>1, InvitedTail
<1>5. CASE ~open[c] \/ ydoc[c] # 0
  <2>1. UNCHANGED <<ydoc, have, ready, dirty, seedText, born, out, up>>
    BY <1>5 DEF ReceiveSeed
  <2>2. \A d \in Clients : Text(have[d])' = Text(have[d])
    BY <2>1, TextStays
  <2>3. Made' = Made
    BY <2>1 DEF Made
  <2>4. ASSUME Seated(c), Leads(c) PROVE Leads(c)'
    <3>1. ydoc[c] # 0
      BY <1>5, <2>4 DEF ConvInv, Present
    <3>2. Way(c)' = Way(c)
      BY <1>1, <2>1, StillFacts
    <3> QED
      BY <1>1, <2>1, <2>2, <2>4, <3>1, <3>2 DEF Leads, HasSnap
  <2>5. /\ \A d \in Clients : By(have'[d], Made') /\ ydoc'[d] \in Made' \cup {0}
        /\ \A u \in Sessions : Written(down'[u], Made')
        /\ \A d \in Clients : ydoc'[d] = 0 => ~ready'[d] /\ ~dirty'[d]
    BY <1>0, <1>3, <2>1, <2>3 DEF Authored, Unready
  <2>6. \A d \in Clients : d # c =>
           /\ ydoc'[d] = ydoc[d] /\ ready'[d] = ready[d] /\ dirty'[d] = dirty[d]
           /\ Text(have[d])' = Text(have[d])
           /\ current[d] # None => down'[current[d]] = down[current[d]]
    BY <1>1, <2>1, <2>2
  <2>7. /\ Made \subseteq Made'
        /\ ydoc[c] # 0 /\ ready[c] =>
              /\ ydoc'[c] # 0 /\ ready'[c]
              /\ dirty'[c] \/ (~dirty[c] /\ Text(have[c])' = Text(have[c]))
    BY <2>1, <2>2, <2>3
  <2> QED
    BY <1>1, <1>2, <2>1, <2>4, <2>5, <2>6, <2>7, StillFile
<1>6. CASE open[c] /\ ydoc[c] = 0
  <2>1. /\ born' = a /\ ydoc' = [ydoc EXCEPT ![c] = a] /\ have' = [have EXCEPT ![c] = new]
        /\ seedText' = [seedText EXCEPT ![a] = IF seeds THEN t ELSE {}]
        /\ ready' = [ready EXCEPT ![c] = h.should]
        /\ dirty' = [dirty EXCEPT ![c] = local[c] # {} \/ seeds]
        /\ IF seeds THEN Send(c, <<Update({<<a, 1>>})>>) ELSE UNCHANGED <<out, up>>
    BY <1>6 DEF ReceiveSeed
  <2>2. a # 0 /\ {<<a, 1>>} \in SUBSET Edits /\ a \in Nat /\ born \in Nat
    <3>1. c \in Blank /\ Blank \in SUBSET Clients
      BY <1>6 DEF Blank
    <3>2. IsFiniteSet(Blank) /\ Cardinality(Blank) \in Nat
      BY <3>1, BlankFacts
    <3>3. Cardinality(Blank \ {c}) = Cardinality(Blank) - 1 /\ Cardinality(Blank \ {c}) \in Nat
      BY <3>1, <3>2, BlankFacts, FS_RemoveElement
    <3>4. born \in Nat /\ opens \in 0..MaxOpens /\ born + Cardinality(Blank) <= opens
      BY <1>0, DocsAssumption DEF DocInv, OpensCount, EditorTypes
    <3>5. a \in Authors /\ a # 0
      BY <3>2, <3>3, <3>4, DocsAssumption DEF Authors
    <3> QED
      BY <3>4, <3>5, DocsAssumption DEF Edits
  <2>3. Made \subseteq Made' /\ a \in Made' /\ a \notin Made
    BY <2>1, <2>2 DEF Made
  <2>4. /\ ydoc'[c] = a /\ have'[c] = new
        /\ ready'[c] = h.should /\ dirty'[c] = (local[c] # {} \/ seeds)
        /\ \A d \in Clients : d # c => /\ ydoc'[d] = ydoc[d] /\ have'[d] = have[d]
                                       /\ ready'[d] = ready[d] /\ dirty'[d] = dirty[d]
    BY <1>0, <2>1 DEF EditorTypes
  <2>5. \A d \in Clients : d # c => Text(have[d])' = Text(have[d])
    <3> SUFFICES ASSUME NEW d \in Clients, d # c PROVE Text(have[d])' = Text(have[d])
      OBVIOUS
    <3>1. \A e \in have[d] : e[1] # a
      BY <1>0, <2>3 DEF Authored, By
    <3>2. \A e \in have[d] : e[1] \in Authors
      BY <1>0 DEF EditorTypes, Edits
    <3>3. \A e \in have[d] : seedText'[e[1]] = seedText[e[1]]
      BY <1>0, <2>1, <3>1, <3>2 DEF EditorTypes
    <3> QED
      BY <2>4, <3>3, TextStays
  <2>6. By({<<a, 1>>}, Made') /\ By(new, Made')
    BY <2>3 DEF By
  <2>7. /\ \A d \in Clients : By(have'[d], Made') /\ ydoc'[d] \in Made' \cup {0}
        /\ \A u \in Sessions : Written(down'[u], Made')
    <3>1. \A d \in Clients : By(have'[d], Made')
      BY <1>0, <2>3, <2>4, <2>6 DEF Authored, By
    <3>2. \A d \in Clients : ydoc'[d] \in Made' \cup {0}
      BY <1>0, <2>3, <2>4 DEF Authored
    <3> QED
      BY <1>3, <2>3, <3>1, <3>2, WrittenMore
  <2>8. \A d \in Clients : ydoc'[d] = 0 => ~ready'[d] /\ ~dirty'[d]
    BY <1>0, <2>2, <2>4 DEF Unready
  <2>9. \A d \in Clients : d # c =>
           /\ ydoc'[d] = ydoc[d] /\ ready'[d] = ready[d] /\ dirty'[d] = dirty[d]
           /\ Text(have[d])' = Text(have[d])
           /\ current[d] # None => down'[current[d]] = down[current[d]]
    BY <1>1, <2>4, <2>5
  <2>10. Leads(c) => Leads(c)'
    <3> SUFFICES ASSUME Leads(c) PROVE Leads(c)'
      OBVIOUS
    <3>1. h = Seed(TRUE, md)
      BY <1>1, <1>4, <1>6 DEF Leads
    <3>2. h.should = TRUE /\ h.text = md
      BY <3>1 DEF Seed
    <3>3. dirty'[c] \/ (new = {} /\ md = {})
      BY <2>4, <3>2
    <3>4. Text({}) = {}
      BY DEF Text, Integrated
    <3>5. new = {} => Text(have[c])' = {}
      BY <2>4 DEF Text, Integrated
    <3> HIDE DEF new, seeds, t, h, a
    <3> QED
      BY <1>1, <2>2, <2>4, <3>2, <3>3, <3>5 DEF Leads
  <2>11. CASE seeds
    <3> DEFINE m == Update({<<a, 1>>})
    <3>1. m \in Telling /\ m.type = "update" /\ m.edits = {<<a, 1>>}
      BY <2>2, MsgFacts DEF Update
    <3>2. Send(c, <<m>>)
      BY <2>1, <2>11
    <3>3. /\ m.type # "snapshot" /\ (m.type = "update" => By(m.edits, Made'))
          /\ ~(ydoc[c] # 0 /\ ready[c])
      BY <1>6, <2>6, <3>1
    <3> HIDE DEF m, new, seeds, t, h, a, s
    <3> QED
      BY <1>1, <1>2, <2>3, <2>7, <2>8, <2>9, <2>10, <3>1, <3>2, <3>3, SentFile
  <2>12. CASE ~seeds
    <3>1. UNCHANGED <<up, out>> /\ ~(ydoc[c] # 0 /\ ready[c])
      BY <1>6, <2>1, <2>12
    <3> HIDE DEF new, seeds, t, h, a, s
    <3> QED
      BY <1>1, <1>2, <2>3, <2>7, <2>8, <2>9, <2>10, <3>1, StillFile
  <2> QED
    BY <2>11, <2>12
<1> QED
  BY <1>5, <1>6

LEMMA ApplyFile ==
    ASSUME DocInv, ConvInv, FileInv, NEW c \in Clients, ReceiveUpdate(c)
    PROVE  FileInv'
<1>0. Channels /\ EditorTypes /\ Receiving(c, "update") /\ Authored /\ Unready
  BY DEF DocInv, FileInv, ReceiveUpdate, Apply
<1> DEFINE s == current[c]
           h == Head(down[s])
           es == have[c] \cup h.edits
           shows == Integrated(es) # Integrated(have[c])
<1>1. /\ s \in Sessions /\ link[s] = "up"
      /\ down[s] \in Seq(DownMsgs) /\ down[s] # <<>> /\ h.type = "update" /\ h \in DownMsgs
      /\ down'[s] = Tail(down[s]) /\ \A u \in Sessions : u # s => down'[u] = down[u]
      /\ \A d \in Clients : d # c /\ current[d] # None => down'[current[d]] = down[current[d]]
      /\ UNCHANGED <<open, current, clientOf, link, hubUp, members, leader, seeder, seeded,
                     baseline, log>>
      /\ UNCHANGED <<local, md, handover>>
  BY <1>0, TakeFacts
<1>2. /\ UNCHANGED <<ydoc, seedText, born, out, up>>
      /\ \/ UNCHANGED <<have, ready, dirty>>
         \/ /\ ydoc[c] # 0 /\ have' = [have EXCEPT ![c] = es]
            /\ ready' = [ready EXCEPT ![c] = @ \/ shows]
            /\ dirty' = [dirty EXCEPT ![c] = @ \/ (shows /\ TRUE)]
  BY <1>1 DEF ReceiveUpdate, Apply, Receiving
<1>3. /\ \A d \in Clients : d # c => /\ have'[d] = have[d] /\ ready'[d] = ready[d]
                                     /\ dirty'[d] = dirty[d]
      /\ \/ have'[c] = have[c] /\ ready'[c] = ready[c] /\ dirty'[c] = dirty[c]
         \/ /\ ydoc[c] # 0 /\ have'[c] = es
            /\ ready'[c] = (ready[c] \/ shows) /\ dirty'[c] = (dirty[c] \/ shows)
  BY <1>0, <1>2 DEF EditorTypes
<1>4. ~Virgin
  BY <1>1 DEF Virgin
<1>5. Made' = Made
  BY <1>2 DEF Made
<1>6. (\A u \in Sessions : Written(down'[u], Made)) /\ By(h.edits, Made)
  BY <1>0, <1>1, WrittenTail DEF Authored
<1>7. \A d \in Clients : d # c => Text(have[d])' = Text(have[d])
  BY <1>2, <1>3, TextStays
<1>8. \/ ready'[c] = ready[c] /\ dirty'[c] = dirty[c] /\ Text(have[c])' = Text(have[c])
      \/ ready'[c] /\ dirty'[c] /\ ydoc[c] # 0
  <2>1. CASE Integrated(have'[c]) = Integrated(have[c])
    <3>1. ready'[c] = ready[c] /\ dirty'[c] = dirty[c]
      BY <1>0, <1>3, <2>1 DEF EditorTypes
    <3>2. Text(have[c])' = Text(have[c])
      BY <1>2, <2>1, TextStays
    <3> QED
      BY <3>1, <3>2
  <2>2. CASE Integrated(have'[c]) # Integrated(have[c])
    BY <1>3, <2>2
  <2> QED
    BY <2>1, <2>2
<1> HIDE DEF shows
<1>9. /\ \A d \in Clients : By(have'[d], Made') /\ ydoc'[d] \in Made' \cup {0}
      /\ \A u \in Sessions : Written(down'[u], Made')
  <2>1. By(have'[c], Made)
    BY <1>0, <1>3, <1>6 DEF Authored, By
  <2> QED
    BY <1>0, <1>2, <1>3, <1>5, <1>6, <2>1 DEF Authored
<1> HIDE DEF es
<1>10. \A d \in Clients : ydoc'[d] = 0 => ~ready'[d] /\ ~dirty'[d]
  BY <1>0, <1>2, <1>3, <1>8 DEF Unready
<1>11. Leads(c) => Leads(c)'
  <2> SUFFICES ASSUME Leads(c) PROVE Leads(c)'
    OBVIOUS
  <2>1. Way(c)' = Way(c)
    BY <1>1, <1>2, StillFacts
  <2>2. CASE ydoc[c] # 0
    BY <1>1, <1>2, <1>8, <2>1, <2>2 DEF Leads, HasSnap
  <2>3. CASE ydoc[c] = 0
    <3>1. Invited(down[s], md)
      BY <1>1, <2>3 DEF Leads
    <3>2. h # Seed(TRUE, md)
      BY <1>1 DEF Seed
    <3>3. Invited(Tail(down[s]), md)
      BY <1>1, <3>1, <3>2, InvitedTail
    <3>4. down'[current'[c]] = Tail(down[s]) /\ md' = md
      BY <1>1
    <3>5. Invited(down'[current'[c]], md')
      BY <3>3, <3>4
    <3>6. ydoc'[c] = 0 /\ link'[current'[c]] = "up"
      BY <1>1, <1>2, <2>3
    <3> QED
      BY <3>5, <3>6 DEF Leads
  <2> QED
    BY <2>2, <2>3
<1>12. \A d \in Clients : d # c =>
         /\ ydoc'[d] = ydoc[d] /\ ready'[d] = ready[d] /\ dirty'[d] = dirty[d]
         /\ Text(have[d])' = Text(have[d])
         /\ current[d] # None => down'[current[d]] = down[current[d]]
  BY <1>1, <1>2, <1>3, <1>7
<1>13. /\ Made \subseteq Made'
       /\ ydoc[c] # 0 /\ ready[c] =>
             /\ ydoc'[c] # 0 /\ ready'[c]
             /\ dirty'[c] \/ (~dirty[c] /\ Text(have[c])' = Text(have[c]))
  BY <1>2, <1>5, <1>8
<1> HIDE DEF s, h
<1> QED
  BY <1>1, <1>2, <1>4, <1>9, <1>10, <1>11, <1>12, <1>13, StillFile

----------------------------------------------------------------------------
(* Steps of the links.                                                       *)

LEMMA ConnectFile ==
    ASSUME DocInv, ConvInv, FileInv, NEW c \in Clients, NEW s \in Sessions, Connect(c, s)
    PROVE  FileInv'
<1>0. Channels /\ Linked /\ Saves /\ Authored /\ Unready /\ Led
  BY DEF DocInv, ConvInv, FileInv
<1>1. /\ UNCHANGED <<open, ydoc, have, ready, dirty, seedText, born>>
      /\ UNCHANGED <<down, md, handover, members, leader, seeded, baseline, log>>
  BY <1>0, ConnectFacts DEF editorVars, roomVars
<1>2. /\ \A d \in Clients : d # c => current'[d] = current[d] /\ current[d] # s
      /\ \A u \in Sessions : u # s => link'[u] = link[u] /\ up'[u] = up[u]
      /\ out'[c] = <<>> /\ \A d \in Clients : d # c => out'[d] = out[d]
      /\ Way(c)' = up'[s] /\ Way(c) = out[c] /\ out[c] \in Seq(Telling)
      /\ \A d \in Clients : d # c => Way(d)' = Way(d)
      /\ up'[s] = out[c] \/ (up'[s] = <<Join>> \o out[c] /\ open[c])
      /\ ~Seated(c)' /\ \A d \in Clients : d # c => (Seated(d)' <=> Seated(d))
  BY <1>0, ConnectFacts
<1>3. \A d \in Clients : Text(have[d])' = Text(have[d])
  BY <1>1, TextStays
<1>4. Saves'
  <2>1. SavesSeq(out[c], ydoc[c], ready[c], dirty[c], Text(have[c]))
    BY <1>0, <1>2 DEF Saves, SavesOf
  <2>2. SavesSeq(up'[s], ydoc[c], ready[c], dirty[c], Text(have[c]))
    BY <1>2, <2>1, SavesJoined
  <2>3. SavesOf(c)'
    BY <1>1, <1>2, <1>3, <2>2 DEF SavesOf, SavesSeq
  <2>4. \A d \in Clients : d # c => Same(d)
    BY <1>1, <1>2, <1>3 DEF Same
  <2> QED
    BY <1>0, <2>3, <2>4, SavesStep
<1>5. Authored'
  <2>1. Made' = Made /\ Room' = Room
    BY <1>1 DEF Made, Room
  <2>2. Written(up'[s], Made)
    <3>1. Written(out[c], Made)
      BY <1>0 DEF Authored
    <3>2. ASSUME up'[s] = <<Join>> \o out[c] PROVE Written(up'[s], Made)
      BY <1>2, <3>1, <3>2, WrittenJoined
    <3> QED
      BY <1>2, <3>1, <3>2
  <2>3. \A u \in Sessions : Written(up'[u], Made)
    BY <1>0, <1>2, <2>2 DEF Authored
  <2>4. \A d \in Clients : Written(out'[d], Made)
    <3>1. Written(out'[c], Made)
      BY <1>2 DEF Written
    <3> QED
      BY <1>0, <1>2, <3>1 DEF Authored
  <2> QED
    BY <1>0, <1>1, <2>1, <2>3, <2>4 DEF Authored
<1>6. Unready'
  BY <1>0, <1>1 DEF Unready
<1>7. Led'
  <2>1. ASSUME NEW d \in Clients, Seated(d)', Leads(d)
        PROVE  Seated(d) /\ current'[d] = current[d] /\ Leads(d)'
    <3>1. d # c /\ Seated(d) /\ current'[d] = current[d] /\ current[d] # s
      BY <1>2, <2>1
    <3>2. current[d] \in Sessions
      BY <1>0, <3>1 DEF Channels, Seated
    <3>3. Same(d) /\ link'[current[d]] = link[current[d]]
      BY <1>1, <1>2, <1>3, <3>1, <3>2 DEF Same
    <3> QED
      BY <1>1, <2>1, <3>1, <3>3, LeadsSame
  <2>2. \A d \in Clients : Seated(d)' => Seated(d) /\ current'[d] = current[d]
    BY <1>2
  <2>3. Virgin => Virgin'
    BY <1>1 DEF Virgin
  <2> QED
    BY <1>0, <1>1, <2>1, <2>2, <2>3, LedStep
<1> QED
  BY <1>4, <1>5, <1>6, <1>7 DEF FileInv

LEMMA BreakFile ==
    ASSUME DocInv, ConvInv, FileInv, NEW s \in Sessions, Break(s)
    PROVE  FileInv'
<1>0. Channels /\ Linked /\ Saves /\ Authored /\ Unready /\ Led
  BY DEF DocInv, ConvInv, FileInv
<1>1. /\ UNCHANGED <<open, ydoc, have, ready, dirty, seedText, born>>
      /\ UNCHANGED <<md, handover, members, leader, seeded, baseline, log>>
      /\ UNCHANGED <<current, clientOf, up, out, hubUp>>
      /\ link' = [link EXCEPT ![s] = "broken"] /\ down' = [down EXCEPT ![s] = <<>>]
  BY DEF Break, editorVars, roomVars
<1>2. /\ link'[s] = "broken" /\ \A u \in Sessions : u # s => link'[u] = link[u]
      /\ down'[s] = <<>> /\ \A u \in Sessions : u # s => down'[u] = down[u]
  BY <1>0, <1>1 DEF Channels
<1>3. \A d \in Clients : Way(d)' = Way(d) /\ (Seated(d)' <=> Seated(d))
  BY <1>1, StillFacts
<1>4. \A d \in Clients : Same(d)
  <2>1. \A d \in Clients : Text(have[d])' = Text(have[d])
    BY <1>1, TextStays
  <2> QED
    BY <1>1, <1>3, <2>1 DEF Same
<1>5. Saves'
  BY <1>0, <1>4, SavesStep
<1>6. Authored'
  <2>1. Made' = Made /\ Room' = Room
    BY <1>1 DEF Made, Room
  <2>2. \A u \in Sessions : Written(down'[u], Made)
    BY <1>0, <1>2 DEF Authored, Written
  <2> QED
    BY <1>0, <1>1, <2>1, <2>2 DEF Authored
<1>7. Unready'
  BY <1>0, <1>1 DEF Unready
<1>8. Led'
  <2>1. ASSUME NEW d \in Clients, Seated(d), Leads(d) PROVE Leads(d)'
    <3>1. current[d] \in Sessions /\ current'[d] = current[d]
      BY <1>0, <1>1, <2>1 DEF Channels, Seated
    <3>2. CASE current[d] = s
      BY <1>1, <1>2, <1>4, <2>1, <3>1, <3>2 DEF Leads, Same, HasSnap
    <3>3. CASE current[d] # s
      BY <1>1, <1>2, <1>4, <2>1, <3>1, <3>3, LeadsSame
    <3> QED
      BY <3>2, <3>3
  <2>2. Virgin => Virgin'
    BY <1>1, <1>2 DEF Virgin
  <2> QED
    BY <1>0, <1>1, <1>3, <2>1, <2>2, LedStep
<1> QED
  BY <1>5, <1>6, <1>7, <1>8 DEF FileInv

LEMMA NoticeFile ==
    ASSUME DocInv, ConvInv, FileInv, NEW c \in Clients, Notice(c)
    PROVE  FileInv'
<1>0. Channels /\ Linked /\ Saves /\ Authored /\ Unready /\ Led
  BY DEF DocInv, ConvInv, FileInv
<1>1. PICK s \in Sessions : s = current[c]
  BY <1>0 DEF Notice, Channels
<1>2. PICK k \in 0..Len(up[s]) :
         /\ \A d \in Clients : d # c => current[d] # s
         /\ up[s] \in Seq(Telling) /\ Way(c) = up[s]
         /\ \A d \in Clients : d # c => current'[d] = current[d]
         /\ out'[c] = SubSeq(up[s], k + 1, Len(up[s]))
         /\ \A d \in Clients : d # c => out'[d] = out[d]
         /\ up'[s] = (IF s \in hubUp THEN SubSeq(up[s], 1, k) ELSE <<>>)
         /\ \A u \in Sessions : u # s => up'[u] = up[u]
         /\ Way(c)' = out'[c] /\ \A d \in Clients : d # c => Way(d)' = Way(d)
         /\ ~Seated(c)' /\ \A d \in Clients : d # c => (Seated(d)' <=> Seated(d))
         /\ UNCHANGED editorVars /\ UNCHANGED roomVars
         /\ UNCHANGED <<link, down, md, handover>>
  BY <1>0, <1>1, NoticeFacts
<1>3. /\ UNCHANGED <<open, ydoc, have, ready, dirty, seedText, born>>
      /\ UNCHANGED <<link, down, md, handover, members, leader, seeded, baseline, log>>
  BY <1>2 DEF editorVars, roomVars
<1>4. \A d \in Clients : Text(have[d])' = Text(have[d])
  BY <1>3, TextStays
<1>5. Saves'
  <2>1. SavesSeq(up[s], ydoc[c], ready[c], dirty[c], Text(have[c]))
    BY <1>0, <1>2 DEF Saves, SavesOf
  <2>2. SavesSeq(out'[c], ydoc[c], ready[c], dirty[c], Text(have[c]))
    BY <1>2, <2>1, SavesSplit
  <2>3. SavesOf(c)'
    BY <1>2, <1>3, <1>4, <2>2 DEF SavesOf, SavesSeq
  <2>4. \A d \in Clients : d # c => Same(d)
    BY <1>2, <1>3, <1>4 DEF Same
  <2> QED
    BY <1>0, <2>3, <2>4, SavesStep
<1>6. Authored'
  <2>1. Made' = Made /\ Room' = Room
    BY <1>3 DEF Made, Room
  <2>2. Written(up[s], Made)
    BY <1>0 DEF Authored
  <2>3. Written(SubSeq(up[s], 1, k), Made) /\ Written(SubSeq(up[s], k + 1, Len(up[s])), Made)
    <3> SUFFICES ASSUME NEW l, l = SubSeq(up[s], 1, k), NEW r, r = SubSeq(up[s], k + 1, Len(up[s]))
                 PROVE  Written(l, Made) /\ Written(r, Made)
      OBVIOUS
    <3>1. /\ \A i \in DOMAIN l : i \in DOMAIN up[s] /\ l[i] = up[s][i]
          /\ \A i \in DOMAIN r : i + k \in DOMAIN up[s] /\ r[i] = up[s][i + k]
      BY <1>2, SplitIndex
    <3> QED
      BY <2>2, <3>1 DEF Written
  <2>4. Written(<<>>, Made)
    BY DEF Written
  <2>5. \A u \in Sessions : Written(up'[u], Made)
    BY <1>0, <1>2, <2>3, <2>4 DEF Authored
  <2>6. \A d \in Clients : Written(out'[d], Made)
    BY <1>0, <1>2, <2>3 DEF Authored
  <2> QED
    BY <1>0, <1>3, <2>1, <2>5, <2>6 DEF Authored
<1>7. Unready'
  BY <1>0, <1>3 DEF Unready
<1>8. Led'
  <2>1. ASSUME NEW d \in Clients, Seated(d)'
        PROVE  Seated(d) /\ current'[d] = current[d] /\ (Leads(d) => Leads(d)')
    <3>1. d # c /\ Seated(d) /\ current'[d] = current[d]
      BY <1>2, <2>1
    <3>2. Same(d)
      BY <1>2, <1>3, <1>4, <3>1 DEF Same
    <3> QED
      BY <1>3, <3>1, <3>2, LeadsSame
  <2>2. Virgin => Virgin'
    BY <1>3 DEF Virgin
  <2> QED
    BY <1>0, <1>3, <2>1, <2>2, LedStep
<1> QED
  BY <1>5, <1>6, <1>7, <1>8 DEF FileInv

----------------------------------------------------------------------------
(* Steps of the hub.                                                         *)

(* The hub reads a message: for whom that changes nothing.                   *)
LEMMA ReadSame ==
    ASSUME DocInv, ConvInv, NEW s \in Sessions, NEW type, Reading(s, type)
    PROVE  /\ UNCHANGED <<open, ydoc, have, ready, dirty, seedText, born, out, current,
                          clientOf, link, hubUp>>
           /\ \A d \in Clients : Text(have[d])' = Text(have[d])
           /\ \A d \in Clients : current[d] # s => Same(d)
<1>0. Channels /\ Linked
  BY DEF DocInv, ConvInv
<1>1. UNCHANGED <<open, ydoc, have, ready, dirty, seedText, born, out, current, clientOf, link,
                  hubUp>>
  BY DEF Reading, editorVars
<1>2. \A d \in Clients : Text(have[d])' = Text(have[d])
  BY <1>1, TextStays
<1>3. \A d \in Clients : current[d] # s => Way(d)' = Way(d)
  BY <1>0, ReadFacts
<1> QED
  BY <1>1, <1>2, <1>3 DEF Same

LEMMA ReadFile ==
    ASSUME DocInv, ConvInv, FileInv, NEW s \in Sessions, NEW type, Reading(s, type),
           By(Room', Made), \A u \in Sessions : Written(down'[u], Made), Led'
    PROVE  FileInv'
<1>0. Channels /\ Linked /\ Saves /\ Authored /\ Unready
  BY DEF DocInv, ConvInv, FileInv
<1>1. /\ UNCHANGED <<open, ydoc, have, ready, dirty, seedText, born, out, current, clientOf,
                     link, hubUp>>
      /\ \A d \in Clients : Text(have[d])' = Text(have[d])
      /\ \A d \in Clients : current[d] # s => Same(d)
  BY ReadSame
<1>2. /\ up[s] \in Seq(Telling) /\ up[s] # <<>>
      /\ up'[s] = Tail(up[s]) /\ \A u \in Sessions : u # s => up'[u] = up[u]
      /\ \A d \in Clients : current[d] = s => Way(d) = up[s] /\ Way(d)' = Tail(up[s])
  BY <1>0, ReadFacts
<1>3. Saves'
  <2>1. ASSUME NEW d \in Clients, current[d] = s PROVE SavesOf(d)'
    <3> SUFFICES ASSUME NEW w, w = Way(d)', NEW t, t = Text(have[d])'
                 PROVE  SavesSeq(w, ydoc'[d], ready'[d], dirty'[d], t)
      BY DEF SavesOf
    <3>1. SavesSeq(up[s], ydoc[d], ready[d], dirty[d], Text(have[d]))
      BY <1>0, <1>2, <2>1 DEF Saves, SavesOf
    <3>2. SavesSeq(Tail(up[s]), ydoc[d], ready[d], dirty[d], Text(have[d]))
      BY <1>2, <3>1, SavesTail
    <3> QED
      BY <1>1, <1>2, <2>1, <3>2
  <2> QED
    BY <1>0, <1>1, <2>1, SavesStep
<1>4. Authored'
  <2>1. Made' = Made
    BY <1>1 DEF Made
  <2>2. \A u \in Sessions : Written(up'[u], Made)
    <3>1. Written(Tail(up[s]), Made)
      BY <1>0, <1>2, WrittenTail DEF Authored
    <3> QED
      BY <1>0, <1>2, <3>1 DEF Authored
  <2> QED
    BY <1>0, <1>1, <2>1, <2>2 DEF Authored
<1>5. Unready'
  BY <1>0, <1>1 DEF Unready
<1> QED
  BY <1>3, <1>4, <1>5 DEF FileInv

(* Reading anything but a snapshot takes no snapshot away.                   *)
LEMMA ReadLeads ==
    ASSUME DocInv, ConvInv, NEW s \in Sessions, NEW type, Reading(s, type), md' = md,
           NEW d \in Clients, current[d] # s \/ type # "snapshot", Leads(d),
           ydoc[d] = 0 /\ link[current[d]] = "up" /\ Invited(down[current[d]], md) =>
               Invited(down'[current[d]], md)
    PROVE  Leads(d)'
<1>0. Channels /\ Linked
  BY DEF DocInv, ConvInv
<1>1. /\ UNCHANGED <<ydoc, ready, dirty, current, link>>
      /\ Text(have[d])' = Text(have[d])
      /\ current[d] # s => Same(d)
  BY ReadSame
<1>2. CASE current[d] # s
  BY <1>1, <1>2, LeadsSame
<1>3. CASE current[d] = s /\ type # "snapshot"
  <2>1. /\ up[s] \in Seq(Telling) /\ up[s] # <<>> /\ Head(up[s]).type # "snapshot"
        /\ Way(d) = up[s] /\ Way(d)' = Tail(up[s])
    BY <1>0, <1>3, ReadFacts
  <2>2. HasSnap(Way(d)) => HasSnap(Way(d)')
    BY <2>1, SnapTail
  <2>3. CASE ydoc[d] # 0
    BY <1>1, <2>2, <2>3 DEF Leads, HasSnap
  <2>4. CASE ydoc[d] = 0
    BY <1>1, <2>4 DEF Leads, Invited
  <2> QED
    BY <2>3, <2>4
<1> QED
  BY <1>2, <1>3

(* Someone who joins an empty room is invited.                               *)
LEMMA JoinFile ==
    ASSUME DocInv, ConvInv, FileInv, NEW s \in Sessions, HandleJoin(s)
    PROVE  FileInv'
<1>0. /\ Channels /\ RoomTypes /\ RoomInOrder /\ Linked /\ Authored /\ Led /\ Empty
      /\ Reading(s, "join")
  BY DEF DocInv, ConvInv, FileInv, HandleJoin
<1>1. UNCHANGED <<current, link, ydoc, seeded, baseline, log, md, handover>>
  BY <1>0, ReadSame DEF HandleJoin
<1>2. \A d \in Clients : current[d] # None =>
         (NoLeave(up'[current[d]]) <=> NoLeave(up[current[d]]))
  BY <1>0, ReadSeats
<1>3. By(Room', Made)
  BY <1>0, <1>1 DEF Authored, Room
<1>4. CASE IsMember(s)
  <2>1. UNCHANGED <<members, leader, down>>
    BY <1>4 DEF HandleJoin
  <2>2. \A d \in Clients : Seated(d)' <=> Seated(d)
    BY <1>1, <1>2, <2>1 DEF Seated, IsMember
  <2>3. \A d \in Clients : Leads(d) => Leads(d)'
    BY <1>0, <1>1, <2>1, ReadLeads
  <2>4. Virgin => Virgin'
    BY <1>1, <2>1 DEF Virgin
  <2>5. Led'
    BY <1>0, <1>1, <2>1, <2>2, <2>3, <2>4, LedStep
  <2>6. \A u \in Sessions : Written(down'[u], Made)
    BY <1>0, <2>1 DEF Authored
  <2> QED
    BY <1>0, <1>3, <2>5, <2>6, ReadFile
<1>5. CASE ~IsMember(s)
  <2> DEFINE ms == IF IsCold THEN <<Seed(TRUE, md)>> ELSE <<Seed(FALSE, {})>> \o Replay
  <2>1. /\ members' = Append(members, s) /\ leader' = (IF leader = None THEN s ELSE leader)
        /\ down' = IF link[s] # "up" THEN down ELSE [down EXCEPT ![s] = @ \o ms]
    BY <1>5 DEF HandleJoin, DocJoin, Welcome
  <2>2. /\ ms \in Seq(DownMsgs) /\ Brings(ms, 0, {}, Room)
        /\ \A j \in DOMAIN ms : ms[j].type = "update" => ms[j].edits = Room
    BY <1>0, WelcomeBrings
  <2>3. IsCold => ms = <<Seed(TRUE, md)>>
    OBVIOUS
  <2> HIDE DEF ms
  <2>4. /\ link[s] = "up" => down'[s] = down[s] \o ms
        /\ \A u \in Sessions : u # s \/ link[u] # "up" => down'[u] = down[u]
    BY <1>0, <2>1 DEF Channels
  <2>5. \A u \in Sessions : Written(down'[u], Made)
    <3>1. Written(ms, Made)
      BY <1>0, <2>2 DEF Authored, Written
    <3>2. Written(down[s] \o ms, Made)
      BY <1>0, <2>2, <3>1, WrittenConcat DEF Authored, Channels
    <3> QED
      BY <1>0, <2>4, <3>2 DEF Authored
  <2>6. members' # <<>>
    BY <1>0, <1>5, <2>1, JoinedFacts DEF RoomTypes, RoomInOrder
  <2>7. CASE members = <<>>
    <3>1. leader' = s
      BY <1>0, <2>1, <2>7 DEF RoomInOrder
    <3>2. ASSUME ~handover', NEW d \in Clients, Seated(d)', leader' = current'[d]
          PROVE  Leads(d)'
      <4>1. Virgin /\ current[d] = s
        BY <1>0, <1>1, <2>7, <3>1, <3>2 DEF Led
      <4>2. seeder = None
        BY <1>0, <2>7 DEF RoomInOrder, IsMember, Contains
      <4>3. IsCold /\ ydoc[d] = 0 /\ down[s] = <<>>
        BY <4>1, <4>2 DEF IsCold, Virgin
      <4>4. ASSUME link[s] = "up" PROVE Invited(down'[s], md)
        BY <1>0, <2>3, <2>4, <4>3, <4>4, InvitedNow DEF RoomTypes
      <4>5. ydoc'[d] = 0 /\ current'[d] = s /\ (link'[s] = "up" => Invited(down'[s], md'))
        BY <1>1, <4>1, <4>3, <4>4
      <4> QED
        BY <4>5 DEF Leads
    <3>3. Led'
      BY <2>6, <3>2 DEF Led
    <3> QED
      BY <1>0, <1>3, <2>5, <3>3, ReadFile
  <2>8. CASE members # <<>>
    <3>1. leader = Head(members) /\ leader \in Sessions /\ IsMember(leader) /\ leader # s
      <4>1. leader = Head(members) /\ Head(members) \in Range(members) /\ leader \in Sessions
        BY <1>0, <2>8, MembersFacts DEF RoomTypes, RoomInOrder, Range
      <4>2. IsMember(leader)
        BY <1>0, <4>1, MembersFacts DEF RoomTypes
      <4> QED
        BY <1>5, <4>1, <4>2
    <3>2. leader' = leader
      BY <2>1, <3>1, DocsAssumption
    <3>3. ASSUME NEW d \in Clients, Seated(d)', leader = current'[d]
          PROVE  Seated(d) /\ current'[d] = current[d] /\ (Leads(d) => Leads(d)')
      <4>1. current'[d] = current[d] /\ current[d] = leader /\ current[d] # s
        BY <1>1, <3>1, <3>3
      <4>2. Seated(d)
        BY <1>1, <1>2, <3>1, <3>3, <4>1 DEF Seated
      <4>3. down'[current[d]] = down[current[d]]
        BY <2>4, <3>1, <4>1
      <4> QED
        BY <1>0, <1>1, <4>1, <4>2, <4>3, ReadLeads
    <3>4. Led'
      BY <1>0, <1>1, <2>6, <3>2, <3>3, LedStep
    <3> QED
      BY <1>0, <1>3, <2>5, <3>4, ReadFile
  <2> QED
    BY <2>7, <2>8
<1> QED
  BY <1>4, <1>5

(* More comes down for some, and the leader is still there.                  *)
LEMMA LeaveFile ==
    ASSUME DocInv, ConvInv, FileInv, NEW s \in Sessions, HandleLeave(s)
    PROVE  FileInv'
<1>0. /\ Channels /\ RoomTypes /\ Linked /\ Authored /\ Led /\ Reading(s, "leave")
  BY DEF DocInv, ConvInv, FileInv, HandleLeave
<1> DEFINE n == Seed(TRUE, md)
<1>1. UNCHANGED <<current, link, ydoc, seeded, baseline, log, md>>
  BY <1>0, ReadSame DEF HandleLeave
<1>2. /\ \A d \in Clients : Seated(d)' => Seated(d) /\ current[d] # s /\ current[d] \in Sessions
      /\ \A u \in Sessions : \/ down'[u] = down[u]
                             \/ link[u] = "up" /\ down'[u] = down[u] \o <<n>>
      /\ \/ handover'
         \/ /\ handover' = handover /\ leader' = leader
            /\ members' # <<>> \/ (members = <<>> /\ down' = down)
  BY <1>0, LeaveFacts
<1>3. n \in DownMsgs /\ n.type # "update"
  <2>1. n \in DownMsgs
    BY <1>0, MsgFacts DEF RoomTypes
  <2>2. n.type # "update"
    BY DEF Seed
  <2> QED
    BY <2>1, <2>2
<1> HIDE DEF n
<1>4. By(Room', Made)
  BY <1>0, <1>1 DEF Authored, Room
<1>5. \A u \in Sessions : Written(down'[u], Made)
  <2>1. ASSUME NEW u \in Sessions PROVE Written(down[u], Made) /\ Written(down[u] \o <<n>>, Made)
    <3>1. Written(down[u], Made) /\ down[u] \in Seq(DownMsgs)
      BY <1>0 DEF Authored, Channels
    <3> QED
      BY <1>3, <3>1, WrittenAdd
  <2> QED
    BY <1>2, <2>1
<1>6. Led'
  <2>1. ASSUME NEW d \in Clients, Seated(d)', Leads(d)
        PROVE  Leads(d)'
    <3>1. current[d] # s /\ current[d] \in Sessions
      BY <1>2, <2>1
    <3>2. down[current[d]] \in Seq(DownMsgs)
      BY <1>0, <3>1 DEF Channels
    <3>3. Invited(down[current[d]], md) => Invited(down'[current[d]], md)
      BY <1>2, <1>3, <3>1, <3>2, InvitedAdd
    <3> QED
      BY <1>0, <1>1, <2>1, <3>1, <3>3, ReadLeads
  <2>2. down' = down => (Virgin => Virgin')
    BY <1>1 DEF Virgin
  <2> QED
    BY <1>0, <1>1, <1>2, <2>1, <2>2, LedStep
<1> QED
  BY <1>0, <1>4, <1>5, <1>6, ReadFile

(* Updates go round, and the file stays as it is.                            *)
LEMMA UpdateFile ==
    ASSUME DocInv, ConvInv, FileInv, NEW s \in Sessions, HandleUpdate(s)
    PROVE  FileInv'
<1>0. /\ Channels /\ RoomTypes /\ Linked /\ Authored /\ Led /\ Empty /\ Reading(s, "update")
  BY DEF DocInv, ConvInv, FileInv, HandleUpdate
<1>1. UNCHANGED <<current, link, ydoc, members, leader, md, handover>>
  BY <1>0, ReadSame DEF HandleUpdate
<1>2. \A d \in Clients : current[d] # None =>
         (NoLeave(up'[current[d]]) <=> NoLeave(up[current[d]]))
  BY <1>0, ReadSeats
<1>3. \A d \in Clients : Seated(d)' <=> Seated(d)
  BY <1>1, <1>2 DEF Seated, IsMember
<1> SUFFICES ASSUME NEW m, m = Head(up[s]) PROVE FileInv'
  OBVIOUS
<1>4. m.edits \in SUBSET Edits /\ By(m.edits, Made)
  <2>1. up[s] \in Seq(Telling) /\ up[s] # <<>> /\ m \in Telling /\ m.type = "update"
    BY <1>0, ReadFacts
  <2>2. Written(up[s], Made)
    BY <1>0 DEF Authored
  <2>3. By(m.edits, Made)
    BY <2>1, <2>2, WrittenTail
  <2>4. m.edits \in SUBSET Edits
    BY <2>1, MsgFacts
  <2> QED
    BY <2>3, <2>4
<1>5. CASE ~IsMember(s)
  <2>1. UNCHANGED <<seeded, baseline, log, down>>
    BY <1>5 DEF HandleUpdate
  <2>2. By(Room', Made)
    BY <1>0, <2>1 DEF Authored, Room
  <2>3. \A d \in Clients : Leads(d) => Leads(d)'
    BY <1>0, <1>1, <2>1, ReadLeads
  <2>4. Virgin => Virgin'
    BY <1>1, <2>1 DEF Virgin
  <2>5. Led'
    BY <1>0, <1>1, <1>3, <2>3, <2>4, LedStep
  <2>6. \A u \in Sessions : Written(down'[u], Made)
    BY <1>0, <2>1 DEF Authored
  <2> QED
    BY <1>0, <2>2, <2>5, <2>6, ReadFile
<1>6. CASE IsMember(s)
  <2>1. down' = Post(Range(members) \ {s}, Update(m.edits)) /\ Room' \subseteq Room \cup m.edits
    BY <1>0, <1>6, UpdateFacts
  <2>2. By(Room', Made)
    BY <1>0, <1>4, <2>1 DEF Authored, By
  <2>3. members # <<>>
    BY <1>6 DEF IsMember, Contains
  <2> DEFINE n == Update(m.edits)
  <2>4. n \in DownMsgs /\ n.edits = m.edits
    BY <1>4, MsgFacts DEF Update
  <2>5. down' = Post(Range(members) \ {s}, n)
    BY <2>1
  <2> HIDE DEF n
  <2>6. ASSUME NEW u \in Sessions
        PROVE  down[u] \in Seq(DownMsgs) /\ (down'[u] = down[u] \/ down'[u] = down[u] \o <<n>>)
    <3>1. down[u] \in Seq(DownMsgs) /\ Append(down[u], n) = down[u] \o <<n>>
      BY <1>0, <2>4, AppendAdds DEF Channels
    <3> QED
      BY <2>5, <3>1 DEF Post
  <2>7. ASSUME NEW u \in Sessions PROVE Written(down'[u], Made)
    <3>1. Written(down[u], Made) /\ Written(down[u] \o <<n>>, Made)
      BY <1>0, <1>4, <2>4, <2>6, WrittenAdd DEF Authored
    <3> QED
      BY <2>6, <3>1
  <2>8. ASSUME NEW d \in Clients, Seated(d), Leads(d) PROVE Leads(d)'
    <3>1. current[d] \in Sessions
      BY <1>0, <2>8 DEF Seated, Channels
    <3>2. Invited(down[current[d]], md) => Invited(down'[current[d]], md)
      BY <2>4, <2>6, <3>1, InvitedAdd
    <3> QED
      BY <1>0, <1>1, <2>8, <3>2, ReadLeads
  <2>9. Led'
    BY <1>0, <1>1, <1>3, <2>3, <2>8, LedStep
  <2> QED
    BY <1>0, <2>2, <2>7, <2>9, ReadFile
<1> QED
  BY <1>5, <1>6

(* The leader's text becomes the file.                                       *)
LEMMA SnapshotFile ==
    ASSUME DocInv, ConvInv, FileInv, NEW s \in Sessions, HandleSnapshot(s)
    PROVE  FileInv'
<1>0. /\ Channels /\ RoomTypes /\ RoomInOrder /\ Linked /\ Authored /\ Saves /\ Led
      /\ Reading(s, "snapshot")
  BY DEF DocInv, ConvInv, FileInv, HandleSnapshot
<1>1. /\ UNCHANGED <<current, link, ydoc, ready, dirty>>
      /\ UNCHANGED <<members, leader, seeded, baseline, log, down>>
      /\ \A d \in Clients : Text(have[d])' = Text(have[d])
  BY <1>0, ReadSame DEF HandleSnapshot, roomVars
<1>2. \A d \in Clients : current[d] # None =>
         (NoLeave(up'[current[d]]) <=> NoLeave(up[current[d]]))
  BY <1>0, ReadSeats
<1>3. \A d \in Clients : Seated(d)' <=> Seated(d)
  BY <1>1, <1>2 DEF Seated, IsMember
<1>4. By(Room', Made) /\ \A u \in Sessions : Written(down'[u], Made)
  BY <1>0, <1>1 DEF Authored, Room
<1>5. CASE leader = s
  <2>1. md' = Head(up[s]).text
    BY <1>5 DEF HandleSnapshot
  <2>2. members # <<>>
    BY <1>0, <1>5, DocsAssumption DEF RoomInOrder
  <2>3. ASSUME NEW d \in Clients, Seated(d)', leader = current'[d]
        PROVE  Leads(d)'
    <3>1. /\ current[d] = s /\ up[s] \in Seq(Telling) /\ up[s] # <<>>
          /\ Head(up[s]).type = "snapshot" /\ up'[s] = Tail(up[s])
          /\ Way(d) = up[s] /\ Way(d)' = Tail(up[s])
      BY <1>0, <1>1, <1>5, <2>3, ReadFacts
    <3>2. NoLeave(Tail(up[s]))
      BY <1>1, <2>3, <3>1 DEF Seated
    <3>3. SavesSeq(up[s], ydoc[d], ready[d], dirty[d], Text(have[d]))
      BY <1>0, <3>1 DEF Saves, SavesOf
    <3>4. /\ ydoc[d] # 0 /\ ready[d]
          /\ dirty[d] \/ HasSnap(Tail(up[s])) \/ Head(up[s]).text = Text(have[d])
      BY <3>1, <3>2, <3>3, SavesHead
    <3>5. HasSnap(Tail(up[s])) => HasSnap(Way(d)')
      BY <3>1
    <3>6. Head(up[s]).text = Text(have[d]) => md' = Text(have[d])'
      BY <1>1, <2>1
    <3> QED
      BY <1>1, <3>4, <3>5, <3>6 DEF Leads, HasSnap
  <2>4. Led'
    BY <1>1, <2>2, <2>3 DEF Led
  <2> QED
    BY <1>0, <1>4, <2>4, ReadFile
<1>6. CASE leader # s
  <2>1. UNCHANGED <<md, handover>>
    BY <1>6 DEF HandleSnapshot
  <2>2. \A d \in Clients : leader = current[d] /\ Leads(d) => Leads(d)'
    BY <1>0, <1>1, <1>6, <2>1, ReadLeads
  <2>3. Virgin => Virgin'
    BY <1>1 DEF Virgin
  <2>4. Led'
    BY <1>0, <1>1, <1>3, <2>1, <2>2, <2>3, LedStep
  <2> QED
    BY <1>0, <1>4, <2>4, ReadFile
<1> QED
  BY <1>5, <1>6

(* Messages of clients that have given up their session may go, not others.  *)
LEMMA EndFile ==
    ASSUME DocInv, ConvInv, FileInv, NEW s \in Sessions, EndSession(s)
    PROVE  FileInv'
<1>0. Channels /\ RoomTypes /\ Linked /\ Saves /\ Authored /\ Unready /\ Led
  BY DEF DocInv, ConvInv, FileInv
<1> DEFINE n == Seed(TRUE, md)
<1>1. /\ UNCHANGED <<ydoc, have, ready, dirty, seedText, born>>
      /\ UNCHANGED <<out, current, link, seeded, baseline, log, md>>
      /\ \A u \in Sessions : up'[u] = up[u] \/ up'[u] = <<>>
      /\ \A d \in Clients : Way(d)' = Way(d)
  BY <1>0, EndFacts DEF editorVars
<1>2. /\ \A d \in Clients : Seated(d)' => Seated(d) /\ current[d] # s /\ current[d] \in Sessions
      /\ \A u \in Sessions : \/ down'[u] = down[u]
                             \/ link[u] = "up" /\ down'[u] = down[u] \o <<n>>
      /\ \/ handover'
         \/ /\ handover' = handover /\ leader' = leader
            /\ members' # <<>> \/ (members = <<>> /\ down' = down)
  BY <1>0, EndFacts
<1>3. n \in DownMsgs /\ n.type # "update"
  <2>1. n \in DownMsgs
    BY <1>0, MsgFacts DEF RoomTypes
  <2>2. n.type # "update"
    BY DEF Seed
  <2> QED
    BY <2>1, <2>2
<1> HIDE DEF n
<1>4. \A d \in Clients : Same(d)
  <2>1. \A d \in Clients : Text(have[d])' = Text(have[d])
    BY <1>1, TextStays
  <2> QED
    BY <1>1, <2>1 DEF Same
<1>5. Saves'
  BY <1>0, <1>4, SavesStep
<1>6. Authored'
  <2>1. Made' = Made /\ Room' = Room
    BY <1>1 DEF Made, Room
  <2>2. ASSUME NEW u \in Sessions PROVE Written(up'[u], Made) /\ Written(down'[u], Made)
    <3>1. Written(up[u], Made) /\ Written(<<>>, Made)
      BY <1>0 DEF Authored, Written
    <3>2. Written(down[u], Made) /\ down[u] \in Seq(DownMsgs)
      BY <1>0 DEF Authored, Channels
    <3>3. Written(down[u] \o <<n>>, Made)
      BY <1>3, <3>2, WrittenAdd
    <3> QED
      BY <1>1, <1>2, <3>1, <3>2, <3>3
  <2> QED
    BY <1>0, <1>1, <2>1, <2>2 DEF Authored
<1>7. Unready'
  BY <1>0, <1>1 DEF Unready
<1>8. Led'
  <2>1. ASSUME NEW d \in Clients, Seated(d)', Leads(d)
        PROVE  Leads(d)'
    <3>1. current[d] \in Sessions
      BY <1>2, <2>1
    <3>2. down[current[d]] \in Seq(DownMsgs)
      BY <1>0, <3>1 DEF Channels
    <3>3. Invited(down[current[d]], md) => Invited(down'[current[d]], md)
      BY <1>2, <1>3, <3>1, <3>2, InvitedAdd
    <3> QED
      BY <1>1, <1>4, <2>1, <3>3, LeadsSame
  <2>2. down' = down => (Virgin => Virgin')
    BY <1>1 DEF Virgin
  <2> QED
    BY <1>0, <1>1, <1>2, <2>1, <2>2, LedStep
<1> QED
  BY <1>5, <1>6, <1>7, <1>8 DEF FileInv

LEMMA RestartFile ==
    ASSUME DocInv, ConvInv, FileInv, HubRestart
    PROVE  FileInv'
<1>0. Linked /\ Saves /\ Authored /\ Unready
  BY DEF ConvInv, FileInv
<1>1. /\ UNCHANGED <<ydoc, have, ready, dirty, seedText, born, out>>
      /\ baseline' = baseline /\ log' = {} /\ handover'
      /\ \A u \in Sessions : (up'[u] = up[u] \/ up'[u] = <<>>) /\ down'[u] = <<>>
      /\ \A d \in Clients : Way(d)' = Way(d)
  BY <1>0, RestartFacts DEF editorVars
<1>2. \A d \in Clients : Same(d)
  <2>1. \A d \in Clients : Text(have[d])' = Text(have[d])
    BY <1>1, TextStays
  <2> QED
    BY <1>1, <2>1 DEF Same
<1>3. Saves'
  BY <1>0, <1>2, SavesStep
<1>4. Authored'
  <2>1. Made' = Made
    BY <1>1 DEF Made
  <2>2. By(Room', Made)
    BY <1>0, <1>1 DEF Authored, By, Room
  <2>3. Written(<<>>, Made)
    BY DEF Written
  <2>4. \A u \in Sessions : Written(up'[u], Made) /\ Written(down'[u], Made)
    BY <1>0, <1>1, <2>3 DEF Authored
  <2> QED
    BY <1>0, <1>1, <2>1, <2>2, <2>4 DEF Authored
<1>5. Unready'
  BY <1>0, <1>1 DEF Unready
<1>6. Led'
  BY <1>1 DEF Led
<1> QED
  BY <1>3, <1>4, <1>5, <1>6 DEF FileInv

LEMMA InitFile == Init => FileInv
<1> SUFFICES ASSUME Init PROVE FileInv
  OBVIOUS
<1>1. /\ \A s \in Sessions : up[s] = <<>> /\ down[s] = <<>>
      /\ \A c \in Clients : /\ current[c] = None /\ out[c] = <<>> /\ ydoc[c] = 0 /\ have[c] = {}
                            /\ ~ready[c] /\ ~dirty[c]
      /\ members = <<>> /\ baseline = {} /\ log = {} /\ ~seeded
  BY DEF Init
<1>2. Saves
  BY <1>1 DEF Saves, SavesOf, SavesSeq, Way
<1>3. Authored
  BY <1>1 DEF Authored, By, Written, Room
<1>4. Unready
  BY <1>1 DEF Unready
<1>5. Led
  BY <1>1 DEF Led, Virgin, Seated
<1> QED
  BY <1>2, <1>3, <1>4, <1>5 DEF FileInv

LEMMA StutterFile ==
    ASSUME FileInv, UNCHANGED vars
    PROVE  FileInv'
<1>1. /\ UNCHANGED <<ydoc, have, ready, dirty, seedText, born, out, current, link, up, down,
                     hubUp, members, leader, seeded, baseline, log, md, handover>>
  BY DEF vars, editorVars, linkVars, roomVars
<1>2. \A d \in Clients : Same(d)
  <2>1. \A d \in Clients : Text(have[d])' = Text(have[d])
    BY <1>1, TextStays
  <2> QED
    BY <1>1, <2>1 DEF Same, Way
<1>3. Saves'
  BY <1>2, SavesStep DEF FileInv
<1>4. Authored'
  BY <1>1 DEF FileInv, Authored, Written, By, Made, Room
<1>5. Unready'
  BY <1>1 DEF FileInv, Unready
<1>6. Led'
  <2>1. \A d \in Clients : Leads(d) => Leads(d)'
    BY <1>1, <1>2, LeadsSame
  <2>2. \A d \in Clients : Seated(d)' <=> Seated(d)
    BY <1>1 DEF Seated, IsMember, NoLeave
  <2>3. Virgin => Virgin'
    BY <1>1 DEF Virgin
  <2> QED
    BY <1>1, <2>1, <2>2, <2>3, LedStep DEF FileInv
<1> QED
  BY <1>3, <1>4, <1>5, <1>6 DEF FileInv

LEMMA StepFile == DocInv /\ ConvInv /\ FileInv /\ [Next]_vars => FileInv'
<1> SUFFICES ASSUME DocInv, ConvInv, FileInv, [Next]_vars PROVE FileInv'
  OBVIOUS
<1>1. ASSUME NEW c \in Clients, \/ Notice(c) \/ Open(c) \/ Close(c) \/ Type(c)
                                \/ Materialise(c) \/ Compact(c) \/ Receive(c)
                                \/ \E s \in Sessions : Connect(c, s)
      PROVE  FileInv'
  BY <1>1, NoticeFile, OpenFile, CloseFile, TypeFile, MaterialiseFile, CompactFile,
     SeedFile, ApplyFile, ConnectFile DEF Receive
<1>2. ASSUME NEW s \in Sessions, Break(s) \/ HubReads(s) \/ EndSession(s)
      PROVE  FileInv'
  BY <1>2, BreakFile, JoinFile, LeaveFile, UpdateFile, SnapshotFile, EndFile DEF HubReads
<1> QED
  BY <1>1, <1>2, RestartFile, StutterFile DEF Next

(* When all is delivered and no timer runs, the leader's text is in the file. *)
LEMMA FileEnough == DocInv /\ ConvInv /\ FileInv => FileFollows
<1> SUFFICES ASSUME DocInv, ConvInv, FileInv, Settled, hurt = {}, ~handover, members # <<>>,
                    \A c \in Clients : ~dirty[c]
             PROVE  md = Text(Room)
  BY DEF FileFollows
<1>0. Channels /\ RoomTypes /\ RoomInOrder /\ Present /\ Linked /\ Led /\ Converges
  BY ConvEnough DEF DocInv, ConvInv, FileInv
<1>1. leader \in hubUp /\ IsMember(leader) /\ leader \in Sessions
  <2>1. leader = Head(members) /\ Head(members) \in Range(members) /\ leader \in Sessions
    BY <1>0, MembersFacts DEF RoomTypes, RoomInOrder, Range
  <2> QED
    BY <1>0, <2>1, MembersFacts DEF RoomTypes, RoomInOrder
<1>2. PICK c \in Clients : current[c] = leader
  BY <1>0, <1>1 DEF Settled, Linked
<1>3. up[leader] = <<>> /\ leader # None
  BY <1>0, <1>1, DocsAssumption DEF Settled
<1>4. Seated(c) /\ Way(c) = <<>>
  BY <1>1, <1>2, <1>3 DEF Seated, Way, NoLeave
<1>5. open[c]
  BY <1>0, <1>4 DEF Present
<1>6. ydoc[c] # 0
  BY <1>5 DEF Settled, InTouch
<1>7. md = Text(have[c])
  <2>1. Leads(c)
    BY <1>0, <1>2, <1>4 DEF Led
  <2> QED
    BY <1>4, <1>6, <2>1 DEF Leads, HasSnap
<1>8. Text(have[c]) = Text(Room)
  BY <1>0, <1>5 DEF Converges
<1> QED
  BY <1>7, <1>8

(* The .md on the hub ends up with the text of the editors: when everything  *)
(* has been delivered and no save is due, it is the text of the room, unless *)
(* the leader has changed since anyone last saved.                           *)
THEOREM FileIsWritten == Spec => []FileFollows
  BY FileEnough, InitDocInv, StepDocInv, InitConv, StepConv, InitFile, StepFile, PTL DEF Spec

----------------------------------------------------------------------------
(* The text survives.                                                        *)

(* The edits that put in a text of the file.                                 *)
Source == {e \in Edits : e[2] = 1 /\ Orig \in seedText[e[1]]}

Has(es, g) == \E e \in es : e \in g

(* A snapshot in q has the file's text, a compaction an edit that put it in. *)
Faithful(q, g) ==
    \A i \in DOMAIN q :
        /\ q[i].type = "snapshot" => Orig \in q[i].text
        /\ q[i].type = "update" /\ q[i].compaction => Has(q[i].edits, g)

(* The first update in q after i has one of the edits g; or there is none.   *)
FirstHas(q, i, g) ==
    \A k \in DOMAIN q :
        (/\ i < k /\ q[k].type = "update"
         /\ \A j \in DOMAIN q : i < j /\ j < k => q[j].type # "update")
            => Has(q[k].edits, g)

Bare(q, i) == \A k \in DOMAIN q : i < k => q[k].type # "update"

(* Whoever waits for the initial state gets it with the first update, be it  *)
(* a view without it (if w) or one that a seed in q will find; it has yet to *)
(* be sent only if that is all right.                                        *)
Fed(q, w, allRight, g) ==
    \A i \in 0..Len(q) :
        (IF i = 0 THEN w ELSE q[i].type = "seed" /\ ~q[i].should) =>
            FirstHas(q, i, g) /\ (Bare(q, i) => allRight)

Waits(c) == ydoc[c] # 0 /\ ~Has(have[c], Source)

(* Nothing has been sent to a session that is not in the room, or is in one  *)
(* that was not seeded.                                                      *)
Young(s) == ~IsMember(s) \/ ~seeded

Served == \A c \in Clients : current[c] # None /\ link[current[c]] = "up" =>
    Fed(down[current[c]], Waits(c), Young(current[c]), Source)

Sourced == \A a \in Authors : /\ seedText[a] # {} => Orig \in seedText[a]
                              /\ a > born => seedText[a] = {}

Queues ==
    /\ \A s \in Sessions : Faithful(up[s], Source)
    /\ \A c \in Clients : Faithful(out[c], Source)
    /\ seeder # None /\ ~seeded => FirstHas(up[seeder], 0, Source)
    /\ IsCold => /\ \A s \in Sessions : Bare(up[s], 0)
                 /\ \A c \in Clients : Bare(out[c], 0)

Kept ==
    /\ \A c \in Clients : (ready[c] => Has(have[c], Source)) /\ Orig \in local[c]
    /\ HubHasFile => Orig \in md
    /\ Room # {} => Has(Room, Source)

(* The seeder leads; its view has seeded as soon as it has a Y.Doc, and its  *)
(* seed is on its way.                                                       *)
Claimed == seeder # None /\ ~seeded =>
    /\ leader = seeder
    /\ \A i \in DOMAIN down[seeder] : down[seeder][i].type = "seed" => down[seeder][i].should
    /\ \A c \in Clients : current[c] = seeder /\ ydoc[c] # 0 =>
          ready[c] /\ ~Bare(up[seeder], 0)

(* Without a seeder a room that was not seeded is new.                      *)
Untouched == seeder = None /\ ~seeded => Virgin

Sound == Sourced /\ Queues /\ Kept /\ Served /\ Claimed /\ Untouched

KeepInv == hurt = {} => Sound

----------------------------------------------------------------------------
(* What is told.                                                             *)

LEMMA HasMore ==
    ASSUME NEW es, NEW fs, NEW g, NEW g2, Has(es, g), \A e \in es : e \in fs, g \subseteq g2
    PROVE  Has(fs, g2)
  BY DEF Has

LEMMA FaithfulMore ==
    ASSUME NEW q, NEW g, NEW g2, Faithful(q, g), g \subseteq g2
    PROVE  Faithful(q, g2)
  BY DEF Faithful, Has

LEMMA FaithfulFrom ==
    ASSUME NEW q, NEW r, NEW g, Faithful(q, g),
           \A i \in DOMAIN r : r[i].type = "join" \/ \E j \in DOMAIN q : r[i] = q[j]
    PROVE  Faithful(r, g)
<1> SUFFICES ASSUME NEW i \in DOMAIN r
             PROVE  /\ r[i].type = "snapshot" => Orig \in r[i].text
                    /\ r[i].type = "update" /\ r[i].compaction => Has(r[i].edits, g)
  BY DEF Faithful
<1>1. CASE r[i].type = "join"
  BY <1>1
<1>2. CASE \E j \in DOMAIN q : r[i] = q[j]
  BY <1>2 DEF Faithful
<1> QED
  BY <1>1, <1>2

LEMMA FaithfulAdd ==
    ASSUME NEW q \in Seq(Telling), NEW m \in Telling, NEW g, Faithful(q, g),
           m.type = "snapshot" => Orig \in m.text,
           m.type = "update" /\ m.compaction => Has(m.edits, g)
    PROVE  Faithful(q \o <<m>>, g)
<1> DEFINE n == Len(q) + 1
<1> SUFFICES ASSUME NEW r, r = q \o <<m>> PROVE Faithful(r, g)
  OBVIOUS
<1>1. \A i \in DOMAIN r : (i \in DOMAIN q /\ r[i] = q[i]) \/ (i = n /\ r[i] = m)
  BY AddIndex
<1> QED
  BY <1>1 DEF Faithful

LEMMA FirstMore ==
    ASSUME NEW q, NEW i, NEW g, NEW g2, FirstHas(q, i, g), g \subseteq g2
    PROVE  FirstHas(q, i, g2)
  BY DEF FirstHas, Has

LEMMA FirstAdd ==
    ASSUME NEW S, NEW q \in Seq(S), NEW m \in S, NEW i \in 0..Len(q), NEW g, FirstHas(q, i, g),
           m.type = "update" /\ Bare(q, i) => Has(m.edits, g)
    PROVE  FirstHas(q \o <<m>>, i, g)
<1> DEFINE n == Len(q) + 1
<1> SUFFICES ASSUME NEW r, r = q \o <<m>>, NEW k \in DOMAIN r, i < k, r[k].type = "update",
                    \A j \in DOMAIN r : i < j /\ j < k => r[j].type # "update"
             PROVE  Has(r[k].edits, g)
  BY DEF FirstHas
<1>1. /\ \A j \in DOMAIN q : j \in DOMAIN r /\ r[j] = q[j] /\ j < n
      /\ (k \in DOMAIN q /\ r[k] = q[k]) \/ (k = n /\ r[k] = m)
  BY AddIndex
<1> HIDE DEF n
<1>2. CASE k \in DOMAIN q /\ r[k] = q[k]
  <2>1. \A j \in DOMAIN q : i < j /\ j < k => q[j].type # "update"
    BY <1>1
  <2> QED
    BY <1>2, <2>1 DEF FirstHas
<1>3. CASE k = n /\ r[k] = m
  <2>1. Bare(q, i)
    BY <1>1, <1>3 DEF Bare
  <2> QED
    BY <1>3, <2>1
<1> QED
  BY <1>1, <1>2, <1>3

LEMMA BareAdd ==
    ASSUME NEW S, NEW q \in Seq(S), NEW m \in S, NEW i \in 0..Len(q)
    PROVE  Bare(q \o <<m>>, i) <=> Bare(q, i) /\ m.type # "update"
<1> DEFINE n == Len(q) + 1
<1> SUFFICES ASSUME NEW r, r = q \o <<m>> PROVE Bare(r, i) <=> Bare(q, i) /\ m.type # "update"
  OBVIOUS
<1>1. /\ \A j \in DOMAIN q : j \in DOMAIN r /\ r[j] = q[j]
      /\ n \in DOMAIN r /\ r[n] = m
      /\ \A j \in DOMAIN r : (j \in DOMAIN q /\ r[j] = q[j]) \/ (j = n /\ r[j] = m)
      /\ i < n
  BY AddIndex
<1> HIDE DEF n
<1> QED
  BY <1>1 DEF Bare

(* After the first message.                                                  *)
LEMMA FirstTail ==
    ASSUME NEW S, NEW q \in Seq(S), q # <<>>, NEW i \in Nat, NEW l \in {0, i + 1}, NEW g,
           l = 0 => i = 0 /\ Head(q).type # "update"
    PROVE  /\ FirstHas(q, l, g) => FirstHas(Tail(q), i, g)
           /\ Bare(q, l) <=> Bare(Tail(q), i)
<1> SUFFICES ASSUME NEW r, r = Tail(q)
             PROVE  /\ FirstHas(q, l, g) => FirstHas(r, i, g)
                    /\ Bare(q, l) <=> Bare(r, i)
  OBVIOUS
<1>1. /\ \A k \in DOMAIN r : k + 1 \in DOMAIN q /\ r[k] = q[k + 1] /\ k \in Nat
      /\ \A k \in DOMAIN q : k \in Nat \ {0}
      /\ \A k \in DOMAIN q : k = 1 \/ (k - 1 \in DOMAIN r /\ r[k - 1] = q[k])
      /\ q[1] = Head(q)
  BY TailIndex
<1>2. \A k \in DOMAIN r : i < k => l < k + 1
  BY <1>1
<1>3. ASSUME NEW k \in DOMAIN q, l < k, q[k].type = "update"
      PROVE  k - 1 \in DOMAIN r /\ r[k - 1] = q[k] /\ i < k - 1
  <2>1. k # 1
    <3>1. CASE l = 0
      BY <1>1, <1>3, <3>1
    <3>2. CASE l = i + 1
      BY <1>3, <3>2
    <3> QED
      BY <3>1, <3>2
  <2>2. k \in Nat /\ k > 1
    BY <1>1, <2>1
  <2>3. i < k - 1
    BY <1>3, <2>2
  <2> QED
    BY <1>1, <2>1, <2>3
<1>4. Bare(q, l) => Bare(r, i)
  BY <1>1, <1>2 DEF Bare
<1>5. Bare(r, i) => Bare(q, l)
  BY <1>3 DEF Bare
<1>6. ASSUME FirstHas(q, l, g) PROVE FirstHas(r, i, g)
  <2> SUFFICES ASSUME NEW k \in DOMAIN r, i < k, r[k].type = "update",
                      \A j \in DOMAIN r : i < j /\ j < k => r[j].type # "update"
               PROVE  Has(r[k].edits, g)
    BY DEF FirstHas
  <2>1. k + 1 \in DOMAIN q /\ q[k + 1] = r[k] /\ l < k + 1 /\ k \in Nat
    BY <1>1, <1>2
  <2>2. ASSUME NEW j \in DOMAIN q, l < j, j < k + 1, q[j].type = "update" PROVE FALSE
    <3>1. j - 1 \in DOMAIN r /\ r[j - 1] = q[j] /\ i < j - 1 /\ j \in Nat
      BY <1>1, <1>3, <2>2
    <3>2. j - 1 < k
      BY <2>1, <2>2, <3>1
    <3> QED
      BY <2>2, <3>1, <3>2
  <2> QED
    BY <1>6, <2>1, <2>2 DEF FirstHas
<1> QED
  BY <1>4, <1>5, <1>6

LEMMA FirstHead ==
    ASSUME NEW S, NEW q \in Seq(S), q # <<>>, NEW g, FirstHas(q, 0, g), Head(q).type = "update"
    PROVE  Has(Head(q).edits, g)
<1>1. 1 \in DOMAIN q /\ q[1] = Head(q) /\ \A k \in DOMAIN q : k \in Nat
  BY TailIndex
<1>2. \A k \in DOMAIN q : ~(0 < k /\ k < 1)
  BY <1>1
<1> QED
  BY <1>1, <1>2 DEF FirstHas

(* A part of q that begins where q does.                                     *)
LEMMA FirstPart ==
    ASSUME NEW S, NEW q \in Seq(S), NEW k \in 0..Len(q), NEW g, FirstHas(q, 0, g)
    PROVE  FirstHas(SubSeq(q, 1, k), 0, g)
<1> SUFFICES ASSUME NEW r, r = SubSeq(q, 1, k), NEW n \in DOMAIN r, 0 < n, r[n].type = "update",
                    \A j \in DOMAIN r : 0 < j /\ j < n => r[j].type # "update"
             PROVE  Has(r[n].edits, g)
  BY DEF FirstHas
<1>1. k \in Nat /\ DOMAIN r = 1..k /\ \A j \in DOMAIN r : j \in DOMAIN q /\ r[j] = q[j]
  <2>1. \A j \in DOMAIN r : j \in DOMAIN q /\ r[j] = q[j]
    BY SplitIndex
  <2>2. k \in Nat /\ Len(r) = k /\ r \in Seq(S)
    OBVIOUS
  <2> QED
    BY <2>1, <2>2
<1>2. \A j \in DOMAIN q : j \in Nat /\ j > 0
  OBVIOUS
<1>3. ASSUME NEW j \in DOMAIN q, 0 < j, j < n PROVE q[j].type # "update"
  <2>1. j \in DOMAIN r
    BY <1>1, <1>2, <1>3
  <2> QED
    BY <1>1, <1>3, <2>1
<1> QED
  BY <1>1, <1>3 DEF FirstHas

(* Whoever waits is fed.                                                     *)
LEMMA FedEmpty ==
    ASSUME NEW q, q = <<>>, NEW w, NEW ok, NEW g, w => ok
    PROVE  Fed(q, w, ok, g)
<1> SUFFICES ASSUME NEW i \in 0..Len(q),
                    IF i = 0 THEN w ELSE q[i].type = "seed" /\ ~q[i].should
             PROVE  FirstHas(q, i, g) /\ (Bare(q, i) => ok)
  BY DEF Fed
<1>1. DOMAIN q = {} /\ i = 0
  OBVIOUS
<1> QED
  BY <1>1 DEF FirstHas

LEMMA FedKept ==
    ASSUME NEW q, NEW w, NEW w2, NEW ok, NEW ok2, NEW g, NEW g2, Fed(q, w, ok, g),
           w2 => w, ok => ok2, g \subseteq g2
    PROVE  Fed(q, w2, ok2, g2)
<1> SUFFICES ASSUME NEW i \in 0..Len(q),
                    IF i = 0 THEN w2 ELSE q[i].type = "seed" /\ ~q[i].should
             PROVE  FirstHas(q, i, g2) /\ (Bare(q, i) => ok2)
  BY DEF Fed
<1>1. FirstHas(q, i, g) /\ (Bare(q, i) => ok)
  BY DEF Fed
<1> QED
  BY <1>1, FirstMore

LEMMA FedAdd ==
    ASSUME NEW S, NEW q \in Seq(S), NEW m \in S, NEW w, NEW ok, NEW ok2, NEW g,
           Fed(q, w, ok, g),
           m.type = "update" => Has(m.edits, g) \/ ~ok,
           m.type # "update" => (ok => ok2),
           m.type = "seed" /\ ~m.should => ok2
    PROVE  Fed(q \o <<m>>, w, ok2, g)
<1> DEFINE n == Len(q) + 1
<1> SUFFICES ASSUME NEW r, r = q \o <<m>>, NEW i \in 0..Len(r),
                    IF i = 0 THEN w ELSE r[i].type = "seed" /\ ~r[i].should
             PROVE  FirstHas(r, i, g) /\ (Bare(r, i) => ok2)
  BY DEF Fed
<1>1. /\ r \in Seq(S) /\ Len(r) = n /\ Len(q) \in Nat
      /\ \A j \in DOMAIN q : r[j] = q[j]
      /\ r[n] = m
  BY AddIndex
<1>2. CASE i \in 0..Len(q)
  <2>1. IF i = 0 THEN w ELSE q[i].type = "seed" /\ ~q[i].should
    <3>1. i # 0 => i \in DOMAIN q
      BY <1>2
    <3> QED
      BY <1>1, <3>1
  <2>2. FirstHas(q, i, g) /\ (Bare(q, i) => ok)
    BY <1>2, <2>1 DEF Fed
  <2>3. FirstHas(r, i, g)
    BY <1>2, <2>2, FirstAdd
  <2>4. Bare(r, i) => Bare(q, i) /\ m.type # "update"
    BY <1>2, BareAdd
  <2> QED
    BY <2>2, <2>3, <2>4
<1>3. CASE i \notin 0..Len(q)
  <2>1. i = n /\ i # 0 /\ \A k \in DOMAIN r : ~(i < k)
    BY <1>1, <1>3
  <2>2. m.type = "seed" /\ ~m.should
    BY <1>1, <2>1
  <2>3. FirstHas(r, i, g)
    BY <2>1 DEF FirstHas
  <2> QED
    BY <2>2, <2>3
<1> QED
  BY <1>2, <1>3

LEMMA FedTail ==
    ASSUME NEW S, NEW q \in Seq(S), q # <<>>, NEW w, NEW w2, NEW ok, NEW g, Fed(q, w, ok, g),
           w2 => \/ w /\ Head(q).type # "update"
                 \/ Head(q).type = "seed" /\ ~Head(q).should
    PROVE  Fed(Tail(q), w2, ok, g)
<1>1. /\ Tail(q) \in Seq(S) /\ Len(Tail(q)) = Len(q) - 1 /\ Len(q) \in Nat \ {0}
      /\ 1 \in DOMAIN q /\ q[1] = Head(q)
      /\ \A i \in DOMAIN Tail(q) : i + 1 \in DOMAIN q /\ Tail(q)[i] = q[i + 1]
  BY TailIndex
<1> SUFFICES ASSUME NEW i \in 0..Len(Tail(q)),
                    IF i = 0 THEN w2 ELSE Tail(q)[i].type = "seed" /\ ~Tail(q)[i].should
             PROVE  FirstHas(Tail(q), i, g) /\ (Bare(Tail(q), i) => ok)
  BY DEF Fed
<1>2. \E l \in {0, i + 1} :
         /\ l = 0 => i = 0 /\ Head(q).type # "update" /\ w
         /\ l # 0 => q[l].type = "seed" /\ ~q[l].should
  <2>1. CASE i # 0
    <3>1. i \in DOMAIN Tail(q) /\ i + 1 # 0
      BY <1>1, <2>1
    <3> QED
      BY <1>1, <2>1, <3>1
  <2>2. CASE i = 0
    BY <1>1, <2>2
  <2> QED
    BY <2>1, <2>2
<1>3. PICK l \in {0, i + 1} : /\ l = 0 => i = 0 /\ Head(q).type # "update" /\ w
                              /\ l # 0 => q[l].type = "seed" /\ ~q[l].should
  BY <1>2
<1>4. l \in 0..Len(q) /\ i \in Nat
  BY <1>1
<1>5. FirstHas(q, l, g) /\ (Bare(q, l) => ok)
  BY <1>3, <1>4 DEF Fed
<1>6. /\ FirstHas(q, l, g) => FirstHas(Tail(q), i, g)
      /\ Bare(q, l) <=> Bare(Tail(q), i)
  BY <1>3, <1>4, FirstTail
<1> QED
  BY <1>5, <1>6

----------------------------------------------------------------------------
(* What is on its way to the hub.                                            *)
LEMMA SentQueues ==
    ASSUME Channels, Linked, RoomTypes, Queues, NEW c \in Clients, NEW m \in Telling,
           Send(c, <<m>>),
           UNCHANGED <<current, clientOf, hubUp, members, seeder, seeded, log>>,
           NEW g, g = Source', Source \subseteq g,
           m.type = "snapshot" => Orig \in m.text,
           m.type = "update" /\ m.compaction => Has(m.edits, g),
           m.type = "update" => ~IsCold,
           m.type = "update" /\ seeder # None /\ ~seeded /\ current[c] = seeder
               /\ Bare(up[seeder], 0) => Has(m.edits, g)
    PROVE  /\ Queues'
           /\ \A s \in Sessions : Bare(up'[s], 0) => Bare(up[s], 0)
           /\ m.type = "update" /\ current[c] # None => ~Bare(up'[current[c]], 0)
<1>1. /\ \A s \in Sessions : \/ up'[s] = up[s]
                             \/ up'[s] = up[s] \o <<m>> /\ s = current[c]
      /\ out'[c] = out[c] \/ (out'[c] = out[c] \o <<m>> /\ current[c] = None)
      /\ \A d \in Clients : d # c => out'[d] = out[d]
  BY SentFacts
<1>2. /\ \A s \in Sessions : up[s] \in Seq(Telling)
      /\ \A d \in Clients : out[d] \in Seq(Telling)
  BY DEF Channels
<1>3. \A q : Faithful(q, Source) => Faithful(q, g)
  BY FaithfulMore
<1>4. \A q \in Seq(Telling) : Faithful(q, Source) => Faithful(q \o <<m>>, g)
  BY <1>3, FaithfulAdd
<1>5. \A q \in Seq(Telling) : Bare(q \o <<m>>, 0) <=> Bare(q, 0) /\ m.type # "update"
  BY BareAdd
<1>6. \A s \in Sessions : Faithful(up'[s], g)
  BY <1>1, <1>2, <1>3, <1>4 DEF Queues
<1>7. \A d \in Clients : Faithful(out'[d], g)
  BY <1>1, <1>2, <1>3, <1>4 DEF Queues
<1>8. \A s \in Sessions : Bare(up'[s], 0) => Bare(up[s], 0)
  BY <1>1, <1>2, <1>5
<1>9. ASSUME m.type = "update", current[c] # None PROVE ~Bare(up'[current[c]], 0)
  <2>1. up'[current[c]] = up[current[c]] \o <<m>> /\ current[c] \in Sessions
    BY <1>9 DEF Send, Channels
  <2> QED
    BY <1>2, <1>5, <1>9, <2>1
<1>10. ASSUME seeder # None, ~seeded PROVE FirstHas(up'[seeder], 0, g)
  <2>1. FirstHas(up[seeder], 0, Source) /\ seeder \in Sessions
    BY <1>10 DEF Queues, RoomTypes
  <2>2. FirstHas(up[seeder], 0, g)
    BY <2>1, FirstMore
  <2>3. CASE up'[seeder] = up[seeder]
    BY <2>2, <2>3
  <2>4. CASE up'[seeder] = up[seeder] \o <<m>> /\ seeder = current[c]
    <3>1. m.type = "update" /\ Bare(up[seeder], 0) => Has(m.edits, g)
      BY <1>10, <2>4
    <3>2. up[seeder] \in Seq(Telling) /\ 0 \in 0..Len(up[seeder])
      BY <1>2, <2>1
    <3>3. FirstHas(up[seeder] \o <<m>>, 0, g)
      BY <2>2, <3>1, <3>2, FirstAdd
    <3> QED
      BY <2>4, <3>3
  <2> QED
    BY <1>1, <2>1, <2>3, <2>4
<1>11. ASSUME IsCold PROVE /\ \A s \in Sessions : Bare(up'[s], 0)
                           /\ \A d \in Clients : Bare(out'[d], 0)
  <2>1. m.type # "update"
    BY <1>11
  <2>2. /\ \A s \in Sessions : Bare(up[s], 0)
        /\ \A d \in Clients : Bare(out[d], 0)
    BY <1>11 DEF Queues
  <2>3. \A s \in Sessions : Bare(up[s] \o <<m>>, 0)
    BY <1>2, <1>5, <2>1, <2>2
  <2>4. \A d \in Clients : Bare(out[d] \o <<m>>, 0)
    BY <1>2, <1>5, <2>1, <2>2
  <2>5. \A s \in Sessions : Bare(up'[s], 0)
    BY <1>1, <2>2, <2>3
  <2>6. \A d \in Clients : Bare(out'[d], 0)
    BY <1>1, <2>2, <2>4
  <2> QED
    BY <2>5, <2>6
<1>12. seeder' = seeder /\ seeded' = seeded /\ (IsCold' <=> IsCold)
  BY DEF IsCold
<1>13. Queues'
  BY <1>6, <1>7, <1>10, <1>11, <1>12 DEF Queues
<1> QED
  BY <1>8, <1>9, <1>13

(* Messages are read, or go down with a session, and nothing else happens.   *)
LEMMA PartQueues ==
    ASSUME Channels, RoomTypes, Queues, out' = out, seedText' = seedText,
           \A s \in Sessions : \/ up'[s] = up[s] \/ up'[s] = <<>>
                               \/ up[s] # <<>> /\ up'[s] = Tail(up[s]),
           seeder' # None /\ ~seeded' =>
               \/ IsCold /\ seeder' \in Sessions
               \/ /\ seeder # None /\ ~seeded /\ seeder' = seeder
                  /\ \/ up'[seeder] \in {up[seeder], <<>>}
                     \/ Head(up[seeder]).type # "update",
           IsCold' => IsCold
    PROVE  Queues'
<1>1. Source' = Source
  BY DEF Source
<1>2. \A s \in Sessions : up[s] \in Seq(Telling)
  BY DEF Channels
<1>3. \A s \in Sessions : Faithful(up'[s], Source) /\ (Bare(up[s], 0) => Bare(up'[s], 0))
  <2> SUFFICES ASSUME NEW s \in Sessions
               PROVE  Faithful(up'[s], Source) /\ (Bare(up[s], 0) => Bare(up'[s], 0))
    OBVIOUS
  <2>1. Faithful(up[s], Source)
    BY DEF Queues
  <2>2. \A j \in DOMAIN up'[s] : \E k \in DOMAIN up[s] : up'[s][j] = up[s][k] /\ k > 0
    <3>1. CASE up'[s] = up[s]
      BY <1>2, <3>1
    <3>2. CASE up'[s] = <<>>
      BY <3>2
    <3>3. CASE up[s] # <<>> /\ up'[s] = Tail(up[s])
      BY <1>2, <3>3, TailIndex
    <3> QED
      BY <3>1, <3>2, <3>3
  <2>3. Faithful(up'[s], Source)
    BY <2>1, <2>2, FaithfulFrom
  <2>4. Bare(up[s], 0) => Bare(up'[s], 0)
    BY <2>2 DEF Bare
  <2> QED
    BY <2>3, <2>4
<1>4. ASSUME seeder' # None, ~seeded' PROVE FirstHas(up'[seeder'], 0, Source)
  <2>1. CASE IsCold /\ seeder' \in Sessions
    <3>1. Bare(up'[seeder'], 0)
      BY <1>3, <2>1 DEF Queues
    <3> QED
      BY <3>1 DEF Bare, FirstHas
  <2>2. CASE /\ seeder # None /\ ~seeded /\ seeder' = seeder
             /\ up'[seeder] \in {up[seeder], <<>>} \/ Head(up[seeder]).type # "update"
    <3>1. FirstHas(up[seeder], 0, Source) /\ seeder \in Sessions /\ up[seeder] \in Seq(Telling)
      BY <1>2, <2>2 DEF Queues, RoomTypes
    <3>2. CASE up'[seeder] = up[seeder]
      BY <2>2, <3>1, <3>2
    <3>3. CASE up'[seeder] = <<>>
      BY <2>2, <3>3 DEF FirstHas
    <3>4. CASE /\ up[seeder] # <<>> /\ up'[seeder] = Tail(up[seeder])
               /\ Head(up[seeder]).type # "update"
      <4>1. FirstHas(Tail(up[seeder]), 0, Source)
        BY <3>1, <3>4, FirstTail
      <4> QED
        BY <2>2, <3>4, <4>1
    <3> QED
      BY <2>2, <3>1, <3>2, <3>3, <3>4
  <2> QED
    BY <1>4, <2>1, <2>2
<1>5. ASSUME IsCold' PROVE /\ \A s \in Sessions : Bare(up'[s], 0)
                           /\ \A d \in Clients : Bare(out'[d], 0)
  BY <1>3, <1>5 DEF Queues
<1>6. \A d \in Clients : Faithful(out'[d], Source)
  BY DEF Queues
<1> QED
  BY <1>1, <1>3, <1>4, <1>5, <1>6 DEF Queues

----------------------------------------------------------------------------
(* Steps of the views.                                                       *)
LEMMA ClientSound ==
    ASSUME DocInv, ConvInv, Sound, NEW c \in Clients,
           UNCHANGED <<current, clientOf, link, hubUp, members, leader, seeder, seeded>>,
           UNCHANGED <<baseline, log, md>>,
           Sourced', Queues', NEW g, g = Source', Source \subseteq g,
           \A d \in Clients : d # c => /\ ydoc'[d] = ydoc[d] /\ have'[d] = have[d]
                                       /\ ready'[d] = ready[d] /\ local'[d] = local[d],
           ready'[c] => Has(have'[c], g), Orig \in local'[c],
           \A s \in Sessions : s # current[c] => down'[s] = down[s],
           current[c] # None /\ link[current[c]] = "up" =>
               Fed(down'[current[c]], Waits(c)', Young(current[c]), g),
           \A s \in Sessions : \A i \in DOMAIN down'[s] :
               \E j \in DOMAIN down[s] : down'[s][i] = down[s][j],
           \A s \in Sessions : Bare(up'[s], 0) => Bare(up[s], 0),
           seeder # None /\ ~seeded /\ current[c] = seeder /\ ydoc'[c] # 0 =>
               ready'[c] /\ ~Bare(up'[seeder], 0),
           Virgin => (\A s \in Sessions : down'[s] = <<>>) /\ \A d \in Clients : ydoc'[d] = 0
    PROVE  Sound'
<1>0. /\ Sourced /\ Queues /\ Kept /\ Served /\ Claimed /\ Untouched
      /\ Channels /\ Linked /\ RoomTypes
  BY DEF Sound, DocInv, ConvInv
<1>1. \A es : Has(es, Source) => Has(es, g)
  BY DEF Has
<1>2. Kept'
  <2>1. \A d \in Clients : (ready'[d] => Has(have'[d], g)) /\ Orig \in local'[d]
    BY <1>0, <1>1 DEF Kept
  <2>2. Room' = Room /\ md' = md
    BY DEF Room
  <2>3. HubHasFile => Orig \in md'
    BY <1>0, <2>2 DEF Kept
  <2>4. Room' # {} => Has(Room', g)
    BY <1>0, <1>1, <2>2 DEF Kept
  <2> QED
    BY <2>1, <2>3, <2>4 DEF Kept
<1>3. \A s \in Sessions : Young(s)' <=> Young(s)
  BY DEF Young, IsMember
<1>4. Served'
  <2> SUFFICES ASSUME NEW d \in Clients, NEW s, s = current[d], s # None, link[s] = "up"
               PROVE  Fed(down'[s], Waits(d)', Young(s)', g)
    BY DEF Served
  <2>1. s \in Sessions
    BY <1>0 DEF Channels
  <2>2. Waits(d)' <=> ydoc'[d] # 0 /\ ~Has(have'[d], g)
    BY DEF Waits
  <2>3. CASE d = c
    <3>1. Fed(down'[s], Waits(d)', Young(s), g)
      BY <2>3
    <3> QED
      BY <1>3, <2>1, <3>1, FedKept
  <2>4. CASE d # c
    <3>1. s # current[c]
      BY <1>0, <2>1, <2>4 DEF Linked
    <3>2. Fed(down[s], Waits(d), Young(s), Source)
      BY <1>0 DEF Served
    <3>3. Waits(d)' => Waits(d)
      BY <1>1, <2>2, <2>4 DEF Waits
    <3>4. down'[s] = down[s]
      BY <2>1, <3>1
    <3>5. Young(s) => Young(s)'
      BY <1>3, <2>1
    <3>6. Fed(down[s], Waits(d)', Young(s)', g)
      BY <3>2, <3>3, <3>5, FedKept
    <3> QED
      BY <3>4, <3>6
  <2> QED
    BY <2>3, <2>4
<1>5. Claimed'
  <2> SUFFICES ASSUME seeder # None, ~seeded
               PROVE  /\ leader' = seeder'
                      /\ \A i \in DOMAIN down'[seeder'] :
                            down'[seeder'][i].type = "seed" => down'[seeder'][i].should
                      /\ \A d \in Clients : current'[d] = seeder' /\ ydoc'[d] # 0 =>
                            ready'[d] /\ ~Bare(up'[seeder'], 0)
    BY DEF Claimed
  <2>1. /\ leader = seeder /\ seeder \in Sessions
        /\ \A i \in DOMAIN down[seeder] : down[seeder][i].type = "seed" => down[seeder][i].should
        /\ \A d \in Clients : current[d] = seeder /\ ydoc[d] # 0 =>
              ready[d] /\ ~Bare(up[seeder], 0)
    BY <1>0 DEF Claimed, RoomTypes
  <2>2. \A i \in DOMAIN down'[seeder] : down'[seeder][i].type = "seed" => down'[seeder][i].should
    BY <2>1
  <2>3. \A d \in Clients : current[d] = seeder /\ ydoc'[d] # 0 =>
              ready'[d] /\ ~Bare(up'[seeder], 0)
    BY <2>1
  <2> QED
    BY <2>1, <2>2, <2>3
<1>6. Untouched'
  <2>1. (IsCold' <=> IsCold) /\ (Virgin => Virgin')
    BY DEF IsCold, Virgin
  <2> QED
    BY <1>0, <2>1 DEF Untouched
<1> QED
  BY <1>2, <1>4, <1>5, <1>6 DEF Sound

LEMMA TextHas ==
    ASSUME NEW es \in SUBSET Edits, Has(es, Source)
    PROVE  Orig \in Text(es)
<1>1. PICK e \in es : e \in Edits /\ e[2] = 1 /\ Orig \in seedText[e[1]]
  BY DEF Has, Source
<1>2. e \in Integrated(es) /\ IsSeed(e)
  BY <1>1 DEF Integrated, IsSeed
<1> QED
  BY <1>1, <1>2 DEF Text

(* A view sends m, and its document does not get less.                       *)
LEMMA SentSound ==
    ASSUME DocInv, ConvInv, Sound, NEW c \in Clients, NEW m \in Telling, Send(c, <<m>>),
           UNCHANGED <<current, clientOf, link, hubUp, members, leader, seeder, seeded>>,
           UNCHANGED <<baseline, log, md, down, seedText, born, ydoc, ready>>,
           \A d \in Clients : d # c => have'[d] = have[d] /\ local'[d] = local[d],
           have[c] \subseteq have'[c], Orig \in local'[c],
           m.type = "snapshot" => Orig \in m.text,
           m.type = "update" /\ m.compaction => Has(m.edits, Source),
           m.type = "update" => ydoc[c] # 0
    PROVE  Sound'
<1>0. /\ Sourced /\ Queues /\ Kept /\ Served /\ Claimed /\ Untouched
      /\ Channels /\ Linked /\ RoomTypes
  BY DEF Sound, DocInv, ConvInv
<1> DEFINE g == Source
<1>1. g = Source' /\ Source \subseteq g /\ Sourced'
  BY <1>0 DEF Source, Sourced
<1>2. \A es : Has(es, Source) => Has(es, g)
  OBVIOUS
<1>3. m.type = "update" => ~IsCold
  BY <1>0 DEF Untouched, Virgin, IsCold
<1>4. m.type = "update" /\ seeder # None /\ ~seeded /\ current[c] = seeder
         /\ Bare(up[seeder], 0) => Has(m.edits, g)
  BY <1>0 DEF Claimed
<1> HIDE DEF g
<1>5. /\ Queues'
      /\ \A s \in Sessions : Bare(up'[s], 0) => Bare(up[s], 0)
  BY <1>0, <1>1, <1>2, <1>3, <1>4, SentQueues
<1>6. ready'[c] => Has(have'[c], g)
  BY <1>0, <1>2 DEF Kept, Has
<1>7. ASSUME current[c] # None, link[current[c]] = "up"
      PROVE  Fed(down'[current[c]], Waits(c)', Young(current[c]), g)
  <2>1. Fed(down[current[c]], Waits(c), Young(current[c]), Source)
    BY <1>0, <1>7 DEF Served
  <2>2. Waits(c)' => Waits(c)
    BY <1>1 DEF Waits, Has
  <2> QED
    BY <1>1, <2>1, <2>2, FedKept
<1>8. seeder # None /\ ~seeded /\ current[c] = seeder /\ ydoc'[c] # 0 =>
          ready'[c] /\ ~Bare(up'[seeder], 0)
  BY <1>0, <1>5 DEF Claimed, RoomTypes
<1>9. Virgin => (\A s \in Sessions : down'[s] = <<>>) /\ \A d \in Clients : ydoc'[d] = 0
  BY DEF Virgin
<1>10. \A s \in Sessions : \A i \in DOMAIN down'[s] :
          \E j \in DOMAIN down[s] : down'[s][i] = down[s][j]
  OBVIOUS
<1>11. \A d \in Clients : d # c => /\ ydoc'[d] = ydoc[d] /\ have'[d] = have[d]
                                   /\ ready'[d] = ready[d] /\ local'[d] = local[d]
  OBVIOUS
<1> QED
  BY <1>1, <1>5, <1>6, <1>7, <1>8, <1>9, <1>10, <1>11, ClientSound

LEMMA OpenSound ==
    ASSUME DocInv, ConvInv, Sound, NEW c \in Clients, Open(c)
    PROVE  Sound'
<1>1. /\ Send(c, <<Join>>) /\ Join \in Telling /\ Join.type = "join"
      /\ UNCHANGED <<ydoc, have, ready, local, seedText, born, current, clientOf, link, down,
                     hubUp, md>>
      /\ UNCHANGED <<members, leader, seeder, seeded, baseline, log>>
  BY MsgFacts DEF Open, Join, roomVars
<1>2. Orig \in local'[c]
  BY <1>1 DEF Sound, Kept
<1> QED
  BY <1>1, <1>2, SentSound

LEMMA TypeSound ==
    ASSUME DocInv, ConvInv, Sound, NEW c \in Clients, Type(c)
    PROVE  Sound'
<1>0. EditorTypes
  BY DEF DocInv
<1> DEFINE e == <<ydoc[c], Cardinality(OwnEdits(c)) + 1>>
           m == Update({e})
<1>1. /\ ydoc[c] # 0 /\ e \in Edits /\ Send(c, <<m>>)
      /\ have' = [have EXCEPT ![c] = @ \cup {e}]
      /\ UNCHANGED <<ydoc, ready, local, seedText, born, current, clientOf, link, hubUp, down,
                     md>>
      /\ UNCHANGED <<members, leader, seeder, seeded, baseline, log>>
  BY DEF Type, roomVars
<1>2. m \in Telling /\ m.type = "update" /\ ~m.compaction
  BY <1>1, MsgFacts DEF Update
<1> HIDE DEF e, m
<1>3. have[c] \subseteq have'[c] /\ \A d \in Clients : d # c => have'[d] = have[d]
  BY <1>0, <1>1 DEF EditorTypes
<1>4. Orig \in local'[c] /\ \A d \in Clients : local'[d] = local[d]
  BY <1>1 DEF Sound, Kept
<1> QED
  BY <1>1, <1>2, <1>3, <1>4, SentSound

LEMMA CompactSound ==
    ASSUME DocInv, ConvInv, FileInv, Sound, NEW c \in Clients, Compact(c)
    PROVE  Sound'
<1>0. EditorTypes /\ Unready
  BY DEF DocInv, FileInv
<1> DEFINE m == Compacted(have[c])
<1>1. /\ ready[c] /\ have[c] # {} /\ Send(c, <<m>>)
      /\ UNCHANGED <<ydoc, have, ready, local, seedText, born, current, clientOf, link, hubUp,
                     down, md>>
      /\ UNCHANGED <<members, leader, seeder, seeded, baseline, log>>
  BY DEF Compact, editorVars, roomVars
<1>2. m \in Telling /\ m.type = "update" /\ m.edits = have[c]
  <2>1. have[c] \in SUBSET Edits
    BY <1>0 DEF EditorTypes
  <2> QED
    BY <1>1, <2>1, MsgFacts DEF Compacted
<1> HIDE DEF m
<1>3. Has(m.edits, Source) /\ ydoc[c] # 0
  BY <1>0, <1>1, <1>2 DEF Sound, Kept, Unready
<1>4. Orig \in local'[c] /\ \A d \in Clients : local'[d] = local[d]
  BY <1>1 DEF Sound, Kept
<1> QED
  BY <1>1, <1>2, <1>3, <1>4, SentSound

LEMMA MaterialiseSound ==
    ASSUME DocInv, ConvInv, Sound, NEW c \in Clients, Materialise(c)
    PROVE  Sound'
<1>0. /\ EditorTypes /\ Channels /\ RoomTypes /\ Linked
      /\ Sourced /\ Queues /\ Kept /\ Served /\ Claimed /\ Untouched
  BY DEF DocInv, ConvInv, Sound
<1>1. /\ UNCHANGED <<ydoc, have, ready, seedText, born, current, clientOf, link, hubUp, down,
                     md>>
      /\ UNCHANGED <<members, leader, seeder, seeded, baseline, log>>
      /\ IF ready[c]
         THEN /\ local' = [local EXCEPT ![c] = Text(have[c])]
              /\ Send(c, <<Snapshot(Text(have[c]))>>)
         ELSE UNCHANGED <<local, out, up>>
  BY DEF Materialise, MaterialiseIf, roomVars
<1>2. CASE ready[c]
  <2> DEFINE t == Text(have[c])
             m == Snapshot(t)
  <2>1. Orig \in t /\ t \in Texts
    <3>1. have[c] \in SUBSET Edits /\ Has(have[c], Source)
      BY <1>0, <1>2 DEF EditorTypes, Kept
    <3> QED
      BY <1>0, <3>1, TextHas, TextType DEF EditorTypes
  <2>2. m \in Telling /\ m.type = "snapshot" /\ m.text = t
    BY <2>1, MsgFacts DEF Snapshot
  <2>3. Send(c, <<m>>) /\ local' = [local EXCEPT ![c] = t]
    BY <1>1, <1>2
  <2> HIDE DEF m, t
  <2>4. Orig \in local'[c] /\ \A d \in Clients : d # c => local'[d] = local[d]
    BY <1>0, <2>1, <2>3 DEF EditorTypes
  <2> QED
    BY <1>1, <2>1, <2>2, <2>3, <2>4, SentSound
<1>3. CASE ~ready[c]
  <2>1. UNCHANGED <<local, out, up>>
    BY <1>1, <1>3
  <2>2. Source' = Source /\ Sourced' /\ (IsCold' <=> IsCold) /\ (Virgin' <=> Virgin)
    BY <1>0, <1>1 DEF Source, Sourced, IsCold, Virgin
  <2>3. Queues' /\ Kept' /\ Claimed' /\ Untouched'
    BY <1>0, <1>1, <2>1, <2>2 DEF Queues, Kept, Claimed, Untouched, Room
  <2>4. Served'
    <3>1. \A d \in Clients : Waits(d)' <=> Waits(d)
      BY <1>1, <2>2 DEF Waits
    <3>2. \A s : Young(s)' <=> Young(s)
      BY <1>1 DEF Young, IsMember
    <3> SUFFICES ASSUME NEW d \in Clients, NEW s, s = current[d], s # None, link[s] = "up"
                 PROVE  Fed(down[s], Waits(d)', Young(s)', Source)
      BY <1>1, <2>2 DEF Served
    <3>3. Fed(down[s], Waits(d), Young(s), Source)
      BY <1>0 DEF Served
    <3> QED
      BY <3>1, <3>2, <3>3, FedKept
  <2> QED
    BY <2>2, <2>3, <2>4 DEF Sound
<1> QED
  BY <1>2, <1>3

LEMMA CloseSound ==
    ASSUME DocInv, ConvInv, Sound, NEW c \in Clients, Close(c), hurt' = {}
    PROVE  Sound'
<1>0. /\ EditorTypes /\ Channels /\ RoomTypes /\ Linked
      /\ Sourced /\ Queues /\ Kept /\ Served /\ Claimed /\ Untouched
  BY DEF DocInv, ConvInv, Sound
<1>1. /\ Send(c, <<Leave>>) /\ Leave \in Telling /\ Leave.type = "leave"
      /\ ydoc' = [ydoc EXCEPT ![c] = 0] /\ have' = [have EXCEPT ![c] = {}]
      /\ ready' = [ready EXCEPT ![c] = FALSE]
      /\ local' = IF ydoc[c] = 0 THEN local ELSE [local EXCEPT ![c] = Text(have[c])]
      /\ ydoc[c] # 0 => ready[c]
      /\ UNCHANGED <<seedText, born, current, clientOf, link, hubUp, down, md>>
      /\ UNCHANGED <<members, leader, seeder, seeded, baseline, log>>
  BY MsgFacts DEF Close, Leave, roomVars
<1>2. /\ ydoc'[c] = 0 /\ have'[c] = {} /\ ~ready'[c]
      /\ \A d \in Clients : d # c => /\ ydoc'[d] = ydoc[d] /\ have'[d] = have[d]
                                     /\ ready'[d] = ready[d] /\ local'[d] = local[d]
  BY <1>0, <1>1 DEF EditorTypes
<1>3. Orig \in local'[c]
  <2>1. CASE ydoc[c] = 0
    BY <1>0, <1>1, <2>1 DEF Kept
  <2>2. CASE ydoc[c] # 0
    <3>1. have[c] \in SUBSET Edits /\ Has(have[c], Source)
      BY <1>0, <1>1, <2>2 DEF EditorTypes, Kept
    <3> QED
      BY <1>0, <1>1, <2>2, <3>1, TextHas DEF EditorTypes
  <2> QED
    BY <2>1, <2>2
<1> DEFINE g == Source
<1>4. g = Source' /\ Source \subseteq g /\ Sourced'
  BY <1>0, <1>1 DEF Source, Sourced
<1> HIDE DEF g
<1>5. /\ Queues'
      /\ \A s \in Sessions : Bare(up'[s], 0) => Bare(up[s], 0)
  BY <1>0, <1>1, <1>4, SentQueues
<1>6. ASSUME current[c] # None, link[current[c]] = "up"
      PROVE  Fed(down'[current[c]], Waits(c)', Young(current[c]), g)
  <2>1. Fed(down[current[c]], Waits(c), Young(current[c]), Source)
    BY <1>0, <1>6 DEF Served
  <2>2. ~Waits(c)'
    BY <1>2 DEF Waits
  <2> QED
    BY <1>1, <1>4, <2>1, <2>2, FedKept
<1>7. Virgin => (\A s \in Sessions : down'[s] = <<>>) /\ \A d \in Clients : ydoc'[d] = 0
  BY <1>1, <1>2 DEF Virgin
<1>8. \A s \in Sessions : \A i \in DOMAIN down'[s] :
          \E j \in DOMAIN down[s] : down'[s][i] = down[s][j]
  BY <1>1
<1> QED
  BY <1>1, <1>2, <1>3, <1>4, <1>5, <1>6, <1>7, <1>8, ClientSound

LEMMA ReceiveSeedSound ==
    ASSUME DocInv, ConvInv, Sound, NEW c \in Clients, ReceiveSeed(c)
    PROVE  Sound'
<1>0. /\ EditorTypes /\ Channels /\ RoomTypes /\ Linked /\ Receiving(c, "seed")
      /\ Sourced /\ Queues /\ Kept /\ Served /\ Claimed /\ Untouched
  BY DEF DocInv, ConvInv, Sound, ReceiveSeed
<1> DEFINE s == current[c]
           a == born + 1
           h == Head(down[s])
           t == IF local[c] # {} THEN local[c] ELSE h.text
           seeds == h.should /\ t # {}
           new == IF seeds THEN {<<a, 1>>} ELSE {}
<1>1. /\ s \in Sessions /\ s # None /\ link[s] = "up"
      /\ down[s] \in Seq(DownMsgs) /\ down[s] # <<>> /\ h.type = "seed" /\ h \in DownMsgs
      /\ down'[s] = Tail(down[s]) /\ \A u \in Sessions : u # s => down'[u] = down[u]
      /\ Fewer
      /\ UNCHANGED <<open, local, current, clientOf, link, hubUp, members, leader, seeder, seeded>>
      /\ UNCHANGED <<baseline, log, md>>
  BY <1>0, TakeFacts
<1>2. ~Virgin /\ ~IsCold
  BY <1>0, <1>1 DEF Virgin, Untouched, IsCold
<1>3. /\ \A u \in Sessions : \A i \in DOMAIN down'[u] :
            \E j \in DOMAIN down[u] : down'[u][i] = down[u][j]
      /\ \A u \in Sessions : u # current[c] => down'[u] = down[u]
      /\ \A d \in Clients : Orig \in local'[d] /\ local'[d] = local[d]
  BY <1>0, <1>1 DEF Fewer, Kept
<1>4. Fed(down[s], Waits(c), Young(s), Source)
  BY <1>0, <1>1 DEF Served
<1>5. IsCold' <=> IsCold
  BY <1>1 DEF IsCold
<1>6. UNCHANGED <<up, out, seedText>> => Queues'
  <2> SUFFICES ASSUME UNCHANGED <<up, out, seedText>> PROVE Queues'
    OBVIOUS
  <2> QED
    BY <1>0, <1>1, <1>5, PartQueues DEF RoomTypes
<1>7. CASE ~open[c] \/ ydoc[c] # 0
  <2>1. UNCHANGED <<ydoc, have, ready, seedText, born, out, up>>
    BY <1>7 DEF ReceiveSeed
  <2> DEFINE g == Source
  <2>2. g = Source' /\ Source \subseteq g /\ Sourced'
    BY <1>0, <2>1 DEF Source, Sourced
  <2> HIDE DEF g
  <2>3. Fed(down'[s], Waits(c)', Young(s), g)
    <3>1. Waits(c)' <=> Waits(c)
      BY <2>1, <2>2 DEF Waits, Source
    <3>2. Fed(Tail(down[s]), Waits(c)', Young(s), Source)
      BY <1>1, <1>4, <3>1, FedTail
    <3> QED
      BY <1>1, <2>2, <3>2, FedKept
  <2>4. ready'[c] => Has(have'[c], g)
    BY <1>0, <2>1, <2>2 DEF Kept, Has
  <2>5. seeder # None /\ ~seeded /\ current[c] = seeder /\ ydoc'[c] # 0 =>
            ready'[c] /\ ~Bare(up'[seeder], 0)
    BY <1>0, <2>1 DEF Claimed
  <2>6. /\ Queues' /\ \A u \in Sessions : Bare(up'[u], 0) => Bare(up[u], 0)
        /\ \A d \in Clients : d # c => /\ ydoc'[d] = ydoc[d] /\ have'[d] = have[d]
                                       /\ ready'[d] = ready[d] /\ local'[d] = local[d]
    BY <1>3, <1>6, <2>1
  <2> QED
    BY <1>1, <1>2, <1>3, <2>2, <2>3, <2>4, <2>5, <2>6, ClientSound
<1>8. CASE open[c] /\ ydoc[c] = 0
  <2>1. /\ born' = a /\ ydoc' = [ydoc EXCEPT ![c] = a] /\ have' = [have EXCEPT ![c] = new]
        /\ seedText' = [seedText EXCEPT ![a] = IF seeds THEN t ELSE {}]
        /\ ready' = [ready EXCEPT ![c] = h.should]
        /\ IF seeds THEN Send(c, <<Update({<<a, 1>>})>>) ELSE UNCHANGED <<out, up>>
    BY <1>8 DEF ReceiveSeed
  <2>2. a # 0 /\ <<a, 1>> \in Edits /\ a \in Authors /\ born \in Nat
    <3>1. c \in Blank /\ Blank \in SUBSET Clients
      BY <1>8 DEF Blank
    <3>2. IsFiniteSet(Blank) /\ Cardinality(Blank) \in Nat
      BY <3>1, BlankFacts
    <3>3. Cardinality(Blank \ {c}) = Cardinality(Blank) - 1 /\ Cardinality(Blank \ {c}) \in Nat
      BY <3>1, <3>2, BlankFacts, FS_RemoveElement
    <3>4. born \in Nat /\ opens \in 0..MaxOpens /\ born + Cardinality(Blank) <= opens
      BY <1>0, DocsAssumption DEF DocInv, OpensCount, EditorTypes
    <3>5. a \in Authors /\ a # 0
      BY <3>2, <3>3, <3>4, DocsAssumption DEF Authors
    <3> QED
      BY <3>4, <3>5, DocsAssumption DEF Edits
  <2>3. /\ ydoc'[c] = a /\ have'[c] = new /\ ready'[c] = h.should
        /\ \A d \in Clients : d # c => /\ ydoc'[d] = ydoc[d] /\ have'[d] = have[d]
                                       /\ ready'[d] = ready[d]
    BY <1>0, <2>1 DEF EditorTypes
  <2>4. t = local[c] /\ Orig \in t /\ t # {}
    BY <1>0 DEF Kept
  <2>5. seedText[a] = {} /\ seedText \in [Authors -> Texts]
    <3>1. a > born
      BY <2>2
    <3> QED
      BY <1>0, <2>2, <3>1 DEF Sourced, EditorTypes
  <2>6. /\ seedText'[a] = (IF seeds THEN t ELSE {})
        /\ \A b \in Authors : b # a => seedText'[b] = seedText[b]
    BY <2>1, <2>2, <2>5
  <2>7. Sourced'
    <3> SUFFICES ASSUME NEW b \in Authors
                 PROVE  /\ seedText'[b] # {} => Orig \in seedText'[b]
                        /\ b > born' => seedText'[b] = {}
      BY DEF Sourced
    <3>1. CASE b = a
      <4>1. ~(b > born')
        BY <2>1, <2>2, <3>1
      <4> QED
        BY <2>4, <2>6, <3>1, <4>1
    <3>2. CASE b # a
      <4>1. b > born' => b > born
        BY <2>1, <2>2 DEF Authors
      <4> QED
        BY <1>0, <2>6, <3>2, <4>1 DEF Sourced
    <3> QED
      BY <3>1, <3>2
  <2>8. Source \subseteq Source'
    <3> SUFFICES ASSUME NEW e \in Source PROVE e \in Source'
      OBVIOUS
    <3>1. e \in Edits /\ e[2] = 1 /\ Orig \in seedText[e[1]] /\ e[1] \in Authors
      BY DEF Source, Edits
    <3>2. e[1] # a
      BY <2>5, <3>1
    <3> QED
      BY <2>6, <3>1, <3>2 DEF Source
  <2>9. CASE h.should
    <3> DEFINE m == Update({<<a, 1>>})
               g == Source'
    <3>1. m \in Telling /\ m.type = "update" /\ m.edits = {<<a, 1>>} /\ ~m.compaction
      <4>1. {<<a, 1>>} \in SUBSET Edits
        BY <2>2
      <4> QED
        BY <4>1, MsgFacts DEF Update
    <3>2. Send(c, <<m>>) /\ seeds /\ new = {<<a, 1>>}
      BY <2>1, <2>4, <2>9
    <3>3. <<a, 1>> \in Source'
      BY <2>2, <2>4, <2>6, <3>2 DEF Source
    <3>4. Has(m.edits, g) /\ Has(have'[c], g) /\ g = Source' /\ Source \subseteq g
      BY <2>3, <2>8, <3>1, <3>2, <3>3 DEF Has
    <3> HIDE DEF m, g, new, seeds, t, h, a
    <3>5. /\ Queues'
          /\ \A u \in Sessions : Bare(up'[u], 0) => Bare(up[u], 0)
          /\ current[c] # None => ~Bare(up'[current[c]], 0)
      BY <1>0, <1>1, <1>2, <3>1, <3>2, <3>4, SentQueues
    <3>6. Fed(down'[s], Waits(c)', Young(s), g)
      <4>1. ~Waits(c)'
        BY <3>4 DEF Waits
      <4>2. Fed(Tail(down[s]), Waits(c)', Young(s), Source)
        BY <1>1, <1>4, <4>1, FedTail
      <4> QED
        BY <1>1, <3>4, <4>2, FedKept
    <3>7. seeder # None /\ ~seeded /\ current[c] = seeder /\ ydoc'[c] # 0 =>
              ready'[c] /\ ~Bare(up'[seeder], 0)
      BY <2>3, <2>9, <3>5
    <3>8. \A d \in Clients : d # c => /\ ydoc'[d] = ydoc[d] /\ have'[d] = have[d]
                                      /\ ready'[d] = ready[d] /\ local'[d] = local[d]
      BY <1>3, <2>3
    <3> QED
      BY <1>1, <1>2, <1>3, <2>7, <3>4, <3>5, <3>6, <3>7, <3>8, ClientSound
  <2>10. CASE ~h.should
    <3>1. UNCHANGED <<up, out>> /\ seedText'[a] = {} /\ ~ready'[c]
      BY <2>1, <2>3, <2>6, <2>10
    <3>2. seedText' = seedText
      BY <2>1, <2>5, <3>1
    <3> DEFINE g == Source
    <3>3. g = Source' /\ Source \subseteq g
      BY <3>2 DEF Source
    <3> HIDE DEF g, new, seeds, t, a
    <3>4. /\ Queues' /\ \A u \in Sessions : Bare(up'[u], 0) => Bare(up[u], 0)
      BY <1>6, <3>1, <3>2
    <3>5. Fed(down'[s], Waits(c)', Young(s), g)
      <4>1. Fed(Tail(down[s]), Waits(c)', Young(s), Source)
        BY <1>1, <1>4, <2>10, FedTail
      <4> QED
        BY <1>1, <3>3, <4>1, FedKept
    <3>6. ~(seeder # None /\ ~seeded /\ current[c] = seeder)
      <4>1. 1 \in DOMAIN down[s] /\ down[s][1] = h
        BY <1>1
      <4> QED
        BY <1>0, <1>1, <2>10, <4>1 DEF Claimed
    <3>7. \A d \in Clients : d # c => /\ ydoc'[d] = ydoc[d] /\ have'[d] = have[d]
                                      /\ ready'[d] = ready[d] /\ local'[d] = local[d]
      BY <1>3, <2>3
    <3> HIDE DEF h
    <3> QED
      BY <1>1, <1>2, <1>3, <2>7, <3>1, <3>3, <3>4, <3>5, <3>6, <3>7, ClientSound
  <2> QED
    BY <2>9, <2>10
<1> QED
  BY <1>7, <1>8

LEMMA ReceiveUpdateSound ==
    ASSUME DocInv, ConvInv, Sound, NEW c \in Clients, ReceiveUpdate(c)
    PROVE  Sound'
<1>0. /\ EditorTypes /\ Channels /\ RoomTypes /\ Linked /\ Receiving(c, "update")
      /\ Sourced /\ Queues /\ Kept /\ Served /\ Claimed /\ Untouched /\ OpensCount
  BY DEF DocInv, ConvInv, Sound, ReceiveUpdate, Apply
<1> DEFINE s == current[c]
           h == Head(down[s])
           es == have[c] \cup h.edits
           shows == Integrated(es) # Integrated(have[c])
           g == Source
<1>1. /\ s \in Sessions /\ s # None /\ link[s] = "up"
      /\ down[s] \in Seq(DownMsgs) /\ down[s] # <<>> /\ h.type = "update" /\ h \in DownMsgs
      /\ down'[s] = Tail(down[s]) /\ \A u \in Sessions : u # s => down'[u] = down[u]
      /\ Fewer
      /\ UNCHANGED <<open, local, current, clientOf, link, hubUp, members, leader, seeder, seeded>>
      /\ UNCHANGED <<baseline, log, md>>
  BY <1>0, TakeFacts
<1>2. /\ UNCHANGED <<ydoc, seedText, born, out, up>>
      /\ \/ ydoc[c] = 0 /\ UNCHANGED <<have, ready>>
         \/ /\ ydoc[c] # 0 /\ have' = [have EXCEPT ![c] = es]
            /\ ready' = [ready EXCEPT ![c] = @ \/ shows]
  BY <1>0, <1>1 DEF ReceiveUpdate, Apply, Receiving, OpensCount
<1>3. /\ \A d \in Clients : d # c => have'[d] = have[d] /\ ready'[d] = ready[d]
      /\ \/ ydoc[c] = 0 /\ have'[c] = have[c] /\ ready'[c] = ready[c]
         \/ ydoc[c] # 0 /\ have'[c] = es /\ (ready[c] => ready'[c])
  BY <1>0, <1>2 DEF EditorTypes
<1>4. Fed(down[s], Waits(c), Young(s), Source)
  BY <1>0, <1>1 DEF Served
<1>5. ydoc[c] # 0 => Has(es, Source)
  <2>1. CASE Has(have[c], Source)
    BY <2>1 DEF Has
  <2>2. CASE Waits(c)
    <3>1. 0 \in 0..Len(down[s])
      BY <1>1
    <3>2. FirstHas(down[s], 0, Source)
      BY <1>4, <2>2, <3>1 DEF Fed
    <3>3. Has(h.edits, Source)
      BY <1>1, <3>2, FirstHead
    <3> QED
      BY <3>3 DEF Has
  <2> QED
    BY <2>1, <2>2 DEF Waits
<1>6. g = Source' /\ Source \subseteq g /\ Sourced'
  BY <1>0, <1>2 DEF Source, Sourced
<1>7. ready'[c] => Has(have'[c], Source)
  BY <1>0, <1>3, <1>5 DEF Kept
<1>8. ~Waits(c)'
  BY <1>2, <1>3, <1>5, <1>6 DEF Waits
<1>9. Fed(down'[s], Waits(c)', Young(s), Source)
  BY <1>1, <1>4, <1>8, FedTail
<1>10. /\ ~Virgin
       /\ \A u \in Sessions : \A i \in DOMAIN down'[u] :
             \E j \in DOMAIN down[u] : down'[u][i] = down[u][j]
       /\ \A u \in Sessions : u # current[c] => down'[u] = down[u]
       /\ \A d \in Clients : d # c => /\ ydoc'[d] = ydoc[d] /\ have'[d] = have[d]
                                      /\ ready'[d] = ready[d] /\ local'[d] = local[d]
       /\ Orig \in local'[c]
       /\ \A u \in Sessions : Bare(up'[u], 0) => Bare(up[u], 0)
  BY <1>0, <1>1, <1>2, <1>3 DEF Fewer, Kept, Virgin
<1>11. seeder # None /\ ~seeded /\ current[c] = seeder /\ ydoc'[c] # 0 =>
           ready'[c] /\ ~Bare(up'[seeder], 0)
  BY <1>0, <1>2, <1>3 DEF Claimed
<1>12. Queues'
  <2>1. IsCold' <=> IsCold
    BY <1>1 DEF IsCold
  <2> QED
    BY <1>0, <1>1, <1>2, <2>1, PartQueues DEF RoomTypes
<1> HIDE DEF g, shows, es, h
<1>13. (ready'[c] => Has(have'[c], g)) /\ Fed(down'[s], Waits(c)', Young(s), g)
  BY <1>7, <1>9 DEF g
<1> QED
  BY <1>1, <1>6, <1>10, <1>11, <1>12, <1>13, ClientSound

----------------------------------------------------------------------------
(* Steps of the links.                                                       *)
LEMMA LinkSound ==
    ASSUME DocInv, Sound, UNCHANGED editorVars, UNCHANGED roomVars, md' = md, Queues',
           \A d \in Clients : current'[d] # None /\ link'[current'[d]] = "up" =>
               \/ down'[current'[d]] = <<>> /\ ~IsMember(current'[d])
               \/ /\ current'[d] = current[d] /\ link[current[d]] = "up"
                  /\ down'[current[d]] = down[current[d]],
           \A s \in Sessions : down'[s] = down[s] \/ down'[s] = <<>>,
           \A d \in Clients : seeder # None /\ ~seeded /\ current'[d] = seeder =>
               current[d] = seeder /\ up'[seeder] = up[seeder]
    PROVE  Sound'
<1>0. /\ Sourced /\ Kept /\ Served /\ Claimed /\ Untouched /\ RoomTypes
      /\ UNCHANGED <<open, ydoc, have, ready, local, seedText, born>>
      /\ UNCHANGED <<members, leader, seeder, seeded, baseline, log>>
  BY DEF Sound, DocInv, editorVars, roomVars
<1>1. Source' = Source /\ Sourced' /\ (IsCold' <=> IsCold)
  BY <1>0 DEF Source, Sourced, IsCold
<1>2. Kept'
  BY <1>0, <1>1 DEF Kept, Room
<1>3. Served'
  <2> SUFFICES ASSUME NEW d \in Clients, NEW s, s = current'[d], s # None, link'[s] = "up"
               PROVE  Fed(down'[s], Waits(d)', Young(s)', Source)
    BY <1>1 DEF Served
  <2>1. (Waits(d)' <=> Waits(d)) /\ (Young(s)' <=> Young(s))
    BY <1>0, <1>1 DEF Waits, Young, IsMember
  <2>2. CASE down'[s] = <<>> /\ ~IsMember(s)
    <3>1. Young(s)'
      BY <2>1, <2>2 DEF Young
    <3> QED
      BY <2>2, <3>1, FedEmpty
  <2>3. CASE s = current[d] /\ link[s] = "up" /\ down'[s] = down[s]
    <3>1. Fed(down[s], Waits(d), Young(s), Source)
      BY <1>0, <2>3 DEF Served
    <3> QED
      BY <2>1, <2>3, <3>1, FedKept
  <2> QED
    BY <2>2, <2>3
<1>4. Claimed'
  <2> SUFFICES ASSUME seeder # None, ~seeded
               PROVE  /\ leader' = seeder
                      /\ \A i \in DOMAIN down'[seeder] :
                            down'[seeder][i].type = "seed" => down'[seeder][i].should
                      /\ \A d \in Clients : current'[d] = seeder /\ ydoc'[d] # 0 =>
                            ready'[d] /\ ~Bare(up'[seeder], 0)
    BY <1>0 DEF Claimed
  <2>1. /\ leader = seeder /\ seeder \in Sessions
        /\ \A i \in DOMAIN down[seeder] : down[seeder][i].type = "seed" => down[seeder][i].should
        /\ \A d \in Clients : current[d] = seeder /\ ydoc[d] # 0 =>
              ready[d] /\ ~Bare(up[seeder], 0)
    BY <1>0 DEF Claimed, RoomTypes
  <2>2. down'[seeder] = down[seeder] \/ DOMAIN down'[seeder] = {}
    BY <2>1
  <2> QED
    BY <1>0, <2>1, <2>2
<1>5. Untouched'
  BY <1>0, <1>1 DEF Untouched, Virgin
<1> QED
  BY <1>1, <1>2, <1>3, <1>4, <1>5 DEF Sound

LEMMA BreakSound ==
    ASSUME DocInv, ConvInv, Sound, NEW s \in Sessions, Break(s)
    PROVE  Sound'
<1>0. Channels /\ RoomTypes /\ Queues /\ Linked
  BY DEF DocInv, Sound, ConvInv
<1>1. /\ UNCHANGED editorVars /\ UNCHANGED roomVars /\ md' = md
      /\ UNCHANGED <<out, current, up, seedText, seeder, seeded, log>>
      /\ link' = [link EXCEPT ![s] = "broken"] /\ down' = [down EXCEPT ![s] = <<>>]
  BY DEF Break, editorVars, roomVars
<1>2. \A u \in Sessions : /\ link'[u] = (IF u = s THEN "broken" ELSE link[u])
                          /\ down'[u] = (IF u = s THEN <<>> ELSE down[u])
  BY <1>0, <1>1 DEF Channels
<1>3. Queues'
  <2>1. IsCold' <=> IsCold
    BY <1>1 DEF IsCold
  <2> QED
    BY <1>0, <1>1, <2>1, PartQueues DEF RoomTypes
<1>4. \A d \in Clients : current'[d] # None /\ link'[current'[d]] = "up" =>
         /\ current'[d] = current[d] /\ link[current[d]] = "up"
         /\ down'[current[d]] = down[current[d]]
  BY <1>0, <1>1, <1>2 DEF Channels
<1> QED
  BY <1>1, <1>2, <1>3, <1>4, LinkSound

LEMMA ConnectSound ==
    ASSUME DocInv, ConvInv, Sound, NEW c \in Clients, NEW s \in Sessions, Connect(c, s)
    PROVE  Sound'
<1>0. /\ Channels /\ RoomTypes /\ RoomInOrder /\ Queues /\ Linked
  BY DEF DocInv, Sound, ConvInv
<1>1. /\ current[c] = None /\ link[s] = "idle" /\ s # None /\ s \notin hubUp
      /\ \A d \in Clients : current[d] # s
      /\ current'[c] = s /\ \A d \in Clients : d # c => current'[d] = current[d]
      /\ link'[s] = "up" /\ \A u \in Sessions : u # s => link'[u] = link[u]
      /\ out[c] \in Seq(Telling)
      /\ up'[s] = out[c] \/ up'[s] = <<Join>> \o out[c]
      /\ \A u \in Sessions : u # s => up'[u] = up[u]
      /\ out'[c] = <<>> /\ \A d \in Clients : d # c => out'[d] = out[d]
      /\ UNCHANGED editorVars /\ UNCHANGED roomVars /\ UNCHANGED <<down, md>>
  BY <1>0, ConnectFacts
<1>2. ~IsMember(s) /\ (seeder # None => seeder # s /\ seeder \in Sessions)
  BY <1>0, <1>1, MembersFacts DEF RoomInOrder, RoomTypes
<1>3. down[s] = <<>>
  BY <1>0, <1>1 DEF Linked
<1>4. \A j \in DOMAIN up'[s] :
         \/ up'[s][j].type = "join"
         \/ \E k \in DOMAIN out[c] : up'[s][j] = out[c][k] /\ k > 0
  <2> SUFFICES ASSUME NEW r, r = up'[s], NEW q \in Seq(Telling), q = out[c]
               PROVE  \A j \in DOMAIN r : \/ r[j].type = "join"
                                          \/ \E k \in DOMAIN q : r[j] = q[k] /\ k > 0
    BY <1>1
  <2>1. \A k \in DOMAIN q : k > 0
    OBVIOUS
  <2>2. CASE r = q
    BY <2>1, <2>2
  <2>3. CASE r = <<Join>> \o q
    <3>1. \A j \in DOMAIN r : r[j].type = "join" \/ (j - 1 \in DOMAIN q /\ r[j] = q[j - 1])
      BY <2>3, JoinedIndex
    <3> QED
      BY <2>1, <3>1
  <2> QED
    BY <1>1, <2>2, <2>3
<1>5. Faithful(up'[s], Source)
  <2>1. Faithful(out[c], Source)
    BY <1>0 DEF Queues
  <2> QED
    BY <1>4, <2>1, FaithfulFrom
<1>6. Bare(out[c], 0) => Bare(up'[s], 0)
  BY <1>4 DEF Bare
<1>7. Source' = Source /\ seeder' = seeder /\ seeded' = seeded /\ (IsCold' <=> IsCold)
  BY <1>1 DEF editorVars, roomVars, IsCold, Source
<1>8. Faithful(<<>>, Source) /\ Bare(<<>>, 0)
  BY DEF Faithful, Bare
<1>9. Queues'
  <2>1. \A u \in Sessions : Faithful(up'[u], Source)
    BY <1>0, <1>1, <1>5 DEF Queues
  <2>2. \A d \in Clients : Faithful(out'[d], Source)
    BY <1>0, <1>1, <1>8 DEF Queues
  <2>3. seeder # None /\ ~seeded => FirstHas(up'[seeder], 0, Source)
    BY <1>0, <1>1, <1>2 DEF Queues
  <2>4. IsCold => /\ \A u \in Sessions : Bare(up'[u], 0)
                  /\ \A d \in Clients : Bare(out'[d], 0)
    BY <1>0, <1>1, <1>6, <1>8 DEF Queues
  <2> QED
    BY <1>7, <2>1, <2>2, <2>3, <2>4 DEF Queues
<1>10. \A d \in Clients : current'[d] # None /\ link'[current'[d]] = "up" =>
         \/ down'[current'[d]] = <<>> /\ ~IsMember(current'[d])
         \/ /\ current'[d] = current[d] /\ link[current[d]] = "up"
            /\ down'[current[d]] = down[current[d]]
  BY <1>0, <1>1, <1>2, <1>3 DEF Channels
<1>11. \A d \in Clients : seeder # None /\ ~seeded /\ current'[d] = seeder =>
         current[d] = seeder /\ up'[seeder] = up[seeder]
  BY <1>1, <1>2
<1> QED
  BY <1>1, <1>9, <1>10, <1>11, LinkSound

LEMMA NoticeSound ==
    ASSUME DocInv, ConvInv, Sound, NEW c \in Clients, Notice(c)
    PROVE  Sound'
<1>0. /\ Channels /\ RoomTypes /\ RoomInOrder /\ Queues /\ Linked
  BY DEF DocInv, Sound, ConvInv
<1>s. PICK s \in Sessions : s = current[c]
  BY <1>0 DEF Channels, Notice
<1>1. PICK k \in 0..Len(up[s]) :
      /\ \A d \in Clients : d # c => current[d] # s
      /\ up[s] \in Seq(Telling)
      /\ current'[c] = None
      /\ \A d \in Clients : d # c => current'[d] = current[d]
      /\ out'[c] = SubSeq(up[s], k + 1, Len(up[s]))
      /\ \A d \in Clients : d # c => out'[d] = out[d]
      /\ up'[s] = (IF s \in hubUp THEN SubSeq(up[s], 1, k) ELSE <<>>)
      /\ \A u \in Sessions : u # s => up'[u] = up[u]
      /\ UNCHANGED editorVars /\ UNCHANGED roomVars
      /\ UNCHANGED <<link, down, md, handover>>
  BY <1>0, <1>s, NoticeFacts
<1> DEFINE q == up[s]
           taken == SubSeq(q, 1, k)
           rest == SubSeq(q, k + 1, Len(q))
<1>2. /\ \A i \in DOMAIN taken : i \in DOMAIN q /\ taken[i] = q[i]
      /\ \A i \in DOMAIN rest : i + k \in DOMAIN q /\ rest[i] = q[i + k]
      /\ \A i \in DOMAIN q : i > 0
  BY <1>1, SplitIndex
<1>3. Faithful(q, Source)
  BY <1>0 DEF Queues
<1> HIDE DEF taken, rest
<1>4. /\ Faithful(taken, Source) /\ Faithful(rest, Source)
      /\ Bare(q, 0) => Bare(taken, 0) /\ Bare(rest, 0)
  <2>1. Faithful(taken, Source)
    BY <1>2, <1>3, FaithfulFrom
  <2>2. Faithful(rest, Source)
    BY <1>2, <1>3, FaithfulFrom
  <2>3. Bare(q, 0) => Bare(taken, 0) /\ Bare(rest, 0)
    BY <1>2 DEF Bare
  <2> QED
    BY <2>1, <2>2, <2>3
<1>5. Source' = Source /\ seeder' = seeder /\ seeded' = seeded /\ (IsCold' <=> IsCold)
  BY <1>1 DEF editorVars, roomVars, IsCold, Source
<1>6. Faithful(<<>>, Source) /\ Bare(<<>>, 0)
  BY DEF Faithful, Bare
<1>7. out'[c] = rest /\ up'[s] = (IF s \in hubUp THEN taken ELSE <<>>)
  BY <1>1 DEF taken, rest
<1>8. seeder # None => seeder \in hubUp /\ seeder \in Sessions
  BY <1>0, MembersFacts DEF RoomInOrder, RoomTypes
<1>9. Queues'
  <2>1. \A u \in Sessions : Faithful(up'[u], Source)
    BY <1>0, <1>1, <1>4, <1>6, <1>7 DEF Queues
  <2>2. \A d \in Clients : Faithful(out'[d], Source)
    BY <1>0, <1>1, <1>4, <1>7 DEF Queues
  <2>3. ASSUME seeder # None, ~seeded PROVE FirstHas(up'[seeder], 0, Source)
    <3>1. FirstHas(up[seeder], 0, Source)
      BY <1>0, <2>3 DEF Queues
    <3>2. CASE seeder = s
      <4>1. FirstHas(taken, 0, Source)
        BY <1>1, <3>1, <3>2, FirstPart DEF taken
      <4> QED
        BY <1>7, <1>8, <2>3, <3>2, <4>1
    <3>3. CASE seeder # s
      BY <1>1, <1>8, <2>3, <3>1, <3>3
    <3> QED
      BY <3>2, <3>3
  <2>4. ASSUME IsCold PROVE /\ \A u \in Sessions : Bare(up'[u], 0)
                            /\ \A d \in Clients : Bare(out'[d], 0)
    BY <1>0, <1>1, <1>4, <1>6, <1>7, <2>4 DEF Queues
  <2> QED
    BY <1>5, <2>1, <2>2, <2>3, <2>4 DEF Queues
<1>10. \A d \in Clients : current'[d] # None /\ link'[current'[d]] = "up" =>
         /\ current'[d] = current[d] /\ link[current[d]] = "up"
         /\ down'[current[d]] = down[current[d]]
  BY <1>1
<1>11. \A d \in Clients : seeder # None /\ ~seeded /\ current'[d] = seeder =>
         current[d] = seeder /\ up'[seeder] = up[seeder]
  BY <1>1, <1>8
<1> QED
  BY <1>1, <1>9, <1>10, <1>11, LinkSound

----------------------------------------------------------------------------
(* Steps of the hub.                                                         *)
LEMMA HubSound ==
    ASSUME Sound, UNCHANGED editorVars, UNCHANGED <<out, current>>, Queues',
           HubHasFile => Orig \in md', Room' # {} => Has(Room', Source),
           \A d \in Clients, s \in Sessions : s = current[d] /\ link'[s] = "up" =>
               Fed(down'[s], Waits(d), Young(s)', Source),
           \A d \in Clients : current[d] \in Sessions \cup {None},
           Claimed', Untouched'
    PROVE  Sound'
<1>0. /\ Sourced /\ Kept
      /\ UNCHANGED <<open, ydoc, have, ready, local, seedText, born>>
  BY DEF Sound, editorVars
<1>1. Source' = Source /\ Sourced'
  BY <1>0 DEF Source, Sourced
<1>2. Kept'
  <2>1. \A d \in Clients : (ready'[d] => Has(have'[d], Source)) /\ Orig \in local'[d]
    BY <1>0 DEF Kept
  <2> QED
    BY <1>1, <2>1 DEF Kept
<1>3. Served'
  <2> SUFFICES ASSUME NEW d \in Clients, NEW s \in Sessions, s = current[d], link'[s] = "up"
               PROVE  Fed(down'[s], Waits(d)', Young(s)', Source)
    BY <1>1 DEF Served
  <2>1. Waits(d)' <=> Waits(d)
    BY <1>0, <1>1 DEF Waits
  <2>2. Fed(down'[s], Waits(d), Young(s)', Source)
    OBVIOUS
  <2> QED
    BY <2>1, <2>2, FedKept
<1> QED
  BY <1>1, <1>2, <1>3 DEF Sound

(* A session that is read from, or ends, leaves the room if it was in it;    *)
(* the seeder does so only when it has seeded.                               *)
LEMMA DepartSound ==
    ASSUME DocInv, ConvInv, Sound, NEW s \in Sessions, UNCHANGED editorVars,
           UNCHANGED <<out, current, link, seeded, baseline, log, md, down>>,
           \A u \in Sessions : IsMember(u)' => IsMember(u),
           \A u \in Sessions : u # s => up'[u] = up[u],
           up'[s] \in {up[s], <<>>} \/ (up[s] # <<>> /\ up'[s] = Tail(up[s])),
           seeder' = seeder \/ (seeder' = None /\ seeded),
           seeder # None /\ ~seeded => seeder # s /\ leader' = leader
    PROVE  Sound'
<1>0. /\ Channels /\ RoomTypes /\ Sourced /\ Queues /\ Kept /\ Served /\ Claimed /\ Untouched
      /\ UNCHANGED <<open, ydoc, have, ready, local, seedText, born>>
  BY DEF Sound, DocInv, editorVars
<1>1. Queues'
  <2>1. IsCold' => IsCold
    BY DEF IsCold
  <2>2. seeder' # None /\ ~seeded' =>
           /\ seeder # None /\ ~seeded /\ seeder' = seeder /\ up'[seeder] \in {up[seeder], <<>>}
    BY <1>0 DEF RoomTypes
  <2>3. \A u \in Sessions : \/ up'[u] = up[u] \/ up'[u] = <<>>
                            \/ up[u] # <<>> /\ up'[u] = Tail(up[u])
    OBVIOUS
  <2> QED
    BY <1>0, <2>1, <2>2, <2>3, PartQueues
<1>2. /\ HubHasFile => Orig \in md'
      /\ Room' # {} => Has(Room', Source)
  BY <1>0 DEF Kept, Room
<1>3. ASSUME NEW d \in Clients, NEW u \in Sessions, u = current[d], link'[u] = "up"
      PROVE  Fed(down'[u], Waits(d), Young(u)', Source)
  <2>1. Young(u) => Young(u)'
    BY DEF Young
  <2>2. Fed(down[u], Waits(d), Young(u), Source)
    <3>1. u # None
      BY DocsAssumption
    <3> QED
      BY <1>0, <1>3, <3>1 DEF Served
  <2> QED
    BY <2>1, <2>2, FedKept
<1>4. Claimed'
  <2> SUFFICES ASSUME seeder' # None, ~seeded
               PROVE  Claimed'
    BY DEF Claimed
  <2>1. /\ seeder' = seeder /\ seeder # s /\ leader' = leader /\ up'[seeder] = up[seeder]
    BY <1>0 DEF RoomTypes
  <2> QED
    BY <1>0, <2>1 DEF Claimed
<1>5. Untouched'
  <2>1. seeder' = None /\ ~seeded => seeder = None
    OBVIOUS
  <2> QED
    BY <1>0, <2>1 DEF Untouched, Virgin
<1> QED
  BY <1>0, <1>1, <1>2, <1>3, <1>4, <1>5, HubSound DEF Channels

LEMMA LeaveToQuiet ==
    ASSUME DocInv, Sound, NEW s \in Sessions, IsMember(s), NEW bad, DocLeave(s, bad), hurt' = {}
    PROVE  /\ down' = down
           /\ \A u \in Sessions : IsMember(u)' => IsMember(u)
           /\ seeder' = seeder \/ (seeder' = None /\ seeded)
           /\ seeder # None /\ ~seeded => seeder # s /\ leader' = leader
<1>0. Channels /\ RoomTypes /\ RoomInOrder /\ Claimed
  BY DEF DocInv, Sound
<1>1. ~(seeder = s /\ ~seeded)
  BY DEF DocLeave, LeaveTo
<1>2. /\ down' = down
      /\ seeder' = IF seeder # s THEN seeder ELSE None
      /\ leader # s => leader' = leader
  BY <1>1 DEF DocLeave, LeaveTo
<1>3. \A u \in Sessions : IsMember(u)' => IsMember(u)
  BY <1>0, LeftFacts
<1>4. seeder # None /\ ~seeded => leader = seeder
  BY <1>0 DEF Claimed
<1> QED
  BY <1>1, <1>2, <1>3, <1>4

LEMMA LeaveSound ==
    ASSUME DocInv, ConvInv, Sound, NEW s \in Sessions, HandleLeave(s), hurt' = {}
    PROVE  Sound'
<1>1. /\ Reading(s, "leave") /\ Channels /\ Linked /\ RoomTypes /\ RoomInOrder
      /\ UNCHANGED <<seeded, baseline, log, md>>
  BY DEF HandleLeave, DocInv, ConvInv
<1>2. /\ up[s] # <<>> /\ up'[s] = Tail(up[s]) /\ \A u \in Sessions : u # s => up'[u] = up[u]
  BY <1>1, ReadFacts
<1>3. UNCHANGED editorVars /\ UNCHANGED <<out, current, link>>
  BY <1>1 DEF Reading
<1>4. /\ down' = down
      /\ \A u \in Sessions : IsMember(u)' => IsMember(u)
      /\ seeder' = seeder \/ (seeder' = None /\ seeded)
      /\ seeder # None /\ ~seeded => seeder # s /\ leader' = leader
  <2>1. CASE IsMember(s)
    <3>1. DocLeave(s, {})
      BY <2>1 DEF HandleLeave
    <3> QED
      BY <2>1, <3>1, LeaveToQuiet
  <2>2. CASE ~IsMember(s)
    <3>1. UNCHANGED <<members, leader, seeder, down>>
      BY <2>2 DEF HandleLeave
    <3>2. seeder # None => seeder # s
      BY <1>1, <2>2 DEF RoomInOrder
    <3> QED
      BY <3>1, <3>2 DEF IsMember
  <2> QED
    BY <2>1, <2>2
<1> QED
  BY <1>1, <1>2, <1>3, <1>4, DepartSound

LEMMA EndSound ==
    ASSUME DocInv, ConvInv, Sound, NEW s \in Sessions, EndSession(s), hurt' = {}
    PROVE  Sound'
<1>1. /\ Channels /\ Linked /\ RoomTypes /\ RoomInOrder
      /\ UNCHANGED <<seeded, baseline, log, md, out, current, link>>
      /\ UNCHANGED editorVars
  BY DEF EndSession, DocInv, ConvInv
<1>2. /\ up'[s] \in {up[s], <<>>} /\ \A u \in Sessions : u # s => up'[u] = up[u]
  BY <1>1, EndFacts
<1>4. /\ down' = down
      /\ \A u \in Sessions : IsMember(u)' => IsMember(u)
      /\ seeder' = seeder \/ (seeder' = None /\ seeded)
      /\ seeder # None /\ ~seeded => seeder # s /\ leader' = leader
  <2>1. CASE IsMember(s)
    <3>1. \E bad : DocLeave(s, bad)
      BY <2>1 DEF EndSession
    <3> QED
      BY <2>1, <3>1, LeaveToQuiet
  <2>2. CASE ~IsMember(s)
    <3>1. UNCHANGED <<members, leader, seeder, down>>
      BY <2>2 DEF EndSession
    <3>2. seeder # None => seeder # s
      BY <1>1, <2>2 DEF RoomInOrder
    <3> QED
      BY <3>1, <3>2 DEF IsMember
  <2> QED
    BY <2>1, <2>2
<1> QED
  BY <1>1, <1>2, <1>4, DepartSound

LEMMA RestartSound ==
    ASSUME DocInv, ConvInv, Sound, HubRestart, hurt' = {}
    PROVE  Sound'
<1>0. /\ Channels /\ RoomTypes /\ SeedKept /\ Linked
      /\ Sourced /\ Queues /\ Kept /\ Served /\ Claimed /\ Untouched
  BY DEF Sound, DocInv, ConvInv
<1>1. /\ baseline' = baseline /\ log' = {} /\ seeded' = (baseline # {})
      /\ \A u \in Sessions : up'[u] = (IF u \in Late THEN <<>> ELSE up[u])
      /\ \A u \in Sessions : link'[u] # "up" /\ down'[u] = <<>>
      /\ log # {} => "lost" \in hurt'
      /\ UNCHANGED <<out, current>> /\ UNCHANGED editorVars
  BY <1>0, RestartFacts
<1>2. log = {} /\ ~(seeder # None /\ ~seeded) /\ seeder' = None /\ md' = md
  <2>1. seeder # None /\ ~seeded => "cold" \in hurt'
    BY DEF HubRestart
  <2> QED
    BY <1>1, <2>1 DEF HubRestart
<1>3. UNCHANGED <<open, ydoc, have, ready, local, seedText, born>>
  BY <1>1 DEF editorVars
<1>4. ~seeded' => ~seeded /\ seeder = None /\ IsCold
  BY <1>0, <1>1, <1>2 DEF SeedKept, IsCold
<1>5. Queues'
  <2>1. IsCold' => IsCold
    BY <1>4 DEF IsCold
  <2>2. \A u \in Sessions : up'[u] = up[u] \/ up'[u] = <<>>
    BY <1>1
  <2>3. ~(seeder' # None /\ ~seeded')
    BY <1>2
  <2>4. out' = out /\ seedText' = seedText
    BY <1>1, <1>3
  <2> QED
    BY <1>0, <2>1, <2>2, <2>3, <2>4, PartQueues
<1>6. /\ HubHasFile => Orig \in md'
      /\ Room' # {} => Has(Room', Source)
  <2>1. Room' = Room
    BY <1>1, <1>2 DEF Room
  <2> QED
    BY <1>0, <1>2, <2>1 DEF Kept
<1>7. Claimed'
  BY <1>2 DEF Claimed
<1>8. Untouched'
  BY <1>0, <1>1, <1>3, <1>4 DEF Untouched, Virgin
<1>9. \A d \in Clients, u \in Sessions : ~(u = current[d] /\ link'[u] = "up")
  BY <1>1
<1> QED
  BY <1>0, <1>1, <1>5, <1>6, <1>7, <1>8, <1>9, HubSound DEF Channels

LEMMA SnapshotSound ==
    ASSUME DocInv, ConvInv, Sound, NEW s \in Sessions, HandleSnapshot(s)
    PROVE  Sound'
<1>0. /\ Channels /\ RoomTypes /\ Linked /\ Reading(s, "snapshot")
      /\ Sourced /\ Queues /\ Kept /\ Served /\ Claimed /\ Untouched
  BY DEF Sound, DocInv, ConvInv, HandleSnapshot
<1>1. /\ up[s] \in Seq(Telling) /\ up[s] # <<>> /\ Head(up[s]).type = "snapshot"
      /\ up'[s] = Tail(up[s]) /\ \A u \in Sessions : u # s => up'[u] = up[u]
  BY <1>0, ReadFacts
<1>2. /\ UNCHANGED editorVars /\ UNCHANGED <<out, current, link, down>>
      /\ UNCHANGED <<members, leader, seeder, seeded, baseline, log>>
      /\ md' = md \/ md' = Head(up[s]).text
      /\ UNCHANGED <<open, ydoc, have, ready, local, seedText, born>>
  BY <1>0 DEF HandleSnapshot, Reading, roomVars, editorVars
<1>3. HubHasFile => Orig \in md'
  <2>1. 1 \in DOMAIN up[s] /\ up[s][1] = Head(up[s])
    BY <1>1
  <2>2. Orig \in Head(up[s]).text
    BY <1>0, <1>1, <2>1 DEF Queues, Faithful
  <2> QED
    BY <1>0, <1>2, <2>2 DEF Kept
<1>4. Queues'
  <2>1. IsCold' => IsCold
    BY <1>2 DEF IsCold
  <2>2. \A u \in Sessions : up'[u] = up[u] \/ (up[u] # <<>> /\ up'[u] = Tail(up[u]))
    BY <1>1
  <2>3. seeder # None => up'[seeder] = up[seeder] \/ Head(up[seeder]).type # "update"
    BY <1>0, <1>1 DEF RoomTypes
  <2> QED
    BY <1>0, <1>2, <2>1, <2>2, <2>3, PartQueues
<1>5. Room' # {} => Has(Room', Source)
  BY <1>0, <1>2 DEF Kept, Room
<1>6. ASSUME NEW d \in Clients, NEW u \in Sessions, u = current[d], link'[u] = "up"
      PROVE  Fed(down'[u], Waits(d), Young(u)', Source)
  <2>1. Young(u)' <=> Young(u)
    BY <1>2 DEF Young, IsMember
  <2>2. Fed(down[u], Waits(d), Young(u), Source)
    <3>1. u # None
      BY DocsAssumption
    <3> QED
      BY <1>0, <1>2, <1>6, <3>1 DEF Served
  <2> QED
    BY <1>2, <2>1, <2>2, FedKept
<1>7. Bare(up'[s], 0) => Bare(up[s], 0)
  BY <1>1, FirstTail
<1>8. Claimed'
  <2>1. seeder # None => (Bare(up'[seeder], 0) => Bare(up[seeder], 0))
    BY <1>0, <1>1, <1>7 DEF RoomTypes
  <2> QED
    BY <1>0, <1>2, <2>1 DEF Claimed
<1>9. Untouched'
  BY <1>0, <1>2 DEF Untouched, Virgin
<1> QED
  BY <1>0, <1>2, <1>3, <1>4, <1>5, <1>6, <1>8, <1>9, HubSound DEF Channels

(* An update of a room that was not seeded yet has the file's text.          *)
LEMMA UpdateTold ==
    ASSUME DocInv, ConvInv, Sound, NEW s \in Sessions, HandleUpdate(s), hurt' = {},
           NEW m, m = Head(up[s])
    PROVE  /\ IsMember(s) /\ m \in Telling /\ m.type = "update" /\ ~IsCold
           /\ Has(m.edits, Source) \/ seeded
           /\ Room' # {} => Has(Room', Source)
           /\ seeded => seeded'
           /\ s = seeder => seeded'
           /\ ~seeded /\ seeded' => s = seeder
           /\ down' = Post(Range(members) \ {s}, Update(m.edits))
<1>0. /\ Channels /\ RoomTypes /\ Linked /\ SeedKept /\ Reading(s, "update")
      /\ Sourced /\ Queues /\ Kept /\ Claimed /\ Untouched
  BY DEF Sound, DocInv, ConvInv, HandleUpdate
<1>1. /\ up[s] \in Seq(Telling) /\ up[s] # <<>> /\ m \in Telling /\ m.type = "update"
      /\ 1 \in DOMAIN up[s] /\ up[s][1] = m
  <2>1. /\ up[s] \in Seq(Telling) /\ up[s] # <<>> /\ m \in Telling /\ m.type = "update"
    BY <1>0, ReadFacts
  <2> QED
    BY <2>1
<1>2. m.edits # {} /\ m.edits \subseteq Edits
  BY <1>1, MsgFacts
<1>3. IsMember(s)
  BY DEF HandleUpdate
<1>4. ~Bare(up[s], 0)
  BY <1>1 DEF Bare
<1>5. ~IsCold
  BY <1>0, <1>4 DEF Queues
<1>6. seeder = None => seeded
  BY <1>0, <1>5 DEF Untouched, Virgin, IsCold
<1>7. seeder # None /\ ~seeded => leader = seeder
  BY <1>0 DEF Claimed
<1>8. m.compaction => Has(m.edits, Source)
  BY <1>0, <1>1 DEF Queues, Faithful
<1>9. s = seeder /\ ~seeded => Has(m.edits, Source)
  <2> SUFFICES ASSUME s = seeder, ~seeded PROVE Has(m.edits, Source)
    OBVIOUS
  <2>1. FirstHas(up[s], 0, Source)
    <3>1. seeder # None
      BY <1>6
    <3> QED
      BY <1>0, <3>1 DEF Queues
  <2> QED
    BY <1>1, <2>1, FirstHead
<1>10. (\E e \in m.edits : IsSeed(e)) => Has(m.edits, Source)
  <2> SUFFICES ASSUME NEW e \in m.edits, IsSeed(e) PROVE Has(m.edits, Source)
    OBVIOUS
  <2>1. e \in Edits /\ e[1] \in Authors
    BY <1>2 DEF Edits
  <2>2. e \in Source
    BY <1>0, <2>1 DEF Source, Sourced, IsSeed
  <2> QED
    BY <2>2 DEF Has
<1>11. /\ down' = Post(Range(members) \ {s}, Update(m.edits))
       /\ CASE m.compaction /\ s \in {leader, seeder} ->
                  /\ baseline' = m.edits /\ log' = {} /\ seeded' = TRUE
            [] m.compaction /\ s \notin {leader, seeder} ->
                  UNCHANGED <<baseline, log, seeded>>
            [] ~m.compaction /\ (s = seeder /\ ~seeded) ->
                  /\ baseline' = m.edits /\ seeded' = TRUE
                  /\ UNCHANGED log
            [] OTHER ->
                  /\ log' = log \cup m.edits
                  /\ seeded \/ \E e \in m.edits : IsSeed(e)
                  /\ UNCHANGED <<baseline, seeded>>
  BY <1>3 DEF HandleUpdate
<1>12. m.compaction \in BOOLEAN
  BY <1>1, MsgFacts
<1>13. seeded => Has(Room, Source)
  BY <1>0 DEF Kept, SeedKept, Room
<1>14. Room # {} => Has(Room, Source)
  BY <1>0 DEF Kept
<1>15. CASE m.compaction /\ s \in {leader, seeder}
  <2>1. baseline' = m.edits /\ log' = {} /\ seeded' = TRUE
    BY <1>11, <1>15
  <2>2. Room' = m.edits
    BY <2>1 DEF Room
  <2>3. ~seeded => s = seeder
    BY <1>6, <1>7, <1>15
  <2> QED
    BY <1>1, <1>3, <1>5, <1>8, <1>11, <1>15, <2>1, <2>2, <2>3
<1>16. CASE m.compaction /\ s \notin {leader, seeder}
  <2>1. UNCHANGED <<baseline, log, seeded>>
    BY <1>11, <1>16
  <2>2. Room' = Room
    BY <2>1 DEF Room
  <2> QED
    BY <1>1, <1>3, <1>5, <1>8, <1>11, <1>14, <1>16, <2>1, <2>2
<1>17. CASE ~m.compaction /\ (s = seeder /\ ~seeded)
  <2>1. baseline' = m.edits /\ log' = log /\ seeded' = TRUE
    BY <1>11, <1>17
  <2>2. m.edits \subseteq Room'
    BY <2>1 DEF Room
  <2>3. Has(Room', Source)
    BY <1>9, <1>17, <2>2 DEF Has
  <2> QED
    BY <1>1, <1>3, <1>5, <1>9, <1>11, <1>17, <2>1, <2>3
<1>18. CASE ~m.compaction /\ ~(s = seeder /\ ~seeded)
  <2>1. /\ log' = log \cup m.edits /\ UNCHANGED <<baseline, seeded>>
        /\ seeded \/ \E e \in m.edits : IsSeed(e)
    BY <1>11, <1>18
  <2>2. m.edits \subseteq Room' /\ Room \subseteq Room'
    BY <2>1 DEF Room
  <2>3. Has(m.edits, Source) \/ seeded
    BY <1>10, <2>1
  <2>4. Has(Room', Source)
    BY <1>13, <2>2, <2>3 DEF Has
  <2> QED
    BY <1>1, <1>3, <1>5, <1>11, <1>18, <2>1, <2>3, <2>4
<1> QED
  BY <1>12, <1>15, <1>16, <1>17, <1>18

LEMMA UpdateSound ==
    ASSUME DocInv, ConvInv, Sound, NEW s \in Sessions, HandleUpdate(s), hurt' = {}
    PROVE  Sound'
<1>0. /\ Channels /\ RoomTypes /\ RoomInOrder /\ Linked /\ Reading(s, "update")
      /\ Sourced /\ Queues /\ Kept /\ Served /\ Claimed /\ Untouched
  BY DEF Sound, DocInv, ConvInv, HandleUpdate
<1>1. PICK m : m = Head(up[s])
  OBVIOUS
<1>2. /\ IsMember(s) /\ m \in Telling /\ m.type = "update" /\ ~IsCold
      /\ Has(m.edits, Source) \/ seeded
      /\ Room' # {} => Has(Room', Source)
      /\ seeded => seeded'
      /\ s = seeder => seeded'
      /\ ~seeded /\ seeded' => s = seeder
      /\ down' = Post(Range(members) \ {s}, Update(m.edits))
  BY <1>1, UpdateTold
<1>3. /\ up[s] \in Seq(Telling) /\ up[s] # <<>> /\ up'[s] = Tail(up[s])
      /\ \A u \in Sessions : u # s => up'[u] = up[u]
  BY <1>0, ReadFacts
<1>4. /\ UNCHANGED editorVars /\ UNCHANGED <<out, current, link>>
      /\ UNCHANGED <<members, leader, seeder, md>>
      /\ UNCHANGED <<open, ydoc, have, ready, local, seedText, born>>
  BY <1>0 DEF HandleUpdate, Reading, editorVars
<1>5. seeder = None => seeded
  BY <1>0, <1>2 DEF Untouched, Virgin, IsCold
<1>6. seeded' \in BOOLEAN /\ (seeder' = None => seeded')
  <2>1. RoomTypes'
    BY StepDocInv DEF DocInv, Next, HubReads
  <2> QED
    BY <1>2, <1>4, <1>5, <2>1 DEF RoomTypes
<1> DEFINE n == Update(m.edits)
<1>7. n \in DownMsgs /\ n.type = "update" /\ n.edits = m.edits
  BY <1>2, MsgFacts DEF Update
<1>8. \A u \in Sessions : down'[u] = IF IsMember(u) /\ u # s /\ link[u] = "up"
                                     THEN down[u] \o <<n>> ELSE down[u]
  <2> SUFFICES ASSUME NEW u \in Sessions
               PROVE  down'[u] = IF IsMember(u) /\ u # s /\ link[u] = "up"
                                 THEN down[u] \o <<n>> ELSE down[u]
    OBVIOUS
  <2>1. u \in Range(members) \ {s} <=> IsMember(u) /\ u # s
    BY <1>0, MembersFacts DEF RoomTypes
  <2>2. down[u] \in Seq(DownMsgs)
    BY <1>0 DEF Channels
  <2>3. Append(down[u], n) = down[u] \o <<n>>
    BY <1>7, <2>2, AppendAdds
  <2> QED
    BY <1>2, <2>1, <2>3 DEF Post
<1> HIDE DEF n
<1>9. Queues'
  <2>1. ~IsCold'
    BY <1>6 DEF IsCold
  <2>2. ASSUME seeder' # None, ~seeded'
        PROVE  seeder # None /\ ~seeded /\ seeder' = seeder /\ up'[seeder] \in {up[seeder], <<>>}
    <3>1. seeder # None /\ ~seeded /\ seeder' = seeder /\ seeder # s
      BY <1>2, <1>4, <2>2
    <3> QED
      BY <1>0, <1>3, <3>1 DEF RoomTypes
  <2>3. \A u \in Sessions : up'[u] = up[u] \/ (up[u] # <<>> /\ up'[u] = Tail(up[u]))
    BY <1>3
  <2> QED
    BY <1>0, <1>4, <2>1, <2>2, <2>3, PartQueues
<1>10. HubHasFile => Orig \in md'
  BY <1>0, <1>4 DEF Kept
<1>11. Untouched'
  BY <1>6 DEF Untouched
<1>12. Claimed'
  <2> SUFFICES ASSUME seeder # None, ~seeded'
               PROVE  /\ leader = seeder
                      /\ \A i \in DOMAIN down'[seeder] :
                            down'[seeder][i].type = "seed" => down'[seeder][i].should
                      /\ \A d \in Clients : current[d] = seeder /\ ydoc[d] # 0 =>
                            ready[d] /\ ~Bare(up'[seeder], 0)
    BY <1>4 DEF Claimed
  <2>1. ~seeded /\ seeder # s /\ seeder \in Sessions
    BY <1>0, <1>2 DEF RoomTypes
  <2>2. /\ leader = seeder
        /\ \A i \in DOMAIN down[seeder] : down[seeder][i].type = "seed" => down[seeder][i].should
        /\ \A d \in Clients : current[d] = seeder /\ ydoc[d] # 0 =>
              ready[d] /\ ~Bare(up[seeder], 0)
    BY <1>0, <2>1 DEF Claimed
  <2>3. \A i \in DOMAIN down'[seeder] :
            down'[seeder][i].type = "seed" => down'[seeder][i].should
    <3>1. PICK r : r = down'[seeder]
      OBVIOUS
    <3>2. CASE r = down[seeder]
      BY <2>2, <3>1, <3>2
    <3>3. CASE r = down[seeder] \o <<n>>
      <4>1. down[seeder] \in Seq(DownMsgs)
        BY <1>0, <2>1 DEF Channels
      <4>2. \A i \in DOMAIN r : \/ i \in DOMAIN down[seeder] /\ r[i] = down[seeder][i]
                                \/ r[i] = n
        BY <1>7, <3>3, <4>1, AddIndex
      <4> QED
        BY <1>7, <2>2, <3>1, <4>2
    <3> QED
      BY <1>8, <2>1, <3>1, <3>2, <3>3
  <2> QED
    BY <1>3, <2>1, <2>2, <2>3
<1>13. ASSUME NEW d \in Clients, NEW u \in Sessions, u = current[d], link'[u] = "up"
       PROVE  Fed(down'[u], Waits(d), Young(u)', Source)
  <2>1. link[u] = "up" /\ u # None /\ down[u] \in Seq(DownMsgs)
    BY <1>0, <1>4, <1>13, DocsAssumption DEF Channels
  <2>2. Fed(down[u], Waits(d), Young(u), Source)
    BY <1>0, <1>13, <2>1 DEF Served
  <2>3. Young(u)' <=> ~IsMember(u) \/ ~seeded'
    BY <1>4 DEF Young, IsMember
  <2>4. CASE IsMember(u) /\ u # s
    <3>1. down'[u] = down[u] \o <<n>>
      BY <1>8, <2>1, <2>4
    <3>2. Has(n.edits, Source) \/ ~Young(u)
      BY <1>2, <1>7, <2>4 DEF Young
    <3>3. Fed(down[u] \o <<n>>, Waits(d), Young(u)', Source)
      BY <1>7, <2>1, <2>2, <3>2, FedAdd
    <3> QED
      BY <3>1, <3>3
  <2>5. CASE ~IsMember(u)
    <3>1. down'[u] = down[u] /\ Young(u)'
      BY <1>8, <2>3, <2>5
    <3>2. Young(u) => Young(u)'
      BY <3>1
    <3>3. Fed(down[u], Waits(d), Young(u)', Source)
      BY <2>2, <3>2, FedKept
    <3> QED
      BY <3>1, <3>3
  <2>6. CASE u = s
    <3>1. down'[u] = down[u]
      BY <1>8, <2>6
    <3>2. CASE Young(u) => Young(u)'
      BY <2>2, <3>1, <3>2, FedKept
    <3>3. CASE ~(Young(u) => Young(u)')
      <4>1. ~seeded /\ seeder = s /\ seeder # None
        BY <1>2, <1>5, <2>3, <2>6, <3>3 DEF Young
      <4>2. /\ \A i \in DOMAIN down[s] : down[s][i].type = "seed" => down[s][i].should
            /\ ydoc[d] # 0 => ready[d]
        BY <1>0, <1>13, <2>6, <4>1 DEF Claimed
      <4>3. ~Waits(d)
        BY <1>0, <4>2 DEF Waits, Kept
      <4>4. \A i \in 0..Len(down[s]) : i # 0 => i \in DOMAIN down[s]
        BY <2>1, <2>6
      <4> QED
        BY <2>6, <3>1, <4>2, <4>3, <4>4 DEF Fed
    <3> QED
      BY <3>2, <3>3
  <2> QED
    BY <2>4, <2>5, <2>6
<1> QED
  BY <1>0, <1>2, <1>4, <1>9, <1>10, <1>11, <1>12, <1>13, HubSound DEF Channels

LEMMA JoinSound ==
    ASSUME DocInv, ConvInv, Sound, NEW s \in Sessions, HandleJoin(s)
    PROVE  Sound'
<1>0. /\ Channels /\ RoomTypes /\ RoomInOrder /\ SeedKept /\ Linked /\ Empty
      /\ Reading(s, "join")
      /\ Sourced /\ Queues /\ Kept /\ Served /\ Claimed /\ Untouched
  BY DEF Sound, DocInv, ConvInv, HandleJoin
<1>1. /\ up[s] \in Seq(Telling) /\ up[s] # <<>> /\ Head(up[s]).type = "join"
      /\ up'[s] = Tail(up[s]) /\ \A u \in Sessions : u # s => up'[u] = up[u]
  BY <1>0, ReadFacts
<1>2. /\ UNCHANGED editorVars /\ UNCHANGED <<out, current, link>>
      /\ UNCHANGED <<seeded, baseline, log, md>>
      /\ UNCHANGED <<open, ydoc, have, ready, local, seedText, born>>
  BY <1>0 DEF HandleJoin, Reading, editorVars
<1>3. \A u \in Sessions : /\ up'[u] = up[u] \/ (up[u] # <<>> /\ up'[u] = Tail(up[u]))
                          /\ up'[u] = up[u] \/ Head(up[u]).type # "update"
                          /\ Bare(up'[u], 0) => Bare(up[u], 0)
  <2>1. Bare(up'[s], 0) => Bare(up[s], 0)
    BY <1>1, FirstTail
  <2> QED
    BY <1>1, <2>1
<1>4. /\ HubHasFile => Orig \in md'
      /\ Room' # {} => Has(Room', Source)
  BY <1>0, <1>2 DEF Kept, Room
<1>5. ASSUME NEW d \in Clients, NEW u \in Sessions, u = current[d], link'[u] = "up"
      PROVE  /\ Fed(down[u], Waits(d), Young(u), Source)
             /\ down[u] \in Seq(DownMsgs) /\ link[u] = "up"
  <2>1. u # None
    BY DocsAssumption
  <2> QED
    BY <1>0, <1>2, <1>5, <2>1 DEF Served, Channels
<1>6. ASSUME seeder' = seeder,
             seeder # None /\ ~seeded => leader' = leader /\ down'[seeder] = down[seeder]
      PROVE  Claimed'
  <2> SUFFICES ASSUME seeder # None, ~seeded PROVE Claimed'
    BY <1>2, <1>6 DEF Claimed
  <2>1. leader' = leader /\ down'[seeder] = down[seeder] /\ seeder \in Sessions
    BY <1>0, <1>6 DEF RoomTypes
  <2>2. Bare(up'[seeder], 0) => Bare(up[seeder], 0)
    BY <1>3, <2>1
  <2> QED
    BY <1>0, <1>2, <1>6, <2>1, <2>2 DEF Claimed
<1>7. ASSUME seeder' = seeder PROVE Queues'
  <2>1. IsCold' => IsCold
    BY <1>2, <1>7 DEF IsCold
  <2>2. seeder # None => up'[seeder] = up[seeder] \/ Head(up[seeder]).type # "update"
    BY <1>0, <1>3 DEF RoomTypes
  <2> QED
    BY <1>0, <1>2, <1>3, <1>7, <2>1, <2>2, PartQueues
<1>8. CASE IsMember(s)
  <2>1. UNCHANGED <<members, leader, seeder, down>>
    BY <1>8 DEF HandleJoin
  <2>2. Claimed' /\ Queues'
    BY <1>6, <1>7, <2>1
  <2>3. Untouched'
    BY <1>0, <1>2, <2>1 DEF Untouched, Virgin
  <2>4. ASSUME NEW d \in Clients, NEW u \in Sessions, u = current[d], link'[u] = "up"
        PROVE  Fed(down'[u], Waits(d), Young(u)', Source)
    <3>1. Young(u)' <=> Young(u)
      BY <1>2, <2>1 DEF Young, IsMember
    <3> QED
      BY <1>5, <2>1, <2>4, <3>1, FedKept
  <2> QED
    BY <1>0, <1>2, <1>4, <2>2, <2>3, <2>4, HubSound DEF Channels
<1>9. CASE ~IsMember(s)
  <2>1. DocJoin(s) /\ members' = Append(members, s)
    BY <1>9 DEF HandleJoin, DocJoin
  <2>2. \A u \in Sessions : IsMember(u)' <=> IsMember(u) \/ u = s
    <3>1. RoomTypes' /\ Range(members') = Range(members) \cup {s}
      <4>1. members' \in Seq(Sessions) /\ Range(members') = Range(members) \cup {s}
        BY <1>0, <1>9, <2>1, JoinedFacts DEF RoomTypes, RoomInOrder
      <4>2. RoomTypes'
        BY StepDocInv DEF DocInv, Next, HubReads
      <4> QED
        BY <4>1, <4>2
    <3>2. \A u \in Sessions : IsMember(u) <=> u \in Range(members)
      BY <1>0, MembersFacts DEF RoomTypes
    <3>3. \A u \in Sessions : IsMember(u)' <=> u \in Range(members')
      BY <3>1 DEF RoomTypes, IsMember, Contains, Range
    <3> QED
      BY <3>1, <3>2, <3>3
  <2>3. CASE IsCold
    <3>1. Virgin
      BY <1>0, <2>3 DEF Untouched, IsCold
    <3>2. members = <<>>
      BY <1>0, <2>3 DEF RoomInOrder, IsCold, Empty, Room
    <3>3. leader' = s /\ seeder' = s /\ s # None
      BY <1>0, <2>1, <2>3, <3>2, DocsAssumption DEF DocJoin, RoomInOrder
    <3> DEFINE n == Seed(TRUE, md)
    <3>4. n \in DownMsgs /\ n.type = "seed" /\ n.should
      BY <1>0, MsgFacts DEF Seed, RoomTypes
    <3>5. \A u \in Sessions : down'[u] = <<>> \/ down'[u] = <<>> \o <<n>>
      <4>1. Welcome(s)
        BY <2>1 DEF DocJoin
      <4>2. \A u \in Sessions : down[u] = <<>>
        BY <3>1 DEF Virgin
      <4> QED
        BY <1>0, <2>3, <4>1, <4>2 DEF Welcome, Channels
    <3> HIDE DEF n
    <3>6. Queues'
      <4>1. ~IsCold' /\ s \in Sessions
        BY <3>3 DEF IsCold
      <4> QED
        BY <1>0, <1>2, <1>3, <2>3, <3>3, <4>1, PartQueues
    <3>7. Untouched'
      BY <3>3 DEF Untouched
    <3>8. Claimed'
      <4>1. \A i \in DOMAIN down'[s] : down'[s][i].type = "seed" => down'[s][i].should
        <5>1. PICK r : r = down'[s]
          OBVIOUS
        <5>2. CASE r = <<>>
          BY <5>1, <5>2
        <5>3. CASE r = <<>> \o <<n>>
          <6>1. \A i \in DOMAIN r : r[i] = n
            BY <3>4, <5>3
          <6> QED
            BY <3>4, <5>1, <6>1
        <5> QED
          BY <3>5, <5>1, <5>2, <5>3
      <4>2. \A d \in Clients : ydoc'[d] = 0
        BY <1>2, <3>1 DEF Virgin
      <4> QED
        BY <3>3, <4>1, <4>2 DEF Claimed
    <3>9. ASSUME NEW d \in Clients, NEW u \in Sessions, u = current[d], link'[u] = "up"
          PROVE  Fed(down'[u], Waits(d), Young(u)', Source)
      <4>1. ~Waits(d)
        BY <3>1 DEF Virgin, Waits
      <4>2. Young(u)'
        BY <1>2, <2>3 DEF Young, IsCold
      <4>3. Fed(<<>>, Waits(d), TRUE, Source)
        BY FedEmpty
      <4>4. <<>> \in Seq(DownMsgs)
        OBVIOUS
      <4>5. Fed(<<>> \o <<n>>, Waits(d), Young(u)', Source)
        BY <3>4, <4>2, <4>3, <4>4, FedAdd
      <4>6. Fed(<<>>, Waits(d), Young(u)', Source)
        BY <4>2, FedEmpty
      <4> QED
        BY <3>5, <4>5, <4>6
    <3> QED
      BY <1>0, <1>2, <1>4, <3>6, <3>7, <3>8, <3>9, HubSound DEF Channels
  <2>4. CASE ~IsCold
    <3>1. seeder' = seeder /\ (leader # None => leader' = leader)
      BY <2>1, <2>4 DEF DocJoin
    <3> DEFINE n == Seed(FALSE, {})
               k == Update(Room)
    <3>2. n \in DownMsgs /\ n.type = "seed" /\ ~n.should
      BY MsgFacts DEF Seed, Texts
    <3>3. k \in DownMsgs /\ k.type = "update" /\ k.edits = Room
      <4>1. Room \in SUBSET Edits
        BY <1>0 DEF RoomTypes, Room
      <4> QED
        BY <4>1, MsgFacts DEF Update
    <3>4. /\ \A u \in Sessions : u # s => down'[u] = down[u]
          /\ link[s] = "up" => down'[s] = IF Room = {} THEN down[s] \o (<<n>> \o <<>>)
                                          ELSE down[s] \o (<<n>> \o <<k>>)
      <4>1. Welcome(s)
        BY <2>1 DEF DocJoin
      <4> QED
        BY <1>0, <2>4, <4>1 DEF Welcome, Channels, Replay, Room
    <3> HIDE DEF n, k
    <3>5. seeder # None => seeder # s
      BY <1>0, <1>9 DEF RoomInOrder
    <3>6. Claimed' /\ Queues'
      <4>1. seeder # None /\ ~seeded => leader' = leader /\ down'[seeder] = down[seeder]
        BY <1>0, <3>1, <3>4, <3>5 DEF Claimed, RoomTypes
      <4> QED
        BY <1>6, <1>7, <3>1, <4>1
    <3>7. Untouched'
      <4>1. ~(seeder = None /\ ~seeded)
        BY <1>0, <2>4 DEF Untouched, Virgin, IsCold
      <4> QED
        BY <1>2, <3>1, <4>1 DEF Untouched
    <3>8. ASSUME NEW d \in Clients, NEW u \in Sessions, u = current[d], link'[u] = "up"
          PROVE  Fed(down'[u], Waits(d), Young(u)', Source)
      <4>1. Fed(down[u], Waits(d), Young(u), Source) /\ down[u] \in Seq(DownMsgs) /\ link[u] = "up"
        BY <1>5, <3>8
      <4>2. CASE u # s
        <5>1. Young(u)' <=> Young(u)
          BY <1>2, <2>2, <4>2 DEF Young
        <5> QED
          BY <3>4, <4>1, <4>2, <5>1, FedKept
      <4>3. CASE u = s
        <5> DEFINE q == down[s]
                   p == q \o <<n>>
        <5>1. q \in Seq(DownMsgs) /\ Fed(q, Waits(d), Young(s), Source)
          BY <4>1, <4>3
        <5>2. p \in Seq(DownMsgs)
          BY <3>2, <5>1, AddIndex
        <5>3. Fed(p, Waits(d), TRUE, Source)
          BY <3>2, <5>1, FedAdd
        <5>4. CASE Room = {}
          <6>1. Young(s)'
            <7>1. ~seeded
              BY <1>0, <5>4 DEF SeedKept, Room
            <7> QED
              BY <1>2, <7>1 DEF Young
          <6>2. down'[s] = q \o (<<n>> \o <<>>)
            BY <3>4, <4>1, <4>3, <5>4
          <6>3. <<n>> \o <<>> = <<n>>
            BY <3>2, EmptyConcat
          <6>4. down'[s] = p
            BY <6>2, <6>3
          <6> HIDE DEF p
          <6> QED
            BY <4>3, <5>3, <6>1, <6>4, FedKept
        <5>5. CASE Room # {}
          <6>1. Has(k.edits, Source)
            BY <1>0, <3>3, <5>5 DEF Kept
          <6>2. Fed(p \o <<k>>, Waits(d), Young(s)', Source)
            <7> HIDE DEF p
            <7> QED
              BY <3>3, <5>2, <5>3, <6>1, FedAdd
          <6>3. down'[s] = q \o (<<n>> \o <<k>>)
            BY <3>4, <4>1, <4>3, <5>5
          <6>4. q \o (<<n>> \o <<k>>) = p \o <<k>>
            BY <3>2, <3>3, <5>1
          <6> HIDE DEF p, q
          <6> QED
            BY <4>3, <6>2, <6>3, <6>4
        <5> QED
          BY <5>4, <5>5
      <4> QED
        BY <4>2, <4>3
    <3> QED
      BY <1>0, <1>2, <1>4, <3>6, <3>7, <3>8, HubSound DEF Channels
  <2> QED
    BY <2>3, <2>4
<1> QED
  BY <1>8, <1>9

----------------------------------------------------------------------------
(* All steps.                                                                *)
LEMMA InitSound == Init => Sound
<1> SUFFICES ASSUME Init PROVE Sound
  OBVIOUS
<1>1. /\ \A c \in Clients : /\ ydoc[c] = 0 /\ have[c] = {} /\ ~ready[c] /\ local[c] = {Orig}
                            /\ out[c] = <<>> /\ current[c] = None
      /\ \A a \in Authors : seedText[a] = {}
      /\ \A s \in Sessions : up[s] = <<>> /\ down[s] = <<>>
      /\ seeder = None /\ ~seeded /\ baseline = {} /\ log = {}
      /\ HubHasFile => md = {Orig}
  BY DEF Init
<1>2. Faithful(<<>>, Source) /\ Bare(<<>>, 0)
  BY DEF Faithful, Bare
<1>3. Sourced /\ Queues
  BY <1>1, <1>2 DEF Sourced, Queues
<1>4. Kept /\ Served /\ Claimed /\ Untouched
  BY <1>1 DEF Kept, Room, Served, Claimed, Untouched, Virgin
<1> QED
  BY <1>3, <1>4 DEF Sound

LEMMA StutterSound ==
    ASSUME Sound, UNCHANGED vars
    PROVE  Sound'
<1>1. /\ UNCHANGED <<open, ydoc, have, ready, local, seedText, born>>
      /\ UNCHANGED <<out, current, link, up, down, members, leader, seeder, seeded>>
      /\ UNCHANGED <<baseline, log, md>>
  BY DEF vars, editorVars, linkVars, roomVars
<1>2. /\ Sourced /\ Queues /\ Kept /\ Served /\ Claimed /\ Untouched
      /\ Source' = Source /\ (IsCold' <=> IsCold) /\ (Virgin' <=> Virgin)
  BY <1>1 DEF Sound, Source, IsCold, Virgin
<1>3. Sourced' /\ Queues' /\ Kept' /\ Claimed' /\ Untouched'
  BY <1>1, <1>2 DEF Sourced, Queues, Kept, Room, Claimed, Untouched
<1>4. Served'
  <2> SUFFICES ASSUME NEW d \in Clients, NEW s, s = current[d], s # None, link[s] = "up"
               PROVE  Fed(down[s], Waits(d)', Young(s)', Source)
    BY <1>1, <1>2 DEF Served
  <2>1. (Waits(d)' <=> Waits(d)) /\ (Young(s)' <=> Young(s))
    BY <1>1, <1>2 DEF Waits, Young, IsMember
  <2>2. Fed(down[s], Waits(d), Young(s), Source)
    BY <1>2 DEF Served
  <2> QED
    BY <2>1, <2>2, FedKept
<1> QED
  BY <1>3, <1>4 DEF Sound

LEMMA StepKeep == DocInv /\ ConvInv /\ FileInv /\ KeepInv /\ [Next]_vars => KeepInv'
<1> SUFFICES ASSUME DocInv, ConvInv, FileInv, KeepInv, [Next]_vars, hurt' = {}
             PROVE  Sound'
  BY DEF KeepInv
<1>1. hurt \subseteq hurt'
  <2>1. CASE UNCHANGED vars
    BY <2>1 DEF vars
  <2>2. ASSUME NEW c \in Clients,
               \/ Notice(c) \/ Open(c) \/ Close(c) \/ Type(c) \/ Materialise(c) \/ Compact(c)
               \/ Receive(c) \/ \E s \in Sessions : Connect(c, s)
        PROVE  hurt \subseteq hurt'
    BY <2>2 DEF Notice, Open, Close, Type, Materialise, MaterialiseIf, Compact, Receive,
                ReceiveSeed, ReceiveUpdate, Apply, Receiving, Connect, Dial
  <2>3. ASSUME NEW s \in Sessions, Break(s) \/ HandleJoin(s) \/ HandleLeave(s) \/ HandleSnapshot(s)
        PROVE  hurt \subseteq hurt'
    BY <2>3 DEF Break, HandleJoin, HandleLeave, HandleSnapshot, DocLeave, LeaveTo
  <2>4. ASSUME NEW s \in Sessions, HandleUpdate(s) PROVE hurt \subseteq hurt'
    <3>1. CASE IsMember(s)
      BY <2>4, <3>1, UpdateFacts DEF ConvInv
    <3>2. CASE ~IsMember(s)
      BY <2>4, <3>2 DEF HandleUpdate
    <3> QED
      BY <3>1, <3>2
  <2>5. ASSUME NEW s \in Sessions, EndSession(s) PROVE hurt \subseteq hurt'
    BY <2>5 DEF EndSession, DocLeave, LeaveTo
  <2>6. CASE HubRestart
    BY <2>6 DEF HubRestart
  <2> QED
    BY <2>1, <2>2, <2>3, <2>4, <2>5, <2>6 DEF Next, HubReads
<1>2. Sound
  BY <1>1 DEF KeepInv
<1>3. ASSUME NEW c \in Clients,
             \/ Notice(c) \/ Open(c) \/ Close(c) \/ Type(c) \/ Materialise(c) \/ Compact(c)
             \/ Receive(c) \/ \E s \in Sessions : Connect(c, s)
      PROVE  Sound'
  BY <1>2, <1>3, NoticeSound, OpenSound, CloseSound, TypeSound, MaterialiseSound, CompactSound,
     ReceiveSeedSound, ReceiveUpdateSound, ConnectSound DEF Receive
<1>4. ASSUME NEW s \in Sessions, Break(s) \/ HubReads(s) \/ EndSession(s)
      PROVE  Sound'
  BY <1>2, <1>4, BreakSound, JoinSound, LeaveSound, UpdateSound, SnapshotSound, EndSound
     DEF HubReads
<1>5. CASE HubRestart
  BY <1>2, <1>5, RestartSound
<1>6. CASE UNCHANGED vars
  BY <1>2, <1>6, StutterSound
<1> QED
  BY <1>3, <1>4, <1>5, <1>6 DEF Next

(* Collaborating never takes away the text that a file had before, neither   *)
(* the hub's file nor a client's, as long as every seeder seeds before       *)
(* others edit, every view that stops has had its initial state, and nothing *)
(* is lost: doc_join's replay and doc_update's first update bring it to all. *)
THEOREM FilesKeepText == Spec => []TextSurvives
<1>1. Init => KeepInv
  BY InitSound DEF KeepInv
<1>2. KeepInv => TextSurvives
  BY DEF KeepInv, Sound, Kept, TextSurvives, HubTextSurvives, LocalTextSurvives
<1> QED
  BY <1>1, <1>2, InitDocInv, StepDocInv, InitConv, StepConv, InitFile, StepFile, StepKeep,
     PTL DEF Spec

=============================================================================
