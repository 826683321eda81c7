--------------------------- MODULE DocView_proofs ---------------------------
(* What one view keeps, for every number of files and acts: its types, the  *)
(* text of each document apart from the others', what the user has typed,   *)
(* and, once nothing is under way, the agreement of page, file and room.    *)
EXTENDS DocView, TLAPS

IsDoc(m)    == m.type = "doc"
IsSeed(m)   == m.type = "seed"
IsUpdate(m) == m.type = "update"
IsStop(m)   == m.type = "stopped"
IsSave(m)   == m.type = "save"

DownMsgs ==
    [type : {"doc"}, text : Texts, of : Files]
    \cup [type : {"seed"}, should : BOOLEAN, text : Texts]
    \cup [type : {"update"}, add : Texts, del : Texts] \cup {Stopped}

UpMsgs ==
    {Ready} \cup [type : {"save"}, text : Texts]
    \cup [type : {"update"}, add : Texts, del : Texts]

Held(q) == {q[i] : i \in DOMAIN q}

Channels == down \in Seq(DownMsgs) /\ up \in Seq(UpMsgs)

----------------------------------------------------------------------------
(* The halves.                                                              *)

(* Until the page has connected nothing has been sent to it. *)
Starting == ~jsReady => down = <<>> /\ up = <<Ready>> /\ ~collab /\ ~hasEditor

(* Until a text has come the page has none, and nobody types. *)
Untouched ==
    ~hasEditor => /\ text = {} /\ lastSynced = {} /\ mine = {}
                  /\ ~active /\ ~saveTimer /\ ~matTimer

Solo == ~active => ~ready /\ ~matTimer /\ diskText = {}

Unsaved == ~active /\ text # lastSynced => saveTimer

ReadLast ==
    hurt \cap {"unread", "unseen"} = {} /\ ~changed => qtText = files[path]

Types ==
    /\ files \in [Files -> Texts] /\ room \in Texts /\ seeded \in BOOLEAN
    /\ member \in {"out", "asked", "in"} /\ due \in SUBSET Texts
    /\ path \in Files /\ qtText \in Texts
    /\ changed \in BOOLEAN /\ collab \in BOOLEAN /\ offered \in BOOLEAN
    /\ pending \in BOOLEAN /\ jsReady \in BOOLEAN
    /\ text \in Texts /\ lastSynced \in Texts /\ diskText \in SUBSET Texts
    /\ hasEditor \in BOOLEAN /\ saveTimer \in BOOLEAN /\ active \in BOOLEAN
    /\ ready \in BOOLEAN /\ matTimer \in BOOLEAN
    /\ acts \in 0..MaxActs
    /\ shows \in Files /\ mine \in Texts /\ hurt \in SUBSET Mishaps
    /\ collab <=> member # "out"
    /\ due # {} => member = "in"

Halves == Types /\ Channels /\ Starting /\ Untouched /\ Solo /\ Unsaved /\ ReadLast

----------------------------------------------------------------------------
(* Sessions: what comes down is in order.                                   *)

(* Every session that was begun has been stopped again. *)
Closed(q) == \A i \in DOMAIN q : IsSeed(q[i]) => \E j \in DOMAIN q : i < j /\ IsStop(q[j])

Apart(q) ==
    \A i, j \in DOMAIN q : IsSeed(q[i]) /\ IsSeed(q[j]) /\ i < j =>
        \E k \in DOMAIN q : i < k /\ k < j /\ IsStop(q[k])

(* A page in a session leaves it before it enters the next. *)
Parted(q) == \A j \in DOMAIN q : IsSeed(q[j]) => \E i \in DOMAIN q : i < j /\ IsStop(q[i])

Stops(q) == \E i \in DOMAIN q : IsStop(q[i])

(* Neither an update nor an end between i and j. *)
Still(q, i, j) == \A k \in DOMAIN q : i < k /\ k < j => ~IsUpdate(q[k]) /\ ~IsStop(q[k])

(* At i, or at 0 for the page itself, a cleared editor waits for the room's  *)
(* text, which is the next update.                                           *)
Awaits(i) ==
    \/ i = 0 /\ active /\ ~ready
    \/ i \in DOMAIN down /\ IsSeed(down[i]) /\ ~down[i].should

Awaiting(i) == Awaits(i) /\ Still(down, i, Len(down) + 1)

Sessions ==
    /\ member = "in" \/ Closed(down)
    /\ Apart(down)
    /\ active => Parted(down) /\ (member = "in" \/ Stops(down))

Waits == \E i \in 0..Len(down) : Awaiting(i)

Replaying == (\A t, u \in due : t = u) /\ (due # {} <=> Waits)

Cold == ~seeded => room = {}

----------------------------------------------------------------------------
(* Fragments are numbered in the order in which they are made.              *)

Old(t, n) == \A x \in t : x[2] <= n

OldDown(m, n) ==
    /\ IsDoc(m) => Old(m.text, n)
    /\ IsSeed(m) => Old(m.text, 0)
    /\ IsUpdate(m) => Old(m.add, n) /\ m.del = {}

OldUp(m, n) ==
    /\ IsSave(m) => Old(m.text, n)
    /\ IsUpdate(m) => Old(m.add, n) /\ Old(m.del, n) /\ m.add \cap m.del = {}

TextsOld(n) ==
    /\ \A f \in Files : Old(files[f], n)
    /\ Old(room, n) /\ Old(qtText, n) /\ Old(text, n) /\ Old(lastSynced, n) /\ Old(mine, n)
    /\ \A t \in diskText \cup due : Old(t, n)

DownsOld(n) == \A m \in Held(down) : OldDown(m, n)
UpsOld(n)   == \A m \in Held(up) : OldUp(m, n)

Numbered == TextsOld(acts) /\ DownsOld(acts) /\ UpsOld(acts)

----------------------------------------------------------------------------
(* Every text is its document's own.                                        *)

Of(t, f) == \A x \in t : x[1] = f

OfDown(m, f) ==
    /\ IsDoc(m) => Of(m.text, m.of)
    /\ IsSeed(m) => Of(m.text, Readme)
    /\ IsUpdate(m) => Of(m.add, Readme)
    /\ ~IsDoc(m) => f = Readme

OfUp(m, f) ==
    /\ IsSave(m) => Of(m.text, f)
    /\ IsUpdate(m) => Of(m.add, Readme)

OwnTexts ==
    /\ OwnText /\ Of(room, Readme) /\ Of(qtText, path)
    /\ Of(text, shows) /\ Of(lastSynced, shows)
    /\ \A t \in diskText \cup due : Of(t, Readme)
    /\ text # lastSynced \/ active => shows = path
    /\ active \/ collab => path = Readme

DownsOwn == \A m \in Held(down) : OfDown(m, path)
UpsOwn   == \A m \in Held(up) : OfUp(m, path)

Owned == OwnTexts /\ DownsOwn /\ UpsOwn

Foreign(m) == IsDoc(m) /\ m.of # path

(* The open document is announced at i, after all that belongs to others. *)
Announced(i) ==
    /\ i \in DOMAIN down /\ IsDoc(down[i]) /\ down[i].of = path
    /\ \A j \in 1..i : IsDoc(down[j])
    /\ \A j \in DOMAIN down : i < j => ~Foreign(down[j])

(* While another document is on its way the page is at rest. *)
Passing ==
    Switching => /\ text = lastSynced /\ ~active
                 /\ Held(up) \subseteq {Ready}
                 /\ jsReady => \E i \in DOMAIN down : Announced(i)

Clean == hurt \cap {"switched", "wrongroom"} = {}

OwnInv == Clean => Owned /\ Passing

----------------------------------------------------------------------------
(* What the user has typed.                                                 *)

(* The page says once that it is connected. *)
Connected == jsReady => Ready \notin Held(up)

Saves(i) == i \in DOMAIN up /\ IsSave(up[i])
NoSave   == \A m \in Held(up) : ~IsSave(m)
LastSave(i) == Saves(i) /\ \A j \in DOMAIN up : i < j => ~IsSave(up[j])

(* Its file has it, or will have it when all saves have landed. *)
Stored(e) == IF e[1] = path /\ ~NoSave
             THEN \E i \in DOMAIN up : LastSave(i) /\ e \in up[i].text
             ELSE e \in files[e[1]]

(* It comes with the room's text to the editor that waits for it at i. *)
Pending(e, i) ==
    /\ \A k \in DOMAIN down : i < k /\ IsUpdate(down[k]) /\ Still(down, i, k) => e \in down[k].add
    /\ Still(down, i, Len(down) + 1) => \A t \in due : e \in t

Where(e) ==
    \/ e \in text
    \/ e[1] # shows /\ e \in files[e[1]]
    \/ active /\ ~ready /\ e[1] = Readme /\ Stored(e) /\ Pending(e, 0)

Replayed(e) ==
    \A i \in DOMAIN down : IsSeed(down[i]) /\ ~down[i].should /\ e \in room => Pending(e, i)

Lacks(m, e) == IsDoc(m) /\ m.of = e[1] /\ e \notin m.text

(* A text without it comes, if at all, while the page still has it. *)
Turning(e) ==
    Switching => \A i \in DOMAIN down : Lacks(down[i], e) =>
        /\ shows = e[1] /\ e \in text
        /\ \E j \in 1..i : Lacks(down[j], e) /\ \A k \in 1..j : IsDoc(down[k]) /\ down[k].of = e[1]

Kept(e) ==
    /\ Where(e)
    /\ e \in lastSynced => Stored(e)
    /\ ~active /\ e \in room => Stored(e)
    /\ Turning(e) /\ Replayed(e)

KeptInv == hurt = {} => \A e \in mine : Kept(e)

----------------------------------------------------------------------------
(* The file.                                                                *)

(* The last text that comes down is the file's. *)
Told(i) == down[i] = Doc(path, files[path]) /\ \A j \in DOMAIN down : i < j => ~IsDoc(down[j])

Agrees ==
    \/ saveTimer \/ text = files[path]
    \/ active /\ (~ready \/ matTimer \/ diskText = {files[path]})

Coming == \E i \in DOMAIN down : Told(i)
NoDoc  == \A i \in DOMAIN down : ~IsDoc(down[i])

Follows == jsReady /\ ~changed /\ NoSave => Coming \/ (NoDoc /\ Agrees)

Unharmed == hurt \cap {"undone", "unwritten", "unsaved", "unread", "unseen"} = {}

FileInv == Unharmed => Follows

----------------------------------------------------------------------------
(* The room.                                                                *)

(* x is in the room once it has all updates of the page. *)
Later(x) ==
    /\ \/ x \in room
       \/ \E i \in DOMAIN up : IsUpdate(up[i]) /\ x \in up[i].add
    /\ \A i \in DOMAIN up : IsUpdate(up[i]) /\ x \in up[i].del =>
          \E j \in DOMAIN up : i < j /\ IsUpdate(up[j]) /\ x \in up[j].add

(* x comes down after i. *)
Falls(x, i) == \E k \in DOMAIN down : i < k /\ IsUpdate(down[k]) /\ x \in down[k].add
Due(x)      == \E t \in due : x \in t
Comes(x, i) == Falls(x, i) \/ Due(x)

(* The page may have had x, or have x soon without its coming from the room. *)
Seen(x) ==
    \/ x[2] = 0 \/ x \in text \/ x \in lastSynced \/ x \in qtText
    \/ \E t \in diskText : x \in t
    \/ \E f \in Files : x \in files[f]
    \/ \E m \in Held(up) : IsSave(m) /\ x \in m.text
    \/ \E m \in Held(down) : IsDoc(m) /\ x \in m.text

(* What a peer has put in since the page joined. *)
News(k) == IsUpdate(down[k]) /\ \A i \in 0..(k - 1) : Awaits(i) => ~Still(down, i, k)

Fresh == \A k \in DOMAIN down : News(k) => \A x \in down[k].add :
    ~Seen(x) /\ \A j \in 1..(k - 1) : ~(IsUpdate(down[j]) /\ x \in down[j].add)

(* A cleared editor has nothing of the room. *)
Cleared ==
    active /\ ~ready => \A x \in text :
       /\ \A k \in DOMAIN down : IsUpdate(down[k]) /\ Still(down, 0, k) => x \notin down[k].add
       /\ Still(down, 0, Len(down) + 1) => \A t \in due : x \notin t

Shared == InSession => \A x \in Fragments : Later(x) <=> x \in text \/ Comes(x, 0)

Offered ==
    \A i \in DOMAIN down : IsSeed(down[i]) /\ (\A j \in DOMAIN down : i < j => ~IsStop(down[j])) =>
        \A x \in Fragments : x \in room <=> Comes(x, i)

Undisturbed == hurt \cap {"straggler", "doubled"} = {}

RoomInv == Fresh /\ (Undisturbed => Cleared /\ Shared /\ Offered)

----------------------------------------------------------------------------
(* Values.                                                                  *)

LEMMA ChangesFacts ==
    ASSUME acts \in 0..MaxActs, acts < MaxActs, NEW f \in Files, NEW t \in Texts,
           NEW new \in Changes(t, f)
    PROVE  /\ new \in Texts
           /\ \A x \in new : x \in t \/ x = <<f, acts + 1>>
<1>1. <<f, acts + 1>> \in Fragments
  BY ViewAssumption DEF Fragments
<1> QED
  BY <1>1 DEF Changes, Texts

LEMMA DownFacts ==
    /\ \A f \in Files, t \in Texts :
          /\ Doc(f, t) \in DownMsgs /\ IsDoc(Doc(f, t))
          /\ ~IsSeed(Doc(f, t)) /\ ~IsUpdate(Doc(f, t)) /\ ~IsStop(Doc(f, t))
          /\ Doc(f, t).text = t /\ Doc(f, t).of = f
    /\ \A should \in BOOLEAN, t \in Texts :
          /\ Seed(should, t) \in DownMsgs /\ IsSeed(Seed(should, t))
          /\ ~IsDoc(Seed(should, t)) /\ ~IsUpdate(Seed(should, t)) /\ ~IsStop(Seed(should, t))
          /\ Seed(should, t).text = t /\ Seed(should, t).should = should
    /\ \A t \in Texts :
          /\ Update({}, t) \in DownMsgs /\ IsUpdate(Update({}, t))
          /\ ~IsDoc(Update({}, t)) /\ ~IsSeed(Update({}, t)) /\ ~IsStop(Update({}, t))
          /\ Update({}, t).add = t /\ Update({}, t).del = {}
    /\ Stopped \in DownMsgs /\ IsStop(Stopped)
    /\ ~IsDoc(Stopped) /\ ~IsSeed(Stopped) /\ ~IsUpdate(Stopped)
<1>1. ASSUME NEW f \in Files, NEW t \in Texts
      PROVE  /\ Doc(f, t) \in DownMsgs /\ IsDoc(Doc(f, t))
             /\ ~IsSeed(Doc(f, t)) /\ ~IsUpdate(Doc(f, t)) /\ ~IsStop(Doc(f, t))
             /\ Doc(f, t).text = t /\ Doc(f, t).of = f
  BY DEF Doc, DownMsgs, IsDoc, IsSeed, IsUpdate, IsStop
<1>2. ASSUME NEW should \in BOOLEAN, NEW t \in Texts
      PROVE  /\ Seed(should, t) \in DownMsgs /\ IsSeed(Seed(should, t))
             /\ ~IsDoc(Seed(should, t)) /\ ~IsUpdate(Seed(should, t)) /\ ~IsStop(Seed(should, t))
             /\ Seed(should, t).text = t /\ Seed(should, t).should = should
  BY DEF Seed, DownMsgs, IsDoc, IsSeed, IsUpdate, IsStop
<1>3. ASSUME NEW t \in Texts
      PROVE  /\ Update({}, t) \in DownMsgs /\ IsUpdate(Update({}, t))
             /\ ~IsDoc(Update({}, t)) /\ ~IsSeed(Update({}, t)) /\ ~IsStop(Update({}, t))
             /\ Update({}, t).add = t /\ Update({}, t).del = {}
  <2>1. t \ {} = t /\ {} \ t = {} /\ {} \in Texts
    BY DEF Texts
  <2> QED
    BY <2>1 DEF Update, DownMsgs, IsDoc, IsSeed, IsUpdate, IsStop
<1>4. /\ Stopped \in DownMsgs /\ IsStop(Stopped)
      /\ ~IsDoc(Stopped) /\ ~IsSeed(Stopped) /\ ~IsUpdate(Stopped)
  BY DEF Stopped, DownMsgs, IsDoc, IsSeed, IsUpdate, IsStop
<1> QED
  BY <1>1, <1>2, <1>3, <1>4

LEMMA UpFacts ==
    /\ \A t \in Texts : /\ Save(t) \in UpMsgs /\ IsSave(Save(t)) /\ ~IsUpdate(Save(t))
                        /\ Save(t).text = t /\ Save(t) # Ready
    /\ \A t, u \in Texts :
          /\ Update(t, u) \in UpMsgs /\ IsUpdate(Update(t, u)) /\ ~IsSave(Update(t, u))
          /\ Update(t, u).add = u \ t /\ Update(t, u).del = t \ u /\ Update(t, u) # Ready
    /\ Ready \in UpMsgs /\ ~IsSave(Ready) /\ ~IsUpdate(Ready) /\ Ready.type = "ready"
<1>1. \A t \in Texts : /\ Save(t) \in UpMsgs /\ IsSave(Save(t)) /\ ~IsUpdate(Save(t))
                       /\ Save(t).text = t /\ Save(t) # Ready
  BY DEF Save, Ready, UpMsgs, IsSave, IsUpdate
<1>2. ASSUME NEW t \in Texts, NEW u \in Texts
      PROVE  /\ Update(t, u) \in UpMsgs /\ IsUpdate(Update(t, u)) /\ ~IsSave(Update(t, u))
             /\ Update(t, u).add = u \ t /\ Update(t, u).del = t \ u /\ Update(t, u) # Ready
  <2>1. t \ u \in Texts /\ u \ t \in Texts
    BY DEF Texts
  <2> QED
    BY <2>1 DEF Update, Ready, UpMsgs, IsSave, IsUpdate
<1>3. Ready \in UpMsgs /\ ~IsSave(Ready) /\ ~IsUpdate(Ready) /\ Ready.type = "ready"
  BY DEF Ready, UpMsgs, IsSave, IsUpdate
<1> QED
  BY <1>1, <1>2, <1>3

LEMMA DownType ==
    ASSUME NEW m \in DownMsgs
    PROVE  /\ IsDoc(m) => m.text \in Texts /\ m.of \in Files
           /\ IsSeed(m) => m.text \in Texts /\ m.should \in BOOLEAN
           /\ IsUpdate(m) => m.add \in Texts /\ m.del \in Texts
           /\ m.type \in {"doc", "seed", "update", "stopped"}
           /\ m \in Messages
  BY DEF DownMsgs, Messages, IsDoc, IsSeed, IsUpdate, Stopped

LEMMA UpType ==
    ASSUME NEW m \in UpMsgs
    PROVE  /\ IsSave(m) => m.text \in Texts
           /\ IsUpdate(m) => m.add \in Texts /\ m.del \in Texts
           /\ m.type = "ready" => m = Ready
           /\ m.type \in {"ready", "save", "update"}
           /\ m \in Messages
  BY DEF UpMsgs, Messages, IsSave, IsUpdate, Ready

LEMMA TailFacts ==
    ASSUME NEW S, NEW q \in Seq(S), q # <<>>
    PROVE  /\ Tail(q) \in Seq(S) /\ Len(Tail(q)) = Len(q) - 1 /\ Len(q) \in Nat \ {0}
           /\ DOMAIN q = 1..Len(q) /\ DOMAIN Tail(q) = 1..(Len(q) - 1)
           /\ 1 \in DOMAIN q /\ Head(q) = q[1] /\ q[1] \in S
           /\ \A i \in DOMAIN Tail(q) : i + 1 \in DOMAIN q /\ Tail(q)[i] = q[i + 1]
           /\ \A i \in DOMAIN q : i = 1 \/ (i - 1 \in DOMAIN Tail(q) /\ Tail(q)[i - 1] = q[i])
  OBVIOUS

LEMMA AppendFacts ==
    ASSUME NEW S, NEW q \in Seq(S), NEW m \in S
    PROVE  /\ Append(q, m) \in Seq(S) /\ Len(Append(q, m)) = Len(q) + 1 /\ Len(q) \in Nat
           /\ DOMAIN q = 1..Len(q) /\ DOMAIN Append(q, m) = DOMAIN q \cup {Len(q) + 1}
           /\ Append(q, m)[Len(q) + 1] = m
           /\ \A i \in DOMAIN q : Append(q, m)[i] = q[i]
           /\ Append(q, m) # <<>>
  OBVIOUS

LEMMA ConcatFacts ==
    ASSUME NEW S, NEW q \in Seq(S)
    PROVE  /\ q \o <<>> = q
           /\ \A m \in S : q \o <<m>> = Append(q, m)
           /\ \A m, n \in S : q \o <<m, n>> = Append(Append(q, m), n)
<1>1. q \o <<>> = q
  OBVIOUS
<1>2. \A m \in S : q \o <<m>> = Append(q, m)
  OBVIOUS
<1>3. ASSUME NEW m \in S, NEW n \in S
      PROVE  q \o <<m, n>> = Append(Append(q, m), n)
  OBVIOUS
<1> QED
  BY <1>1, <1>2, <1>3

LEMMA HalvesType == Halves => TypeOK
<1> SUFFICES ASSUME Halves PROVE TypeOK
  OBVIOUS
<1>1. DownMsgs \subseteq Messages /\ UpMsgs \subseteq Messages
  BY DownType, UpType
<1>2. down \in Seq(Messages) /\ up \in Seq(Messages)
  BY <1>1 DEF Halves, Channels
<1> QED
  BY <1>2 DEF Halves, Types, Starting, TypeOK

LEMMA InitHalves == Init => Halves
<1> SUFFICES ASSUME Init PROVE Halves
  OBVIOUS
<1>1. {<<Readme, 0>>} \in Texts /\ {} \in Texts /\ \A f \in Files : {<<f, 0>>} \in Texts
  BY ViewAssumption DEF Texts, Fragments
<1>2. Types
  <2>1. files \in [Files -> Texts] /\ room \in Texts /\ qtText \in Texts
    BY <1>1 DEF Init
  <2>2. /\ acts \in 0..MaxActs /\ due \in SUBSET Texts /\ diskText \in SUBSET Texts
        /\ text \in Texts /\ lastSynced \in Texts /\ mine \in Texts
    BY <1>1, ViewAssumption DEF Init
  <2>3. path \in Files /\ shows \in Files /\ hurt \in SUBSET Mishaps /\ seeded \in BOOLEAN
    BY ViewAssumption DEF Init
  <2> QED
    BY <2>1, <2>2, <2>3 DEF Init, Types
<1>3. Channels
  BY UpFacts DEF Init, Channels
<1> QED
  BY <1>2, <1>3, ViewAssumption DEF Init, Halves, Starting, Untouched, Solo, Unsaved, ReadLast

LEMMA TextsClosed ==
    /\ {} \in Texts
    /\ \A t, u \in Texts : t \cup u \in Texts /\ t \cap u \in Texts /\ t \ u \in Texts
  BY DEF Texts

LEMMA BudgetFacts ==
    ASSUME acts \in 0..MaxActs, Budget
    PROVE  acts < MaxActs /\ acts' = acts + 1 /\ acts' \in 0..MaxActs /\ acts \in Nat
  BY ViewAssumption DEF Budget

LEMMA SingleText == \A f \in Files, k \in 0..MaxActs : {<<f, k>>} \in Texts
  BY DEF Texts, Fragments

LEMMA FirstText == {<<Readme, 0>>} \in Texts /\ Readme \in Files
  BY SingleText, ViewAssumption

----------------------------------------------------------------------------
(* Steps of the halves.                                                     *)

LEMMA SendType ==
    ASSUME up \in Seq(UpMsgs), NEW m \in UpMsgs, Send(<<m>>)
    PROVE  up' = Append(up, m) /\ up' \in Seq(UpMsgs)
  BY ConcatFacts, AppendFacts DEF Send

LEMMA EmitType ==
    ASSUME down \in Seq(DownMsgs)
    PROVE  /\ \A m \in DownMsgs : Emit(<<m>>) =>
                 /\ down' = IF jsReady THEN Append(down, m) ELSE down
                 /\ down' \in Seq(DownMsgs)
           /\ \A m, n \in DownMsgs : Emit(<<m, n>>) =>
                 /\ down' = IF jsReady THEN Append(Append(down, m), n) ELSE down
                 /\ down' \in Seq(DownMsgs)
  BY ConcatFacts, AppendFacts, SMTT(30) DEF Emit

LEMMA ReceivingType ==
    ASSUME down \in Seq(DownMsgs), NEW type, Receiving(type)
    PROVE  /\ down # <<>> /\ down' = Tail(down) /\ down' \in Seq(DownMsgs)
           /\ Head(down) = down[1] /\ Head(down) \in DownMsgs /\ Head(down).type = type
  BY TailFacts DEF Receiving

LEMMA HandlingType ==
    ASSUME up \in Seq(UpMsgs), NEW type, Handling(type)
    PROVE  /\ up # <<>> /\ up' = Tail(up) /\ up' \in Seq(UpMsgs)
           /\ Head(up) = up[1] /\ Head(up) \in UpMsgs /\ Head(up).type = type
  BY TailFacts DEF Handling

LEMMA SaveTimerHalves ==
    ASSUME Halves, SaveTimer
    PROVE  Halves'
<1>1. Channels'
  BY SendType, UpFacts
    DEF Halves, Channels, Types, SaveTimer, diskVars, qtVars, pageVars, history, Mishaps
<1>2. Types'
  BY ZenonT(30) DEF Halves, Types, SaveTimer, diskVars, qtVars, pageVars, history, Mishaps
<1>3. Starting' /\ Untouched' /\ Solo' /\ Unsaved' /\ ReadLast'
  BY DEF Halves, Types, Starting, Untouched, Solo, Unsaved, ReadLast, SaveTimer, diskVars,
       qtVars, pageVars, history, Mishaps
<1> QED
  BY <1>1, <1>2, <1>3 DEF Halves

LEMMA MaterialiseTimerHalves ==
    ASSUME Halves, MaterialiseTimer
    PROVE  Halves'
<1>1. Channels'
  BY SendType, UpFacts
    DEF Halves, Channels, Types, MaterialiseTimer, diskVars, qtVars, pageVars, history, Mishaps
<1>2. Types'
  BY ZenonT(30) DEF Halves, Types, MaterialiseTimer, diskVars, qtVars, pageVars, history, Mishaps
<1>3. Starting' /\ Untouched' /\ Solo' /\ Unsaved' /\ ReadLast'
  BY DEF Halves, Types, Starting, Untouched, Solo, Unsaved, ReadLast, MaterialiseTimer,
       diskVars, qtVars, pageVars, history, Mishaps
<1> QED
  BY <1>1, <1>2, <1>3 DEF Halves

LEMMA UserEditsHalves ==
    ASSUME Halves, UserEdits
    PROVE  Halves'
<1>1. Channels'
  BY SendType, UpFacts, ChangesFacts DEF Halves, Channels, Types, UserEdits, diskVars, qtVars,
       pageVars, history, Mishaps, ChangeEditor, Budget
<1>2. Types'
  <2>1. PICK new \in Changes(text, shows) :
            /\ ChangeEditor(new) /\ mine' = (mine \cap new) \cup (new \ text)
    BY DEF UserEdits
  <2>2. new \in Texts /\ mine' \in Texts
    BY <2>1, BudgetFacts, ChangesFacts, TextsClosed DEF Halves, Types, UserEdits
  <2> QED
    BY <2>1, <2>2, BudgetFacts
    DEF Halves, Types, UserEdits, ChangeEditor, diskVars, qtVars, pageVars, history, Mishaps
<1>3. Starting' /\ Untouched' /\ Solo' /\ Unsaved' /\ ReadLast'
  BY DEF Halves, Types, Starting, Untouched, Solo, Unsaved, ReadLast, UserEdits, diskVars,
       qtVars, pageVars, history, Mishaps, ChangeEditor, Budget
<1> QED
  BY <1>1, <1>2, <1>3 DEF Halves

LEMMA ReloadFromDiskHalves ==
    ASSUME Halves, ReloadFromDisk
    PROVE  Halves'
<1>1. Channels'
  BY SendType, UpFacts DEF Halves, Channels, Types, ReloadFromDisk, diskVars, qtVars, pageVars,
       history, Mishaps, ChangeEditor, Budget
<1>2. Types'
  <2>1. PICK t \in diskText :
            /\ IF t # text THEN ChangeEditor(t) ELSE UNCHANGED <<text, matTimer, saveTimer, up>>
            /\ mine' = mine \cap t
    BY DEF ReloadFromDisk
  <2>2. t \in Texts /\ mine' \in Texts
    BY <2>1, TextsClosed DEF Halves, Types
  <2> QED
    BY <2>1, <2>2, BudgetFacts, ZenonT(30)
    DEF Halves, Types, ReloadFromDisk, ChangeEditor, diskVars, qtVars, pageVars, history, Mishaps
<1>3. Starting' /\ Untouched' /\ Solo' /\ Unsaved' /\ ReadLast'
  BY DEF Halves, Types, Starting, Untouched, Solo, Unsaved, ReadLast, ReloadFromDisk, diskVars,
       qtVars, pageVars, history, Mishaps, ChangeEditor, Budget
<1> QED
  BY <1>1, <1>2, <1>3 DEF Halves

LEMMA OfferDiskHalves ==
    ASSUME Halves, OfferDisk
    PROVE  Halves'
<1>1. Channels'
  BY ReceivingType
    DEF Halves, Channels, Types, OfferDisk, diskVars, qtVars, pageVars, history, Mishaps
<1>2. Types'
  BY ReceivingType, DownType
    DEF Halves, Types, OfferDisk, diskVars, qtVars, pageVars, history, Mishaps, Channels, IsDoc
<1>3. Starting' /\ Untouched' /\ Solo' /\ Unsaved' /\ ReadLast'
  BY ReceivingType DEF Halves, Types, Starting, Untouched, Solo, Unsaved, ReadLast, OfferDisk,
       diskVars, qtVars, pageVars, history, Mishaps, Channels
<1> QED
  BY <1>1, <1>2, <1>3 DEF Halves

LEMMA TakeDiskHalves ==
    ASSUME Halves, TakeDisk
    PROVE  Halves'
<1>1. Channels'
  BY ReceivingType
    DEF Halves, Channels, Types, TakeDisk, diskVars, qtVars, pageVars, history, Mishaps, TakeIf
<1>2. Types'
  <2>1. Head(down).text \in Texts /\ Head(down).of \in Files
    BY ReceivingType, DownType DEF TakeDisk, TakeIf, Halves, Channels, IsDoc
  <2> QED
    BY <2>1, ZenonT(30)
      DEF Halves, Types, TakeDisk, TakeIf, diskVars, qtVars, pageVars, history, Mishaps
<1>3. Starting' /\ Untouched' /\ Solo' /\ Unsaved' /\ ReadLast'
  BY ReceivingType DEF Halves, Types, Starting, Untouched, Solo, Unsaved, ReadLast, TakeDisk,
       diskVars, qtVars, pageVars, history, Mishaps, TakeIf, Channels
<1> QED
  BY <1>1, <1>2, <1>3 DEF Halves

LEMMA ReceiveUpdateHalves ==
    ASSUME Halves, ReceiveUpdate
    PROVE  Halves'
<1>1. Channels'
  BY ReceivingType
    DEF Halves, Channels, Types, ReceiveUpdate, diskVars, qtVars, pageVars, history, Mishaps
<1>2. Types'
  <2>1. Apply(text, Head(down)) \in Texts
    BY ReceivingType, DownType, TextsClosed
    DEF ReceiveUpdate, Halves, Types, Channels, IsUpdate, Apply
  <2> QED
    BY <2>1, ZenonT(30)
      DEF Halves, Types, ReceiveUpdate, diskVars, qtVars, pageVars, history, Mishaps
<1>3. Starting' /\ Untouched' /\ Solo' /\ Unsaved' /\ ReadLast'
  BY ReceivingType DEF Halves, Types, Starting, Untouched, Solo, Unsaved, ReadLast,
       ReceiveUpdate, diskVars, qtVars, pageVars, history, Mishaps, Channels
<1> QED
  BY <1>1, <1>2, <1>3 DEF Halves

LEMMA LeaveCollabHalves ==
    ASSUME Halves, LeaveCollab
    PROVE  Halves'
<1>1. Channels'
  BY ReceivingType, SendType, UpFacts DEF Halves, Channels, Types, LeaveCollab, diskVars,
       qtVars, pageVars, history, Mishaps, LeaveWith
<1>2. Types'
  BY ZenonT(30)
    DEF Halves, Types, LeaveCollab, diskVars, qtVars, pageVars, history, Mishaps, LeaveWith
<1>3. Starting' /\ Untouched' /\ Solo' /\ Unsaved' /\ ReadLast'
  BY ReceivingType DEF Halves, Types, Starting, Untouched, Solo, Unsaved, ReadLast,
       LeaveCollab, diskVars, qtVars, pageVars, history, Mishaps, Channels, LeaveWith
<1> QED
  BY <1>1, <1>2, <1>3 DEF Halves

LEMMA EnterCollabHalves ==
    ASSUME Halves, EnterCollab
    PROVE  Halves'
<1>1. Channels'
  BY ReceivingType, SendType, UpFacts, DownType DEF Halves, Channels, Types, EnterCollab,
       diskVars, qtVars, pageVars, history, Mishaps, IsSeed, Texts
<1>2. Types'
  <2>1. Head(down).text \in Texts /\ Head(down).should \in BOOLEAN
    BY ReceivingType, DownType DEF EnterCollab, Halves, Channels, IsSeed
  <2>2. /\ text' \in Texts /\ hurt' \in SUBSET Mishaps /\ shows' \in Files
        /\ hasEditor' \in BOOLEAN /\ active' \in BOOLEAN /\ ready' \in BOOLEAN
        /\ matTimer' \in BOOLEAN
    BY <2>1, TextsClosed, ViewAssumption DEF Halves, Types, EnterCollab, pageVars, Mishaps
  <2> QED
    BY <2>2 DEF Halves, Types, EnterCollab, diskVars, qtVars, pageVars
<1>3. Starting' /\ Untouched' /\ Solo' /\ Unsaved' /\ ReadLast'
  BY ReceivingType DEF Halves, Types, Starting, Untouched, Solo, Unsaved, ReadLast,
       EnterCollab, diskVars, qtVars, pageVars, history, Mishaps, Channels
<1> QED
  BY <1>1, <1>2, <1>3 DEF Halves

LEMMA ToggleOnHalves ==
    ASSUME Halves, ToggleOn
    PROVE  Halves'
<1>1. Channels'
  BY UpFacts DEF Halves, Channels, Types, ToggleOn, diskVars, qtVars, pageVars, history,
       Mishaps, ToggleOnIf, StartCollab
<1>2. Types'
  BY BudgetFacts DEF Halves, Types, ToggleOn, diskVars, qtVars, pageVars, history, Mishaps,
       ToggleOnIf, StartCollab, Budget
<1>3. Starting' /\ Untouched' /\ Solo' /\ Unsaved' /\ ReadLast'
  BY DEF Halves, Types, Starting, Untouched, Solo, Unsaved, ReadLast, ToggleOn, diskVars,
       qtVars, pageVars, history, Mishaps, ToggleOnIf, StartCollab
<1> QED
  BY <1>1, <1>2, <1>3 DEF Halves

LEMMA ToggleOffHalves ==
    ASSUME Halves, ToggleOff
    PROVE  Halves'
<1>1. Channels'
  BY EmitType, DownFacts DEF Halves, Channels, Types, ToggleOff, diskVars, qtVars, pageVars,
       history, Mishaps, StopCollab
<1>2. Types'
  BY DEF Halves, Types, ToggleOff, diskVars, qtVars, pageVars, history, Mishaps, StopCollab
<1>3. Starting' /\ Untouched' /\ Solo' /\ Unsaved' /\ ReadLast'
  BY DEF Halves, Types, Starting, Untouched, Solo, Unsaved, ReadLast, ToggleOff, diskVars,
       qtVars, pageVars, history, Mishaps, StopCollab, Emit
<1> QED
  BY <1>1, <1>2, <1>3 DEF Halves

LEMMA RetargetHalves ==
    ASSUME Halves, Retarget
    PROVE  Halves'
<1>1. Channels'
  BY EmitType, DownFacts DEF Halves, Channels, Types, Retarget, diskVars, qtVars, pageVars,
       history, Mishaps, StopCollab
<1>2. Types'
  BY ZenonT(30)
    DEF Halves, Types, Retarget, diskVars, qtVars, pageVars, history, Mishaps, StopCollab
<1>3. Starting' /\ Untouched' /\ Solo' /\ Unsaved' /\ ReadLast'
  BY DEF Halves, Types, Starting, Untouched, Solo, Unsaved, ReadLast, Retarget, diskVars,
       qtVars, pageVars, history, Mishaps, StopCollab, Emit
<1> QED
  BY <1>1, <1>2, <1>3 DEF Halves

LEMMA ReadAgainHalves ==
    ASSUME Halves, ReadAgain
    PROVE  Halves'
<1>1. Channels'
  BY EmitType, DownFacts
    DEF Halves, Channels, Types, ReadAgain, Reading, diskVars, qtVars, pageVars, history, Mishaps
<1>2. Types'
  BY ZenonT(30) DEF Halves, Types, ReadAgain, Reading, diskVars, qtVars, pageVars, history, Mishaps
<1>3. Starting' /\ Untouched' /\ Solo' /\ Unsaved' /\ ReadLast'
  BY DEF Halves, Types, Starting, Untouched, Solo, Unsaved, ReadLast, ReadAgain, Reading,
       diskVars, qtVars, pageVars, history, Mishaps, Emit
<1> QED
  BY <1>1, <1>2, <1>3 DEF Halves

LEMMA ReadNothingHalves ==
    ASSUME Halves, ReadNothing
    PROVE  Halves'
<1>0. {} \in Texts /\ Doc(path, {}) \in DownMsgs
  BY DownFacts DEF Halves, Types, Texts
<1>1. Channels'
  BY <1>0, EmitType DEF Halves, Channels, ReadNothing, Reading
<1>2. Types'
  BY <1>0, BudgetFacts, ZenonT(30)
    DEF Halves, Types, ReadNothing, Reading, pageVars, Mishaps
<1>3. Starting' /\ Untouched' /\ Solo' /\ Unsaved' /\ ReadLast'
  BY DEF Halves, Types, Starting, Untouched, Solo, Unsaved, ReadLast, ReadNothing, Reading,
       pageVars, Emit
<1> QED
  BY <1>1, <1>2, <1>3 DEF Halves

LEMMA ReplaceTypes ==
    ASSUME Halves, Replace
    PROVE  files' \in [Files -> Texts] /\ mine' \in Texts /\ mine' \subseteq mine
<1>1. PICK new \in Changes(files[path], path) :
          /\ files' = [files EXCEPT ![path] = new] /\ mine' = mine \ (files[path] \ new)
  BY DEF Replace
<1>2. files[path] \in Texts
  BY DEF Halves, Types
<1>3. new \in Texts
  BY <1>1, <1>2, BudgetFacts, ChangesFacts DEF Halves, Types, Replace
<1> QED
  BY <1>1, <1>2, <1>3, TextsClosed DEF Halves, Types

LEMMA ReadBeforeHalves ==
    ASSUME Halves, ReadBefore
    PROVE  Halves'
<1>0. files[path] \in Texts /\ Doc(path, files[path]) \in DownMsgs
  BY DownFacts DEF Halves, Types
<1>1. Channels'
  BY <1>0, EmitType DEF Halves, Channels, ReadBefore, Reading
<1>2. Types'
  BY <1>0, BudgetFacts, ReplaceTypes, ZenonT(30)
    DEF Halves, Types, ReadBefore, Reading, Replace, pageVars, Mishaps
<1>3. Starting' /\ Untouched' /\ Solo' /\ Unsaved' /\ ReadLast'
  BY ReplaceTypes DEF Halves, Types, Starting, Untouched, Solo, Unsaved, ReadLast, ReadBefore,
       Reading, pageVars, Emit
<1> QED
  BY <1>1, <1>2, <1>3 DEF Halves

LEMMA HandleReadyHalves ==
    ASSUME Halves, HandleReady
    PROVE  Halves'
<1>1. Channels'
  BY HandlingType, DownFacts, AppendFacts
    DEF Halves, Channels, Types, HandleReady, diskVars, qtVars, pageVars, history, Mishaps
<1>2. Types'
  BY ZenonT(30)
    DEF Halves, Types, HandleReady, diskVars, qtVars, pageVars, history, Mishaps, StartCollab
<1>3. Starting' /\ Untouched' /\ Solo' /\ Unsaved' /\ ReadLast'
  BY DEF Halves, Types, Starting, Untouched, Solo, Unsaved, ReadLast, HandleReady, diskVars,
       qtVars, pageVars, history, Mishaps, StartCollab
<1> QED
  BY <1>1, <1>2, <1>3 DEF Halves

LEMMA WriteHalves ==
    ASSUME Halves, Write
    PROVE  Halves'
<1>1. Channels'
  BY HandlingType
    DEF Halves, Channels, Types, Write, diskVars, qtVars, pageVars, history, Mishaps
<1>2. Types'
  BY HandlingType, UpType
    DEF Halves, Types, Write, diskVars, qtVars, pageVars, history, Mishaps, Channels, IsSave
<1>3. Starting' /\ Untouched' /\ Solo' /\ Unsaved' /\ ReadLast'
  BY HandlingType, UpFacts DEF Halves, Types, Starting, Untouched, Solo, Unsaved, ReadLast,
       Write, diskVars, qtVars, pageVars, history, Mishaps, Channels
<1> QED
  BY <1>1, <1>2, <1>3 DEF Halves

LEMMA WriteFailsHalves ==
    ASSUME Halves, WriteFails
    PROVE  Halves'
<1>1. Channels'
  BY HandlingType DEF Halves, Channels, WriteFails
<1>2. Types'
  BY BudgetFacts, ZenonT(30)
    DEF Halves, Types, WriteFails, diskVars, qtVars, pageVars, Mishaps
<1>3. Starting' /\ Untouched' /\ Solo' /\ Unsaved' /\ ReadLast'
  BY HandlingType, UpFacts DEF Halves, Types, Starting, Untouched, Solo, Unsaved, ReadLast,
       WriteFails, diskVars, qtVars, pageVars, Channels
<1> QED
  BY <1>1, <1>2, <1>3 DEF Halves

LEMMA HandleUpdateHalves ==
    ASSUME Halves, HandleUpdate
    PROVE  Halves'
<1>1. Channels'
  BY HandlingType
    DEF Halves, Channels, Types, HandleUpdate, diskVars, qtVars, pageVars, history, Mishaps
<1>2. Types'
  <2>1. Apply(room, Head(up)) \in Texts
    BY HandlingType, UpType, TextsClosed
    DEF HandleUpdate, Halves, Types, Channels, IsUpdate, Apply
  <2> QED
    BY <2>1, ZenonT(30)
      DEF Halves, Types, HandleUpdate, diskVars, qtVars, pageVars, history, Mishaps
<1>3. Starting' /\ Untouched' /\ Solo' /\ Unsaved' /\ ReadLast'
  BY HandlingType, UpFacts DEF Halves, Types, Starting, Untouched, Solo, Unsaved, ReadLast,
       HandleUpdate, diskVars, qtVars, pageVars, history, Mishaps, Channels
<1> QED
  BY <1>1, <1>2, <1>3 DEF Halves

LEMMA HubAdmitsHalves ==
    ASSUME Halves, HubAdmits
    PROVE  Halves'
<1>1. Channels'
  <2>1. {<<Readme, 0>>} \in Texts
    BY ViewAssumption DEF Texts, Fragments
  <2>2. Seed(~seeded, IF seeded THEN {} ELSE {<<Readme, 0>>}) \in DownMsgs
    BY <2>1, TextsClosed, DownFacts DEF Halves, Types
  <2> QED
    BY <2>2, EmitType DEF Halves, Channels, HubAdmits
<1>2. Types'
  BY DEF Halves, Types, HubAdmits, diskVars, qtVars, pageVars, history, Mishaps
<1>3. Starting' /\ Untouched' /\ Solo' /\ Unsaved' /\ ReadLast'
  BY DEF Halves, Types, Starting, Untouched, Solo, Unsaved, ReadLast, HubAdmits, diskVars,
       qtVars, pageVars, history, Mishaps, Emit
<1> QED
  BY <1>1, <1>2, <1>3 DEF Halves

LEMMA HubReplaysHalves ==
    ASSUME Halves, HubReplays
    PROVE  Halves'
<1>1. Channels'
  BY EmitType, DownFacts
    DEF Halves, Channels, Types, HubReplays, diskVars, qtVars, pageVars, history, Mishaps
<1>2. Types'
  BY DEF Halves, Types, HubReplays, diskVars, qtVars, pageVars, history, Mishaps
<1>3. Starting' /\ Untouched' /\ Solo' /\ Unsaved' /\ ReadLast'
  BY DEF Halves, Types, Starting, Untouched, Solo, Unsaved, ReadLast, HubReplays, diskVars,
       qtVars, pageVars, history, Mishaps, Emit
<1> QED
  BY <1>1, <1>2, <1>3 DEF Halves

LEMMA ExternalEditHalves ==
    ASSUME Halves, ExternalEdit
    PROVE  Halves'
<1>1. Channels'
  BY UpFacts
    DEF Halves, Channels, Types, ExternalEdit, Replace, diskVars, qtVars, pageVars, history, Mishaps
<1>2. Types'
  <2>1. PICK new \in Changes(files[path], path) :
            /\ files' = [files EXCEPT ![path] = new] /\ mine' = mine \ (files[path] \ new)
    BY DEF ExternalEdit, Replace
  <2>2. files[path] \in Texts
    BY DEF Halves, Types
  <2>3. new \in Texts
    BY <2>1, <2>2, BudgetFacts, ChangesFacts DEF Halves, Types, ExternalEdit, Replace
  <2>4. mine' \in Texts
    BY <2>1, <2>2, <2>3, TextsClosed DEF Halves, Types
  <2> QED
    BY <2>1, <2>3, <2>4, BudgetFacts
      DEF Halves, Types, ExternalEdit, Replace, diskVars, qtVars, pageVars, history, Mishaps
<1>3. Starting' /\ Untouched' /\ Solo' /\ Unsaved' /\ ReadLast'
  BY DEF Halves, Types, Starting, Untouched, Solo, Unsaved, ReadLast, ExternalEdit, Replace,
       diskVars, qtVars, pageVars, history, Mishaps
<1> QED
  BY <1>1, <1>2, <1>3 DEF Halves

LEMMA PeerEditHalves ==
    ASSUME Halves, PeerEdit
    PROVE  Halves'
<1>1. Channels'
  BY EmitType, DownFacts, ViewAssumption DEF Halves, Channels, Types, PeerEdit, diskVars,
       qtVars, pageVars, history, Mishaps, Budget, Texts, Fragments
<1>2. Types'
  BY ViewAssumption DEF Halves, Types, PeerEdit, diskVars, qtVars, pageVars, history, Mishaps,
       Budget, Texts, Fragments
<1>3. Starting' /\ Untouched' /\ Solo' /\ Unsaved' /\ ReadLast'
  BY DEF Halves, Types, Starting, Untouched, Solo, Unsaved, ReadLast, PeerEdit, diskVars,
       qtVars, pageVars, history, Mishaps, Emit
<1> QED
  BY <1>1, <1>2, <1>3 DEF Halves

LEMMA OpenFacts ==
    ASSUME Halves, Open
    PROVE  /\ path' \in Files \ {path} /\ files' = files /\ files[path'] \in Texts
           /\ qtText' \in Texts /\ (qtText' = files[path'] \/ qtText' = {})
           /\ Doc(path', qtText') \in DownMsgs
           /\ down' = IF ~jsReady THEN down
                      ELSE IF collab THEN Append(Append(down, Stopped), Doc(path', qtText'))
                      ELSE Append(down, Doc(path', qtText'))
           /\ "unread" \notin hurt' => qtText' = files[path']
<1> DEFINE m == Doc(path', qtText')
<1>1. /\ path' \in Files \ {path} /\ files' = files
      /\ qtText' = files[path'] \/ qtText' = {}
      /\ "unread" \notin hurt' => qtText' = files[path']
  BY DEF Open, OpenTelling
<1>2. files[path'] \in Texts /\ qtText' \in Texts
  BY <1>1 DEF Halves, Types, Texts
<1>3. m \in DownMsgs
  BY <1>1, <1>2, DownFacts
<1>4. Emit((IF collab THEN <<Stopped>> ELSE <<>>) \o <<m>>)
  BY DEF Open, OpenTelling
<1> HIDE DEF m
<1>5. CASE collab
  <2>1. <<Stopped>> \o <<m>> = <<Stopped, m>>
    <3>1. <<>> \in Seq(DownMsgs)
      OBVIOUS
    <3>2. \A a \in DownMsgs : <<a>> \in Seq(DownMsgs) /\ <<>> \o <<a>> = <<a>>
      OBVIOUS
    <3>3. \A a, b \in DownMsgs : <<>> \o <<a, b>> = <<a, b>>
      OBVIOUS
    <3>4. Append(<<>>, Stopped) = <<Stopped>>
      BY <3>1, <3>2, ConcatFacts, DownFacts
    <3>5. Append(Append(<<>>, Stopped), m) = <<Stopped, m>>
      <4>1. Stopped \in DownMsgs
        BY DownFacts
      <4>2. <<>> \o <<Stopped, m>> = Append(Append(<<>>, Stopped), m)
        BY <1>3, <3>1, <4>1, ConcatFacts
      <4> QED
        BY <1>3, <3>3, <4>1, <4>2
    <3>6. <<Stopped>> \o <<m>> = Append(<<Stopped>>, m)
      BY <1>3, <3>2, ConcatFacts, DownFacts
    <3> QED
      BY <3>4, <3>5, <3>6
  <2>2. Emit(<<Stopped, m>>)
    BY <1>4, <1>5, <2>1
  <2>3. down' = IF jsReady THEN Append(Append(down, Stopped), m) ELSE down
    BY <1>3, <2>2, EmitType, DownFacts DEF Halves, Channels
  <2> QED
    BY <1>1, <1>2, <1>3, <1>5, <2>3 DEF m
<1>6. CASE ~collab
  <2>1. (IF collab THEN <<Stopped>> ELSE <<>>) \o <<m>> = <<m>>
    BY <1>6
  <2> QED
    BY <1>1, <1>2, <1>3, <1>4, <1>6, <2>1, EmitType, DownFacts DEF Halves, Channels, m
<1> QED
  BY <1>5, <1>6

LEMMA OpenHalves ==
    ASSUME Halves, Open
    PROVE  Halves'
<1>1. Channels'
  <2>1. down \in Seq(DownMsgs) /\ Append(down, Stopped) \in Seq(DownMsgs)
    BY AppendFacts, DownFacts DEF Halves, Channels
  <2>2. \A m \in DownMsgs : /\ Append(down, m) \in Seq(DownMsgs)
                            /\ Append(Append(down, Stopped), m) \in Seq(DownMsgs)
    BY <2>1, AppendFacts
  <2> QED
    BY <2>1, <2>2, OpenFacts DEF Halves, Channels, Open, OpenTelling
<1>2. Types'
  BY OpenFacts, BudgetFacts, ZenonT(30)
  DEF Halves, Types, Open, OpenTelling, StopCollab, pageVars, Mishaps
<1>3. Starting' /\ Untouched' /\ Solo' /\ Unsaved' /\ ReadLast'
  BY OpenFacts
  DEF Halves, Types, Starting, Untouched, Solo, Unsaved, ReadLast, Open, OpenTelling, StopCollab,
      pageVars
<1> QED
  BY <1>1, <1>2, <1>3 DEF Halves

LEMMA StepHalves == Halves /\ [Next]_vars => Halves'
<1> SUFFICES ASSUME Halves, [Next]_vars PROVE Halves'
  OBVIOUS
<1>1. CASE UNCHANGED vars
  BY <1>1
  DEF vars, diskVars, qtVars, pageVars, history, Halves, Types, Channels, Starting, Untouched,
      Solo, Unsaved, ReadLast
<1>2. CASE PageStep
  BY <1>2, SaveTimerHalves, MaterialiseTimerHalves, OfferDiskHalves, TakeDiskHalves,
     EnterCollabHalves, ReceiveUpdateHalves, LeaveCollabHalves DEF PageStep
<1>3. CASE QtStep
  BY <1>3, ReadAgainHalves, ReadNothingHalves, ReadBeforeHalves, HandleReadyHalves, WriteHalves,
     WriteFailsHalves, HandleUpdateHalves DEF QtStep, Reload, HandleSave
<1>4. CASE People
  BY <1>4, UserEditsHalves, ReloadFromDiskHalves, ToggleOnHalves, ToggleOffHalves,
     RetargetHalves, OpenHalves, ExternalEditHalves, PeerEditHalves DEF People
<1> QED
  BY <1>1, <1>2, <1>3, <1>4, HubAdmitsHalves, HubReplaysHalves DEF Next

(* Every variable keeps its type. *)
THEOREM ViewTypeCorrect == Spec => []TypeOK
  BY InitHalves, StepHalves, HalvesType, PTL DEF Spec

----------------------------------------------------------------------------
(* What is on its way.                                                      *)

LEMMA HeldFacts ==
    ASSUME NEW S, NEW q \in Seq(S)
    PROVE  /\ Held(q) \subseteq S
           /\ \A i \in DOMAIN q : q[i] \in Held(q)
           /\ \A m \in S : Held(Append(q, m)) = Held(q) \cup {m}
           /\ q # <<>> => Head(q) \in Held(q) /\ Held(Tail(q)) \subseteq Held(q)
<1>1. Held(q) \subseteq S /\ \A i \in DOMAIN q : q[i] \in Held(q)
  BY DEF Held
<1>2. \A m \in S : Held(Append(q, m)) = Held(q) \cup {m}
  BY AppendFacts DEF Held
<1>3. q # <<>> => Head(q) \in Held(q) /\ Held(Tail(q)) \subseteq Held(q)
  BY TailFacts DEF Held
<1> QED
  BY <1>1, <1>2, <1>3

LEMMA HeldDown ==
    ASSUME down \in Seq(DownMsgs)
    PROVE  /\ \A type : Receiving(type) => Held(down') \subseteq Held(down) /\ Head(down) \in Held(down)
           /\ \A m \in DownMsgs : Emit(<<m>>) => Held(down') \subseteq Held(down) \cup {m}
           /\ Held(down) \subseteq DownMsgs
<1>1. \A type : Receiving(type) => Held(down') \subseteq Held(down) /\ Head(down) \in Held(down)
  BY HeldFacts, ReceivingType DEF Receiving
<1>2. \A m \in DownMsgs : Emit(<<m>>) => Held(down') \subseteq Held(down) \cup {m}
  BY HeldFacts, EmitType
<1> QED
  BY <1>1, <1>2, HeldFacts

LEMMA HeldUp ==
    ASSUME up \in Seq(UpMsgs)
    PROVE  /\ \A type : Handling(type) => Held(up') \subseteq Held(up) /\ Head(up) \in Held(up)
           /\ \A m \in UpMsgs : Send(<<m>>) => Held(up') = Held(up) \cup {m}
           /\ Held(up) \subseteq UpMsgs
<1>1. \A type : Handling(type) => Held(up') \subseteq Held(up) /\ Head(up) \in Held(up)
  BY HeldFacts, HandlingType DEF Handling
<1>2. \A m \in UpMsgs : Send(<<m>>) => Held(up') = Held(up) \cup {m}
  BY HeldFacts, SendType
<1> QED
  BY <1>1, <1>2, HeldFacts

LEMMA OpenHeld ==
    ASSUME Halves, Open
    PROVE  Held(down') \subseteq Held(down) \cup {Stopped, Doc(path', qtText')}
<1> DEFINE m == Doc(path', qtText')
           a == Append(down, Stopped)
<1>1. down \in Seq(DownMsgs) /\ m \in DownMsgs /\ Stopped \in DownMsgs
  BY OpenFacts, DownFacts DEF Halves, Channels
<1>2. a \in Seq(DownMsgs)
  BY <1>1, AppendFacts
<1>3. down' = down \/ down' = Append(a, m) \/ down' = Append(down, m)
  BY OpenFacts
<1>4. Held(a) = Held(down) \cup {Stopped} /\ Held(Append(down, m)) = Held(down) \cup {m}
  BY <1>1, HeldFacts
<1> HIDE DEF m, a
<1>5. Held(Append(a, m)) = Held(a) \cup {m}
  BY <1>1, <1>2, HeldFacts
<1> QED
  BY <1>3, <1>4, <1>5 DEF m

----------------------------------------------------------------------------
(* Nothing has failed.                                                      *)

(* Every write was done, and every read gave what the file had. *)
Sound == hurt \cap {"unsaved", "unread", "unseen"} = {}

(* The steps in which no file operation of a message or an event fails. *)
Sure ==
    \/ PageStep \/ ReadAgain \/ HandleReady \/ Write \/ HandleUpdate
    \/ HubAdmits \/ HubReplays \/ People

LEMMA HurtGrows == [Next]_vars => hurt \subseteq hurt'
<1> SUFFICES ASSUME [Next]_vars PROVE hurt \subseteq hurt'
  OBVIOUS
<1>1. CASE UNCHANGED vars
  BY <1>1 DEF vars, history
<1>2. CASE PageStep
  BY <1>2 DEF PageStep, SaveTimer, MaterialiseTimer, OfferDisk, TakeDisk, TakeIf, EnterCollab,
     ReceiveUpdate, LeaveCollab, LeaveWith, history
<1>3. CASE QtStep
  BY <1>3 DEF QtStep, Reload, ReadAgain, ReadNothing, ReadBefore, HandleReady, HandleSave, Write,
     WriteFails, HandleUpdate, StartCollab, history
<1>4. CASE People
  BY <1>4 DEF People, UserEdits, ReloadFromDisk, ToggleOn, ToggleOnIf, ToggleOff, Retarget, Open,
     OpenTelling, ExternalEdit, Replace, PeerEdit, StartCollab, history
<1> QED
  BY <1>1, <1>2, <1>3, <1>4 DEF Next, HubAdmits, HubReplays, history

LEMMA SureIsNext == [Sure]_vars => [Next]_vars
  BY DEF Sure, Next, QtStep, Reload, HandleSave

LEMMA SureStep == [Next]_vars /\ Sound' => Sound /\ [Sure]_vars
<1> SUFFICES ASSUME [Next]_vars, Sound' PROVE Sound /\ [Sure]_vars
  OBVIOUS
<1>1. Sound
  BY HurtGrows DEF Sound
<1>2. ~ReadNothing /\ ~ReadBefore /\ ~WriteFails
  BY DEF Sound, ReadNothing, ReadBefore, WriteFails
<1> QED
  BY <1>1, <1>2 DEF Next, QtStep, Reload, HandleSave, Sure

----------------------------------------------------------------------------
(* Fragments are numbered.                                                  *)

LEMMA OldFacts ==
    /\ \A n \in Nat, k \in Nat, t \in Texts : n <= k /\ Old(t, n) => Old(t, k)
    /\ \A n, t, u : Old(t, n) /\ Old(u, n) => Old(t \cup u, n)
    /\ \A n, t, u : Old(t, n) => Old(t \ u, n) /\ Old(t \cap u, n) /\ Old(u \cap t, n)
    /\ \A n : Old({}, n)
    /\ \A n \in Nat : \A f : Old({<<f, n>>}, n) /\ Old({<<f, 0>>}, n)
<1>1. \A n \in Nat, k \in Nat, t \in Texts : n <= k /\ Old(t, n) => Old(t, k)
  <2>1. \A x \in Fragments : x[2] \in Nat
    BY ViewAssumption DEF Fragments
  <2> QED
    BY <2>1 DEF Old, Texts
<1> QED
  BY <1>1 DEF Old

LEMMA OldMessages ==
    ASSUME NEW n \in Nat
    PROVE  /\ \A f \in Files, t \in Texts : Old(t, n) => OldDown(Doc(f, t), n)
           /\ \A should \in BOOLEAN, t \in Texts : Old(t, 0) => OldDown(Seed(should, t), n)
           /\ \A t \in Texts : Old(t, n) => OldDown(Update({}, t), n)
           /\ OldDown(Stopped, n) /\ OldUp(Ready, n)
           /\ \A t \in Texts : Old(t, n) => OldUp(Save(t), n)
           /\ \A t, u \in Texts : Old(t, n) /\ Old(u, n) => OldUp(Update(t, u), n)
<1>1. ASSUME NEW t \in Texts, NEW u \in Texts, Old(t, n), Old(u, n)
      PROVE  OldUp(Update(t, u), n)
  <2>1. Old(u \ t, n) /\ Old(t \ u, n) /\ (u \ t) \cap (t \ u) = {}
    BY <1>1, OldFacts
  <2>2. Update(t, u).add = u \ t /\ Update(t, u).del = t \ u /\ ~IsSave(Update(t, u))
    BY UpFacts
  <2> QED
    BY <2>1, <2>2 DEF OldUp
<1> QED
  BY <1>1, DownFacts, UpFacts, OldFacts DEF OldDown, OldUp

LEMMA OldGrows ==
    ASSUME NEW n \in Nat, NEW k \in Nat, n <= k
    PROVE  /\ \A m \in DownMsgs : OldDown(m, n) => OldDown(m, k)
           /\ \A m \in UpMsgs : OldUp(m, n) => OldUp(m, k)
  BY OldFacts, DownType, UpType DEF OldDown, OldUp

LEMMA NumberedGrows ==
    ASSUME Halves, Numbered, Budget
    PROVE  /\ acts' \in Nat /\ TextsOld(acts') /\ DownsOld(acts') /\ UpsOld(acts')
           /\ \A f : Old({<<f, acts'>>}, acts')
           /\ \A f, t : Old(t, acts') => \A new \in Changes(t, f) : Old(new, acts')
<1>1. acts \in Nat /\ acts' \in Nat /\ acts <= acts' /\ acts' = acts + 1
  BY BudgetFacts DEF Halves, Types
<1>2. DownsOld(acts')
  BY <1>1, OldGrows, HeldDown DEF Halves, Channels, Numbered, DownsOld
<1>3. UpsOld(acts')
  BY <1>1, OldGrows, HeldUp DEF Halves, Channels, Numbered, UpsOld
<1>4. TextsOld(acts')
  <2>1. \A t \in Texts : Old(t, acts) => Old(t, acts')
    BY <1>1, OldFacts
  <2> QED
    BY <2>1 DEF Halves, Types, Numbered, TextsOld
<1>5. \A f : Old({<<f, acts'>>}, acts')
  BY <1>1, OldFacts
<1>6. ASSUME NEW f, NEW t, Old(t, acts'), NEW new \in Changes(t, f) PROVE Old(new, acts')
  <2>1. new = t \cup {<<f, acts'>>} \/ \E x \in t : new = t \ {x}
    BY <1>1, <1>6 DEF Changes
  <2>2. CASE new = t \cup {<<f, acts'>>}
    BY <1>5, <1>6, <2>2, OldFacts
  <2> QED
    BY <1>6, <2>1, <2>2 DEF Old
<1> QED
  BY <1>1, <1>2, <1>3, <1>4, <1>5, <1>6

LEMMA OldSent ==
    ASSUME Channels, UpsOld(acts), acts' = acts
    PROVE  /\ \A m \in UpMsgs : Send(<<m>>) /\ OldUp(m, acts) => UpsOld(acts)'
           /\ \A type : Handling(type) => UpsOld(acts)' /\ OldUp(Head(up), acts)
           /\ up' = up => UpsOld(acts)'
  BY HeldUp DEF UpsOld, Channels

LEMMA OldEmitted ==
    ASSUME Channels, DownsOld(acts), acts' = acts
    PROVE  /\ \A m \in DownMsgs : Emit(<<m>>) /\ OldDown(m, acts) => DownsOld(acts)'
           /\ \A type : Receiving(type) => DownsOld(acts)' /\ OldDown(Head(down), acts)
           /\ down' = down => DownsOld(acts)'
  BY HeldDown DEF DownsOld, Channels

LEMMA SaveTimerNumbered ==
    ASSUME Halves, Numbered, SaveTimer
    PROVE  Numbered'
<1>1. acts' = acts /\ acts \in Nat /\ Channels /\ UpsOld(acts) /\ DownsOld(acts)
  BY ViewAssumption DEF Halves, Types, Numbered, SaveTimer, pageVars, history, Budget
<1>2. UpsOld(acts)'
  BY <1>1, OldSent, OldMessages, UpFacts
    DEF Halves, Types, Numbered, TextsOld, SaveTimer, qtVars, diskVars, pageVars
<1>3. DownsOld(acts)'
  BY <1>1, OldEmitted, OldMessages, DownFacts
    DEF Halves, Types, Numbered, TextsOld, SaveTimer, qtVars, diskVars, pageVars
<1>4. TextsOld(acts)'
  BY <1>1, OldEmitted, OldSent, OldFacts
    DEF Numbered, TextsOld, SaveTimer, qtVars, diskVars, pageVars, history,
      OldDown, OldUp, IsDoc, IsSeed, IsUpdate, IsSave, Receiving, Handling, Halves, Types,
      ReadLast
<1> QED
  BY <1>2, <1>3, <1>4 DEF Numbered

LEMMA MaterialiseTimerNumbered ==
    ASSUME Halves, Numbered, MaterialiseTimer
    PROVE  Numbered'
<1>1. acts' = acts /\ acts \in Nat /\ Channels /\ UpsOld(acts) /\ DownsOld(acts)
  BY ViewAssumption DEF Halves, Types, Numbered, MaterialiseTimer, pageVars, history, Budget
<1>2. UpsOld(acts)'
  BY <1>1, OldSent, OldMessages, UpFacts
    DEF Halves, Types, Numbered, TextsOld, MaterialiseTimer, qtVars, diskVars, pageVars
<1>3. DownsOld(acts)'
  BY <1>1, OldEmitted, OldMessages, DownFacts
    DEF Halves, Types, Numbered, TextsOld, MaterialiseTimer, qtVars, diskVars, pageVars
<1>4. TextsOld(acts)'
  BY <1>1, OldEmitted, OldSent, OldFacts
    DEF Numbered, TextsOld, MaterialiseTimer, qtVars, diskVars, pageVars, history,
      OldDown, OldUp, IsDoc, IsSeed, IsUpdate, IsSave, Receiving, Handling, Halves, Types,
      ReadLast
<1> QED
  BY <1>2, <1>3, <1>4 DEF Numbered

LEMMA OfferDiskNumbered ==
    ASSUME Halves, Numbered, OfferDisk
    PROVE  Numbered'
<1>1. acts' = acts /\ acts \in Nat /\ Channels /\ UpsOld(acts) /\ DownsOld(acts)
  BY ViewAssumption DEF Halves, Types, Numbered, OfferDisk, pageVars, history, Budget
<1>2. UpsOld(acts)'
  BY <1>1, OldSent, OldMessages, UpFacts
    DEF Halves, Types, Numbered, TextsOld, OfferDisk, qtVars, diskVars, pageVars
<1>3. DownsOld(acts)'
  BY <1>1, OldEmitted, OldMessages, DownFacts
    DEF Halves, Types, Numbered, TextsOld, OfferDisk, qtVars, diskVars, pageVars
<1>4. TextsOld(acts)'
  BY <1>1, OldEmitted, OldSent, OldFacts
    DEF Numbered, TextsOld, OfferDisk, qtVars, diskVars, pageVars, history,
      OldDown, OldUp, IsDoc, IsSeed, IsUpdate, IsSave, Receiving, Handling, Halves, Types,
      ReadLast
<1> QED
  BY <1>2, <1>3, <1>4 DEF Numbered

LEMMA TakeDiskNumbered ==
    ASSUME Halves, Numbered, TakeDisk
    PROVE  Numbered'
<1>1. acts' = acts /\ acts \in Nat /\ Channels /\ UpsOld(acts) /\ DownsOld(acts)
  BY ViewAssumption DEF Halves, Types, Numbered, TakeDisk, TakeIf, pageVars, history, Budget
<1>2. UpsOld(acts)'
  BY <1>1, OldSent, OldMessages, UpFacts
    DEF Halves, Types, Numbered, TextsOld, TakeDisk, TakeIf, qtVars, diskVars, pageVars
<1>3. DownsOld(acts)'
  BY <1>1, OldEmitted, OldMessages, DownFacts
    DEF Halves, Types, Numbered, TextsOld, TakeDisk, TakeIf, qtVars, diskVars, pageVars
<1>4. TextsOld(acts)'
  BY <1>1, OldEmitted, OldSent, OldFacts
    DEF Numbered, TextsOld, TakeDisk, TakeIf, qtVars, diskVars, pageVars, history,
      OldDown, OldUp, IsDoc, IsSeed, IsUpdate, IsSave, Receiving, Handling, Halves, Types,
      ReadLast
<1> QED
  BY <1>2, <1>3, <1>4 DEF Numbered

LEMMA EnterCollabNumbered ==
    ASSUME Halves, Numbered, EnterCollab
    PROVE  Numbered'
<1>1. acts' = acts /\ acts \in Nat /\ Channels /\ UpsOld(acts) /\ DownsOld(acts)
  BY ViewAssumption DEF Halves, Types, Numbered, EnterCollab, pageVars, history, Budget
<1> DEFINE m == Head(down)
           first == IF ~m.should THEN {} ELSE IF text # {} THEN text ELSE m.text
<1>2. DownsOld(acts)' /\ Old(m.text, acts) /\ m \in DownMsgs /\ IsSeed(m)
  <2>1. DownsOld(acts)' /\ Old(m.text, 0) /\ m \in DownMsgs /\ IsSeed(m)
    BY <1>1, OldEmitted, ReceivingType DEF Channels, OldDown, EnterCollab, IsSeed
  <2> QED
    BY <1>1, <2>1, DownType, OldFacts
<1>3. first \in Texts /\ Old(first, acts) /\ {} \in Texts
  BY <1>1, <1>2, DownType, TextsClosed, OldFacts DEF Halves, Types, Numbered, TextsOld
<1>4. Update({}, first) \in UpMsgs /\ OldUp(Update({}, first), acts)
  BY <1>1, <1>3, UpFacts, OldMessages, OldFacts
<1>5. /\ up' = up \/ Send(<<Update({}, first)>>)
      /\ text' = text \/ text' = first
      /\ lastSynced' = lastSynced /\ diskText' = diskText /\ mine' = mine
      /\ UNCHANGED <<diskVars, qtVars>>
  BY DEF EnterCollab, pageVars
<1> HIDE DEF first, m
<1>6. UpsOld(acts)'
  BY <1>1, <1>4, <1>5, OldSent
<1>7. TextsOld(acts)'
  BY <1>1, <1>3, <1>5 DEF Numbered, TextsOld, diskVars, qtVars
<1> QED
  BY <1>2, <1>6, <1>7 DEF Numbered

LEMMA ReceiveUpdateNumbered ==
    ASSUME Halves, Numbered, ReceiveUpdate
    PROVE  Numbered'
<1>1. acts' = acts /\ acts \in Nat /\ Channels /\ UpsOld(acts) /\ DownsOld(acts)
  BY ViewAssumption DEF Halves, Types, Numbered, ReceiveUpdate, pageVars, history, Budget
<1>2. UpsOld(acts)'
  BY <1>1, OldSent, OldMessages, UpFacts
    DEF Halves, Types, Numbered, TextsOld, ReceiveUpdate, Apply, qtVars, diskVars, pageVars
<1>3. DownsOld(acts)'
  BY <1>1, OldEmitted, OldMessages, DownFacts
    DEF Halves, Types, Numbered, TextsOld, ReceiveUpdate, Apply, qtVars, diskVars, pageVars
<1>4. TextsOld(acts)'
  BY <1>1, OldEmitted, OldSent, OldFacts
    DEF Numbered, TextsOld, ReceiveUpdate, Apply, qtVars, diskVars, pageVars, history,
      OldDown, OldUp, IsDoc, IsSeed, IsUpdate, IsSave, Receiving, Handling, Halves, Types,
      ReadLast
<1> QED
  BY <1>2, <1>3, <1>4 DEF Numbered

LEMMA LeaveCollabNumbered ==
    ASSUME Halves, Numbered, LeaveCollab
    PROVE  Numbered'
<1>1. acts' = acts /\ acts \in Nat /\ Channels /\ UpsOld(acts) /\ DownsOld(acts)
  BY ViewAssumption DEF Halves, Types, Numbered, LeaveCollab, LeaveWith, pageVars, history, Budget
<1>2. UpsOld(acts)'
  BY <1>1, OldSent, OldMessages, UpFacts
    DEF Halves, Types, Numbered, TextsOld, LeaveCollab, LeaveWith, qtVars, diskVars, pageVars
<1>3. DownsOld(acts)'
  BY <1>1, OldEmitted, OldMessages, DownFacts
    DEF Halves, Types, Numbered, TextsOld, LeaveCollab, LeaveWith, qtVars, diskVars, pageVars
<1>4. TextsOld(acts)'
  BY <1>1, OldEmitted, OldSent, OldFacts
    DEF Numbered, TextsOld, LeaveCollab, LeaveWith, qtVars, diskVars, pageVars, history,
      OldDown, OldUp, IsDoc, IsSeed, IsUpdate, IsSave, Receiving, Handling, Halves, Types,
      ReadLast
<1> QED
  BY <1>2, <1>3, <1>4 DEF Numbered

LEMMA ToggleOffNumbered ==
    ASSUME Halves, Numbered, ToggleOff
    PROVE  Numbered'
<1>1. acts' = acts /\ acts \in Nat /\ Channels /\ UpsOld(acts) /\ DownsOld(acts)
  BY ViewAssumption DEF Halves, Types, Numbered, ToggleOff, StopCollab, pageVars, history, Budget
<1>2. UpsOld(acts)'
  BY <1>1, OldSent, OldMessages, UpFacts
    DEF Halves, Types, Numbered, TextsOld, ToggleOff, StopCollab, qtVars, diskVars, pageVars
<1>3. DownsOld(acts)'
  BY <1>1, OldEmitted, OldMessages, DownFacts
    DEF Halves, Types, Numbered, TextsOld, ToggleOff, StopCollab, qtVars, diskVars, pageVars
<1>4. TextsOld(acts)'
  BY <1>1, OldEmitted, OldSent, OldFacts
    DEF Numbered, TextsOld, ToggleOff, StopCollab, qtVars, diskVars, pageVars, history,
      OldDown, OldUp, IsDoc, IsSeed, IsUpdate, IsSave, Receiving, Handling, Halves, Types,
      ReadLast
<1> QED
  BY <1>2, <1>3, <1>4 DEF Numbered

LEMMA RetargetNumbered ==
    ASSUME Halves, Numbered, Retarget
    PROVE  Numbered'
<1>1. acts' = acts /\ acts \in Nat /\ Channels /\ UpsOld(acts) /\ DownsOld(acts)
  BY ViewAssumption DEF Halves, Types, Numbered, Retarget, StopCollab, pageVars, history, Budget
<1>2. UpsOld(acts)'
  BY <1>1, OldSent, OldMessages, UpFacts
    DEF Halves, Types, Numbered, TextsOld, Retarget, StopCollab, qtVars, diskVars, pageVars
<1>3. DownsOld(acts)'
  BY <1>1, OldEmitted, OldMessages, DownFacts
    DEF Halves, Types, Numbered, TextsOld, Retarget, StopCollab, qtVars, diskVars, pageVars
<1>4. TextsOld(acts)'
  BY <1>1, OldEmitted, OldSent, OldFacts
    DEF Numbered, TextsOld, Retarget, StopCollab, qtVars, diskVars, pageVars, history,
      OldDown, OldUp, IsDoc, IsSeed, IsUpdate, IsSave, Receiving, Handling, Halves, Types,
      ReadLast
<1> QED
  BY <1>2, <1>3, <1>4 DEF Numbered

LEMMA ReadAgainNumbered ==
    ASSUME Halves, Numbered, ReadAgain
    PROVE  Numbered'
<1>1. acts' = acts /\ acts \in Nat /\ Channels /\ UpsOld(acts) /\ DownsOld(acts)
  BY ViewAssumption DEF Halves, Types, Numbered, ReadAgain, Reading, pageVars, history, Budget
<1>2. UpsOld(acts)'
  BY <1>1, OldSent, OldMessages, UpFacts
    DEF Halves, Types, Numbered, TextsOld, ReadAgain, Reading, qtVars, diskVars, pageVars
<1>3. DownsOld(acts)'
  BY <1>1, OldEmitted, OldMessages, DownFacts
    DEF Halves, Types, Numbered, TextsOld, ReadAgain, Reading, qtVars, diskVars, pageVars
<1>4. TextsOld(acts)'
  BY <1>1, OldEmitted, OldSent, OldFacts
    DEF Numbered, TextsOld, ReadAgain, Reading, qtVars, diskVars, pageVars, history,
      OldDown, OldUp, IsDoc, IsSeed, IsUpdate, IsSave, Receiving, Handling, Halves, Types,
      ReadLast
<1> QED
  BY <1>2, <1>3, <1>4 DEF Numbered

LEMMA HandleReadyNumbered ==
    ASSUME Halves, Numbered, HandleReady
    PROVE  Numbered'
<1>1. acts' = acts /\ acts \in Nat /\ Channels /\ UpsOld(acts) /\ DownsOld(acts)
  BY ViewAssumption DEF Halves, Types, Numbered, HandleReady, pageVars, history, Budget
<1>2. UpsOld(acts)'
  BY <1>1, OldSent, OldMessages, UpFacts
    DEF Halves, Types, Numbered, TextsOld, HandleReady, qtVars, diskVars, pageVars
<1>3. DownsOld(acts)'
  <2>1. Doc(path, qtText) \in DownMsgs /\ OldDown(Doc(path, qtText), acts)
    BY <1>1, DownFacts, OldMessages DEF Halves, Types, Numbered, TextsOld
  <2>2. down' = Append(down, Doc(path, qtText))
    BY DEF HandleReady
  <2> HIDE DEF DownMsgs
  <2> QED
    BY <1>1, <2>1, <2>2, HeldFacts DEF Channels, DownsOld
<1>4. TextsOld(acts)'
  BY <1>1, OldEmitted, OldSent, OldFacts
    DEF Numbered, TextsOld, HandleReady, qtVars, diskVars, pageVars, history,
      OldDown, OldUp, IsDoc, IsSeed, IsUpdate, IsSave, Receiving, Handling, Halves, Types,
      ReadLast
<1> QED
  BY <1>2, <1>3, <1>4 DEF Numbered

LEMMA WriteNumbered ==
    ASSUME Halves, Numbered, Write
    PROVE  Numbered'
<1>1. acts' = acts /\ acts \in Nat /\ Channels /\ UpsOld(acts) /\ DownsOld(acts)
  BY ViewAssumption DEF Halves, Types, Numbered, Write, pageVars, history, Budget
<1>2. UpsOld(acts)'
  BY <1>1, OldSent, OldMessages, UpFacts
    DEF Halves, Types, Numbered, TextsOld, Write, qtVars, diskVars, pageVars
<1>3. DownsOld(acts)'
  BY <1>1, OldEmitted, OldMessages, DownFacts
    DEF Halves, Types, Numbered, TextsOld, Write, qtVars, diskVars, pageVars
<1>4. TextsOld(acts)'
  BY <1>1, OldEmitted, OldSent, OldFacts
    DEF Numbered, TextsOld, Write, qtVars, diskVars, pageVars, history,
      OldDown, OldUp, IsDoc, IsSeed, IsUpdate, IsSave, Receiving, Handling, Halves, Types,
      ReadLast
<1> QED
  BY <1>2, <1>3, <1>4 DEF Numbered

LEMMA HandleUpdateNumbered ==
    ASSUME Halves, Numbered, HandleUpdate
    PROVE  Numbered'
<1>1. acts' = acts /\ acts \in Nat /\ Channels /\ UpsOld(acts) /\ DownsOld(acts)
  BY ViewAssumption DEF Halves, Types, Numbered, HandleUpdate, pageVars, history, Budget
<1>2. UpsOld(acts)'
  BY <1>1, OldSent, OldMessages, UpFacts
    DEF Halves, Types, Numbered, TextsOld, HandleUpdate, Apply, qtVars, diskVars, pageVars
<1>3. DownsOld(acts)'
  BY <1>1, OldEmitted, OldMessages, DownFacts
    DEF Halves, Types, Numbered, TextsOld, HandleUpdate, Apply, qtVars, diskVars, pageVars
<1>4. Old(Apply(room, Head(up)), acts)
  <2>1. IsUpdate(Head(up)) /\ OldUp(Head(up), acts)
    BY <1>1, OldSent DEF HandleUpdate, Handling, IsUpdate
  <2>2. Old(room \cup Head(up).add, acts)
    BY <2>1, OldFacts DEF OldUp, Numbered, TextsOld
  <2> QED
    BY <2>2, OldFacts DEF Apply
<1>5. TextsOld(acts)'
  BY <1>1, <1>4 DEF Numbered, TextsOld, HandleUpdate, qtVars, pageVars
<1> QED
  BY <1>2, <1>3, <1>5 DEF Numbered

LEMMA HubAdmitsNumbered ==
    ASSUME Halves, Numbered, HubAdmits
    PROVE  Numbered'
<1>1. acts' = acts /\ acts \in Nat /\ Channels /\ UpsOld(acts) /\ DownsOld(acts)
  BY ViewAssumption DEF Halves, Types, Numbered, HubAdmits, pageVars, history, Budget
<1>2. UpsOld(acts)'
  BY <1>1, OldSent, OldMessages, UpFacts
    DEF Halves, Types, Numbered, TextsOld, HubAdmits, qtVars, diskVars, pageVars
<1>3. DownsOld(acts)'
  <2> DEFINE t == IF seeded THEN {} ELSE {<<Readme, 0>>}
  <2>1. t \in Texts /\ Old(t, 0)
    BY <1>1, TextsClosed, OldFacts, FirstText
  <2>2. Emit(<<Seed(~seeded, t)>>)
    BY DEF HubAdmits
  <2> HIDE DEF t
  <2> QED
    BY <1>1, <2>1, <2>2, OldEmitted, OldMessages, DownFacts DEF Halves, Types
<1>4. TextsOld(acts)'
  BY <1>1, OldEmitted, OldSent, OldFacts
    DEF Numbered, TextsOld, HubAdmits, qtVars, diskVars, pageVars, history,
      OldDown, OldUp, IsDoc, IsSeed, IsUpdate, IsSave, Receiving, Handling, Halves, Types,
      ReadLast
<1> QED
  BY <1>2, <1>3, <1>4 DEF Numbered

LEMMA HubReplaysNumbered ==
    ASSUME Halves, Numbered, HubReplays
    PROVE  Numbered'
<1>1. acts' = acts /\ acts \in Nat /\ Channels /\ UpsOld(acts) /\ DownsOld(acts)
  BY ViewAssumption DEF Halves, Types, Numbered, HubReplays, pageVars, history, Budget
<1>2. UpsOld(acts)'
  BY <1>1, OldSent, OldMessages, UpFacts
    DEF Halves, Types, Numbered, TextsOld, HubReplays, qtVars, diskVars, pageVars
<1>3. DownsOld(acts)'
  BY <1>1, OldEmitted, OldMessages, DownFacts
    DEF Halves, Types, Numbered, TextsOld, HubReplays, qtVars, diskVars, pageVars
<1>4. TextsOld(acts)'
  BY <1>1, OldEmitted, OldSent, OldFacts
    DEF Numbered, TextsOld, HubReplays, qtVars, diskVars, pageVars, history,
      OldDown, OldUp, IsDoc, IsSeed, IsUpdate, IsSave, Receiving, Handling, Halves, Types,
      ReadLast
<1> QED
  BY <1>2, <1>3, <1>4 DEF Numbered

LEMMA UserEditsNumbered ==
    ASSUME Halves, Numbered, UserEdits
    PROVE  Numbered'
<1>1. /\ acts' \in Nat /\ TextsOld(acts') /\ DownsOld(acts') /\ UpsOld(acts')
      /\ Channels /\ text \in Texts
  BY NumberedGrows DEF UserEdits, Halves, Types
<1>2. PICK new \in Changes(text, shows) :
          /\ ChangeEditor(new) /\ mine' = (mine \cap new) \cup (new \ text)
  BY DEF UserEdits
<1>3. new \in Texts /\ Old(new, acts')
  BY <1>1, <1>2, NumberedGrows, ChangesFacts, BudgetFacts DEF UserEdits, Halves, Types, TextsOld
<1>4. DownsOld(acts)'
  BY <1>1 DEF DownsOld, UserEdits
<1>5. UpsOld(acts)'
  <2>1. Update(text, new) \in UpMsgs /\ OldUp(Update(text, new), acts')
    BY <1>1, <1>3, UpFacts, OldMessages DEF TextsOld
  <2> QED
    BY <1>1, <1>2, <2>1, HeldUp DEF ChangeEditor, UpsOld, Channels
<1>6. TextsOld(acts)'
  BY <1>1, <1>2, <1>3, OldFacts DEF TextsOld, UserEdits, ChangeEditor, diskVars, qtVars
<1> QED
  BY <1>4, <1>5, <1>6 DEF Numbered

LEMMA ReloadFromDiskNumbered ==
    ASSUME Halves, Numbered, ReloadFromDisk
    PROVE  Numbered'
<1>1. /\ acts' \in Nat /\ TextsOld(acts') /\ DownsOld(acts') /\ UpsOld(acts')
      /\ Channels /\ text \in Texts
  BY NumberedGrows DEF ReloadFromDisk, Halves, Types
<1>2. PICK t \in diskText :
          /\ IF t # text THEN ChangeEditor(t) ELSE UNCHANGED <<text, matTimer, saveTimer, up>>
          /\ mine' = mine \cap t
  BY DEF ReloadFromDisk
<1>3. t \in Texts /\ Old(t, acts')
  BY <1>1, <1>2 DEF Halves, Types, TextsOld
<1>4. DownsOld(acts)'
  BY <1>1 DEF DownsOld, ReloadFromDisk
<1>5. UpsOld(acts)'
  <2>1. Update(text, t) \in UpMsgs /\ OldUp(Update(text, t), acts')
    BY <1>1, <1>3, UpFacts, OldMessages DEF TextsOld
  <2> QED
    BY <1>1, <1>2, <2>1, HeldUp DEF ChangeEditor, UpsOld, Channels
<1>6. TextsOld(acts)'
  BY <1>1, <1>2, <1>3, OldFacts DEF TextsOld, ReloadFromDisk, ChangeEditor, diskVars, qtVars
<1> QED
  BY <1>4, <1>5, <1>6 DEF Numbered

LEMMA ToggleOnNumbered ==
    ASSUME Halves, Numbered, ToggleOn
    PROVE  Numbered'
<1>1. TextsOld(acts') /\ DownsOld(acts') /\ UpsOld(acts')
  BY NumberedGrows DEF ToggleOn, ToggleOnIf
<1> QED
  BY <1>1 DEF Numbered, TextsOld, DownsOld, UpsOld, ToggleOn, ToggleOnIf, StartCollab, pageVars

LEMMA OpenNumbered ==
    ASSUME Halves, Numbered, Open
    PROVE  Numbered'
<1>1. /\ acts' \in Nat /\ TextsOld(acts') /\ DownsOld(acts') /\ UpsOld(acts')
      /\ path' \in Files /\ files' = files
  BY NumberedGrows, OpenFacts DEF Open, OpenTelling
<1>2. /\ OldDown(Stopped, acts') /\ OldDown(Doc(path', qtText'), acts') /\ Old(qtText', acts')
  BY <1>1, OldFacts, OldMessages, OpenFacts DEF TextsOld
<1>3. DownsOld(acts)'
  BY <1>1, <1>2, OpenHeld DEF DownsOld
<1>4. UpsOld(acts)'
  BY <1>1 DEF UpsOld, Open, OpenTelling
<1>5. TextsOld(acts)'
  BY <1>1, <1>2 DEF TextsOld, Open, OpenTelling, StopCollab, pageVars
<1> QED
  BY <1>3, <1>4, <1>5 DEF Numbered

LEMMA ExternalEditNumbered ==
    ASSUME Halves, Numbered, ExternalEdit
    PROVE  Numbered'
<1>1. /\ acts' \in Nat /\ TextsOld(acts') /\ DownsOld(acts') /\ UpsOld(acts') /\ path \in Files
  BY NumberedGrows DEF ExternalEdit, Replace, Halves, Types
<1>2. PICK new \in Changes(files[path], path) :
          /\ files' = [files EXCEPT ![path] = new] /\ mine' = mine \ (files[path] \ new)
  BY DEF ExternalEdit, Replace
<1>3. Old(new, acts')
  BY <1>1, <1>2, NumberedGrows DEF ExternalEdit, Replace, TextsOld
<1>4. TextsOld(acts)'
  BY <1>1, <1>2, <1>3, OldFacts DEF TextsOld, ExternalEdit, Replace, pageVars, Halves, Types
<1> QED
  BY <1>1, <1>4 DEF Numbered, DownsOld, UpsOld, ExternalEdit, Replace

LEMMA PeerEditNumbered ==
    ASSUME Halves, Numbered, PeerEdit
    PROVE  Numbered'
<1> DEFINE new == {<<Readme, acts'>>}
<1>1. /\ acts' \in Nat /\ TextsOld(acts') /\ DownsOld(acts') /\ UpsOld(acts') /\ Channels
      /\ new \in Texts /\ Old(new, acts')
  BY NumberedGrows, BudgetFacts, SingleText, FirstText DEF PeerEdit, Halves, Types
<1>2. /\ room' = room \cup new /\ due' = {t \cup new : t \in due}
      /\ Emit(<<Update({}, new)>>) \/ down' = down
      /\ UNCHANGED <<files, qtVars, up, pageVars, history>>
  BY DEF PeerEdit
<1>3. Update({}, new) \in DownMsgs /\ OldDown(Update({}, new), acts')
  BY <1>1, DownFacts, OldMessages
<1> HIDE DEF new
<1>4. DownsOld(acts)'
  BY <1>1, <1>2, <1>3, HeldDown DEF DownsOld, Channels
<1>5. TextsOld(acts)'
  BY <1>1, <1>2, OldFacts DEF TextsOld, qtVars, pageVars, history
<1> QED
  BY <1>1, <1>2, <1>4, <1>5 DEF Numbered, UpsOld

LEMMA InitNumbered == Init => Numbered
<1> SUFFICES ASSUME Init PROVE Numbered
  OBVIOUS
<1>1. \A f : Old({<<f, 0>>}, acts)
  BY OldFacts DEF Init
<1>2. TextsOld(acts)
  BY <1>1, OldFacts, ViewAssumption DEF Init, TextsOld
<1>3. Held(down) = {} /\ Held(up) = {Ready}
  BY DEF Init, Held
<1>4. OldUp(Ready, acts)
  BY OldMessages DEF Init
<1> QED
  BY <1>2, <1>3, <1>4 DEF Numbered, DownsOld, UpsOld

LEMMA StepNumbered == Halves /\ Numbered /\ [Sure]_vars => Numbered'
<1> SUFFICES ASSUME Halves, Numbered, [Sure]_vars PROVE Numbered'
  OBVIOUS
<1>1. CASE UNCHANGED vars
  BY <1>1 DEF vars, diskVars, qtVars, pageVars, history, Numbered, TextsOld, DownsOld, UpsOld
<1>2. CASE PageStep
  BY <1>2, SaveTimerNumbered, MaterialiseTimerNumbered, OfferDiskNumbered, TakeDiskNumbered,
     EnterCollabNumbered, ReceiveUpdateNumbered, LeaveCollabNumbered DEF PageStep
<1>3. CASE ReadAgain \/ HandleReady \/ Write \/ HandleUpdate
  BY <1>3, ReadAgainNumbered, HandleReadyNumbered, WriteNumbered, HandleUpdateNumbered
<1>4. CASE People
  BY <1>4, UserEditsNumbered, ReloadFromDiskNumbered, ToggleOnNumbered, ToggleOffNumbered,
     RetargetNumbered, OpenNumbered, ExternalEditNumbered, PeerEditNumbered DEF People
<1> QED
  BY <1>1, <1>2, <1>3, <1>4, HubAdmitsNumbered, HubReplaysNumbered DEF Sure

----------------------------------------------------------------------------
(* Every text is its document's own.                                        *)

LEMMA OfFacts ==
    /\ \A f, t, u : Of(t, f) /\ Of(u, f) => Of(t \cup u, f)
    /\ \A f, t, u : Of(t, f) => Of(t \ u, f) /\ Of(t \cap u, f) /\ Of(u \cap t, f)
    /\ \A f : Of({}, f)
    /\ \A f, k : Of({<<f, k>>}, f)
    /\ \A f, t, n : Of(t, f) /\ n \in Changes(t, f) => Of(n, f)
  BY DEF Of, Changes

LEMMA OfMessages ==
    /\ \A f, g \in Files, t \in Texts : Of(t, f) => OfDown(Doc(f, t), g)
    /\ \A should \in BOOLEAN, t \in Texts : Of(t, Readme) => OfDown(Seed(should, t), Readme)
    /\ \A t \in Texts : Of(t, Readme) => OfDown(Update({}, t), Readme)
    /\ OfDown(Stopped, Readme)
    /\ \A f \in Files : OfUp(Ready, f)
    /\ \A f \in Files, t \in Texts : Of(t, f) => OfUp(Save(t), f)
    /\ \A f \in Files, t, u \in Texts : Of(u, Readme) => OfUp(Update(t, u), f)
<1>1. ASSUME NEW f \in Files, NEW t \in Texts, NEW u \in Texts, Of(u, Readme)
      PROVE  OfUp(Update(t, u), f)
  <2>1. Of(u \ t, Readme)
    BY <1>1, OfFacts
  <2>2. Update(t, u).add = u \ t /\ ~IsSave(Update(t, u))
    BY UpFacts
  <2> QED
    BY <2>1, <2>2 DEF OfUp
<1> QED
  BY <1>1, DownFacts, UpFacts DEF OfDown, OfUp

LEMMA OwnSent ==
    ASSUME Channels, UpsOwn, path' = path
    PROVE  /\ \A m \in UpMsgs : Send(<<m>>) /\ OfUp(m, path) => UpsOwn'
           /\ \A type : Handling(type) => UpsOwn' /\ OfUp(Head(up), path)
           /\ up' = up => UpsOwn'
  BY HeldUp DEF UpsOwn, Channels

LEMMA OwnEmitted ==
    ASSUME Channels, DownsOwn, path' = path
    PROVE  /\ \A m \in DownMsgs : Emit(<<m>>) /\ OfDown(m, path) => DownsOwn'
           /\ \A type : Receiving(type) => DownsOwn' /\ OfDown(Head(down), path)
           /\ down' = down => DownsOwn'
  BY HeldDown DEF DownsOwn, Channels

LEMMA SwitchingHeld == Switching <=> path # shows \/ \E m \in Held(down) : Foreign(m)
  BY DEF Switching, Held, Foreign, IsDoc

(* The page goes on showing the open document. *)
LEMMA Stays ==
    ASSUME ~Switching, path' = path, shows' = shows,
           \A m \in Held(down') : m \in Held(down) \/ ~Foreign(m)
    PROVE  ~Switching' /\ Passing'
<1>1. ~Switching'
  <2>1. path = shows /\ \A m \in Held(down) : ~Foreign(m)
    BY SwitchingHeld
  <2>2. path' = shows' /\ \A m \in Held(down') : ~(IsDoc(m) /\ m.of # path')
    BY <2>1 DEF Foreign
  <2> QED
    BY <2>2 DEF Switching, Held, IsDoc
<1> QED
  BY <1>1 DEF Passing

(* While another document is on its way, only documents come first. *)
LEMMA DocFirst ==
    ASSUME Channels, Passing, Switching, jsReady, down # <<>>
    PROVE  IsDoc(Head(down))
<1>1. PICK i \in DOMAIN down : Announced(i)
  BY DEF Passing
<1>2. 1 \in 1..i /\ Head(down) = down[1]
  BY TailFacts DEF Channels
<1> QED
  BY <1>1, <1>2 DEF Announced

LEMMA PassingEmits ==
    ASSUME Channels, Passing, UNCHANGED <<path, shows, jsReady, text, lastSynced, active, up>>,
           NEW m \in DownMsgs, ~Foreign(m), Emit(<<m>>)
    PROVE  Passing'
<1>1. CASE ~Switching
  BY <1>1, Stays, HeldDown DEF Channels
<1>2. CASE Switching
  <2> SUFFICES ASSUME jsReady PROVE \E i \in DOMAIN down' : Announced(i)'
    BY <1>2 DEF Passing
  <2>1. PICK i \in DOMAIN down : Announced(i)
    BY <1>2 DEF Passing
  <2>2. down' = Append(down, m)
    BY EmitType DEF Channels
  <2>3. /\ i \in DOMAIN down' /\ 1..i \subseteq DOMAIN down
        /\ \A j \in DOMAIN down : down'[j] = down[j]
        /\ \A j \in DOMAIN down' : j \in DOMAIN down \/ down'[j] = m
    BY <2>1, <2>2, AppendFacts DEF Channels
  <2> QED
    BY <2>1, <2>3 DEF Announced, Foreign
<1> QED
  BY <1>1, <1>2

LEMMA SaveTimerOwned ==
    ASSUME Halves, Owned, Passing, SaveTimer, Clean'
    PROVE  Owned' /\ Passing'
<1>1. /\ Channels /\ text \in Texts /\ UNCHANGED <<path, shows, down, text, active, jsReady>>
      /\ lastSynced' = text
      /\ \/ text = lastSynced /\ up' = up
         \/ text # lastSynced /\ Send(<<Save(text)>>)
  BY DEF Halves, Types, SaveTimer, diskVars, qtVars
<1>2. text # lastSynced => Of(text, path) /\ path \in Files
  BY DEF Halves, Types, Owned, OwnTexts
<1>3. UpsOwn' /\ DownsOwn'
  BY <1>1, <1>2, OwnSent, OwnEmitted, OfMessages, UpFacts DEF Owned
<1>4. OwnTexts'
  BY <1>1 DEF Owned, OwnTexts, OwnText, SaveTimer, diskVars, qtVars
<1>5. Passing'
  <2>1. text # lastSynced => ~Switching
    BY DEF Passing
  <2>2. CASE ~Switching
    BY <1>1, <2>2, Stays
  <2>3. CASE Switching
    BY <1>1, <2>1, <2>3 DEF Passing, Switching, Announced, Foreign
  <2> QED
    BY <2>2, <2>3
<1> QED
  BY <1>3, <1>4, <1>5 DEF Owned

LEMMA MaterialiseTimerOwned ==
    ASSUME Halves, Owned, Passing, MaterialiseTimer, Clean'
    PROVE  Owned' /\ Passing'
<1>1. /\ Channels /\ text \in Texts /\ UNCHANGED <<path, shows, down, text, active, jsReady>>
      /\ \/ lastSynced' = lastSynced /\ up' = up
         \/ active /\ lastSynced' = text /\ Send(<<Save(text)>>)
  BY DEF Halves, Types, MaterialiseTimer, diskVars, qtVars, history
<1>2. active => Of(text, path) /\ path \in Files
  BY DEF Halves, Types, Owned, OwnTexts
<1>3. UpsOwn' /\ DownsOwn'
  BY <1>1, <1>2, OwnSent, OwnEmitted, OfMessages, UpFacts DEF Owned
<1>4. OwnTexts'
  BY <1>1 DEF Owned, OwnTexts, OwnText, MaterialiseTimer, diskVars, qtVars, history
<1>5. Passing'
  <2>1. active => ~Switching
    BY DEF Passing
  <2>2. CASE ~Switching
    BY <1>1, <2>2, Stays
  <2>3. CASE Switching
    BY <1>1, <2>1, <2>3 DEF Passing, Switching, Announced, Foreign
  <2> QED
    BY <2>2, <2>3
<1> QED
  BY <1>3, <1>4, <1>5 DEF Owned

LEMMA UserEditsOwned ==
    ASSUME Halves, Owned, Passing, UserEdits, Clean'
    PROVE  Owned' /\ Passing'
<1>1. /\ Channels /\ text \in Texts /\ path \in Files /\ shows \in Files
      /\ UNCHANGED <<files, room, qtText, collab, due, path, shows, down, lastSynced, active, diskText>>
  BY DEF Halves, Types, UserEdits, diskVars, qtVars
<1>2. PICK new \in Changes(text, shows) : ChangeEditor(new)
  BY DEF UserEdits
<1>3. ~Switching /\ path = shows
  BY SwitchingHeld DEF Clean, UserEdits
<1>4. new \in Texts /\ Of(new, shows)
  BY <1>1, <1>2, ChangesFacts, BudgetFacts, OfFacts
  DEF UserEdits, Halves, Types, Owned, OwnTexts
<1>5. active => OfUp(Update(text, new), path)
  BY <1>1, <1>3, <1>4, OfMessages DEF Owned, OwnTexts
<1>6. UpsOwn' /\ DownsOwn'
  BY <1>1, <1>2, <1>4, <1>5, OwnSent, OwnEmitted, UpFacts DEF Owned, ChangeEditor
<1>7. OwnTexts'
  BY <1>1, <1>2, <1>3, <1>4 DEF Owned, OwnTexts, OwnText, ChangeEditor
<1> QED
  BY <1>1, <1>3, <1>6, <1>7, Stays DEF Owned

LEMMA ReloadFromDiskOwned ==
    ASSUME Halves, Owned, Passing, ReloadFromDisk, Clean'
    PROVE  Owned' /\ Passing'
<1>1. /\ Channels /\ text \in Texts /\ path \in Files /\ active
      /\ UNCHANGED <<files, room, qtText, collab, due, path, shows, down, lastSynced, active>>
      /\ diskText' = {}
  BY DEF Halves, Types, ReloadFromDisk, diskVars, qtVars
<1>2. PICK t \in diskText :
          IF t # text THEN ChangeEditor(t) ELSE UNCHANGED <<text, matTimer, saveTimer, up>>
  BY DEF ReloadFromDisk
<1>3. ~Switching /\ path = shows /\ path = Readme
  BY <1>1, SwitchingHeld DEF Passing, Owned, OwnTexts
<1>4. t \in Texts /\ Of(t, shows)
  BY <1>2, <1>3 DEF Halves, Types, Owned, OwnTexts
<1>5. OfUp(Update(text, t), path)
  BY <1>1, <1>3, <1>4, OfMessages
<1>6. UpsOwn' /\ DownsOwn'
  BY <1>1, <1>2, <1>4, <1>5, OwnSent, OwnEmitted, UpFacts DEF Owned, ChangeEditor
<1>7. OwnTexts'
  BY <1>1, <1>2, <1>3, <1>4 DEF Owned, OwnTexts, OwnText, ChangeEditor
<1> QED
  BY <1>1, <1>3, <1>6, <1>7, Stays DEF Owned

LEMMA OfferDiskOwned ==
    ASSUME Halves, Owned, Passing, OfferDisk, Clean'
    PROVE  Owned' /\ Passing'
<1>1. Channels /\ active /\ Receiving("doc") /\ path' = path /\ shows' = shows /\ up' = up
  BY DEF Halves, OfferDisk, qtVars, history
<1>2. ~Switching /\ path = shows /\ path = Readme
  BY <1>1, SwitchingHeld DEF Passing, Owned, OwnTexts
<1>3. Held(down') \subseteq Held(down) /\ Head(down) \in Held(down) /\ IsDoc(Head(down))
  BY <1>1, HeldDown DEF Channels, Receiving, IsDoc
<1>4. Of(Head(down).text, Readme)
  BY <1>1, <1>2, <1>3, OwnEmitted, SwitchingHeld DEF Owned, OfDown, Foreign
<1>5. UpsOwn' /\ DownsOwn'
  BY <1>1, OwnSent, OwnEmitted DEF Owned
<1>6. OwnTexts'
  BY <1>4, OfFacts DEF Owned, OwnTexts, OwnText, OfferDisk, diskVars, qtVars, history
<1> QED
  BY <1>1, <1>2, <1>3, <1>5, <1>6, Stays DEF Owned

LEMMA TakeDiskOwned ==
    ASSUME Halves, Owned, Passing, TakeDisk, Clean'
    PROVE  Owned' /\ Passing'
<1> DEFINE m == Head(down)
<1>1. /\ Channels /\ ~active /\ Receiving("doc") /\ path' = path /\ up' = up
      /\ UNCHANGED <<diskVars, qtVars, diskText, active>>
      /\ \/ text' = m.text /\ lastSynced' = m.text /\ shows' = m.of
         \/ UNCHANGED <<text, lastSynced>> /\ text = lastSynced /\ shows' = m.of
            /\ m.text = text
         \/ UNCHANGED <<text, lastSynced, shows>> /\ text # lastSynced
  BY DEF Halves, TakeDisk, TakeIf, qtVars
<1>2. Held(down') \subseteq Held(down) /\ m \in Held(down) /\ IsDoc(m)
  BY <1>1, HeldDown DEF Channels, Receiving, IsDoc
<1>3. UpsOwn' /\ DownsOwn' /\ Of(m.text, m.of)
  BY <1>1, <1>2, OwnSent, OwnEmitted DEF Owned, OfDown
<1> HIDE DEF m
<1>4. OwnTexts'
  BY <1>1, <1>3 DEF Owned, OwnTexts, OwnText, diskVars, qtVars
<1>5. Passing'
  <2>1. CASE ~Switching
    <3>1. path = shows /\ shows' = shows
      BY <1>1, <1>2, <2>1, SwitchingHeld DEF Foreign
    <3> QED
      BY <1>1, <1>2, <2>1, <3>1, Stays
  <2>2. CASE Switching
    <3> SUFFICES ASSUME Switching' PROVE Passing'
      BY DEF Passing
    <3>1. text = lastSynced /\ text' = lastSynced' /\ shows' = m.of
      BY <1>1, <2>2 DEF Passing
    <3>2. jsReady
      BY <1>1 DEF Halves, Starting, Receiving
    <3>3. PICK i \in DOMAIN down : Announced(i)
      BY <2>2, <3>2 DEF Passing
    <3>4. /\ down' = Tail(down) /\ m = down[1]
          /\ \A j \in DOMAIN down' : j + 1 \in DOMAIN down /\ down'[j] = down[j + 1]
          /\ \A j \in DOMAIN down : j = 1 \/ (j - 1 \in DOMAIN down' /\ down'[j - 1] = down[j])
          /\ DOMAIN down = 1..Len(down) /\ Len(down) \in Nat
      BY <1>1, TailFacts DEF Channels, Receiving, m
    <3>5. i # 1
      <4> SUFFICES ASSUME i = 1 PROVE FALSE
        OBVIOUS
      <4>1. \A j \in DOMAIN down : IsDoc(down[j]) => down[j].of = path
        BY <3>3, <3>4 DEF Announced, Foreign
      <4>2. shows' = path
        BY <3>1, <3>3, <3>4 DEF Announced
      <4>3. \A j \in DOMAIN down' : IsDoc(down'[j]) => down'[j].of = path
        BY <3>4, <4>1
      <4> QED
        BY <1>1, <4>2, <4>3 DEF Switching, IsDoc
    <3>6. Announced(i - 1)'
      <4>1. i - 1 \in DOMAIN down' /\ down'[i - 1] = down[i]
        BY <3>4, <3>5
      <4>2. \A j \in 1..(i - 1) : j + 1 \in 1..i /\ j \in DOMAIN down'
        BY <3>4, <4>1
      <4>3. \A j \in 1..(i - 1) : IsDoc(down'[j])
        BY <3>3, <3>4, <4>2 DEF Announced
      <4>4. \A j \in DOMAIN down' : i - 1 < j => ~Foreign(down[j + 1])
        BY <3>3, <3>4 DEF Announced
      <4> QED
        BY <1>1, <3>3, <3>4, <4>1, <4>3, <4>4 DEF Announced, Foreign
    <3> QED
      BY <1>1, <2>2, <3>1, <3>4, <3>5, <3>6 DEF Passing
  <2> QED
    BY <2>1, <2>2
<1> QED
  BY <1>3, <1>4, <1>5 DEF Owned

LEMMA EnterCollabOwned ==
    ASSUME Halves, Owned, Passing, EnterCollab, Clean'
    PROVE  Owned' /\ Passing'
<1> DEFINE m == Head(down)
           first == IF ~m.should THEN {} ELSE IF text # {} THEN text ELSE m.text
<1>1. /\ Channels /\ Receiving("seed") /\ UNCHANGED <<diskVars, qtVars, path>>
      /\ \/ UNCHANGED <<text, lastSynced, diskText, up, shows, active>>
         \/ /\ text' = first /\ shows' = Readme /\ lastSynced' = lastSynced
            /\ diskText' = diskText
            /\ up' = up \/ Send(<<Update({}, first)>>)
  BY DEF Halves, EnterCollab, pageVars, qtVars
<1>2. Held(down') \subseteq Held(down) /\ Head(down) \in Held(down) /\ IsSeed(Head(down))
      /\ ~IsDoc(Head(down)) /\ Head(down) \in DownMsgs
  BY <1>1, HeldDown, ReceivingType DEF Channels, Receiving, IsDoc, IsSeed
<1>3. path = Readme
  BY <1>1, <1>2, OwnEmitted DEF Owned, OfDown
<1>4. ~Switching /\ path = shows
  <2>1. jsReady /\ down # <<>>
    BY <1>1 DEF Halves, Starting, Receiving
  <2> QED
    BY <1>1, <1>2, <2>1, DocFirst, SwitchingHeld

<1>5. first \in Texts /\ Of(first, Readme)
  <2>1. m.text \in Texts /\ Of(m.text, Readme)
    BY <1>1, <1>2, DownType, OwnEmitted DEF Owned, OfDown
  <2>2. text \in Texts /\ Of(text, Readme)
    BY <1>3, <1>4 DEF Halves, Types, Owned, OwnTexts
  <2> QED
    BY <2>1, <2>2, TextsClosed, OfFacts
<1>6. Update({}, first) \in UpMsgs /\ OfUp(Update({}, first), path)
  BY <1>5, UpFacts, OfMessages, TextsClosed DEF Halves, Types
<1> HIDE DEF first, m
<1>7. path' = path /\ shows' = shows
  BY <1>1, <1>3, <1>4 DEF qtVars
<1>8. UpsOwn' /\ DownsOwn'
  BY <1>1, <1>6, <1>7, OwnSent, OwnEmitted DEF Owned
<1>9. OwnTexts'
  BY <1>1, <1>3, <1>4, <1>5, <1>7 DEF Owned, OwnTexts, OwnText, diskVars, qtVars
<1> QED
  BY <1>2, <1>4, <1>7, <1>8, <1>9, Stays DEF Owned

LEMMA ReceiveUpdateOwned ==
    ASSUME Halves, Owned, Passing, ReceiveUpdate, Clean'
    PROVE  Owned' /\ Passing'
<1> DEFINE new == Apply(text, Head(down))
<1>1. /\ Channels /\ Receiving("update") /\ path' = path /\ shows' = shows /\ up' = up
      /\ UNCHANGED <<files, room, due, qtText, collab, diskText, lastSynced, active>>
      /\ text' = text \/ (active /\ text' = new)
  BY DEF Halves, ReceiveUpdate, diskVars, qtVars, history
<1>2. Held(down') \subseteq Held(down) /\ Head(down) \in Held(down) /\ IsUpdate(Head(down))
      /\ ~IsDoc(Head(down)) /\ Head(down) \in DownMsgs
  BY <1>1, HeldDown, ReceivingType DEF Channels, Receiving, IsDoc, IsUpdate
<1>3. path = Readme
  BY <1>1, <1>2, OwnEmitted DEF Owned, OfDown
<1>4. ~Switching /\ path = shows
  <2>1. jsReady /\ down # <<>>
    BY <1>1 DEF Halves, Starting, Receiving
  <2> QED
    BY <1>1, <1>2, <2>1, DocFirst, SwitchingHeld

<1>5. Of(new, shows)
  <2>1. Of(Head(down).add, Readme)
    BY <1>1, <1>2, OwnEmitted DEF Owned, OfDown
  <2>2. Of(text \cup Head(down).add, shows)
    BY <1>3, <1>4, <2>1, OfFacts DEF Owned, OwnTexts
  <2> QED
    BY <2>2, OfFacts DEF Apply
<1> HIDE DEF new
<1>6. UpsOwn' /\ DownsOwn'
  BY <1>1, OwnSent, OwnEmitted DEF Owned
<1>7. OwnTexts'
  BY <1>1, <1>3, <1>4, <1>5 DEF Owned, OwnTexts, OwnText, diskVars, qtVars
<1> QED
  BY <1>1, <1>2, <1>4, <1>6, <1>7, Stays DEF Owned

LEMMA LeaveCollabOwned ==
    ASSUME Halves, Owned, Passing, LeaveCollab, Clean'
    PROVE  Owned' /\ Passing'
<1>1. /\ Channels /\ Receiving("stopped") /\ path' = path /\ shows' = shows /\ text' = text
      /\ UNCHANGED <<diskVars, qtVars>>
      /\ \/ UNCHANGED <<diskText, lastSynced, active, up>>
         \/ /\ ~active' /\ lastSynced' = text /\ diskText' = {}
            /\ Send(<<Save(text)>>)
  BY DEF Halves, LeaveCollab, LeaveWith, qtVars
<1>2. Held(down') \subseteq Held(down) /\ Head(down) \in Held(down) /\ IsStop(Head(down))
      /\ ~IsDoc(Head(down)) /\ Head(down) \in DownMsgs
  BY <1>1, HeldDown, ReceivingType DEF Channels, Receiving, IsDoc, IsStop
<1>3. path = Readme
  BY <1>1, <1>2, OwnEmitted DEF Owned, OfDown
<1>4. ~Switching /\ path = shows
  <2>1. jsReady /\ down # <<>>
    BY <1>1 DEF Halves, Starting, Receiving
  <2> QED
    BY <1>1, <1>2, <2>1, DocFirst, SwitchingHeld

<1>5. Save(text) \in UpMsgs /\ OfUp(Save(text), path)
  BY <1>4, UpFacts, OfMessages DEF Halves, Types, Owned, OwnTexts
<1>6. UpsOwn' /\ DownsOwn'
  BY <1>1, <1>5, OwnSent, OwnEmitted DEF Owned
<1>7. OwnTexts'
  BY <1>1, <1>3, <1>4 DEF Owned, OwnTexts, OwnText, diskVars, qtVars
<1> QED
  BY <1>1, <1>2, <1>4, <1>6, <1>7, Stays DEF Owned

LEMMA ToggleOnOwned ==
    ASSUME Halves, Owned, Passing, ToggleOn, Clean'
    PROVE  Owned' /\ Passing'
<1>1. /\ UNCHANGED <<path, shows, jsReady, text, lastSynced, active, up, down, files, room,
                     qtText, diskText, due>>
      /\ collab' => collab \/ path = Readme
  BY DEF ToggleOn, ToggleOnIf, StartCollab, Clean, pageVars
<1> QED
  BY <1>1 DEF Owned, OwnTexts, OwnText, DownsOwn, UpsOwn, Passing, Switching, Announced, Foreign

LEMMA ToggleOffOwned ==
    ASSUME Halves, Owned, Passing, ToggleOff, Clean'
    PROVE  Owned' /\ Passing'
<1>1. /\ Channels /\ UNCHANGED <<path, shows, jsReady, text, lastSynced, active, up>>
      /\ UNCHANGED <<files, room, qtText, diskText>> /\ due' \subseteq due
      /\ \/ collab /\ ~collab' /\ Emit(<<Stopped>>)
         \/ collab' = collab /\ down' = down
  BY DEF Halves, ToggleOff, StopCollab, pageVars, history
<1>2. collab => OfDown(Stopped, path)
  BY OfMessages DEF Owned, OwnTexts
<1>3. Stopped \in DownMsgs /\ ~Foreign(Stopped)
  BY DownFacts DEF Foreign
<1>4. DownsOwn' /\ UpsOwn'
  BY <1>1, <1>2, <1>3, OwnEmitted, OwnSent DEF Owned
<1>5. OwnTexts'
  BY <1>1 DEF Owned, OwnTexts, OwnText
<1>6. Passing'
  <2>1. CASE Emit(<<Stopped>>)
    BY <1>1, <1>3, <2>1, PassingEmits
  <2>2. CASE down' = down
    BY <1>1, <2>2 DEF Passing, Switching, Announced, Foreign
  <2> QED
    BY <1>1, <2>1, <2>2
<1> QED
  BY <1>4, <1>5, <1>6 DEF Owned

LEMMA RetargetOwned ==
    ASSUME Halves, Owned, Passing, Retarget, Clean'
    PROVE  Owned' /\ Passing'
<1>1. /\ Channels /\ UNCHANGED <<path, shows, jsReady, text, lastSynced, active, up>>
      /\ UNCHANGED <<files, room, qtText, diskText>> /\ due' \subseteq due
      /\ \/ collab /\ ~collab' /\ Emit(<<Stopped>>)
         \/ collab' = collab /\ down' = down
  BY DEF Halves, Retarget, StopCollab, pageVars, history
<1>2. collab => OfDown(Stopped, path)
  BY OfMessages DEF Owned, OwnTexts
<1>3. Stopped \in DownMsgs /\ ~Foreign(Stopped)
  BY DownFacts DEF Foreign
<1>4. DownsOwn' /\ UpsOwn'
  BY <1>1, <1>2, <1>3, OwnEmitted, OwnSent DEF Owned
<1>5. OwnTexts'
  BY <1>1 DEF Owned, OwnTexts, OwnText
<1>6. Passing'
  <2>1. CASE Emit(<<Stopped>>)
    BY <1>1, <1>3, <2>1, PassingEmits
  <2>2. CASE down' = down
    BY <1>1, <2>2 DEF Passing, Switching, Announced, Foreign
  <2> QED
    BY <1>1, <2>1, <2>2
<1> QED
  BY <1>4, <1>5, <1>6 DEF Owned

LEMMA OpenOwned ==
    ASSUME Halves, Owned, Passing, Open, Clean'
    PROVE  Owned' /\ Passing'
<1> DEFINE m == Doc(path', qtText')
<1>1. /\ path' \in Files /\ files' = files /\ qtText' \in Texts /\ m \in DownMsgs
      /\ jsReady => AtRest
      /\ qtText' = files[path'] \/ qtText' = {}
      /\ UNCHANGED <<room, jsReady, up, pageVars, shows>>
      /\ due' \subseteq due /\ Channels
      /\ ~collab => ~collab'
  BY OpenFacts DEF Open, OpenTelling, Clean, StopCollab, Halves, Types
<1>2. ~active /\ ~collab /\ ~collab' /\ text = lastSynced /\ Held(up) \subseteq {Ready}
  <2>1. CASE jsReady
    <3>1. AtRest /\ ~collab
      BY <1>1, <2>1 DEF AtRest
    <3>2. Held(up) = {}
      <4>1. up = <<>>
        BY <3>1 DEF AtRest
      <4> QED
        BY <4>1 DEF Held
    <3>3. ~active /\ ~collab /\ text = lastSynced
      BY <3>1 DEF AtRest
    <3> QED
      BY <1>1, <3>2, <3>3
  <2>2. CASE ~jsReady
    <3>1. Held(<<Ready>>) = {Ready}
      BY DEF Held
    <3> QED
      BY <1>1, <2>2, <3>1 DEF Halves, Starting, Untouched
  <2> QED
    BY <2>1, <2>2
<1>3. down' = IF jsReady THEN Append(down, m) ELSE down
  BY <1>2, OpenFacts
<1>4. /\ jsReady => \A i \in DOMAIN down : IsDoc(down[i])
      /\ ~jsReady => down = <<>>
  BY <1>1 DEF AtRest, Halves, Starting, IsDoc
<1>5. IsDoc(m) /\ m.of = path' /\ m.text = qtText' /\ OfDown(m, path') /\ Of(qtText', path')
  <2>1. Of(qtText', path')
    BY <1>1 DEF Owned, OwnTexts, OwnText, Of
  <2> QED
    BY <1>1, <2>1, DownFacts, OfMessages
<1> HIDE DEF m
<1>6. /\ jsReady => /\ Len(down) + 1 \in DOMAIN down' /\ down'[Len(down) + 1] = m
                    /\ DOMAIN down' = 1..(Len(down) + 1) /\ Len(down) \in Nat
                    /\ \A i \in DOMAIN down' : IsDoc(down'[i])
      /\ Held(down') \subseteq Held(down) \cup {m}
  BY <1>1, <1>3, <1>4, <1>5, AppendFacts, HeldFacts DEF Channels
<1>7. DownsOwn'
  <2>1. ASSUME NEW n \in Held(down) PROVE OfDown(n, path')
    <3>1. jsReady /\ IsDoc(n)
      BY <1>4, <2>1 DEF Held
    <3> QED
      BY <3>1 DEF Owned, DownsOwn, OfDown
  <2> QED
    BY <1>5, <1>6, <2>1 DEF DownsOwn
<1>8. UpsOwn'
  BY <1>1, <1>2, OfMessages DEF UpsOwn
<1>9. OwnTexts'
  BY <1>1, <1>2, <1>5 DEF Owned, OwnTexts, OwnText, pageVars
<1>10. Passing'
  <2> SUFFICES ASSUME jsReady PROVE \E i \in DOMAIN down' : Announced(i)'
    BY <1>1, <1>2 DEF Passing, pageVars
  <2>1. PICK i \in DOMAIN down' : i = Len(down) + 1
    BY <1>6
  <2>2. Announced(i)'
    BY <1>1, <1>5, <1>6, <2>1 DEF Announced
  <2> QED
    BY <2>2
<1> QED
  BY <1>7, <1>8, <1>9, <1>10 DEF Owned

LEMMA ReadAgainOwned ==
    ASSUME Halves, Owned, Passing, ReadAgain, Clean'
    PROVE  Owned' /\ Passing'
<1> DEFINE m == Doc(path, files[path])
<1>1. /\ Channels /\ UNCHANGED <<path, shows, jsReady, text, lastSynced, active, up>>
      /\ UNCHANGED <<files, room, diskText, due, collab>> /\ qtText' = files[path]
      /\ Emit(<<m>>) /\ path \in Files /\ files[path] \in Texts
  BY DEF Halves, Types, ReadAgain, Reading, diskVars, pageVars, history
<1>2. Of(files[path], path)
  BY <1>1 DEF Owned, OwnTexts, OwnText, Of
<1>3. m \in DownMsgs /\ ~Foreign(m) /\ OfDown(m, path)
  BY <1>1, <1>2, DownFacts, OfMessages DEF Foreign
<1> HIDE DEF m
<1>4. DownsOwn' /\ UpsOwn' /\ Passing'
  BY <1>1, <1>3, OwnEmitted, OwnSent, PassingEmits DEF Owned
<1>5. OwnTexts'
  BY <1>1, <1>2 DEF Owned, OwnTexts, OwnText
<1> QED
  BY <1>4, <1>5 DEF Owned

LEMMA ReadNothingOwned ==
    ASSUME Halves, Owned, Passing, ReadNothing, Clean'
    PROVE  Owned' /\ Passing'
<1> DEFINE m == Doc(path, {})
<1>1. /\ Channels /\ UNCHANGED <<path, shows, jsReady, text, lastSynced, active, up>>
      /\ UNCHANGED <<files, room, diskText, due, collab>> /\ qtText' = {}
      /\ Emit(<<m>>) /\ path \in Files /\ {} \in Texts /\ Of({}, path)
  BY OfFacts DEF Halves, Types, ReadNothing, Reading, pageVars, Texts
<1>2. m \in DownMsgs /\ ~Foreign(m) /\ OfDown(m, path)
  BY <1>1, DownFacts, OfMessages DEF Foreign
<1> HIDE DEF m
<1>3. DownsOwn' /\ UpsOwn' /\ Passing'
  BY <1>1, <1>2, OwnEmitted, OwnSent, PassingEmits DEF Owned
<1>4. OwnTexts'
  BY <1>1 DEF Owned, OwnTexts, OwnText
<1> QED
  BY <1>3, <1>4 DEF Owned

LEMMA ReadBeforeOwned ==
    ASSUME Halves, Owned, Passing, ReadBefore, Clean'
    PROVE  Owned' /\ Passing'
<1> DEFINE m == Doc(path, files[path])
<1>1. /\ Channels /\ UNCHANGED <<path, shows, jsReady, text, lastSynced, active, up>>
      /\ UNCHANGED <<room, diskText, due, collab>> /\ qtText' = files[path]
      /\ Emit(<<m>>) /\ path \in Files /\ files[path] \in Texts /\ files \in [Files -> Texts]
  BY DEF Halves, Types, ReadBefore, Reading, pageVars
<1>2. Of(files[path], path)
  BY <1>1 DEF Owned, OwnTexts, OwnText, Of
<1>3. m \in DownMsgs /\ ~Foreign(m) /\ OfDown(m, path)
  BY <1>1, <1>2, DownFacts, OfMessages DEF Foreign
<1>4. PICK new \in Changes(files[path], path) : files' = [files EXCEPT ![path] = new]
  BY DEF ReadBefore, Replace
<1>5. Of(new, path)
  BY <1>2, <1>4, OfFacts
<1> HIDE DEF m
<1>6. DownsOwn' /\ UpsOwn' /\ Passing'
  BY <1>1, <1>3, OwnEmitted, OwnSent, PassingEmits DEF Owned
<1>7. OwnText'
  BY <1>1, <1>4, <1>5 DEF Owned, OwnTexts, OwnText, Of
<1>8. OwnTexts'
  BY <1>1, <1>2, <1>7 DEF Owned, OwnTexts
<1> QED
  BY <1>6, <1>8 DEF Owned

LEMMA HandleReadyOwned ==
    ASSUME Halves, Owned, Passing, HandleReady, Clean'
    PROVE  Owned' /\ Passing'
<1> DEFINE m == Doc(path, qtText)
<1>1. /\ Channels /\ UNCHANGED <<path, shows, text, lastSynced, active>> /\ jsReady'
      /\ UNCHANGED <<files, room, diskText, due, qtText>> /\ Handling("ready")
      /\ down' = Append(down, m) /\ path \in Files /\ qtText \in Texts
      /\ collab' => collab \/ path = Readme
  BY DEF Halves, Types, HandleReady, pageVars, StartCollab, Clean
<1>2. m \in DownMsgs /\ ~Foreign(m) /\ OfDown(m, path) /\ IsDoc(m) /\ m.of = path
  BY <1>1, DownFacts, OfMessages DEF Foreign, Owned, OwnTexts
<1> HIDE DEF m
<1>3. Held(down') = Held(down) \cup {m}
  BY <1>1, <1>2, HeldFacts DEF Channels
<1>4. DownsOwn' /\ UpsOwn'
  BY <1>1, <1>2, <1>3, OwnSent DEF Owned, DownsOwn
<1>5. OwnTexts'
  BY <1>1 DEF Owned, OwnTexts, OwnText
<1>6. Passing'
  <2>1. CASE ~Switching
    BY <1>1, <1>2, <1>3, <2>1, Stays
  <2>2. CASE Switching /\ jsReady
    <3>1. PICK i \in DOMAIN down : Announced(i)
      BY <2>2 DEF Passing
    <3>2. /\ i \in DOMAIN down' /\ 1..i \subseteq DOMAIN down
          /\ \A j \in DOMAIN down : down'[j] = down[j]
          /\ \A j \in DOMAIN down' : j \in DOMAIN down \/ down'[j] = m
      BY <1>1, <1>2, <3>1, AppendFacts DEF Channels
    <3>3. Announced(i)'
      BY <1>1, <1>2, <3>1, <3>2 DEF Announced, Foreign
    <3>4. Held(up') \subseteq Held(up)
      BY <1>1, HeldUp DEF Channels
    <3> QED
      BY <1>1, <2>2, <3>2, <3>3, <3>4 DEF Passing
  <2>3. CASE Switching /\ ~jsReady
    <3>1. down = <<>>
      BY <2>3 DEF Halves, Starting
    <3>2. DOMAIN down' = {1} /\ down'[1] = m
      BY <1>1, <1>2, <3>1, AppendFacts DEF Channels
    <3>3. Announced(1)'
      BY <1>1, <1>2, <3>2 DEF Announced
    <3>4. Held(up') \subseteq Held(up)
      BY <1>1, HeldUp DEF Channels
    <3> QED
      BY <1>1, <2>3, <3>2, <3>3, <3>4 DEF Passing
  <2> QED
    BY <2>1, <2>2, <2>3
<1> QED
  BY <1>4, <1>5, <1>6 DEF Owned

LEMMA WriteOwned ==
    ASSUME Halves, Owned, Passing, Write, Clean'
    PROVE  Owned' /\ Passing'
<1>1. /\ Channels /\ Handling("save") /\ path \in Files /\ files \in [Files -> Texts]
      /\ UNCHANGED <<path, shows, down, room, qtText, collab, due, pageVars>>
      /\ files' = [files EXCEPT ![path] = Head(up).text]
  BY DEF Halves, Types, Write, history
<1>2. Head(up) \in Held(up) /\ IsSave(Head(up)) /\ Head(up) # Ready
  BY <1>1, HeldUp, UpFacts DEF Channels, Handling, IsSave
<1>3. ~Switching
  BY <1>2 DEF Passing
<1>4. DownsOwn' /\ UpsOwn' /\ Of(Head(up).text, path)
  BY <1>1, <1>2, OwnSent, OwnEmitted DEF Owned, OfUp
<1>5. OwnTexts'
  BY <1>1, <1>4 DEF Owned, OwnTexts, OwnText, Of, pageVars
<1> QED
  BY <1>1, <1>3, <1>4, <1>5, Stays DEF Owned

LEMMA WriteFailsOwned ==
    ASSUME Halves, Owned, Passing, WriteFails, Clean'
    PROVE  Owned' /\ Passing'
<1>1. /\ Channels /\ Handling("save")
      /\ UNCHANGED <<path, shows, down, files, room, qtText, collab, due, pageVars>>
  BY DEF Halves, WriteFails, diskVars, qtVars
<1>2. Head(up) \in Held(up) /\ IsSave(Head(up)) /\ Head(up) # Ready
  BY <1>1, HeldUp, UpFacts DEF Channels, Handling, IsSave
<1>3. ~Switching
  BY <1>2 DEF Passing
<1>4. DownsOwn' /\ UpsOwn'
  BY <1>1, OwnSent, OwnEmitted DEF Owned
<1>5. OwnTexts'
  BY <1>1 DEF Owned, OwnTexts, OwnText, pageVars
<1> QED
  BY <1>1, <1>3, <1>4, <1>5, Stays DEF Owned

LEMMA HandleUpdateOwned ==
    ASSUME Halves, Owned, Passing, HandleUpdate, Clean'
    PROVE  Owned' /\ Passing'
<1>1. /\ Channels /\ Handling("update") /\ room' \in {room, Apply(room, Head(up))}
      /\ UNCHANGED <<path, shows, down, files, qtText, collab, due, pageVars>>
  BY DEF Halves, HandleUpdate, qtVars
<1>2. Head(up) \in Held(up) /\ IsUpdate(Head(up)) /\ Head(up) # Ready
  BY <1>1, HeldUp, UpFacts DEF Channels, Handling, IsUpdate
<1>3. ~Switching
  BY <1>2 DEF Passing
<1>4. DownsOwn' /\ UpsOwn' /\ Of(Head(up).add, Readme)
  BY <1>1, <1>2, OwnSent, OwnEmitted DEF Owned, OfUp
<1>5. Of(Apply(room, Head(up)), Readme)
  <2>1. Of(room \cup Head(up).add, Readme)
    BY <1>4, OfFacts DEF Owned, OwnTexts
  <2> QED
    BY <2>1, OfFacts DEF Apply
<1>6. OwnTexts'
  BY <1>1, <1>5 DEF Owned, OwnTexts, OwnText, pageVars
<1> QED
  BY <1>1, <1>3, <1>4, <1>6, Stays DEF Owned

LEMMA ExternalEditOwned ==
    ASSUME Halves, Owned, Passing, ExternalEdit, Clean'
    PROVE  Owned' /\ Passing'
<1>1. /\ Channels /\ path \in Files /\ files \in [Files -> Texts]
      /\ UNCHANGED <<path, shows, down, up, jsReady, room, qtText, collab, due, pageVars>>
  BY DEF Halves, Types, ExternalEdit, Replace
<1>2. PICK new \in Changes(files[path], path) : files' = [files EXCEPT ![path] = new]
  BY DEF ExternalEdit, Replace
<1>3. Of(files[path], path)
  BY <1>1 DEF Owned, OwnTexts, OwnText, Of
<1>4. Of(new, path)
  BY <1>2, <1>3, OfFacts
<1>5. DownsOwn' /\ UpsOwn'
  BY <1>1, OwnSent, OwnEmitted DEF Owned
<1>6. OwnTexts'
  BY <1>1, <1>2, <1>4 DEF Owned, OwnTexts, OwnText, Of, pageVars
<1>7. Passing'
  BY <1>1 DEF Passing, Switching, Announced, Foreign, pageVars
<1> QED
  BY <1>5, <1>6, <1>7 DEF Owned

LEMMA HubAdmitsOwned ==
    ASSUME Halves, Owned, Passing, HubAdmits, Clean'
    PROVE  Owned' /\ Passing'
<1> DEFINE t == IF seeded THEN {} ELSE {<<Readme, 0>>}
           m == Seed(~seeded, t)
<1>1. /\ Channels /\ UNCHANGED <<path, shows, jsReady, text, lastSynced, active, up>>
      /\ UNCHANGED <<files, room, qtText, diskText, collab>> /\ due' \subseteq {room}
      /\ Emit(<<m>>) /\ path = Readme /\ seeded \in BOOLEAN
  BY DEF Halves, Types, HubAdmits, qtVars, pageVars, history, Owned, OwnTexts
<1>2. t \in Texts /\ Of(t, Readme)
  BY TextsClosed, FirstText, OfFacts
<1>3. m \in DownMsgs /\ ~IsDoc(m) /\ OfDown(m, path)
  BY <1>1, <1>2, DownFacts, OfMessages
<1> HIDE DEF m, t
<1>4. DownsOwn' /\ UpsOwn' /\ Passing'
  BY <1>1, <1>3, OwnEmitted, OwnSent, PassingEmits DEF Owned, Foreign
<1>5. OwnTexts'
  BY <1>1 DEF Owned, OwnTexts, OwnText
<1> QED
  BY <1>4, <1>5 DEF Owned

LEMMA HubReplaysOwned ==
    ASSUME Halves, Owned, Passing, HubReplays, Clean'
    PROVE  Owned' /\ Passing'
<1>1. PICK t \in due : Emit(<<Update({}, t)>>)
  BY DEF HubReplays
<1>2. /\ Channels /\ UNCHANGED <<path, shows, jsReady, text, lastSynced, active, up>>
      /\ UNCHANGED <<files, room, qtText, diskText, collab>> /\ due' = {}
      /\ path = Readme /\ t \in Texts /\ Of(t, Readme)
  BY <1>1 DEF Halves, Types, HubReplays, qtVars, pageVars, history, Owned, OwnTexts
<1>3. Update({}, t) \in DownMsgs /\ ~IsDoc(Update({}, t)) /\ OfDown(Update({}, t), path)
  BY <1>2, DownFacts, OfMessages
<1>4. DownsOwn' /\ UpsOwn' /\ Passing'
  BY <1>1, <1>2, <1>3, OwnEmitted, OwnSent, PassingEmits DEF Owned, Foreign
<1>5. OwnTexts'
  BY <1>2 DEF Owned, OwnTexts, OwnText
<1> QED
  BY <1>4, <1>5 DEF Owned

LEMMA PeerEditOwned ==
    ASSUME Halves, Owned, Passing, PeerEdit, Clean'
    PROVE  Owned' /\ Passing'
<1> DEFINE new == {<<Readme, acts'>>}
           m   == Update({}, new)
<1>1. /\ Channels /\ UNCHANGED <<path, shows, jsReady, text, lastSynced, active, up>>
      /\ UNCHANGED <<files, qtText, diskText, collab>>
      /\ room' = room \cup new /\ due' = {t \cup new : t \in due}
      /\ \/ Emit(<<m>>) /\ member = "in"
         \/ down' = down
  BY DEF Halves, PeerEdit, qtVars, pageVars, history
<1>2. new \in Texts /\ Of(new, Readme) /\ (member = "in" => path = Readme)
  BY BudgetFacts, SingleText, FirstText, OfFacts DEF PeerEdit, Halves, Types, Owned, OwnTexts
<1>3. m \in DownMsgs /\ ~Foreign(m) /\ (member = "in" => OfDown(m, path))
  BY <1>2, DownFacts, OfMessages DEF Foreign
<1> HIDE DEF new, m
<1>4. DownsOwn' /\ UpsOwn'
  BY <1>1, <1>3, OwnEmitted, OwnSent DEF Owned
<1>5. OwnTexts'
  BY <1>1, <1>2, OfFacts DEF Owned, OwnTexts, OwnText
<1>6. Passing'
  <2>1. CASE Emit(<<m>>)
    BY <1>1, <1>3, <2>1, PassingEmits
  <2>2. CASE down' = down
    BY <1>1, <2>2 DEF Passing, Switching, Announced, Foreign
  <2> QED
    BY <1>1, <2>1, <2>2
<1> QED
  BY <1>4, <1>5, <1>6 DEF Owned

LEMMA InitOwned == Init => OwnInv
<1> SUFFICES ASSUME Init PROVE Owned /\ Passing
  BY DEF OwnInv
<1>1. Held(down) = {} /\ Held(up) = {Ready}
  BY DEF Init, Held
<1>2. OwnTexts
  BY OfFacts, ViewAssumption DEF Init, OwnTexts, OwnText, Of
<1>3. DownsOwn /\ UpsOwn
  BY <1>1, OfMessages, ViewAssumption DEF Init, DownsOwn, UpsOwn
<1>4. Passing
  BY <1>1 DEF Init, Passing, Switching
<1> QED
  BY <1>2, <1>3, <1>4 DEF Owned

LEMMA StepOwned == Halves /\ OwnInv /\ [Next]_vars => OwnInv'
<1> SUFFICES ASSUME Halves, OwnInv, [Next]_vars, Clean' PROVE Owned' /\ Passing'
  BY DEF OwnInv
<1>0. Owned /\ Passing
  BY HurtGrows DEF OwnInv, Clean
<1>1. CASE UNCHANGED vars
  BY <1>0, <1>1
  DEF vars, diskVars, qtVars, pageVars, history, Owned, OwnTexts, OwnText, DownsOwn, UpsOwn,
      Passing, Switching, Announced, Foreign
<1>2. CASE PageStep
  BY <1>0, <1>2, SaveTimerOwned, MaterialiseTimerOwned, OfferDiskOwned, TakeDiskOwned,
     EnterCollabOwned, ReceiveUpdateOwned, LeaveCollabOwned DEF PageStep
<1>3. CASE QtStep
  BY <1>0, <1>3, ReadAgainOwned, ReadNothingOwned, ReadBeforeOwned, HandleReadyOwned, WriteOwned,
     WriteFailsOwned, HandleUpdateOwned DEF QtStep, Reload, HandleSave
<1>4. CASE People
  BY <1>0, <1>4, UserEditsOwned, ReloadFromDiskOwned, ToggleOnOwned, ToggleOffOwned,
     RetargetOwned, OpenOwned, ExternalEditOwned, PeerEditOwned DEF People
<1> QED
  BY <1>0, <1>1, <1>2, <1>3, <1>4, HubAdmitsOwned, HubReplaysOwned DEF Next

(* No document gets what was meant for another one, as long as documents are *)
(* only switched when the page is at rest, and only the README is            *)
(* collaborated on.                                                          *)
THEOREM EveryTextItsOwn == Spec => []OwnTextAtRest
<1>1. OwnInv => OwnTextAtRest
  BY DEF OwnInv, Clean, Owned, OwnTexts, OwnTextAtRest
<1> QED
  BY <1>1, InitHalves, StepHalves, InitOwned, StepOwned, PTL DEF Spec

----------------------------------------------------------------------------
(* The page follows the file.                                               *)

LEMMA FileEmits ==
    ASSUME Channels, UNCHANGED <<path, files>>, NEW m \in DownMsgs, ~IsDoc(m), Emit(<<m>>)
    PROVE  (Coming => Coming') /\ (NoDoc => NoDoc')
<1>1. down' = down \/ down' = Append(down, m)
  BY EmitType DEF Channels
<1>2. /\ \A i \in DOMAIN down : i \in DOMAIN down' /\ down'[i] = down[i]
      /\ \A i \in DOMAIN down' : i \in DOMAIN down \/ ~IsDoc(down'[i])
  BY <1>1, AppendFacts DEF Channels
<1> QED
  BY <1>2 DEF Coming, NoDoc, Told

LEMMA FileTells ==
    ASSUME NEW q \in Seq(DownMsgs), Doc(path', files'[path']) \in DownMsgs,
           down' = Append(q, Doc(path', files'[path']))
    PROVE  Coming'
<1>1. /\ Len(q) + 1 \in DOMAIN down' /\ down'[Len(q) + 1] = Doc(path', files'[path'])
      /\ \A j \in DOMAIN down' : ~(Len(q) + 1 < j)
  BY AppendFacts
<1>2. PICK i \in DOMAIN down' : i = Len(q) + 1
  BY <1>1
<1> QED
  BY <1>1, <1>2 DEF Coming, Told

LEMMA FileReceives ==
    ASSUME Channels, UNCHANGED <<path, files>>, NEW type, Receiving(type)
    PROVE  /\ Coming => Coming' \/ (NoDoc' /\ Head(down) = Doc(path, files[path]))
           /\ NoDoc => NoDoc' /\ type # "doc"
           /\ type # "doc" => (Coming => Coming')
<1>1. /\ down # <<>> /\ down' = Tail(down) /\ Head(down) = down[1] /\ down[1].type = type
      /\ \A j \in DOMAIN down' : j + 1 \in DOMAIN down /\ down'[j] = down[j + 1]
      /\ \A j \in DOMAIN down : j = 1 \/ (j - 1 \in DOMAIN down' /\ down'[j - 1] = down[j])
      /\ DOMAIN down = 1..Len(down) /\ Len(down) \in Nat /\ 1 \in DOMAIN down
      /\ DOMAIN down' \subseteq Nat \ {0}
  BY TailFacts DEF Channels, Receiving
<1>2. NoDoc => NoDoc' /\ type # "doc"
  BY <1>1 DEF NoDoc, IsDoc
<1>3. ASSUME NEW i \in DOMAIN down, Told(i)
      PROVE  Coming' \/ (NoDoc' /\ Head(down) = Doc(path, files[path]) /\ type = "doc")
  <2>1. CASE i = 1
    <3>1. NoDoc'
      BY <1>1, <1>3, <2>1 DEF NoDoc, Told
    <3>2. Head(down) = Doc(path, files[path])
      BY <1>1, <1>3, <2>1 DEF Told
    <3>3. type = "doc"
      BY <1>1, <3>2 DEF Doc
    <3> QED
      BY <3>1, <3>2, <3>3
  <2>2. CASE i # 1
    <3>1. PICK k \in DOMAIN down' : k = i - 1
      BY <1>1, <2>2
    <3>2. \A j \in DOMAIN down' : k < j => ~IsDoc(down'[j])
      <4> TAKE j \in DOMAIN down'
      <4> HAVE k < j
      <4>1. j + 1 \in DOMAIN down /\ i < j + 1 /\ down'[j] = down[j + 1]
        BY <1>1, <3>1
      <4> QED
        BY <1>3, <4>1 DEF Told
    <3>3. down'[k] = Doc(path', files'[path'])
      BY <1>1, <1>3, <2>2, <3>1 DEF Told
    <3> QED
      BY <3>1, <3>2, <3>3 DEF Coming, Told
  <2> QED
    BY <2>1, <2>2
<1> QED
  BY <1>2, <1>3 DEF Coming

LEMMA NoSaveFacts ==
    ASSUME Channels
    PROVE  /\ \A m \in UpMsgs : Send(<<m>>) => (NoSave' => NoSave /\ ~IsSave(m))
           /\ \A type : Handling(type) /\ type # "save" => (NoSave' => NoSave)
           /\ up' = up => (NoSave' => NoSave)
<1>1. \A type : Handling(type) /\ type # "save" => (NoSave' => NoSave)
  <2> SUFFICES ASSUME NEW type, Handling(type), type # "save", NoSave' PROVE NoSave
    OBVIOUS
  <2>1. /\ up' = Tail(up) /\ up # <<>> /\ Head(up) = up[1] /\ ~IsSave(up[1])
        /\ \A i \in DOMAIN up : i = 1 \/ (i - 1 \in DOMAIN up' /\ up'[i - 1] = up[i])
    BY TailFacts DEF Channels, Handling, IsSave
  <2> QED
    BY <2>1 DEF NoSave, Held
<1> QED
  BY <1>1, HeldUp DEF NoSave, Channels

LEMMA SaveTimerFollows ==
    ASSUME Halves, Follows, SaveTimer, Unharmed'
    PROVE  Follows'
<1>1. /\ Channels /\ text \in Texts /\ UNCHANGED <<path, files, jsReady, changed, down, text>>
      /\ UNCHANGED <<active, ready, matTimer, diskText>>
      /\ \/ text # lastSynced /\ Send(<<Save(text)>>)
         \/ up' = up /\ text = files[path]
  BY DEF Halves, Types, SaveTimer, diskVars, qtVars, Unharmed
<1>2. NoSave' => up' = up /\ NoSave /\ text = files[path]
  BY <1>1, NoSaveFacts, UpFacts
<1> QED
  BY <1>1, <1>2 DEF Follows, Coming, NoDoc, Told, Agrees

LEMMA MaterialiseTimerFollows ==
    ASSUME Halves, Follows, MaterialiseTimer, Unharmed'
    PROVE  Follows'
<1>1. /\ Channels /\ text \in Texts /\ UNCHANGED <<path, files, jsReady, changed, down, text>>
      /\ UNCHANGED <<active, ready, saveTimer, diskText>>
      /\ \/ active /\ ready /\ Send(<<Save(text)>>)
         \/ up' = up /\ ~(active /\ ready)
  BY DEF Halves, Types, MaterialiseTimer, diskVars, qtVars, history
<1>2. NoSave' => up' = up /\ NoSave /\ ~(active /\ ready)
  BY <1>1, NoSaveFacts, UpFacts
<1> QED
  BY <1>1, <1>2 DEF Follows, Coming, NoDoc, Told, Agrees

LEMMA UserEditsFollows ==
    ASSUME Halves, Follows, UserEdits, Unharmed'
    PROVE  Follows'
<1>1. /\ Channels /\ UNCHANGED <<path, files, jsReady, changed, down, active>>
      /\ active => matTimer'
      /\ ~active => saveTimer'
  BY DEF Halves, UserEdits, diskVars, qtVars, ChangeEditor
<1>2. NoSave' => NoSave
  <2>1. PICK new \in Changes(text, shows) : ChangeEditor(new)
    BY DEF UserEdits
  <2>2. new \in Texts /\ text \in Texts
    BY <2>1, ChangesFacts, BudgetFacts DEF UserEdits, Halves, Types
  <2> QED
    BY <1>1, <2>1, <2>2, NoSaveFacts, UpFacts DEF ChangeEditor
<1> QED
  BY <1>1, <1>2 DEF Follows, Coming, NoDoc, Told, Agrees

LEMMA ReloadFromDiskFollows ==
    ASSUME Halves, Follows, ReloadFromDisk, Unharmed'
    PROVE  Follows'
<1>1. Channels /\ UNCHANGED <<path, files, jsReady, changed, down, active, ready>> /\ active
  BY DEF Halves, ReloadFromDisk, diskVars, qtVars
<1>2. PICK t \in diskText :
          IF t # text THEN ChangeEditor(t) ELSE UNCHANGED <<text, matTimer, saveTimer, up>>
  BY DEF ReloadFromDisk
<1>3. NoSave' => NoSave
  <2>1. t \in Texts /\ text \in Texts
    BY <1>2 DEF Halves, Types
  <2> QED
    BY <1>1, <1>2, <2>1, NoSaveFacts, UpFacts DEF ChangeEditor
<1>4. Agrees => Agrees'
  BY <1>1, <1>2 DEF Agrees, ChangeEditor
<1> QED
  BY <1>1, <1>3, <1>4 DEF Follows, Coming, NoDoc, Told

LEMMA OfferDiskFollows ==
    ASSUME Halves, Follows, OfferDisk, Unharmed'
    PROVE  Follows'
<1>1. /\ Channels /\ UNCHANGED <<path, files, jsReady, changed, active, text, up>> /\ active
      /\ Receiving("doc") /\ diskText' = {Head(down).text} \ {text}
  BY DEF Halves, OfferDisk, diskVars, qtVars, history
<1>2. Head(down) = Doc(path, files[path]) => Agrees'
  <2> SUFFICES ASSUME Head(down) = Doc(path, files[path]) PROVE Agrees'
    OBVIOUS
  <2>1. Head(down).text = files[path]
    BY DEF Doc
  <2> QED
    BY <1>1, <2>1 DEF Agrees
<1>3. NoSave' => NoSave
  BY <1>1, NoSaveFacts
<1> QED
  BY <1>1, <1>2, <1>3, FileReceives DEF Follows

LEMMA TakeDiskFollows ==
    ASSUME Halves, Follows, TakeDisk, Unharmed'
    PROVE  Follows'
<1>1. /\ Channels /\ UNCHANGED <<path, files, jsReady, changed, active, up>> /\ ~active
      /\ Receiving("doc")
      /\ \/ text' = Head(down).text
         \/ /\ text' = text /\ saveTimer' = saveTimer
            /\ Head(down).text = lastSynced \/ text # lastSynced
  BY DEF Halves, TakeDisk, TakeIf, diskVars, qtVars
<1>2. Head(down) = Doc(path, files[path]) => Agrees'
  <2> SUFFICES ASSUME Head(down) = Doc(path, files[path]) PROVE Agrees'
    OBVIOUS
  <2>1. Head(down).text = files[path]
    BY DEF Doc
  <2> QED
    BY <1>1, <2>1 DEF Agrees, Halves, Unsaved
<1>3. NoSave' => NoSave
  BY <1>1, NoSaveFacts
<1> QED
  BY <1>1, <1>2, <1>3, FileReceives DEF Follows

LEMMA EnterCollabFollows ==
    ASSUME Halves, Follows, EnterCollab, Unharmed'
    PROVE  Follows'
<1> DEFINE m == Head(down)
           first == IF ~m.should THEN {} ELSE IF text # {} THEN text ELSE m.text
<1>1. /\ Channels /\ UNCHANGED <<path, files, jsReady, changed, saveTimer, diskText>>
      /\ Receiving("seed") /\ text \in Texts
      /\ \/ active /\ UNCHANGED <<text, active, ready, matTimer, up>>
         \/ /\ ~active /\ active' /\ ready' = m.should /\ text' = first
            /\ matTimer' = (matTimer \/ text # {} \/ first # {})
            /\ up' = up \/ Send(<<Update({}, first)>>)
  BY DEF Halves, Types, EnterCollab, diskVars, qtVars, pageVars
<1>2. m.should \in BOOLEAN /\ first \in Texts
  BY <1>1, ReceivingType, DownType, TextsClosed DEF Channels, IsSeed
<1>3. Agrees => Agrees'
  <2>1. CASE active
    BY <1>1, <2>1 DEF Agrees
  <2>2. CASE ~active
    BY <1>1, <1>2, <2>2 DEF Agrees
  <2> QED
    BY <2>1, <2>2
<1> HIDE DEF m, first
<1>4. NoSave' => NoSave
  BY <1>1, <1>2, TextsClosed, NoSaveFacts, UpFacts
<1> QED
  BY <1>1, <1>3, <1>4, FileReceives DEF Follows

LEMMA ReceiveUpdateFollows ==
    ASSUME Halves, Follows, ReceiveUpdate, Unharmed'
    PROVE  Follows'
<1>1. /\ Channels /\ UNCHANGED <<path, files, jsReady, changed, saveTimer, diskText, active, up>>
      /\ Receiving("update")
      /\ \/ UNCHANGED <<text, ready, matTimer>>
         \/ /\ ready' = TRUE
            /\ matTimer' = (matTimer \/ text' # text)
            /\ ready \/ matTimer' \/ text' = files[path]
  BY DEF Halves, ReceiveUpdate, diskVars, qtVars, Unharmed
<1>2. Agrees => Agrees'
  <2>1. CASE UNCHANGED <<text, ready, matTimer>>
    BY <1>1, <2>1 DEF Agrees
  <2>2. CASE matTimer' /\ active
    BY <1>1, <2>2 DEF Agrees
  <2>3. CASE text' = text /\ ready /\ ~matTimer
    BY <1>1, <2>3 DEF Agrees
  <2>4. CASE text' = files[path]
    BY <1>1, <2>4 DEF Agrees
  <2>5. UNCHANGED <<text, ready, matTimer>> \/ active
    BY DEF ReceiveUpdate
  <2>6. matTimer \in BOOLEAN
    BY DEF Halves, Types
  <2>7. text' = text \/ text' # text
    OBVIOUS
  <2> QED
    BY <1>1, <2>1, <2>2, <2>3, <2>4, <2>5, <2>6, <2>7
<1>3. NoSave' => NoSave
  BY <1>1, NoSaveFacts
<1> QED
  BY <1>1, <1>2, <1>3, FileReceives DEF Follows

LEMMA LeaveCollabFollows ==
    ASSUME Halves, Follows, LeaveCollab, Unharmed'
    PROVE  Follows'
<1>1. /\ Channels /\ UNCHANGED <<path, files, jsReady, changed, saveTimer, text>>
      /\ Receiving("stopped") /\ text \in Texts
      /\ Send(<<Save(text)>>) \/ UNCHANGED <<diskText, active, ready, matTimer, up>>
  BY DEF Halves, Types, LeaveCollab, LeaveWith, diskVars, qtVars
<1>2. NoSave' => NoSave /\ UNCHANGED <<diskText, active, ready, matTimer>>
  BY <1>1, NoSaveFacts, UpFacts
<1>3. NoSave' => (Agrees => Agrees')
  BY <1>1, <1>2 DEF Agrees
<1> QED
  BY <1>1, <1>2, <1>3, FileReceives DEF Follows

LEMMA ToggleOnFollows ==
    ASSUME Halves, Follows, ToggleOn, Unharmed'
    PROVE  Follows'
  BY DEF Follows, Coming, NoDoc, Told, Agrees, NoSave, ToggleOn, ToggleOnIf, pageVars

LEMMA ToggleOffFollows ==
    ASSUME Halves, Follows, ToggleOff, Unharmed'
    PROVE  Follows'
<1>1. /\ Channels /\ UNCHANGED <<path, files, jsReady, changed, pageVars, up>>
      /\ down' = down \/ Emit(<<Stopped>>)
  BY DEF Halves, ToggleOff, StopCollab, diskVars, qtVars
<1>2. Stopped \in DownMsgs /\ ~IsDoc(Stopped)
  BY DownFacts
<1>3. (Coming => Coming') /\ (NoDoc => NoDoc')
  BY <1>1, <1>2, FileEmits DEF Coming, NoDoc, Told
<1>4. (Agrees => Agrees') /\ (NoSave' => NoSave)
  BY <1>1 DEF Agrees, NoSave, pageVars
<1> QED
  BY <1>1, <1>3, <1>4 DEF Follows

LEMMA RetargetFollows ==
    ASSUME Halves, Follows, Retarget, Unharmed'
    PROVE  Follows'
<1>1. /\ Channels /\ UNCHANGED <<path, files, jsReady, changed, pageVars, up>>
      /\ down' = down \/ Emit(<<Stopped>>)
  BY DEF Halves, Retarget, StopCollab, diskVars, qtVars
<1>2. Stopped \in DownMsgs /\ ~IsDoc(Stopped)
  BY DownFacts
<1>3. (Coming => Coming') /\ (NoDoc => NoDoc')
  BY <1>1, <1>2, FileEmits DEF Coming, NoDoc, Told
<1>4. (Agrees => Agrees') /\ (NoSave' => NoSave)
  BY <1>1 DEF Agrees, NoSave, pageVars
<1> QED
  BY <1>1, <1>3, <1>4 DEF Follows

LEMMA PeerEditFollows ==
    ASSUME Halves, Follows, PeerEdit, Unharmed'
    PROVE  Follows'
<1>1. /\ Channels /\ UNCHANGED <<path, files, jsReady, changed, pageVars, up>>
      /\ down' = down \/ Emit(<<Update({}, {<<Readme, acts'>>})>>)
  BY DEF Halves, PeerEdit, diskVars, qtVars
<1>2. Update({}, {<<Readme, acts'>>}) \in DownMsgs /\ ~IsDoc(Update({}, {<<Readme, acts'>>}))
  BY BudgetFacts, SingleText, FirstText, DownFacts DEF Halves, Types, PeerEdit
<1>3. (Coming => Coming') /\ (NoDoc => NoDoc')
  BY <1>1, <1>2, FileEmits DEF Coming, NoDoc, Told
<1>4. (Agrees => Agrees') /\ (NoSave' => NoSave)
  BY <1>1 DEF Agrees, NoSave, pageVars
<1> QED
  BY <1>1, <1>3, <1>4 DEF Follows

LEMMA HubAdmitsFollows ==
    ASSUME Halves, Follows, HubAdmits, Unharmed'
    PROVE  Follows'
<1>1. /\ Channels /\ UNCHANGED <<path, files, jsReady, changed, pageVars, up>>
      /\ down' = down \/ Emit(<<Seed(~seeded, IF seeded THEN {} ELSE {<<Readme, 0>>})>>)
  BY DEF Halves, HubAdmits, diskVars, qtVars
<1>2. Seed(~seeded, IF seeded THEN {} ELSE {<<Readme, 0>>}) \in DownMsgs /\ ~IsDoc(Seed(~seeded, IF seeded THEN {} ELSE {<<Readme, 0>>}))
  BY TextsClosed, FirstText, DownFacts DEF Halves, Types
<1>3. (Coming => Coming') /\ (NoDoc => NoDoc')
  BY <1>1, <1>2, FileEmits DEF Coming, NoDoc, Told
<1>4. (Agrees => Agrees') /\ (NoSave' => NoSave)
  BY <1>1 DEF Agrees, NoSave, pageVars
<1> QED
  BY <1>1, <1>3, <1>4 DEF Follows

LEMMA HubReplaysFollows ==
    ASSUME Halves, Follows, HubReplays, Unharmed'
    PROVE  Follows'
<1>1. PICK t \in due : Emit(<<Update({}, t)>>)
  BY DEF HubReplays
<1>2. Update({}, t) \in DownMsgs /\ ~IsDoc(Update({}, t)) /\ Channels
  BY DownFacts DEF Halves, Types
<1>3. UNCHANGED <<path, files, jsReady, changed, pageVars, up>>
  BY DEF HubReplays, qtVars
<1>4. (Coming => Coming') /\ (NoDoc => NoDoc')
  BY <1>1, <1>2, <1>3, FileEmits
<1>5. (Agrees => Agrees') /\ (NoSave' => NoSave)
  BY <1>3 DEF Agrees, NoSave, pageVars
<1> QED
  BY <1>3, <1>4, <1>5 DEF Follows

LEMMA OpenFollows ==
    ASSUME Halves, Follows, Open, Unharmed'
    PROVE  Follows'
<1> SUFFICES ASSUME jsReady PROVE Coming'
  BY DEF Follows, Open, OpenTelling
<1>1. /\ down \in Seq(DownMsgs) /\ Append(down, Stopped) \in Seq(DownMsgs)
      /\ Doc(path', files'[path']) \in DownMsgs
  BY OpenFacts, AppendFacts, DownFacts DEF Halves, Channels
<1>2. \/ down' = Append(down, Doc(path', files'[path']))
      \/ down' = Append(Append(down, Stopped), Doc(path', files'[path']))
  BY OpenFacts DEF Unharmed
<1> QED
  BY <1>1, <1>2, FileTells

LEMMA ReadAgainFollows ==
    ASSUME Halves, Follows, ReadAgain, Unharmed'
    PROVE  Follows'
<1> SUFFICES ASSUME jsReady PROVE Coming'
  BY DEF Follows, ReadAgain, Reading
<1>1. /\ down \in Seq(DownMsgs) /\ Doc(path, files[path]) \in DownMsgs
      /\ path' = path /\ files' = files /\ Emit(<<Doc(path, files[path])>>)
  BY DownFacts DEF Halves, Channels, Types, ReadAgain, Reading, diskVars
<1>2. down' = Append(down, Doc(path', files'[path']))
  BY <1>1, EmitType
<1> QED
  BY <1>1, <1>2, FileTells

LEMMA HandleReadyFollows ==
    ASSUME Halves, Follows, HandleReady, Unharmed'
    PROVE  Follows'
<1> SUFFICES ASSUME ~changed PROVE Coming'
  BY DEF Follows, HandleReady
<1>1. /\ down \in Seq(DownMsgs) /\ Doc(path', files'[path']) \in DownMsgs
      /\ down' = Append(down, Doc(path', files'[path']))
  BY DownFacts DEF Halves, Channels, Types, ReadLast, HandleReady, StartCollab, Unharmed
<1> QED
  BY <1>1, FileTells

LEMMA WriteFollows ==
    ASSUME Halves, Follows, Write, Unharmed'
    PROVE  Follows'
  BY DEF Follows, Write

LEMMA ExternalEditFollows ==
    ASSUME Halves, Follows, ExternalEdit, Unharmed'
    PROVE  Follows'
  BY DEF Follows, ExternalEdit, Replace

LEMMA HandleUpdateFollows ==
    ASSUME Halves, Follows, HandleUpdate, Unharmed'
    PROVE  Follows'
<1>1. /\ Channels /\ UNCHANGED <<path, files, jsReady, changed, pageVars, down>>
      /\ Handling("update")
  BY DEF Halves, HandleUpdate, qtVars
<1>2. NoSave' => NoSave
  BY <1>1, NoSaveFacts
<1> QED
  BY <1>1, <1>2 DEF Follows, Coming, NoDoc, Told, Agrees, pageVars

LEMMA InitFollows == Init => FileInv
  BY DEF Init, FileInv, Follows

LEMMA StepFollows == Halves /\ FileInv /\ [Sure]_vars => FileInv'
<1> SUFFICES ASSUME Halves, FileInv, [Sure]_vars, Unharmed' PROVE Follows'
  BY DEF FileInv, Unharmed
<1>0. Follows
  BY SureIsNext, HurtGrows DEF FileInv, Unharmed
<1>1. CASE UNCHANGED vars
  BY <1>0, <1>1
  DEF vars, diskVars, qtVars, pageVars, history, Follows, Coming, NoDoc, Told, Agrees, NoSave
<1>2. CASE PageStep
  BY <1>0, <1>2, SaveTimerFollows, MaterialiseTimerFollows, OfferDiskFollows, TakeDiskFollows,
     EnterCollabFollows, ReceiveUpdateFollows, LeaveCollabFollows DEF PageStep
<1>3. CASE ReadAgain \/ HandleReady \/ Write \/ HandleUpdate
  BY <1>0, <1>3, ReadAgainFollows, HandleReadyFollows, WriteFollows, HandleUpdateFollows
<1>4. CASE People
  BY <1>0, <1>4, UserEditsFollows, ReloadFromDiskFollows, ToggleOnFollows, ToggleOffFollows,
     RetargetFollows, OpenFollows, ExternalEditFollows, PeerEditFollows DEF People
<1> QED
  BY <1>0, <1>1, <1>2, <1>3, <1>4, HubAdmitsFollows, HubReplaysFollows DEF Sure

----------------------------------------------------------------------------
(* Sessions come down in order.                                             *)

LEMMA SessionAppend ==
    ASSUME NEW S, NEW q \in Seq(S), NEW m \in S
    PROVE  /\ (Closed(q) /\ ~IsSeed(m)) \/ (IsStop(m) /\ ~IsSeed(m)) => Closed(Append(q, m))
           /\ Apart(q) /\ (Closed(q) \/ ~IsSeed(m)) => Apart(Append(q, m))
           /\ Parted(q) /\ (Stops(q) \/ ~IsSeed(m)) => Parted(Append(q, m))
           /\ Stops(q) \/ IsStop(m) => Stops(Append(q, m))
<1> DEFINE r == Append(q, m)
           n == Len(q) + 1
<1>1. /\ DOMAIN q = 1..Len(q) /\ DOMAIN r = DOMAIN q \cup {n} /\ Len(q) \in Nat
      /\ r[n] = m /\ \A i \in DOMAIN q : r[i] = q[i] /\ i < n
  BY AppendFacts
<1> HIDE DEF r
<1>2. ASSUME Closed(q), ~IsSeed(m) PROVE Closed(r)
  BY <1>1, <1>2 DEF Closed
<1>3. ASSUME IsStop(m), ~IsSeed(m) PROVE Closed(r)
  BY <1>1, <1>3 DEF Closed
<1>4. ASSUME Apart(q), Closed(q) \/ ~IsSeed(m) PROVE Apart(r)
  <2> SUFFICES ASSUME NEW i \in DOMAIN r, NEW j \in DOMAIN r, IsSeed(r[i]), IsSeed(r[j]), i < j
               PROVE  \E k \in DOMAIN r : i < k /\ k < j /\ IsStop(r[k])
    BY DEF Apart
  <2>1. i \in DOMAIN q
    BY <1>1
  <2>2. CASE j \in DOMAIN q
    <3>1. PICK k \in DOMAIN q : i < k /\ k < j /\ IsStop(q[k])
      BY <1>1, <1>4, <2>1, <2>2 DEF Apart
    <3> QED
      BY <1>1, <3>1
  <2>3. CASE j = n
    <3>1. PICK k \in DOMAIN q : i < k /\ IsStop(q[k])
      BY <1>1, <1>4, <2>1, <2>3 DEF Closed
    <3> QED
      BY <1>1, <2>3, <3>1
  <2> QED
    BY <1>1, <2>2, <2>3
<1>5. ASSUME Parted(q), Stops(q) \/ ~IsSeed(m) PROVE Parted(r)
  BY <1>1, <1>5 DEF Parted, Stops
<1>6. ASSUME Stops(q) \/ IsStop(m) PROVE Stops(r)
  BY <1>1, <1>6 DEF Stops
<1> QED
  BY <1>2, <1>3, <1>4, <1>5, <1>6 DEF r

LEMMA SessionTail ==
    ASSUME NEW S, NEW q \in Seq(S), q # <<>>
    PROVE  /\ Closed(q) => Closed(Tail(q))
           /\ Apart(q) => Apart(Tail(q))
           /\ Apart(q) /\ IsSeed(q[1]) => Parted(Tail(q))
           /\ Closed(q) /\ IsSeed(q[1]) => Stops(Tail(q))
           /\ Parted(q) => ~IsSeed(q[1])
           /\ Parted(q) /\ ~IsStop(q[1]) => Parted(Tail(q))
           /\ Stops(q) /\ ~IsStop(q[1]) => Stops(Tail(q))
<1> DEFINE r == Tail(q)
<1>1. /\ DOMAIN q = 1..Len(q) /\ Len(q) \in Nat /\ 1 \in DOMAIN q
      /\ DOMAIN r \subseteq Nat \ {0}
      /\ \A i \in DOMAIN r : i + 1 \in DOMAIN q /\ r[i] = q[i + 1]
      /\ \A i \in DOMAIN q : i = 1 \/ (i - 1 \in DOMAIN r /\ r[i - 1] = q[i])
  BY TailFacts
<1> HIDE DEF r
<1>2. ASSUME Closed(q) PROVE Closed(r)
  <2> SUFFICES ASSUME NEW i \in DOMAIN r, IsSeed(r[i]) PROVE \E j \in DOMAIN r : i < j /\ IsStop(r[j])
    BY DEF Closed
  <2>1. PICK j \in DOMAIN q : i + 1 < j /\ IsStop(q[j])
    BY <1>1, <1>2 DEF Closed
  <2> QED
    BY <1>1, <2>1
<1>3. ASSUME Apart(q) PROVE Apart(r)
  <2> SUFFICES ASSUME NEW i \in DOMAIN r, NEW j \in DOMAIN r, IsSeed(r[i]), IsSeed(r[j]), i < j
               PROVE  \E k \in DOMAIN r : i < k /\ k < j /\ IsStop(r[k])
    BY DEF Apart
  <2>1. PICK k \in DOMAIN q : i + 1 < k /\ k < j + 1 /\ IsStop(q[k])
    BY <1>1, <1>3 DEF Apart
  <2>2. /\ k - 1 \in DOMAIN r /\ r[k - 1] = q[k]
        /\ i < k - 1 /\ k - 1 < j
    BY <1>1, <2>1
  <2> QED
    BY <2>1, <2>2
<1>4. ASSUME Apart(q), IsSeed(q[1]) PROVE Parted(r)
  <2> SUFFICES ASSUME NEW j \in DOMAIN r, IsSeed(r[j]) PROVE \E i \in DOMAIN r : i < j /\ IsStop(r[i])
    BY DEF Parted
  <2>1. PICK k \in DOMAIN q : 1 < k /\ k < j + 1 /\ IsStop(q[k])
    BY <1>1, <1>4 DEF Apart
  <2> QED
    BY <1>1, <2>1
<1>5. ASSUME Closed(q), IsSeed(q[1]) PROVE Stops(r)
  <2>1. PICK k \in DOMAIN q : 1 < k /\ IsStop(q[k])
    BY <1>1, <1>5 DEF Closed
  <2> QED
    BY <1>1, <2>1 DEF Stops
<1>6. ASSUME Parted(q) PROVE ~IsSeed(q[1])
  BY <1>1, <1>6 DEF Parted
<1>7. ASSUME Parted(q), ~IsStop(q[1]) PROVE Parted(r)
  <2> SUFFICES ASSUME NEW j \in DOMAIN r, IsSeed(r[j]) PROVE \E i \in DOMAIN r : i < j /\ IsStop(r[i])
    BY DEF Parted
  <2>1. PICK i \in DOMAIN q : i < j + 1 /\ IsStop(q[i])
    BY <1>1, <1>7 DEF Parted
  <2> QED
    BY <1>1, <1>7, <2>1
<1>8. ASSUME Stops(q), ~IsStop(q[1]) PROVE Stops(r)
  BY <1>1, <1>8 DEF Stops
<1> QED
  BY <1>2, <1>3, <1>4, <1>5, <1>6, <1>7, <1>8 DEF r

(* What comes down does not begin or end a session. *)
LEMMA SessionsEmit ==
    ASSUME Channels, Sessions, UNCHANGED <<member, active>>, NEW m \in DownMsgs,
           ~IsSeed(m), ~IsStop(m), down' = Append(down, m) \/ down' = down
    PROVE  Sessions'
  BY SessionAppend DEF Channels, Sessions

LEMMA SessionsReceive ==
    ASSUME Channels, Sessions, UNCHANGED <<member, active>>, NEW type, Receiving(type),
           type # "seed", type # "stopped"
    PROVE  Sessions'
<1>1. down # <<>> /\ down' = Tail(down) /\ ~IsStop(down[1]) /\ down \in Seq(DownMsgs)
  BY TailFacts DEF Channels, Receiving, IsStop
<1> QED
  BY <1>1, SessionTail DEF Sessions

(* A session ends. *)
LEMMA SessionsEnd ==
    ASSUME Channels, Sessions, active' = active, down' = Append(down, Stopped)
    PROVE  Sessions'
<1>1. Stopped \in DownMsgs /\ IsStop(Stopped) /\ ~IsSeed(Stopped)
  BY DownFacts
<1>2. Closed(down') /\ Apart(down') /\ Stops(down') /\ (Parted(down) => Parted(down'))
  BY <1>1, SessionAppend DEF Channels, Sessions
<1> QED
  BY <1>2 DEF Sessions

LEMMA StepSessions == Halves /\ Sessions /\ [Sure]_vars => Sessions'
<1> SUFFICES ASSUME Halves, Sessions, [Sure]_vars PROVE Sessions'
  OBVIOUS
<1>1. /\ Channels /\ (collab <=> member # "out") /\ (collab => jsReady) /\ path \in Files
      /\ files[path] \in Texts /\ qtText \in Texts
  BY DEF Halves, Types, Starting
<1>2. CASE UNCHANGED <<member, active, down>>
  BY <1>2 DEF Sessions
<1>3. CASE UNCHANGED vars \/ SaveTimer \/ MaterialiseTimer
  BY <1>2, <1>3 DEF vars, diskVars, pageVars, SaveTimer, MaterialiseTimer
<1>4. CASE OfferDisk \/ TakeDisk \/ ReceiveUpdate
  BY <1>1, <1>4, SessionsReceive
  DEF OfferDisk, TakeDisk, TakeIf, ReceiveUpdate, diskVars
<1>5. CASE EnterCollab
  <2>1. down # <<>> /\ down' = Tail(down) /\ IsSeed(down[1]) /\ down \in Seq(DownMsgs)
    BY <1>1, <1>5, TailFacts DEF EnterCollab, Channels, Receiving, IsSeed
  <2>2. member' = member
    BY <1>5 DEF EnterCollab, diskVars
  <2>3. /\ Closed(down) => Closed(down') /\ Stops(down')
        /\ Apart(down') /\ Parted(down')
    BY <2>1, SessionTail DEF Sessions
  <2> QED
    BY <2>2, <2>3 DEF Sessions
<1>6. CASE LeaveCollab
  <2>1. down # <<>> /\ down' = Tail(down) /\ IsStop(down[1]) /\ down \in Seq(DownMsgs)
    BY <1>1, <1>6, TailFacts DEF LeaveCollab, LeaveWith, Channels, Receiving, IsStop
  <2>2. member' = member /\ ~active'
    BY <1>6 DEF LeaveCollab, LeaveWith, diskVars, Halves, Types
  <2>3. (Closed(down) => Closed(down')) /\ Apart(down')
    BY <2>1, SessionTail DEF Sessions
  <2> QED
    BY <2>2, <2>3 DEF Sessions
<1>7. CASE ReadAgain
  <2>1. /\ Doc(path, files[path]) \in DownMsgs
        /\ ~IsSeed(Doc(path, files[path])) /\ ~IsStop(Doc(path, files[path]))
    BY <1>1, DownFacts
  <2>2. down' = down \/ down' = Append(down, Doc(path, files[path]))
    BY <1>1, <1>7, <2>1, EmitType DEF ReadAgain, Reading, Channels
  <2> QED
    BY <1>1, <1>7, <2>1, <2>2, SessionsEmit DEF ReadAgain, Reading, diskVars, pageVars
<1>8. ASSUME member' # member, member' = "asked", member = "out", active' = active,
             Closed(down'), Apart(down'), active => Parted(down') /\ Stops(down')
      PROVE  Sessions'
  BY <1>8 DEF Sessions
<1>9. CASE HandleReady
  <2> DEFINE m == Doc(path, qtText)
  <2>1. m \in DownMsgs /\ ~IsSeed(m) /\ ~IsStop(m)
    BY <1>1, DownFacts
  <2>2. down' = Append(down, m) /\ active' = active
        /\ (member' = member \/ (~collab /\ member' = "asked"))
    BY <1>9 DEF HandleReady, StartCollab, pageVars
  <2> HIDE DEF m
  <2>3. CASE member' = member
    BY <1>1, <2>1, <2>2, <2>3, SessionsEmit
  <2>4. CASE ~collab /\ member' = "asked"
    <3>1. Closed(down) /\ Apart(down) /\ (active => Parted(down) /\ Stops(down)) /\ member = "out"
      BY <1>1, <2>4 DEF Sessions
    <3>2. Closed(down') /\ Apart(down') /\ (active => Parted(down') /\ Stops(down'))
      BY <1>1, <2>1, <2>2, <3>1, SessionAppend DEF Channels
    <3> QED
      BY <1>8, <2>2, <2>4, <3>1, <3>2
  <2> QED
    BY <2>2, <2>3, <2>4
<1>10. CASE Write \/ HandleUpdate
  BY <1>2, <1>10 DEF Write, HandleUpdate, pageVars
<1>11. CASE UserEdits \/ ReloadFromDisk \/ ExternalEdit
  BY <1>2, <1>11 DEF UserEdits, ReloadFromDisk, ExternalEdit, Replace, diskVars, pageVars
<1>12. CASE ToggleOn
  <2>1. /\ active' = active /\ down' = down /\ ~collab
        /\ member' = member \/ member' = "asked"
    BY <1>12 DEF ToggleOn, ToggleOnIf, StartCollab, pageVars
  <2> QED
    BY <1>1, <1>2, <1>8, <2>1 DEF Sessions
<1>13. CASE ToggleOff \/ Retarget
  <2>1. active' = active
    BY <1>13 DEF ToggleOff, Retarget, pageVars
  <2>2. CASE collab
    <3>1. Emit(<<Stopped>>)
      BY <1>13, <2>2 DEF ToggleOff, Retarget
    <3>2. down' = Append(down, Stopped)
      BY <1>1, <2>2, <3>1, EmitType, DownFacts DEF Channels
    <3> QED
      BY <1>1, <2>1, <3>2, SessionsEnd
  <2>3. CASE ~collab
    BY <1>2, <1>13, <2>1, <2>3 DEF ToggleOff, Retarget
  <2> QED
    BY <2>2, <2>3
<1>14. CASE Open
  <2> DEFINE m == Doc(path', qtText')
  <2>1. m \in DownMsgs /\ ~IsSeed(m) /\ ~IsStop(m)
    BY <1>14, OpenFacts, DownFacts
  <2>2. active' = active
    BY <1>14 DEF Open, OpenTelling, pageVars
  <2>3. down' = IF ~jsReady THEN down
                ELSE IF collab THEN Append(Append(down, Stopped), m) ELSE Append(down, m)
    BY <1>14, OpenFacts
  <2> HIDE DEF m
  <2>4. CASE collab
    <3> DEFINE q == Append(down, Stopped)
    <3>1. Stopped \in DownMsgs /\ IsStop(Stopped) /\ ~IsSeed(Stopped)
      BY DownFacts
    <3>2. Closed(q) /\ Apart(q) /\ Stops(q) /\ (Parted(down) => Parted(q)) /\ q \in Seq(DownMsgs)
      BY <1>1, <3>1, SessionAppend, AppendFacts DEF Channels, Sessions
    <3>3. down' = Append(q, m)
      BY <1>1, <2>3, <2>4
    <3> HIDE DEF q
    <3>4. Closed(down') /\ Apart(down') /\ Stops(down') /\ (Parted(down) => Parted(down'))
      BY <2>1, <3>2, <3>3, SessionAppend
    <3> QED
      BY <2>2, <3>4 DEF Sessions
  <2>5. CASE ~collab
    <3>1. member' = member
      BY <1>14, <2>5 DEF Open, OpenTelling
    <3> QED
      BY <1>1, <2>1, <2>2, <2>3, <2>5, <3>1, SessionsEmit
  <2> QED
    BY <2>4, <2>5
<1>15. CASE HubAdmits
  <2> DEFINE t == IF seeded THEN {} ELSE {<<Readme, 0>>}
             m == Seed(~seeded, t)
  <2>1. /\ m \in DownMsgs /\ Emit(<<m>>) /\ member = "asked" /\ member' = "in"
        /\ active' = active
    BY <1>15, TextsClosed, FirstText, DownFacts DEF HubAdmits, Halves, Types, pageVars
  <2> HIDE DEF m
  <2>2. down' = down \/ down' = Append(down, m)
    BY <1>1, <2>1, EmitType DEF Channels
  <2>3. Closed(down) /\ Apart(down) /\ (active => Parted(down) /\ Stops(down))
    BY <2>1 DEF Sessions
  <2>4. Apart(down') /\ (active => Parted(down'))
    BY <1>1, <2>1, <2>2, <2>3, SessionAppend DEF Channels
  <2> QED
    BY <2>1, <2>4 DEF Sessions
<1>16. CASE HubReplays
  <2>1. PICK t \in due : Emit(<<Update({}, t)>>)
    BY <1>16 DEF HubReplays
  <2>2. /\ Update({}, t) \in DownMsgs /\ ~IsSeed(Update({}, t)) /\ ~IsStop(Update({}, t))
    BY DownFacts DEF Halves, Types
  <2>3. down' = down \/ down' = Append(down, Update({}, t))
    BY <1>1, <2>1, <2>2, EmitType DEF Channels
  <2> QED
    BY <1>1, <1>16, <2>2, <2>3, SessionsEmit DEF HubReplays, pageVars
<1>17. CASE PeerEdit
  <2> DEFINE m == Update({}, {<<Readme, acts'>>})
  <2>1. m \in DownMsgs /\ ~IsSeed(m) /\ ~IsStop(m)
    BY <1>17, DownFacts, BudgetFacts, SingleText, FirstText DEF PeerEdit, Halves, Types
  <2>2. (Emit(<<m>>) \/ down' = down) /\ member' = member /\ active' = active
    BY <1>17 DEF PeerEdit, pageVars
  <2> HIDE DEF m
  <2>3. down' = down \/ down' = Append(down, m)
    BY <1>1, <2>1, <2>2, EmitType DEF Channels
  <2> QED
    BY <1>1, <2>1, <2>2, <2>3, SessionsEmit
<1> QED
  BY <1>3, <1>4, <1>5, <1>6, <1>7, <1>9, <1>10, <1>11, <1>12, <1>13, <1>14, <1>15, <1>16, <1>17
  DEF Sure, PageStep, People

LEMMA StepCold == Cold /\ [Sure]_vars => Cold'
<1> SUFFICES ASSUME Cold, [Sure]_vars PROVE Cold'
  OBVIOUS
<1>1. UNCHANGED <<seeded, room>> \/ HandleUpdate \/ PeerEdit
  BY DEF Sure, PageStep, People, SaveTimer, MaterialiseTimer, OfferDisk, TakeDisk, TakeIf,
     EnterCollab, ReceiveUpdate, LeaveCollab, LeaveWith, ReadAgain, Reading, HandleReady, Write,
     UserEdits, ReloadFromDisk, ToggleOn, ToggleOnIf, ToggleOff, Retarget, Open, OpenTelling,
     ExternalEdit, Replace, HubAdmits, HubReplays, vars, diskVars
<1> QED
  BY <1>1 DEF Cold, HandleUpdate, PeerEdit

----------------------------------------------------------------------------
(* A cleared editor waits for the room's text.                              *)

LEMMA StillAppend ==
    ASSUME NEW S, NEW q \in Seq(S), NEW m \in S, NEW i \in Nat
    PROVE  /\ \A j \in 0..(Len(q) + 1) : Still(Append(q, m), i, j) <=> Still(q, i, j)
           /\ i <= Len(q) => (Still(Append(q, m), i, Len(Append(q, m)) + 1)
                              <=> Still(q, i, Len(q) + 1) /\ ~IsUpdate(m) /\ ~IsStop(m))
           /\ i > Len(q) => Still(Append(q, m), i, Len(Append(q, m)) + 1)
<1> DEFINE r == Append(q, m)
<1>1. /\ DOMAIN q = 1..Len(q) /\ DOMAIN r = DOMAIN q \cup {Len(q) + 1} /\ Len(q) \in Nat
      /\ r[Len(q) + 1] = m /\ \A k \in DOMAIN q : r[k] = q[k]
      /\ Len(r) = Len(q) + 1
  BY AppendFacts
<1> HIDE DEF r
<1>2. \A j \in 0..(Len(q) + 1) : Still(r, i, j) <=> Still(q, i, j)
  BY <1>1 DEF Still
<1>3. i <= Len(q) => (Still(r, i, Len(r) + 1)
                      <=> Still(q, i, Len(q) + 1) /\ ~IsUpdate(m) /\ ~IsStop(m))
  BY <1>1 DEF Still
<1>4. i > Len(q) => Still(r, i, Len(r) + 1)
  BY <1>1 DEF Still
<1> QED
  BY <1>2, <1>3, <1>4 DEF r

LEMMA StillTail ==
    ASSUME NEW S, NEW q \in Seq(S), q # <<>>
    PROVE  /\ \A i, j \in Nat : Still(Tail(q), i, j) <=> Still(q, i + 1, j + 1)
           /\ \A j \in Nat : 1 < j => (Still(q, 0, j)
                                       <=> Still(q, 1, j) /\ ~IsUpdate(q[1]) /\ ~IsStop(q[1]))
<1> DEFINE r == Tail(q)
<1>1. /\ DOMAIN q = 1..Len(q) /\ Len(q) \in Nat /\ 1 \in DOMAIN q
      /\ DOMAIN r \subseteq Nat \ {0}
      /\ \A i \in DOMAIN r : i + 1 \in DOMAIN q /\ r[i] = q[i + 1]
      /\ \A i \in DOMAIN q : i = 1 \/ (i - 1 \in DOMAIN r /\ r[i - 1] = q[i])
  BY TailFacts
<1> HIDE DEF r
<1>2. ASSUME NEW i \in Nat, NEW j \in Nat PROVE Still(r, i, j) <=> Still(q, i + 1, j + 1)
  <2>1. ASSUME Still(q, i + 1, j + 1) PROVE Still(r, i, j)
    <3> SUFFICES ASSUME NEW k \in DOMAIN r, i < k, k < j PROVE ~IsUpdate(r[k]) /\ ~IsStop(r[k])
      BY DEF Still
    <3>1. k + 1 \in DOMAIN q /\ i + 1 < k + 1 /\ k + 1 < j + 1 /\ r[k] = q[k + 1]
      BY <1>1
    <3> QED
      BY <2>1, <3>1 DEF Still
  <2>2. ASSUME Still(r, i, j) PROVE Still(q, i + 1, j + 1)
    <3> SUFFICES ASSUME NEW k \in DOMAIN q, i + 1 < k, k < j + 1
                 PROVE  ~IsUpdate(q[k]) /\ ~IsStop(q[k])
      BY DEF Still
    <3>1. k - 1 \in DOMAIN r /\ i < k - 1 /\ k - 1 < j /\ r[k - 1] = q[k]
      BY <1>1
    <3> QED
      BY <2>2, <3>1 DEF Still
  <2> QED
    BY <2>1, <2>2
<1>3. ASSUME NEW j \in Nat, 1 < j
      PROVE  Still(q, 0, j) <=> Still(q, 1, j) /\ ~IsUpdate(q[1]) /\ ~IsStop(q[1])
  <2>1. \A k \in DOMAIN q : 0 < k /\ (k = 1 \/ 1 < k)
    BY <1>1
  <2> QED
    BY <1>1, <1>3, <2>1 DEF Still
<1> QED
  BY <1>2, <1>3 DEF r

LEMMA WaitsEmit ==
    ASSUME Channels, UNCHANGED <<active, ready>>, NEW m \in DownMsgs, down' = Append(down, m)
    PROVE  /\ IsUpdate(m) \/ IsStop(m) => ~Waits'
           /\ IsDoc(m) => (Waits' <=> Waits)
           /\ IsSeed(m) => (Waits' <=> Waits \/ ~m.should)
<1> DEFINE n == Len(down) + 1
<1>1. /\ down \in Seq(DownMsgs) /\ Len(down) \in Nat /\ Len(down') = n
      /\ DOMAIN down = 1..Len(down) /\ DOMAIN down' = DOMAIN down \cup {n} /\ down'[n] = m
      /\ \A i \in DOMAIN down : down'[i] = down[i]
  BY AppendFacts DEF Channels
<1>2. \A i \in 0..Len(down) : Awaits(i)' <=> Awaits(i)
  BY <1>1 DEF Awaits
<1>3. \A i \in 0..Len(down) : Awaiting(i)' <=> Awaiting(i) /\ ~IsUpdate(m) /\ ~IsStop(m)
  <2> TAKE i \in 0..Len(down)
  <2>1. Still(down', i, Len(down') + 1) <=> Still(down, i, n) /\ ~IsUpdate(m) /\ ~IsStop(m)
    BY <1>1, StillAppend
  <2> QED
    BY <1>2, <2>1 DEF Awaiting
<1>4. ASSUME NEW i, i = n PROVE Awaiting(i)' <=> IsSeed(m) /\ ~m.should
  <2>1. Still(down', i, Len(down') + 1)
    BY <1>1, <1>4, StillAppend
  <2> QED
    BY <1>1, <1>4, <2>1 DEF Awaits, Awaiting
<1>5. Waits' <=> \/ \E i \in 0..Len(down) : Awaiting(i)'
                 \/ IsSeed(m) /\ ~m.should
  <2>1. 0..Len(down') = 0..Len(down) \cup {n}
    BY <1>1
  <2> QED
    BY <1>4, <2>1 DEF Waits
<1>6. /\ IsUpdate(m) \/ IsStop(m) => ~IsSeed(m)
      /\ IsDoc(m) \/ IsSeed(m) => ~IsUpdate(m) /\ ~IsStop(m)
      /\ IsDoc(m) => ~IsSeed(m)
  BY DEF IsDoc, IsSeed, IsUpdate, IsStop
<1> QED
  BY <1>3, <1>5, <1>6 DEF Waits

LEMMA WaitsReceive ==
    ASSUME Channels, NEW type, Receiving(type),
           active' /\ ~ready'
           <=> \/ active /\ ~ready /\ type # "update" /\ type # "stopped"
               \/ type = "seed" /\ ~Head(down).should
    PROVE  Waits' <=> Waits
<1> DEFINE n == Len(down) + 1
<1>1. /\ down \in Seq(DownMsgs) /\ down # <<>> /\ down' = Tail(down) /\ Len(down) \in Nat \ {0}
      /\ Head(down) = down[1] /\ down[1].type = type /\ Len(down') + 1 = Len(down)
      /\ DOMAIN down = 1..Len(down) /\ DOMAIN down' = 1..(Len(down) - 1)
      /\ \A i \in DOMAIN down' : i + 1 \in DOMAIN down /\ down'[i] = down[i + 1]
  BY TailFacts DEF Channels, Receiving
<1>2. \A i \in 0..(Len(down) - 1) : Still(down', i, Len(down') + 1) <=> Still(down, i + 1, n)
  BY <1>1, StillTail
<1>3. Still(down, 0, n) <=> Still(down, 1, n) /\ type # "update" /\ type # "stopped"
  BY <1>1, StillTail DEF IsUpdate, IsStop
<1>4. \A i \in 1..(Len(down) - 1) : Awaiting(i)' <=> Awaiting(i + 1)
  BY <1>1, <1>2 DEF Awaiting, Awaits
<1>5. Awaiting(0)' <=> active' /\ ~ready' /\ Still(down, 1, n)
  BY <1>1, <1>2 DEF Awaiting, Awaits
<1>6. /\ Awaiting(0) <=> active /\ ~ready /\ Still(down, 0, n)
      /\ Awaiting(1) <=> type = "seed" /\ ~Head(down).should /\ Still(down, 1, n)
  BY <1>1 DEF Awaiting, Awaits, IsSeed
<1>7. Awaiting(0)' <=> Awaiting(0) \/ Awaiting(1)
  BY <1>3, <1>5, <1>6
<1>8. ASSUME Waits PROVE Waits'
  <2>1. PICK i \in 0..Len(down) : Awaiting(i)
    BY <1>8 DEF Waits
  <2>2. CASE i \in {0, 1}
    <3>1. Awaiting(0)'
      BY <1>7, <2>1, <2>2
    <3>2. 0 \in 0..Len(down')
      BY <1>1
    <3> QED
      BY <3>1, <3>2 DEF Waits
  <2>3. CASE i \notin {0, 1}
    <3>1. PICK j \in 1..(Len(down) - 1) : j = i - 1
      BY <1>1, <2>3
    <3>2. j + 1 = i /\ j \in 0..Len(down')
      BY <1>1, <3>1
    <3> QED
      BY <1>4, <2>1, <3>2 DEF Waits
  <2> QED
    BY <2>2, <2>3
<1>9. ASSUME Waits' PROVE Waits
  <2>1. PICK i \in 0..Len(down') : Awaiting(i)'
    BY <1>9 DEF Waits
  <2>2. CASE i = 0
    <3>1. Awaiting(0)'
      BY <2>1, <2>2
    <3>2. {0, 1} \subseteq 0..Len(down)
      BY <1>1
    <3> QED
      BY <1>7, <3>1, <3>2 DEF Waits
  <2>3. CASE i # 0
    <3>1. i \in 1..(Len(down) - 1) /\ i + 1 \in 0..Len(down)
      BY <1>1, <2>3
    <3> QED
      BY <1>4, <2>1, <3>1 DEF Waits
  <2> QED
    BY <2>2, <2>3
<1> QED
  BY <1>8, <1>9

LEMMA StepReplaying == Halves /\ Sessions /\ Replaying /\ [Sure]_vars => Replaying'
<1> SUFFICES ASSUME Halves, Sessions, Replaying, [Sure]_vars PROVE Replaying'
  OBVIOUS
<1>1. /\ Channels /\ (collab <=> member # "out") /\ (collab => jsReady) /\ path \in Files
      /\ files[path] \in Texts /\ qtText \in Texts /\ (due # {} => member = "in")
      /\ active \in BOOLEAN /\ ready \in BOOLEAN /\ (~active => ~ready)
  BY DEF Halves, Types, Starting, Solo
<1>2. CASE UNCHANGED <<active, ready, down, due>>
  BY <1>2 DEF Replaying, Waits, Awaiting, Awaits
<1>3. CASE UNCHANGED vars \/ SaveTimer \/ MaterialiseTimer \/ ExternalEdit \/ Write
           \/ HandleUpdate \/ UserEdits \/ ReloadFromDisk \/ ToggleOn
  BY <1>2, <1>3 DEF vars, diskVars, pageVars, SaveTimer, MaterialiseTimer, ExternalEdit, Replace,
     Write, HandleUpdate, UserEdits, ReloadFromDisk, ToggleOn, ToggleOnIf
<1>4. CASE OfferDisk \/ TakeDisk
  <2>1. Receiving("doc") /\ UNCHANGED <<due, active, ready>>
    BY <1>4 DEF OfferDisk, TakeDisk, TakeIf, diskVars
  <2>2. Waits' <=> Waits
    BY <1>1, <2>1, WaitsReceive
  <2> QED
    BY <2>1, <2>2 DEF Replaying
<1>5. CASE ReceiveUpdate
  <2>1. /\ Receiving("update") /\ UNCHANGED <<due, active>>
        /\ active => ready'
    BY <1>5 DEF ReceiveUpdate, diskVars
  <2>2. Waits' <=> Waits
    BY <1>1, <2>1, WaitsReceive
  <2> QED
    BY <2>1, <2>2 DEF Replaying
<1>6. CASE EnterCollab
  <2>1. Receiving("seed") /\ due' = due
    BY <1>6 DEF EnterCollab, diskVars
  <2>2. ~active
    <3>1. down # <<>> /\ IsSeed(down[1]) /\ down \in Seq(DownMsgs)
      BY <1>1, <2>1, TailFacts DEF Channels, Receiving, IsSeed
    <3> QED
      BY <3>1, SessionTail DEF Sessions
  <2>3. active' /\ ready' = Head(down).should
    BY <1>6, <2>2 DEF EnterCollab
  <2>4. Head(down).should \in BOOLEAN
    BY <1>1, <2>1, ReceivingType, DownType DEF Channels, IsSeed
  <2>5. Waits' <=> Waits
    BY <1>1, <2>1, <2>2, <2>3, <2>4, WaitsReceive
  <2> QED
    BY <2>1, <2>5 DEF Replaying
<1>7. CASE LeaveCollab
  <2>1. Receiving("stopped") /\ due' = due /\ ~active'
    BY <1>1, <1>7 DEF LeaveCollab, LeaveWith, diskVars
  <2>2. Waits' <=> Waits
    BY <1>1, <2>1, WaitsReceive
  <2> QED
    BY <2>1, <2>2 DEF Replaying
<1>8. CASE ReadAgain
  <2>1. /\ Doc(path, files[path]) \in DownMsgs /\ IsDoc(Doc(path, files[path]))
    BY <1>1, DownFacts
  <2>2. (down' = down \/ down' = Append(down, Doc(path, files[path])))
        /\ UNCHANGED <<due, active, ready>>
    BY <1>1, <1>8, <2>1, EmitType DEF ReadAgain, Reading, Channels, diskVars, pageVars
  <2>3. CASE down' = Append(down, Doc(path, files[path]))
    BY <1>1, <2>1, <2>2, <2>3, WaitsEmit DEF Replaying
  <2> QED
    BY <1>2, <2>2, <2>3
<1>9. CASE HandleReady
  <2>1. /\ Doc(path, qtText) \in DownMsgs /\ IsDoc(Doc(path, qtText))
    BY <1>1, DownFacts
  <2>2. down' = Append(down, Doc(path, qtText)) /\ UNCHANGED <<due, active, ready>>
    BY <1>9 DEF HandleReady, pageVars
  <2> QED
    BY <1>1, <2>1, <2>2, WaitsEmit DEF Replaying
<1>10. CASE ToggleOff \/ Retarget
  <2>1. UNCHANGED <<active, ready>>
    BY <1>10 DEF ToggleOff, Retarget, pageVars
  <2>2. CASE collab
    <3>1. Emit(<<Stopped>>) /\ due' = {}
      BY <1>10, <2>2 DEF ToggleOff, Retarget, StopCollab
    <3>2. down' = Append(down, Stopped)
      BY <1>1, <2>2, <3>1, EmitType, DownFacts DEF Channels
    <3>3. ~Waits'
      BY <1>1, <2>1, <3>2, WaitsEmit, DownFacts
    <3> QED
      BY <3>1, <3>3 DEF Replaying
  <2>3. CASE ~collab
    BY <1>2, <1>10, <2>1, <2>3 DEF ToggleOff, Retarget
  <2> QED
    BY <2>2, <2>3
<1>11. CASE Open
  <2> DEFINE m == Doc(path', qtText')
             q == Append(down, Stopped)
  <2>1. m \in DownMsgs /\ IsDoc(m)
    BY <1>11, OpenFacts, DownFacts
  <2>2. UNCHANGED <<active, ready>>
    BY <1>11 DEF Open, OpenTelling, pageVars
  <2>3. down' = IF ~jsReady THEN down
                ELSE IF collab THEN Append(q, m) ELSE Append(down, m)
    BY <1>11, OpenFacts
  <2> HIDE DEF m
  <2>4. CASE collab
    <3>1. Stopped \in DownMsgs /\ IsStop(Stopped) /\ ~IsSeed(Stopped)
      BY DownFacts
    <3>2. down' = Append(q, m) /\ due' = {}
      BY <1>1, <1>11, <2>3, <2>4 DEF Open, OpenTelling, StopCollab
    <3>3. /\ q \in Seq(DownMsgs) /\ Len(q) = Len(down) + 1 /\ Len(down) \in Nat
          /\ q[Len(down) + 1] = Stopped /\ DOMAIN q = 1..(Len(down) + 1)
      BY <1>1, <3>1, AppendFacts DEF Channels
    <3> HIDE DEF q
    <3>4. /\ DOMAIN down' = 1..(Len(down) + 2) /\ down'[Len(down) + 2] = m
          /\ down'[Len(down) + 1] = Stopped /\ Len(down') = Len(down) + 2
      BY <2>1, <3>2, <3>3, AppendFacts
    <3>5. ~IsSeed(m)
      BY <2>1 DEF IsDoc, IsSeed
    <3>6. ~Waits'
      <4> SUFFICES ASSUME NEW i \in 0..Len(down'), Awaiting(i)' PROVE FALSE
        BY DEF Waits
      <4>1. i <= Len(down)
        BY <3>1, <3>3, <3>4, <3>5 DEF Awaiting, Awaits
      <4> QED
        BY <3>1, <3>3, <3>4, <4>1 DEF Awaiting, Still
    <3> QED
      BY <3>2, <3>6 DEF Replaying
  <2>5. CASE ~collab
    <3>1. due' = due /\ (down' = down \/ down' = Append(down, m))
      BY <1>11, <2>3, <2>5 DEF Open, OpenTelling
    <3>2. CASE down' = Append(down, m)
      BY <1>1, <2>1, <2>2, <3>1, <3>2, WaitsEmit DEF Replaying
    <3> QED
      BY <1>2, <2>2, <3>1, <3>2
  <2> QED
    BY <2>4, <2>5
<1>12. CASE HubAdmits
  <2> DEFINE t == IF seeded THEN {} ELSE {<<Readme, 0>>}
             m == Seed(~seeded, t)
  <2>1. /\ m \in DownMsgs /\ Emit(<<m>>) /\ member = "asked" /\ IsSeed(m) /\ m.should = ~seeded
        /\ UNCHANGED <<active, ready>> /\ due' = IF seeded THEN {room} ELSE {}
        /\ seeded \in BOOLEAN
    BY <1>12, TextsClosed, FirstText, DownFacts DEF HubAdmits, Halves, Types, pageVars
  <2> HIDE DEF m
  <2>2. down' = Append(down, m)
    BY <1>1, <2>1, EmitType DEF Channels
  <2>3. ~Waits
    BY <1>1, <2>1 DEF Replaying
  <2>4. Waits' <=> seeded
    BY <1>1, <2>1, <2>2, <2>3, WaitsEmit
  <2> QED
    BY <2>1, <2>4 DEF Replaying
<1>13. CASE HubReplays
  <2>1. PICK t \in due : Emit(<<Update({}, t)>>)
    BY <1>13 DEF HubReplays
  <2>2. Update({}, t) \in DownMsgs /\ IsUpdate(Update({}, t))
    BY DownFacts DEF Halves, Types
  <2>3. down' = Append(down, Update({}, t)) /\ due' = {} /\ UNCHANGED <<active, ready>>
    BY <1>1, <1>13, <2>1, <2>2, EmitType DEF Channels, HubReplays, pageVars
  <2>4. ~Waits'
    BY <1>1, <2>2, <2>3, WaitsEmit
  <2> QED
    BY <2>3, <2>4 DEF Replaying
<1>14. CASE PeerEdit
  <2> DEFINE new == {<<Readme, acts'>>}
             m == Update({}, new)
  <2>1. m \in DownMsgs /\ IsUpdate(m)
    BY <1>14, DownFacts, BudgetFacts, SingleText, FirstText DEF PeerEdit, Halves, Types
  <2>2. /\ due' = {t \cup new : t \in due} /\ UNCHANGED <<active, ready>>
        /\ \/ due = {} /\ Emit(<<m>>) /\ member = "in"
           \/ down' = down
    BY <1>14 DEF PeerEdit, pageVars
  <2> HIDE DEF new, m
  <2>3. (\A t, u \in due' : t = u) /\ (due' = {} <=> due = {})
    BY <2>2 DEF Replaying
  <2>4. CASE due = {} /\ Emit(<<m>>) /\ member = "in"
    <3>1. down' = Append(down, m)
      BY <1>1, <2>1, <2>4, EmitType DEF Channels
    <3>2. ~Waits'
      BY <1>1, <2>1, <2>2, <3>1, WaitsEmit
    <3> QED
      BY <2>3, <2>4, <3>2 DEF Replaying
  <2>5. CASE down' = down
    <3>1. Waits' <=> Waits
      BY <2>2, <2>5 DEF Waits, Awaiting, Awaits
    <3> QED
      BY <2>3, <3>1 DEF Replaying
  <2> QED
    BY <2>2, <2>4, <2>5
<1> QED
  BY <1>3, <1>4, <1>5, <1>6, <1>7, <1>8, <1>9, <1>10, <1>11, <1>12, <1>13, <1>14
  DEF Sure, PageStep, People

----------------------------------------------------------------------------
(* What the hub's steps and the page's do to the channel.                   *)

LEMMA HubAdmitsFacts ==
    ASSUME Halves, HubAdmits
    PROVE  \E m \in DownMsgs :
             /\ down' = Append(down, m) /\ IsSeed(m) /\ m.should = ~seeded
             /\ member = "asked" /\ member' = "in" /\ seeded \in BOOLEAN
             /\ due = {} /\ due' = IF seeded THEN {room} ELSE {}
<1> DEFINE t == IF seeded THEN {} ELSE {<<Readme, 0>>}
           m == Seed(~seeded, t)
<1>1. /\ m \in DownMsgs /\ Emit(<<m>>) /\ IsSeed(m) /\ m.should = ~seeded
  BY TextsClosed, FirstText, DownFacts DEF HubAdmits, Halves, Types
<1>2. jsReady /\ Channels
  BY DEF HubAdmits, Halves, Types, Starting
<1> HIDE DEF m
<1>3. down' = Append(down, m)
  BY <1>1, <1>2, EmitType DEF Channels
<1> QED
  BY <1>1, <1>3 DEF HubAdmits, Halves, Types

LEMMA HubReplaysFacts ==
    ASSUME Halves, HubReplays
    PROVE  \E t \in due : \E m \in DownMsgs :
             /\ t \in Texts /\ IsUpdate(m) /\ m.add = t /\ m.del = {}
             /\ down' = Append(down, m) /\ due' = {} /\ member = "in"
<1>1. PICK t \in due : Emit(<<Update({}, t)>>)
  BY DEF HubReplays
<1>2. /\ t \in Texts /\ Update({}, t) \in DownMsgs /\ IsUpdate(Update({}, t))
      /\ Update({}, t).add = t /\ Update({}, t).del = {}
  BY DownFacts DEF Halves, Types
<1>3. jsReady /\ Channels /\ member = "in" /\ due' = {}
  BY <1>1 DEF HubReplays, Halves, Types, Starting
<1>4. down' = Append(down, Update({}, t))
  BY <1>1, <1>2, <1>3, EmitType DEF Channels
<1> QED
  BY <1>2, <1>3, <1>4

LEMMA PeerEditFacts ==
    ASSUME Halves, PeerEdit
    PROVE  \E new \in Texts : \E m \in DownMsgs :
             /\ new = {<<Readme, acts + 1>>} /\ acts' = acts + 1 /\ acts \in Nat
             /\ room' = room \cup new /\ due' = {t \cup new : t \in due}
             /\ IsUpdate(m) /\ m.add = new /\ m.del = {}
             /\ down' = IF member = "in" /\ due = {} THEN Append(down, m) ELSE down
             /\ UNCHANGED <<files, seeded, member, qtVars, up, pageVars, history>>
<1> DEFINE new == {<<Readme, acts'>>}
           m   == Update({}, new)
<1>1. /\ acts' = acts + 1 /\ acts \in Nat /\ new \in Texts /\ m \in DownMsgs
      /\ IsUpdate(m) /\ m.add = new /\ m.del = {}
  BY BudgetFacts, SingleText, FirstText, DownFacts DEF PeerEdit, Halves, Types
<1>2. /\ room' = room \cup new /\ due' = {t \cup new : t \in due}
      /\ IF member = "in" /\ due = {} THEN Emit(<<m>>) ELSE down' = down
      /\ UNCHANGED <<files, seeded, member, qtVars, up, pageVars, history>>
  BY DEF PeerEdit
<1>3. Channels /\ (member = "in" => jsReady)
  BY DEF Halves, Types, Starting
<1>4. new = {<<Readme, acts + 1>>}
  BY <1>1
<1> HIDE DEF m, new
<1>5. down' = IF member = "in" /\ due = {} THEN Append(down, m) ELSE down
  BY <1>1, <1>2, <1>3, EmitType DEF Channels
<1> QED
  BY <1>1, <1>2, <1>4, <1>5

(* The view leaves the room. *)
Stopping == ToggleOff \/ Retarget \/ Open

LEMMA StoppingFacts ==
    ASSUME Halves, Stopping
    PROVE  /\ collab => /\ due' = {} /\ member' = "out" /\ jsReady
                        /\ Len(down) + 1 \in DOMAIN down' /\ down'[Len(down) + 1] = Stopped
           /\ ~collab => due' = due /\ member' = member
           /\ \A i \in DOMAIN down : i \in DOMAIN down' /\ down'[i] = down[i]
           /\ \A i \in DOMAIN down' : i \in DOMAIN down \/ IsDoc(down'[i]) \/ (collab /\ IsStop(down'[i]))
           /\ Len(down) <= Len(down') /\ UNCHANGED <<files, room, seeded, up, pageVars, shows, mine>>
<1>1. /\ Channels /\ (collab => jsReady) /\ Stopped \in DownMsgs /\ IsStop(Stopped)
      /\ Len(down) \in Nat
  BY DownFacts DEF Halves, Types, Starting, Channels
<1>2. /\ collab => due' = {} /\ member' = "out"
      /\ ~collab => due' = due /\ member' = member
      /\ UNCHANGED <<files, room, seeded, up, pageVars, shows, mine>>
  BY DEF Stopping, ToggleOff, Retarget, Open, OpenTelling, StopCollab, history
<1>3. CASE ToggleOff \/ Retarget
  <2>1. CASE collab
    <3>1. down' = Append(down, Stopped)
      BY <1>1, <1>3, <2>1, EmitType DEF ToggleOff, Retarget, Channels
    <3> QED
      BY <1>1, <1>2, <2>1, <3>1, AppendFacts DEF Channels
  <2>2. CASE ~collab
    BY <1>1, <1>2, <1>3, <2>2 DEF ToggleOff, Retarget
  <2> QED
    BY <2>1, <2>2
<1>4. CASE Open
  <2> DEFINE m == Doc(path', qtText')
             q == Append(down, Stopped)
  <2>1. m \in DownMsgs /\ IsDoc(m)
    BY <1>4, OpenFacts, DownFacts
  <2>2. down' = IF ~jsReady THEN down ELSE IF collab THEN Append(q, m) ELSE Append(down, m)
    BY <1>4, OpenFacts
  <2> HIDE DEF m
  <2>3. CASE collab
    <3>1. /\ q \in Seq(DownMsgs) /\ Len(q) = Len(down) + 1 /\ q[Len(down) + 1] = Stopped
          /\ DOMAIN q = DOMAIN down \cup {Len(down) + 1} /\ \A i \in DOMAIN down : q[i] = down[i]
      BY <1>1, AppendFacts DEF Channels
    <3>2. down' = Append(q, m)
      BY <1>1, <2>2, <2>3
    <3> HIDE DEF q
    <3>3. /\ Len(down') = Len(down) + 2 /\ DOMAIN down' = DOMAIN q \cup {Len(down) + 2}
          /\ \A i \in DOMAIN q : down'[i] = q[i]
          /\ down'[Len(down) + 2] = m
      BY <1>1, <2>1, <3>1, <3>2, AppendFacts
    <3> QED
      BY <1>1, <1>2, <2>1, <2>3, <3>1, <3>3
  <2>4. CASE ~collab
    <3>1. down' = down \/ down' = Append(down, m)
      BY <2>2, <2>4
    <3> QED
      BY <1>1, <1>2, <2>1, <2>4, <3>1, AppendFacts DEF Channels
  <2> QED
    BY <2>3, <2>4
<1> QED
  BY <1>3, <1>4 DEF Stopping

(* What is told of the open file. *)
Telling == ReadAgain \/ HandleReady

LEMMA TellingFacts ==
    ASSUME Halves, Telling
    PROVE  /\ UNCHANGED <<files, room, seeded, due, path, pageVars, shows, mine, acts>>
           /\ member' = member \/ (member = "out" /\ member' = "asked")
           /\ \/ down' = down
              \/ \E m \in DownMsgs :
                    /\ down' = Append(down, m) /\ IsDoc(m) /\ m.of = path
                    /\ m.text = qtText' /\ qtText' \in {files[path], qtText}
           /\ UNCHANGED <<qtText, changed>> \/ qtText' = files[path]
           /\ up' = up \/ Handling("ready")
<1>1. /\ \A t \in Texts : Doc(path, t) \in DownMsgs /\ IsDoc(Doc(path, t))
                          /\ Doc(path, t).of = path /\ Doc(path, t).text = t
      /\ files[path] \in Texts /\ qtText \in Texts /\ Channels
      /\ collab <=> member # "out"
  BY DownFacts DEF Halves, Types
<1>2. CASE ReadAgain
  <2>1. down' = down \/ down' = Append(down, Doc(path, files[path]))
    BY <1>1, <1>2, EmitType DEF ReadAgain, Reading, Channels
  <2> QED
    BY <1>1, <1>2, <2>1 DEF ReadAgain, Reading, diskVars, history
<1>3. CASE HandleReady
  BY <1>1, <1>3 DEF HandleReady, StartCollab
<1> QED
  BY <1>2, <1>3 DEF Telling

(* The page takes a message. *)
Taking == OfferDisk \/ TakeDisk \/ EnterCollab \/ ReceiveUpdate \/ LeaveCollab

LEMMA TakingFacts ==
    ASSUME Halves, Sessions, Taking
    PROVE  /\ UNCHANGED <<diskVars, qtVars>> /\ UNCHANGED <<acts, mine>>
           /\ \E type \in {"doc", "seed", "update", "stopped"} :
                 /\ Receiving(type)
                 /\ active' /\ ~ready'
                    <=> \/ active /\ ~ready /\ type # "update" /\ type # "stopped"
                        \/ type = "seed" /\ ~Head(down).should
           /\ EnterCollab => ~active /\ active' /\ ready' = Head(down).should
           /\ active /\ ~LeaveCollab => active'
<1>1. Channels /\ active \in BOOLEAN /\ ready \in BOOLEAN /\ (~active => ~ready)
  BY DEF Halves, Types, Solo
<1>2. UNCHANGED <<diskVars, qtVars>> /\ UNCHANGED <<acts, mine>>
  BY DEF Taking, OfferDisk, TakeDisk, TakeIf, EnterCollab, ReceiveUpdate, LeaveCollab, LeaveWith,
     history
<1>3. CASE OfferDisk \/ TakeDisk
  BY <1>1, <1>2, <1>3 DEF OfferDisk, TakeDisk, TakeIf, EnterCollab, Receiving
<1>4. CASE ReceiveUpdate
  BY <1>1, <1>2, <1>4 DEF ReceiveUpdate, EnterCollab, Receiving
<1>5. CASE EnterCollab
  <2>1. Receiving("seed")
    BY <1>5 DEF EnterCollab
  <2>2. ~active
    <3>1. down # <<>> /\ IsSeed(down[1]) /\ down \in Seq(DownMsgs)
      BY <1>1, <2>1, TailFacts DEF Channels, Receiving, IsSeed
    <3> QED
      BY <3>1, SessionTail DEF Sessions
  <2>3. active' /\ ready' = Head(down).should
    BY <1>5, <2>2 DEF EnterCollab
  <2>4. Head(down).should \in BOOLEAN
    BY <1>1, <2>1, ReceivingType, DownType DEF Channels, IsSeed
  <2> QED
    BY <1>1, <1>2, <2>1, <2>2, <2>3, <2>4
<1>6. CASE LeaveCollab
  <2>1. Receiving("stopped") /\ ~active' /\ ~EnterCollab
    BY <1>1, <1>6 DEF LeaveCollab, LeaveWith, EnterCollab, Receiving
  <2> QED
    BY <1>1, <1>2, <1>6, <2>1
<1> QED
  BY <1>3, <1>4, <1>5, <1>6 DEF Taking

LEMMA Extending ==
    ASSUME Halves, [Sure]_vars, ~Taking
    PROVE  /\ UNCHANGED <<active, ready>>
           /\ \A i \in DOMAIN down : i \in DOMAIN down' /\ down'[i] = down[i]
           /\ \/ HubReplays \/ PeerEdit
              \/ \A k \in DOMAIN down' : k \in DOMAIN down \/ ~IsUpdate(down'[k])
           /\ HubAdmits \/ \A k \in DOMAIN down' : k \in DOMAIN down \/ ~IsSeed(down'[k])
<1>1. Channels
  BY DEF Halves
<1>2. CASE UNCHANGED <<active, ready, down>>
  BY <1>2
<1>3. CASE UNCHANGED vars \/ SaveTimer \/ MaterialiseTimer \/ ExternalEdit \/ Write
           \/ HandleUpdate \/ UserEdits \/ ReloadFromDisk \/ ToggleOn
  BY <1>2, <1>3 DEF vars, diskVars, pageVars, SaveTimer, MaterialiseTimer, ExternalEdit, Replace,
     Write, HandleUpdate, UserEdits, ReloadFromDisk, ToggleOn, ToggleOnIf
<1>4. ASSUME NEW m \in DownMsgs, down' = Append(down, m)
      PROVE  /\ \A i \in DOMAIN down : i \in DOMAIN down' /\ down'[i] = down[i]
             /\ \A k \in DOMAIN down' : k \in DOMAIN down \/ down'[k] = m
  BY <1>1, <1>4, AppendFacts DEF Channels
<1>5. CASE Telling
  BY <1>4, <1>5, TellingFacts DEF pageVars, IsDoc, IsUpdate, IsSeed
<1>6. CASE Stopping
  BY <1>6, StoppingFacts DEF pageVars, IsDoc, IsUpdate, IsStop, IsSeed
<1>7. CASE HubAdmits
  <2>1. UNCHANGED <<active, ready>>
    BY <1>7 DEF HubAdmits, pageVars
  <2> QED
    BY <1>4, <1>7, <2>1, HubAdmitsFacts DEF IsSeed, IsUpdate
<1>8. CASE HubReplays
  <2>1. UNCHANGED <<active, ready>>
    BY <1>8 DEF HubReplays, pageVars
  <2> QED
    BY <1>4, <1>8, <2>1, HubReplaysFacts DEF IsUpdate, IsSeed
<1>9. CASE PeerEdit
  <2>1. UNCHANGED <<active, ready>>
    BY <1>9 DEF PeerEdit, pageVars
  <2> QED
    BY <1>4, <1>9, <2>1, PeerEditFacts DEF IsUpdate, IsSeed
<1> QED
  BY <1>3, <1>5, <1>6, <1>7, <1>8, <1>9
    DEF Sure, PageStep, People, Taking, Telling, Stopping

----------------------------------------------------------------------------
(* What comes from the room.                                                *)

LEMMA NewsReceive ==
    ASSUME Channels, NEW type, Receiving(type),
           active' /\ ~ready'
           <=> \/ active /\ ~ready /\ type # "update" /\ type # "stopped"
               \/ type = "seed" /\ ~Head(down).should
    PROVE  \A k \in DOMAIN down' : News(k)' => News(k + 1)
<1>1. /\ down \in Seq(DownMsgs) /\ down # <<>> /\ down' = Tail(down) /\ Len(down) \in Nat \ {0}
      /\ Head(down) = down[1] /\ down[1].type = type
      /\ DOMAIN down = 1..Len(down) /\ DOMAIN down' = 1..(Len(down) - 1)
      /\ \A i \in DOMAIN down' : i + 1 \in DOMAIN down /\ down'[i] = down[i + 1]
  BY TailFacts DEF Channels, Receiving
<1> SUFFICES ASSUME NEW k \in DOMAIN down', News(k)' PROVE News(k + 1)
  OBVIOUS
<1>0. k \in Nat /\ k + 1 \in Nat /\ 1 < k + 1
  BY <1>1
<1>2. \A i \in Nat : Still(down', i, k) <=> Still(down, i + 1, k + 1)
  BY <1>0, <1>1, StillTail
<1>3. IsUpdate(down[k + 1]) /\ \A i \in 0..(k - 1) : Awaits(i)' => ~Still(down', i, k)
  BY <1>1 DEF News
<1>4. Awaits(0)' <=> active' /\ ~ready'
  BY <1>1 DEF Awaits
<1>5. Awaits(0)' => ~Still(down, 1, k + 1)
  BY <1>1, <1>2, <1>3
<1>6. Still(down, 0, k + 1) => Still(down, 1, k + 1) /\ type # "update" /\ type # "stopped"
  BY <1>0, <1>1, StillTail DEF IsUpdate, IsStop
<1>7. ASSUME NEW i \in 0..k, Awaits(i) PROVE ~Still(down, i, k + 1)
  <2>1. CASE i = 0
    <3>1. active /\ ~ready
      BY <1>1, <1>7, <2>1 DEF Awaits
    <3> QED
      BY <1>4, <1>5, <1>6, <2>1, <3>1
  <2>2. CASE i = 1
    <3>1. type = "seed" /\ ~Head(down).should
      BY <1>1, <1>7, <2>2 DEF Awaits, IsSeed
    <3> QED
      BY <1>4, <1>5, <2>2, <3>1
  <2>3. CASE i > 1
    <3>1. PICK j \in 1..(k - 1) : j = i - 1
      BY <1>1, <2>3
    <3>2. Awaits(j)' /\ j + 1 = i
      BY <1>1, <1>7, <2>3, <3>1 DEF Awaits
    <3>3. ~Still(down', j, k)
      BY <1>3, <3>1, <3>2
    <3> QED
      BY <1>2, <3>1, <3>2, <3>3
  <2> QED
    BY <1>1, <2>1, <2>2, <2>3
<1> QED
  BY <1>1, <1>3, <1>7 DEF News

LEMMA NewsExtend ==
    ASSUME Channels, Channels', UNCHANGED <<active, ready>>,
           \A i \in DOMAIN down : i \in DOMAIN down' /\ down'[i] = down[i]
    PROVE  \A k \in DOMAIN down : News(k)' => News(k)
<1>1. /\ DOMAIN down = 1..Len(down) /\ Len(down) \in Nat
      /\ DOMAIN down' = 1..Len(down') /\ Len(down') \in Nat
  BY DEF Channels
<1> SUFFICES ASSUME NEW k \in DOMAIN down, News(k)' PROVE News(k)
  OBVIOUS
<1>2. \A i \in 0..(k - 1) : Awaits(i) <=> Awaits(i)'
  BY <1>1 DEF Awaits
<1>3. \A i \in 0..(k - 1) : Still(down', i, k) => Still(down, i, k)
  BY <1>1 DEF Still
<1>4. \A i \in 0..(k - 1) : Still(down, i, k) => Still(down', i, k)
  BY <1>1 DEF Still
<1> QED
  BY <1>1, <1>2, <1>3, <1>4 DEF News

LEMMA SeenOld ==
    ASSUME Halves, Numbered, NEW x \in Fragments, Seen(x)
    PROVE  x[2] <= acts
<1>1. acts \in Nat
  BY ViewAssumption DEF Halves, Types
<1>2. \A m \in Held(down) : IsDoc(m) => Old(m.text, acts)
  BY DEF Numbered, DownsOld, OldDown
<1>3. \A m \in Held(up) : IsSave(m) => Old(m.text, acts)
  BY DEF Numbered, UpsOld, OldUp
<1> QED
  BY <1>1, <1>2, <1>3 DEF Seen, Numbered, TextsOld, Old

LEMMA SeenGrows ==
    ASSUME Halves, Sessions, Numbered, [Sure]_vars, NEW x \in Fragments, Seen(x)'
    PROVE  Seen(x) \/ x[2] = acts + 1 \/ (ReceiveUpdate /\ x \in Head(down).add)
<1> SUFFICES ASSUME ~Seen(x), x[2] # acts + 1, ReceiveUpdate => x \notin Head(down).add
             PROVE  FALSE
  OBVIOUS
<1>1. Channels /\ x[2] \in Nat /\ text \in Texts /\ acts \in Nat
  BY ViewAssumption DEF Halves, Types, Fragments
<1>2. /\ x[2] # 0 /\ x \notin text /\ x \notin lastSynced /\ x \notin qtText
      /\ \A t \in diskText : x \notin t
      /\ \A f \in Files : x \notin files[f]
      /\ \A m \in Held(up) : IsSave(m) => x \notin m.text
      /\ \A m \in Held(down) : IsDoc(m) => x \notin m.text
  BY DEF Seen
<1>3. ASSUME /\ x \notin text' /\ x \notin lastSynced' /\ x \notin qtText'
             /\ \A t \in diskText' : x \notin t
             /\ \A f \in Files : x \notin files'[f]
             /\ \A m \in Held(up') : IsSave(m) => x \notin m.text
             /\ \A m \in Held(down') : IsDoc(m) => x \notin m.text
      PROVE  FALSE
  BY <1>2, <1>3 DEF Seen
<1>4. /\ \A m \in UpMsgs : Send(<<m>>) => Held(up') = Held(up) \cup {m}
      /\ \A type : Handling(type) => Held(up') \subseteq Held(up)
      /\ \A type : Receiving(type) => Held(down') \subseteq Held(down) /\ Head(down) \in Held(down)
      /\ \A t \in Texts : Save(t) \in UpMsgs /\ Save(t).text = t
      /\ \A t, u \in Texts : Update(t, u) \in UpMsgs /\ ~IsSave(Update(t, u))
  BY <1>1, HeldUp, HeldDown, UpFacts DEF Channels
<1>5. \A t, f : \A new \in Changes(t, f) : x \in new => x \in t
  BY <1>1 DEF Changes
<1>6. CASE UNCHANGED vars
  BY <1>2, <1>3, <1>6 DEF vars, diskVars, qtVars, pageVars
<1>7. CASE SaveTimer
  BY <1>1, <1>2, <1>3, <1>4, <1>7 DEF SaveTimer, diskVars, qtVars
<1>8. CASE MaterialiseTimer
  BY <1>1, <1>2, <1>3, <1>4, <1>8 DEF MaterialiseTimer, diskVars, qtVars
<1>9. CASE OfferDisk
  BY <1>1, <1>2, <1>3, <1>4, <1>9 DEF OfferDisk, diskVars, qtVars, Receiving, IsDoc
<1>10. CASE TakeDisk
  BY <1>1, <1>2, <1>3, <1>4, <1>10 DEF TakeDisk, TakeIf, diskVars, qtVars, Receiving, IsDoc
<1>11. CASE EnterCollab
  <2> DEFINE m == Head(down)
             first == IF ~m.should THEN {} ELSE IF text # {} THEN text ELSE m.text
  <2>1. Receiving("seed") /\ IsSeed(m) /\ m \in DownMsgs /\ m.text \in Texts
    BY <1>1, <1>11, ReceivingType, DownType DEF EnterCollab, Channels, IsSeed
  <2>2. Old(m.text, 0)
    BY <1>4, <2>1 DEF Numbered, DownsOld, OldDown
  <2>3. first \in Texts /\ x \notin first
    BY <1>1, <1>2, <2>1, <2>2, TextsClosed DEF Old
  <2>4. /\ text' \in {text, first} /\ UNCHANGED <<lastSynced, qtText, diskText, files>>
        /\ up' = up \/ Send(<<Update({}, first)>>)
    BY <1>11 DEF EnterCollab, pageVars, diskVars, qtVars
  <2> HIDE DEF first, m
  <2> QED
    BY <1>2, <1>3, <1>4, <2>1, <2>3, <2>4, TextsClosed
<1>12. CASE ReceiveUpdate
  <2>1. x \notin Apply(text, Head(down))
    BY <1>2, <1>12 DEF Apply
  <2> QED
    BY <1>2, <1>3, <1>4, <1>12, <2>1 DEF ReceiveUpdate, diskVars, qtVars
<1>13. CASE LeaveCollab
  BY <1>1, <1>2, <1>3, <1>4, <1>13 DEF LeaveCollab, LeaveWith, diskVars, qtVars
<1>14. CASE Telling
  <2>1. path \in Files
    BY DEF Halves, Types
  <2>2. x \notin qtText'
    BY <1>2, <1>14, <2>1, TellingFacts
  <2>3. \A m \in Held(down') : IsDoc(m) => x \notin m.text
    <3>1. CASE down' = down
      BY <1>2, <3>1
    <3>2. CASE down' # down
      <4>1. PICK m \in DownMsgs : down' = Append(down, m) /\ m.text = qtText'
        BY <1>14, <3>2, TellingFacts
      <4>2. Held(down') = Held(down) \cup {m}
        BY <1>1, <4>1, HeldFacts DEF Channels
      <4> QED
        BY <1>2, <2>2, <4>1, <4>2
    <3> QED
      BY <3>1, <3>2
  <2> QED
    BY <1>2, <1>3, <1>4, <1>14, <2>2, <2>3, TellingFacts DEF pageVars
<1>15. CASE Write
  <2>1. Head(up) \in Held(up) /\ IsSave(Head(up)) /\ Handling("save")
    BY <1>1, <1>15, HeldUp DEF Write, Handling, Channels, IsSave
  <2>2. \A f \in Files : x \notin files'[f]
    BY <1>2, <1>15, <2>1 DEF Write, Halves, Types
  <2> QED
    BY <1>2, <1>3, <1>4, <1>15, <2>1, <2>2 DEF Write, pageVars
<1>16. CASE HandleUpdate
  BY <1>2, <1>3, <1>4, <1>16 DEF HandleUpdate, pageVars, qtVars
<1>17. CASE UserEdits
  <2>1. PICK new \in Changes(text, shows) : ChangeEditor(new)
    BY <1>17 DEF UserEdits
  <2>2. new \in Texts
    BY <1>17, <2>1, ChangesFacts, BudgetFacts DEF UserEdits, Halves, Types
  <2> QED
    BY <1>1, <1>2, <1>3, <1>4, <1>5, <1>17, <2>1, <2>2
      DEF UserEdits, ChangeEditor, diskVars, qtVars
<1>18. CASE ReloadFromDisk
  <2>1. PICK t \in diskText :
            IF t # text THEN ChangeEditor(t) ELSE UNCHANGED <<text, matTimer, saveTimer, up>>
    BY <1>18 DEF ReloadFromDisk
  <2>2. t \in Texts /\ x \notin t
    BY <1>2, <2>1 DEF Halves, Types
  <2> QED
    BY <1>1, <1>2, <1>3, <1>4, <1>18, <2>1, <2>2
      DEF ReloadFromDisk, ChangeEditor, diskVars, qtVars
<1>19. CASE ToggleOn
  BY <1>2, <1>3, <1>19 DEF ToggleOn, ToggleOnIf, pageVars
<1>20. CASE Stopping
  <2>1. UNCHANGED <<files, up, pageVars>>
    BY <1>20, StoppingFacts
  <2>2. x \notin qtText'
    BY <1>2, <1>20, OpenFacts DEF Stopping, ToggleOff, Retarget, Open, OpenTelling
  <2>3. \A m \in Held(down') : IsDoc(m) => x \notin m.text
    <3>1. CASE Open
      <4>1. qtText' = Doc(path', qtText').text /\ path' \in Files
        BY <3>1, OpenFacts, DownFacts
      <4> QED
        BY <1>2, <2>2, <3>1, <4>1, OpenHeld, DownFacts
    <3>2. CASE ToggleOff \/ Retarget
      BY <1>1, <1>2, <3>2, HeldDown, DownFacts DEF ToggleOff, Retarget, Channels
    <3> QED
      BY <1>20, <3>1, <3>2 DEF Stopping
  <2> QED
    BY <1>2, <1>3, <2>1, <2>2, <2>3 DEF pageVars
<1>21. CASE ExternalEdit
  <2>1. PICK new \in Changes(files[path], path) : files' = [files EXCEPT ![path] = new]
    BY <1>21 DEF ExternalEdit, Replace
  <2>2. \A f \in Files : x \notin files'[f]
    BY <1>2, <1>5, <2>1 DEF Halves, Types
  <2> QED
    BY <1>2, <1>3, <1>21, <2>2 DEF ExternalEdit, Replace, pageVars
<1>22. CASE HubAdmits \/ HubReplays \/ PeerEdit
  <2>1. UNCHANGED <<files, up, qtText, pageVars>>
    BY <1>22 DEF HubAdmits, HubReplays, PeerEdit, qtVars
  <2>2. down' = down \/ \E m \in DownMsgs : down' = Append(down, m) /\ ~IsDoc(m)
    BY <1>22, HubAdmitsFacts, HubReplaysFacts, PeerEditFacts DEF IsDoc, IsSeed, IsUpdate
  <2>3. \A m \in Held(down') : IsDoc(m) => x \notin m.text
    <3>1. CASE down' = down
      BY <1>2, <3>1
    <3>2. CASE down' # down
      <4>1. PICK m \in DownMsgs : down' = Append(down, m) /\ ~IsDoc(m)
        BY <2>2, <3>2
      <4>2. Held(down') = Held(down) \cup {m}
        BY <1>1, <4>1, HeldFacts DEF Channels
      <4> QED
        BY <1>2, <4>1, <4>2
    <3> QED
      BY <3>1, <3>2
  <2> QED
    BY <1>2, <1>3, <2>1, <2>3 DEF pageVars
<1> QED
  BY <1>6, <1>7, <1>8, <1>9, <1>10, <1>11, <1>12, <1>13, <1>14, <1>15, <1>16, <1>17, <1>18,
     <1>19, <1>20, <1>21, <1>22
  DEF Sure, PageStep, People, Telling, Stopping

LEMMA StepFresh ==
    Halves /\ Sessions /\ Replaying /\ Numbered /\ Fresh /\ [Sure]_vars => Fresh'
<1> SUFFICES ASSUME Halves, Sessions, Replaying, Numbered, Fresh, [Sure]_vars
             PROVE  Fresh'
  OBVIOUS
<1>1. Channels /\ Channels' /\ acts \in Nat
  BY SureIsNext, StepHalves, ViewAssumption DEF Halves, Types
<1>2. /\ DOMAIN down = 1..Len(down) /\ Len(down) \in Nat
      /\ DOMAIN down' = 1..Len(down') /\ Len(down') \in Nat
      /\ \A k \in DOMAIN down : down[k] \in DownMsgs /\ down[k] \in Held(down)
  BY <1>1, HeldFacts DEF Channels
<1>3. \A k \in DOMAIN down : IsUpdate(down[k]) =>
         \A x \in down[k].add : x \in Fragments /\ x[2] <= acts
  BY <1>2, DownType DEF Numbered, DownsOld, OldDown, Old, Texts
<1> SUFFICES ASSUME NEW k \in DOMAIN down', News(k)', NEW x \in down'[k].add
             PROVE  /\ ~Seen(x)'
                    /\ \A j \in 1..(k - 1) : ~(IsUpdate(down'[j]) /\ x \in down'[j].add)
  BY DEF Fresh
<1>4. CASE Taking
  <2>1. /\ Channels /\ down # <<>> /\ down' = Tail(down)
        /\ News(k + 1) /\ k + 1 \in DOMAIN down /\ 1 \in 1..k
        /\ down'[k] = down[k + 1] /\ Head(down) = down[1]
        /\ \A j \in 1..(k - 1) : j + 1 \in 1..k /\ down'[j] = down[j + 1]
    <3>1. PICK type : /\ Receiving(type)
                      /\ active' /\ ~ready'
                         <=> \/ active /\ ~ready /\ type # "update" /\ type # "stopped"
                             \/ type = "seed" /\ ~Head(down).should
      BY <1>4, TakingFacts
    <3>2. News(k + 1)
      BY <1>1, <3>1, NewsReceive
    <3> QED
      BY <1>1, <1>2, <3>1, <3>2, TailFacts DEF Channels, Receiving
  <2>2. ~Seen(x) /\ \A j \in 1..k : ~(IsUpdate(down[j]) /\ x \in down[j].add)
    BY <2>1 DEF Fresh
  <2>3. \A j \in 1..(k - 1) : ~(IsUpdate(down'[j]) /\ x \in down'[j].add)
    BY <2>1, <2>2
  <2>4. x \in Fragments /\ x[2] <= acts /\ x[2] # acts + 1
    <3>1. x[2] <= acts /\ x \in Fragments
      BY <1>3, <2>1 DEF News
    <3> QED
      BY <1>1, <3>1, ViewAssumption DEF Fragments
  <2>5. ReceiveUpdate => x \notin Head(down).add
    BY <2>1, <2>2 DEF ReceiveUpdate, Receiving, IsUpdate
  <2> QED
    BY <2>2, <2>3, <2>4, <2>5, SeenGrows
<1>5. CASE ~Taking
  <2>1. /\ UNCHANGED <<active, ready>>
        /\ \A i \in DOMAIN down : i \in DOMAIN down' /\ down'[i] = down[i]
        /\ \/ HubReplays \/ PeerEdit
           \/ \A i \in DOMAIN down' : i \in DOMAIN down \/ ~IsUpdate(down'[i])
    BY <1>5, Extending
  <2>2. ~ReceiveUpdate
    BY <1>5 DEF Taking
  <2>3. CASE k \in DOMAIN down
    <3>1. News(k)
      BY <1>1, <2>1, <2>3, NewsExtend
    <3>2. ~Seen(x) /\ \A j \in 1..(k - 1) : ~(IsUpdate(down[j]) /\ x \in down[j].add)
      BY <2>1, <2>3, <3>1 DEF Fresh
    <3>3. \A j \in 1..(k - 1) : ~(IsUpdate(down'[j]) /\ x \in down'[j].add)
      BY <1>2, <2>1, <2>3, <3>2
    <3>4. x \in Fragments /\ x[2] # acts + 1
      <4>1. x[2] <= acts /\ x \in Fragments
        BY <1>3, <2>1, <2>3, <3>1 DEF News
      <4> QED
        BY <1>1, <4>1, ViewAssumption DEF Fragments
    <3> QED
      BY <2>2, <3>2, <3>3, <3>4, SeenGrows
  <2>4. CASE HubReplays /\ k \notin DOMAIN down
    <3>1. PICK t \in due : \E m \in DownMsgs : down' = Append(down, m)
      BY <2>4, HubReplaysFacts
    <3>2. k = Len(down) + 1
      BY <1>1, <1>2, <2>4, <3>1, AppendFacts DEF Channels
    <3>3. PICK i \in 0..Len(down) : Awaiting(i)
      BY <3>1 DEF Replaying, Waits
    <3>4. Awaits(i)' /\ Still(down', i, k)
      <4>1. Awaits(i)'
        BY <1>2, <2>1, <3>3 DEF Awaiting, Awaits
      <4>2. \A j \in DOMAIN down' : j < k => j \in DOMAIN down
        BY <1>2, <3>2
      <4> QED
        BY <2>1, <3>2, <3>3, <4>1, <4>2 DEF Awaiting, Still
    <3> QED
      BY <1>2, <3>2, <3>3, <3>4 DEF News
  <2>5. CASE PeerEdit /\ k \notin DOMAIN down
    <3>1. PICK new \in Texts : \E m \in DownMsgs :
             /\ new = {<<Readme, acts + 1>>}
             /\ m.add = new /\ IsUpdate(m)
             /\ down' = IF member = "in" /\ due = {} THEN Append(down, m) ELSE down
             /\ UNCHANGED <<files, seeded, member, qtVars, up, pageVars, history>>
      BY <2>5, PeerEditFacts
    <3>2. PICK m \in DownMsgs : down' = Append(down, m) /\ m.add = new /\ IsUpdate(m)
      BY <2>5, <3>1
    <3>3. k = Len(down) + 1 /\ down'[k] = m /\ \A i \in DOMAIN down : down'[i] = down[i]
      BY <1>1, <1>2, <2>5, <3>2, AppendFacts DEF Channels
    <3>4. x = <<Readme, acts + 1>> /\ x \in Fragments /\ x[2] = acts + 1
      BY <3>1, <3>2, <3>3 DEF Texts
    <3>5. ~Seen(x)
      BY <1>1, <3>4, SeenOld
    <3>6. ~Seen(x)'
      <4>1. \A n \in Held(down') : IsDoc(n) => n \in Held(down)
        BY <1>1, <3>2, HeldFacts DEF Channels, IsDoc, IsUpdate
      <4> QED
        BY <3>1, <3>5, <4>1 DEF Seen, qtVars, pageVars
    <3>7. \A j \in 1..(k - 1) : ~(IsUpdate(down'[j]) /\ x \in down'[j].add)
      BY <1>1, <1>2, <1>3, <3>3, <3>4
    <3> QED
      BY <3>6, <3>7
  <2> QED
    BY <2>1, <2>3, <2>4, <2>5 DEF News
<1> QED
  BY <1>4, <1>5

LEMMA FallsAppend ==
    ASSUME Channels, NEW m \in DownMsgs, down' = Append(down, m), NEW x, NEW i \in Nat
    PROVE  Falls(x, i)' <=> Falls(x, i) \/ (i <= Len(down) /\ IsUpdate(m) /\ x \in m.add)
<1>1. /\ DOMAIN down = 1..Len(down) /\ DOMAIN down' = DOMAIN down \cup {Len(down) + 1}
      /\ Len(down) \in Nat /\ down'[Len(down) + 1] = m
      /\ \A k \in DOMAIN down : down'[k] = down[k]
  BY AppendFacts DEF Channels
<1> QED
  BY <1>1 DEF Falls

LEMMA FallsExtend ==
    ASSUME \A k \in DOMAIN down : k \in DOMAIN down' /\ down'[k] = down[k],
           \A k \in DOMAIN down' : k \in DOMAIN down \/ ~IsUpdate(down'[k]),
           NEW x, NEW i
    PROVE  Falls(x, i)' <=> Falls(x, i)
  BY DEF Falls

LEMMA FallsTail ==
    ASSUME Channels, NEW type, Receiving(type), NEW x
    PROVE  /\ \A i \in Nat : Falls(x, i)' <=> Falls(x, i + 1)
           /\ Falls(x, 0) <=> Falls(x, 1) \/ (IsUpdate(Head(down)) /\ x \in Head(down).add)
<1>1. /\ DOMAIN down = 1..Len(down) /\ Len(down) \in Nat /\ 1 \in DOMAIN down
      /\ DOMAIN down' \subseteq Nat \ {0} /\ Head(down) = down[1]
      /\ \A i \in DOMAIN down' : i + 1 \in DOMAIN down /\ down'[i] = down[i + 1]
      /\ \A i \in DOMAIN down : i = 1 \/ (i - 1 \in DOMAIN down' /\ down'[i - 1] = down[i])
  BY TailFacts DEF Channels, Receiving
<1>2. ASSUME NEW i \in Nat, Falls(x, i + 1) PROVE Falls(x, i)'
  <2>1. PICK k \in DOMAIN down : i + 1 < k /\ IsUpdate(down[k]) /\ x \in down[k].add
    BY <1>2 DEF Falls
  <2>2. k - 1 \in DOMAIN down' /\ down'[k - 1] = down[k] /\ i < k - 1
    BY <1>1, <2>1
  <2> QED
    BY <2>1, <2>2 DEF Falls
<1>3. ASSUME NEW i \in Nat, Falls(x, i)' PROVE Falls(x, i + 1)
  <2>1. PICK k \in DOMAIN down' : i < k /\ IsUpdate(down'[k]) /\ x \in down'[k].add
    BY <1>3 DEF Falls
  <2>2. k + 1 \in DOMAIN down /\ down'[k] = down[k + 1] /\ i + 1 < k + 1
    BY <1>1, <2>1
  <2> QED
    BY <2>1, <2>2 DEF Falls
<1>4. Falls(x, 0) <=> Falls(x, 1) \/ (IsUpdate(Head(down)) /\ x \in Head(down).add)
  <2>1. \A k \in DOMAIN down : 0 < k /\ (k = 1 \/ 1 < k)
    BY <1>1
  <2> QED
    BY <1>1, <2>1 DEF Falls
<1> QED
  BY <1>2, <1>3, <1>4

(* Sending an update, or the hub's taking it, does to x what it says. *)
LEMMA LaterSend ==
    ASSUME Channels, NEW m \in UpMsgs, up' = Append(up, m), room' = room, NEW x
    PROVE  /\ ~IsUpdate(m) => (Later(x)' <=> Later(x))
           /\ IsUpdate(m) /\ m.add \cap m.del = {}
              => (Later(x)' <=> x \in m.add \/ (Later(x) /\ x \notin m.del))
<1> DEFINE n == Len(up) + 1
<1>1. /\ DOMAIN up = 1..Len(up) /\ DOMAIN up' = DOMAIN up \cup {n} /\ Len(up) \in Nat
      /\ up'[n] = m /\ \A i \in DOMAIN up : up'[i] = up[i] /\ i < n /\ ~(n < i)
      /\ ~(n < n)
  BY AppendFacts DEF Channels
<1> HIDE DEF n
<1>2. ~IsUpdate(m) => (Later(x)' <=> Later(x))
  BY <1>1 DEF Later
<1>3. ASSUME IsUpdate(m), x \in m.add, x \notin m.del PROVE Later(x)'
  BY <1>1, <1>3 DEF Later
<1>4. ASSUME IsUpdate(m), x \in m.del, x \notin m.add PROVE ~Later(x)'
  BY <1>1, <1>4 DEF Later
<1>5. ASSUME IsUpdate(m), x \notin m.del, x \notin m.add PROVE Later(x)' <=> Later(x)
  BY <1>1, <1>5 DEF Later
<1> QED
  BY <1>2, <1>3, <1>4, <1>5

LEMMA LaterHandle ==
    ASSUME Channels, NEW type, Handling(type), NEW x
    PROVE  /\ type # "update" /\ room' = room => (Later(x)' <=> Later(x))
           /\ type = "update" /\ room' = Apply(room, Head(up)) /\ Head(up).add \cap Head(up).del = {}
              => (Later(x)' <=> Later(x))
<1>1. /\ DOMAIN up = 1..Len(up) /\ Len(up) \in Nat /\ 1 \in DOMAIN up /\ Head(up) = up[1]
      /\ up[1].type = type
      /\ \A i \in DOMAIN up' : i + 1 \in DOMAIN up /\ up'[i] = up[i + 1]
      /\ \A i \in DOMAIN up : i = 1 \/ (1 < i /\ i - 1 \in DOMAIN up' /\ up'[i - 1] = up[i])
      /\ DOMAIN up' \subseteq Nat \ {0}
  BY TailFacts DEF Channels, Handling
<1> DEFINE Adds(i) == i \in DOMAIN up /\ IsUpdate(up[i]) /\ x \in up[i].add
           Dels(i) == i \in DOMAIN up /\ IsUpdate(up[i]) /\ x \in up[i].del
           Rest == /\ x \in room' \/ \E i \in DOMAIN up : 1 < i /\ Adds(i)
                   /\ \A i \in DOMAIN up : 1 < i /\ Dels(i) => \E j \in DOMAIN up : i < j /\ Adds(j)
<1>2. Later(x)' <=> Rest
  <2>1. ASSUME Later(x)' PROVE Rest
    <3>1. x \in room' \/ \E i \in DOMAIN up : 1 < i /\ Adds(i)
      <4>1. CASE x \in room'
        BY <4>1
      <4>2. CASE x \notin room'
        <5>1. PICK i \in DOMAIN up' : IsUpdate(up'[i]) /\ x \in up'[i].add
          BY <2>1, <4>2 DEF Later
        <5>2. i + 1 \in DOMAIN up /\ 1 < i + 1 /\ Adds(i + 1)
          BY <1>1, <5>1
        <5> QED
          BY <5>2
      <4> QED
        BY <4>1, <4>2
    <3>2. ASSUME NEW i \in DOMAIN up, 1 < i, Dels(i) PROVE \E j \in DOMAIN up : i < j /\ Adds(j)
      <4>1. i - 1 \in DOMAIN up' /\ up'[i - 1] = up[i]
        BY <1>1, <3>2
      <4>2. PICK j \in DOMAIN up' : i - 1 < j /\ IsUpdate(up'[j]) /\ x \in up'[j].add
        BY <2>1, <3>2, <4>1 DEF Later
      <4>3. j + 1 \in DOMAIN up /\ i < j + 1 /\ Adds(j + 1)
        BY <1>1, <4>2
      <4> QED
        BY <4>3
    <3> QED
      BY <3>1, <3>2
  <2>2. ASSUME Rest PROVE Later(x)'
    <3>1. ASSUME NEW i \in DOMAIN up, 1 < i, Adds(i)
          PROVE  i - 1 \in DOMAIN up' /\ IsUpdate(up'[i - 1]) /\ x \in up'[i - 1].add
      BY <1>1, <3>1
    <3>2. x \in room' \/ \E i \in DOMAIN up' : IsUpdate(up'[i]) /\ x \in up'[i].add
      BY <2>2, <3>1
    <3>3. ASSUME NEW i \in DOMAIN up', IsUpdate(up'[i]), x \in up'[i].del
          PROVE  \E j \in DOMAIN up' : i < j /\ IsUpdate(up'[j]) /\ x \in up'[j].add
      <4>1. i + 1 \in DOMAIN up /\ 1 < i + 1 /\ Dels(i + 1)
        BY <1>1, <3>3
      <4>2. PICK j \in DOMAIN up : i + 1 < j /\ Adds(j)
        BY <2>2, <4>1
      <4>3. i < j - 1 /\ 1 < j
        BY <1>1, <4>2
      <4> QED
        BY <3>1, <4>2, <4>3
    <3> QED
      BY <3>2, <3>3 DEF Later
  <2> QED
    BY <2>1, <2>2
<1>3. Later(x) <=> /\ x \in room \/ \E i \in DOMAIN up : Adds(i)
                   /\ \A i \in DOMAIN up : Dels(i) => \E j \in DOMAIN up : i < j /\ Adds(j)
  BY DEF Later
<1>4. /\ Adds(1) <=> type = "update" /\ x \in Head(up).add
      /\ Dels(1) <=> type = "update" /\ x \in Head(up).del
      /\ \A i \in DOMAIN up : i = 1 \/ 1 < i
  BY <1>1 DEF IsUpdate
<1> HIDE DEF Adds, Dels
<1>5. CASE type # "update" /\ room' = room
  BY <1>2, <1>3, <1>4, <1>5
<1>6. CASE type = "update" /\ room' = Apply(room, Head(up)) /\ Head(up).add \cap Head(up).del = {}
  <2>1. x \in room' <=> (x \in room \/ Adds(1)) /\ ~Dels(1)
    BY <1>4, <1>6 DEF Apply
  <2>2. ~(Adds(1) /\ Dels(1))
    BY <1>4, <1>6
  <2>3. Rest => Later(x)
    <3> SUFFICES ASSUME Rest PROVE Later(x)
      OBVIOUS
    <3>1. Dels(1) => \E j \in DOMAIN up : 1 < j /\ Adds(j)
      BY <2>1
    <3>2. x \in room \/ \E i \in DOMAIN up : Adds(i)
      BY <1>1, <2>1
    <3>3. \A i \in DOMAIN up : Dels(i) => \E j \in DOMAIN up : i < j /\ Adds(j)
      BY <1>4, <3>1
    <3> QED
      BY <1>3, <3>2, <3>3
  <2>4. Later(x) => Rest
    BY <1>1, <1>3, <1>4, <2>1, <2>2
  <2> QED
    BY <1>2, <2>3, <2>4
<1> QED
  BY <1>5, <1>6

LEMMA LaterSame ==
    ASSUME up' = up, room' = room, NEW x
    PROVE  Later(x)' <=> Later(x)
  BY DEF Later

(* Steps that let text, room and what comes from it be. *)
Idling ==
    UNCHANGED vars \/ SaveTimer \/ MaterialiseTimer \/ ExternalEdit \/ Write \/ Telling
    \/ ToggleOn

LEMMA IdlingFacts ==
    ASSUME Halves, Idling
    PROVE  /\ UNCHANGED <<text, room, due, active, ready, seeded>>
           /\ \A k \in DOMAIN down' : k \in DOMAIN down \/ IsDoc(down'[k])
           /\ \A x : Later(x)' <=> Later(x)
<1>1. Channels /\ text \in Texts
  BY DEF Halves, Types
<1>2. Save(text) \in UpMsgs /\ ~IsUpdate(Save(text))
  BY <1>1, UpFacts
<1>3. CASE SaveTimer \/ MaterialiseTimer
  <2>1. UNCHANGED <<text, room, due, active, ready, seeded, down>>
    BY <1>3 DEF SaveTimer, MaterialiseTimer, diskVars
  <2>2. up' = up \/ up' = Append(up, Save(text))
    BY <1>1, <1>2, <1>3, SendType DEF SaveTimer, MaterialiseTimer, Channels
  <2> QED
    BY <1>1, <1>2, <2>1, <2>2, LaterSend, LaterSame
<1>4. CASE UNCHANGED vars \/ ExternalEdit \/ ToggleOn
  <2>1. UNCHANGED <<text, room, due, active, ready, seeded, down, up>>
    BY <1>4 DEF vars, diskVars, pageVars, ExternalEdit, Replace, ToggleOn, ToggleOnIf
  <2> QED
    BY <2>1, LaterSame
<1>5. CASE Write
  <2>1. UNCHANGED <<text, room, due, active, ready, seeded, down>> /\ Handling("save")
    BY <1>5 DEF Write, pageVars
  <2> QED
    BY <1>1, <2>1, LaterHandle
<1>6. CASE Telling
  <2>1. /\ UNCHANGED <<text, room, due, active, ready, seeded>>
        /\ up' = up \/ Handling("ready")
        /\ down' = down \/ \E m \in DownMsgs : down' = Append(down, m) /\ IsDoc(m)
    BY <1>6, TellingFacts DEF pageVars
  <2>2. \A k \in DOMAIN down' : k \in DOMAIN down \/ IsDoc(down'[k])
    BY <1>1, <2>1, AppendFacts DEF Channels
  <2>3. \A x : Later(x)' <=> Later(x)
    BY <1>1, <2>1, LaterHandle, LaterSame
  <2> QED
    BY <2>1, <2>2, <2>3
<1> QED
  BY <1>3, <1>4, <1>5, <1>6 DEF Idling

(* The text is changed by hand. *)
Editing == UserEdits \/ ReloadFromDisk

LEMMA EditingFacts ==
    ASSUME Halves, Editing
    PROVE  /\ UNCHANGED <<room, due, active, ready, seeded, member, down>>
           /\ text' \in Texts
           /\ UserEdits => \A x \in text' : x \in text \/ x[2] = acts + 1
           /\ active => \A x : Later(x)' <=> \/ x \in text' /\ x \notin text
                                             \/ Later(x) /\ (x \in text => x \in text')
<1>1. Channels /\ text \in Texts /\ diskText \subseteq Texts
  BY DEF Halves, Types
<1>2. ASSUME NEW new \in Texts, ChangeEditor(new), room' = room, active, NEW x
      PROVE  Later(x)' <=> (x \in new /\ x \notin text) \/ (Later(x) /\ (x \in text => x \in new))
  <2> DEFINE m == Update(text, new)
  <2>1. m \in UpMsgs /\ IsUpdate(m) /\ m.add = new \ text /\ m.del = text \ new
    BY <1>1, UpFacts
  <2>2. Send(<<m>>)
    BY <1>2 DEF ChangeEditor
  <2> HIDE DEF m
  <2>3. up' = Append(up, m)
    BY <1>1, <2>1, <2>2, SendType DEF Channels
  <2>4. m.add \cap m.del = {}
    BY <2>1
  <2> QED
    BY <1>1, <1>2, <2>1, <2>3, <2>4, LaterSend
<1>3. CASE UserEdits
  <2>1. /\ UNCHANGED <<room, due, active, ready, seeded, member, down>>
        /\ acts < MaxActs /\ acts \in 0..MaxActs /\ shows \in Files
    BY <1>3 DEF UserEdits, diskVars, Halves, Types, Budget
  <2>2. PICK new \in Changes(text, shows) : ChangeEditor(new)
    BY <1>3 DEF UserEdits
  <2>3. new \in Texts /\ \A x \in new : x \in text \/ x = <<shows, acts + 1>>
    BY <1>1, <2>1, <2>2, ChangesFacts
  <2>4. text' = new
    BY <2>2 DEF ChangeEditor
  <2> QED
    BY <1>2, <2>1, <2>2, <2>3, <2>4
<1>4. CASE ReloadFromDisk
  <2>1. UNCHANGED <<room, due, active, ready, seeded, member, down>>
    BY <1>4 DEF ReloadFromDisk, diskVars
  <2>2. PICK t \in diskText :
            IF t # text THEN ChangeEditor(t) ELSE UNCHANGED <<text, matTimer, saveTimer, up>>
    BY <1>4 DEF ReloadFromDisk
  <2>3. t \in Texts /\ text' = t
    BY <1>1, <2>2 DEF ChangeEditor
  <2>4. ~UserEdits
    BY <1>4 DEF ReloadFromDisk, UserEdits, Budget
  <2>5. CASE t = text
    BY <2>1, <2>2, <2>3, <2>5, LaterSame
  <2>6. CASE t # text
    <3>1. ChangeEditor(t)
      BY <2>2, <2>6
    <3>2. active => \A x : Later(x)' <=> (x \in t /\ x \notin text)
                                           \/ (Later(x) /\ (x \in text => x \in t))
      BY <1>2, <2>1, <2>3, <3>1
    <3> QED
      BY <2>1, <2>3, <2>4, <3>2
  <2> QED
    BY <1>4, <2>1, <2>3, <2>5, <2>6
<1> QED
  BY <1>3, <1>4 DEF Editing

(* Nothing of the room is lost or doubled on its way. *)
LEMMA ComesReplay ==
    ASSUME Halves, Replaying, HubReplays, NEW x, NEW i \in 0..Len(down)
    PROVE  Comes(x, i)' <=> Comes(x, i)
<1>1. PICK t \in due : \E m \in DownMsgs :
             /\ IsUpdate(m) /\ m.add = t /\ down' = Append(down, m) /\ due' = {}
  BY HubReplaysFacts
<1>2. PICK m \in DownMsgs : IsUpdate(m) /\ m.add = t /\ down' = Append(down, m) /\ due' = {}
  BY <1>1
<1>3. Channels /\ i \in Nat /\ i <= Len(down) /\ \A u \in due : u = t
  BY DEF Halves, Channels, Replaying
<1>4. Falls(x, i)' <=> Falls(x, i) \/ x \in t
  BY <1>2, <1>3, FallsAppend
<1>5. (Due(x) <=> x \in t) /\ ~Due(x)'
  BY <1>2, <1>3 DEF Due
<1> QED
  BY <1>4, <1>5 DEF Comes

LEMMA ComesPeer ==
    ASSUME Halves, PeerEdit, member = "in", NEW x, NEW i \in 0..Len(down)
    PROVE  Comes(x, i)' <=> Comes(x, i) \/ x = <<Readme, acts + 1>>
<1>1. PICK new \in Texts : \E m \in DownMsgs :
             /\ new = {<<Readme, acts + 1>>}
             /\ due' = {t \cup new : t \in due}
             /\ IsUpdate(m) /\ m.add = new
             /\ down' = IF member = "in" /\ due = {} THEN Append(down, m) ELSE down
  BY PeerEditFacts
<1>2. Channels /\ i \in Nat /\ i <= Len(down)
  BY DEF Halves, Channels
<1>3. CASE due = {}
  <2>1. PICK m \in DownMsgs : IsUpdate(m) /\ m.add = new /\ down' = Append(down, m)
    BY <1>1, <1>3
  <2>2. Falls(x, i)' <=> Falls(x, i) \/ x \in new
    BY <1>2, <2>1, FallsAppend
  <2>3. ~Due(x) /\ ~Due(x)'
    BY <1>1, <1>3 DEF Due
  <2> QED
    BY <1>1, <2>2, <2>3 DEF Comes
<1>4. CASE due # {}
  <2>1. Falls(x, i)' <=> Falls(x, i)
    BY <1>1, <1>4 DEF Falls
  <2>2. Due(x)' <=> Due(x) \/ x \in new
    <3>1. PICK t \in due : TRUE
      BY <1>4
    <3>2. t \cup new \in due' /\ \A u \in due' : \E v \in due : u = v \cup new
      BY <1>1, <3>1
    <3>3. \A v \in due : v \cup new \in due'
      BY <1>1
    <3>4. Due(x)' => Due(x) \/ x \in new
      BY <3>2 DEF Due
    <3>5. Due(x) \/ x \in new => Due(x)'
      BY <3>2, <3>3 DEF Due
    <3> QED
      BY <3>4, <3>5
  <2> QED
    BY <1>1, <2>1, <2>2 DEF Comes
<1> QED
  BY <1>3, <1>4

LEMMA StillExtend ==
    ASSUME Channels, Channels', \A i \in DOMAIN down : i \in DOMAIN down' /\ down'[i] = down[i]
    PROVE  /\ Len(down) <= Len(down')
           /\ \A i \in Nat : \A k \in 1..(Len(down) + 1) : Still(down', i, k) => Still(down, i, k)
           /\ \A i \in Nat : Still(down', i, Len(down') + 1) => Still(down, i, Len(down) + 1)
<1>1. /\ DOMAIN down = 1..Len(down) /\ Len(down) \in Nat
      /\ DOMAIN down' = 1..Len(down') /\ Len(down') \in Nat
  BY DEF Channels
<1>2. Len(down) <= Len(down')
  BY <1>1
<1>3. \A i \in Nat : \A k \in 1..(Len(down) + 1) : Still(down', i, k) => Still(down, i, k)
  BY <1>1 DEF Still
<1>4. \A i \in Nat : Still(down', i, Len(down') + 1) => Still(down, i, Len(down) + 1)
  BY <1>1, <1>2 DEF Still
<1> QED
  BY <1>2, <1>3, <1>4

LEMMA StepCleared ==
    Halves /\ Sessions /\ Numbered /\ Cleared /\ Undisturbed' /\ [Sure]_vars => Cleared'
<1> SUFFICES ASSUME Halves, Sessions, Numbered, Cleared, Undisturbed', [Sure]_vars,
                    active', ~ready', NEW x \in text'
             PROVE  /\ \A k \in DOMAIN down' :
                          IsUpdate(down'[k]) /\ Still(down', 0, k) => x \notin down'[k].add
                    /\ Still(down', 0, Len(down') + 1) => \A t \in due' : x \notin t
  BY DEF Cleared
<1>1. Channels /\ Channels' /\ acts \in Nat /\ text \in Texts
  BY SureIsNext, StepHalves, ViewAssumption DEF Halves, Types
<1>2. /\ DOMAIN down = 1..Len(down) /\ Len(down) \in Nat
      /\ DOMAIN down' = 1..Len(down') /\ Len(down') \in Nat
      /\ \A k \in DOMAIN down : down[k] \in Held(down)
  BY <1>1, HeldFacts DEF Channels
<1>3. CASE Taking
  <2>1. PICK type \in {"doc", "seed", "update", "stopped"} :
            /\ Receiving(type)
            /\ active' /\ ~ready'
               <=> \/ active /\ ~ready /\ type # "update" /\ type # "stopped"
                   \/ type = "seed" /\ ~Head(down).should
    BY <1>3, TakingFacts
  <2>2. /\ down # <<>> /\ down' = Tail(down) /\ Head(down) = down[1] /\ Head(down).type = type
        /\ Len(down') + 1 = Len(down)
        /\ \A k \in DOMAIN down' : k + 1 \in DOMAIN down /\ 1 < k + 1 /\ down'[k] = down[k + 1]
    BY <1>1, <1>2, <2>1, TailFacts DEF Receiving, Channels
  <2>3. type # "seed"
    <3> SUFFICES ASSUME type = "seed" PROVE FALSE
      OBVIOUS
    <3>1. EnterCollab
      BY <1>3, <2>2
        DEF Taking, OfferDisk, TakeDisk, TakeIf, EnterCollab, ReceiveUpdate, LeaveCollab,
         LeaveWith, Receiving
    <3>2. ~active /\ ~Head(down).should
      <4>1. ~active /\ ready' = Head(down).should
        BY <1>3, <3>1, TakingFacts
      <4> QED
        BY <4>1
    <3>3. text' = {}
      BY <3>1, <3>2 DEF EnterCollab
    <3> QED
      BY <3>3
  <2>4. active /\ ~ready /\ type = "doc"
    BY <2>1, <2>3
  <2>5. OfferDisk
    BY <1>3, <2>2, <2>4 DEF Taking, OfferDisk, TakeDisk, TakeIf, EnterCollab, ReceiveUpdate,
       LeaveCollab, LeaveWith, Receiving
  <2>6. text' = text /\ due' = due
    BY <2>5 DEF OfferDisk, diskVars
  <2>7. ~IsUpdate(down[1]) /\ ~IsStop(down[1])
    BY <2>2, <2>4 DEF IsUpdate, IsStop
  <2>8. \A k \in Nat : 0 < k => (Still(down', 0, k) <=> Still(down, 0, k + 1))
    <3> TAKE k \in Nat
    <3>1. k + 1 \in Nat /\ (0 < k => 1 < k + 1) /\ 0 \in Nat /\ 0 + 1 = 1
      OBVIOUS
    <3>2. Still(down', 0, k) <=> Still(down, 1, k + 1)
      BY <1>1, <2>2, <3>1, StillTail DEF Channels
    <3>3. 0 < k => (Still(down, 0, k + 1) <=> Still(down, 1, k + 1))
      BY <1>1, <2>2, <2>7, <3>1, StillTail DEF Channels
    <3> QED
      BY <3>2, <3>3
  <2>9. ASSUME NEW k \in DOMAIN down', IsUpdate(down'[k]), Still(down', 0, k)
        PROVE  x \notin down'[k].add
    <3>1. Still(down, 0, k + 1)
      BY <1>2, <2>8, <2>9
    <3> QED
      BY <2>2, <2>4, <2>6, <2>9, <3>1 DEF Cleared
  <2>10. ASSUME Still(down', 0, Len(down') + 1) PROVE \A t \in due' : x \notin t
    <3>1. Still(down, 0, Len(down) + 1)
      BY <1>2, <2>2, <2>8, <2>10
    <3> QED
      BY <2>4, <2>6, <3>1 DEF Cleared
  <2> QED
    BY <2>9, <2>10
<1>4. CASE ~Taking
  <2>0. active \in BOOLEAN /\ ready \in BOOLEAN /\ active' = active /\ ready' = ready
    BY <1>4, Extending DEF Halves, Types
  <2>1. /\ active /\ ~ready
        /\ \A i \in DOMAIN down : i \in DOMAIN down' /\ down'[i] = down[i]
    BY <1>4, <2>0, Extending
  <2>2. /\ \A k \in 1..(Len(down) + 1) : Still(down', 0, k) => Still(down, 0, k)
        /\ Still(down', 0, Len(down') + 1) => Still(down, 0, Len(down) + 1)
    BY <1>1, <2>1, StillExtend
  <2>3. CASE x \in text
    <3>1. \A k \in DOMAIN down : IsUpdate(down'[k]) /\ Still(down', 0, k) => x \notin down'[k].add
      BY <1>2, <2>1, <2>2, <2>3 DEF Cleared
    <3>2. Still(down', 0, Len(down') + 1) => \A t \in due : x \notin t
      BY <2>1, <2>2, <2>3 DEF Cleared
    <3>3. CASE /\ \A k \in DOMAIN down' : k \in DOMAIN down \/ ~IsUpdate(down'[k])
               /\ due' = due \/ due' = {}
      BY <3>1, <3>2, <3>3
    <3>4. CASE HubAdmits
      <4>1. ~Still(down, 0, Len(down) + 1)
        BY <1>2, <1>1, <2>1, <3>4 DEF Sessions, HubAdmits, Stops, Still
      <4>2. \A k \in DOMAIN down' : k \in DOMAIN down \/ ~IsUpdate(down'[k])
        BY <1>1, <3>4, HubAdmitsFacts, AppendFacts DEF Channels, IsUpdate, IsSeed
      <4> QED
        BY <2>2, <3>1, <4>1, <4>2
    <3>5. CASE HubReplays
      <4>1. PICK t \in due : \E m \in DownMsgs :
                 IsUpdate(m) /\ m.add = t /\ down' = Append(down, m) /\ due' = {}
        BY <3>5, HubReplaysFacts
      <4>2. \A k \in DOMAIN down' : k \in DOMAIN down \/ (k = Len(down) + 1 /\ down'[k].add = t)
        BY <1>1, <4>1, AppendFacts DEF Channels
      <4>3. Still(down', 0, Len(down) + 1) => x \notin t
        BY <1>2, <2>1, <2>2, <2>3, <4>1 DEF Cleared
      <4> QED
        BY <3>1, <4>1, <4>2, <4>3
    <3>6. CASE PeerEdit
      <4>1. PICK new \in Texts : \E m \in DownMsgs :
               /\ new = {<<Readme, acts + 1>>} /\ due' = {t \cup new : t \in due}
               /\ IsUpdate(m) /\ m.add = new
               /\ down' = IF member = "in" /\ due = {} THEN Append(down, m) ELSE down
        BY <3>6, PeerEditFacts
      <4>2. x \notin new
        <5>1. x[2] <= acts /\ x \in Fragments
          BY <1>1, <2>3 DEF Numbered, TextsOld, Old, Texts
        <5> QED
          BY <1>1, <4>1, <5>1
      <4>3. \A k \in DOMAIN down' : k \in DOMAIN down \/ down'[k].add = new
        BY <1>1, <4>1, AppendFacts DEF Channels
      <4>4. \A u \in due' : \E t \in due : u = t \cup new
        BY <4>1
      <4> QED
        BY <3>1, <3>2, <4>2, <4>3, <4>4
    <3>7. CASE Idling \/ Editing \/ HandleUpdate \/ Stopping
      <4>1. \A k \in DOMAIN down' : k \in DOMAIN down \/ ~IsUpdate(down'[k])
        <5>1. \A k \in DOMAIN down' : k \in DOMAIN down \/ IsDoc(down'[k]) \/ IsStop(down'[k])
          BY <3>7, IdlingFacts, EditingFacts, StoppingFacts DEF HandleUpdate
        <5> QED
          BY <5>1 DEF IsDoc, IsStop, IsUpdate
      <4>2. due' = due \/ due' = {}
        BY <3>7, IdlingFacts, EditingFacts, StoppingFacts DEF HandleUpdate
      <4> QED
        BY <3>3, <4>1, <4>2
    <3> QED
      BY <1>4, <3>4, <3>5, <3>6, <3>7
        DEF Sure, PageStep, People, Taking, Telling, Stopping,
         Idling, Editing
  <2>4. CASE x \notin text
    <3>1. Editing
      <4>1. Editing \/ text' = text
        BY <1>4, IdlingFacts, StoppingFacts DEF Sure, PageStep, People, Taking, Telling,
           Stopping, Idling, Editing, HandleUpdate, HubAdmits, HubReplays, PeerEdit, pageVars
      <4> QED
        BY <2>4, <4>1
    <3>2. UserEdits
      BY <2>1, <3>1 DEF Editing, ReloadFromDisk, Undisturbed
    <3>3. down' = down /\ due' = due /\ x[2] = acts + 1
      BY <2>4, <3>1, <3>2, EditingFacts
    <3>4. \A k \in DOMAIN down : IsUpdate(down[k]) => Old(down[k].add, acts)
      BY <1>2 DEF Numbered, DownsOld, OldDown
    <3>5. \A t \in due : Old(t, acts)
      BY DEF Numbered, TextsOld
    <3>6. ~(x[2] <= acts)
      BY <1>1, <3>3
    <3> QED
      BY <3>3, <3>4, <3>5, <3>6 DEF Old
  <2> QED
    BY <2>3, <2>4
<1> QED
  BY <1>3, <1>4

LEMMA StepOffered ==
    Halves /\ Sessions /\ Replaying /\ Cold /\ Offered /\ Undisturbed' /\ [Sure]_vars => Offered'
<1> SUFFICES ASSUME Halves, Sessions, Replaying, Cold, Offered, Undisturbed', [Sure]_vars,
                    NEW i \in DOMAIN down', IsSeed(down'[i]),
                    \A j \in DOMAIN down' : i < j => ~IsStop(down'[j]),
                    NEW x \in Fragments
             PROVE  x \in room' <=> Comes(x, i)'
  BY DEF Offered
<1>1. Channels /\ Channels' /\ (collab <=> member # "out")
  BY SureIsNext, StepHalves DEF Halves, Types
<1>2. /\ DOMAIN down = 1..Len(down) /\ Len(down) \in Nat
      /\ DOMAIN down' = 1..Len(down') /\ Len(down') \in Nat
  BY <1>1 DEF Channels
<1>3. CASE Taking
  <2>1. PICK type : Receiving(type)
    BY <1>3, TakingFacts
  <2>2. /\ i + 1 \in DOMAIN down /\ down'[i] = down[i + 1]
        /\ \A j \in DOMAIN down : i + 1 < j => j - 1 \in DOMAIN down' /\ down'[j - 1] = down[j] /\ i < j - 1
    BY <1>1, <1>2, <2>1, TailFacts DEF Receiving, Channels
  <2>3. x \in room <=> Comes(x, i + 1)
    BY <2>2 DEF Offered
  <2>4. UNCHANGED <<room, due>>
    BY <1>3, TakingFacts DEF diskVars
  <2>5. Falls(x, i)' <=> Falls(x, i + 1)
    <3>1. i \in Nat
      BY <1>2
    <3> QED
      BY <1>1, <2>1, <3>1, FallsTail
  <2> QED
    BY <2>3, <2>4, <2>5 DEF Comes, Due
<1>4. CASE ~Taking /\ i \in DOMAIN down
  <2>1. \A j \in DOMAIN down : j \in DOMAIN down' /\ down'[j] = down[j]
    BY <1>4, Extending
  <2>2. IsSeed(down[i]) /\ \A j \in DOMAIN down : i < j => ~IsStop(down[j])
    BY <1>4, <2>1
  <2>3. x \in room <=> Comes(x, i)
    BY <1>4, <2>2 DEF Offered
  <2>4. member = "in"
    BY <1>4, <2>2 DEF Sessions, Closed
  <2>5. CASE /\ \A k \in DOMAIN down' : k \in DOMAIN down \/ ~IsUpdate(down'[k])
             /\ UNCHANGED <<room, due>>
    BY <2>1, <2>3, <2>5, FallsExtend DEF Comes, Due
  <2>6. CASE Idling \/ Editing
    BY <2>1, <2>5, <2>6, IdlingFacts, EditingFacts DEF IsDoc, IsUpdate
  <2>7. CASE HandleUpdate
    <3>1. ~InSession /\ collab
      BY <1>1, <1>4, <2>2, <2>4 DEF InSession, IsSeed
    <3> QED
      BY <2>7, <3>1 DEF HandleUpdate, Undisturbed
  <2>8. CASE Stopping
    <3>1. Len(down) + 1 \in DOMAIN down' /\ IsStop(down'[Len(down) + 1])
      BY <1>1, <2>4, <2>8, StoppingFacts, DownFacts
    <3> QED
      BY <1>2, <1>4, <3>1
  <2>9. ~HubAdmits
    BY <2>4 DEF HubAdmits
  <2>10. i \in 0..Len(down)
    BY <1>2, <1>4
  <2>11. CASE HubReplays
    BY <2>3, <2>10, <2>11, ComesReplay DEF HubReplays
  <2>12. CASE PeerEdit
    <3>1. room' = room \cup {<<Readme, acts + 1>>}
      BY <2>12, PeerEditFacts
    <3> QED
      BY <2>3, <2>4, <2>10, <2>12, <3>1, ComesPeer
  <2> QED
    BY <1>4, <2>6, <2>7, <2>8, <2>9, <2>11, <2>12 DEF Sure, PageStep, People, Taking,
       Telling, Stopping, Idling, Editing
<1>5. CASE ~Taking /\ i \notin DOMAIN down
  <2>1. HubAdmits
    BY <1>5, Extending
  <2>2. PICK m \in DownMsgs :
             /\ down' = Append(down, m) /\ seeded \in BOOLEAN
             /\ due' = IF seeded THEN {room} ELSE {}
    BY <2>1, HubAdmitsFacts
  <2>3. i = Len(down) + 1 /\ Len(down') = Len(down) + 1
    BY <1>1, <1>5, <2>2, AppendFacts DEF Channels
  <2>4. ~Falls(x, i)'
    BY <1>2, <2>3 DEF Falls
  <2>5. room' = room
    BY <2>1 DEF HubAdmits
  <2> QED
    BY <2>2, <2>4, <2>5 DEF Comes, Due, Cold
<1> QED
  BY <1>3, <1>4, <1>5

(* What the page has does not come again. *)
LEMMA TextNotComing ==
    ASSUME Halves, Replaying, Fresh, Cleared, InSession, NEW x \in text
    PROVE  ~Comes(x, 0)
<1>1. /\ DOMAIN down = 1..Len(down) /\ Len(down) \in Nat /\ active
      /\ \A i \in Nat : Awaits(i) => i = 0 /\ active /\ ~ready
  BY DEF Halves, Channels, InSession, Awaits, IsSeed
<1>2. ASSUME Falls(x, 0) PROVE FALSE
  <2>1. PICK k \in DOMAIN down : IsUpdate(down[k]) /\ x \in down[k].add
    BY <1>2 DEF Falls
  <2>2. ~News(k)
    BY <2>1 DEF Fresh, Seen
  <2>3. PICK i \in 0..(k - 1) : Awaits(i) /\ Still(down, i, k)
    BY <2>1, <2>2 DEF News
  <2>4. i = 0 /\ active /\ ~ready
    BY <1>1, <2>3
  <2> QED
    BY <2>1, <2>3, <2>4 DEF Cleared
<1>3. ASSUME Due(x) PROVE FALSE
  <2>1. PICK t \in due : x \in t
    BY <1>3 DEF Due
  <2>2. PICK i \in 0..Len(down) : Awaiting(i)
    BY <2>1 DEF Replaying, Waits
  <2>3. i = 0 /\ active /\ ~ready /\ Still(down, 0, Len(down) + 1)
    BY <1>1, <2>2 DEF Awaiting
  <2> QED
    BY <2>1, <2>3 DEF Cleared
<1> QED
  BY <1>2, <1>3 DEF Comes

(* The page enters a session with what the room has, or will have by it. *)
LEMMA SharedEnter ==
    ASSUME Halves, Sessions, Offered, Undisturbed', EnterCollab, InSession', NEW x \in Fragments
    PROVE  Later(x)' <=> x \in text' \/ Comes(x, 0)'
<1> DEFINE m == Head(down)
           first == IF ~m.should THEN {} ELSE IF text # {} THEN text ELSE m.text
           u == Update({}, first)
<1>1. Channels /\ text \in Texts
  BY DEF Halves, Types
<1>2. /\ Receiving("seed") /\ m \in DownMsgs /\ down # <<>> /\ down' = Tail(down) /\ m = down[1]
      /\ IsSeed(m) /\ 1 \in DOMAIN down /\ DOMAIN down \subseteq Nat
      /\ \A j \in DOMAIN down : 1 < j => j - 1 \in DOMAIN down' /\ down'[j - 1] = down[j]
  BY <1>1, ReceivingType, TailFacts DEF EnterCollab, Channels, IsSeed, Receiving
<1>3. ~active
  BY TakingFacts DEF Taking
<1>4. /\ text' = first /\ UNCHANGED <<room, due>>
      /\ IF first # {} THEN Send(<<u>>) ELSE up' = up
      /\ \A i \in DOMAIN up : ~IsUpdate(up[i])
  BY <1>3 DEF EnterCollab, diskVars, Undisturbed, IsUpdate
<1>5. x \in room <=> Comes(x, 1)
  <2>1. \A j \in DOMAIN down : 1 < j => ~IsStop(down[j])
    BY <1>2 DEF InSession, IsStop
  <2> QED
    BY <1>2, <2>1 DEF Offered
<1>6. Comes(x, 0)' <=> Comes(x, 1)
  <2>1. Falls(x, 0)' <=> Falls(x, 0 + 1)
    BY <1>1, <1>2, FallsTail
  <2> QED
    BY <1>4, <2>1 DEF Comes, Due
<1>7. Later(x) <=> x \in room
  BY <1>4 DEF Later
<1>8. first \in Texts
  BY <1>1, <1>2, TextsClosed, DownType
<1>9. u \in UpMsgs /\ IsUpdate(u) /\ u.add = first \ {} /\ u.del = {} \ first
  <2>1. \A w \in Texts : /\ Update({}, w) \in UpMsgs /\ IsUpdate(Update({}, w))
                         /\ Update({}, w).add = w \ {} /\ Update({}, w).del = {} \ w
    BY TextsClosed, UpFacts
  <2> QED
    BY <1>8, <2>1
<1> HIDE DEF m, first, u
<1>10. Later(x)' <=> x \in first \/ Later(x)
  <2>1. CASE first # {}
    <3>1. up' = Append(up, u) /\ u.add \cap u.del = {}
      BY <1>1, <1>4, <1>9, <2>1, SendType DEF Channels
    <3> QED
      BY <1>1, <1>4, <1>9, <3>1, LaterSend
  <2>2. CASE first = {}
    BY <1>4, <2>2, LaterSame
  <2> QED
    BY <2>1, <2>2
<1> QED
  BY <1>4, <1>5, <1>6, <1>7, <1>10

LEMMA SharedTaking ==
    ASSUME Halves, Sessions, Numbered, Shared, Offered, Undisturbed', Taking, InSession',
           NEW x \in Fragments
    PROVE  Later(x)' <=> x \in text' \/ Comes(x, 0)'
<1>1. Channels /\ active \in BOOLEAN /\ UNCHANGED <<room, due>> /\ active'
  BY TakingFacts DEF Halves, Types, diskVars, InSession
<1>2. ASSUME active, NEW type \in {"doc", "update"}, Receiving(type), up' = up,
             text' = text \cup (IF type = "update" THEN Head(down).add ELSE {})
      PROVE  Later(x)' <=> x \in text' \/ Comes(x, 0)'
  <2>1. /\ Head(down).type = type /\ Head(down) = down[1]
        /\ \A i \in DOMAIN down : i = 1 \/ (i - 1 \in DOMAIN down' /\ down'[i - 1] = down[i])
    BY <1>1, <1>2, TailFacts DEF Receiving, Channels
  <2>2. InSession
    BY <1>2, <2>1 DEF InSession
  <2>3. Later(x) <=> x \in text \/ Comes(x, 0)
    BY <2>2 DEF Shared
  <2>4. Falls(x, 0)' <=> Falls(x, 0 + 1)
    BY <1>1, <1>2, FallsTail
  <2>5. Falls(x, 0) <=> Falls(x, 1) \/ (type = "update" /\ x \in Head(down).add)
    BY <1>1, <1>2, <2>1, FallsTail DEF IsUpdate
  <2>6. Due(x)' <=> Due(x)
    BY <1>1 DEF Due
  <2>7. Later(x)' <=> Later(x)
    BY <1>1, <1>2, LaterSame
  <2>8. Comes(x, 0) <=> Comes(x, 0)' \/ (type = "update" /\ x \in Head(down).add)
    BY <2>4, <2>5, <2>6 DEF Comes
  <2>9. x \in text' <=> x \in text \/ (type = "update" /\ x \in Head(down).add)
    BY <1>2
  <2> QED
    BY <2>3, <2>7, <2>8, <2>9
<1>3. CASE OfferDisk
  <2>1. active /\ Receiving("doc") /\ up' = up /\ text' = text \cup {}
    BY <1>3 DEF OfferDisk
  <2> QED
    BY <1>2, <2>1
<1>4. CASE ReceiveUpdate
  <2>1. active /\ Receiving("update") /\ up' = up
    BY <1>1, <1>4 DEF ReceiveUpdate
  <2>2. IsUpdate(Head(down)) /\ Head(down) \in Held(down)
    BY <1>1, <2>1, HeldFacts, TailFacts DEF Channels, Receiving, IsUpdate
  <2>3. Head(down).del = {}
    BY <2>2 DEF Numbered, DownsOld, OldDown
  <2>4. text' = text \cup Head(down).add
    BY <1>4, <2>1, <2>3 DEF ReceiveUpdate, Apply
  <2> QED
    BY <1>2, <2>1, <2>4
<1>5. ~TakeDisk
  BY <1>1 DEF TakeDisk, TakeIf
<1>6. ~LeaveCollab
  BY <1>1 DEF LeaveCollab, LeaveWith
<1> QED
  BY <1>3, <1>4, <1>5, <1>6, SharedEnter DEF Taking

LEMMA StepShared ==
    /\ Halves /\ Sessions /\ Replaying /\ Numbered
    /\ Fresh /\ Cleared /\ Shared /\ Offered /\ Undisturbed' /\ [Sure]_vars
    => Shared'
<1> SUFFICES ASSUME Halves, Sessions, Replaying, Numbered, Fresh, Cleared, Shared, Offered,
                    Undisturbed', [Sure]_vars, InSession', NEW x \in Fragments
             PROVE  Later(x)' <=> x \in text' \/ Comes(x, 0)'
  BY DEF Shared
<1>1. Channels /\ Channels' /\ (collab <=> member # "out") /\ acts \in Nat
  BY SureIsNext, StepHalves, ViewAssumption DEF Halves, Types
<1>2. DOMAIN down = 1..Len(down) /\ Len(down) \in Nat /\ 0 \in 0..Len(down)
  BY <1>1 DEF Channels
<1>3. CASE ~Taking
  <2>1. /\ UNCHANGED <<active, ready>>
        /\ \A i \in DOMAIN down : i \in DOMAIN down' /\ down'[i] = down[i]
    BY <1>3, Extending
  <2>2. InSession /\ member = "in" /\ collab
    <3>1. InSession
      BY <2>1 DEF InSession
    <3> QED
      BY <1>1, <3>1 DEF InSession, Sessions, Stops, IsStop
  <2>3. Later(x) <=> x \in text \/ Comes(x, 0)
    BY <2>2 DEF Shared
  <2>4. CASE Idling
    <3>1. /\ UNCHANGED <<text, due>> /\ (Later(x)' <=> Later(x))
          /\ \A k \in DOMAIN down' : k \in DOMAIN down \/ ~IsUpdate(down'[k])
      BY <2>4, IdlingFacts DEF IsDoc, IsUpdate
    <3>2. Falls(x, 0)' <=> Falls(x, 0)
      BY <2>1, <3>1, FallsExtend
    <3> QED
      BY <2>3, <3>1, <3>2 DEF Comes, Due
  <2>5. CASE Editing
    <3>1. /\ UNCHANGED <<due, down>>
          /\ Later(x)' <=> \/ x \in text' /\ x \notin text
                           \/ Later(x) /\ (x \in text => x \in text')
      BY <2>2, <2>5, EditingFacts DEF InSession
    <3>2. Comes(x, 0)' <=> Comes(x, 0)
      BY <3>1 DEF Comes, Falls, Due
    <3>3. x \in text => ~Comes(x, 0)
      BY <2>2, TextNotComing
    <3> QED
      BY <2>3, <3>1, <3>2, <3>3
  <2>6. CASE HandleUpdate
    <3>1. /\ Handling("update") /\ room' = Apply(room, Head(up)) /\ UNCHANGED <<due, down, text>>
      BY <2>2, <2>6 DEF HandleUpdate, pageVars
    <3>2. Head(up).add \cap Head(up).del = {}
      BY <1>1, <3>1, HeldFacts, TailFacts
        DEF Handling, Channels, Numbered, UpsOld, OldUp, IsUpdate
    <3>3. Later(x)' <=> Later(x)
      BY <1>1, <3>1, <3>2, LaterHandle
    <3> QED
      BY <2>3, <3>1, <3>3 DEF Comes, Falls, Due
  <2>7. ~Stopping
    BY <2>2, StoppingFacts DEF InSession, Stopped
  <2>8. ~HubAdmits
    BY <2>2 DEF HubAdmits
  <2>9. CASE HubReplays
    <3>1. UNCHANGED <<text, up, room>>
      BY <2>9 DEF HubReplays, pageVars
    <3>2. Later(x)' <=> Later(x)
      BY <3>1, LaterSame
    <3>3. Comes(x, 0)' <=> Comes(x, 0)
      BY <1>2, <2>9, ComesReplay
    <3> QED
      BY <2>3, <3>1, <3>2, <3>3
  <2>10. CASE PeerEdit
    <3>1. room' = room \cup {<<Readme, acts + 1>>} /\ UNCHANGED <<text, up>>
      BY <2>10, PeerEditFacts DEF pageVars
    <3>2. Comes(x, 0)' <=> Comes(x, 0) \/ x = <<Readme, acts + 1>>
      BY <1>2, <2>2, <2>10, ComesPeer
    <3>3. Later(x)' <=> Later(x) \/ x = <<Readme, acts + 1>>
      <4>1. CASE x = <<Readme, acts + 1>>
        <5>1. \A i \in DOMAIN up : IsUpdate(up[i]) => Old(up[i].del, acts)
          BY <1>1, HeldFacts DEF Channels, Numbered, UpsOld, OldUp
        <5>2. ~(x[2] <= acts)
          BY <1>1, <4>1
        <5>3. \A i \in DOMAIN up : IsUpdate(up[i]) => x \notin up[i].del
          BY <5>1, <5>2 DEF Old
        <5> QED
          BY <3>1, <4>1, <5>3 DEF Later
      <4>2. CASE x # <<Readme, acts + 1>>
        BY <3>1, <4>2 DEF Later
      <4> QED
        BY <4>1, <4>2
    <3> QED
      BY <2>3, <3>1, <3>2, <3>3
  <2> QED
    BY <1>3, <2>4, <2>5, <2>6, <2>7, <2>8, <2>9, <2>10 DEF Sure, PageStep, People, Taking,
       Telling, Stopping, Idling, Editing
<1> QED
  BY <1>3, SharedTaking

LEMMA InitRoom == Init => Sessions /\ Replaying /\ Cold /\ RoomInv
<1> SUFFICES ASSUME Init PROVE Sessions /\ Replaying /\ Cold /\ RoomInv
  OBVIOUS
<1>1. DOMAIN down = {} /\ Len(down) = 0 /\ ~active /\ due = {} /\ ~InSession
  BY DEF Init, InSession
<1>2. Sessions
  BY <1>1 DEF Sessions, Closed, Apart
<1>3. Replaying
  <2>1. ~Waits
    BY <1>1 DEF Waits, Awaiting, Awaits
  <2> QED
    BY <1>1, <2>1 DEF Replaying
<1>4. Cold
  BY DEF Init, Cold
<1>5. Fresh /\ Cleared /\ Shared /\ Offered
  BY <1>1 DEF Fresh, Cleared, Shared, Offered
<1> QED
  BY <1>2, <1>3, <1>4, <1>5 DEF RoomInv

LEMMA StepRoom ==
    Halves /\ Sessions /\ Replaying /\ Cold /\ Numbered /\ RoomInv /\ [Sure]_vars => RoomInv'
<1> SUFFICES ASSUME Halves, Sessions, Replaying, Cold, Numbered, RoomInv, [Sure]_vars
             PROVE  RoomInv'
  OBVIOUS
<1>1. Fresh'
  BY StepFresh DEF RoomInv
<1>2. ASSUME Undisturbed' PROVE Cleared' /\ Shared' /\ Offered'
  <2>1. Undisturbed
    BY <1>2, SureIsNext, HurtGrows DEF Undisturbed
  <2>2. Fresh /\ Cleared /\ Shared /\ Offered
    BY <2>1 DEF RoomInv
  <2> QED
    BY <1>2, <2>2, StepCleared, StepShared, StepOffered
<1> QED
  BY <1>1, <1>2 DEF RoomInv

(* At rest the text is the file's, as the last that was told of it has come  *)
(* back or gone out, and the room's, as all updates of both sides have.      *)
LEMMA QuietFacts == Halves /\ FileInv /\ (Sound => RoomInv) => FileIsTruth
<1> SUFFICES ASSUME Halves, FileInv, Sound => RoomInv, Quiet,
                    hurt \cap {"undone", "unwritten", "doubled", "straggler",
                               "unsaved", "unread", "unseen"} = {}
             PROVE  IF active
                    THEN ready => /\ text = room
                                  /\ files[path] # text => diskText = {files[path]}
                    ELSE text = files[path]
  BY DEF FileIsTruth
<1>1. /\ DOMAIN down = {} /\ DOMAIN up = {} /\ jsReady /\ ~changed /\ ~saveTimer /\ ~matTimer
      /\ due = {}
  BY DEF Quiet
<1>2. text = files[path] \/ (active /\ (~ready \/ diskText = {files[path]}))
  <2>1. NoSave /\ ~Coming
    BY <1>1 DEF NoSave, Held, Coming
  <2> QED
    BY <1>1, <2>1 DEF FileInv, Unharmed, Follows, Agrees
<1>3. ASSUME active PROVE text = room
  <2>1. InSession /\ Shared
    BY <1>1, <1>3 DEF InSession, RoomInv, Undisturbed, Sound
  <2>2. \A x \in Fragments : Later(x) <=> x \in text \/ Comes(x, 0)
    BY <2>1 DEF Shared
  <2>3. \A x : (Later(x) <=> x \in room) /\ ~Comes(x, 0)
    BY <1>1 DEF Later, Comes, Falls, Due
  <2>4. text \subseteq Fragments /\ room \subseteq Fragments
    BY DEF Halves, Types, Texts
  <2> QED
    BY <2>2, <2>3, <2>4
<1> QED
  BY <1>2, <1>3

(* Without a failed read or write, the room and the page keep together. *)
RoomKept == Sound => Sessions /\ Replaying /\ Cold /\ Numbered /\ RoomInv

LEMMA StepRoomKept == Halves /\ RoomKept /\ [Next]_vars => RoomKept'
<1> SUFFICES ASSUME Halves, RoomKept, [Next]_vars, Sound'
             PROVE  (Sessions /\ Replaying /\ Cold /\ Numbered /\ RoomInv)'
  BY DEF RoomKept
<1>1. Sessions /\ Replaying /\ Cold /\ Numbered /\ RoomInv /\ [Sure]_vars
  BY SureStep DEF RoomKept
<1> QED
  BY <1>1, StepSessions, StepReplaying, StepCold, StepNumbered, StepRoom

LEMMA StepFile == Halves /\ FileInv /\ [Next]_vars => FileInv'
<1> SUFFICES ASSUME Halves, FileInv, [Next]_vars, Unharmed' PROVE FileInv'
  BY DEF FileInv
<1>1. Sound'
  BY DEF Unharmed, Sound
<1> QED
  BY <1>1, SureStep, StepFollows

(* Once nothing is under way between page, Qt half, file and hub, the file   *)
(* has the text that the page shows, or the page of a live view has the      *)
(* file's text on offer; and a live page shows the text of the hub's room:   *)
(* no order of own saves, their echoes, external changes, other documents    *)
(* and collaboration leaves them apart.  The exceptions are a write that     *)
(* failed, a read that failed, a replacement just after the file was read, a *)
(* change that is undone before it is saved, a room's text that the cleared  *)
(* editor had already, a file's text put into the cleared editor, and an     *)
(* update of one session that gets to the room in the next.                  *)
THEOREM FileAndRoom == Spec => []FileIsTruth
<1>1. Init => Halves /\ FileInv /\ RoomKept
  BY InitHalves, InitNumbered, InitFollows, InitRoom DEF RoomKept
<1>2. Halves /\ FileInv /\ RoomKept /\ [Next]_vars => (Halves /\ FileInv /\ RoomKept)'
  BY StepHalves, StepFile, StepRoomKept
<1>3. Halves /\ FileInv /\ RoomKept => FileIsTruth
  BY QuietFacts DEF RoomKept
<1> QED
  BY <1>1, <1>2, <1>3, PTL DEF Spec

----------------------------------------------------------------------------
(* What the user has typed.                                                 *)

LEMMA StepConnected == Halves /\ Connected /\ [Sure]_vars => Connected'
<1> SUFFICES ASSUME Halves, Connected, [Sure]_vars PROVE Connected'
  OBVIOUS
<1>1. up \in Seq(UpMsgs) /\ (~jsReady => up = <<Ready>>) /\ text \in Texts
  BY DEF Halves, Channels, Starting, Types
<1>2. CASE UNCHANGED <<jsReady, up>>
  BY <1>2 DEF Connected, Held
<1>3. CASE \E m \in UpMsgs : m # Ready /\ up' = Append(up, m) /\ jsReady' = jsReady
  BY <1>1, <1>3, HeldFacts DEF Connected
<1>4. CASE HandleReady
  <2>1. up # <<>> /\ up' = Tail(up) /\ Head(up) = Ready
    BY <1>1, <1>4, HandlingType, UpType DEF HandleReady, Handling
  <2>2. ~jsReady
    BY <1>1, <2>1, HeldFacts DEF Connected
  <2>3. up' = <<>>
    BY <1>1, <2>1, <2>2
  <2> QED
    BY <2>3 DEF Connected, Held
<1>5. CASE Write \/ HandleUpdate
  <2>1. up # <<>> /\ up' = Tail(up) /\ jsReady' = jsReady
    BY <1>5 DEF Write, HandleUpdate, Handling, qtVars
  <2> QED
    BY <1>1, <2>1, HeldFacts DEF Connected
<1>6. CASE SaveTimer \/ MaterialiseTimer \/ LeaveCollab
  <2>1. Save(text) \in UpMsgs /\ Save(text) # Ready
    BY <1>1, UpFacts
  <2>2. jsReady' = jsReady /\ (up' = up \/ Send(<<Save(text)>>))
    BY <1>6 DEF SaveTimer, MaterialiseTimer, LeaveCollab, LeaveWith, qtVars
  <2>3. up' = up \/ up' = Append(up, Save(text))
    BY <1>1, <2>1, <2>2, SendType
  <2> QED
    BY <1>2, <1>3, <2>1, <2>2, <2>3
<1>7. CASE UserEdits \/ ReloadFromDisk \/ EnterCollab
  <2>1. /\ jsReady' = jsReady
        /\ \/ up' = up
           \/ \E t, u \in Texts : Send(<<Update(t, u)>>)
    <3>1. CASE UserEdits
      <4>1. PICK new \in Changes(text, shows) : ChangeEditor(new)
        BY <3>1 DEF UserEdits
      <4>2. new \in Texts
        BY <3>1, <4>1, ChangesFacts, BudgetFacts DEF UserEdits, Halves, Types
      <4> QED
        BY <1>1, <3>1, <4>1, <4>2 DEF UserEdits, ChangeEditor, qtVars
    <3>2. CASE ReloadFromDisk
      <4>1. PICK t \in diskText : IF t # text THEN ChangeEditor(t) ELSE up' = up
        BY <3>2 DEF ReloadFromDisk
      <4>2. t \in Texts
        BY <4>1 DEF Halves, Types
      <4> QED
        BY <1>1, <3>2, <4>1, <4>2 DEF ReloadFromDisk, ChangeEditor, qtVars
    <3>3. CASE EnterCollab
      <4>1. Head(down) \in DownMsgs /\ IsSeed(Head(down))
        BY <3>3, ReceivingType DEF EnterCollab, Halves, Channels, IsSeed
      <4> DEFINE first == IF ~Head(down).should THEN {} ELSE IF text # {} THEN text ELSE Head(down).text
      <4>2. first \in Texts /\ {} \in Texts
        BY <1>1, <4>1, DownType, TextsClosed
      <4>3. jsReady' = jsReady /\ (up' = up \/ Send(<<Update({}, first)>>))
        BY <3>3 DEF EnterCollab, qtVars, pageVars
      <4> HIDE DEF first
      <4> QED
        BY <4>2, <4>3
    <3> QED
      BY <1>7, <3>1, <3>2, <3>3
  <2>2. CASE up' = up
    BY <1>2, <2>1, <2>2
  <2>3. CASE up' # up
    <3>1. PICK t \in Texts, u \in Texts : Send(<<Update(t, u)>>)
      BY <2>1, <2>3
    <3>2. Update(t, u) \in UpMsgs /\ Update(t, u) # Ready
      BY UpFacts
    <3>3. up' = Append(up, Update(t, u))
      BY <1>1, <3>1, <3>2, SendType
    <3> QED
      BY <1>3, <2>1, <3>2, <3>3
  <2> QED
    BY <2>2, <2>3
<1> QED
  BY <1>2, <1>4, <1>5, <1>6, <1>7 DEF Sure, PageStep, People, OfferDisk, TakeDisk, TakeIf,
     ReceiveUpdate, ReadAgain, Reading, ToggleOn, ToggleOnIf, ToggleOff, Retarget, Open, OpenTelling,
     ExternalEdit, Replace, HubAdmits, HubReplays, PeerEdit, vars, qtVars

LEMMA StoredSame ==
    ASSUME UNCHANGED <<up, path, files>>, NEW e
    PROVE  Stored(e)' <=> Stored(e)
  BY DEF Stored, NoSave, Held, LastSave, Saves

LEMMA StoredSend ==
    ASSUME Channels, NEW m \in UpMsgs, up' = Append(up, m), UNCHANGED <<path, files>>, NEW e
    PROVE  /\ IsSave(m) => (Stored(e)' <=> IF e[1] = path THEN e \in m.text ELSE e \in files[e[1]])
           /\ ~IsSave(m) => (Stored(e)' <=> Stored(e))
<1>0. PICK n : n = Len(up) + 1
  OBVIOUS
<1>1. /\ DOMAIN up = 1..Len(up) /\ DOMAIN up' = DOMAIN up \cup {n} /\ Len(up) \in Nat
      /\ up'[n] = m /\ n \in DOMAIN up' /\ ~(n < n)
      /\ \A i \in DOMAIN up : up'[i] = up[i] /\ i < n /\ ~(n < i) /\ i # n
      /\ Held(up') = Held(up) \cup {m}
  BY <1>0, AppendFacts, HeldFacts DEF Channels
<1>2. CASE IsSave(m)
  <2>1. ~NoSave' /\ LastSave(n)'
    BY <1>1, <1>2 DEF NoSave, LastSave, Saves
  <2>2. \A i \in DOMAIN up' : LastSave(i)' => i = n
    BY <1>1, <1>2 DEF LastSave, Saves
  <2> QED
    BY <1>1, <1>2, <2>1, <2>2 DEF Stored
<1>3. CASE ~IsSave(m)
  <2>1. NoSave' <=> NoSave
    BY <1>1, <1>3 DEF NoSave
  <2>2. \A i \in DOMAIN up : LastSave(i)' <=> LastSave(i)
    BY <1>1, <1>3 DEF LastSave, Saves
  <2>3. ~LastSave(n)'
    BY <1>1, <1>3 DEF LastSave, Saves
  <2>4. (\E i \in DOMAIN up' : LastSave(i)' /\ e \in up'[i].text)
        <=> \E i \in DOMAIN up : LastSave(i) /\ e \in up[i].text
    BY <1>1, <2>2, <2>3
  <2> QED
    BY <1>3, <2>1, <2>4 DEF Stored
<1> QED
  BY <1>2, <1>3

LEMMA StoredHandle ==
    ASSUME Halves, NEW type, Handling(type), path' = path, NEW e, e[1] \in Files,
           IF type = "save" THEN files' = [files EXCEPT ![path] = Head(up).text] ELSE files' = files
    PROVE  Stored(e)' <=> Stored(e)
<1>1. /\ DOMAIN up = 1..Len(up) /\ Len(up) \in Nat /\ 1 \in DOMAIN up /\ Head(up) = up[1]
      /\ up[1].type = type
      /\ \A i \in DOMAIN up' : i + 1 \in DOMAIN up /\ 1 < i + 1 /\ up'[i] = up[i + 1]
      /\ \A i \in DOMAIN up : i = 1 \/ (1 < i /\ i - 1 \in DOMAIN up' /\ up'[i - 1] = up[i])
      /\ DOMAIN up' \subseteq Nat \ {0}
  BY TailFacts DEF Halves, Channels, Handling
<1>2. path \in Files /\ DOMAIN files = Files
  BY DEF Halves, Types
<1>3. \A i \in DOMAIN up' : Saves(i)' <=> Saves(i + 1)
  BY <1>1 DEF Saves
<1>4. NoSave <=> \A i \in DOMAIN up : ~Saves(i)
  BY DEF NoSave, Held, Saves
<1>5. NoSave' <=> \A i \in DOMAIN up' : ~Saves(i)'
  BY DEF NoSave, Held, Saves
<1>6. CASE e[1] # path
  BY <1>2, <1>6 DEF Stored
<1>7. CASE e[1] = path /\ \E i \in DOMAIN up : 1 < i /\ Saves(i)
  <2>1. PICK i \in DOMAIN up : 1 < i /\ Saves(i)
    BY <1>7
  <2>2. ~NoSave /\ ~NoSave'
    BY <1>1, <1>3, <1>4, <1>5, <2>1
  <2>3. ~LastSave(1)
    BY <2>1 DEF LastSave, Saves
  <2>4. ASSUME NEW k \in DOMAIN up' PROVE LastSave(k)' <=> LastSave(k + 1)
    <3>1. ASSUME LastSave(k)' PROVE LastSave(k + 1)
      <4>1. Saves(k + 1)
        BY <1>3, <3>1 DEF LastSave
      <4>2. ASSUME NEW j \in DOMAIN up, k + 1 < j PROVE ~IsSave(up[j])
        <5>1. j - 1 \in DOMAIN up' /\ up'[j - 1] = up[j] /\ k < j - 1
          BY <1>1, <4>2
        <5> QED
          BY <3>1, <5>1 DEF LastSave
      <4> QED
        BY <4>1, <4>2 DEF LastSave
    <3>2. ASSUME LastSave(k + 1) PROVE LastSave(k)'
      <4>1. Saves(k)'
        BY <1>3, <3>2 DEF LastSave
      <4>2. ASSUME NEW j \in DOMAIN up', k < j PROVE ~IsSave(up'[j])
        <5>1. j + 1 \in DOMAIN up /\ up'[j] = up[j + 1] /\ k + 1 < j + 1
          BY <1>1, <4>2
        <5> QED
          BY <3>2, <5>1 DEF LastSave
      <4> QED
        BY <4>1, <4>2 DEF LastSave
    <3> QED
      BY <3>1, <3>2
  <2>5. Stored(e) => Stored(e)'
    <3> SUFFICES ASSUME Stored(e) PROVE Stored(e)'
      OBVIOUS
    <3>1. PICK k \in DOMAIN up : LastSave(k) /\ e \in up[k].text
      BY <1>7, <2>2 DEF Stored
    <3>2. k - 1 \in DOMAIN up' /\ up'[k - 1] = up[k] /\ (k - 1) + 1 = k
      BY <1>1, <2>3, <3>1
    <3>3. LastSave(k - 1)'
      BY <2>4, <3>1, <3>2
    <3> QED
      BY <1>7, <2>2, <3>1, <3>2, <3>3 DEF Stored
  <2>6. Stored(e)' => Stored(e)
    <3> SUFFICES ASSUME Stored(e)' PROVE Stored(e)
      OBVIOUS
    <3>1. PICK k \in DOMAIN up' : LastSave(k)' /\ e \in up'[k].text
      BY <1>7, <2>2 DEF Stored
    <3>2. k + 1 \in DOMAIN up /\ up'[k] = up[k + 1] /\ LastSave(k + 1)
      BY <1>1, <2>4, <3>1
    <3> QED
      BY <1>7, <2>2, <3>1, <3>2 DEF Stored
  <2> QED
    BY <2>5, <2>6
<1>8. CASE e[1] = path /\ ~\E i \in DOMAIN up : 1 < i /\ Saves(i)
  <2>1. NoSave' /\ (Stored(e)' <=> e \in files'[path])
    BY <1>1, <1>3, <1>5, <1>8 DEF Stored
  <2>2. CASE type = "save"
    <3>1. LastSave(1) /\ ~NoSave /\ \A i \in DOMAIN up : LastSave(i) => i = 1
      BY <1>1, <1>4, <1>8, <2>2 DEF LastSave, Saves, IsSave
    <3>2. Stored(e) <=> e \in up[1].text
      BY <1>1, <1>8, <3>1 DEF Stored
    <3>3. files'[path] = up[1].text
      BY <1>1, <1>2, <2>2
    <3> QED
      BY <2>1, <3>2, <3>3
  <2>3. CASE type # "save"
    <3>1. NoSave
      BY <1>1, <1>4, <1>8, <2>3 DEF Saves, IsSave
    <3> QED
      BY <1>8, <2>1, <2>3, <3>1 DEF Stored
  <2> QED
    BY <2>2, <2>3
<1> QED
  BY <1>6, <1>7, <1>8

LEMMA PendingTail ==
    ASSUME Channels, NEW type, Receiving(type), due' = due, NEW e
    PROVE  /\ \A i \in Nat : Pending(e, i + 1) => Pending(e, i)'
           /\ type # "update" /\ type # "stopped" /\ Pending(e, 0) => Pending(e, 0)'
<1>1. /\ down \in Seq(DownMsgs) /\ down # <<>> /\ down' = Tail(down)
      /\ DOMAIN down = 1..Len(down) /\ Len(down) \in Nat \ {0} /\ down[1].type = type
      /\ DOMAIN down' \subseteq Nat \ {0} /\ Len(down') + 1 = Len(down)
      /\ \A i \in DOMAIN down' : i + 1 \in DOMAIN down /\ down'[i] = down[i + 1]
  BY TailFacts DEF Channels, Receiving
<1>2. ASSUME NEW i \in Nat, Pending(e, i + 1) PROVE Pending(e, i)'
  <2>1. \A j \in Nat : Still(down', i, j) <=> Still(down, i + 1, j + 1)
    BY <1>1, StillTail
  <2>2. ASSUME NEW k \in DOMAIN down', i < k, IsUpdate(down'[k]), Still(down', i, k)
        PROVE  e \in down'[k].add
    <3>1. k + 1 \in DOMAIN down /\ i + 1 < k + 1 /\ down'[k] = down[k + 1] /\ k \in Nat
      BY <1>1, <2>2
    <3>2. Still(down, i + 1, k + 1)
      BY <2>1, <2>2, <3>1
    <3> QED
      BY <1>2, <2>2, <3>1, <3>2 DEF Pending
  <2>3. ASSUME Still(down', i, Len(down') + 1) PROVE \A t \in due' : e \in t
    <3>1. Still(down, i + 1, Len(down) + 1)
      BY <1>1, <2>1, <2>3
    <3> QED
      BY <1>2, <3>1 DEF Pending
  <2> QED
    BY <2>2, <2>3 DEF Pending
<1>3. ASSUME type # "update", type # "stopped", Pending(e, 0) PROVE Pending(e, 0)'
  <2>1. \A j \in Nat : 1 < j => (Still(down, 0, j) <=> Still(down, 1, j))
    BY <1>1, <1>3, StillTail DEF IsUpdate, IsStop
  <2>2. ASSUME NEW k \in DOMAIN down, 1 < k, IsUpdate(down[k]), Still(down, 1, k)
        PROVE  e \in down[k].add
    <3>1. k \in Nat /\ 0 < k /\ Still(down, 0, k)
      BY <1>1, <2>1, <2>2
    <3> QED
      BY <1>3, <2>2, <3>1 DEF Pending
  <2>3. ASSUME Still(down, 1, Len(down) + 1) PROVE \A t \in due : e \in t
    <3>1. Len(down) + 1 \in Nat /\ 1 < Len(down) + 1
      BY <1>1
    <3>2. Still(down, 0, Len(down) + 1)
      BY <2>1, <2>3, <3>1
    <3> QED
      BY <1>3, <3>2 DEF Pending
  <2>4. Pending(e, 0 + 1)
    BY <2>2, <2>3 DEF Pending
  <2> QED
    BY <1>2, <2>4
<1> QED
  BY <1>2, <1>3

LEMMA ReplayedTail ==
    ASSUME Channels, NEW type, Receiving(type), UNCHANGED <<due, room>>, NEW e, Replayed(e)
    PROVE  Replayed(e)'
<1>1. /\ DOMAIN down' \subseteq Nat
      /\ \A i \in DOMAIN down' : i + 1 \in DOMAIN down /\ down'[i] = down[i + 1]
  BY TailFacts DEF Channels, Receiving
<1> SUFFICES ASSUME NEW i \in DOMAIN down', IsSeed(down'[i]), ~down'[i].should, e \in room
             PROVE  Pending(e, i)'
  BY DEF Replayed
<1>2. Pending(e, i + 1) /\ i \in Nat
  BY <1>1 DEF Replayed
<1> QED
  BY <1>2, PendingTail

LEMMA PendingAppend ==
    ASSUME Channels, NEW m \in DownMsgs, down' = Append(down, m), NEW e, NEW i \in 0..Len(down),
           Pending(e, i),
           Still(down, i, Len(down) + 1) => /\ IsUpdate(m) => e \in m.add
                                            /\ IsUpdate(m) \/ IsStop(m) \/ \A t \in due' : e \in t
    PROVE  Pending(e, i)'
<1>1. /\ down \in Seq(DownMsgs) /\ Len(down) \in Nat /\ i \in Nat /\ i <= Len(down)
      /\ DOMAIN down = 1..Len(down) /\ DOMAIN down' = DOMAIN down \cup {Len(down) + 1}
      /\ down'[Len(down) + 1] = m /\ \A k \in DOMAIN down : down'[k] = down[k]
  BY AppendFacts DEF Channels
<1>2. /\ \A j \in 0..(Len(down) + 1) : Still(down', i, j) <=> Still(down, i, j)
      /\ Still(down', i, Len(down') + 1)
         <=> Still(down, i, Len(down) + 1) /\ ~IsUpdate(m) /\ ~IsStop(m)
  BY <1>1, StillAppend
<1>3. ASSUME NEW k \in DOMAIN down', i < k, IsUpdate(down'[k]), Still(down', i, k)
      PROVE  e \in down'[k].add
  <2>1. Still(down, i, k)
    BY <1>1, <1>2, <1>3
  <2>2. CASE k \in DOMAIN down
    BY <1>1, <1>3, <2>1, <2>2 DEF Pending
  <2>3. CASE k = Len(down) + 1
    BY <1>1, <1>3, <2>1, <2>3
  <2> QED
    BY <1>1, <2>2, <2>3
<1>4. ASSUME Still(down', i, Len(down') + 1) PROVE \A t \in due' : e \in t
  BY <1>2, <1>4
<1> QED
  BY <1>3, <1>4 DEF Pending

LEMMA ReplayedAppend ==
    ASSUME Channels, NEW m \in DownMsgs, down' = Append(down, m), NEW e, Replayed(e),
           e \in room' => e \in room,
           \A i \in DOMAIN down : IsSeed(down[i]) /\ ~down[i].should /\ Pending(e, i) => Pending(e, i)',
           ~IsSeed(m)
    PROVE  Replayed(e)'
<1>1. /\ DOMAIN down' = DOMAIN down \cup {Len(down) + 1}
      /\ down'[Len(down) + 1] = m /\ \A k \in DOMAIN down : down'[k] = down[k]
  BY AppendFacts DEF Channels
<1> QED
  BY <1>1 DEF Replayed

LEMMA ReplayedSame ==
    ASSUME UNCHANGED <<down, due>>, NEW e
    PROVE  /\ \A i : Pending(e, i)' <=> Pending(e, i)
           /\ Replayed(e) /\ (e \in room' => e \in room) => Replayed(e)'
  BY DEF Pending, Replayed

LEMMA SwitchTail ==
    ASSUME Channels, NEW type, Receiving(type), path' = path,
           shows' = shows \/ (type = "doc" /\ shows' = Head(down).of)
    PROVE  Switching' => Switching
<1>1. /\ 1 \in DOMAIN down /\ Head(down) = down[1] /\ Head(down).type = type
      /\ \A i \in DOMAIN down' : i + 1 \in DOMAIN down /\ down'[i] = down[i + 1]
  BY TailFacts DEF Channels, Receiving
<1> SUFFICES ASSUME Switching' PROVE Switching
  OBVIOUS
<1>2. CASE path' # shows'
  BY <1>1, <1>2 DEF Switching
<1>3. CASE path' = shows'
  <2>1. PICK i \in DOMAIN down' : down'[i].type = "doc" /\ down'[i].of # path
    BY <1>3 DEF Switching
  <2> QED
    BY <1>1, <2>1 DEF Switching
<1> QED
  BY <1>2, <1>3

(* Another document is announced before all else. *)
LEMMA HeadOther ==
    ASSUME Halves, Passing, NEW type, Receiving(type), type # "doc"
    PROVE  ~Switching
<1>1. down # <<>> /\ down[1].type = type /\ jsReady
  BY TailFacts DEF Halves, Channels, Starting, Receiving
<1> SUFFICES ASSUME Switching PROVE FALSE
  OBVIOUS
<1>2. PICK i \in DOMAIN down : Announced(i)
  BY <1>1 DEF Passing
<1>3. 1 \in 1..i
  BY <1>2 DEF Halves, Channels
<1> QED
  BY <1>1, <1>2, <1>3 DEF Announced, IsDoc

LEMMA TurningSame ==
    ASSUME UNCHANGED <<path, shows, down>>, NEW e, e \in text => e \in text', Turning(e)
    PROVE  Turning(e)'
  BY DEF Turning, Switching

LEMMA TurningAppend ==
    ASSUME Channels, NEW m \in DownMsgs, down' = Append(down, m), UNCHANGED <<path, shows, text>>,
           IsDoc(m) => m.of = path, NEW e, Switching => ~Lacks(m, e), Turning(e)
    PROVE  Turning(e)'
<1>1. /\ DOMAIN down = 1..Len(down) /\ DOMAIN down' = DOMAIN down \cup {Len(down) + 1}
      /\ Len(down) \in Nat
      /\ down'[Len(down) + 1] = m /\ \A k \in DOMAIN down : down'[k] = down[k]
  BY AppendFacts DEF Channels
<1>2. Switching' => Switching
  BY <1>1 DEF Switching, IsDoc
<1> SUFFICES ASSUME Switching, NEW i \in DOMAIN down', Lacks(down'[i], e)
             PROVE  /\ shows = e[1] /\ e \in text
                    /\ \E j \in 1..i : /\ Lacks(down'[j], e)
                                       /\ \A k \in 1..j : IsDoc(down'[k]) /\ down'[k].of = e[1]
  BY <1>2 DEF Turning
<1>3. i \in DOMAIN down /\ Lacks(down[i], e)
  BY <1>1
<1>4. PICK j \in 1..i : Lacks(down[j], e) /\ \A k \in 1..j : IsDoc(down[k]) /\ down[k].of = e[1]
  BY <1>3 DEF Turning
<1>5. \A k \in 1..j : down'[k] = down[k]
  BY <1>1, <1>3, <1>4
<1>6. j \in 1..j
  BY <1>1, <1>3
<1> QED
  BY <1>3, <1>4, <1>5, <1>6 DEF Turning

Tidy == Halves /\ Sessions /\ Replaying /\ Numbered /\ Owned /\ Passing /\ Connected

LEMMA TidyFacts ==
    ASSUME Tidy, NEW e \in mine
    PROVE  /\ e \in Fragments /\ e[1] \in Files /\ acts \in Nat /\ e[2] \in Nat /\ e[2] <= acts
           /\ Channels /\ hasEditor /\ jsReady /\ path \in Files /\ shows \in Files
           /\ e \in text \/ e \in lastSynced => e[1] = shows
           /\ e \in room => e[1] = Readme
           /\ active => path = Readme
           /\ text # lastSynced \/ active => shows = path
           /\ DOMAIN down = 1..Len(down) /\ Len(down) \in Nat
           /\ text \in Texts /\ active \in BOOLEAN /\ ready \in BOOLEAN /\ (~active => ~ready)
<1>1. Halves /\ OwnTexts /\ mine \in Texts /\ acts \in Nat
  BY ViewAssumption DEF Tidy, Owned, Halves, Types
<1>2. e \in Fragments /\ e[1] \in Files /\ e[2] \in Nat /\ e[2] <= acts
  BY <1>1, ViewAssumption DEF Tidy, Numbered, TextsOld, Old, Texts, Fragments
<1>3. hasEditor /\ jsReady
  BY <1>1 DEF Halves, Untouched, Starting, Types
<1>4. /\ e \in text \/ e \in lastSynced => e[1] = shows
      /\ e \in room => e[1] = Readme
      /\ active => path = Readme
      /\ text # lastSynced \/ active => shows = path
  BY <1>1 DEF OwnTexts, Of
<1> QED
  BY <1>1, <1>2, <1>3, <1>4 DEF Halves, Channels, Types, Solo

LEMMA SwitchFacts ==
    ASSUME Tidy, NEW e \in mine, Kept(e), Switching
    PROVE  /\ e \in files[e[1]] /\ ~active /\ text = lastSynced /\ NoSave /\ Held(up) \subseteq {Ready}
           /\ Stored(e)
<1>1. ~active /\ text = lastSynced /\ Held(up) \subseteq {Ready}
  BY DEF Tidy, Passing
<1>2. NoSave
  BY <1>1, UpFacts DEF NoSave
<1>3. e \in files[e[1]]
  BY <1>1, <1>2 DEF Kept, Where, Stored
<1> QED
  BY <1>1, <1>2, <1>3 DEF Stored

(* A step that leaves the text and what belongs to it. *)
LEMMA KeptCarry ==
    ASSUME UNCHANGED <<text, shows, active, ready, lastSynced>>, NEW e, Kept(e),
           ~active /\ e \in room' => e \in room,
           e[1] # shows /\ e \in files[e[1]] => e \in files'[e[1]],
           Stored(e) => Stored(e)',
           active /\ ~ready /\ Pending(e, 0) => Pending(e, 0)',
           Turning(e)', Replayed(e)'
    PROVE  Kept(e)'
<1>1. Where(e)'
  BY DEF Kept, Where
<1> QED
  BY <1>1 DEF Kept

(* A step that saves the text. *)
LEMMA KeptSave ==
    ASSUME Tidy, NEW e \in mine, Kept(e), up' = Append(up, Save(text)), lastSynced' = text,
           UNCHANGED <<text, shows, path, files, room>>, shows = path, active => ready,
           Turning(e)', Replayed(e)'
    PROVE  Kept(e)'
<1>1. Save(text) \in UpMsgs /\ IsSave(Save(text)) /\ Save(text).text = text
  BY TidyFacts, UpFacts
<1>2. Stored(e)' <=> IF e[1] = path THEN e \in text ELSE e \in files[e[1]]
  BY <1>1, StoredSend, TidyFacts
<1>3. e \in text \/ (e[1] # shows /\ e \in files[e[1]])
  BY DEF Kept, Where
<1>4. e \in text => e[1] = shows
  BY TidyFacts
<1>5. Stored(e)'
  BY <1>2, <1>3, <1>4
<1>6. Where(e)'
  BY <1>3 DEF Where
<1> QED
  BY <1>5, <1>6 DEF Kept

LEMMA SaveTimerKept ==
    ASSUME Tidy, NEW e \in mine, Kept(e), hurt' = {}, SaveTimer
    PROVE  Kept(e)'
<1>1. /\ UNCHANGED <<text, shows, active, ready, path, files, room, down, due>>
      /\ lastSynced' = text
      /\ IF text # lastSynced THEN Send(<<Save(text)>>) ELSE up' = up
      /\ text # lastSynced /\ active => ready
  BY DEF SaveTimer, diskVars, qtVars
<1>2. Turning(e)' /\ Replayed(e)' /\ (Pending(e, 0)' <=> Pending(e, 0))
  BY <1>1, TurningSame, ReplayedSame DEF Kept
<1>3. CASE text = lastSynced
  <2>1. Stored(e)' <=> Stored(e)
    BY <1>1, <1>3, StoredSame
  <2> QED
    BY <1>1, <1>2, <1>3, <2>1, KeptCarry
<1>4. CASE text # lastSynced
  <2>1. shows = path /\ Save(text) \in UpMsgs /\ Channels
    BY <1>4, TidyFacts, UpFacts
  <2>2. up' = Append(up, Save(text))
    BY <1>1, <1>4, <2>1, SendType DEF Channels
  <2> QED
    BY <1>1, <1>2, <1>4, <2>1, <2>2, KeptSave
<1> QED
  BY <1>3, <1>4

LEMMA MaterialiseTimerKept ==
    ASSUME Tidy, NEW e \in mine, Kept(e), MaterialiseTimer
    PROVE  Kept(e)'
<1>1. /\ UNCHANGED <<text, shows, active, ready, path, files, room, down, due>>
      /\ IF active /\ ready THEN lastSynced' = text /\ Send(<<Save(text)>>)
                            ELSE lastSynced' = lastSynced /\ up' = up
  BY DEF MaterialiseTimer, diskVars, qtVars, history
<1>2. Turning(e)' /\ Replayed(e)' /\ (Pending(e, 0)' <=> Pending(e, 0))
  BY <1>1, TurningSame, ReplayedSame DEF Kept
<1>3. CASE ~(active /\ ready)
  <2>1. Stored(e)' <=> Stored(e)
    BY <1>1, <1>3, StoredSame
  <2> QED
    BY <1>1, <1>2, <1>3, <2>1, KeptCarry
<1>4. CASE active /\ ready
  <2>1. shows = path /\ Save(text) \in UpMsgs /\ Channels
    BY <1>4, TidyFacts, UpFacts
  <2>2. up' = Append(up, Save(text))
    BY <1>1, <1>4, <2>1, SendType DEF Channels
  <2> QED
    BY <1>1, <1>2, <1>4, <2>1, <2>2, KeptSave
<1> QED
  BY <1>3, <1>4

LEMMA LeaveCollabKept ==
    ASSUME Tidy, NEW e \in mine, Kept(e), hurt' = {}, LeaveCollab
    PROVE  Kept(e)'
<1>1. /\ UNCHANGED <<text, shows, path, files, room, due>> /\ Receiving("stopped") /\ Channels
      /\ IF active THEN ~active' /\ lastSynced' = text /\ Send(<<Save(text)>>)
                   ELSE UNCHANGED <<active, ready, lastSynced, up>>
      /\ active => ready
  BY TidyFacts DEF LeaveCollab, LeaveWith, diskVars, qtVars
<1>2. Turning(e)'
  BY <1>1, HeadOther, SwitchTail DEF Tidy, Turning
<1>3. Replayed(e)'
  BY <1>1, ReplayedTail DEF Kept
<1>4. CASE active
  <2>1. shows = path /\ Save(text) \in UpMsgs
    BY <1>4, TidyFacts, UpFacts
  <2>2. up' = Append(up, Save(text))
    BY <1>1, <1>4, <2>1, SendType DEF Channels
  <2> QED
    BY <1>1, <1>2, <1>3, <1>4, <2>1, <2>2, KeptSave
<1>5. CASE ~active
  <2>1. Stored(e)' <=> Stored(e)
    BY <1>1, <1>5, StoredSame
  <2> QED
    BY <1>1, <1>2, <1>3, <1>5, <2>1, KeptCarry
<1> QED
  BY <1>4, <1>5

LEMMA WriteKept ==
    ASSUME Tidy, NEW e \in mine, Kept(e), Write
    PROVE  Kept(e)'
<1>1. /\ UNCHANGED <<text, shows, active, ready, lastSynced, path, room, down, due>>
      /\ Handling("save") /\ files' = [files EXCEPT ![path] = Head(up).text]
  BY DEF Write, pageVars, history
<1>2. Turning(e)' /\ Replayed(e)' /\ (Pending(e, 0)' <=> Pending(e, 0))
  BY <1>1, TurningSame, ReplayedSame DEF Kept
<1>3. Stored(e)' <=> Stored(e)
  BY <1>1, StoredHandle, TidyFacts DEF Tidy
<1>4. ~Switching
  <2>1. Head(up) \in Held(up) /\ IsSave(Head(up))
    BY <1>1, HeldFacts, TidyFacts DEF Channels, Handling, IsSave
  <2> QED
    BY <2>1, SwitchFacts DEF NoSave
<1>5. e[1] # shows => files'[e[1]] = files[e[1]]
  BY <1>1, <1>4, TidyFacts DEF Switching, Tidy, Halves, Types
<1> QED
  BY <1>1, <1>2, <1>3, <1>5, KeptCarry

LEMMA HandleUpdateKept ==
    ASSUME Tidy, NEW e \in mine, Kept(e), hurt' = {}, HandleUpdate
    PROVE  Kept(e)'
<1>1. /\ UNCHANGED <<text, shows, active, ready, lastSynced, path, files, down, due>>
      /\ Handling("update") /\ IF collab THEN InSession ELSE room' = room
  BY DEF HandleUpdate, qtVars, pageVars
<1>2. Turning(e)' /\ (Pending(e, 0)' <=> Pending(e, 0))
  BY <1>1, TurningSame, ReplayedSame DEF Kept
<1>3. Stored(e)' <=> Stored(e)
  BY <1>1, StoredHandle, TidyFacts DEF Tidy
<1>4. Replayed(e)'
  <2>1. CASE InSession
    BY <1>1, <2>1 DEF InSession, Replayed, IsSeed
  <2>2. CASE room' = room
    BY <1>1, <2>2, ReplayedSame DEF Kept
  <2> QED
    BY <1>1, <2>1, <2>2
<1> QED
  BY <1>1, <1>2, <1>3, <1>4, KeptCarry DEF InSession

LEMMA TellingKept ==
    ASSUME Tidy, NEW e \in mine, Kept(e), Telling
    PROVE  Kept(e)'
<1>1. ReadAgain
  <2>1. ASSUME HandleReady PROVE FALSE
    <3>1. up # <<>> /\ Head(up) = Ready
      BY <2>1, TidyFacts, HandlingType, UpType DEF HandleReady, Channels
    <3>2. Ready \in Held(up)
      BY <3>1, TidyFacts, HeldFacts DEF Channels
    <3> QED
      BY <3>2, TidyFacts DEF Tidy, Connected
  <2> QED
    BY <2>1 DEF Telling
<1> DEFINE m == Doc(path, files[path])
<1>2. /\ UNCHANGED <<text, shows, active, ready, lastSynced, path, files, room, due, up>>
      /\ Emit(<<m>>) /\ Channels /\ jsReady
  BY <1>1, TidyFacts DEF ReadAgain, Reading, diskVars, pageVars, history
<1>3. /\ m \in DownMsgs /\ ~IsUpdate(m) /\ ~IsStop(m) /\ ~IsSeed(m)
      /\ m.of = path /\ m.text = files[path]
  BY TidyFacts, DownFacts DEF Tidy, Halves, Types
<1> HIDE DEF m
<1>4. down' = Append(down, m)
  BY <1>2, <1>3, EmitType DEF Channels
<1>5. \A i \in 0..Len(down) : Pending(e, i) => Pending(e, i)'
  <2> SUFFICES ASSUME NEW i \in 0..Len(down), Pending(e, i) PROVE Pending(e, i)'
    OBVIOUS
  <2>1. Still(down, i, Len(down) + 1) => \A t \in due' : e \in t
    BY <1>2 DEF Pending
  <2> QED
    BY <1>2, <1>3, <1>4, <2>1, PendingAppend
<1>6. Replayed(e)'
  <2>1. DOMAIN down \subseteq 0..Len(down)
    BY TidyFacts
  <2> QED
    BY <1>2, <1>3, <1>4, <1>5, <2>1, ReplayedAppend DEF Kept
<1>7. Turning(e)'
  <2>1. Switching => ~Lacks(m, e)
    BY <1>3, SwitchFacts DEF Lacks
  <2> QED
    BY <1>2, <1>3, <1>4, <2>1, TurningAppend DEF Kept
<1>8. Stored(e)' <=> Stored(e)
  BY <1>2, StoredSame
<1>9. 0 \in 0..Len(down)
  BY TidyFacts
<1> QED
  BY <1>2, <1>5, <1>6, <1>7, <1>8, <1>9, KeptCarry

LEMMA IdleKept ==
    ASSUME Tidy, NEW e \in mine, Kept(e), UNCHANGED vars \/ ToggleOn
    PROVE  Kept(e)'
<1>1. UNCHANGED <<text, shows, active, ready, lastSynced, path, files, room, due, up, down>>
  BY DEF vars, diskVars, qtVars, pageVars, history, ToggleOn, ToggleOnIf
<1>2. Turning(e)' /\ Replayed(e)' /\ (Pending(e, 0)' <=> Pending(e, 0))
  BY <1>1, TurningSame, ReplayedSame DEF Kept
<1>3. Stored(e)' <=> Stored(e)
  BY <1>1, StoredSame
<1> QED
  BY <1>1, <1>2, <1>3, KeptCarry

LEMMA StopKept ==
    ASSUME Tidy, NEW e \in mine, Kept(e), ToggleOff \/ Retarget
    PROVE  Kept(e)'
<1>1. /\ UNCHANGED <<text, shows, active, ready, lastSynced, path, files, room, up>>
      /\ \/ Emit(<<Stopped>>)
         \/ UNCHANGED <<down, due>>
      /\ Channels /\ jsReady
  BY TidyFacts DEF ToggleOff, Retarget, pageVars, history
<1>2. Stored(e)' <=> Stored(e)
  BY <1>1, StoredSame
<1>3. CASE UNCHANGED <<down, due>>
  <2>1. Turning(e)' /\ Replayed(e)' /\ (Pending(e, 0)' <=> Pending(e, 0))
    BY <1>1, <1>3, TurningSame, ReplayedSame DEF Kept
  <2> QED
    BY <1>1, <1>2, <2>1, KeptCarry
<1>4. CASE Emit(<<Stopped>>)
  <2>1. /\ Stopped \in DownMsgs /\ IsStop(Stopped)
        /\ ~IsDoc(Stopped) /\ ~IsSeed(Stopped) /\ ~IsUpdate(Stopped)
    BY DownFacts
  <2>2. down' = Append(down, Stopped)
    BY <1>1, <1>4, <2>1, EmitType DEF Channels
  <2>3. \A i \in 0..Len(down) : Pending(e, i) => Pending(e, i)'
    <3> SUFFICES ASSUME NEW i \in 0..Len(down), Pending(e, i) PROVE Pending(e, i)'
      OBVIOUS
    <3> QED
      BY <1>1, <2>1, <2>2, PendingAppend
  <2>4. DOMAIN down \subseteq 0..Len(down) /\ 0 \in 0..Len(down)
    BY TidyFacts
  <2>5. Replayed(e)'
    BY <1>1, <2>1, <2>2, <2>3, <2>4, ReplayedAppend DEF Kept
  <2>6. Turning(e)'
    BY <1>1, <2>1, <2>2, TurningAppend DEF Kept, Lacks
  <2> QED
    BY <1>1, <1>2, <2>3, <2>4, <2>5, <2>6, KeptCarry
<1> QED
  BY <1>1, <1>3, <1>4

LEMMA HubAdmitsKept ==
    ASSUME Tidy, NEW e \in mine, Kept(e), HubAdmits
    PROVE  Kept(e)'
<1>1. /\ UNCHANGED <<text, shows, active, ready, lastSynced, path, files, room, up>>
      /\ member = "asked" /\ Channels
  BY TidyFacts DEF HubAdmits, qtVars, pageVars, history
<1>2. PICK m \in DownMsgs :
           /\ down' = Append(down, m) /\ IsSeed(m) /\ m.should = ~seeded
           /\ due' = IF seeded THEN {room} ELSE {}
  BY HubAdmitsFacts DEF Tidy
<1>3. /\ DOMAIN down = 1..Len(down) /\ DOMAIN down' = DOMAIN down \cup {Len(down) + 1}
      /\ Len(down) \in Nat /\ Len(down') = Len(down) + 1
      /\ down'[Len(down) + 1] = m /\ \A k \in DOMAIN down : down'[k] = down[k]
  BY <1>1, <1>2, AppendFacts DEF Channels
<1>4. ~IsDoc(m) /\ ~IsUpdate(m) /\ ~IsStop(m)
  BY <1>2 DEF IsSeed, IsDoc, IsUpdate, IsStop
<1>5. Stored(e)' <=> Stored(e)
  BY <1>1, StoredSame
<1>6. Turning(e)'
  BY <1>1, <1>2, <1>4, TurningAppend DEF Kept, Lacks
<1>7. ASSUME NEW i \in 0..Len(down), Pending(e, i), ~Still(down, i, Len(down) + 1)
      PROVE  Pending(e, i)'
  BY <1>1, <1>2, <1>7, PendingAppend
<1>8. Closed(down) /\ (active => Stops(down))
  BY <1>1 DEF Tidy, Sessions
<1>9. active /\ Pending(e, 0) => Pending(e, 0)'
  <2>1. 0 \in 0..Len(down) /\ (active => ~Still(down, 0, Len(down) + 1))
    BY <1>3, <1>8 DEF Stops, Still
  <2> QED
    BY <1>7, <2>1
<1>10. Replayed(e)'
  <2> SUFFICES ASSUME NEW i \in DOMAIN down', IsSeed(down'[i]), ~down'[i].should, e \in room
               PROVE  Pending(e, i)'
    BY <1>1 DEF Replayed
  <2>1. CASE i \in DOMAIN down
    <3>1. Pending(e, i)
      BY <1>3, <2>1 DEF Kept, Replayed
    <3>2. ~Still(down, i, Len(down) + 1)
      BY <1>3, <1>8, <2>1 DEF Closed, Still
    <3> QED
      BY <1>3, <1>7, <2>1, <3>1, <3>2
  <2>2. CASE i = Len(down) + 1
    <3>1. \A t \in due' : e \in t
      BY <1>2
    <3>2. \A k \in DOMAIN down' : ~(i < k)
      BY <1>3, <2>2
    <3> QED
      BY <3>1, <3>2 DEF Pending
  <2> QED
    BY <1>3, <2>1, <2>2
<1> QED
  BY <1>1, <1>5, <1>6, <1>9, <1>10, KeptCarry

LEMMA HubReplaysKept ==
    ASSUME Tidy, NEW e \in mine, Kept(e), HubReplays
    PROVE  Kept(e)'
<1>1. /\ UNCHANGED <<text, shows, active, ready, lastSynced, path, files, room, up>>
      /\ Channels
  BY TidyFacts DEF HubReplays, qtVars, pageVars, history
<1>2. PICK t \in due : \E m \in DownMsgs :
           IsUpdate(m) /\ m.add = t /\ down' = Append(down, m)
  BY HubReplaysFacts DEF Tidy
<1>3. PICK m \in DownMsgs : IsUpdate(m) /\ m.add = t /\ down' = Append(down, m)
  BY <1>2
<1>4. ~IsDoc(m) /\ ~IsSeed(m)
  BY <1>3 DEF IsSeed, IsDoc, IsUpdate
<1>5. Stored(e)' <=> Stored(e)
  BY <1>1, StoredSame
<1>6. \A i \in 0..Len(down) : Pending(e, i) => Pending(e, i)'
  <2> SUFFICES ASSUME NEW i \in 0..Len(down), Pending(e, i) PROVE Pending(e, i)'
    OBVIOUS
  <2>1. Still(down, i, Len(down) + 1) => e \in t
    BY <1>2 DEF Pending
  <2> QED
    BY <1>1, <1>3, <2>1, PendingAppend
<1>7. DOMAIN down \subseteq 0..Len(down) /\ 0 \in 0..Len(down)
  BY TidyFacts
<1>8. Replayed(e)'
  BY <1>1, <1>3, <1>4, <1>6, <1>7, ReplayedAppend DEF Kept
<1>9. Turning(e)'
  BY <1>1, <1>3, <1>4, TurningAppend DEF Kept, Lacks
<1> QED
  BY <1>1, <1>5, <1>6, <1>7, <1>8, <1>9, KeptCarry

LEMMA PeerEditKept ==
    ASSUME Tidy, NEW e \in mine, Kept(e), PeerEdit
    PROVE  Kept(e)'
<1>1. PICK new \in Texts : \E m \in DownMsgs :
           /\ new = {<<Readme, acts + 1>>}
           /\ room' = room \cup new /\ due' = {t \cup new : t \in due}
           /\ IsUpdate(m)
           /\ down' = IF member = "in" /\ due = {} THEN Append(down, m) ELSE down
           /\ UNCHANGED <<files, seeded, member, qtVars, up, pageVars, history>>
  BY PeerEditFacts DEF Tidy
<1>2. /\ UNCHANGED <<text, shows, active, ready, lastSynced, path, files, up>> /\ Channels
      /\ 0 \in 0..Len(down) /\ DOMAIN down \subseteq 0..Len(down)
  BY <1>1, TidyFacts DEF qtVars, pageVars, history
<1>3. e \in room' => e \in room
  <2>1. e # <<Readme, acts + 1>>
    BY TidyFacts
  <2> QED
    BY <1>1, <2>1
<1>4. Stored(e)' <=> Stored(e)
  BY <1>2, StoredSame
<1>5. CASE due # {} \/ member # "in"
  <2>1. down' = down
    BY <1>1, <1>5
  <2>2. ASSUME NEW i \in 0..Len(down), Pending(e, i) PROVE Pending(e, i)'
    <3>1. (\A t \in due : e \in t) => \A t \in due' : e \in t
      BY <1>1
    <3> QED
      BY <2>1, <2>2, <3>1 DEF Pending
  <2>3. Replayed(e)'
    BY <1>2, <1>3, <2>1, <2>2 DEF Kept, Replayed
  <2>4. Turning(e)'
    BY <1>2, <2>1, TurningSame DEF Kept
  <2> QED
    BY <1>2, <1>3, <1>4, <2>2, <2>3, <2>4, KeptCarry
<1>6. CASE due = {} /\ member = "in"
  <2>1. PICK m \in DownMsgs : IsUpdate(m) /\ down' = Append(down, m) /\ due' = {}
    BY <1>1, <1>6
  <2>2. ~IsDoc(m) /\ ~IsSeed(m)
    BY <2>1 DEF IsSeed, IsDoc, IsUpdate
  <2>3. ASSUME NEW i \in 0..Len(down), Awaits(i), Pending(e, i) PROVE Pending(e, i)'
    <3>1. ~Still(down, i, Len(down) + 1)
      BY <1>6, <2>3 DEF Tidy, Replaying, Waits, Awaiting
    <3> QED
      BY <1>2, <2>1, <2>3, <3>1, PendingAppend
  <2>4. \A i \in DOMAIN down : IsSeed(down[i]) /\ ~down[i].should => Awaits(i)
    BY DEF Awaits
  <2>5. active /\ ~ready => Awaits(0)
    BY DEF Awaits
  <2>6. Replayed(e)'
    BY <1>2, <1>3, <2>1, <2>2, <2>3, <2>4, ReplayedAppend DEF Kept
  <2>7. Turning(e)'
    BY <1>2, <2>1, <2>2, TurningAppend DEF Kept, Lacks
  <2> QED
    BY <1>2, <1>3, <1>4, <2>3, <2>5, <2>6, <2>7, KeptCarry
<1> QED
  BY <1>5, <1>6

LEMMA ExternalEditKept ==
    ASSUME Tidy, NEW e \in mine', e \in mine => Kept(e), ExternalEdit
    PROVE  Kept(e)'
<1>1. /\ UNCHANGED <<text, shows, active, ready, lastSynced, path, room, due, up, down>>
      /\ e \in mine
  BY DEF ExternalEdit, Replace, pageVars
<1>2. PICK new : /\ files' = [files EXCEPT ![path] = new]
                 /\ mine' = mine \ (files[path] \ new)
  BY DEF ExternalEdit, Replace
<1>3. e \in files[e[1]] => e \in files'[e[1]]
  BY <1>1, <1>2, TidyFacts DEF Tidy, Halves, Types
<1>4. Stored(e) => Stored(e)'
  BY <1>1, <1>3 DEF Stored, NoSave, Held, LastSave, Saves
<1>5. Kept(e)
  BY <1>1
<1>6. Turning(e)' /\ Replayed(e)' /\ (Pending(e, 0)' <=> Pending(e, 0))
  BY <1>1, <1>5, TurningSame, ReplayedSame DEF Kept
<1> QED
  BY <1>1, <1>3, <1>4, <1>5, <1>6, KeptCarry

LEMMA OfferDiskKept ==
    ASSUME Tidy, NEW e \in mine, Kept(e), OfferDisk
    PROVE  Kept(e)'
<1>1. /\ UNCHANGED <<text, shows, active, ready, lastSynced, path, files, room, due, up>>
      /\ Receiving("doc") /\ Channels /\ active
  BY TidyFacts DEF OfferDisk, diskVars, qtVars, history
<1>2. Stored(e)' <=> Stored(e)
  BY <1>1, StoredSame
<1>3. Pending(e, 0) => Pending(e, 0)'
  BY <1>1, PendingTail
<1>4. Replayed(e)'
  BY <1>1, ReplayedTail DEF Kept
<1>5. Turning(e)'
  BY <1>1, SwitchTail DEF Tidy, Passing, Turning
<1> QED
  BY <1>1, <1>2, <1>3, <1>4, <1>5, KeptCarry

LEMMA ReceiveUpdateKept ==
    ASSUME Tidy, NEW e \in mine, Kept(e), ReceiveUpdate
    PROVE  Kept(e)'
<1>1. /\ UNCHANGED <<shows, active, lastSynced, path, files, room, due, up>>
      /\ Receiving("update") /\ Channels
      /\ IF active THEN text' = Apply(text, Head(down)) /\ ready'
                   ELSE UNCHANGED <<text, ready>>
  BY TidyFacts DEF ReceiveUpdate, diskVars, qtVars
<1>2. Stored(e)' <=> Stored(e)
  BY <1>1, StoredSame
<1>3. Replayed(e)'
  BY <1>1, ReplayedTail DEF Kept
<1>4. Turning(e)'
  BY <1>1, HeadOther, SwitchTail DEF Tidy, Turning
<1>5. CASE ~active
  BY <1>1, <1>2, <1>3, <1>4, <1>5, KeptCarry
<1>6. CASE active
  <2>1. /\ IsUpdate(Head(down)) /\ Head(down) \in Held(down) /\ Head(down) = down[1]
        /\ 1 \in DOMAIN down
    BY <1>1, HeldFacts, TailFacts DEF Channels, Receiving, IsUpdate
  <2>2. Head(down).del = {}
    BY <2>1 DEF Tidy, Numbered, DownsOld, OldDown
  <2>3. text' = text \cup Head(down).add
    BY <1>1, <1>6, <2>2 DEF Apply
  <2>4. Pending(e, 0) => e \in Head(down).add
    <3>1. Still(down, 0, 1)
      BY TidyFacts DEF Still
    <3> QED
      BY <2>1, <3>1 DEF Pending
  <2>5. Where(e)'
    BY <1>1, <2>3, <2>4 DEF Kept, Where
  <2>6. Stored(e) => Stored(e)'
    BY <1>2
  <2> QED
    BY <1>1, <1>3, <1>4, <1>6, <2>5, <2>6 DEF Kept
<1> QED
  BY <1>5, <1>6

LEMMA EnterCollabKept ==
    ASSUME Tidy, NEW e \in mine, Kept(e), hurt' = {}, EnterCollab
    PROVE  Kept(e)'
<1>1. /\ UNCHANGED <<path, files, room, due, mine>> /\ Receiving("seed") /\ Channels
      /\ ~active /\ active' /\ ready' = Head(down).should /\ Head(down) \in DownMsgs
  BY TidyFacts, TakingFacts, ReceivingType
    DEF EnterCollab, Tidy, Taking, Channels, diskVars, qtVars
<1>2. ~Switching
  BY <1>1, HeadOther DEF Tidy
<1>3. /\ 1 \in DOMAIN down /\ Head(down) = down[1] /\ IsSeed(Head(down)) /\ Head(down) \in Held(down)
      /\ \A i \in DOMAIN down' : i + 1 \in DOMAIN down /\ down'[i] = down[i + 1]
  BY <1>1, HeldFacts, TailFacts DEF Channels, Receiving, IsSeed
<1>4. path = Readme /\ shows = Readme
  <2>1. path = Readme
    BY <1>3 DEF Tidy, Owned, DownsOwn, OfDown, IsSeed, IsDoc
  <2> QED
    BY <1>2, <2>1 DEF Switching
<1> DEFINE m == Head(down)
           first == IF ~m.should THEN {} ELSE IF text # {} THEN text ELSE m.text
           u == Update({}, first)
<1>5. /\ text' = first /\ shows' = shows /\ lastSynced' = lastSynced
      /\ IF first # {} THEN Send(<<u>>) ELSE up' = up
      /\ ~m.should => (mine \cap text) \ room = {}
  BY <1>1, <1>4 DEF EnterCollab
<1>6. u \in UpMsgs /\ ~IsSave(u) /\ m.should \in BOOLEAN
  <2>1. first \in Texts /\ m.should \in BOOLEAN
    BY <1>1, <1>3, TidyFacts, TextsClosed, DownType
  <2>2. \A w \in Texts : Update({}, w) \in UpMsgs /\ ~IsSave(Update({}, w))
    BY TextsClosed, UpFacts
  <2> QED
    BY <2>1, <2>2
<1> HIDE DEF u
<1>7. Stored(e)' <=> Stored(e)
  <2>1. CASE first # {}
    <3>1. up' = Append(up, u)
      BY <1>1, <1>5, <1>6, <2>1, SendType DEF Channels
    <3> QED
      BY <1>1, <1>6, <3>1, StoredSend
  <2>2. CASE first = {}
    BY <1>1, <1>5, <2>2, StoredSame
  <2> QED
    BY <2>1, <2>2
<1>8. Replayed(e)'
  BY <1>1, ReplayedTail DEF Kept
<1>9. Turning(e)'
  <2>1. Switching' => Switching
    BY <1>1, <1>5, SwitchTail
  <2> QED
    BY <1>2, <2>1 DEF Turning
<1>10. Where(e)'
  <2>1. CASE e[1] # shows /\ e \in files[e[1]]
    BY <1>1, <1>5, <2>1 DEF Where
  <2>2. CASE e \in text /\ m.should
    BY <1>5, <2>2 DEF Where
  <2>3. CASE e \in text /\ ~m.should
    <3>1. e \in room
      BY <1>5, <2>3
    <3>2. Stored(e)'
      BY <1>1, <1>7, <3>1 DEF Kept
    <3>3. e[1] = Readme
      BY <3>1, TidyFacts
    <3>4. Pending(e, 0)'
      <4>1. Pending(e, 0 + 1)
        BY <1>3, <2>3, <3>1 DEF Kept, Replayed
      <4> QED
        BY <1>1, <4>1, PendingTail
    <3>5. active' /\ ~ready'
      BY <1>1, <1>6, <2>3
    <3> QED
      BY <3>2, <3>3, <3>4, <3>5 DEF Where
  <2> QED
    BY <1>1, <1>6, <2>1, <2>2, <2>3 DEF Kept, Where
<1>11. Stored(e) => Stored(e)'
  BY <1>7
<1> QED
  BY <1>1, <1>5, <1>8, <1>9, <1>10, <1>11 DEF Kept

LEMMA TakeDiskKept ==
    ASSUME Tidy, NEW e \in mine, Kept(e), hurt' = {}, TakeDisk
    PROVE  Kept(e)'
<1> DEFINE m == Head(down)
<1>1. /\ UNCHANGED <<path, files, room, due, up, active, ready>> /\ Receiving("doc") /\ Channels
      /\ ~active
  BY TidyFacts DEF TakeDisk, TakeIf, diskVars, qtVars
<1>2. \/ text # lastSynced /\ UNCHANGED <<text, lastSynced, shows>>
      \/ /\ text = lastSynced /\ text' = m.text /\ lastSynced' = m.text /\ shows' = m.of
         /\ m.of = shows => mine \cap text \subseteq m.text
  <2>1. hasEditor
    BY TidyFacts
  <2>2. CASE m.text # lastSynced /\ (~hasEditor \/ text = lastSynced)
    BY <2>1, <2>2 DEF TakeDisk, TakeIf
  <2>3. CASE ~(m.text # lastSynced /\ (~hasEditor \/ text = lastSynced))
    BY <2>1, <2>3 DEF TakeDisk, TakeIf
  <2> QED
    BY <2>2, <2>3
<1>3. /\ 1 \in DOMAIN down /\ m = down[1] /\ IsDoc(m) /\ m \in Held(down)
      /\ DOMAIN down' = 1..(Len(down) - 1)
      /\ \A i \in DOMAIN down' : i + 1 \in DOMAIN down /\ down'[i] = down[i + 1]
      /\ DOMAIN down = 1..Len(down) /\ Len(down) \in Nat
      /\ \A i \in DOMAIN down : i = 1 \/ (i - 1 \in DOMAIN down' /\ down'[i - 1] = down[i])
  BY <1>1, HeldFacts, TailFacts DEF Channels, Receiving, IsDoc
<1>4. Stored(e)' <=> Stored(e)
  BY <1>1, StoredSame
<1>5. Replayed(e)'
  BY <1>1, ReplayedTail DEF Kept
<1>6. Switching' => Switching
  BY <1>1, <1>2, SwitchTail
<1>7. CASE text # lastSynced
  <2>1. UNCHANGED <<text, lastSynced, shows>>
    BY <1>2, <1>7
  <2>2. Turning(e)'
    BY <1>6, <1>7, SwitchFacts DEF Turning
  <2> QED
    BY <1>1, <1>4, <1>5, <2>1, <2>2, KeptCarry
<1>8. CASE text = lastSynced
  <2>1. /\ text' = m.text /\ lastSynced' = m.text /\ shows' = m.of
        /\ m.of = shows /\ e \in text => e \in m.text
    BY <1>2, <1>8
  <2>2. e \in m.text => e[1] = m.of
    BY <1>3 DEF Tidy, Owned, DownsOwn, OfDown, Of
  <2>3. /\ e \in text \/ (e[1] # shows /\ e \in files[e[1]])
        /\ e \in text => e[1] = shows /\ Stored(e)
    BY <1>1, <1>8, TidyFacts DEF Kept, Where
  <2>4. m.of # shows => /\ Switching /\ e \in files[e[1]] /\ Stored(e)
                        /\ e \in m.text \/ e[1] # m.of
    <3> SUFFICES ASSUME m.of # shows
                 PROVE  /\ Switching /\ e \in files[e[1]] /\ Stored(e)
                        /\ e \in m.text \/ e[1] # m.of
      OBVIOUS
    <3>1. Switching
      BY <1>3 DEF Switching, IsDoc
    <3>2. e \in files[e[1]] /\ Stored(e)
      BY <3>1, SwitchFacts
    <3>3. ~Lacks(m, e)
      <4>1. Lacks(m, e) => shows = e[1]
        BY <1>3, <3>1 DEF Kept, Turning
      <4> QED
        BY <4>1 DEF Lacks
    <3> QED
      BY <1>3, <3>1, <3>2, <3>3 DEF Lacks
  <2>5. Where(e)'
    <3>1. e \in m.text \/ (e[1] # m.of /\ e \in files[e[1]])
      BY <2>1, <2>3, <2>4
    <3> QED
      BY <1>1, <2>1, <3>1 DEF Where
  <2>6. e \in lastSynced' => Stored(e)'
    <3>1. e \in m.text => Stored(e)
      BY <2>2, <2>3, <2>4
    <3> QED
      BY <1>4, <2>1, <3>1
  <2>7. ~active' /\ e \in room' => Stored(e)'
    BY <1>1, <1>4 DEF Kept
  <2>8. Turning(e)'
    <3> SUFFICES ASSUME Switching', NEW i \in DOMAIN down', Lacks(down'[i], e)
                 PROVE  /\ shows' = e[1] /\ e \in text'
                        /\ \E j \in 1..i : /\ Lacks(down'[j], e)
                                           /\ \A k \in 1..j : IsDoc(down'[k]) /\ down'[k].of = e[1]
      BY DEF Turning
    <3>1. i + 1 \in DOMAIN down /\ Lacks(down[i + 1], e) /\ Switching
      BY <1>3, <1>6
    <3>2. /\ shows = e[1] /\ e \in text
          /\ \E j \in 1..(i + 1) : Lacks(down[j], e)
                                   /\ \A k \in 1..j : IsDoc(down[k]) /\ down[k].of = e[1]
      BY <3>1 DEF Kept, Turning
    <3>3. PICK j \in 1..(i + 1) : Lacks(down[j], e)
                                  /\ \A k \in 1..j : IsDoc(down[k]) /\ down[k].of = e[1]
      BY <3>2
    <3>4. 1 \in 1..j /\ m.of = e[1]
      BY <1>3, <3>3
    <3>5. e \in m.text
      BY <2>1, <3>2, <3>4
    <3>6. j # 1
      BY <1>3, <3>3, <3>5 DEF Lacks
    <3>7. j - 1 \in 1..i /\ j \in DOMAIN down /\ down'[j - 1] = down[j]
      BY <1>3, <3>1, <3>3, <3>6
    <3>8. ASSUME NEW k \in 1..(j - 1) PROVE IsDoc(down'[k]) /\ down'[k].of = e[1]
      <4>1. k + 1 \in 1..j /\ k \in DOMAIN down'
        BY <1>3, <3>3, <3>7
      <4> QED
        BY <1>3, <3>3, <4>1
    <3> QED
      BY <2>1, <3>3, <3>4, <3>5, <3>7, <3>8
  <2> QED
    BY <1>5, <2>5, <2>6, <2>7, <2>8 DEF Kept
<1> QED
  BY <1>7, <1>8

LEMMA OpenKept ==
    ASSUME Tidy, NEW e \in mine, Kept(e), hurt' = {}, Open
    PROVE  Kept(e)'
<1> DEFINE m == Doc(path', files[path'])
<1>1. /\ UNCHANGED <<text, shows, active, ready, lastSynced, files, room, up>>
      /\ AtRest /\ Channels /\ jsReady
  BY TidyFacts DEF Open, OpenTelling, pageVars
<1>2. /\ ~active /\ ~collab /\ text = lastSynced /\ up = <<>>
      /\ \A i \in DOMAIN down : IsDoc(down[i])
  BY <1>1 DEF AtRest, IsDoc
<1>3. /\ down' = Append(down, m) /\ m \in DownMsgs /\ IsDoc(m) /\ m.of = path' /\ m.text = files[path']
      /\ path' \in Files
  BY <1>1, <1>2, OpenFacts, DownFacts DEF Tidy
<1>4. /\ DOMAIN down = 1..Len(down) /\ DOMAIN down' = DOMAIN down \cup {Len(down) + 1}
      /\ Len(down) \in Nat
      /\ down'[Len(down) + 1] = m /\ \A k \in DOMAIN down : down'[k] = down[k]
  BY <1>1, <1>3, AppendFacts DEF Channels
<1>5. NoSave /\ NoSave'
  BY <1>1, <1>2 DEF NoSave, Held
<1>6. Stored(e)' <=> Stored(e)
  BY <1>1, <1>5 DEF Stored
<1>7. e \in files[e[1]] /\ (e[1] = shows => e \in text)
  BY <1>2, <1>5 DEF Kept, Where, Stored
<1>8. Replayed(e)'
  <2>1. \A i \in DOMAIN down' : ~IsSeed(down'[i])
    BY <1>2, <1>3, <1>4 DEF IsDoc, IsSeed
  <2> QED
    BY <2>1 DEF Replayed
<1>9. Turning(e)'
  <2> SUFFICES ASSUME NEW i \in DOMAIN down', Lacks(down'[i], e)
               PROVE  /\ shows' = e[1] /\ e \in text'
                      /\ \E j \in 1..i : /\ Lacks(down'[j], e)
                                         /\ \A k \in 1..j : IsDoc(down'[k]) /\ down'[k].of = e[1]
    BY DEF Turning
  <2>1. i \in DOMAIN down /\ Lacks(down[i], e)
    BY <1>3, <1>4, <1>7 DEF Lacks
  <2>2. /\ shows = e[1] /\ e \in text
        /\ \E j \in 1..i : Lacks(down[j], e)
                           /\ \A k \in 1..j : IsDoc(down[k]) /\ down[k].of = e[1]
    <3>1. CASE Switching
      BY <2>1, <3>1 DEF Kept, Turning
    <3>2. CASE ~Switching
      <4>1. path = shows /\ \A k \in DOMAIN down : down[k].of = path
        BY <1>2, <3>2 DEF Switching, IsDoc
      <4>2. shows = e[1]
        BY <2>1, <4>1 DEF Lacks
      <4>3. i \in 1..i /\ \A k \in 1..i : k \in DOMAIN down
        BY <1>4, <2>1
      <4> QED
        BY <1>2, <1>7, <2>1, <4>1, <4>2, <4>3
    <3> QED
      BY <3>1, <3>2
  <2>3. PICK j \in 1..i : Lacks(down[j], e) /\ \A k \in 1..j : IsDoc(down[k]) /\ down[k].of = e[1]
    BY <2>2
  <2>4. \A k \in 1..j : down'[k] = down[k]
    BY <1>4, <2>1, <2>3
  <2>5. j \in 1..j
    BY <1>4, <2>1, <2>3
  <2> QED
    BY <1>1, <2>2, <2>3, <2>4, <2>5
<1>10. Stored(e) => Stored(e)'
  BY <1>6
<1> QED
  BY <1>1, <1>2, <1>8, <1>9, <1>10, KeptCarry

(* What is typed is in the editor, and nowhere else. *)
LEMMA EditingKept ==
    ASSUME Tidy, NEW e \in mine', e \in mine => Kept(e), hurt' = {}, Editing
    PROVE  Kept(e)'
<1>1. /\ UNCHANGED <<room, due, active, ready, down, path, files, shows, lastSynced>>
      /\ Channels /\ text \in Texts /\ acts \in Nat
  BY ViewAssumption DEF Editing, UserEdits, ReloadFromDisk, diskVars, qtVars, Tidy, Halves, Types
<1>2. e \in text' /\ (e \in mine \/ (UserEdits /\ e[2] = acts + 1))
  <2>1. CASE UserEdits
    <3>1. PICK new \in Changes(text, shows) :
               ChangeEditor(new) /\ mine' = (mine \cap new) \cup (new \ text)
      BY <2>1 DEF UserEdits
    <3>2. text' = new
      BY <3>1 DEF ChangeEditor
    <3>3. e \in mine \/ (e \in text' /\ e \notin text)
      BY <3>1, <3>2
    <3>4. Halves
      BY DEF Tidy
    <3> QED
      BY <2>1, <3>1, <3>2, <3>3, <3>4, EditingFacts
  <2>2. CASE ReloadFromDisk
    <3>1. PICK t \in diskText :
               /\ IF t # text THEN ChangeEditor(t) ELSE UNCHANGED <<text, matTimer, saveTimer, up>>
               /\ mine' = mine \cap t
      BY <2>2 DEF ReloadFromDisk
    <3> QED
      BY <3>1 DEF ChangeEditor
  <2> QED
    BY <2>1, <2>2 DEF Editing
<1>3. Where(e)'
  BY <1>2 DEF Where
<1>4. Turning(e)'
  <2>1. Switching' <=> Switching
    BY <1>1 DEF Switching
  <2>2. ~Switching
    <3>1. CASE UserEdits
      BY <3>1 DEF UserEdits
    <3>2. CASE ReloadFromDisk
      BY <3>2 DEF ReloadFromDisk, Tidy, Passing
    <3> QED
      BY <3>1, <3>2 DEF Editing
  <2> QED
    BY <2>1, <2>2 DEF Turning
<1>5. CASE e \notin mine
  <2>1. ~(e[2] <= acts)
    BY <1>1, <1>2, <1>5
  <2>2. e \notin room /\ e \notin lastSynced
    BY <2>1 DEF Tidy, Numbered, TextsOld, Old
  <2> QED
    BY <1>1, <1>3, <1>4, <2>2 DEF Kept, Replayed
<1>6. CASE e \in mine
  <2>1. Kept(e)
    BY <1>6
  <2>2. Replayed(e)'
    BY <1>1, <2>1, ReplayedSame DEF Kept
  <2>3. Stored(e)' <=> Stored(e)
    <3>1. up' = up \/ \E m \in UpMsgs : up' = Append(up, m) /\ ~IsSave(m)
      <4>1. up' = up \/ \E t \in Texts : Send(<<Update(text, t)>>)
        <5>1. CASE UserEdits
          <6>1. PICK new \in Changes(text, shows) : ChangeEditor(new)
            BY <5>1 DEF UserEdits
          <6>2. new \in Texts
            BY <5>1, <6>1, ChangesFacts, BudgetFacts DEF UserEdits, Tidy, Halves, Types
          <6> QED
            BY <6>1, <6>2 DEF ChangeEditor
        <5>2. CASE ReloadFromDisk
          <6>1. PICK t \in diskText : IF t # text THEN ChangeEditor(t) ELSE up' = up
            BY <5>2 DEF ReloadFromDisk
          <6>2. t \in Texts
            BY <6>1 DEF Tidy, Halves, Types
          <6> QED
            BY <6>1, <6>2 DEF ChangeEditor
        <5> QED
          BY <5>1, <5>2 DEF Editing
      <4>2. CASE up' # up
        <5>1. PICK t \in Texts : Send(<<Update(text, t)>>)
          BY <4>1, <4>2
        <5>2. Update(text, t) \in UpMsgs /\ ~IsSave(Update(text, t))
          BY <1>1, UpFacts
        <5> QED
          BY <1>1, <5>1, <5>2, SendType DEF Channels
      <4> QED
        BY <4>2
    <3> QED
      BY <1>1, <3>1, StoredSend, StoredSame
  <2>4. (e \in lastSynced' => Stored(e)') /\ (~active' /\ e \in room' => Stored(e)')
    BY <1>1, <2>1, <2>3 DEF Kept
  <2> QED
    BY <1>3, <1>4, <2>2, <2>4 DEF Kept
<1> QED
  BY <1>5, <1>6

LEMMA StepKept ==
    /\ Halves /\ Sessions /\ Replaying /\ Numbered /\ OwnInv /\ Connected /\ KeptInv
    /\ [Sure]_vars
    => KeptInv'
<1> SUFFICES ASSUME Halves, Sessions, Replaying, Numbered, OwnInv, Connected, KeptInv,
                    [Sure]_vars, hurt' = {}, NEW e \in mine'
             PROVE  Kept(e)'
  BY DEF KeptInv
<1>0. Tidy /\ \A x \in mine : Kept(x)
  <2>1. hurt = {}
    BY SureIsNext, HurtGrows
  <2> QED
    BY <2>1 DEF KeptInv, OwnInv, Clean, Tidy
<1>1. CASE e \in mine
  <2>1. Kept(e)
    BY <1>0, <1>1
  <2> QED
    BY <1>0, <1>1, <2>1, IdleKept, SaveTimerKept, MaterialiseTimerKept, OfferDiskKept,
      TakeDiskKept,
       EnterCollabKept, ReceiveUpdateKept, LeaveCollabKept, TellingKept, WriteKept,
       HandleUpdateKept, EditingKept, StopKept, OpenKept, ExternalEditKept, HubAdmitsKept,
       HubReplaysKept, PeerEditKept
    DEF Sure, PageStep, People, Telling, Editing
<1>2. CASE e \notin mine
  <2>1. Editing \/ ExternalEdit
    <3>1. mine' = mine \/ UserEdits \/ ReloadFromDisk \/ ExternalEdit
      BY DEF Sure, PageStep, People, SaveTimer, MaterialiseTimer, OfferDisk, TakeDisk,
         TakeIf, EnterCollab, ReceiveUpdate, LeaveCollab, LeaveWith, ReadAgain, Reading, HandleReady,
         Write, HandleUpdate, ToggleOn, ToggleOnIf, ToggleOff, Retarget, Open, OpenTelling,
         HubAdmits, HubReplays, PeerEdit, vars, history
    <3> QED
      BY <1>2, <3>1 DEF Editing
  <2> QED
    BY <1>0, <1>2, <2>1, EditingKept, ExternalEditKept
<1> QED
  BY <1>1, <1>2

LEMMA KeptTyped == KeptInv => TypedKept
<1> SUFFICES ASSUME NEW e \in mine, Kept(e)
             PROVE  \/ e \in text \/ e \in files[e[1]]
                    \/ \E i \in DOMAIN up : up[i].type = "save" /\ e \in up[i].text
  BY DEF KeptInv, TypedKept
<1>1. Stored(e) => \/ e \in files[e[1]]
                   \/ \E i \in DOMAIN up : up[i].type = "save" /\ e \in up[i].text
  BY DEF Stored, LastSave, Saves, IsSave
<1> QED
  BY <1>1 DEF Kept, Where

(* Without a failed read or write, the page keeps what was typed. *)
PageKept ==
    Sound => Sessions /\ Replaying /\ Numbered /\ Connected /\ KeptInv

LEMMA StepPageKept == Halves /\ OwnInv /\ PageKept /\ [Next]_vars => PageKept'
<1> SUFFICES ASSUME Halves, OwnInv, PageKept, [Next]_vars, Sound'
             PROVE  (Sessions /\ Replaying /\ Numbered /\ Connected /\ KeptInv)'
  BY DEF PageKept
<1>1. Sessions /\ Replaying /\ Numbered /\ Connected /\ KeptInv /\ [Sure]_vars
  BY SureStep DEF PageKept
<1> QED
  BY <1>1, StepSessions, StepReplaying, StepNumbered, StepConnected, StepKept

(* What the user has typed and nobody has deleted is in the editor, in its   *)
(* file, or in a save on its way there: no order of saves, their echoes,     *)
(* external changes, other documents and collaboration loses it, except      *)
(* through one of the mishaps that the model names, a failed write, a failed *)
(* read and a replacement just after a read among them.                      *)
THEOREM NothingTypedIsLost == Spec => []TypedKept
<1>1. Init => Halves /\ OwnInv /\ PageKept
  <2>1. Init => Connected /\ KeptInv
    BY DEF Init, Connected, KeptInv
  <2> QED
    BY <2>1, InitHalves, InitRoom, InitNumbered, InitOwned DEF PageKept
<1>2. Halves /\ OwnInv /\ PageKept /\ [Next]_vars => (Halves /\ OwnInv /\ PageKept)'
  BY StepHalves, StepOwned, StepPageKept
<1>3. Halves /\ OwnInv /\ PageKept => TypedKept
  <2> SUFFICES ASSUME PageKept, hurt = {} PROVE TypedKept
    BY DEF TypedKept
  <2>1. KeptInv
    BY DEF PageKept, Sound
  <2> QED
    BY <2>1, KeptTyped
<1> QED
  BY <1>1, <1>2, <1>3, PTL DEF Spec

=============================================================================
