----------------------------- MODULE SlashMenu -----------------------------
(***************************************************************************)
(* The slash commands of the document editor: /rec, /proc, /cam, /dev and  *)
(* /meta.  The page keeps what the app has told it, asks again whenever a  *)
(* menu opens, and waits only where it knows nothing; the app answers over *)
(* the web channel, in order, but while it exports a recording its event   *)
(* loop is pumped and other requests are answered in between.              *)
(*                                                                         *)
(* A document is the number of documents opened before it, each taken to   *)
(* be in a folder of its own; the exported files of a recording are the    *)
(* number of exports so far.  {} stands for null, and for an empty list.   *)
(* A menu's source is called by the editor, which shows what the latest    *)
(* call returns and forgets the earlier ones.                              *)
(***************************************************************************)
EXTENDS Naturals, Sequences, FiniteSets

CONSTANTS Recs,     \* the recordings
          MaxActs   \* bound on the commands typed, the documents opened, and the
                    \* lists for which an app with something to list finds nothing

ASSUME SlashAssumption == MaxActs \in Nat

VARIABLES
    wired,      \* the app has given the view its services
    dir,        \* Qt: the open document
    disk,       \* recording -> exports so far
    exporting,  \* recordings that are being exported, the innermost last
    down, up,   \* the web channel
    docDir,     \* page: the document
    lists,      \* the caches, {} when cold, else the document they were made for
    pendingRec, \* the recording that was picked
    existing,   \* recording -> its files as last listed
    exports,    \* recording -> its files as last exported
    query,      \* the call of the source that is waiting
    menu,       \* what the editor offers
    awaiting,   \* blocks that are inserted on arrival: a flag for each kind
    owed,       \* history: blocks picked while none of their kind was under way
    acts

qtVars    == <<wired, dir, disk, exporting>>
blockVars == <<awaiting, owed>>
pageVars  == <<docDir, lists, pendingRec, existing, exports, query, menu, blockVars>>
vars      == <<qtVars, down, up, pageVars, acts>>

Lists  == {"rec", "proc", "cams", "media"}
Blocks == {"proc", "cam", "dev", "meta"}

\* The lists that a command's menu is made of.
Needs == [rec |-> <<"rec">>, proc |-> <<"proc">>, cam |-> <<"cams", "media">>,
          dev |-> <<>>, meta |-> <<>>]

\* The list that offers a block; /dev and /meta need none.
Offers == [proc |-> {"proc"}, cam |-> {"cams"}, dev |-> {}, meta |-> {}]

ListRequest(k) == [type |-> "list", of |-> k]
List(k, v)     == [type |-> "list", of |-> k, made |-> v]
FilesRequest(mode, r) == [type |-> mode, rec |-> r]
FilesOf(mode, r, n)   == [type |-> mode, rec |-> r, files |-> [ver |-> n, dir |-> dir]]
BlockRequest(k) == [type |-> "block", of |-> k]
Block(k, ok)    == [type |-> "block", of |-> k, ok |-> ok]
Document(d)     == [type |-> "document", dir |-> d]

Emit(m)  == down' = Append(down, m)
Send(ms) == up' = up \o ms

\* The page has just connected; Qt has pushed the lists it can make.
Init ==
    /\ wired \in BOOLEAN
    /\ dir = 0 /\ disk = [r \in Recs |-> 0] /\ exporting = <<>>
    /\ \E made \in {{}, {dir}} :
        /\ made # {} => wired
        /\ \/ down = <<List("rec", made), List("proc", made), List("cams", made), List("media", made)>>
           \/ ~wired /\ down = <<List("cams", made), List("media", made)>>
    /\ up = <<>>
    /\ docDir = 0 /\ lists = [k \in Lists |-> {}] /\ pendingRec = {}
    /\ existing = [r \in Recs |-> {}] /\ exports = [r \in Recs |-> {}]
    /\ query = {} /\ menu = {} /\ awaiting = {} /\ owed = {}
    /\ acts = 0

----------------------------------------------------------------------------
(* The page: the source of the menus *)

\* The answer to a command, once each of its lists is there; with nothing in
\* any of them there is no menu.
Ask(cmd, got) ==
    LET n == Needs[cmd] IN
    IF \E i \in DOMAIN n : n[i] \notin DOMAIN got
    THEN query' = {[type |-> "lists", cmd |-> cmd, got |-> got]} /\ menu' = {}
    ELSE /\ query' = {}
         /\ menu' = IF n # <<>> /\ \A i \in DOMAIN n : got[n[i]] = {} THEN {}
                    ELSE {[type |-> "lists", cmd |-> cmd, got |-> got]}

\* A command is typed: whenCache asks Qt for each list, and waits for those
\* that are cold.
Type ==
    /\ pendingRec = {}
    /\ acts < MaxActs /\ acts' = acts + 1
    /\ \E cmd \in DOMAIN Needs :
        LET n == Needs[cmd] IN
        /\ Send([i \in DOMAIN n |-> ListRequest(n[i])])
        /\ Ask(cmd, [k \in {n[i] : i \in DOMAIN n} \cap {k \in Lists : lists[k] # {}}
                        |-> lists[k]])
    /\ UNCHANGED <<qtVars, down, docDir, lists, pendingRec, existing, exports, blockVars>>

\* List k has become v, or is not waited for any longer: the call takes v.
Resolve(k, v) ==
    IF \E q \in query : /\ q.type = "lists" /\ k \notin DOMAIN q.got
                        /\ \E i \in DOMAIN Needs[q.cmd] : Needs[q.cmd][i] = k
    THEN \E q \in query : Ask(q.cmd, [j \in DOMAIN q.got \cup {k} |->
                                        IF j = k THEN v ELSE q.got[j]])
    ELSE UNCHANGED <<query, menu>>

\* mutation: the wait for a cold list has no bound
NoTimeout == FALSE

\* The wait for a cold list is bounded.
Timeout ==
    /\ \E q \in query : q.type = "lists" /\ \E k \in Lists : Resolve(k, lists[k]) /\ query' # query
    /\ UNCHANGED <<qtVars, down, up, docDir, lists, pendingRec, existing, exports,
                   blockVars, acts>>

\* A menu of the recording's files; only one of its existing files offers to
\* export them, too, and is shown though there are none.
Show(q, f) ==
    /\ query' = {}
    /\ menu' = IF q.mode = "exported" /\ f.ver = 0 THEN {}
               ELSE {[type |-> "files", q |-> q, files |-> f]}

\* The source is called after a recording was picked, or the export of one:
\* waitMap takes the files that are there, or waits for them.
StageTwoLeaving(pending) ==
    /\ \E q \in pendingRec :
        LET known == IF q.mode = "existing" THEN existing[q.rec] ELSE exports[q.rec] IN
        IF known # {} THEN \E f \in known : Show(q, f)
        ELSE query' = {[type |-> "files", q |-> q]} /\ menu' = {}
    /\ pendingRec' = pending
    /\ UNCHANGED <<qtVars, down, up, docDir, lists, existing, exports, blockVars, acts>>

\* mutation: the pick is not forgotten
StageTwoKeeps == StageTwoLeaving(pendingRec)

StageTwo == StageTwoLeaving({})

----------------------------------------------------------------------------
(* The page: what is picked *)

\* No request for the recording's files is under way.
Unasked(r) ==
    /\ \A i \in DOMAIN up : up[i].type \in {"existing", "exported"} => up[i].rec # r
    /\ \A i \in DOMAIN down : down[i].type \in {"existing", "exported"} => down[i].rec # r
    /\ \A i \in DOMAIN exporting : exporting[i] # r

\* r's files are asked for, and shown when stage 2 gets at least `since`.
PickFiles(mode, r, since) ==
    /\ pendingRec' = {[mode |-> mode, rec |-> r, since |-> since, alone |-> Unasked(r),
                       at |-> docDir]}
    /\ Send(<<FilesRequest(mode, r)>>)
    /\ menu' = {}
    /\ UNCHANGED <<qtVars, down, docDir, lists, query, blockVars, acts>>

PickRecForgetting(r, known) ==
    /\ \E m \in menu : m.type = "lists" /\ m.cmd = "rec"
    /\ PickFiles("existing", r, disk[r])
    /\ existing' = [existing EXCEPT ![r] = known]
    /\ UNCHANGED exports

\* mutation: what was listed before is not forgotten
PickRecKnown == \E r \in Recs : PickRecForgetting(r, existing[r])

PickRec == \E r \in Recs : PickRecForgetting(r, {})

\* Export now.
PickExport ==
    \E m \in menu :
        /\ m.type = "files" /\ m.q.mode = "existing"
        /\ PickFiles("exported", m.q.rec, disk[m.q.rec] + 1)
        /\ exports' = [exports EXCEPT ![m.q.rec] = {}]
        /\ UNCHANGED existing

\* A request or an answer for a block of this kind is under way.
Underway(k) ==
    \/ \E i \in DOMAIN up : up[i] = BlockRequest(k)
    \/ \E i \in DOMAIN down : down[i].type = "block" /\ down[i].of = k

\* A block that Qt has to make is picked.
PickBlock ==
    /\ \E m \in menu : \E k \in Blocks :
        /\ m.type = "lists" /\ m.cmd = k
        /\ \A j \in Offers[k] : m.got[j] # {}
        /\ awaiting' = awaiting \cup {k}
        /\ owed' = IF Underway(k) THEN owed ELSE owed \cup {k}
        /\ Send(<<BlockRequest(k)>>)
    /\ menu' = {}
    /\ UNCHANGED <<qtVars, down, docDir, lists, pendingRec, existing, exports, query, acts>>

Dismiss ==
    /\ menu' = {} /\ query' = {}
    /\ UNCHANGED <<qtVars, down, up, docDir, lists, pendingRec, existing, exports,
                   blockVars, acts>>

\* The link of an exported file is inserted.
PickFile == (\E m \in menu : m.type = "files" /\ m.files.ver > 0) /\ Dismiss

\* The link of a photo or clip is inserted.
PickMedia ==
    /\ \E m \in menu : m.type = "lists" /\ m.cmd = "cam" /\ m.got["media"] # {}
    /\ Dismiss

\* The menu is left, or not waited for.
Escape == menu \cup query # {} /\ Dismiss

----------------------------------------------------------------------------
(* The page: what Qt tells it *)

Receiving(types) == down # <<>> /\ Head(down).type \in types /\ down' = Tail(down)

ReceiveList ==
    /\ Receiving({"list"})
    /\ LET m == Head(down) IN
        /\ lists' = [lists EXCEPT ![m.of] = m.made]
        /\ Resolve(m.of, m.made)
    /\ UNCHANGED <<qtVars, up, docDir, pendingRec, existing, exports, blockVars, acts>>

\* resolveMap wakes those who wait for this kind of files; exported files exist.
ReceiveFiles ==
    /\ Receiving({"existing", "exported"})
    /\ LET m == Head(down) IN
        /\ existing' = [existing EXCEPT ![m.rec] = {m.files}]
        /\ exports' = IF m.type = "exported" THEN [exports EXCEPT ![m.rec] = {m.files}] ELSE exports
        /\ IF \E q \in query : q.type = "files" /\ q.q.mode = m.type /\ q.q.rec = m.rec
           THEN \E q \in query : Show(q.q, m.files)
           ELSE UNCHANGED <<query, menu>>
    /\ UNCHANGED <<qtVars, up, docDir, lists, pendingRec, blockVars, acts>>

\* The block goes in where the cursor is, or its error is shown; either ends the
\* wait.  An answer that no flag awaits any more is dropped: that of a second
\* pick of the kind, made before the answer to the first.
ReceiveBlockEnding(oks) ==
    /\ Receiving({"block"})
    /\ LET ended == IF Head(down).ok \in oks THEN {Head(down).of} ELSE {} IN
        awaiting' = awaiting \ ended /\ owed' = owed \ (ended \cap awaiting)
    /\ UNCHANGED <<qtVars, up, docDir, lists, pendingRec, existing, exports, query, menu,
                   acts>>

\* mutation: an error does not end the wait
ReceiveBlockOk == ReceiveBlockEnding({TRUE})

ReceiveBlock == ReceiveBlockEnding(BOOLEAN)

\* Another document: its text takes the menu away, unless the page keeps what
\* is in the editor.
ReceiveDocument ==
    /\ Receiving({"document"})
    /\ docDir' = Head(down).dir
    /\ \/ menu' = {} /\ query' = {}
       \/ UNCHANGED <<menu, query>>
    /\ UNCHANGED <<qtVars, up, lists, pendingRec, existing, exports, blockVars, acts>>

----------------------------------------------------------------------------
(* Qt *)

Handling(type) == up # <<>> /\ Head(up).type = type /\ up' = Tail(up)

\* The app's list; it is empty when there is nothing to list, or the call fails.
ListFound ==
    /\ wired
    /\ \/ Emit(List(Head(up).of, {dir})) /\ UNCHANGED acts
       \/ acts < MaxActs /\ acts' = acts + 1 /\ Emit(List(Head(up).of, {}))

\* Without the app a default service finds nothing; where the view was given
\* none (set_macros), recordings and processors get no answer at all.
NothingListed ==
    /\ ~wired
    /\ \/ Emit(List(Head(up).of, {}))
       \/ Head(up).of \in {"rec", "proc"} /\ UNCHANGED down
    /\ UNCHANGED acts

HandleList ==
    /\ Handling("list")
    /\ ListFound \/ NothingListed
    /\ UNCHANGED <<qtVars, pageVars>>

HandleExisting ==
    /\ Handling("existing")
    /\ Emit(FilesOf("existing", Head(up).rec, disk[Head(up).rec]))
    /\ UNCHANGED <<qtVars, pageVars, acts>>

\* The export pumps the event loop, so that others may begin inside it.
HandleExport ==
    /\ Handling("exported")
    /\ exporting' = Append(exporting, Head(up).rec)
    /\ UNCHANGED <<wired, dir, disk, down, pageVars, acts>>

\* The innermost export is done, or has failed.
EndExport ==
    /\ exporting # <<>>
    /\ LET r == exporting[Len(exporting)] IN
        \/ disk' = [disk EXCEPT ![r] = @ + 1] /\ Emit(FilesOf("exported", r, disk[r] + 1))
        \/ UNCHANGED disk /\ Emit(FilesOf("exported", r, 0))
    /\ exporting' = SubSeq(exporting, 1, Len(exporting) - 1)
    /\ UNCHANGED <<wired, dir, up, pageVars, acts>>

\* The block, or an error.
AnswerBlock ==
    /\ Handling("block")
    /\ \E ok \in BOOLEAN : (ok => wired) /\ Emit(Block(Head(up).of, ok))
    /\ UNCHANGED <<qtVars, pageVars, acts>>

\* The photo is taken, but has no path from the document (another drive): the
\* handler raises, and the page hears nothing.
LosePhoto ==
    /\ wired
    /\ Handling("block") /\ Head(up).of = "cam"
    /\ owed' = IF \E i \in DOMAIN down : down[i].type = "block" /\ down[i].of = "cam"
               THEN owed ELSE owed \ {"cam"}
    /\ UNCHANGED <<qtVars, down, docDir, lists, pendingRec, existing, exports, query, menu,
                   awaiting, acts>>

HandleBlock == AnswerBlock \/ LosePhoto

Open ==
    /\ acts < MaxActs /\ acts' = acts + 1
    /\ dir' = dir + 1
    /\ Emit(Document(dir'))
    /\ UNCHANGED <<wired, disk, exporting, up, pageVars>>

----------------------------------------------------------------------------
Page == ReceiveList \/ ReceiveFiles \/ ReceiveBlock \/ ReceiveDocument
Qt   == HandleList \/ HandleExisting \/ HandleExport \/ HandleBlock
User ==
    Type \/ StageTwo \/ PickRec \/ PickExport \/ PickFile \/ PickBlock \/ PickMedia
    \/ Escape \/ Open

Next == Page \/ Timeout \/ Qt \/ EndExport \/ User

Spec == Init /\ [][Next]_vars

\* Both event loops run, exports end, and timers expire; the user may stop.
FairSpec ==
    Spec /\ WF_vars(Page) /\ WF_vars(Qt) /\ WF_vars(EndExport) /\ WF_vars(Timeout)

----------------------------------------------------------------------------
(* Properties *)

Documents == 0..MaxActs
Made      == SUBSET Documents
Files     == [ver : Nat, dir : Documents]
Picks     == [mode : {"existing", "exported"}, rec : Recs, since : Nat, alone : BOOLEAN,
              at : Documents]
Calls     == [type : {"lists"}, cmd : DOMAIN Needs, got : UNION {[K -> Made] : K \in SUBSET Lists}]

\* Every variable has its type; a pick, a call that waits and a menu exclude
\* each other; a block that is owed is awaited, and on its way.
TypeOK ==
    /\ wired \in BOOLEAN /\ dir \in Documents /\ docDir \in Documents
    /\ disk \in [Recs -> Nat] /\ exporting \in Seq(Recs)
    /\ lists \in [Lists -> Made]
    /\ existing \in [Recs -> SUBSET Files] /\ exports \in [Recs -> SUBSET Files]
    /\ pendingRec \subseteq Picks
    /\ query \subseteq Calls \cup [type : {"files"}, q : Picks]
    /\ menu \subseteq Calls \cup [type : {"files"}, q : Picks, files : Files]
    /\ awaiting \subseteq Blocks /\ owed \subseteq awaiting /\ acts \in 0..MaxActs
    /\ Cardinality(pendingRec) + Cardinality(query) + Cardinality(menu) <= 1
    /\ \A k \in owed : Underway(k)

\* A menu of files is as new as its pick: it has what was exported by then, or
\* the export that was picked, with paths from the document that is shown,
\* unless the recording's files had been asked for before, or another document
\* has come since.
FreshFiles ==
    \A m \in menu :
        m.type = "files" /\ m.q.alone /\ m.q.at = docDir =>
            m.files.ver >= m.q.since /\ m.files.dir = docDir

\* Every call of the source comes to an end, whatever Qt answers.
QueriesEnd == []<>(query = {})

\* A block that was picked comes, or its error does, and ends the wait for it:
\* unless a block of its kind was on its way when it was picked (the page has
\* one flag for each kind, so the second answer is dropped), or it is a photo
\* that has no path from the document (the app does not answer).
PicksLand == \A k \in Blocks : k \in owed ~> k \notin owed

\* The photos and clips of a menu that opens have paths from the document shown.
MediaFits ==
    [][\A m \in menu' \ menu : m.type = "lists" /\ m.cmd = "cam" =>
            m.got["media"] \subseteq {docDir'}]_vars
=============================================================================
