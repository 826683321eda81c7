------------------------- MODULE DocPreview_proofs -------------------------
(* Proofs about DocPreview: whatever renderings overtake each other, the   *)
(* preview never goes back, and with none under way it shows the text and  *)
(* the folder of now.                                                      *)
EXTENDS DocPreview, TLAPS

Stages  == {"process", "parse", "draw"}
Renders == [seq : Nat, text : Nat, stage : Stages, block : Nat]

\* Types, the bounds included.
Types ==
    /\ text \in 0..MaxTexts /\ docDir \in 0..MaxFolders /\ hasEditor \in BOOLEAN
    /\ renderSeq \in Nat /\ prints \in 0..MaxPrints /\ asked \subseteq 0..text
    /\ renders \subseteq Renders
    /\ doc \in Contents

\* Renderings are numbered, and what is awaited fits their stage.
Numbered ==
    /\ doc.seq <= renderSeq
    /\ \A r \in renders : /\ r.seq \in 1..renderSeq /\ r.text <= text /\ r.block <= Diagrams
                          /\ r.stage = "process" => r.block = 0
                          /\ r.stage # "process" => r.block >= 1
    /\ \A r1, r2 \in renders : r1.seq = r2.seq => r1 = r2

\* The contents are those of now.
OfNow == doc.seq = renderSeq /\ doc.text = text /\ doc.dir = docDir

\* The latest rendering has still to put its contents there, or has put them
\* there and replaced the diagrams before the one it is at; or it is over.
LatestDone ==
    /\ \A r \in renders : Latest(r) => r.text = text
    /\ \A r \in renders : Latest(r) /\ r.stage # "process" =>
            OfNow /\ \A b \in Blocks : doc.blocks[b] = "source" => b >= r.block
    /\ (\A r \in renders : ~Latest(r)) =>
            OfNow /\ \A b \in Blocks : doc.blocks[b] # "source"

IInv == Types /\ Numbered /\ LatestDone

----------------------------------------------------------------------------
\* The initial states.
LEMMA InitIInv == Init => IInv
<1> SUFFICES ASSUME Init PROVE IInv
  OBVIOUS
<1>1. Types
  <2>1. [b \in Blocks |-> "error"] \in [Blocks -> Fate]
    BY DEF Fate
  <2>2. doc \in Contents
    BY <2>1 DEF Init, Contents
  <2>3. /\ text \in 0..MaxTexts /\ docDir \in 0..MaxFolders
        /\ renderSeq \in Nat /\ prints \in 0..MaxPrints
    BY PreviewAssumption DEF Init
  <2>4. hasEditor \in BOOLEAN /\ asked \subseteq 0..text /\ renders \subseteq Renders
    BY DEF Init
  <2>5. QED
    BY <2>2, <2>3, <2>4 DEF Types
<1>2. Numbered
  BY DEF Init, Numbered
<1>3. LatestDone
  BY DEF Init, LatestDone, OfNow, Latest
<1>4. QED
  BY <1>1, <1>2, <1>3 DEF IInv

\* A new rendering is the latest, and has its contents still to come.
LEMMA Started ==
    ASSUME IInv, NEW n \in {1, 2}, text' \in Nat, text' >= text,
           RenderPreview(n, text'), UNCHANGED doc
    PROVE  /\ renderSeq' \in Nat /\ renders' \subseteq Renders
           /\ Numbered' /\ LatestDone'
<1> DEFINE New == {[seq |-> s, text |-> text', stage |-> "process", block |-> 0] :
                      s \in (renderSeq + 1)..(renderSeq + n)}
           last == [seq |-> renderSeq + n, text |-> text', stage |-> "process", block |-> 0]
<1>1. /\ renderSeq \in Nat /\ renderSeq' = renderSeq + n /\ renderSeq' \in Nat
      /\ text \in Nat /\ Diagrams \in Nat
  BY PreviewAssumption DEF IInv, Types, RenderPreview
<1>2. renders' = renders \cup New
  BY DEF RenderPreview
<1>3. renders \subseteq Renders
  BY DEF IInv, Types
<1>4. ASSUME NEW r \in New
      PROVE  /\ r \in Renders /\ r.seq \in (renderSeq + 1)..(renderSeq + n)
             /\ r.text = text' /\ r.stage = "process" /\ r.block = 0
             /\ r = [seq |-> r.seq, text |-> text', stage |-> "process", block |-> 0]
  BY <1>1 DEF Renders, Stages
<1>5. last \in renders' /\ last.seq = renderSeq'
  BY <1>1, <1>2
<1>6. ASSUME NEW r \in renders
      PROVE  r.seq \in 1..renderSeq /\ r.text \in Nat /\ r.text <= text
  BY <1>3 DEF IInv, Numbered, Renders
<1>7. renders' \subseteq Renders
  BY <1>2, <1>3, <1>4
<1>8. Numbered'
  <2>1. (doc.seq <= renderSeq)'
    BY <1>1 DEF IInv, Numbered, Types, Contents
  <2>2. ASSUME NEW r \in renders'
        PROVE  /\ r.seq \in 1..renderSeq' /\ r.text <= text' /\ r.block <= Diagrams
               /\ r.stage = "process" => r.block = 0
               /\ r.stage # "process" => r.block >= 1
    <3>1. CASE r \in renders
      BY <1>1, <1>6, <3>1 DEF IInv, Numbered
    <3>2. CASE r \in New
      BY <1>1, <1>4, <3>2
    <3>3. QED
      BY <1>2, <3>1, <3>2
  <2>3. ASSUME NEW r1 \in renders', NEW r2 \in renders', r1.seq = r2.seq
        PROVE  r1 = r2
    <3>1. CASE r1 \in renders /\ r2 \in renders
      BY <2>3, <3>1 DEF IInv, Numbered
    <3>2. CASE r1 \in New /\ r2 \in New
      BY <1>4, <2>3, <3>2
    <3>3. ~(r1 \in renders /\ r2 \in New) /\ ~(r1 \in New /\ r2 \in renders)
      BY <1>1, <1>4, <1>6, <2>3
    <3>4. QED
      BY <1>2, <3>1, <3>2, <3>3
  <2>4. QED
    BY <2>1, <2>2, <2>3 DEF Numbered
<1>9. ASSUME NEW r \in renders', r.seq = renderSeq'
      PROVE  r.text = text' /\ r.stage = "process"
  <2>1. r \notin renders
    BY <1>1, <1>6, <1>9
  <2>2. QED
    BY <1>2, <1>4, <2>1
<1>10. LatestDone'
  BY <1>5, <1>9 DEF LatestDone, Latest
<1>11. QED
  BY <1>1, <1>7, <1>8, <1>10

\* The next diagram of a rendering.
Following(r) == [r EXCEPT !.stage = "parse", !.block = @ + 1]

LEMMA FollowingIs ==
    ASSUME NEW r \in Renders
    PROVE  /\ Following(r) \in Renders
           /\ Following(r).seq = r.seq /\ Following(r).text = r.text
           /\ Following(r).stage = "parse" /\ Following(r).block = r.block + 1
<1> DEFINE mid == [r EXCEPT !.stage = "parse"]
<1>1. mid \in Renders /\ mid.seq = r.seq /\ mid.text = r.text /\ mid.stage = "parse"
      /\ mid.block = r.block /\ r.block \in Nat
  BY DEF Renders, Stages
<1>2. Following(r) = [mid EXCEPT !.block = mid.block + 1]
  BY <1>1 DEF Following, Renders
<1> HIDE DEF mid
<1>3. [mid EXCEPT !.block = mid.block + 1] \in Renders
      /\ [mid EXCEPT !.block = mid.block + 1].seq = mid.seq
      /\ [mid EXCEPT !.block = mid.block + 1].text = mid.text
      /\ [mid EXCEPT !.block = mid.block + 1].stage = mid.stage
      /\ [mid EXCEPT !.block = mid.block + 1].block = mid.block + 1
  BY <1>1 DEF Renders
<1>4. QED
  BY <1>1, <1>2, <1>3

\* Each action that starts renderings keeps the invariant.
LEMMA ChangeKeeps == IInv /\ Change => IInv'
<1> SUFFICES ASSUME IInv, Change PROVE IInv'
  OBVIOUS
<1>1. text \in 0..MaxTexts /\ text' \in 0..MaxTexts /\ text' \in Nat /\ text' >= text
  BY PreviewAssumption DEF IInv, Types, Change
<1>2. renderSeq' \in Nat /\ renders' \subseteq Renders /\ Numbered' /\ LatestDone'
  BY <1>1, Started DEF Change
<1>3. asked \subseteq 0..text' 
  BY <1>1 DEF IInv, Types
<1>4. QED
  BY <1>1, <1>2, <1>3 DEF IInv, Types, Change

LEMMA IncomingKeeps == IInv /\ Incoming => IInv'
<1> SUFFICES ASSUME IInv, Incoming PROVE IInv'
  OBVIOUS
<1>1. PICK n \in {1, 2} : IncomingTimes(n)
  BY DEF Incoming
<1>2. text \in 0..MaxTexts /\ text' \in 0..MaxTexts /\ text' \in Nat /\ text' >= text
  BY <1>1, PreviewAssumption DEF IInv, Types, IncomingTimes
<1>3. renderSeq' \in Nat /\ renders' \subseteq Renders /\ Numbered' /\ LatestDone'
  BY <1>1, <1>2, Started DEF IncomingTimes
<1>4. asked \subseteq 0..text'
  BY <1>2 DEF IInv, Types
<1>5. QED
  BY <1>1, <1>2, <1>3, <1>4 DEF IInv, Types, IncomingTimes

LEMMA DocContextKeeps == IInv /\ DocContext => IInv'
<1> SUFFICES ASSUME IInv, DocContext PROVE IInv'
  OBVIOUS
<1>1. text' = text /\ text' \in Nat /\ text' >= text
  BY DEF IInv, Types, DocContext
<1>2. renderSeq' \in Nat /\ renders' \subseteq Renders /\ Numbered' /\ LatestDone'
  <2>1. RenderPreview(1, text') /\ UNCHANGED doc
    BY <1>1 DEF DocContext
  <2>2. QED
    BY <1>1, <2>1, Started
<1>3. docDir' \in 0..MaxFolders
  BY PreviewAssumption DEF IInv, Types, DocContext
<1>4. QED
  BY <1>1, <1>2, <1>3 DEF IInv, Types, DocContext

LEMMA SavePdfKeeps == IInv /\ SavePdf => IInv'
<1> SUFFICES ASSUME IInv, SavePdf PROVE IInv'
  OBVIOUS
<1>1. text' = text /\ text' \in Nat /\ text' >= text
  BY DEF IInv, Types, SavePdf
<1>2. renderSeq' \in Nat /\ renders' \subseteq Renders /\ Numbered' /\ LatestDone'
  <2>1. RenderPreview(1, text') /\ UNCHANGED doc
    BY <1>1 DEF SavePdf
  <2>2. QED
    BY <1>1, <2>1, Started
<1>3. prints' \in 0..MaxPrints /\ asked' \subseteq 0..text
  BY PreviewAssumption DEF IInv, Types, SavePdf
<1>4. QED
  BY <1>1, <1>2, <1>3 DEF IInv, Types, SavePdf

\* Printing, and steps that change no variable, disturb nothing.
LEMMA RestKeeps == IInv /\ (PrintToPdf \/ UNCHANGED vars) => IInv'
<1> SUFFICES ASSUME IInv, PrintToPdf \/ UNCHANGED vars PROVE IInv'
  OBVIOUS
<1>1. /\ UNCHANGED <<text, docDir, hasEditor, renderSeq, renders, doc, prints>>
      /\ asked' \subseteq asked
  BY DEF PrintToPdf, vars
<1>2. Types'
  BY <1>1 DEF IInv, Types
<1>3. Numbered'
  BY <1>1 DEF IInv, Numbered
<1>4. LatestDone'
  BY <1>1 DEF IInv, LatestDone, Latest, OfNow
<1>5. QED
  BY <1>2, <1>3, <1>4 DEF IInv

----------------------------------------------------------------------------
(* What goes on in a rendering *)

\* A rendering that is not the latest is dropped.
LEMMA Dropped ==
    ASSUME IInv, NEW r \in renders, ~Latest(r), renders' = renders \ {r},
           UNCHANGED <<text, docDir, hasEditor, renderSeq, doc, prints, asked>>
    PROVE  IInv'
<1>1. Types'
  BY DEF IInv, Types
<1>2. Numbered'
  BY DEF IInv, Numbered
<1>3. LatestDone'
  BY DEF IInv, LatestDone, Latest, OfNow
<1>4. QED
  BY <1>1, <1>2, <1>3 DEF IInv

\* The latest rendering r goes on as those in more, at most one, that have the
\* contents of now before them.
LEMMA GoesOn ==
    ASSUME IInv, NEW r \in renders, Latest(r), NEW more \in SUBSET Renders,
           renders' = (renders \ {r}) \cup more,
           \A q \in more : /\ q.seq = r.seq /\ q.text = r.text /\ q.stage # "process"
                          /\ q.block \in 1..Diagrams
                          /\ \A b \in Blocks : doc'.blocks[b] = "source" => b >= q.block,
           \A q1, q2 \in more : q1 = q2,
           more = {} => \A b \in Blocks : doc'.blocks[b] # "source",
           doc' \in Contents, OfNow',
           UNCHANGED <<text, docDir, hasEditor, renderSeq, prints, asked>>
    PROVE  IInv'
<1>1. Types'
  BY DEF IInv, Types
<1>2. /\ r.seq = renderSeq /\ r.seq \in 1..renderSeq /\ r.text <= text
      /\ r.text = text /\ renderSeq \in Nat /\ Diagrams \in Nat
  BY PreviewAssumption DEF IInv, Numbered, LatestDone, Latest, Types
<1>3. Numbered'
  <2>1. (doc.seq <= renderSeq)'
    BY <1>2 DEF OfNow
  <2>2. ASSUME NEW q \in renders'
        PROVE  /\ q.seq \in 1..renderSeq' /\ q.text <= text' /\ q.block <= Diagrams
               /\ q.stage = "process" => q.block = 0
               /\ q.stage # "process" => q.block >= 1
    <3>1. CASE q \in renders
      BY <3>1 DEF IInv, Numbered
    <3>2. CASE q \in more
      BY <1>2, <3>2
    <3>3. QED
      BY <3>1, <3>2
  <2>3. ASSUME NEW q1 \in renders', NEW q2 \in renders', q1.seq = q2.seq PROVE q1 = q2
    <3>1. ASSUME NEW q \in renders \ {r} PROVE q.seq # r.seq
      BY DEF IInv, Numbered
    <3>2. QED
      BY <2>3, <3>1 DEF IInv, Numbered
  <2>4. QED
    BY <2>1, <2>2, <2>3 DEF Numbered
<1>4. \A q \in renders \ {r} : q.seq # renderSeq
  BY <1>2 DEF IInv, Numbered
<1>5. LatestDone'
  <2>1. ASSUME NEW q \in renders', q.seq = renderSeq PROVE q \in more
    BY <1>4, <2>1
  <2>2. more = {} \/ \E q \in renders' : q.seq = renderSeq
    BY <1>2
  <2>3. QED
    BY <1>2, <2>1, <2>2 DEF LatestDone, Latest
<1>6. QED
  BY <1>1, <1>3, <1>5 DEF IInv

\* The contents arrive, all diagrams as source.
LEMMA ProcessedKeeps == IInv /\ Processed => IInv'
<1> SUFFICES ASSUME IInv, Processed PROVE IInv'
  OBVIOUS
<1>1. PICK r \in renders :
        /\ r.stage = "process"
        /\ IF Latest(r)
           THEN doc' = Resolved(r) /\ NextBlock(r)
           ELSE renders' = renders \ {r} /\ UNCHANGED doc
        /\ UNCHANGED <<text, docDir, hasEditor, renderSeq, prints, asked>>
  BY DEF Processed, ProcessedIf
<1>2. CASE ~Latest(r)
  BY <1>1, <1>2, Dropped
<1>3. CASE Latest(r)
  <2> DEFINE next == Following(r)
             more == IF r.block < Diagrams THEN {next} ELSE {}
  <2>1. /\ r \in Renders /\ r.block = 0 /\ r.text = text /\ r.seq = renderSeq
        /\ docDir \in Nat /\ Diagrams \in Nat
    BY <1>1, <1>3, PreviewAssumption DEF IInv, Types, Numbered, LatestDone, Latest
  <2>2. next \in Renders /\ next.seq = r.seq /\ next.text = r.text
        /\ next.stage = "parse" /\ next.block = 1
    BY <2>1, FollowingIs
  <2> HIDE DEF next
  <2>3. renders' = (renders \ {r}) \cup more
    BY <1>1, <1>3 DEF NextBlock, NextOf, Following, next
  <2>4. doc' \in Contents /\ OfNow'
    <3>1. [b \in Blocks |-> "source"] \in [Blocks -> Fate]
      BY DEF Fate
    <3>2. QED
      BY <1>1, <1>3, <2>1, <3>1 DEF Resolved, Contents, OfNow, Renders
  <2>5. Blocks = 1..Diagrams
    BY DEF Blocks
  <2>6. \A q \in more : /\ q.seq = r.seq /\ q.text = r.text /\ q.stage # "process"
                        /\ q.block \in 1..Diagrams
                        /\ \A b \in Blocks : doc'.blocks[b] = "source" => b >= q.block
    BY <2>1, <2>2, <2>5
  <2>7. more = {} => \A b \in Blocks : doc'.blocks[b] # "source"
    BY <2>1, <2>5
  <2>8. more \in SUBSET Renders /\ \A q1, q2 \in more : q1 = q2
    BY <2>2
  <2>9. QED
    BY <1>1, <1>3, <2>3, <2>4, <2>6, <2>7, <2>8, GoesOn
<1>4. QED
  BY <1>2, <1>3

\* Diagram r.block of the latest rendering is replaced, and it goes on.
LEMMA ReplacedKeeps ==
    ASSUME IInv, NEW r \in renders, r.stage \in {"parse", "draw"}, Latest(r),
           NEW fate \in {"figure", "error"}, Replace(r, fate), NextBlock(r),
           UNCHANGED <<text, docDir, hasEditor, renderSeq, prints, asked>>
    PROVE  IInv'
<1> DEFINE next == Following(r)
           more == IF r.block < Diagrams THEN {next} ELSE {}
<1>1. /\ r \in Renders /\ r.seq = renderSeq /\ r.text = text /\ r.stage # "process"
      /\ r.block \in Nat /\ r.block >= 1 /\ r.block <= Diagrams /\ Diagrams \in Nat
  BY PreviewAssumption DEF IInv, Types, Numbered, LatestDone, Latest, Renders
<1>2. OfNow /\ doc \in Contents /\ \A b \in Blocks : doc.blocks[b] = "source" => b >= r.block
  BY <1>1 DEF IInv, Types, LatestDone
<1>3. Blocks = 1..Diagrams /\ r.block \in Blocks
  BY <1>1 DEF Blocks
<1>4. next \in Renders /\ next.seq = r.seq /\ next.text = r.text
      /\ next.stage = "parse" /\ next.block = r.block + 1
  BY <1>1, FollowingIs
<1>5. doc' = [doc EXCEPT !.blocks[r.block] = fate]
  BY <1>1, <1>2 DEF Replace, OfNow
<1>6. /\ doc' \in Contents /\ doc'.seq = doc.seq /\ doc'.text = doc.text /\ doc'.dir = doc.dir
      /\ \A b \in Blocks : doc'.blocks[b] = IF b = r.block THEN fate ELSE doc.blocks[b]
  <2>1. fate \in Fate /\ fate # "source"
    BY DEF Fate
  <2>2. [doc.blocks EXCEPT ![r.block] = fate] \in [Blocks -> Fate]
    BY <1>2, <1>3, <2>1 DEF Contents
  <2>3. doc' = [doc EXCEPT !.blocks = [doc.blocks EXCEPT ![r.block] = fate]]
    BY <1>5
  <2>4. doc'.blocks = [doc.blocks EXCEPT ![r.block] = fate]
        /\ doc' \in Contents /\ doc'.seq = doc.seq /\ doc'.text = doc.text /\ doc'.dir = doc.dir
    BY <1>2, <2>2, <2>3 DEF Contents
  <2>5. doc.blocks \in [Blocks -> Fate]
    BY <1>2 DEF Contents
  <2>6. QED
    BY <1>3, <2>4, <2>5
<1>7. OfNow'
  BY <1>2, <1>6 DEF OfNow
<1>8. \A b \in Blocks : doc'.blocks[b] = "source" => b >= r.block + 1
  BY <1>1, <1>2, <1>3, <1>6
<1> HIDE DEF next
<1>9. renders' = (renders \ {r}) \cup more
  BY DEF NextBlock, NextOf, Following, next
<1>10. \A q \in more : /\ q.seq = r.seq /\ q.text = r.text /\ q.stage # "process"
                       /\ q.block \in 1..Diagrams
                       /\ \A b \in Blocks : doc'.blocks[b] = "source" => b >= q.block
  BY <1>1, <1>4, <1>8
<1>11. more = {} => \A b \in Blocks : doc'.blocks[b] # "source"
  BY <1>1, <1>3, <1>8
<1>12. more \in SUBSET Renders /\ \A q1, q2 \in more : q1 = q2
  BY <1>4
<1>13. QED
  BY <1>6, <1>7, <1>9, <1>10, <1>11, <1>12, GoesOn

LEMMA FailsKeeps == IInv /\ Fails => IInv'
<1> SUFFICES ASSUME IInv, Fails PROVE IInv'
  OBVIOUS
<1>1. PICK r \in renders :
        /\ r.stage \in {"parse", "draw"}
        /\ IF Latest(r) THEN Replace(r, "error") /\ NextBlock(r)
                        ELSE renders' = renders \ {r} /\ UNCHANGED doc
        /\ UNCHANGED <<text, docDir, hasEditor, renderSeq, prints, asked>>
  BY DEF Fails
<1>2. CASE ~Latest(r)
  BY <1>1, <1>2, Dropped
<1>3. CASE Latest(r)
  BY <1>1, <1>3, ReplacedKeeps
<1>4. QED
  BY <1>2, <1>3

LEMMA DrawnKeeps == IInv /\ Drawn => IInv'
<1> SUFFICES ASSUME IInv, Drawn PROVE IInv'
  OBVIOUS
<1>1. PICK r \in renders :
        /\ r.stage = "draw"
        /\ IF Latest(r) THEN Replace(r, "figure") /\ NextBlock(r)
                        ELSE renders' = renders \ {r} /\ UNCHANGED doc
        /\ UNCHANGED <<text, docDir, hasEditor, renderSeq, prints, asked>>
  BY DEF Drawn, DrawnThen
<1>2. CASE ~Latest(r)
  BY <1>1, <1>2, Dropped
<1>3. CASE Latest(r)
  BY <1>1, <1>3, ReplacedKeeps
<1>4. QED
  BY <1>2, <1>3

\* The parser has accepted the diagram: only the stage changes.
LEMMA ParsedKeeps == IInv /\ Parsed => IInv'
<1> SUFFICES ASSUME IInv, Parsed PROVE IInv'
  OBVIOUS
<1>1. PICK r \in renders :
        /\ r.stage = "parse"
        /\ renders' = (renders \ {r}) \cup
                (IF Latest(r) THEN {[r EXCEPT !.stage = "draw"]} ELSE {})
        /\ UNCHANGED <<text, docDir, hasEditor, renderSeq, doc, prints, asked>>
  BY DEF Parsed
<1>2. CASE ~Latest(r)
  BY <1>1, <1>2, Dropped
<1>3. CASE Latest(r)
  <2> DEFINE next == [r EXCEPT !.stage = "draw"]
  <2>1. /\ r \in Renders /\ r.block \in Nat /\ r.block >= 1 /\ r.block <= Diagrams
        /\ Diagrams \in Nat /\ doc \in Contents /\ OfNow
        /\ \A b \in Blocks : doc.blocks[b] = "source" => b >= r.block
    BY <1>1, <1>3, PreviewAssumption DEF IInv, Types, Numbered, LatestDone, Renders
  <2>2. next \in Renders /\ next.seq = r.seq /\ next.text = r.text
        /\ next.stage = "draw" /\ next.block = r.block
    BY <2>1 DEF Renders, Stages
  <2>3. OfNow'
    BY <1>1, <2>1 DEF OfNow
  <2> HIDE DEF next
  <2>4. renders' = (renders \ {r}) \cup {next}
    BY <1>1, <1>3 DEF next
  <2>5. /\ {next} \in SUBSET Renders /\ \A q1, q2 \in {next} : q1 = q2
        /\ \A q \in {next} : /\ q.seq = r.seq /\ q.text = r.text /\ q.stage # "process"
                            /\ q.block \in 1..Diagrams
                            /\ \A b \in Blocks : doc'.blocks[b] = "source" => b >= q.block
    BY <1>1, <2>1, <2>2
  <2>6. QED
    BY <1>1, <1>3, <2>1, <2>3, <2>4, <2>5, GoesOn
<1>4. QED
  BY <1>2, <1>3

----------------------------------------------------------------------------
(* The theorems *)

LEMMA Inductive == Spec => []IInv
<1>1. IInv /\ [Next]_vars => IInv'
  BY ChangeKeeps, IncomingKeeps, DocContextKeeps, SavePdfKeeps, RestKeeps,
     ProcessedKeeps, FailsKeeps, ParsedKeeps, DrawnKeeps
     DEF Next, Awaits
<1>2. QED
  BY InitIInv, <1>1, PTL DEF Spec

\* Every variable of the preview has its type.
THEOREM TypeCorrect == Spec => []TypeOK
<1>1. IInv => TypeOK
  <2> SUFFICES ASSUME IInv PROVE TypeOK
    OBVIOUS
  <2>1. ASSUME NEW r \in renders
        PROVE  /\ r.seq \in 1..renderSeq /\ r.text \in 0..text
               /\ r.stage \in {"process", "parse", "draw"} /\ r.block \in 0..Diagrams
    BY PreviewAssumption DEF IInv, Types, Numbered, Renders, Stages
  <2>2. renderSeq \in Nat
    BY DEF IInv, Types
  <2>3. QED
    BY <2>1, <2>2 DEF IInv, Types, Numbered, TypeOK
<1>2. QED
  BY Inductive, <1>1, PTL

\* Whatever renderings overtake each other (renderSeq), with none under way
\* the preview shows the text and the folder of now, and all diagrams drawn.
THEOREM ShowsNow == Spec => []PreviewCurrent
<1>1. IInv => PreviewCurrent
  BY DEF IInv, LatestDone, OfNow, PreviewCurrent
<1>2. QED
  BY Inductive, <1>1, PTL

\* No step puts the contents of an older rendering over those of a newer one.
THEOREM GoesForward == Spec => NeverBack
<1>1. IInv /\ [Next]_vars => doc'.seq >= doc.seq \/ UNCHANGED vars
  <2> SUFFICES ASSUME IInv, Next PROVE doc'.seq >= doc.seq
    BY DEF vars
  <2>1. doc.seq \in Nat /\ doc.seq <= renderSeq /\ renderSeq \in Nat /\ doc \in Contents
    BY DEF IInv, Types, Numbered, Contents
  <2>2. CASE Processed
    <3>1. PICK r \in renders :
            IF Latest(r)
            THEN doc' = Resolved(r)
            ELSE UNCHANGED doc
      BY <2>2 DEF Processed, ProcessedIf
    <3>2. CASE Latest(r)
      BY <2>1, <3>1, <3>2 DEF Resolved, Latest
    <3>3. CASE ~Latest(r)
      BY <2>1, <3>1, <3>3
    <3>4. QED
      BY <3>2, <3>3
  <2>3. CASE Fails \/ Drawn
    <3>1. PICK r \in renders, fate \in {"figure", "error"} : Replace(r, fate) \/ UNCHANGED doc
      BY <2>3 DEF Fails, Drawn, DrawnThen
    <3>2. doc'.seq = doc.seq
      BY <2>1, <3>1 DEF Replace, Contents
    <3>3. QED
      BY <2>1, <3>2
  <2>4. CASE Change \/ Incoming \/ DocContext \/ SavePdf \/ PrintToPdf \/ Parsed
    <3>1. UNCHANGED doc
      BY <2>4 DEF Change, Incoming, IncomingTimes, DocContext, SavePdf, PrintToPdf, Parsed
    <3>2. QED
      BY <2>1, <3>1
  <2>5. QED
    BY <2>2, <2>3, <2>4 DEF Next, Awaits
<1>2. QED
  BY Inductive, <1>1, PTL DEF Spec, NeverBack
=============================================================================
