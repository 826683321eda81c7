---------------------------- MODULE DocPreview ----------------------------
(***************************************************************************)
(* The rendered half of a document view's page.  Every change of the text, *)
(* and every change of the folder that relative pictures are looked up in, *)
(* starts a rendering of its own; a rendering awaits the Markdown          *)
(* processor, then for every mermaid diagram its parser and its drawing,   *)
(* and between these awaits the page may begin others.  The awaits of      *)
(* different renderings end in any order.                                  *)
(*                                                                         *)
(* A text is the number of changes that led to it, a folder the number of  *)
(* documents opened so far; the k-th diagram of a text may be faulty.      *)
(***************************************************************************)
EXTENDS Naturals, FiniteSets

CONSTANTS MaxTexts,    \* bound on the changes of the text
          MaxFolders,  \* bound on the changes of the folder
          MaxPrints,   \* bound on the PDFs asked for
          Diagrams     \* how many diagrams a text has

ASSUME PreviewAssumption ==
    MaxTexts \in Nat /\ MaxFolders \in Nat /\ MaxPrints \in Nat /\ Diagrams \in Nat

VARIABLES
    text,       \* what text() returns
    docDir,
    hasEditor,  \* the first document has arrived
    renderSeq,
    renders,    \* renderings that await something
    doc,        \* the contents of the #doc element
    prints,     \* PDFs asked for so far
    asked       \* texts at the time of the requests that Qt still has to print

vars == <<text, docDir, hasEditor, renderSeq, renders, doc, prints, asked>>

\* What becomes of a diagram's source.
Fate == {"source", "figure", "error"}
Blocks == 1..Diagrams
Contents == [seq : Nat, text : Nat, dir : Nat, blocks : [Blocks -> Fate]]

Init ==
    /\ text = 0 /\ docDir = 0 /\ hasEditor = FALSE
    /\ renderSeq = 0 /\ renders = {}
    /\ doc = [seq |-> 0, text |-> 0, dir |-> 0, blocks |-> [b \in Blocks |-> "error"]]
    /\ prints = 0 /\ asked = {}

----------------------------------------------------------------------------
(* What starts a rendering *)

\* n times renderPreview() in one handler: each awaits the processor.
RenderPreview(n, t) ==
    /\ renderSeq' = renderSeq + n
    /\ renders' = renders \cup
        {[seq |-> s, text |-> t, stage |-> "process", block |-> 0] :
            s \in (renderSeq + 1)..(renderSeq + n)}

\* onChange: the text in the editor has changed.
Change ==
    /\ hasEditor /\ text < MaxTexts
    /\ text' = text + 1
    /\ RenderPreview(1, text')
    /\ UNCHANGED <<docDir, hasEditor, doc, prints, asked>>

\* onIncoming takes a text from the file: onChange renders it, unless this
\* makes the editor, and then onIncoming does.
IncomingTimes(n) ==
    /\ text < MaxTexts
    /\ text' = text + 1 /\ hasEditor' = TRUE
    /\ RenderPreview(n, text')
    /\ UNCHANGED <<docDir, doc, prints, asked>>

\* mutation: the making of the editor counts as a change
IncomingByEditor ==
    IF hasEditor THEN IncomingTimes(1)
    ELSE /\ text < MaxTexts /\ text' = text + 1 /\ hasEditor' = TRUE
         /\ UNCHANGED <<docDir, renderSeq, renders, doc, prints, asked>>

Incoming == IncomingTimes(IF hasEditor THEN 2 ELSE 1)

\* docContext: the folder of the document that is about to be shown.
DocContext ==
    /\ docDir < MaxFolders
    /\ docDir' = docDir + 1
    /\ RenderPreview(1, text)
    /\ UNCHANGED <<text, hasEditor, doc, prints, asked>>

\* The button: render once more, and ask Qt for a PDF.
SavePdf ==
    /\ prints < MaxPrints
    /\ prints' = prints + 1
    /\ RenderPreview(1, text)
    /\ asked' = asked \cup {text}
    /\ UNCHANGED <<text, docDir, hasEditor, doc>>

\* The file dialog is over: Qt prints what the page shows by now.
PrintToPdf ==
    /\ \E t \in asked : asked' = asked \ {t}
    /\ UNCHANGED <<text, docDir, hasEditor, renderSeq, renders, doc, prints>>

----------------------------------------------------------------------------
(* What goes on in a rendering *)

Latest(r) == r.seq = renderSeq

\* r goes on at the next of n diagrams, or ends.
NextOf(n, r) ==
    renders' = (renders \ {r}) \cup
        (IF r.block < n
         THEN {[r EXCEPT !.stage = "parse", !.block = @ + 1]} ELSE {})

\* mutation: one diagram too many
NextPastEnd(r) == NextOf(Diagrams + 1, r)

NextBlock(r) == NextOf(Diagrams, r)

\* The contents that r puts there: pictures are looked up in the folder of now,
\* diagrams are still source.
Resolved(r) ==
    [seq |-> r.seq, text |-> r.text, dir |-> docDir, blocks |-> [b \in Blocks |-> "source"]]

\* The processor has finished.
ProcessedIf(wins(_)) == \E r \in renders :
    /\ r.stage = "process"
    /\ IF wins(r)
       THEN doc' = Resolved(r) /\ NextBlock(r)
       ELSE renders' = renders \ {r} /\ UNCHANGED doc
    /\ UNCHANGED <<text, docDir, hasEditor, renderSeq, prints, asked>>

\* mutation: a stale rendering is not dropped
ProcessedAlways == ProcessedIf(LAMBDA r : TRUE)

Processed == ProcessedIf(Latest)

\* Diagram r.block is replaced in the contents that r has put there.
Replace(r, fate) ==
    doc' = IF doc.seq = r.seq THEN [doc EXCEPT !.blocks[r.block] = fate] ELSE doc

\* The diagram is faulty, or could not be drawn.
Fails == \E r \in renders :
    /\ r.stage \in {"parse", "draw"}
    /\ IF Latest(r) THEN Replace(r, "error") /\ NextBlock(r)
                    ELSE renders' = renders \ {r} /\ UNCHANGED doc
    /\ UNCHANGED <<text, docDir, hasEditor, renderSeq, prints, asked>>

Parsed == \E r \in renders :
    /\ r.stage = "parse"
    /\ renders' = (renders \ {r}) \cup
        (IF Latest(r) THEN {[r EXCEPT !.stage = "draw"]} ELSE {})
    /\ UNCHANGED <<text, docDir, hasEditor, renderSeq, doc, prints, asked>>

DrawnThen(next(_)) == \E r \in renders :
    /\ r.stage = "draw"
    /\ IF Latest(r) THEN Replace(r, "figure") /\ next(r)
                    ELSE renders' = renders \ {r} /\ UNCHANGED doc
    /\ UNCHANGED <<text, docDir, hasEditor, renderSeq, prints, asked>>

\* mutation: only the first diagram is drawn
DrawnOnce == DrawnThen(LAMBDA r : renders' = renders \ {r})

Drawn == DrawnThen(NextBlock)

----------------------------------------------------------------------------
Awaits == Processed \/ Fails \/ Parsed \/ Drawn
Next == Change \/ Incoming \/ DocContext \/ SavePdf \/ PrintToPdf \/ Awaits

Spec == Init /\ [][Next]_vars

\* What a rendering awaits comes to an end, for each of them.
FairSpec == Spec /\ WF_vars(Awaits)

----------------------------------------------------------------------------
(* Properties *)

\* Every variable has its type, and no two renderings under way share a number,
\* so that at most one of them is the latest.
TypeOK ==
    /\ text \in 0..MaxTexts /\ docDir \in 0..MaxFolders /\ hasEditor \in BOOLEAN
    /\ renderSeq \in Nat /\ prints \in 0..MaxPrints
    /\ \A r \in renders :
        /\ r.seq \in 1..renderSeq /\ r.text \in 0..text
        /\ r.stage \in {"process", "parse", "draw"} /\ r.block \in 0..Diagrams
    /\ \A r1, r2 \in renders : r1.seq = r2.seq => r1 = r2
    /\ doc \in Contents
    /\ asked \subseteq 0..text

\* When no rendering is under way the preview shows the text of now with the
\* pictures of its folder, and no diagram is left as source.
PreviewCurrent ==
    renders = {} =>
        /\ doc.text = text /\ doc.dir = docDir
        /\ \A b \in Blocks : doc.blocks[b] # "source"

\* The preview never goes back to an older rendering.
NeverBack == [][doc'.seq >= doc.seq]_vars

\* Once the changes stop the preview is right for good.
PreviewSettles == <>[](renders = {} /\ PreviewCurrent)

\* A PDF shows the text of the time of its request, or a later one.
PdfIsCurrent == [][\A t \in asked \ asked' : doc.text >= t]_vars
=============================================================================
