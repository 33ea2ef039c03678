------------------------------- MODULE Formats -------------------------------
(***************************************************************************)
(* One document in all the shapes it is given: the page of braille         *)
(* (canvas/braille.py, canvas/braille_layout.py), the text that is read    *)
(* aloud (canvas/alt_formats.py), and the report, score and colour of its  *)
(* accessibility (canvas/wcag_checks.py, api/canvas_panorama.py).          *)
(*                                                                         *)
(* A document is a title and a sequence of parts.  Reflow's markdown makes *)
(* the first ones; then the instructor's edits add parts at its end and    *)
(* repair the ones it has.  The dial shows a score that was computed of    *)
(* the page as it was once: neither edit touches the cache.                *)
(***************************************************************************)
EXTENDS BrailleBlocks, Accessibility

CONSTANTS
    Parts,          \* what documents are made of: sequences of tags and text
    Titles,         \* the titles documents have
    Repairs,        \* pairs of parts, a defect and what an instructor makes of it
    ChunkSize,      \* how much text is sent to be spoken at once, 2800
    MaxConverted,   \* bound: parts Reflow's markdown makes
    MaxParts        \* bound: parts in all

\* What a parser reports of the documents there are.
Alts == DOMAIN Described \union {Missing, NoText}
Events ==
    [event : {"open"}, tag : {"img"}, attr : Alts]
        \union [event : {"open"}, tag : Tags \ {"img"}, attr : Attrs]
        \union [event : {"close"}, tag : Tags]
        \union [event : {"data"}, pieces : Seq([text : Texts, page : BOOLEAN])]

\* What an instructor makes of an element: an image gets a description, or one
\* that is long enough; a table's header cells come, or say what they govern; a
\* link or a button gets a name; a heading 1 is made a heading 2.
Better(tag, old, new) ==
    CASE tag = "img" -> new \in Texts /\ (old = Missing \/ Width(Letters[new]) >= 3)
      [] tag = "table" -> <<old, new>> \in {<<"none", "unscoped">>, <<"none", "scoped">>, <<"unscoped", "scoped">>}
      [] tag = "a" -> new = "named" \/ (old = NoText /\ new = "generic")
      [] tag = "button" -> new = "named"
      [] OTHER -> FALSE
Mended(e, f) ==
    \/ f = e
    \/ e.event = "open" /\ f.event = "open" /\ e.tag = f.tag /\ Better(e.tag, e.attr, f.attr)
    \/ Opens(e, "h1") /\ Opens(f, "h2")
    \/ e = Close("h1") /\ f = Close("h2")

ASSUME DocumentsAssumption ==
    /\ Parts \subseteq Seq(Events) \ {<<>>}
    /\ \A repair \in Repairs :
          /\ repair[2] \in Seq(Events) \ {<<>>} /\ Len(repair[1]) = Len(repair[2])
          /\ \A i \in DOMAIN repair[2] : Mended(repair[1][i], repair[2][i])
    /\ Titles \subseteq Texts \union {NoText}
    /\ ChunkSize \in Nat \ {0} /\ {MaxConverted, MaxParts} \subseteq Nat

VARIABLES
    title,
    body,           \* the parts of the page
    dial            \* the score of the dial: computed by a request, then cached;
                    \* history: how many parts the page had when it was computed

vars == <<title, body, dial>>

NoDial == [at |-> "none", score |-> 0, parts |-> 0]

TypeOK ==
    /\ title \in Titles /\ body \in Seq(Seq(Events) \ {<<>>})
    /\ dial \in [at : {"none", "computed", "cached"}, score : Nat, parts : Nat]

Report(name, page) == RunWcagChecks(FullDocument(name, page))

\* What _compute_score makes of the page as it is.
ScoreOf(name, parts) == Score(Report(name, FlattenSeq(parts)))

Init ==
    /\ title \in Titles
    /\ body \in {[i \in DOMAIN parts |-> Rendered(parts[i])] :
                    parts \in BoundedSeq(Parts, MaxConverted)}
    /\ dial = NoDial

\* put_edit: the instructor saves the page with one more part.
Add(part) ==
    /\ Len(body) < MaxParts
    /\ body' = Append(body, part)
    /\ UNCHANGED <<title, dial>>

\* put_edit: the instructor saves the page with a defect repaired.
Repair(i, repair) ==
    /\ body[i] = repair[1]
    /\ body' = [body EXCEPT ![i] = repair[2]]
    /\ UNCHANGED <<title, dial>>

\* _build_score_payload: nothing is cached, so the score is computed; edits may be
\* saved before it is cached.
ComputeScore ==
    /\ dial.at = "none"
    /\ dial' = [at |-> "computed", score |-> ScoreOf(title, body), parts |-> Len(body)]
    /\ UNCHANGED <<title, body>>

CacheScore ==
    /\ dial.at = "computed"
    /\ dial' = [dial EXCEPT !.at = "cached"]
    /\ UNCHANGED <<title, body>>

\* A day has passed, or put_job dropped the score.
DropScore ==
    /\ dial.at = "cached"
    /\ dial' = NoDial
    /\ UNCHANGED <<title, body>>

Next ==
    \/ \E part \in Parts : Add(part)
    \/ \E i \in DOMAIN body, repair \in Repairs : Repair(i, repair)
    \/ ComputeScore \/ CacheScore \/ DropScore

Spec == Init /\ [][Next]_vars

(***************************************************************************)
(* The text that is read aloud                                             *)
(***************************************************************************)
\* html_to_plain_text: the words of all text between tags.
PlainText(page) ==
    LET pieces == FlattenSeq([i \in DOMAIN page |-> IF IsData(page[i]) THEN page[i].pieces ELSE <<>>])
    IN  FlattenSeq([i \in DOMAIN pieces |-> Letters[pieces[i].text]])

\* Text split behind every full stop.
Extend(sentences, w) ==
    IF sentences = <<>> \/ Last(Last(Last(sentences))) = "."
    THEN Append(sentences, <<w>>)
    ELSE Append(Front(sentences), Append(Last(sentences), w))
Sentences(text) == FoldLeft(Extend, <<>>, text)

\* A sentence no call can take, cut at every ChunkSize letters.  Letters are
\* counted here, with a blank behind every word but the last; a cut that falls
\* on a blank takes it along.
HardSplit(s) ==
    LET cuts == Cuts(Spelled(s), ChunkSize)
    IN  [k \in DOMAIN cuts |-> <<cuts[k]>>]

\* The calls that are full, and the one being filled.
NoCalls == [out |-> <<>>, cur |-> <<>>]
Flushed(c) == IF c.cur = <<>> THEN c.out ELSE Append(c.out, c.cur)

\* Mutant: the room for the blank between two sentences is forgotten.
TakeTooMuch(c, s) ==
    IF Width(c.cur) + Width(s) <= ChunkSize
    THEN [c EXCEPT !.cur = @ \o s]
    ELSE IF Width(s) <= ChunkSize THEN [out |-> Flushed(c), cur |-> s]
    ELSE [out |-> Flushed(c) \o HardSplit(s), cur |-> <<>>]

\* Sentences are put together while they fit.
Take(c, s) ==
    IF Width(c.cur) + Width(s) + 1 <= ChunkSize
    THEN [c EXCEPT !.cur = @ \o s]
    ELSE IF Width(s) <= ChunkSize THEN [out |-> Flushed(c), cur |-> s]
    ELSE [out |-> Flushed(c) \o HardSplit(s), cur |-> <<>>]

\* _chunks.
Chunks(text) == Flushed(FoldLeft(Take, NoCalls, Sentences(text)))

\* render_audio_mp3: what is sent to be spoken, call by call.
Narration(page) == Chunks(PlainText(page))

(***************************************************************************)
(* What the braille says                                                   *)
(***************************************************************************)
Page == FlattenSeq(body)

\* Whether the text at a place is inside a script or a style: some of the tags
\* right before it open more of them than they close.
Hushed(page, i) ==
    \E j \in 1..(i - 1) :
        Cardinality({k \in j..(i - 1) : page[k].event = "open" /\ page[k].tag \in Unspoken})
            > Cardinality({k \in j..(i - 1) : page[k].event = "close" /\ page[k].tag \in Unspoken})

\* What a reader is to be told of a page, in the order of the document.
Spoken(page) ==
    FlattenSeq([i \in DOMAIN page |->
        IF IsData(page[i]) /\ ~Hushed(page, i) THEN TextsIn(page[i].pieces) ELSE <<>>])
NotesOf(page) ==
    FlattenSeq([i \in DOMAIN page |-> IF Opens(page[i], "img") THEN <<Note(page[i].attr)>> ELSE <<>>])

\* What some blocks say: all of them, the figures, the others.
TextsOf(blocks) == FlattenSeq([i \in DOMAIN blocks |-> blocks[i].runs])
FigureTexts(blocks) ==
    FlattenSeq([i \in DOMAIN blocks |-> IF blocks[i].kind = "figure" THEN blocks[i].runs ELSE <<>>])
OtherTexts(blocks) ==
    FlattenSeq([i \in DOMAIN blocks |-> IF blocks[i].kind = "figure" THEN <<>> ELSE blocks[i].runs])

\* Letters without blanks.
Unspaced(letters) ==
    FlattenSeq([i \in DOMAIN letters |-> IF letters[i] = " " THEN <<>> ELSE <<letters[i]>>])

\* A braille reader is told every word of the page, in the order of the page,
\* however tags, page marks and figures cut it into blocks
\* (braille.py:308-346): nothing is said twice and nothing is lost.  The XML the
\* conformance tests read says the same (braille.py:273-279, 398-404).
ReadsInOrder ==
    LET blocks == BodyBlocks(Page)
    IN  /\ OtherTexts(blocks) = Spoken(Page)
        /\ TextsOf(blocks) = BrailleXml(Page)

\* Every image is announced, once, those without a description too
\* (braille.py:348-362, "announced, never silently dropped"), and before what
\* comes after its figure: nothing later on the page changes the blocks up to
\* the figure's end (braille.py:326-333).
ImagesAnnounced ==
    LET whole == BodyBlocks(Page)
    IN  /\ FigureTexts(whole) = NotesOf(Page)
        /\ \A n \in DOMAIN body :
            Last(body[n]) = Close("figure") =>
                LET sofar == BodyBlocks(FlattenSeq(SubSeq(body, 1, n)))
                IN  sofar = SubSeq(whole, 1, Len(sofar))

\* The words of a block that are to be on the pages: all of them, but of the label
\* of a print page what fits on one line.
Kept(block) ==
    LET label == Spelled(block.words)
    IN  IF block.kind = "page_number" /\ Len(label) > CellsPerLine
        THEN <<SubSeq(label, 1, CellsPerLine)>> ELSE block.words

\* Every cell of the translation is on the pages, in order: none is lost where
\* a line is wrapped, a word divided or a page filled, nor where a label is put to
\* the right, but for the end of one no line can hold (braille_layout.py:111-222).
NoCellLost ==
    LET pages == RenderBrf(title, Page)
        lines == FlattenSeq([n \in DOMAIN pages |-> Front(pages[n])])
        said == Translated(BuildBlocks(title, Page))
    IN  Ink(FlattenSeq([i \in DOMAIN lines |-> lines[i].words]))
            = Ink(FlattenSeq([i \in DOMAIN said |-> Kept(said[i])]))

Length(line) == line.indent + Width(line.words)

\* tests/unit/test_braille_layout.py:121 asserts that no line ever exceeds the
\* cell width, "the whole format depends on this".
LinesFit ==
    \A line \in UNION {ToSet(page) : page \in ToSet(RenderBrf(title, Page))} :
        Length(line) <= CellsPerLine

\* A block takes as few lines as its words allow under its indents: no other
\* division of them into lines that fit is shorter.  A line is one cell too long
\* at most, and that only where a word was divided behind a break point
\* (braille_layout.py:85-147).
WrapIsShortest ==
    \A block \in ToSet(Translated(BuildBlocks(title, Page))) :
        LET first == FirstIndent(block.kind)
            runover == Runover(block.kind)
            pieces == Pieces(block.words, first, runover)
            lines == Wrap(block.words, first, runover)
            EndOf(i, starts) == Min({j \in starts : j > i} \union {Len(pieces) + 1}) - 1
            Fits(i, j) == i = j \/ Width(SubSeq(pieces, i, j)) + (IF i = 1 THEN first ELSE runover)
                                    <= CellsPerLine
        IN  /\ \A starts \in SUBSET (2..Len(pieces)) :
                (\A i \in starts \union {1} : Fits(i, EndOf(i, starts)))
                    => Len(lines) <= Cardinality(starts) + 1
            /\ \A line \in ToSet(lines) :
                \/ Length(line) <= CellsPerLine
                \/ Length(line) = CellsPerLine + 1 /\ Last(Last(line.words)) \in BreakAfter

\* No call to the voice is longer than it takes, none is empty, a sentence is
\* cut only when it is itself too long, and together they say the whole text
\* (alt_formats.py:210-233, 263-289).
NarrationIsWhole ==
    LET text == PlainText(Page)
        calls == Narration(Page)
    IN  /\ \A k \in DOMAIN calls : Width(calls[k]) \in 1..ChunkSize
        /\ Unspaced(Ink(FlattenSeq(calls))) = Ink(text)
        /\ \A s \in ToSet(Sentences(text)) :
            Width(s) <= ChunkSize =>
                \E k \in DOMAIN calls : \E i \in 1..(Len(calls[k]) - Len(s) + 1) :
                    SubSeq(calls[k], i, i + Len(s) - 1) = s

(***************************************************************************)
(* The score and the dial                                                  *)
(***************************************************************************)

\* While the dial shows the darkest green, and nothing was added to the page since
\* its score was computed, the approval gate can hold only an unconfirmed item of
\* the checklist against the page, though the score is cached for a day and is of
\* the page before its repairs (canvas_panorama.py:647-660, 866-908, 1524-1552).
DarkGreenIsPublishable ==
    dial.at = "cached" /\ SeverityOf(dial.score) = "dark-green" /\ dial.parts = Len(body) =>
        \A confirmed \in SUBSET ChecklistItems :
            GateBlocked(Report(title, Page), {}, confirmed) => confirmed # ChecklistItems

\* A repair never moves the computed score down, though the checks of one element
\* depend on others around it: "faculty edits move the number"
\* (canvas_panorama.py:866-873).  And more text never hides a defect: what is
\* added to a page moves the score down or leaves it.
ScoreFollowsEdits ==
    [][LET before == ScoreOf(title, body)
           after == ScoreOf(title', body')
       IN  IF Len(body') = Len(body) THEN after >= before ELSE after <= before]_vars
=============================================================================
