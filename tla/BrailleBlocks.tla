---------------------------- MODULE BrailleBlocks ----------------------------
(***************************************************************************)
(* canvas/braille.py: the blocks of a document a transcriber would set,    *)
(* gathered while its HTML is parsed, and the page of braille they make.   *)
(* Both builders of the module are here: the one that feeds the layout,    *)
(* and the one that writes the XML the conformance tests read.             *)
(***************************************************************************)
EXTENDS Html, BrailleLayout

CONSTANTS
    Cells,          \* liblouis: the words of cells of every text, a function
    Described,      \* the note that stands for an image, by its alt text
    Undescribed     \* the note of an image without a description

ASSUME NotesAssumption ==
    /\ Cells \in [Texts -> Seq(Seq(STRING))]
    /\ Undescribed \in Texts
    /\ \A alt \in DOMAIN Described : Described[alt] \in Texts

NoBlock == [kind |-> "none", runs |-> <<>>]

Headings == {"h1", "h2", "h3", "h4", "h5", "h6"}
KindOf(tag) ==
    CASE tag \in Headings -> "heading"
      [] tag \in {"p", "blockquote", "figcaption"} -> "paragraph"
      [] tag = "li" -> "list_item"
      [] tag = "tr" -> "table_row"
      [] OTHER -> "none"

\* The note of an image; an alt that is missing or blank says nothing.
Note(alt) == IF alt \in {Missing, NoText} THEN Undescribed ELSE Described[alt]

\* _BlockBuilder: the blocks done, the depth of script and style, the block
\* being filled, and the images not yet announced.
Empty == [blocks |-> <<>>, skip |-> 0, current |-> NoBlock, alts |-> <<>>]

\* _close: a block nothing was put into is dropped.
CloseBlock(b) ==
    [b EXCEPT !.blocks = IF b.current.runs = <<>> THEN @ ELSE Append(@, b.current),
              !.current = NoBlock]
OpenBlock(b, kind) == [CloseBlock(b) EXCEPT !.current = [kind |-> kind, runs |-> <<>>]]

\* _flush_figure: every image held is announced once.
FlushFigure(b) ==
    [b EXCEPT !.blocks = @ \o [i \in DOMAIN b.alts |-> [kind |-> "figure", runs |-> <<Note(b.alts[i])>>]],
              !.alts = <<>>]

\* handle_starttag: an image is held until its figure closes.
HandleStart(b, tag, attr) ==
    CASE tag \in Unspoken -> [b EXCEPT !.skip = @ + 1]
      [] tag = "img" -> [b EXCEPT !.alts = Append(@, attr)]
      [] OTHER ->
            IF KindOf(tag) = "none" THEN b ELSE OpenBlock(b, KindOf(tag))

\* Mutant: the images of a figure are left for the end of the document.
HandleEndHolding(b, tag) ==
    CASE tag \in Unspoken -> [b EXCEPT !.skip = Max({0, @ - 1})]
      [] OTHER -> IF KindOf(tag) = "none" THEN b ELSE CloseBlock(b)

\* handle_endtag.
HandleEnd(b, tag) ==
    CASE tag \in Unspoken -> [b EXCEPT !.skip = Max({0, @ - 1})]
      [] tag = "figure" -> FlushFigure(CloseBlock(b))
      [] OTHER ->
            IF KindOf(tag) = "none" THEN b ELSE CloseBlock(b)

\* Mutant: a page mark starts a new block over the one being filled.
PutOver(b, piece) ==
    IF piece.page
    THEN [b EXCEPT !.blocks = Append(@, [kind |-> "page_number", runs |-> <<piece.text>>]),
                   !.current = [kind |-> "paragraph", runs |-> <<>>]]
    ELSE [b EXCEPT !.current.runs = Append(@, piece.text)]

\* A piece of text: a print page mark ends the block it stands in, has one of
\* its own, and what follows it is a paragraph.
Put(b, piece) ==
    IF piece.page
    THEN LET closed == CloseBlock(b)
         IN  OpenBlock([closed EXCEPT
                 !.blocks = Append(@, [kind |-> "page_number", runs |-> <<piece.text>>])], "paragraph")
    ELSE [b EXCEPT !.current.runs = Append(@, piece.text)]

\* handle_data, over _split_runs and _split_pages.
HandleData(b, pieces) ==
    IF b.skip > 0 THEN b
    ELSE FoldLeft(Put, IF b.current = NoBlock THEN OpenBlock(b, "paragraph") ELSE b, pieces)

Handle(b, here) ==
    CASE here.event = "open" -> HandleStart(b, here.tag, here.attr)
      [] here.event = "close" -> HandleEnd(b, here.tag)
      [] here.event = "data" -> HandleData(b, here.pieces)

\* build_blocks: fed the body, closed at its end, the title first.
BodyBlocks(body) ==
    FlushFigure(CloseBlock(FoldLeft(Handle, Empty, body))).blocks
TitleBlock(title) ==
    IF title = NoText THEN <<>> ELSE <<[kind |-> "heading", runs |-> <<title>>]>>
BuildBlocks(title, body) == TitleBlock(title) \o BodyBlocks(body)

\* The texts of some pieces, page labels among them.
TextsIn(pieces) == [k \in DOMAIN pieces |-> pieces[k].text]

\* _BrailleXmlBuilder, what it says under its markup: text as it comes, the
\* images held until their figure closes.
XmlHandle(x, here) ==
    CASE here.event = "data" ->
            IF x.skip > 0 THEN x
            ELSE [x EXCEPT !.said = @ \o TextsIn(here.pieces)]
      [] here.event = "open" /\ here.tag \in Unspoken -> [x EXCEPT !.skip = @ + 1]
      [] here.event = "close" /\ here.tag \in Unspoken -> [x EXCEPT !.skip = Max({0, @ - 1})]
      [] Opens(here, "img") -> [x EXCEPT !.alts = Append(@, here.attr)]
      [] here = Close("figure") ->
            [x EXCEPT !.said = @ \o [i \in DOMAIN x.alts |-> Note(x.alts[i])], !.alts = <<>>]
      [] OTHER -> x
BrailleXml(body) ==
    LET end == FoldLeft(XmlHandle, [said |-> <<>>, skip |-> 0, alts |-> <<>>], body)
    IN  end.said \o [i \in DOMAIN end.alts |-> Note(end.alts[i])]

\* render_brf: every run translated, the runs of a block joined by a blank, and
\* all of it set.
Translated(blocks) ==
    [i \in DOMAIN blocks |->
        [kind |-> blocks[i].kind,
         words |-> FlattenSeq([k \in DOMAIN blocks[i].runs |-> Cells[blocks[i].runs[k]]])]]
RenderBrf(title, body) == LayoutBlocks(Translated(BuildBlocks(title, body)))
=============================================================================
