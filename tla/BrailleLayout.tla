---------------------------- MODULE BrailleLayout ----------------------------
(***************************************************************************)
(* canvas/braille_layout.py: typesetting translated braille into lines of  *)
(* CellsPerLine cells and pages of LinesPerPage lines.                     *)
(*                                                                         *)
(* What liblouis makes of a run is given: its words, each the sequence of  *)
(* its cells.  A line is how far it is indented and the words on it, one   *)
(* blank between them.  A block is a kind and its words.                   *)
(***************************************************************************)
EXTENDS Words

CONSTANTS
    CellsPerLine,   \* cells_per_line, 40 on a BANA page
    LinesPerPage    \* lines_per_page, 25 on a BANA page

\* Beside the deepest indent, of two cells, a line has room for a word.
ASSUME PageAssumption ==
    CellsPerLine \in Nat /\ CellsPerLine > 2 /\ LinesPerPage \in Nat \ {0}

LineOf(indent, words) == [indent |-> indent, words |-> words]
Blank == LineOf(0, <<>>)

\* _BREAK_AFTER: where a transcriber divides a web address.
BreakAfter == {"_", "/", "4", "-", "="}

\* _INDENTS: of a block's first line and of its runover.
FirstIndent(kind) == IF kind \in {"paragraph", "figure"} THEN 2 ELSE 0
Runover(kind) == IF kind \in {"list_item", "table_row"} THEN 2 ELSE 0

\* The cells of a token that go on one line: up to its last break point, if
\* there is one, looked for one cell beyond the width.
Cut(token, width) ==
    LET marks == {i \in 2..Len(token) : i <= width + 1 /\ token[i] \in BreakAfter}
    IN  IF marks = {} THEN width ELSE Max(marks)

\* The lines of a token, from its i-th cell on.
BreakLongToken(token, width) ==
    LET From[i \in 1..Len(token)] ==
            LET rest == SubSeq(token, i, Len(token))
                cut == Cut(rest, width)
            IN  IF Len(rest) <= width THEN <<rest>>
                ELSE <<SubSeq(rest, 1, cut)>> \o (IF cut = Len(rest) THEN <<>> ELSE From[i + cut])
    IN  IF width < 1 \/ Len(token) <= width THEN <<token>> ELSE From[1]

\* The words of a block as they are put on lines, the over-long ones divided
\* for the deeper of the two indents.
Pieces(words, first, runover) ==
    FlattenSeq([i \in DOMAIN words |->
        BreakLongToken(words[i], CellsPerLine - Max({first, runover}))])

\* Mutant: the blank before a word is counted twice.
AddWordTooSoon(text, w) ==
    LET longer == [text.line EXCEPT !.words = Append(@, w)]
    IN  IF text.line.words = <<>> \/ Width(longer.words) + longer.indent < CellsPerLine
        THEN [text EXCEPT !.line = longer]
        ELSE [text EXCEPT !.done = Append(@, text.line), !.line = LineOf(text.runover, <<w>>)]

\* A piece is put on the line while it fits; one that fits on no line stands
\* alone.
AddWord(text, w) ==
    LET longer == [text.line EXCEPT !.words = Append(@, w)]
    IN  IF text.line.words = <<>> \/ Width(longer.words) + longer.indent <= CellsPerLine
        THEN [text EXCEPT !.line = longer]
        ELSE [text EXCEPT !.done = Append(@, text.line), !.line = LineOf(text.runover, <<w>>)]

\* _wrap: the lines that are done, and the one that is being filled.
Wrap(words, first, runover) ==
    LET pieces == Pieces(words, first, runover)
        text == FoldLeft(AddWord, [done |-> <<>>, line |-> LineOf(first, <<>>), runover |-> runover], pieces)
    IN  IF pieces = <<>> THEN <<>> ELSE Append(text.done, text.line)

\* _centre.
Centre(words) ==
    IF Width(words) >= CellsPerLine THEN Wrap(words, 0, 0)
    ELSE <<LineOf((CellsPerLine - Width(words)) \div 2, words)>>

\* rjust(width)[:width]: what does not fit on the line of an over-long label is cut
\* off; what is left of it stands there as one word.
RightAligned(words) ==
    LET label == Spelled(words)
    IN  IF Len(label) <= CellsPerLine THEN LineOf(CellsPerLine - Len(label), words)
        ELSE LineOf(0, <<SubSeq(label, 1, CellsPerLine)>>)

\* The lines of the blocks, in order: print page numbers to the right,
\* headings centred between blank lines, everything else wrapped.
SetBlock(lines, block) ==
    LET apart == IF lines # <<>> /\ Last(lines) # Blank THEN Append(lines, Blank) ELSE lines
    IN  IF block.kind = "page_number" THEN Append(lines, RightAligned(block.words))
        ELSE IF block.words = <<>> THEN lines
        ELSE IF block.kind = "heading" THEN apart \o Centre(block.words) \o <<Blank>>
        ELSE lines \o Wrap(block.words, FirstIndent(block.kind), Runover(block.kind))

\* A final heading's blank line is trimmed.
Lines(blocks) ==
    LET lines == FoldLeft(SetBlock, <<>>, blocks)
    IN  IF lines # <<>> /\ Last(lines) = Blank THEN Front(lines) ELSE lines

\* The number of a page; below ten it is one cell.
Numeral(n) == << <<ToString(n)>> >>

\* The lines of each page in turn, filled up with blank ones, and its number.
Pages(lines, usable) ==
    LET cuts == Cuts(lines, usable)
    IN  [n \in DOMAIN cuts |->
            cuts[n] \o [k \in 1..(usable - Len(cuts[n])) |-> Blank] \o <<RightAligned(Numeral(n))>>]

\* Mutant: the number takes the place of the page's last line.
PaginateOver(lines) ==
    [n \in DOMAIN Pages(lines, LinesPerPage) |->
        [Front(Pages(lines, LinesPerPage)[n]) EXCEPT ![LinesPerPage] = RightAligned(Numeral(n))]]

\* _paginate: the last line of each page is kept for its number.
Paginate(lines) == Pages(lines, Max({1, LinesPerPage - 1}))

\* layout_blocks.
LayoutBlocks(blocks) == Paginate(Lines(blocks))
=============================================================================
