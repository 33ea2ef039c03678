-------------------------------- MODULE Html --------------------------------
(***************************************************************************)
(* The HTML of a converted document, as its readers see it: the sequence   *)
(* of tags and text a parser reports.  canvas/markdown_to_html.py makes it *)
(* of Reflow's markdown; canvas/alt_formats.py wraps it into a document.   *)
(*                                                                         *)
(* A text is a name; CONSTANT Letters says which words it is made of.      *)
(***************************************************************************)
EXTENDS Words

CONSTANTS
    Letters,    \* the words of every text, a function
    NoText,     \* an empty title, alt or link text
    Missing     \* an alt attribute that is not there

Texts == DOMAIN Letters
ASSUME TextsAssumption ==
    \A text \in Texts : Letters[text] \in Seq(Seq(STRING \ {" "}) \ {<<>>})

\* The tags some reader of a page heeds, and what their attributes say.
Tags ==
    {"html", "title", "h1", "h2", "h3", "h4", "h5", "h6", "p", "blockquote", "figure", "img",
     "figcaption", "li", "table", "tr", "a", "button", "font", "script", "style"}
Values == Texts \union {"en", "generic", "named", "none", "unscoped", "scoped"}
Attrs == Values \union {NoText}
ASSUME NothingAssumption == NoText \notin Values /\ Missing \notin Attrs

\* What a parser reports: a tag opened, with the attribute that matters of
\* it; a tag closed; text, in pieces, one of them possibly a [Page n] mark.
OpenWith(tag, attr) == [event |-> "open", tag |-> tag, attr |-> attr]
Open(tag) == OpenWith(tag, NoText)
Close(tag) == [event |-> "close", tag |-> tag]
Img(alt) == OpenWith("img", alt)
Data(pieces) == [event |-> "data", pieces |-> pieces]
Say(text) == [text |-> text, page |-> FALSE]
PageMark(label) == [text |-> label, page |-> TRUE]

Opens(event, tag) == event.event = "open" /\ event.tag = tag
IsData(event) == event.event = "data"

\* Script and style: their text is not the document's.
Unspoken == {"script", "style"}

\* _promote_standalone_images_to_figures: a paragraph that is one image.
Promoted(part) ==
    IF Len(part) = 3 /\ Opens(part[1], "p") /\ Opens(part[2], "img") /\ part[3] = Close("p")
    THEN <<Open("figure"), part[2], Close("figure")>>
    ELSE part

\* _add_table_header_scopes: a table's attr says what its header cells are.
HeadersScoped(part) ==
    [i \in DOMAIN part |->
        IF Opens(part[i], "table") /\ part[i].attr = "unscoped"
        THEN OpenWith("table", "scoped") ELSE part[i]]

\* render: what Reflow's markdown becomes.
Rendered(part) == HeadersScoped(Promoted(part))

\* html_full_document: the language, the title and a heading that says it are
\* always there, whatever the body.
FullDocument(title, body) ==
    <<OpenWith("html", "en"), OpenWith("title", title), Open("h1"), Data(<<Say(title)>>), Close("h1")>> \o body
=============================================================================
