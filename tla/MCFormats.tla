------------------------------ MODULE MCFormats ------------------------------
(***************************************************************************)
(* Small documents on a narrow page: six cells to a line, three lines to a *)
(* page, twelve letters to a call of the voice.                            *)
(***************************************************************************)
EXTENDS Formats

\* ab cd.   a short sentence;        abcd/efg   an address with a break point
\* efghijk  a word nothing breaks;   p7         the label of a print page
Ab == <<"a", "b">>
Cd == <<"c", "d", ".">>
MCLetters ==
    "words"  :> <<Ab, Cd>> @@
    "site"   :> << <<"a", "b", "c", "d", "/", "e", "f", "g">> >> @@
    "long"   :> << <<"e", "f", "g", "h", "i", "j", "k">>, Ab, Ab, Cd>> @@
    "late"   :> <<Ab, <<"e", "f", "g", "h", "i", "j", "k">> >> @@
    "p7"     :> << <<"p", "7">> >> @@
    "rule"   :> << <<"{", "}">> >> @@
    "ox"     :> << <<"o", "x">> >> @@
    "chart"  :> << <<"c", "h", "a", "r", "t">> >> @@
    "noteOx" :> << <<"i">>, <<"o", "x">> >> @@
    "noteCh" :> << <<"i">>, <<"c", "h", "a", "r", "t">> >> @@
    "noNote" :> << <<"i", "?">> >> @@
    "Plan"   :> << <<"P", "l", "a", "n">>, <<"o", "n", "e">> >>
\* Contracted braille: ch and ar are one cell, a capital has a sign before it.
MCCells ==
    [MCLetters EXCEPT !["chart"] = << <<"*", ">", "t">> >>,
                      !["noteCh"] = << <<"i", "3">>, <<"*", ">", "t">> >>,
                      !["Plan"] = << <<",", "p", "l", "a", "n">>, <<"o", "n", "e">> >>]
MCDescribed == "ox" :> "noteOx" @@ "chart" :> "noteCh"

Element(tag, text) == <<Open(tag), Data(<<Say(text)>>), Close(tag)>>
Image(alt) == <<Open("p"), Img(alt), Close("p")>>
Figure(alt) == <<Open("figure"), Img(alt), Close("figure")>>
Captioned(alt) ==
    <<Open("figure"), Img(alt), Open("figcaption"), Data(<<Say("words")>>), Close("figcaption"), Close("figure")>>
Inline(alt) == <<Open("p"), Data(<<Say("words")>>), Img(alt), Close("p")>>
Loose(alt) == <<Open("figure"), Img(alt), Data(<<Say("words")>>), Close("figure")>>
Link(name) == <<Open("p"), OpenWith("a", name), Data(<<Say("words")>>), Close("a"), Close("p")>>
\* A link without text, named or not by an aria-label.
Bare(name) == <<Open("p"), OpenWith("a", name), Close("a"), Close("p")>>
Table(headers) ==
    <<OpenWith("table", headers), Open("tr"), Data(<<Say("words")>>), Data(<<Say("p7")>>), Close("tr"), Close("table")>>

MCParts ==
    {Element("h1", "words"), Element("h3", "words"),
     Element("p", "long"), Element("p", "site"), Element("li", "late"), Element("style", "rule"),
     <<Open("p"), Data(<<Say("words"), PageMark("p7"), Say("words"), PageMark("site")>>), Close("p")>>,
     <<Data(<<Say("words")>>)>>,
     Image(Missing), Captioned(NoText), Captioned("ox"), Inline("chart"), Loose("chart"),
     Bare(NoText), Link("generic"),
     Table("none"), Table("unscoped"),
     <<Open("button"), Close("button")>>, Element("font", "words")}

MCRepairs ==
    {<<Element("h1", "words"), Element("h2", "words")>>,
     <<Figure(Missing), Figure("ox")>>, <<Image(Missing), Image("ox")>>,
     <<Captioned("ox"), Captioned("chart")>>,
     <<Bare(NoText), Bare("named")>>,
     <<Link("generic"), Link("named")>>,
     <<Table("none"), Table("unscoped")>>, <<Table("unscoped"), Table("scoped")>>}
=============================================================================
