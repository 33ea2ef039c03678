---------------------------- MODULE Accessibility ----------------------------
(***************************************************************************)
(* canvas/wcag_checks.py: the automated accessibility checks of a page,    *)
(* and what api/canvas_panorama.py makes of their report: the score and    *)
(* colour of the dial, and the gate an approval has to pass.               *)
(***************************************************************************)
EXTENDS Html, FiniteSets

Severities == {"error", "warning", "info"}
Finding(rule, severity) == [rule |-> rule, severity |-> severity]

\* What every element of one kind is found to lack, in document order.
OfEach(page, tag, Check(_)) ==
    FlattenSeq([i \in DOMAIN page |-> IF Opens(page[i], tag) THEN Check(page[i].attr) ELSE <<>>])

\* The language of the page, and its title.
LangFindings(page) ==
    IF page # <<>> /\ Opens(page[1], "html") /\ page[1].attr # NoText THEN <<>>
    ELSE <<Finding("lang-attribute-missing", "error")>>
TitleFindings(page) ==
    LET titles == {i \in DOMAIN page : Opens(page[i], "title")}
        first == page[Min(titles)]
    IN  IF titles = {} \/ first.attr = NoText THEN <<Finding("title-missing", "error")>>
        ELSE IF Width(Letters[first.attr]) < 3 THEN <<Finding("title-too-short", "warning")>>
        ELSE <<>>

Level(tag) == CASE tag = "h1" -> 1 [] tag = "h2" -> 2 [] tag = "h3" -> 3
                [] tag = "h4" -> 4 [] tag = "h5" -> 5 [] tag = "h6" -> 6 [] OTHER -> 0
Levels(page) ==
    FlattenSeq([i \in DOMAIN page |->
        IF page[i].event = "open" /\ Level(page[i].tag) > 0 THEN <<Level(page[i].tag)>> ELSE <<>>])

\* Whether there are headings, and one that is the page's title.
HeadingFindings(page) ==
    LET levels == Levels(page)
        h1s == {i \in DOMAIN levels : levels[i] = 1}
    IN  IF levels = <<>> THEN <<Finding("no-headings", "error")>>
        ELSE IF h1s = {} THEN <<Finding("no-h1", "warning")>>
        ELSE IF Cardinality(h1s) > 1 THEN <<Finding("multiple-h1", "warning")>>
        ELSE <<>>

\* A heading may go one level deeper than the one before it.
SkipFindings(page) ==
    LET levels == Levels(page)
    IN  FlattenSeq([i \in DOMAIN levels |->
            IF i > 1 /\ levels[i] > levels[i - 1] + 1
            THEN <<Finding("heading-level-skip", "warning")>> ELSE <<>>])

\* Mutant: an image without the attribute passes for a decorative one.
ImageFindingLenient(alt) ==
    CASE alt \in {Missing, NoText} -> <<Finding("img-decorative-needs-confirm", "info")>>
      [] OTHER -> IF Width(Letters[alt]) < 3 THEN <<Finding("img-alt-too-short", "warning")>> ELSE <<>>

\* An image says what it shows, or says that it is decoration.
ImageFinding(alt) ==
    CASE alt = Missing -> <<Finding("img-alt-missing", "error")>>
      [] alt = NoText -> <<Finding("img-decorative-needs-confirm", "info")>>
      [] OTHER -> IF Width(Letters[alt]) < 3 THEN <<Finding("img-alt-too-short", "warning")>> ELSE <<>>

\* A table's header cells are there, and say what they govern.  The caption
\* no table here has is an info of every table.
TableFinding(headers) ==
    (CASE headers = "none" -> <<Finding("table-missing-th", "error")>>
       [] headers = "unscoped" -> <<Finding("table-th-needs-scope", "warning")>>
       [] OTHER -> <<>>)
    \o <<Finding("table-no-caption", "info")>>

\* A link has a name, and one that says where it leads.
LinkFinding(name) ==
    CASE name = NoText -> <<Finding("link-name-missing", "error")>>
      [] name = "generic" -> <<Finding("link-generic-text", "warning")>>
      [] OTHER -> <<>>

\* Buttons and inputs have a name; colour is not set with font elements.
ControlFinding(name) ==
    IF name = NoText THEN <<Finding("control-name-missing", "error")>> ELSE <<>>
FontFindings(page) ==
    IF \E i \in DOMAIN page : Opens(page[i], "font")
    THEN <<Finding("font-element-present", "warning")>> ELSE <<>>

\* run_wcag_checks.
RunWcagChecks(page) ==
    LangFindings(page) \o TitleFindings(page)
    \o HeadingFindings(page) \o SkipFindings(page)
    \o OfEach(page, "img", ImageFinding)
    \o OfEach(page, "table", TableFinding)
    \o OfEach(page, "a", LinkFinding)
    \o OfEach(page, "button", ControlFinding)
    \o FontFindings(page)

\* _finalize: how many findings of a severity.
Count(report, severity) == Cardinality({i \in DOMAIN report : report[i].severity = severity})

\* Mutant: an error costs no more than the gauge's darkest colour forgives.
ScoreLenient(report) ==
    LET left == 100 - 8 * Count(report, "error") - 3 * Count(report, "warning")
    IN  IF left < 0 THEN 0 ELSE left

\* _accessibility_score_from_wcag: 12 for an error, 3 for a warning.
Score(report) ==
    LET left == 100 - 12 * Count(report, "error") - 3 * Count(report, "warning")
    IN  IF left < 0 THEN 0 ELSE left

\* severity_of.
SeverityOf(score) ==
    CASE score >= 90 -> "dark-green"
      [] score < 90 /\ score >= 67 -> "green"
      [] score < 67 /\ score >= 33 -> "amber"
      [] OTHER -> "red"

\* approve_job, when require_wcag_gate is set: an error nobody waived stops it, and
\* so does an item of the checklist the reviewer has not confirmed.
ChecklistItems == {"headings", "alt_text", "tables", "reading_order"}
GateBlocked(report, waivers, confirmed) ==
    \/ \E i \in DOMAIN report : report[i].severity = "error" /\ report[i].rule \notin waivers
    \/ ~(ChecklistItems \subseteq confirmed)
=============================================================================
