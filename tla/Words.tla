-------------------------------- MODULE Words --------------------------------
(***************************************************************************)
(* Text as the renderers of this code see it: a sequence of words, each    *)
(* the sequence of its letters or cells, one blank between two words.      *)
(***************************************************************************)
EXTENDS Integers, SequencesExt

\* The letters of the words, without the blanks.
Ink(words) == FlattenSeq(words)

\* The letters or cells that words take, the blanks between them counted.
Width(words) ==
    IF words = <<>> THEN 0
    ELSE Len(Ink(words)) + Len(words) - 1

\* The words as one string: a blank behind every word but the last.
Spelled(words) ==
    FlattenSeq([i \in DOMAIN words |-> IF i = Len(words) THEN words[i] ELSE Append(words[i], " ")])

\* A sequence cut at every size elements.
Cuts(seq, size) ==
    [k \in 1..((Len(seq) + size - 1) \div size) |->
        SubSeq(seq, (k - 1) * size + 1, Min({k * size, Len(seq)}))]
=============================================================================
