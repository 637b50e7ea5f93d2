----------------------------- MODULE MCChunker -----------------------------
(* All texts of a few paragraphs, short and long, and settings sensible and not. *)
EXTENDS Chunker

CONSTANTS MaxParagraphs, MaxWords, MaxChars

SmallParagraphs ==
  {p \in [words : 1..MaxWords, chars : 1..MaxChars] : p.chars >= 2 * p.words - 1}
SmallTexts == UNION {[1..n -> SmallParagraphs] : n \in 0..MaxParagraphs}

\* A .cfg has no negative numbers.
SomeSizes == {-1, 0, 1, 2, 7}
SomeOverlaps == {-1, 0, 1, 2}
=============================================================================
