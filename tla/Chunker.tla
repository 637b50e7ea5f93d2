------------------------------- MODULE Chunker -------------------------------
(***************************************************************************)
(* RecursiveChunker.chunk, which cuts the text of a document version into  *)
(* the chunks that become rows of document_chunks                          *)
(* (backend/services/knowledge/chunking.py), one step per turn of its      *)
(* loops.                                                                  *)
(*                                                                         *)
(* A text is its paragraphs, a paragraph its number of words and of        *)
(* characters, a word its place.  Short paragraphs are gathered in a       *)
(* buffer, whose size is measured in characters; a paragraph that does not *)
(* fit is cut into overlapping pieces, whose size is measured in words.    *)
(***************************************************************************)
EXTENDS Integers, Sequences

CONSTANTS
  Texts,      \* texts, as sequences of paragraphs
  Sizes,      \* settings.knowledge_chunk_size, an int that nothing validates
  Overlaps    \* settings.knowledge_chunk_overlap, likewise

\* Paragraphs are stripped, and words are set apart by at least one character.
Paragraph == {p \in [words : Nat \ {0}, chars : Nat] : p.chars >= 2 * p.words - 1}

ASSUME ChunkerAssumption ==
  Texts \subseteq Seq(Paragraph) /\ Sizes \subseteq Int /\ Overlaps \subseteq Int

VARIABLES
  paragraphs, chunk_size, chunk_overlap,  \* the arguments
  pc,
  at,           \* the paragraph looked at, from 1
  buffer,       \* the words of the buffer
  length,       \* its characters
  buffer_start_paragraph,
  start,        \* the first word of the next piece, from 0
  chunk_index,
  chunks        \* the chunks so far

arguments == <<paragraphs, chunk_size, chunk_overlap>>
gathered == <<buffer, length, buffer_start_paragraph>>
vars == <<arguments, pc, at, gathered, start, chunk_index, chunks>>

Word == Nat \X Nat

\* page_number is the number of a paragraph; offset is that of a word in it.
Chunk == [chunk_index : Nat, page_number : Nat, offset : Nat, words : SUBSET Word]

TypeOK ==
  /\ paragraphs \in Texts /\ chunk_size \in Sizes /\ chunk_overlap \in Overlaps
  /\ pc \in {"gather", "split", "done"}
  /\ at \in 1..Len(paragraphs) + 1
  /\ buffer \subseteq Word /\ length \in Nat
  /\ buffer_start_paragraph \in 1..Len(paragraphs) + 1
  /\ start \in Nat /\ chunk_index \in Nat
  /\ chunks \subseteq Chunk

Init ==
  /\ paragraphs \in Texts /\ chunk_size \in Sizes /\ chunk_overlap \in Overlaps
  /\ pc = "gather" /\ at = 1
  /\ buffer = {} /\ length = 0 /\ buffer_start_paragraph = 1
  /\ start = 0 /\ chunk_index = 0 /\ chunks = {}

-----------------------------------------------------------------------------
WordsOf(p) == {p} \X (0..paragraphs[p].words - 1)

\* The buffer with the next paragraph, after an empty line.
Candidate == (IF length = 0 THEN 0 ELSE length + 2) + paragraphs[at].chars

\* Mutant: every paragraph that is gathered becomes the first.
FirstOfBufferLast == at

FirstOfBuffer == IF length = 0 THEN at ELSE buffer_start_paragraph

\* finalize_buffer: an empty buffer makes no chunk.
Finalized ==
  IF length = 0 THEN {}
  ELSE {[chunk_index |-> chunk_index, page_number |-> buffer_start_paragraph,
         offset |-> 0, words |-> buffer]}

\* Mutant: the index moves on after pieces only.
AfterBufferSame == chunk_index

\* The index moves on whether or not there was a chunk.
AfterBuffer == chunk_index + 1

\* Mutants: the pieces move back when they overlap by more than their size; an
\* overlap as large as a chunk keeps the loop where it is.
StrideBackwards == chunk_size - chunk_overlap
StrideUnbounded ==
  IF chunk_size >= chunk_overlap THEN chunk_size - chunk_overlap ELSE 1

Stride == IF chunk_size > chunk_overlap THEN chunk_size - chunk_overlap ELSE 1

\* Where the slice of a piece ends: an end before the first word counts from the last.
PieceEnd ==
  IF start + chunk_size >= 0 THEN start + chunk_size
  ELSE start + chunk_size + paragraphs[at].words

Piece ==
  [chunk_index |-> chunk_index, page_number |-> at, offset |-> start,
   words |-> {w \in WordsOf(at) : start <= w[2] /\ w[2] < PieceEnd}]

\* A piece without words makes no chunk.
Pieces == IF Piece.words = {} THEN {} ELSE {Piece}

\* Mutant: what is gathered last is forgotten.
RemainderForgotten == {}

Remainder == Finalized

-----------------------------------------------------------------------------
Gather ==
  /\ pc = "gather" /\ at <= Len(paragraphs)
  /\ Candidate <= chunk_size
  /\ buffer' = buffer \cup WordsOf(at)
  /\ length' = Candidate
  /\ buffer_start_paragraph' = FirstOfBuffer
  /\ at' = at + 1
  /\ UNCHANGED <<arguments, pc, start, chunk_index, chunks>>

Spill ==
  /\ pc = "gather" /\ at <= Len(paragraphs)
  /\ Candidate > chunk_size
  /\ chunks' = chunks \cup Finalized
  /\ chunk_index' = AfterBuffer
  /\ pc' = "split" /\ start' = 0
  /\ UNCHANGED <<arguments, at, gathered>>

SplitPiece ==
  /\ pc = "split" /\ start < paragraphs[at].words
  /\ chunks' = chunks \cup Pieces
  /\ chunk_index' = IF Pieces = {} THEN chunk_index ELSE chunk_index + 1
  /\ start' = start + Stride
  /\ UNCHANGED <<arguments, pc, at, gathered>>

SplitEnd ==
  /\ pc = "split" /\ start >= paragraphs[at].words
  /\ buffer' = {} /\ length' = 0 /\ buffer_start_paragraph' = at + 1
  /\ pc' = "gather" /\ at' = at + 1
  /\ UNCHANGED <<arguments, start, chunk_index, chunks>>

Finish ==
  /\ pc = "gather" /\ at > Len(paragraphs)
  /\ chunks' = chunks \cup Remainder
  /\ pc' = "done"
  /\ UNCHANGED <<arguments, at, gathered, start, chunk_index>>

Next == Gather \/ Spill \/ SplitPiece \/ SplitEnd \/ Finish
Spec == Init /\ [][Next]_vars

-----------------------------------------------------------------------------
(* Properties *)

\* The chunks of a version meet the unique constraint on (version_id,
\* chunk_index): gathered paragraphs and pieces draw on one index.
OneRowPerIndex ==
  \A c, d \in chunks : c.chunk_index = d.chunk_index => c = d

\* Read in the order of their index, chunks begin at later and later words of the
\* text, each on the page it names.
ReadingOrder ==
  \A c \in chunks :
    /\ <<c.page_number, c.offset>> \in c.words
    /\ \A w \in c.words : c.page_number < w[1] \/ (c.page_number = w[1] /\ c.offset <= w[2])
    /\ \A d \in chunks :
         c.chunk_index < d.chunk_index =>
           c.page_number < d.page_number
             \/ (c.page_number = d.page_number /\ c.offset < d.offset)

\* Every word of the text ends up in a chunk, whichever paragraphs were gathered
\* and which cut, if a chunk may hold a word and the overlap, which may be larger than
\* a chunk, is none that leaves a gap.  With other settings the code loses words.
NothingLost ==
  (pc = "done" /\ chunk_size > 0 /\ chunk_overlap >= 0) =>
    \A p \in 1..Len(paragraphs) : \A w \in WordsOf(p) : \E c \in chunks : w \in c.words

\* Every turn of a loop comes closer to its end: the text is left behind, a
\* paragraph at a time and in a paragraph some words at a time.
EveryTurnAdvances ==
  [][\/ at' > at
     \/ at' = at /\ pc' = "split" /\ (pc = "gather" \/ start' > start)
     \/ pc' = "done"]_vars
=============================================================================
