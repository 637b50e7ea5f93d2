---------------------------- MODULE ChunkerProofs ----------------------------
(***************************************************************************)
(* Proof that the chunker keeps its types, numbers its chunks apart and in *)
(* the order of the text and comes to an end, for all texts, sizes and     *)
(* overlaps, and that it loses no word when the size is positive and the   *)
(* overlap not negative.                                                   *)
(***************************************************************************)
EXTENDS Chunker, TLAPS

Precedes(c, d) ==
  c.page_number < d.page_number
    \/ (c.page_number = d.page_number /\ c.offset < d.offset)

\* A chunk begins at the word its page number and offset name.
WellPlaced(c) ==
  /\ <<c.page_number, c.offset>> \in c.words
  /\ \A w \in c.words : c.page_number < w[1] \/ (c.page_number = w[1] /\ c.offset <= w[2])

InChunk(w) == \E c \in chunks : w \in c.words

\* The buffer is the paragraphs gathered since buffer_start_paragraph.
BufferInv ==
  /\ pc = "split" => at <= Len(paragraphs)
  /\ buffer_start_paragraph <= at
  /\ length # 0 =>
       /\ buffer_start_paragraph < at
       /\ <<buffer_start_paragraph, 0>> \in buffer
       /\ \A w \in buffer : buffer_start_paragraph <= w[1]
  /\ length = 0 => buffer = {}

\* Every word of the paragraphs passed is in the buffer or in a chunk, and of a
\* paragraph that is cut every word before the next piece.
CoveredInv ==
  /\ pc = "gather" =>
       \A p \in 1..at - 1 : \A w \in WordsOf(p) : w \in buffer \/ InChunk(w)
  /\ pc = "split" =>
       /\ \A p \in 1..at - 1 : \A w \in WordsOf(p) : InChunk(w)
       /\ \A w \in WordsOf(at) : w[2] < start => InChunk(w)

\* With settings that leave no gap.
KeepsWords == chunk_size > 0 /\ chunk_overlap >= 0

\* The chunks so far have smaller indexes than the next and begin before it.
FrontierInv ==
  \A c \in chunks :
    /\ pc # "done" => c.chunk_index < chunk_index
    /\ pc = "gather" =>
         c.page_number < IF length = 0 THEN at ELSE buffer_start_paragraph
    /\ pc = "split" => c.page_number < at \/ (c.page_number = at /\ c.offset < start)

CInv == /\ TypeOK /\ BufferInv /\ (KeepsWords => CoveredInv) /\ FrontierInv
        /\ OneRowPerIndex /\ ReadingOrder /\ NothingLost
-----------------------------------------------------------------------------
\* The paragraph looked at is one, and so are its words.
LEMMA ParagraphType ==
  ASSUME TypeOK, NEW p \in 1..Len(paragraphs)
  PROVE  /\ paragraphs[p].words \in Nat \ {0} /\ paragraphs[p].chars \in Nat \ {0}
         /\ WordsOf(p) \subseteq Word
         /\ \A w \in WordsOf(p) : w[1] = p /\ w[2] \in 0..paragraphs[p].words - 1
         /\ \A k \in 0..paragraphs[p].words - 1 : <<p, k>> \in WordsOf(p)
<1>1. paragraphs \in Seq(Paragraph)
  BY ChunkerAssumption DEF TypeOK
<1>2. paragraphs[p] \in Paragraph
  BY <1>1
<1>3. /\ paragraphs[p].words \in Nat \ {0} /\ paragraphs[p].chars \in Nat
      /\ paragraphs[p].chars >= 2 * paragraphs[p].words - 1
  BY <1>2 DEF Paragraph
<1>4. Len(paragraphs) \in Nat
  BY <1>1
<1> QED BY <1>3, <1>4 DEF WordsOf, Word

\* A chunk with a new largest index that begins after all others keeps the order.
LEMMA AddChunk ==
  ASSUME TypeOK, OneRowPerIndex, ReadingOrder,
         NEW c \in Chunk, WellPlaced(c),
         \A d \in chunks : d.chunk_index < c.chunk_index /\ Precedes(d, c),
         chunks' = chunks \cup {c}
  PROVE  OneRowPerIndex' /\ ReadingOrder' /\ chunks' \subseteq Chunk
<1>1. chunks \subseteq Chunk
  BY DEF TypeOK
<1>2. \A d \in Chunk : d.chunk_index \in Nat /\ d.page_number \in Nat /\ d.offset \in Nat
  BY DEF Chunk
<1>3. OneRowPerIndex'
  BY <1>1, <1>2 DEF OneRowPerIndex
<1>4. ReadingOrder'
  <2>1. \A d \in chunks' : WellPlaced(d)
    BY DEF ReadingOrder, WellPlaced
  <2>2. \A d, e \in chunks' : d.chunk_index < e.chunk_index => Precedes(d, e)
    <3> SUFFICES ASSUME NEW d \in chunks', NEW e \in chunks', d.chunk_index < e.chunk_index
                 PROVE  Precedes(d, e)
      OBVIOUS
    <3>1. CASE e = c
      BY <3>1, <1>1, <1>2
    <3>2. CASE e # c
      <4>1. e \in chunks /\ e.chunk_index < c.chunk_index
        BY <3>2
      <4>2. d # c
        BY <4>1, <1>1, <1>2
      <4> QED BY <4>1, <4>2 DEF ReadingOrder, Precedes
    <3> QED BY <3>1, <3>2
  <2> QED BY <2>1, <2>2 DEF ReadingOrder, WellPlaced, Precedes
<1> QED BY <1>1, <1>3, <1>4

\* The chunk an emptied buffer makes, if any, may be added.
LEMMA FinalizedAdds ==
  ASSUME CInv, pc = "gather", chunks' = chunks \cup Finalized
  PROVE  /\ OneRowPerIndex' /\ ReadingOrder' /\ chunks' \subseteq Chunk
         /\ \A c \in chunks' : c.chunk_index <= chunk_index /\ c.page_number < at
         /\ KeepsWords =>
              \A p \in 1..at - 1 : \A w \in WordsOf(p) : \E c \in chunks' : w \in c.words
<1> USE DEF CInv
<1>1. /\ chunks \subseteq Chunk /\ at \in Nat /\ chunk_index \in Nat
      /\ buffer_start_paragraph \in Nat /\ buffer \subseteq Word
  <2>1. Len(paragraphs) \in Nat
    BY ChunkerAssumption DEF TypeOK
  <2> QED BY <2>1 DEF TypeOK
<1>2. \A d \in Chunk : d.chunk_index \in Nat /\ d.page_number \in Nat /\ d.offset \in Nat
  BY DEF Chunk
<1>3. CASE length = 0
  <2>1. chunks' = chunks
    BY <1>3 DEF Finalized
  <2>2. OneRowPerIndex' /\ ReadingOrder'
    BY <2>1 DEF OneRowPerIndex, ReadingOrder
  <2>3. \A c \in chunks : c.chunk_index <= chunk_index /\ c.page_number < at
    BY <1>1, <1>2, <1>3 DEF FrontierInv
  <2>4. KeepsWords => \A p \in 1..at - 1 : \A w \in WordsOf(p) : \E c \in chunks : w \in c.words
    BY <1>3 DEF CoveredInv, BufferInv, InChunk
  <2> QED BY <1>1, <2>1, <2>2, <2>3, <2>4
<1>4. CASE length # 0
  <2> DEFINE c == [chunk_index |-> chunk_index, page_number |-> buffer_start_paragraph,
                   offset |-> 0, words |-> buffer]
  <2>1. chunks' = chunks \cup {c}
    BY <1>4 DEF Finalized
  <2>2. c \in Chunk
    BY <1>1 DEF Chunk
  <2>3. WellPlaced(c)
    <3>1. \A w \in buffer : w[1] \in Nat /\ w[2] \in Nat
      BY <1>1 DEF Word
    <3>2. <<buffer_start_paragraph, 0>> \in buffer
      BY <1>4 DEF BufferInv
    <3>3. \A w \in buffer : buffer_start_paragraph <= w[1]
      BY <1>4 DEF BufferInv
    <3> QED BY <1>1, <3>1, <3>2, <3>3 DEF WellPlaced
  <2>4. \A d \in chunks : d.chunk_index < c.chunk_index /\ Precedes(d, c)
    BY <1>4 DEF FrontierInv, Precedes
  <2> HIDE DEF c
  <2>5. OneRowPerIndex' /\ ReadingOrder' /\ chunks' \subseteq Chunk
    BY <2>1, <2>2, <2>3, <2>4, AddChunk
  <2>6. c.chunk_index = chunk_index /\ c.page_number = buffer_start_paragraph
          /\ c.words = buffer
    BY DEF c
  <2>7. buffer_start_paragraph < at
    BY <1>4 DEF BufferInv
  <2>8. \A d \in chunks : d.chunk_index <= chunk_index /\ d.page_number < at
    BY <1>1, <1>2, <1>4, <2>7 DEF FrontierInv
  <2>9. KeepsWords =>
          \A p \in 1..at - 1 : \A w \in WordsOf(p) : \E d \in chunks' : w \in d.words
    BY <2>1, <2>6 DEF CoveredInv, InChunk
  <2> QED BY <1>1, <2>1, <2>5, <2>6, <2>7, <2>8, <2>9
<1> QED BY <1>3, <1>4
-----------------------------------------------------------------------------
LEMMA InitInv == Init => CInv
<1> SUFFICES ASSUME Init PROVE CInv
  OBVIOUS
<1>1. Len(paragraphs) \in Nat
  BY ChunkerAssumption DEF Init
<1> QED BY <1>1, ChunkerAssumption DEF Init, CInv, TypeOK, BufferInv, CoveredInv,
           FrontierInv, OneRowPerIndex, ReadingOrder, NothingLost, KeepsWords

LEMMA GatherStep == CInv /\ Gather => CInv'
<1> SUFFICES ASSUME CInv, Gather PROVE CInv'
  OBVIOUS
<1> USE DEF CInv
<1>1. /\ at \in 1..Len(paragraphs) /\ Len(paragraphs) \in Nat /\ pc = "gather"
      /\ paragraphs' = paragraphs /\ pc' = "gather" /\ chunks' = chunks /\ at' = at + 1
  BY ChunkerAssumption DEF Gather, TypeOK, arguments
<1>2. /\ WordsOf(at) \subseteq Word /\ <<at, 0>> \in WordsOf(at)
      /\ \A w \in WordsOf(at) : w[1] = at
      /\ paragraphs[at].chars \in Nat \ {0}
  BY <1>1, ParagraphType
<1>3. Candidate \in Nat \ {0}
  BY <1>2 DEF Candidate, TypeOK
<1>4. /\ length' = Candidate /\ length' # 0 /\ buffer' = buffer \cup WordsOf(at)
      /\ buffer_start_paragraph' = IF length = 0 THEN at ELSE buffer_start_paragraph
  BY <1>3 DEF Gather, FirstOfBuffer
<1>5. TypeOK'
  BY <1>1, <1>2, <1>3, <1>4 DEF Gather, TypeOK, arguments
<1>6. BufferInv'
  <2>1. \A w \in buffer : w[1] \in Nat /\ (length # 0 => buffer_start_paragraph <= w[1])
    BY DEF TypeOK, Word, BufferInv
  <2>2. length = 0 => buffer = {}
    BY DEF BufferInv
  <2>3. buffer_start_paragraph <= at /\ buffer_start_paragraph \in Nat
    BY <1>1 DEF BufferInv, TypeOK
  <2>4. length # 0 => <<buffer_start_paragraph, 0>> \in buffer
    BY DEF BufferInv
  <2> QED BY <1>1, <1>2, <1>4, <2>1, <2>2, <2>3, <2>4 DEF BufferInv
<1>7. KeepsWords' => CoveredInv'
  <2> SUFFICES ASSUME KeepsWords' PROVE CoveredInv'
    OBVIOUS
  <2> KeepsWords
    BY DEF KeepsWords, Gather, arguments
  <2>1. \A p \in 1..at : \A w \in WordsOf(p) : w \in buffer' \/ InChunk(w)
    <3> SUFFICES ASSUME NEW p \in 1..at, NEW w \in WordsOf(p)
                 PROVE  w \in buffer' \/ InChunk(w)
      OBVIOUS
    <3>1. CASE p = at
      BY <3>1, <1>4
    <3>2. CASE p # at
      BY <3>2, <1>1, <1>4 DEF CoveredInv
    <3> QED BY <3>1, <3>2
  <2>2. \A p : WordsOf(p)' = WordsOf(p)
    BY <1>1 DEF WordsOf
  <2>3. \A w : InChunk(w)' = InChunk(w)
    BY <1>1 DEF InChunk
  <2> QED BY <1>1, <2>1, <2>2, <2>3 DEF CoveredInv
<1>8. FrontierInv'
  <2>1. chunk_index' = chunk_index
    BY DEF Gather
  <2> QED BY <1>1, <1>4, <2>1 DEF FrontierInv
<1>9. OneRowPerIndex' /\ ReadingOrder' /\ NothingLost'
  BY <1>1 DEF OneRowPerIndex, ReadingOrder, NothingLost
<1> QED BY <1>5, <1>6, <1>7, <1>8, <1>9

LEMMA SpillStep == CInv /\ Spill => CInv'
<1> SUFFICES ASSUME CInv, Spill PROVE CInv'
  OBVIOUS
<1>1. /\ at \in 1..Len(paragraphs) /\ Len(paragraphs) \in Nat /\ pc = "gather"
      /\ paragraphs' = paragraphs /\ pc' = "split" /\ at' = at /\ start' = 0
      /\ chunks' = chunks \cup Finalized
      /\ chunk_index \in Nat /\ chunk_index' = chunk_index + 1
  BY ChunkerAssumption DEF CInv, Spill, TypeOK, arguments, AfterBuffer
<1>2. /\ OneRowPerIndex' /\ ReadingOrder' /\ chunks' \subseteq Chunk
      /\ \A c \in chunks' : c.chunk_index <= chunk_index /\ c.page_number < at
      /\ KeepsWords =>
           \A p \in 1..at - 1 : \A w \in WordsOf(p) : \E c \in chunks' : w \in c.words
  BY <1>1, FinalizedAdds
<1>3. TypeOK'
  BY <1>1, <1>2 DEF CInv, Spill, TypeOK, arguments, gathered
<1>4. BufferInv'
  BY <1>1 DEF CInv, Spill, BufferInv, gathered
<1>5. KeepsWords' => CoveredInv'
  <2> SUFFICES ASSUME KeepsWords' PROVE CoveredInv'
    OBVIOUS
  <2> KeepsWords
    BY DEF KeepsWords, Spill, arguments
  <2>1. \A w \in WordsOf(at) : ~(w[2] < 0)
    BY <1>1, ParagraphType DEF CInv
  <2>2. \A p : WordsOf(p)' = WordsOf(p)
    BY <1>1 DEF WordsOf
  <2> QED BY <1>1, <1>2, <2>1, <2>2 DEF CoveredInv, InChunk
<1>6. FrontierInv'
  <2>1. \A c \in chunks' : c.chunk_index \in Nat
    BY <1>2 DEF Chunk
  <2> QED BY <1>1, <1>2, <2>1 DEF FrontierInv
<1>7. NothingLost'
  BY <1>1 DEF NothingLost
<1> QED BY <1>2, <1>3, <1>4, <1>5, <1>6, <1>7 DEF CInv

LEMMA StrideType == TypeOK => Stride \in Nat \ {0} /\ (KeepsWords => Stride <= chunk_size)
<1> SUFFICES ASSUME TypeOK
             PROVE  Stride \in Nat \ {0} /\ (KeepsWords => Stride <= chunk_size)
  OBVIOUS
<1>1. chunk_size \in Int /\ chunk_overlap \in Int
  BY ChunkerAssumption DEF TypeOK
<1> QED BY <1>1 DEF Stride, KeepsWords

\* A piece that has words may be added to the chunks; one without changes nothing.
LEMMA PieceAdds ==
  ASSUME CInv, SplitPiece
  PROVE  /\ OneRowPerIndex' /\ ReadingOrder' /\ chunks' \subseteq Chunk
         /\ chunk_index' \in Nat
         /\ \A c \in chunks' :
              /\ c.chunk_index < chunk_index'
              /\ c.page_number < at \/ (c.page_number = at /\ c.offset <= start)
<1> USE DEF CInv
<1>1. /\ at \in 1..Len(paragraphs) /\ Len(paragraphs) \in Nat /\ pc = "split"
      /\ chunks' = chunks \cup Pieces
      /\ chunk_index' = IF Pieces = {} THEN chunk_index ELSE chunk_index + 1
      /\ chunk_index \in Nat /\ start \in Nat /\ start < paragraphs[at].words
      /\ chunk_size \in Int /\ chunks \subseteq Chunk
  BY ChunkerAssumption DEF SplitPiece, TypeOK, BufferInv
<1>2. /\ paragraphs[at].words \in Nat \ {0} /\ WordsOf(at) \subseteq Word
      /\ \A w \in WordsOf(at) : w[1] = at /\ w[2] \in Nat
      /\ \A k \in 0..paragraphs[at].words - 1 : <<at, k>> \in WordsOf(at)
  BY <1>1, ParagraphType
<1>3. \A c \in chunks :
        /\ c.chunk_index < chunk_index
        /\ c.page_number < at \/ (c.page_number = at /\ c.offset < start)
  BY <1>1 DEF FrontierInv
<1>4. \A c \in Chunk : c.chunk_index \in Nat /\ c.page_number \in Nat /\ c.offset \in Nat
  BY DEF Chunk
<1>5. CASE Pieces = {}
  <2>1. chunks' = chunks /\ chunk_index' = chunk_index
    BY <1>1, <1>5
  <2>2. OneRowPerIndex' /\ ReadingOrder'
    BY <2>1 DEF OneRowPerIndex, ReadingOrder
  <2>3. \A c \in chunks : /\ c.chunk_index < chunk_index
                          /\ c.page_number < at \/ (c.page_number = at /\ c.offset <= start)
    BY <1>1, <1>3, <1>4
  <2> QED BY <1>1, <2>1, <2>2, <2>3
<1>6. CASE Pieces # {}
  <2>1. /\ chunks' = chunks \cup {Piece} /\ chunk_index' = chunk_index + 1
        /\ Piece.words # {}
    BY <1>1, <1>6 DEF Pieces
  <2>2. /\ Piece.chunk_index = chunk_index /\ Piece.page_number = at /\ Piece.offset = start
        /\ Piece.words = {w \in WordsOf(at) : start <= w[2] /\ w[2] < PieceEnd}
    BY DEF Piece
  <2>3. Piece \in Chunk
    BY <1>1, <1>2 DEF Piece, Chunk
  <2>4. PieceEnd \in Int
    BY <1>1, <1>2 DEF PieceEnd
  <2>5. WellPlaced(Piece)
    <3>1. PICK w \in WordsOf(at) : start <= w[2] /\ w[2] < PieceEnd
      BY <2>1, <2>2
    <3>2. start < PieceEnd
      BY <1>1, <1>2, <2>4, <3>1
    <3>3. <<at, start>> \in WordsOf(at)
      BY <1>1, <1>2
    <3>4. <<at, start>> \in Piece.words
      BY <1>1, <2>2, <3>2, <3>3
    <3> QED BY <1>1, <1>2, <2>2, <3>4 DEF WellPlaced
  <2>6. \A d \in chunks : d.chunk_index < Piece.chunk_index /\ Precedes(d, Piece)
    BY <1>3, <2>2 DEF Precedes
  <2>7. OneRowPerIndex' /\ ReadingOrder' /\ chunks' \subseteq Chunk
    BY <2>1, <2>3, <2>5, <2>6, AddChunk
  <2> QED BY <1>1, <1>3, <1>4, <2>1, <2>2, <2>7
<1> QED BY <1>5, <1>6

LEMMA SplitPieceStep == CInv /\ SplitPiece => CInv'
<1> SUFFICES ASSUME CInv, SplitPiece PROVE CInv'
  OBVIOUS
<1>1. /\ at \in 1..Len(paragraphs) /\ Len(paragraphs) \in Nat /\ pc = "split"
      /\ paragraphs' = paragraphs /\ pc' = "split" /\ at' = at
      /\ chunks' = chunks \cup Pieces
      /\ start \in Nat /\ start' = start + Stride /\ start < paragraphs[at].words
      /\ chunk_size \in Int
  BY ChunkerAssumption DEF CInv, SplitPiece, TypeOK, arguments, BufferInv
<1>2. Stride \in Nat \ {0} /\ (KeepsWords => Stride <= chunk_size)
  BY StrideType DEF CInv
<1>3. \A w \in WordsOf(at) : w[2] \in Nat
  <2>1. TypeOK
    BY DEF CInv
  <2> QED BY <1>1, <2>1, ParagraphType
<1>4. /\ OneRowPerIndex' /\ ReadingOrder' /\ chunks' \subseteq Chunk /\ chunk_index' \in Nat
      /\ \A c \in chunks' :
           /\ c.chunk_index < chunk_index'
           /\ c.page_number < at \/ (c.page_number = at /\ c.offset <= start)
  BY PieceAdds
<1>5. TypeOK'
  BY <1>1, <1>2, <1>4 DEF CInv, SplitPiece, TypeOK, arguments, gathered
<1>6. BufferInv'
  BY <1>1 DEF CInv, SplitPiece, BufferInv, gathered
<1>7. KeepsWords' => CoveredInv'
  <2> SUFFICES ASSUME KeepsWords' PROVE CoveredInv'
    OBVIOUS
  <2>1. KeepsWords /\ chunk_size > 0
    BY DEF KeepsWords, SplitPiece, arguments
  <2>2. \A w : InChunk(w) => InChunk(w)'
    BY <1>1 DEF InChunk
  <2>3. \A w \in WordsOf(at) : w[2] < start' => InChunk(w)'
    <3> SUFFICES ASSUME NEW w \in WordsOf(at), w[2] < start + Stride
                 PROVE  InChunk(w)'
      BY <1>1
    <3>1. CASE w[2] < start
      BY <3>1, <1>1, <2>1, <2>2 DEF CInv, CoveredInv
    <3>2. CASE ~(w[2] < start)
      <4>1. w[2] < start + chunk_size /\ start <= w[2] /\ start + chunk_size >= 0
        BY <3>2, <1>1, <1>2, <1>3, <2>1
      <4>2. w \in Piece.words
        BY <4>1 DEF Piece, PieceEnd
      <4>3. Piece \in chunks'
        BY <4>2, <1>1 DEF Pieces
      <4> QED BY <4>2, <4>3 DEF InChunk
    <3> QED BY <3>1, <3>2
  <2>4. \A p : WordsOf(p)' = WordsOf(p)
    BY <1>1 DEF WordsOf
  <2> QED BY <1>1, <2>1, <2>2, <2>3, <2>4 DEF CInv, CoveredInv
<1>8. FrontierInv'
  <2>1. \A c \in Chunk : c.page_number \in Nat /\ c.offset \in Nat
    BY DEF Chunk
  <2> QED BY <1>1, <1>2, <1>4, <2>1 DEF FrontierInv
<1>9. NothingLost'
  BY <1>1 DEF NothingLost
<1> QED BY <1>4, <1>5, <1>6, <1>7, <1>8, <1>9 DEF CInv

LEMMA SplitEndStep == CInv /\ SplitEnd => CInv'
<1> SUFFICES ASSUME CInv, SplitEnd PROVE CInv'
  OBVIOUS
<1>1. /\ at \in 1..Len(paragraphs) /\ Len(paragraphs) \in Nat /\ pc = "split"
      /\ paragraphs' = paragraphs /\ pc' = "gather" /\ at' = at + 1
      /\ chunks' = chunks /\ chunk_index' = chunk_index /\ start' = start
      /\ start \in Nat /\ start >= paragraphs[at].words
      /\ buffer' = {} /\ length' = 0 /\ buffer_start_paragraph' = at + 1
  BY ChunkerAssumption DEF CInv, SplitEnd, TypeOK, arguments, BufferInv
<1>2. /\ paragraphs[at].words \in Nat \ {0}
      /\ \A w \in WordsOf(at) : w[2] \in 0..paragraphs[at].words - 1
  <2>1. TypeOK
    BY DEF CInv
  <2> QED BY <1>1, <2>1, ParagraphType
<1>3. TypeOK'
  BY <1>1 DEF CInv, SplitEnd, TypeOK, arguments
<1>4. BufferInv'
  BY <1>1 DEF BufferInv
<1>5. KeepsWords' => CoveredInv'
  <2> SUFFICES ASSUME KeepsWords' PROVE CoveredInv'
    OBVIOUS
  <2> KeepsWords
    BY DEF KeepsWords, SplitEnd, arguments
  <2>1. \A p \in 1..at : \A w \in WordsOf(p) : InChunk(w)
    <3> SUFFICES ASSUME NEW p \in 1..at, NEW w \in WordsOf(p) PROVE InChunk(w)
      OBVIOUS
    <3>1. CASE p = at
      <4>1. w[2] < start
        BY <3>1, <1>1, <1>2
      <4> QED BY <4>1, <3>1, <1>1 DEF CInv, CoveredInv
    <3>2. CASE p # at
      BY <3>2, <1>1 DEF CInv, CoveredInv
    <3> QED BY <3>1, <3>2
  <2>2. \A p : WordsOf(p)' = WordsOf(p)
    BY <1>1 DEF WordsOf
  <2>3. \A w : InChunk(w)' = InChunk(w)
    BY <1>1 DEF InChunk
  <2> QED BY <1>1, <2>1, <2>2, <2>3 DEF CoveredInv
<1>6. FrontierInv'
  <2>1. \A c \in chunks : c.page_number \in Nat
    BY DEF CInv, TypeOK, Chunk
  <2> QED BY <1>1, <2>1 DEF CInv, FrontierInv
<1>7. OneRowPerIndex' /\ ReadingOrder' /\ NothingLost'
  BY <1>1 DEF CInv, OneRowPerIndex, ReadingOrder, NothingLost
<1> QED BY <1>3, <1>4, <1>5, <1>6, <1>7 DEF CInv

LEMMA FinishStep == CInv /\ Finish => CInv'
<1> SUFFICES ASSUME CInv, Finish PROVE CInv'
  OBVIOUS
<1>1. /\ at = Len(paragraphs) + 1 /\ Len(paragraphs) \in Nat /\ pc = "gather"
      /\ paragraphs' = paragraphs /\ pc' = "done" /\ at' = at
      /\ chunks' = chunks \cup Finalized
  BY ChunkerAssumption DEF CInv, Finish, TypeOK, arguments, Remainder
<1>2. /\ OneRowPerIndex' /\ ReadingOrder' /\ chunks' \subseteq Chunk
      /\ KeepsWords =>
           \A p \in 1..at - 1 : \A w \in WordsOf(p) : \E c \in chunks' : w \in c.words
  BY <1>1, FinalizedAdds
<1>3. TypeOK'
  BY <1>1, <1>2 DEF CInv, Finish, TypeOK, arguments, gathered
<1>4. BufferInv'
  BY <1>1 DEF CInv, Finish, BufferInv, gathered
<1>5. CoveredInv' /\ FrontierInv'
  BY <1>1 DEF CoveredInv, FrontierInv
<1>6. NothingLost'
  <2>1. \A p : WordsOf(p)' = WordsOf(p)
    BY <1>1 DEF WordsOf
  <2>2. chunk_size' = chunk_size /\ chunk_overlap' = chunk_overlap
    BY DEF Finish, arguments
  <2> QED BY <1>1, <1>2, <2>1, <2>2 DEF NothingLost, KeepsWords
<1> QED BY <1>2, <1>3, <1>4, <1>5, <1>6 DEF CInv

LEMMA NextInv == CInv /\ [Next]_vars => CInv'
<1> SUFFICES ASSUME CInv, [Next]_vars PROVE CInv'
  OBVIOUS
<1>1. CASE UNCHANGED vars
  BY <1>1 DEF CInv, vars, arguments, gathered, TypeOK, BufferInv, CoveredInv, FrontierInv,
              OneRowPerIndex, ReadingOrder, NothingLost, InChunk, WordsOf, KeepsWords
<1> QED BY <1>1, GatherStep, SpillStep, SplitPieceStep, SplitEndStep, FinishStep DEF Next

LEMMA SpecInv == Spec => []CInv
BY InitInv, NextInv, PTL DEF Spec
-----------------------------------------------------------------------------
\* RecursiveChunker.chunk keeps its variables in their types, and its offsets and
\* indexes never become negative, whatever the size and the overlap.
THEOREM ChunkerTypeCorrect == Spec => []TypeOK
<1>1. CInv => TypeOK
  BY DEF CInv
<1> QED BY <1>1, SpecInv, PTL

\* No two chunks of RecursiveChunker.chunk have the same chunk_index: the rows made
\* of them meet uq_document_chunks_version_index.
THEOREM IndexesDistinct == Spec => []OneRowPerIndex
<1>1. CInv => OneRowPerIndex
  BY DEF CInv
<1> QED BY <1>1, SpecInv, PTL

\* The order of chunk_index, by which the repository lists chunks, is the order of
\* the text, and a chunk begins on the page it names.
THEOREM OrderCorrect == Spec => []ReadingOrder
<1>1. CInv => ReadingOrder
  BY DEF CInv
<1> QED BY <1>1, SpecInv, PTL

\* When RecursiveChunker.chunk returns, every word of the text is in a chunk, if the
\* chunk size is positive and the overlap not negative.
THEOREM Complete == Spec => []NothingLost
<1>1. CInv => NothingLost
  BY DEF CInv
<1> QED BY <1>1, SpecInv, PTL

\* Every turn of the loops of RecursiveChunker.chunk comes closer to their end, also
\* with an overlap of a whole chunk and more, and with chunks that hold nothing.
THEOREM TurnsAdvance == Spec => EveryTurnAdvances
<1> DEFINE Advances == \/ at' > at
                       \/ at' = at /\ pc' = "split" /\ (pc = "gather" \/ start' > start)
                       \/ pc' = "done"
<1>1. CInv /\ [Next]_vars => [Advances]_vars
  <2> SUFFICES ASSUME CInv, Next PROVE Advances
    OBVIOUS
  <2>1. at \in Nat /\ start \in Nat /\ Stride \in Nat \ {0}
    BY StrideType, ChunkerAssumption DEF CInv, TypeOK
  <2>2. CASE Gather
    BY <2>1, <2>2 DEF Gather
  <2>3. CASE Spill
    BY <2>3 DEF Spill
  <2>4. CASE SplitPiece
    BY <2>1, <2>4 DEF SplitPiece
  <2>5. CASE SplitEnd
    BY <2>1, <2>5 DEF SplitEnd
  <2>6. CASE Finish
    BY <2>6 DEF Finish
  <2> QED BY <2>2, <2>3, <2>4, <2>5, <2>6 DEF Next
<1> QED BY <1>1, SpecInv, PTL DEF Spec, EveryTurnAdvances
=============================================================================
