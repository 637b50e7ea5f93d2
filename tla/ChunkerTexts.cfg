\* Texts of up to three paragraphs; sizes below and above a paragraph, none and less
\* than none, overlaps below, at and above a size and below zero.  The loops end, and
\* with them the run.
CONSTANTS
  MaxParagraphs = 3
  MaxWords = 3
  MaxChars = 5
  Texts <- SmallTexts
  Sizes <- SomeSizes
  Overlaps <- SomeOverlaps
SPECIFICATION Spec
INVARIANTS TypeOK OneRowPerIndex ReadingOrder NothingLost
PROPERTIES EveryTurnAdvances
CHECK_DEADLOCK FALSE
