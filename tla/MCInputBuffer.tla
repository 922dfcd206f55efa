--------------------------- MODULE MCInputBuffer ----------------------------
(* A small instance of InputBuffer: every text up to MaxText bytes, and    *)
(* every text of LongChars up to MaxLong bytes.                            *)
EXTENDS InputBuffer, SequencesExt

CONSTANTS MaxText, LongChars, MaxLong

MCTexts == BoundedSeq(Chars, MaxText) \cup BoundedSeq(LongChars, MaxLong)
=============================================================================
