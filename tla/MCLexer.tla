------------------------------ MODULE MCLexer -------------------------------
(***************************************************************************)
(* A small instance of Lexer.  Each alphabet mixes the characters whose    *)
(* scanning interacts: words, operators, and comments with lines and the   *)
(* EOF byte; every text over each of them up to a length is an input.      *)
(***************************************************************************)
EXTENDS LexerDocs, SequencesExt

CONSTANTS
    Words, Operators, Lines,            \* alphabets
    MaxWords, MaxOperators, MaxLines    \* bounds: the length of texts over them

MCTexts ==
    BoundedSeq(Words, MaxWords) \cup BoundedSeq(Operators, MaxOperators)
        \cup BoundedSeq(Lines, MaxLines)

MCChars == Words \cup Operators \cup Lines \cup {EOF, NL, NUL}
=============================================================================
