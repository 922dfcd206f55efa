----------------------------- MODULE CharStream -----------------------------
(***************************************************************************)
(* What an input buffer promises its caller: the characters of a text, one *)
(* at a time and in order, each with its line and column.  There is no     *)
(* chunk, no window and no stream position here; InputBuffer.tla is shown  *)
(* to implement this module.                                               *)
(*                                                                         *)
(* The byte EOF (0xFF, std::char_traits<char>::eof() of a signed char) is  *)
(* both an ordinary character of the text and the answer "no more data".   *)
(***************************************************************************)
EXTENDS Naturals, Sequences

CONSTANTS
    Chars,      \* the bytes a text is made of
    EOF,        \* the byte that doubles as end-of-file
    NL,         \* the newline byte
    Texts       \* the texts a stream may hold

VARIABLES
    text,       \* the whole text, fixed
    offset,     \* characters delivered so far
    line,       \* newlines delivered so far
    column,     \* characters delivered since the last newline
    done        \* an EOF, real or not, has been answered

vars == <<text, offset, line, column, done>>

Init ==
    /\ text \in Texts
    /\ offset = 0
    /\ line = 0
    /\ column = 0
    /\ done = (text = << >>)

\* The next character of the text is handed out.
Deliver(c) ==
    /\ offset < Len(text)
    /\ c = text[offset + 1]
    /\ offset' = offset + 1
    /\ line' = IF c = NL THEN line + 1 ELSE line
    /\ column' = IF c = NL THEN 0 ELSE column + 1
    /\ done' = (done \/ c = EOF)

\* EOF is answered and the position stays: always at the end of the text, and
\* possibly once the caller has already been told that the stream is done.
Refuse(c) ==
    /\ offset = Len(text) \/ done
    /\ c = EOF
    /\ done' = TRUE
    /\ UNCHANGED <<offset, line, column>>

Consume(c) ==
    /\ Deliver(c) \/ Refuse(c)
    /\ UNCHANGED text

Next == \E c \in Chars : Consume(c)

Spec == Init /\ [][Next]_vars
=============================================================================
