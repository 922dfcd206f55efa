------------------------------- MODULE Lexer --------------------------------
(***************************************************************************)
(* pimento::tokenization::Lexer (src/src/lexer.cpp) over the input buffer: *)
(* tokenize() consumes one character, switches on the first character of   *)
(* the token buffer, and scans on with peek() and consume() until it       *)
(* creates a token, drops the buffer or raises an error.                   *)
(*                                                                         *)
(* Between two consume()s the lexer is at a label:                         *)
(*   loop     the head of tokenize()'s while loop                          *)
(*   switch   behind the loop's consume(), about to switch                 *)
(*   under    behind "__", third    behind "^^" or "//"                    *)
(*   ident    in parseIdent, type   in parseType, about to peek()          *)
(*   comment  in the loop that skips a comment                             *)
(*   finish   behind the while loop                                        *)
(*   done     both calls of tokenize() have returned                       *)
(*   exit     errors::raise() has ended the process                        *)
(* A token's type is written as its spelling, <<"^", "=">> for             *)
(* TT_CARET_EQUAL, and <<"IDENT">>, <<"TYPE_IDENT">> for the two classes.  *)
(***************************************************************************)
EXTENDS InputBuffer

CONSTANTS
    Lower, Upper, Digit,    \* islower, isupper, isdigit
    Blank,                  \* the white space that tokenize() skips
    Space,                  \* isspace: Blank and '\r'
    MaxTokenLen,            \* MAX_TOKEN_LEN
    TraceLevel              \* the logger's level is trace

ASSUME MaxTokenLenAssumption == MaxTokenLen \in Nat /\ MaxTokenLen > 3
ASSUME ClassAssumption ==
    /\ {EOF, NUL} \cap (Lower \cup Upper \cup Digit \cup Space \cup {"_", "="}) = {}
    /\ NL \in Blank /\ NL # "#"
    /\ Blank \subseteq Space
ASSUME TraceAssumption == TraceLevel \in BOOLEAN

VARIABLES
    mTokenBuffer,
    mTokens,
    offset, line, column,   \* tokenize()'s locals: where the token starts
    pc,
    error,                  \* which errors::raise() ended the process
    calls,                  \* calls of tokenize() begun: Lexer's and Parser's
    stale                   \* history: some peek() looked behind the chunk

startVars == <<offset, line, column>>
scanVars  == <<mTokenBuffer, mTokens, offset, line, column, pc, error, calls, stale>>
vars      == <<bufferVars, scanVars>>

Labels == {"loop", "switch", "under", "third", "ident", "type", "comment",
           "finish", "done", "exit"}

\* error types with, for INVALID_TOKEN_ERROR, what the message complains of
Errors == {"none", "length", "underscore", "character", "symbol"}

-----------------------------------------------------------------------------
(* The characters tokenize() switches on                                   *)

Singles == {":", ",", "{", "(", "[", "}", ")", "]", ";", ".", "?"}

Doubling == {"^", "/", "<", "-", "+", ">"}

OpStart == Doubling \cup {"&", "=", "%", "|", "*", "~"}

\* Mutants of OpSecond: no operator, or every operator, is doubled.
OpSecondIsEqual(c) == {"="}

OpSecondDoublesAll(c) == {c, "="}

\* The characters that extend an operator c ...
OpSecond(c) == IF c \in Doubling THEN {c, "="} ELSE {"="}

\* ... and those that, doubled, may be followed by '=' as well.
OpTriple == {"^", "/"}

Known == Singles \cup OpStart \cup Blank \cup Digit \cup Lower \cup Upper
            \cup {"_", "#"}

\* No character is in two of the classes that tokenize() has cases for.
ASSUME DisjointAssumption ==
    LET Classes == <<Lower, Upper, Digit, Space, Singles \cup OpStart \cup {"_", "#"}>>
    IN  \A i, j \in 1 .. 5 : i # j => Classes[i] \cap Classes[j] = {}

\* isTypeChar and isIdentChar
TypeChars  == Lower \cup Upper \cup Digit
IdentChars == TypeChars \cup {"_"}

-----------------------------------------------------------------------------
(* What a step does to the token buffer, the tokens and the label          *)

First == Head(mTokenBuffer)

NoInput == UNCHANGED bufferVars

Goto(l, buf) ==
    /\ pc' = l
    /\ mTokenBuffer' = buf
    /\ UNCHANGED <<mTokens, error>>

Raise(e, buf) ==
    /\ pc' = "exit"
    /\ error' = e
    /\ mTokenBuffer' = buf
    /\ UNCHANGED mTokens

\* Mutant of Token: the offset is the buffer's when the token is created.
TokenAtEnd(type, lexeme) ==
    [type |-> type, lexeme |-> lexeme, offset |-> mOffset, span |-> Len(lexeme),
     line |-> line, column |-> column]

Token(type, lexeme) ==
    [type |-> type, lexeme |-> lexeme, offset |-> offset, span |-> Len(lexeme),
     line |-> line, column |-> column]

\* createToken, createIdentToken and createTypeToken, on token buffer buf
CreateToken(type, buf) ==
    /\ mTokens' = Append(mTokens, Token(type, buf))
    /\ mTokenBuffer' = << >>
    /\ pc' = "loop"
    /\ UNCHANGED error

\* Mutant of TooLong: the 1 is on the wrong side.
TooLongByTwo(buf) == Len(buf) > MaxTokenLen + 1

TooLong(buf) == Len(buf) + 1 > MaxTokenLen

\* The step decides on what peek() returns.
Peeks == stale' = (stale \/ mIndex >= mNumChars)

AtSwitch(S) == pc = "switch" /\ First \in S

-----------------------------------------------------------------------------
(* tokenize()                                                              *)

\* The loop condition fails.
LeaveLoop ==
    /\ pc = "loop"
    /\ mDone
    /\ NoInput
    /\ Goto("finish", mTokenBuffer)
    /\ UNCHANGED <<startVars, calls, stale>>

\* Mutants of NoteStart: the start of the token, or only its place, is noted
\* behind consume().
NoteStartLate ==
    /\ offset' = mOffset'
    /\ line' = mLine
    /\ column' = mColumn

NotePlaceLate ==
    /\ offset' = mOffset
    /\ line' = mLine'
    /\ column' = mColumn'

\* The locals offset, line and column are set to the place of the next character.
NoteStart ==
    /\ offset' = mOffset
    /\ line' = mLine
    /\ column' = mColumn

\* The head of the loop: note where a token starts, check the length of one
\* that was left in the buffer, consume a character.
ReadCharacter ==
    /\ pc = "loop"
    /\ ~mDone
    /\ IF mTokenBuffer # << >> /\ TooLong(mTokenBuffer)
       THEN NoInput /\ Raise("length", mTokenBuffer)
       ELSE \E c \in Chars :
                /\ Consume(c)
                /\ IF c = EOF THEN Goto("finish", mTokenBuffer)
                              ELSE Goto("switch", Append(mTokenBuffer, c))
    /\ IF mTokenBuffer = << >> THEN NoteStart ELSE UNCHANGED startVars
    /\ UNCHANGED <<calls, stale>>

\* '_' and what may follow it
Underscore ==
    /\ AtSwitch({"_"})
    /\ Peeks
    /\ \/ /\ PeekValue = EOF
          /\ NoInput
          /\ IF mTokenBuffer[Len(mTokenBuffer)] = "_" THEN Raise("underscore", mTokenBuffer)
                                         ELSE Goto("loop", mTokenBuffer)
       \/ /\ PeekValue = "_"
          /\ \E d \in Chars : Consume(d) /\ Goto("under", Append(mTokenBuffer, d))
       \/ /\ PeekValue \notin {EOF, "_"}
          /\ NoInput
          /\ IF PeekValue \in Lower THEN Goto("ident", mTokenBuffer)
                                    ELSE Raise("character", mTokenBuffer)
    /\ UNCHANGED <<startVars, calls>>

\* behind "__"
SecondUnderscore ==
    /\ pc = "under"
    /\ Peeks
    /\ NoInput
    /\ \/ PeekValue = EOF /\ Goto("loop", mTokenBuffer)
       \/ PeekValue = "_" /\ Raise("underscore", mTokenBuffer)
       \/ PeekValue \in Lower /\ Goto("ident", mTokenBuffer)
       \/ PeekValue \notin Lower \cup {EOF, "_"} /\ Raise("character", mTokenBuffer)
    /\ UNCHANGED <<startVars, calls>>

\* A letter calls parseIdent or parseType; white space is dropped, and so is a
\* digit: parseNumericConst only clears the buffer.
Dispatch ==
    /\ NoInput
    /\ \/ AtSwitch(Lower) /\ Goto("ident", mTokenBuffer)
       \/ AtSwitch(Upper) /\ Goto("type", mTokenBuffer)
       \/ AtSwitch(Digit) /\ Goto("loop", << >>)
       \/ AtSwitch(Blank) /\ Goto("loop", << >>)
       \/ AtSwitch(Singles) /\ CreateToken(<<First>>, mTokenBuffer)
    /\ UNCHANGED <<startVars, calls, stale>>

\* An operator character and the one behind it.  At a peeked EOF the token stays
\* in the buffer.  The type follows the peeked character, the lexeme holds the
\* consumed one.
Operator ==
    /\ AtSwitch(OpStart)
    /\ Peeks
    /\ \/ PeekValue = EOF /\ NoInput /\ Goto("loop", mTokenBuffer)
       \/ /\ PeekValue \in OpSecond(First)
          /\ \E d \in Chars :
                /\ Consume(d)
                /\ IF First \in OpTriple /\ PeekValue = First
                   THEN Goto("third", Append(mTokenBuffer, d))
                   ELSE CreateToken(<<First, PeekValue>>, Append(mTokenBuffer, d))
       \/ /\ PeekValue \notin OpSecond(First) \cup {EOF}
          /\ NoInput
          /\ CreateToken(<<First>>, mTokenBuffer)
    /\ UNCHANGED <<startVars, calls>>

\* behind "^^" or "//"
ThirdCharacter ==
    /\ pc = "third"
    /\ Peeks
    /\ \/ PeekValue = EOF /\ NoInput /\ Goto("loop", mTokenBuffer)
       \/ /\ PeekValue = "="
          /\ \E d \in Chars :
                /\ Consume(d)
                /\ CreateToken(<<First, First, "=">>, Append(mTokenBuffer, d))
       \/ /\ PeekValue \notin {EOF, "="}
          /\ NoInput
          /\ CreateToken(<<First, First>>, mTokenBuffer)
    /\ UNCHANGED <<startVars, calls>>

\* Mutant of EndsComment: the end of the text does not.
EndsCommentAtNewline(d) == d = NL

EndsComment(d) == d \in {NL, EOF}

\* '#': consume up to a newline or the end, then drop the buffer.
Comment ==
    /\ AtSwitch({"#"}) \/ pc = "comment"
    /\ \E d \in Chars :
            /\ Consume(d)
            /\ IF EndsComment(d) THEN Goto("loop", << >>)
                                 ELSE Goto("comment", mTokenBuffer)
    /\ UNCHANGED <<startVars, calls, stale>>

UnknownSymbol ==
    /\ pc = "switch"
    /\ First \notin Known
    /\ NoInput
    /\ Raise("symbol", mTokenBuffer)
    /\ UNCHANGED <<startVars, calls, stale>>

-----------------------------------------------------------------------------
(* parseIdent and parseType: the same loop over another class of characters *)

ParseWord(label, class, type) ==
    /\ pc = label
    /\ Peeks
    /\ \/ PeekValue = EOF /\ NoInput /\ Goto("loop", mTokenBuffer)
       \/ /\ PeekValue \in class
          /\ \E d \in Chars :
                /\ Consume(d)
                /\ LET buf == Append(mTokenBuffer, d) IN
                   IF TooLong(buf) THEN Raise("length", buf) ELSE Goto(label, buf)
       \/ /\ PeekValue \notin class \cup {EOF}
          /\ NoInput
          /\ IF PeekValue \in Space THEN CreateToken(type, mTokenBuffer)
                                    ELSE Raise("character", mTokenBuffer)
    /\ UNCHANGED <<startVars, calls>>

ParseIdent == ParseWord("ident", IdentChars, <<"IDENT">>)
ParseType  == ParseWord("type", TypeChars, <<"TYPE_IDENT">>)

-----------------------------------------------------------------------------
(* Behind the loop                                                         *)

\* At level trace every token is printed with get(); then tokenize() returns.
\* The Lexer's constructor made the first call, the Parser's makes a second.
FinishPass ==
    /\ pc = "finish"
    /\ good' = (good \/ (TraceLevel /\ \E k \in DOMAIN mTokens :
                            ~InChunk(mTokens[k].offset, mTokens[k].span)))
    /\ UNCHANGED <<text, pos, chunkVars, mIndex, placeVars, mDone>>
    /\ IF calls = 1
       THEN /\ calls' = 2
            /\ offset' = 0 /\ line' = 0 /\ column' = 0
            /\ Goto("loop", mTokenBuffer)
       ELSE /\ Goto("done", mTokenBuffer)
            /\ UNCHANGED <<startVars, calls>>
    /\ UNCHANGED stale

Terminated == pc \in {"done", "exit"} /\ UNCHANGED vars

-----------------------------------------------------------------------------

Init ==
    /\ BufInit
    /\ mTokenBuffer = << >>
    /\ mTokens = << >>
    /\ offset = 0 /\ line = 0 /\ column = 0
    /\ pc = "loop"
    /\ error = "none"
    /\ calls = 1
    /\ stale = FALSE

Step ==
    \/ LeaveLoop \/ ReadCharacter
    \/ Underscore \/ SecondUnderscore \/ Dispatch \/ Operator \/ ThirdCharacter
    \/ Comment \/ UnknownSymbol
    \/ ParseIdent \/ ParseType
    \/ FinishPass

Next == Step \/ Terminated

Spec == Init /\ [][Next]_vars

\* One thread runs tokenize(): it takes its next step as long as it has one.
FairSpec == Spec /\ WF_vars(Step)

-----------------------------------------------------------------------------
(* The abstract specification this one implements                          *)

Tokens ==
    INSTANCE TokenStream
    WITH at <- IF mTokenBuffer = << >> THEN mOffset ELSE offset,
         toks <- mTokens,
         status <- IF pc = "exit" THEN "failed"
                   ELSE IF pc \in {"finish", "done"} \/ calls = 2 THEN "done"
                   ELSE "running"

-----------------------------------------------------------------------------
(* Invariants                                                              *)

TokenTypes == Tokens!Symbols \cup Tokens!WordTypes

TokenSet == [type : TokenTypes, lexeme : Seq(Chars), offset : Nat, span : Nat,
             line : Nat, column : Nat]

\* Each variable has its type; behind the loop's consume() there is a character
\* to switch on.
LexTypeOK ==
    /\ BufTypeOK
    /\ mTokenBuffer \in Seq(Chars)
    /\ mTokens \in Seq(TokenSet)
    /\ offset \in Nat /\ line \in Nat /\ column \in Nat
    /\ pc \in Labels
    /\ error \in Errors
    /\ calls \in {1, 2}
    /\ stale \in BOOLEAN
    /\ pc \in {"switch", "under", "third", "ident", "type", "comment"} =>
            mTokenBuffer # << >>

\* s is what the text holds from offset o on, but for EOFs behind its first m
\* characters, as consume() answers when nothing is left.
Spells(s, o, m) ==
    /\ o + m <= Len(text)
    /\ \A i \in 1 .. m : s[i] = text[o + i]
    /\ \A i \in m + 1 .. Len(s) : s[i] = EOF

\* A token's lexeme is the source at the token's offset, a first part of it at least
\* and then EOFs.  What a peek() behind the chunk can do to it is to append EOFs,
\* never to repeat or swap a character (lexer.cpp:49, 67, 178-209, 456-482, 494, 529).
TokensMatchSource ==
    \A k \in DOMAIN mTokens :
        LET t == mTokens[k] IN
        /\ t.span = Len(t.lexeme)
        /\ \E m \in 1 .. t.span : Spells(t.lexeme, t.offset, m)

\* The source up to here: where the next token starts, or the current one did.
Scanned == IF mTokenBuffer = << >> THEN mOffset ELSE offset

Covered(i) == \E k \in DOMAIN mTokens :
                i \in mTokens[k].offset + 1 .. mTokens[k].offset + mTokens[k].span

InComment(i) == \E j \in 1 .. i :
                    /\ text[j] = "#"
                    /\ ~Covered(j)
                    /\ \A k \in j .. i - 1 : text[k] # NL

\* The source is partitioned: tokens do not overlap and come in source order,
\* and what lies between them is white space, a digit, part of a comment or the
\* EOF byte that ends the analysis; nothing else is dropped, although the token
\* buffer is cleared at six places (lexer.cpp:131, 423, 460, 470, 480, 556).
SourcePartitioned ==
    /\ \A k \in 2 .. Len(mTokens) :
            mTokens[k - 1].offset + mTokens[k - 1].span <= mTokens[k].offset
    /\ \A i \in 1 .. Scanned :
            Covered(i) \/ text[i] \in Blank \cup Digit \cup {EOF} \/ InComment(i)

\* The line and column of a token are those of its first character, although
\* they were cached when the token buffer was last empty (lexer.cpp:33-37).
LocationExact ==
    \A k \in DOMAIN mTokens :
        IsPlace(mTokens[k].offset, mTokens[k].line, mTokens[k].column)

\* At level trace every token is read back with get() once the text is used up:
\* if no peek() looked behind a chunk, what is printed is the lexeme, whichever
\* chunk it came from (lexer.cpp:448-452).
TraceEchoesLexemes ==
    pc = "finish" /\ ~stale =>
        \A k \in DOMAIN mTokens :
            GetResult(mTokens[k].offset, mTokens[k].span) = mTokens[k].lexeme

\* "The size in bytes of the maximum token length" (lexer.hpp:135): no token is
\* longer, though the length is looked at behind the append, at three places and for
\* words and leftovers only, and the lexer goes on with no longer buffer
\* (lexer.cpp:38, 495, 530).
LengthBounded ==
    /\ pc # "exit" => Len(mTokenBuffer) <= MaxTokenLen
    /\ \A k \in DOMAIN mTokens : mTokens[k].span <= MaxTokenLen

-----------------------------------------------------------------------------
(* Action properties, refinement and liveness                              *)

\* The Parser's constructor calls tokenize() again: the second call adds no
\* token, reads nothing and raises nothing, even if an EOF byte ended the first
\* one in the middle of the text (lexer.cpp:15, parser.cpp:11).
SecondCallIsIdle ==
    [][calls = 2 => UNCHANGED <<mTokens, mOffset, pos, error>>]_vars

HasEofByte == \E i \in DOMAIN text : text[i] = EOF

\* Until a peek() looks behind the chunk, and on texts without an EOF byte, the
\* lexer takes the longest lexeme at every point, with its type, text and place,
\* skips what the grammar skips and fails where nothing fits (lexer.cpp:31-552).
LongestMatchUnlessStale ==
    Tokens!Init /\ [][stale' \/ HasEofByte \/ Tokens!Next]_(Tokens!vars)

\* tokenize() ends on every text, with the tokens or with an error: the comment
\* loop stops at the end of the text, and an identifier whose stale lookahead
\* never changes runs into the length check (lexer.cpp:419, 493-502).
Terminates == <>(pc \in {"done", "exit"})

=============================================================================
