----------------------------- MODULE LexerProofs -----------------------------
(***************************************************************************)
(* Proofs about Lexer, for every text, chunk size, junk and token length.  *)
(*                                                                         *)
(* What the token buffer holds is the source from offset to mOffset, with  *)
(* EOFs behind it once the text is used up; a token is made of nothing     *)
(* else.  Each action either holds a longer piece, creates a token of it,  *)
(* or drops it: three step lemmas, and one lemma per action.  The last     *)
(* part is the simulation of TokenStream.                                  *)
(***************************************************************************)
EXTENDS Lexer, InputBufferProofs

\* The labels at which a token is being read.
Reading == {"switch", "under", "third", "ident", "type"}

\* A consume() would answer EOF.
EofAhead == mDone \/ mOffset = Len(text) \/ text[mOffset + 1] = EOF

\* What is known of the buffer at each label.
LabelOK ==
    /\ pc \in {"switch", "comment"} => ~mDone /\ Len(mTokenBuffer) = 1
    /\ pc = "comment" => First = "#"
    /\ pc = "third" => First \in OpTriple /\ Len(mTokenBuffer) = 2
    /\ pc = "under" => Len(mTokenBuffer) = 2
    /\ pc = "loop" /\ mTokenBuffer # << >> => EofAhead
    /\ pc \in {"finish", "done"} => mDone
    /\ calls = 2 => mDone /\ pc \in {"loop", "finish", "done"}
    /\ pc # "exit" => Len(mTokenBuffer) < MaxTokenLen
    /\ Len(mTokenBuffer) <= MaxTokenLen

\* s is the source from offset to e, and EOFs if that is its end.
Piece(s, e) ==
    /\ offset < e
    /\ e - offset <= Len(s)
    /\ Spells(s, offset, e - offset)
    /\ e - offset < Len(s) => e = Len(text) /\ stale

PieceInv ==
    calls = 1 /\ mTokenBuffer # << >> =>
        /\ IsPlace(offset, line, column)
        /\ offset < mOffset
        /\ pc \in Reading \cup {"loop"} => Piece(mTokenBuffer, mOffset)
        /\ pc = "comment" => /\ text[offset + 1] = "#"
                             /\ \A i \in offset + 1 .. mOffset : text[i] # NL

TokenOK(t) ==
    /\ t.span = Len(t.lexeme)
    /\ t.span \in 1 .. MaxTokenLen - 1
    /\ \E m \in 1 .. t.span : Spells(t.lexeme, t.offset, m) /\ (m < t.span => stale)
    /\ IsPlace(t.offset, t.line, t.column)

TokensOK == \A k \in DOMAIN mTokens : TokenOK(mTokens[k])

Ordered ==
    \A k \in 2 .. Len(mTokens) :
        mTokens[k - 1].offset + mTokens[k - 1].span <= mTokens[k].offset

\* While tokens may still be created, they are created behind the others.
EndsInv ==
    calls = 1 /\ pc \in Reading \cup {"loop", "comment"} =>
        \/ mTokenBuffer = << >> /\ mOffset = Len(text)
        \/ \A k \in DOMAIN mTokens : mTokens[k].offset + mTokens[k].span <= Scanned

Accounted(i) == Covered(i) \/ text[i] \in Blank \cup Digit \cup {EOF} \/ InComment(i)

AllAccounted == \A i \in 1 .. Scanned : Accounted(i)

LexInv ==
    /\ BufInv /\ PositionExact
    /\ LexTypeOK
    /\ LabelOK
    /\ PieceInv
    /\ TokensOK /\ Ordered /\ EndsInv /\ AllAccounted

-----------------------------------------------------------------------------
(* The buffer, as the lexer uses it                                         *)

\* What a step that takes n characters from the buffer leaves.
BufferMoved ==
    /\ BufInv' /\ PositionExact'
    /\ text' = text
    /\ mOffset' \in Nat
    /\ mOffset <= mOffset' /\ mOffset' <= Len(text)

LEMMA OffsetInText ==
    ASSUME BufInv
    PROVE  /\ text \in Seq(Chars) /\ Len(text) \in Nat
           /\ mOffset \in 0 .. Len(text)
           /\ \A i \in 1 .. Len(text) : text[i] \in Chars
<1>1. text \in Seq(Chars) /\ Len(text) \in Nat /\ \A i \in 1 .. Len(text) : text[i] \in Chars
  BY TextIsSeq DEF BufInv
<1>2. mOffset \in 0 .. Len(text)
  BY <1>1 DEF BufInv, BufTypeOK, WindowInv
<1> QED
  BY <1>1, <1>2

LEMMA NoInputMoves ==
    ASSUME BufInv, PositionExact, NoInput
    PROVE  BufferMoved /\ mOffset' = mOffset
<1>1. BufInv'
  BY StutterBufInv DEF NoInput
<1>2. PositionExact' /\ text' = text /\ mOffset' = mOffset
  BY DEF NoInput, bufferVars, PositionExact, IsPlace
<1> QED
  BY <1>1, <1>2, OffsetInText DEF BufferMoved

\* An answer of consume() that is no character of the text is EOF at its end: the
\* other way, with mDone set and a chunk that is read and not served, is open only
\* behind a full chunk, where peek() shows NUL.
LEMMA ConsumeMoves ==
    ASSUME BufInv, PositionExact, NEW c \in Chars, Consume(c),
           ~mDone \/ PeekValue # NUL
    PROVE  /\ BufferMoved
           /\ mDone' <=> mDone \/ c = EOF
           /\ \/ mOffset < Len(text) /\ c = text[mOffset + 1] /\ mOffset' = mOffset + 1
              \/ mOffset = Len(text) /\ c = EOF /\ mOffset' = mOffset
<1>1. BufInv' /\ PositionExact'
  BY ConsumeBufInv, ConsumePositionExact
<1>2. /\ text' = text
      /\ mDone' <=> mDone \/ c = EOF
      /\ \/ mOffset < Len(text) /\ c = text[mOffset + 1] /\ mOffset' = mOffset + 1
         \/ (mOffset = Len(text) \/ mDone) /\ c = EOF /\ mOffset' = mOffset
  BY ConsumeIsStreamStep
<1>3. mOffset \in 0 .. Len(text) /\ Len(text) \in Nat
  BY OffsetInText
<1>4. ASSUME ~(mOffset < Len(text) /\ c = text[mOffset + 1] /\ mOffset' = mOffset + 1)
      PROVE  mOffset = Len(text)
  <2>1. ReturnEof(c)
    <3>1. CASE ServeFromChunk(c)
      <4>1. mIndex < mNumChars /\ c = mBuffer[mIndex] /\ mOffset' = mOffset + 1
        BY <3>1 DEF ServeFromChunk, Advance
      <4>2. mOffset < Len(text) /\ c = text[mOffset + 1]
        BY <4>1, TextIsSeq DEF BufInv, BufTypeOK, WindowInv
      <4> QED
        BY <4>1, <4>2, <1>4
    <3>2. CASE ServeAfterRefill(c)
      <4>1. mOffset' = mOffset + 1
        BY <3>2 DEF ServeAfterRefill, Advance
      <4> QED
        BY <4>1, <1>2, <1>3, <1>4
    <3> QED
      BY <3>1, <3>2 DEF Consume
  <2>2. mIndex >= mNumChars /\ (ReadCount = 0 \/ mDone)
    BY <2>1 DEF ReturnEof
  <2>3. mIndex = mNumChars /\ mOffset = pos
    BY <2>2 DEF BufInv, BufTypeOK, WindowInv
  <2>4. CASE ReadCount = 0
    BY <2>3, <2>4, RefillBounds
  <2>5. CASE ReadCount # 0
    <3>1. PeekValue # NUL
      BY <2>2, <2>5
    <3>2. mIndex < BufferSize
      BY <3>1, SizeAssumption DEF PeekValue
    <3>3. mNumChars < BufferSize
      BY <2>3, <3>2
    <3> QED
      BY <3>3, <2>3 DEF BufInv, WindowInv
  <2> QED
    BY <2>4, <2>5
<1>5. BufferMoved
  BY <1>1, <1>2, <1>3 DEF BufferMoved
<1> QED
  BY <1>2, <1>4, <1>5

\* A peek() in front of the end of the chunk shows what consume() will return.
LEMMA PeekIsNext ==
    ASSUME BufInv, mIndex < mNumChars
    PROVE  /\ mOffset < Len(text) /\ PeekValue = text[mOffset + 1]
           /\ \A c \in Chars : Consume(c) => c = PeekValue
<1>1. mOffset < Len(text) /\ mBuffer[mIndex] = text[mOffset + 1]
  BY TextIsSeq DEF BufInv, BufTypeOK, WindowInv
<1>2. PeekValue = mBuffer[mIndex]
  BY SizeAssumption DEF PeekValue, BufInv, BufTypeOK, WindowInv
<1>3. ASSUME NEW c \in Chars, Consume(c) PROVE c = PeekValue
  <2>1. mIndex \in Nat /\ mNumChars \in Nat
    BY SizeAssumption DEF BufInv, BufTypeOK
  <2>2. ~(mIndex >= mNumChars)
    BY <2>1
  <2> QED
    BY <1>2, <1>3, <2>2 DEF Consume, ServeFromChunk, ServeAfterRefill, ReturnEof
<1> QED
  BY <1>1, <1>2, <1>3

\* If peek() shows EOF, consume() would answer EOF.
LEMMA PeekedEof ==
    ASSUME BufInv, PeekValue = EOF
    PROVE  EofAhead
<1>1. CASE mIndex < mNumChars
  BY <1>1, PeekIsNext DEF EofAhead
<1>2. CASE ~(mIndex < mNumChars)
  <2>1. mIndex < BufferSize
    BY CharsAssumption DEF PeekValue
  <2>2. mNumChars < BufferSize /\ mIndex = mNumChars
    BY <1>2, <2>1, SizeAssumption DEF BufInv, BufTypeOK, WindowInv
  <2> QED
    BY <2>2, SizeAssumption DEF EofAhead, BufInv, BufTypeOK, WindowInv
<1> QED
  BY <1>1, <1>2

-----------------------------------------------------------------------------
(* The piece of the source that is read                                     *)

\* s is what the token buffer would hold if the step put it there.
Taken(s) ==
    /\ BufferMoved
    /\ s \in Seq(Chars) /\ s # << >> /\ s[1] = First
    /\ offset < mOffset'
    /\ mOffset' - offset <= Len(s)
    /\ Spells(s, offset, mOffset' - offset)
    /\ mOffset' - offset < Len(s) => mOffset' = Len(text) /\ stale'

LEMMA ReadingPiece ==
    ASSUME LexInv, pc \in Reading
    PROVE  /\ calls = 1 /\ mTokenBuffer # << >> /\ mTokenBuffer \in Seq(Chars)
           /\ IsPlace(offset, line, column)
           /\ offset \in Nat /\ offset < mOffset /\ mOffset - offset <= Len(mTokenBuffer)
           /\ Spells(mTokenBuffer, offset, mOffset - offset)
           /\ mOffset - offset < Len(mTokenBuffer) => mOffset = Len(text) /\ stale
<1>1. /\ mTokenBuffer # << >> /\ mTokenBuffer \in Seq(Chars)
      /\ offset \in Nat /\ calls \in {1, 2}
  BY DEF LexInv, LexTypeOK, Reading
<1>2. calls = 1
  BY <1>1 DEF LexInv, LabelOK, Reading
<1> QED
  BY <1>1, <1>2 DEF LexInv, PieceInv, Piece

LEMMA StandsTaken ==
    ASSUME LexInv, pc \in Reading, NoInput, stale => stale'
    PROVE  Taken(mTokenBuffer)
<1>1. BufferMoved /\ mOffset' = mOffset
  BY NoInputMoves DEF LexInv
<1> QED
  BY <1>1, ReadingPiece DEF Taken, First

LEMMA MoreTaken ==
    ASSUME LexInv, pc \in Reading, NEW d \in Chars, Consume(d), Peeks,
           ~mDone \/ PeekValue # NUL
    PROVE  Taken(Append(mTokenBuffer, d))
<1> DEFINE s == Append(mTokenBuffer, d)
           n == Len(mTokenBuffer)
<1>1. /\ BufferMoved
      /\ \/ mOffset < Len(text) /\ d = text[mOffset + 1] /\ mOffset' = mOffset + 1
         \/ mOffset = Len(text) /\ d = EOF /\ mOffset' = mOffset
  BY ConsumeMoves DEF LexInv
<1>2. /\ mTokenBuffer \in Seq(Chars) /\ n \in Nat /\ n > 0
      /\ offset \in Nat /\ offset < mOffset /\ mOffset - offset <= n
      /\ Spells(mTokenBuffer, offset, mOffset - offset)
      /\ mOffset - offset < n => mOffset = Len(text) /\ stale
  BY ReadingPiece
<1>3. /\ s \in Seq(Chars) /\ Len(s) = n + 1 /\ s # << >> /\ s[n + 1] = d
      /\ \A i \in 1 .. n : s[i] = mTokenBuffer[i]
  BY <1>2
<1>4. s[1] = First
  BY <1>2, <1>3 DEF First
<1>5. mOffset \in Nat /\ Len(text) \in Nat
  BY OffsetInText DEF LexInv
<1>6. CASE mOffset < Len(text) /\ d = text[mOffset + 1] /\ mOffset' = mOffset + 1
  <2>1. mOffset - offset = n
    BY <1>2, <1>5, <1>6
  <2>2. mOffset' - offset = n + 1 /\ offset + (n + 1) = mOffset + 1
    BY <2>1, <1>2, <1>5, <1>6
  <2>3. Spells(s, offset, n + 1)
    <3>1. \A i \in 1 .. n : mTokenBuffer[i] = text[offset + i]
      BY <1>2, <2>1 DEF Spells
    <3>2. \A i \in 1 .. n + 1 : s[i] = text[offset + i]
      <4>1. TAKE i \in 1 .. n + 1
      <4>2. CASE i = n + 1
        BY <4>2, <1>3, <1>6, <2>2
      <4>3. CASE i # n + 1
        <5>1. i \in 1 .. n
          BY <4>3, <1>2
        <5> QED
          BY <5>1, <3>1, <1>3
      <4> QED
        BY <4>2, <4>3
    <3>3. offset + (n + 1) <= Len(text)
      BY <2>2, <1>6, <1>5
    <3> QED
      BY <3>2, <3>3, <1>2, <1>3 DEF Spells
  <2> QED
    BY <1>1, <1>2, <1>3, <1>4, <2>2, <2>3, <1>5, <1>6 DEF Taken
<1>7. CASE mOffset = Len(text) /\ d = EOF /\ mOffset' = mOffset
  <2>1. stale'
    <3>1. ~(mIndex < mNumChars)
      BY <1>7, <1>5, PeekIsNext DEF LexInv
    <3>2. mIndex \in Nat /\ mNumChars \in Nat
      BY SizeAssumption DEF LexInv, BufInv, BufTypeOK
    <3>3. mIndex >= mNumChars
      BY <3>1, <3>2
    <3>4. stale' = TRUE
      BY <3>3 DEF Peeks
    <3> QED
      BY <3>4
  <2>2. Spells(s, offset, mOffset - offset)
    <3>1. /\ offset + (mOffset - offset) <= Len(text)
          /\ \A i \in 1 .. mOffset - offset : mTokenBuffer[i] = text[offset + i]
          /\ \A i \in (mOffset - offset) + 1 .. n : mTokenBuffer[i] = EOF
      BY <1>2 DEF Spells
    <3>2. \A i \in 1 .. mOffset - offset : s[i] = text[offset + i]
      BY <3>1, <1>2, <1>3, <1>5
    <3>3. \A i \in (mOffset - offset) + 1 .. n + 1 : s[i] = EOF
      BY <3>1, <1>2, <1>3, <1>5, <1>7
    <3> QED
      BY <3>1, <3>2, <3>3, <1>3 DEF Spells
  <2>3. mOffset' - offset <= Len(s) /\ offset < mOffset'
    BY <1>2, <1>3, <1>5, <1>7
  <2> QED
    BY <1>1, <1>3, <1>4, <1>7, <2>1, <2>2, <2>3 DEF Taken
<1> QED
  BY <1>1, <1>6, <1>7

-----------------------------------------------------------------------------
(* What becomes of the tokens                                               *)

LEMMA TokenStays ==
    ASSUME NEW t, NEW u, TokenOK(t), u = t, text' = text, stale => stale'
    PROVE  TokenOK(u)'
BY DEF TokenOK, Spells, IsPlace

LEMMA TokensKept ==
    ASSUME LexInv, UNCHANGED <<text, mTokens>>, stale => stale'
    PROVE  TokensOK' /\ Ordered'
BY DEF LexInv, TokensOK, TokenOK, Spells, IsPlace, Ordered

LEMMA AccountedKept ==
    ASSUME UNCHANGED <<text, mTokens>>, NEW i \in Nat, Accounted(i)
    PROVE  Accounted(i)'
BY DEF Accounted, Covered, InComment

\* A new token covers nothing that is accounted for, in a comment or otherwise.
LEMMA AccountedGrows ==
    ASSUME text' = text, NEW t, mTokens' = Append(mTokens, t), mTokens \in Seq(TokenSet),
           t.offset \in Nat, NEW i \in Nat, i <= t.offset, Accounted(i)
    PROVE  Accounted(i)'
<1>1. /\ Len(mTokens) \in Nat /\ DOMAIN mTokens = 1 .. Len(mTokens)
      /\ DOMAIN mTokens' = 1 .. Len(mTokens) + 1
      /\ \A k \in 1 .. Len(mTokens) : mTokens'[k] = mTokens[k]
      /\ mTokens'[Len(mTokens) + 1] = t
  OBVIOUS
<1>2. ASSUME Covered(i) PROVE Covered(i)'
  BY <1>1, <1>2 DEF Covered
<1>3. ASSUME NEW j \in 1 .. i, ~Covered(j) PROVE ~Covered(j)'
  <2>1. SUFFICES ASSUME NEW k \in DOMAIN mTokens',
                        j \in mTokens'[k].offset + 1 .. mTokens'[k].offset + mTokens'[k].span
                 PROVE  FALSE
    BY DEF Covered
  <2>2. CASE k \in 1 .. Len(mTokens)
    BY <2>1, <2>2, <1>1, <1>3 DEF Covered
  <2>3. CASE k = Len(mTokens) + 1
    BY <2>1, <2>3, <1>1
  <2> QED
    BY <2>1, <2>2, <2>3, <1>1
<1>4. ASSUME InComment(i) PROVE InComment(i)'
  <2>1. PICK j \in 1 .. i : text[j] = "#" /\ ~Covered(j) /\ \A k \in j .. i - 1 : text[k] # NL
    BY <1>4 DEF InComment
  <2>2. ~Covered(j)'
    BY <2>1, <1>3
  <2> QED
    BY <2>1, <2>2 DEF InComment, Covered
<1> QED
  BY <1>2, <1>4 DEF Accounted

\* The other parts of the invariant, of the variables alone.
LEMMA TypesStay ==
    ASSUME LexInv, BufInv', mTokenBuffer' \in Seq(Chars), mTokens' \in Seq(TokenSet),
           offset' \in Nat, line' \in Nat, column' \in Nat, pc' \in Labels, error' \in Errors,
           calls' \in {1, 2}, stale' \in BOOLEAN,
           pc' \in Reading \cup {"comment"} => mTokenBuffer' # << >>
    PROVE  LexTypeOK'
BY DEF LexTypeOK, BufInv, Reading

\* The piece stays in the buffer.
LEMMA HoldStep ==
    ASSUME LexInv, pc \in Reading, NEW s, Taken(s), mTokenBuffer' = s,
           UNCHANGED <<offset, line, column, calls, mTokens>>, stale => stale', stale' \in BOOLEAN,
           pc' \in Reading \cup {"loop", "exit"}, error' \in Errors, LabelOK'
    PROVE  LexInv'
<1>1. /\ BufInv' /\ PositionExact' /\ text' = text /\ mOffset' \in Nat /\ mOffset <= mOffset'
      /\ s \in Seq(Chars) /\ s # << >>
      /\ offset < mOffset' /\ Piece(s, mOffset)'
  BY DEF Taken, BufferMoved, Piece, Spells
<1>2. /\ calls = 1 /\ mTokenBuffer # << >>
      /\ IsPlace(offset, line, column) /\ offset \in Nat
  BY ReadingPiece
<1>3. LexTypeOK'
  BY <1>1, TypesStay DEF LexInv, LexTypeOK, Labels, Reading
<1>4. PieceInv'
  BY <1>1, <1>2 DEF PieceInv, IsPlace, Reading
<1>5. TokensOK' /\ Ordered'
  BY <1>1, TokensKept
<1>6. Scanned = offset /\ Scanned' = offset
  BY <1>1, <1>2 DEF Scanned
<1>7. EndsInv'
  BY <1>2, <1>6 DEF LexInv, EndsInv
<1>8. AllAccounted'
  <2>1. ASSUME NEW i \in 1 .. offset PROVE Accounted(i)'
    <3>1. Accounted(i)
      BY <1>6 DEF LexInv, AllAccounted
    <3>2. i \in Nat
      BY <1>2
    <3> QED
      BY <3>1, <3>2, <1>1, AccountedKept
  <2> QED
    BY <2>1, <1>6 DEF AllAccounted
<1> QED
  BY <1>1, <1>3, <1>4, <1>5, <1>7, <1>8 DEF LexInv

LEMMA Distance ==
    ASSUME NEW a \in Nat, NEW b \in Nat, a < b
    PROVE  b - a \in Nat /\ b - a > 0
OBVIOUS

LEMMA NewToken ==
    ASSUME LexInv, pc \in Reading, NEW s, Taken(s), NEW type \in TokenTypes,
           Len(s) < MaxTokenLen, stale => stale', UNCHANGED startVars
    PROVE  /\ Token(type, s) \in TokenSet
           /\ Token(type, s).offset = offset /\ Token(type, s).span = Len(s)
           /\ TokenOK(Token(type, s))'
<1> DEFINE t == Token(type, s)
           m == mOffset' - offset
<1>1. /\ text' = text /\ mOffset' \in Nat /\ s \in Seq(Chars) /\ s # << >>
      /\ offset < mOffset' /\ m <= Len(s) /\ Spells(s, offset, m)
      /\ m < Len(s) => stale'
  BY DEF Taken, BufferMoved
<1>2. IsPlace(offset, line, column) /\ offset \in Nat /\ line \in Nat /\ column \in Nat
  BY ReadingPiece DEF LexInv, LexTypeOK
<1>3. t = [type |-> type, lexeme |-> s, offset |-> offset, span |-> Len(s),
           line |-> line, column |-> column]
  BY DEF Token
<1>4. Len(s) \in 1 .. MaxTokenLen - 1 /\ m \in 1 .. Len(s)
  <2>1. Len(s) \in Nat /\ Len(s) > 0
    BY <1>1
  <2>2. Len(s) \in 1 .. MaxTokenLen - 1
    BY <2>1, MaxTokenLenAssumption
  <2>3. m \in Nat /\ m > 0 /\ m <= Len(s)
    <3>1. mOffset' \in Nat /\ offset \in Nat /\ offset < mOffset'
      BY <1>1, <1>2
    <3>2. m \in Nat /\ m > 0
      BY <3>1, Distance
    <3> QED
      BY <3>2, <1>1
  <2> QED
    BY <2>1, <2>2, <2>3
<1>5. t \in TokenSet
  BY <1>1, <1>2, <1>3 DEF TokenSet
<1>6. t' = t
  BY DEF Token, startVars
<1>7. TokenOK(t)'
  <2>2. /\ t.span = Len(t.lexeme) /\ t.span \in 1 .. MaxTokenLen - 1
        /\ m \in 1 .. t.span /\ (m < t.span => stale')
    BY <1>1, <1>3, <1>4
  <2>3. \E k \in 1 .. t.span : /\ t.offset + k <= Len(text')
                               /\ \A i \in 1 .. k : t.lexeme[i] = text'[t.offset + i]
                               /\ \A i \in k + 1 .. Len(t.lexeme) : t.lexeme[i] = EOF
                               /\ k < t.span => stale'
    BY <1>1, <1>3, <2>2 DEF Spells
  <2>4. /\ t.line = Cardinality({i \in 1 .. t.offset : text'[i] = NL})
        /\ t.column <= t.offset
        /\ \A i \in t.offset - t.column + 1 .. t.offset : text'[i] # NL
        /\ t.column < t.offset => text'[t.offset - t.column] = NL
    BY <1>1, <1>2, <1>3 DEF IsPlace
  <2> QED
    BY <1>6, <2>2, <2>3, <2>4 DEF TokenOK, Spells, IsPlace
<1> QED
  BY <1>3, <1>5, <1>7

\* The piece becomes a token, behind those there are.
LEMMA CreateStep ==
    ASSUME LexInv, pc \in Reading, NEW s, Taken(s), NEW type \in TokenTypes,
           CreateToken(type, s), Len(s) < MaxTokenLen,
           UNCHANGED startVars, UNCHANGED calls, stale => stale', stale' \in BOOLEAN
    PROVE  LexInv'
<1> DEFINE t == Token(type, s)
           n == Len(mTokens)
<1>1. /\ BufInv' /\ PositionExact' /\ text' = text /\ mOffset' \in Nat
      /\ s \in Seq(Chars) /\ s # << >>
      /\ offset < mOffset' /\ mOffset' - offset <= Len(s)
      /\ mOffset' - offset < Len(s) => mOffset' = Len(text)
  BY DEF Taken, BufferMoved
<1>2. calls = 1 /\ mTokenBuffer # << >> /\ offset \in Nat
  BY ReadingPiece
<1>3. /\ t \in TokenSet /\ t.offset = offset /\ t.span = Len(s) /\ TokenOK(t)'
  BY NewToken
<1>4. /\ mTokens \in Seq(TokenSet) /\ n \in Nat /\ Len(s) \in Nat
      /\ DOMAIN mTokens = 1 .. n
  BY <1>1 DEF LexInv, LexTypeOK
<1>5. /\ mTokens' = Append(mTokens, t) /\ mTokenBuffer' = << >> /\ pc' = "loop"
      /\ error' = error /\ offset' = offset /\ line' = line /\ column' = column
  BY DEF CreateToken, startVars
<1>6. /\ Len(mTokens') = n + 1 /\ DOMAIN mTokens' = 1 .. n + 1
      /\ mTokens' \in Seq(TokenSet)
      /\ \A k \in 1 .. n : mTokens'[k] = mTokens[k]
      /\ mTokens'[n + 1] = t
  BY <1>3, <1>4, <1>5
<1>7. \A k \in 1 .. n : mTokens[k].offset + mTokens[k].span <= offset
  BY <1>2, <1>4 DEF LexInv, EndsInv, Scanned
<1>8. LexTypeOK'
  <2>1. mTokenBuffer' \in Seq(Chars)
    BY <1>5
  <2>2. /\ offset' \in Nat /\ line' \in Nat /\ column' \in Nat /\ error' \in Errors
        /\ pc' \in Labels /\ calls' \in {1, 2}
    BY <1>2, <1>5 DEF LexInv, LexTypeOK, Labels
  <2>3. ~(pc' \in Reading \cup {"comment"})
    BY <1>5 DEF Reading
  <2> QED
    BY <1>1, <1>6, <2>1, <2>2, <2>3, TypesStay
<1>9. LabelOK'
  <2>1. Len(mTokenBuffer') = 0 /\ pc' = "loop" /\ calls' = 1
    BY <1>2, <1>5
  <2> QED
    BY <1>5, <2>1, MaxTokenLenAssumption DEF LabelOK
<1>10. PieceInv'
  BY <1>5 DEF PieceInv
<1>11. TokensOK'
  <2>1. ASSUME NEW k, k \in 1 .. n PROVE TokenOK(mTokens[k])'
    <3>1. TokenOK(mTokens[k]) /\ mTokens'[k] = mTokens[k]
      BY <2>1, <1>4, <1>6 DEF LexInv, TokensOK
    <3> QED
      BY <3>1, <1>1, TokenStays
  <2>2. ASSUME NEW k, k = n + 1 PROVE TokenOK(mTokens[k])'
    <3>1. mTokens'[k] = t /\ t' = t
      BY <2>2, <1>6 DEF Token, startVars
    <3> QED
      BY <3>1, <1>3 DEF TokenOK, Spells, IsPlace
  <2>3. ASSUME NEW k \in 1 .. n + 1 PROVE TokenOK(mTokens[k])'
    <3>1. k \in 1 .. n \/ k = n + 1
      BY <1>4
    <3> QED
      BY <3>1, <2>1, <2>2
  <2> QED
    BY <2>3, <1>6 DEF TokensOK
<1>12. Ordered'
  <2>1. ASSUME NEW k \in 2 .. n + 1
        PROVE  mTokens'[k - 1].offset + mTokens'[k - 1].span <= mTokens'[k].offset
    <3>1. k - 1 \in 1 .. n
      BY <1>4
    <3>2. CASE k = n + 1
      BY <3>1, <3>2, <1>3, <1>6, <1>7
    <3>3. CASE k # n + 1
      <4>1. k \in 2 .. n /\ k \in 1 .. n
        BY <3>3, <1>4
      <4> QED
        BY <3>1, <4>1, <1>6 DEF LexInv, Ordered
    <3> QED
      BY <3>2, <3>3
  <2> QED
    BY <2>1, <1>6 DEF Ordered
<1>13. EndsInv'
  <2>1. CASE mOffset' = Len(text)
    BY <2>1, <1>1, <1>5 DEF EndsInv
  <2>2. CASE mOffset' # Len(text)
    <3>1. mOffset' = offset + Len(s)
      BY <2>2, <1>1, <1>2, <1>4
    <3>2. \A k \in 1 .. n + 1 : mTokens'[k].offset + mTokens'[k].span <= mOffset'
      <4>1. TAKE k \in 1 .. n + 1
      <4>2. CASE k = n + 1
        BY <4>2, <3>1, <1>3, <1>6, <1>1
      <4>3. CASE k # n + 1
        <5>1. k \in 1 .. n
          BY <4>3, <1>4
        <5>2. mTokens'[k].offset + mTokens'[k].span <= offset
          BY <5>1, <1>6, <1>7
        <5>3. mTokens'[k].offset \in Nat /\ mTokens'[k].span \in Nat
          <6>1. mTokens'[k] \in TokenSet
            BY <5>1, <1>4, <1>6
          <6> QED
            BY <6>1 DEF TokenSet
        <5> QED
          BY <5>2, <5>3, <1>1, <1>2
      <4> QED
        BY <4>2, <4>3
    <3> QED
      BY <3>2, <1>5, <1>6 DEF EndsInv, Scanned
  <2> QED
    BY <2>1, <2>2
<1>14. AllAccounted'
  <2>1. ASSUME NEW i \in 1 .. mOffset' PROVE Accounted(i)'
    <3>1. CASE i <= offset
      <4>1. Accounted(i)
        BY <3>1, <1>1, <1>2 DEF LexInv, AllAccounted, Scanned
      <4>2. i \in Nat
        BY <1>1
      <4> QED
        <5>1. t.offset \in Nat /\ i <= t.offset
          BY <3>1, <1>2, <1>3
        <5> HIDE DEF t
        <5> QED
          BY <4>1, <4>2, <5>1, <1>1, <1>4, <1>5, AccountedGrows
    <3>2. CASE ~(i <= offset)
      <4>1. i \in offset + 1 .. offset + Len(s)
        BY <3>2, <1>1, <1>2, <1>4
      <4>2. n + 1 \in DOMAIN mTokens'
        BY <1>4, <1>6
      <4>3. i \in mTokens'[n + 1].offset + 1 .. mTokens'[n + 1].offset + mTokens'[n + 1].span
        BY <4>1, <1>3, <1>6
      <4> QED
        BY <4>2, <4>3 DEF Accounted, Covered
    <3> QED
      BY <3>1, <3>2
  <2> QED
    BY <2>1, <1>5 DEF AllAccounted, Scanned
<1> QED
  BY <1>1, <1>8, <1>9, <1>10, <1>11, <1>12, <1>13, <1>14 DEF LexInv

-----------------------------------------------------------------------------
(* A character is dropped                                                   *)

\* Behind the loop's consume() the buffer holds one character of the source.
LEMMA OneCharacter ==
    ASSUME LexInv, pc = "switch"
    PROVE  /\ calls = 1 /\ ~mDone /\ mTokenBuffer # << >>
           /\ mOffset = offset + 1 /\ offset \in Nat /\ mOffset <= Len(text)
           /\ text[offset + 1] = First
           /\ mTokenBuffer \in Seq(Chars) /\ Len(mTokenBuffer) = 1 /\ mTokenBuffer[1] = First
<1>1. /\ calls = 1 /\ mTokenBuffer # << >> /\ mTokenBuffer \in Seq(Chars)
      /\ offset \in Nat /\ offset < mOffset /\ mOffset - offset <= Len(mTokenBuffer)
      /\ Spells(mTokenBuffer, offset, mOffset - offset)
  BY ReadingPiece DEF Reading
<1>2. Len(mTokenBuffer) = 1 /\ ~mDone
  BY DEF LexInv, LabelOK
<1>3. mOffset \in Nat /\ mOffset <= Len(text) /\ Len(text) \in Nat
  BY OffsetInText DEF LexInv
<1>4. mOffset = offset + 1 /\ mOffset - offset = 1
  BY <1>1, <1>2, <1>3
<1>5. mTokenBuffer[1] = text[offset + 1]
  BY <1>1, <1>4 DEF Spells
<1> QED
  BY <1>1, <1>2, <1>3, <1>4, <1>5 DEF First

\* The token buffer is cleared, and everything it held is accounted for.
LEMMA ClearStep ==
    ASSUME LexInv, BufferMoved, calls = 1, mTokenBuffer # << >>,
           UNCHANGED <<offset, line, column, calls, mTokens, error, stale>>,
           mTokenBuffer' = << >>, pc' = "loop",
           \A k \in DOMAIN mTokens : mTokens[k].offset + mTokens[k].span <= offset,
           offset < mOffset,
           \A i \in offset + 1 .. mOffset' : Accounted(i)
    PROVE  LexInv'
<1>1. /\ BufInv' /\ PositionExact' /\ text' = text /\ mOffset' \in Nat /\ mOffset <= mOffset'
  BY DEF BufferMoved
<1>2. LexTypeOK'
  <2>1. mTokenBuffer' \in Seq(Chars) /\ ~(pc' \in Reading \cup {"comment"})
    BY DEF Reading
  <2>2. /\ offset' \in Nat /\ line' \in Nat /\ column' \in Nat /\ error' \in Errors
        /\ pc' \in Labels /\ calls' \in {1, 2} /\ stale' \in BOOLEAN
        /\ mTokens' \in Seq(TokenSet)
    BY DEF LexInv, LexTypeOK, Labels
  <2> QED
    BY <1>1, <2>1, <2>2, TypesStay
<1>3. LabelOK'
  <2>1. Len(mTokenBuffer') = 0 /\ pc' = "loop" /\ calls' = 1
    OBVIOUS
  <2> QED
    BY <2>1, MaxTokenLenAssumption DEF LabelOK
<1>4. PieceInv'
  BY DEF PieceInv
<1>5. TokensOK' /\ Ordered'
  BY <1>1, TokensKept
<1>6. EndsInv'
  <2>1. ASSUME NEW k \in DOMAIN mTokens
        PROVE  mTokens[k].offset + mTokens[k].span <= mOffset'
    <3>1. mTokens[k].offset \in Nat /\ mTokens[k].span \in Nat
      <4>1. mTokens[k] \in TokenSet
        BY DEF LexInv, LexTypeOK
      <4> QED
        BY <4>1 DEF TokenSet
    <3>2. mTokens[k].offset + mTokens[k].span <= offset /\ offset \in Nat /\ mOffset \in Nat
      BY DEF LexInv, LexTypeOK, BufInv, BufTypeOK
    <3> QED
      BY <3>1, <3>2, <1>1
  <2> QED
    BY <2>1 DEF EndsInv, Scanned
<1>7. AllAccounted'
  <2>1. ASSUME NEW i \in 1 .. mOffset' PROVE Accounted(i)'
    <3>1. Accounted(i)
      <4>1. offset \in Nat
        BY DEF LexInv, LexTypeOK
      <4>2. CASE i <= offset
        BY <4>1, <4>2 DEF LexInv, AllAccounted, Scanned
      <4>3. CASE ~(i <= offset)
        BY <4>1, <4>3, <1>1
      <4> QED
        BY <4>2, <4>3
    <3>2. i \in Nat
      BY <1>1
    <3> QED
      BY <3>1, <3>2, <1>1, AccountedKept
  <2> QED
    BY <2>1 DEF AllAccounted, Scanned
<1> QED
  BY <1>1, <1>2, <1>3, <1>4, <1>5, <1>6, <1>7 DEF LexInv

LEMMA EndsBehind ==
    ASSUME LexInv, calls = 1, mTokenBuffer # << >>, pc \in Reading \cup {"loop", "comment"}
    PROVE  /\ \A k \in DOMAIN mTokens : mTokens[k].offset + mTokens[k].span <= offset
           /\ \A i \in Nat : i > offset => ~Covered(i)
<1>1. ASSUME NEW k \in DOMAIN mTokens PROVE mTokens[k].offset + mTokens[k].span <= offset
  BY DEF LexInv, EndsInv, Scanned
<1>2. ASSUME NEW i \in Nat, i > offset, Covered(i) PROVE FALSE
  <2>1. PICK k \in DOMAIN mTokens :
            i \in mTokens[k].offset + 1 .. mTokens[k].offset + mTokens[k].span
    BY <1>2 DEF Covered
  <2>2. mTokens[k] \in TokenSet /\ offset \in Nat
    BY DEF LexInv, LexTypeOK
  <2>3. mTokens[k].offset \in Nat /\ mTokens[k].span \in Nat
    BY <2>2 DEF TokenSet
  <2> QED
    BY <2>1, <2>2, <2>3, <1>1, <1>2
<1> QED
  BY <1>1, <1>2

\* White space and digits.
LEMMA DropStep ==
    ASSUME LexInv, pc = "switch", NoInput, First \in Blank \cup Digit,
           UNCHANGED <<offset, line, column, calls, mTokens, error, stale>>,
           mTokenBuffer' = << >>, pc' = "loop"
    PROVE  LexInv'
<1>1. BufferMoved /\ mOffset' = mOffset
  BY NoInputMoves DEF LexInv
<1>2. /\ calls = 1 /\ mTokenBuffer # << >> /\ mOffset = offset + 1 /\ offset \in Nat
      /\ text[offset + 1] = First
  BY OneCharacter
<1>3. \A k \in DOMAIN mTokens : mTokens[k].offset + mTokens[k].span <= offset
  BY <1>2, EndsBehind DEF Reading
<1>4. \A i \in offset + 1 .. mOffset' : Accounted(i)
  BY <1>1, <1>2 DEF Accounted
<1> QED
  BY <1>1, <1>2, <1>3, <1>4, ClearStep

\* A comment, up to the position of the buffer.
LEMMA CommentSoFar ==
    ASSUME LexInv, AtSwitch({"#"}) \/ pc = "comment"
    PROVE  /\ calls = 1 /\ ~mDone /\ mTokenBuffer # << >> /\ First = "#"
           /\ offset \in Nat /\ offset < mOffset
           /\ IsPlace(offset, line, column)
           /\ text[offset + 1] = "#"
           /\ \A i \in offset + 1 .. mOffset : text[i] # NL
<1>1. CASE AtSwitch({"#"})
  <2>1. pc = "switch" /\ First = "#"
    BY <1>1 DEF AtSwitch
  <2>2. /\ calls = 1 /\ ~mDone /\ mTokenBuffer # << >> /\ mOffset = offset + 1
        /\ offset \in Nat /\ text[offset + 1] = "#"
    BY <2>1, OneCharacter
  <2>3. \A i \in offset + 1 .. mOffset : text[i] # NL
    <3>1. NL # "#"
      BY ClassAssumption
    <3> QED
      BY <2>2, <3>1
  <2>4. IsPlace(offset, line, column)
    BY <2>1, ReadingPiece DEF Reading
  <2> QED
    BY <2>1, <2>2, <2>3, <2>4
<1>2. CASE pc = "comment"
  BY <1>2 DEF LexInv, LexTypeOK, LabelOK, PieceInv
<1> QED
  BY <1>1, <1>2

LEMMA CommentStep == LexInv /\ Comment => LexInv'
<1> SUFFICES ASSUME LexInv, Comment PROVE LexInv'
  OBVIOUS
<1>1. AtSwitch({"#"}) \/ pc = "comment"
  BY DEF Comment
<1>2. PICK d \in Chars : /\ Consume(d)
                         /\ IF EndsComment(d) THEN Goto("loop", << >>)
                                              ELSE Goto("comment", mTokenBuffer)
  BY DEF Comment
<1>3. UNCHANGED <<offset, line, column, calls, stale>>
  BY DEF Comment, startVars
<1>4. /\ calls = 1 /\ ~mDone /\ mTokenBuffer # << >> /\ First = "#"
      /\ offset \in Nat /\ offset < mOffset
      /\ IsPlace(offset, line, column)
      /\ text[offset + 1] = "#"
      /\ \A i \in offset + 1 .. mOffset : text[i] # NL
  BY <1>1, CommentSoFar
<1>5. /\ BufferMoved
      /\ mDone' <=> d = EOF
      /\ \/ mOffset < Len(text) /\ d = text[mOffset + 1] /\ mOffset' = mOffset + 1
         \/ mOffset = Len(text) /\ d = EOF /\ mOffset' = mOffset
  BY <1>2, <1>4, ConsumeMoves DEF LexInv
<1>6. /\ \A k \in DOMAIN mTokens : mTokens[k].offset + mTokens[k].span <= offset
      /\ \A i \in Nat : i > offset => ~Covered(i)
  BY <1>1, <1>4, EndsBehind DEF AtSwitch, Reading
<1>7. mOffset \in Nat /\ Len(text) \in Nat
  BY OffsetInText DEF LexInv
<1>8. CASE EndsComment(d)
  <2>1. UNCHANGED <<mTokens, error>> /\ mTokenBuffer' = << >> /\ pc' = "loop"
    BY <1>2, <1>8 DEF Goto
  <2>2. \A i \in offset + 1 .. mOffset' : Accounted(i)
    <3>1. TAKE i \in offset + 1 .. mOffset'
    <3>2. offset + 1 \in 1 .. i /\ ~Covered(offset + 1)
      BY <1>4, <1>5, <1>6, <1>7
    <3>3. \A k \in offset + 1 .. i - 1 : text[k] # NL
      BY <1>4, <1>5, <1>7
    <3> QED
      BY <3>2, <3>3, <1>4 DEF Accounted, InComment
  <2> QED
    BY <2>1, <2>2, <1>3, <1>4, <1>5, <1>6, ClearStep
<1>9. CASE ~EndsComment(d)
  <2>1. UNCHANGED <<mTokens, error>> /\ mTokenBuffer' = mTokenBuffer /\ pc' = "comment"
    BY <1>2, <1>9 DEF Goto
  <2>2. /\ ~mDone' /\ d # NL /\ mOffset' = mOffset + 1 /\ text[mOffset + 1] # NL
        /\ BufInv' /\ PositionExact' /\ text' = text
    BY <1>5, <1>9 DEF EndsComment, BufferMoved
  <2>3. LexTypeOK'
    BY <2>1, <2>2, <1>3, <1>4, TypesStay DEF LexInv, LexTypeOK, Labels
  <2>4. LabelOK'
    BY <2>1, <2>2, <1>1, <1>3, <1>4 DEF LexInv, LabelOK, AtSwitch, First
  <2>5. PieceInv'
    <3>1. offset < mOffset' /\ \A i \in offset + 1 .. mOffset' : text[i] # NL
      BY <2>2, <1>4, <1>7
    <3> QED
      BY <3>1, <2>1, <2>2, <1>3, <1>4 DEF PieceInv, Reading, IsPlace
  <2>6. TokensOK' /\ Ordered'
    BY <2>1, <2>2, <1>3, TokensKept
  <2>7. EndsInv'
    BY <2>1, <1>3, <1>4, <1>6 DEF EndsInv, Scanned
  <2>8. AllAccounted'
    <3>1. ASSUME NEW i \in 1 .. offset PROVE Accounted(i)'
      <4>1. Accounted(i) /\ i \in Nat
        BY <1>4 DEF LexInv, AllAccounted, Scanned
      <4> QED
        BY <4>1, <2>1, <2>2, AccountedKept
    <3> QED
      BY <3>1, <2>1, <1>3, <1>4 DEF AllAccounted, Scanned
  <2> QED
    BY <2>2, <2>3, <2>4, <2>5, <2>6, <2>7, <2>8 DEF LexInv
<1> QED
  BY <1>8, <1>9

-----------------------------------------------------------------------------
(* The head of the loop and what lies behind it                             *)

\* The steps that touch neither the source nor the tokens, nor the piece held.
LEMMA QuietStep ==
    ASSUME LexInv, NoInput,
           UNCHANGED <<offset, line, column, calls, mTokens, mTokenBuffer, stale>>,
           pc' \in {"loop", "finish", "done", "exit"}, error' \in Errors,
           pc' = "loop" => pc \in Reading, LabelOK'
    PROVE  LexInv'
<1>1. BufInv' /\ PositionExact' /\ text' = text /\ mOffset' = mOffset
  BY NoInputMoves DEF LexInv, BufferMoved
<1>2. LexTypeOK'
  BY <1>1, TypesStay DEF LexInv, LexTypeOK, Labels, Reading
<1>3. PieceInv'
  BY <1>1 DEF LexInv, PieceInv, Piece, Spells, IsPlace, Reading
<1>4. TokensOK' /\ Ordered'
  BY <1>1, TokensKept
<1>5. EndsInv'
  BY <1>1 DEF LexInv, EndsInv, Scanned, Reading
<1>6. Scanned' = Scanned /\ Scanned \in Nat
  BY <1>1 DEF Scanned, LexInv, LexTypeOK, BufInv, BufTypeOK
<1>7. AllAccounted'
  <2>1. ASSUME NEW i \in 1 .. Scanned PROVE Accounted(i)'
    <3>1. Accounted(i) /\ i \in Nat
      BY <1>6 DEF LexInv, AllAccounted
    <3> QED
      BY <3>1, <1>1, AccountedKept
  <2> QED
    BY <2>1, <1>6 DEF AllAccounted
<1> QED
  BY <1>1, <1>2, <1>3, <1>4, <1>5, <1>7 DEF LexInv

LEMMA LeaveLoopStep == LexInv /\ LeaveLoop => LexInv'
<1> SUFFICES ASSUME LexInv, LeaveLoop PROVE LexInv'
  OBVIOUS
<1>1. /\ pc = "loop" /\ mDone /\ NoInput /\ pc' = "finish"
      /\ UNCHANGED <<offset, line, column, calls, mTokens, mTokenBuffer, stale, error>>
  BY DEF LeaveLoop, Goto, startVars
<1>2. mDone'
  BY <1>1 DEF NoInput, bufferVars
<1>3. LabelOK'
  BY <1>1, <1>2 DEF LexInv, LabelOK
<1>4. error' \in Errors
  BY <1>1 DEF LexInv, LexTypeOK
<1> QED
  BY <1>1, <1>3, <1>4, QuietStep

LEMMA UnknownSymbolStep == LexInv /\ UnknownSymbol => LexInv'
<1> SUFFICES ASSUME LexInv, UnknownSymbol PROVE LexInv'
  OBVIOUS
<1>1. /\ pc = "switch" /\ NoInput /\ pc' = "exit" /\ error' = "symbol"
      /\ UNCHANGED <<offset, line, column, calls, mTokens, mTokenBuffer, stale>>
  BY DEF UnknownSymbol, Raise, startVars
<1>2. LabelOK'
  <2>1. calls = 1
    BY <1>1, OneCharacter
  <2> QED
    BY <1>1, <2>1 DEF LexInv, LabelOK
<1> QED
  BY <1>1, <1>2, QuietStep DEF Errors

\* get() at the end of a call moves nothing but the stream's state bit.
LEMMA PrintedBufInv ==
    ASSUME BufInv, good' \in BOOLEAN, good => good',
           UNCHANGED <<text, pos, chunkVars, mIndex, placeVars, mDone>>
    PROVE  BufInv'
<1>1. BufTypeOK'
  BY DEF chunkVars, placeVars, BufInv, BufTypeOK, Cells
<1>2. WindowInv'
  BY DEF chunkVars, placeVars, BufInv, BufTypeOK, WindowInv
<1> QED
  BY <1>1, <1>2 DEF BufInv

LEMMA FinishPassStep == LexInv /\ FinishPass => LexInv'
<1> SUFFICES ASSUME LexInv, FinishPass PROVE LexInv'
  OBVIOUS
<1>1. /\ pc = "finish" /\ mDone
      /\ UNCHANGED <<text, pos, chunkVars, mIndex, placeVars, mDone>>
      /\ mTokens' = mTokens /\ mTokenBuffer' = mTokenBuffer /\ error' = error
      /\ stale' = stale
  BY DEF FinishPass, Goto, LexInv, LabelOK
<1>2. \/ calls = 1 /\ calls' = 2 /\ offset' = 0 /\ line' = 0 /\ column' = 0 /\ pc' = "loop"
      \/ calls = 2 /\ UNCHANGED <<offset, line, column, calls>> /\ pc' = "done"
  BY DEF FinishPass, Goto, startVars, LexInv, LexTypeOK
<1>3. BufInv'
  <2>1. good' \in BOOLEAN /\ (good => good')
    BY DEF FinishPass, LexInv, BufInv, BufTypeOK
  <2> QED
    BY <1>1, <2>1, PrintedBufInv DEF LexInv
<1>4. PositionExact' /\ text' = text /\ mOffset' = mOffset /\ mDone'
  BY <1>1 DEF LexInv, PositionExact, IsPlace, placeVars
<1>5. LexTypeOK'
  <2>1. /\ offset' \in Nat /\ line' \in Nat /\ column' \in Nat /\ pc' \in Labels
        /\ calls' \in {1, 2} /\ ~(pc' \in Reading \cup {"comment"})
    BY <1>2 DEF LexInv, LexTypeOK, Labels, Reading
  <2>2. /\ mTokenBuffer' \in Seq(Chars) /\ mTokens' \in Seq(TokenSet)
        /\ error' \in Errors /\ stale' \in BOOLEAN
    BY <1>1 DEF LexInv, LexTypeOK
  <2> QED
    BY <1>3, <2>1, <2>2, TypesStay
<1>6. LabelOK'
  BY <1>1, <1>2, <1>4 DEF LexInv, LabelOK, EofAhead
<1>7. PieceInv' /\ EndsInv'
  BY <1>2 DEF PieceInv, EndsInv
<1>8. TokensOK' /\ Ordered'
  BY <1>1, TokensKept
<1>9. AllAccounted'
  <2>1. Scanned' = Scanned \/ Scanned' = 0
    BY <1>1, <1>2, <1>4 DEF Scanned
  <2>2. Scanned \in Nat
    BY DEF Scanned, LexInv, LexTypeOK, BufInv, BufTypeOK
  <2>3. ASSUME NEW i \in 1 .. Scanned PROVE Accounted(i)'
    <3>1. Accounted(i) /\ i \in Nat
      BY <2>2 DEF LexInv, AllAccounted
    <3> QED
      BY <3>1, <1>1, AccountedKept
  <2> QED
    BY <2>1, <2>2, <2>3 DEF AllAccounted
<1> QED
  BY <1>3, <1>4, <1>5, <1>6, <1>7, <1>8, <1>9 DEF LexInv

LEMMA ReadCharacterStep == LexInv /\ ReadCharacter => LexInv'
<1> SUFFICES ASSUME LexInv, ReadCharacter PROVE LexInv'
  OBVIOUS
<1>1. pc = "loop" /\ ~mDone /\ UNCHANGED <<calls, stale>>
  BY DEF ReadCharacter
<1>2. calls = 1
  BY <1>1 DEF LexInv, LabelOK, LexTypeOK
<1>3. /\ mTokenBuffer \in Seq(Chars) /\ Len(mTokenBuffer) < MaxTokenLen
      /\ Len(mTokenBuffer) \in Nat
      /\ offset \in Nat /\ mOffset \in Nat /\ Len(text) \in Nat
  BY <1>1, OffsetInText DEF LexInv, LexTypeOK, LabelOK
<1>4. ~TooLong(mTokenBuffer)
  BY <1>3, MaxTokenLenAssumption DEF TooLong
<1>5. PICK c \in Chars : /\ Consume(c)
                         /\ IF c = EOF THEN Goto("finish", mTokenBuffer)
                                       ELSE Goto("switch", Append(mTokenBuffer, c))
  BY <1>4 DEF ReadCharacter
<1>6. /\ BufferMoved
      /\ mDone' <=> c = EOF
      /\ \/ mOffset < Len(text) /\ c = text[mOffset + 1] /\ mOffset' = mOffset + 1
         \/ mOffset = Len(text) /\ c = EOF /\ mOffset' = mOffset
  BY <1>1, <1>5, ConsumeMoves DEF LexInv
<1>7. BufInv' /\ PositionExact' /\ text' = text /\ mOffset' \in Nat
  BY <1>6 DEF BufferMoved
<1>8. UNCHANGED <<mTokens, error>>
  BY <1>5 DEF Goto
<1>9. TokensOK' /\ Ordered'
  BY <1>1, <1>7, <1>8, TokensKept
<1>10. ASSUME NEW i \in Nat, i > 0, i <= Scanned PROVE Accounted(i)'
  <2>1. Scanned \in Nat
    BY <1>3 DEF Scanned
  <2>2. Accounted(i)
    BY <1>10, <2>1 DEF LexInv, AllAccounted
  <2> QED
    BY <2>2, <1>7, <1>8, AccountedKept
<1>11. CASE c = EOF
  <2>1. pc' = "finish" /\ mTokenBuffer' = mTokenBuffer /\ mDone'
    BY <1>5, <1>6, <1>11 DEF Goto
  <2>2. /\ offset' \in Nat /\ line' \in Nat /\ column' \in Nat
        /\ mTokenBuffer # << >> => UNCHANGED <<offset, line, column>>
    BY DEF ReadCharacter, NoteStart, startVars, LexInv, LexTypeOK, BufInv, BufTypeOK
  <2>3. LexTypeOK'
    BY <2>1, <2>2, <1>1, <1>2, <1>7, <1>8, TypesStay DEF LexInv, LexTypeOK, Labels, Reading
  <2>4. LabelOK'
    BY <2>1, <1>1, <1>2 DEF LexInv, LabelOK
  <2>5. PieceInv'
    <3>1. mTokenBuffer # << >> => IsPlace(offset, line, column) /\ offset < mOffset
      BY <1>2 DEF LexInv, PieceInv
    <3>2. mTokenBuffer # << >> => offset < mOffset'
      BY <3>1, <1>3, <1>6
    <3> QED
      BY <3>1, <3>2, <2>1, <2>2, <1>7 DEF PieceInv, Reading, IsPlace
  <2>6. EndsInv'
    BY <2>1 DEF EndsInv, Reading
  <2>7. AllAccounted'
    <3>1. CASE mTokenBuffer # << >>
      <4>1. Scanned' = offset /\ Scanned = offset
        BY <3>1, <2>1, <2>2 DEF Scanned
      <4>2. \A i \in 1 .. offset : Accounted(i)'
        BY <4>1, <1>3, <1>10
      <4> QED
        BY <4>1, <4>2 DEF AllAccounted
    <3>2. CASE mTokenBuffer = << >>
      <4>1. Scanned' = mOffset' /\ Scanned = mOffset
        BY <3>2, <2>1 DEF Scanned
      <4>2. ASSUME NEW i \in 1 .. mOffset' PROVE Accounted(i)'
        <5>1. CASE i <= mOffset
          BY <5>1, <4>1, <1>7, <1>10
        <5>2. CASE ~(i <= mOffset)
          <6>1. i = mOffset + 1 /\ text[i] = EOF
            BY <5>2, <1>3, <1>6, <1>11
          <6> QED
            BY <6>1, <1>7 DEF Accounted
        <5> QED
          BY <5>1, <5>2
      <4> QED
        BY <4>1, <4>2 DEF AllAccounted
    <3> QED
      BY <3>1, <3>2
  <2> QED
    BY <1>7, <1>9, <2>3, <2>4, <2>5, <2>6, <2>7 DEF LexInv
<1>12. CASE c # EOF
  <2>1. /\ pc' = "switch" /\ mTokenBuffer' = Append(mTokenBuffer, c) /\ ~mDone'
        /\ mOffset < Len(text) /\ c = text[mOffset + 1] /\ mOffset' = mOffset + 1
    BY <1>5, <1>6, <1>12 DEF Goto
  <2>2. mTokenBuffer = << >>
    <3>1. ~EofAhead
      BY <2>1, <1>1, <1>3, <1>12 DEF EofAhead
    <3> QED
      BY <3>1, <1>1 DEF LexInv, LabelOK
  <2>3. /\ mTokenBuffer' = <<c>> /\ Len(mTokenBuffer') = 1 /\ mTokenBuffer'[1] = c
        /\ mTokenBuffer' \in Seq(Chars) /\ mTokenBuffer' # << >>
    BY <2>1, <2>2
  <2>4. offset' = mOffset /\ line' = mLine /\ column' = mColumn
    BY <2>2 DEF ReadCharacter, NoteStart
  <2>5. LexTypeOK'
    <3>1. offset' \in Nat /\ line' \in Nat /\ column' \in Nat /\ pc' \in Labels
      BY <2>1, <2>4 DEF LexInv, BufInv, BufTypeOK, Labels
    <3>2. /\ calls' \in {1, 2} /\ stale' \in BOOLEAN /\ error' \in Errors
          /\ mTokens' \in Seq(TokenSet)
      BY <1>1, <1>8 DEF LexInv, LexTypeOK
    <3> QED
      BY <3>1, <3>2, <2>3, <1>7, TypesStay
  <2>6. LabelOK'
    BY <2>1, <2>3, <1>1, <1>2, MaxTokenLenAssumption DEF LabelOK
  <2>7. PieceInv'
    <3>1. IsPlace(offset, line, column)'
      BY <2>4, <1>7 DEF LexInv, PositionExact, IsPlace
    <3>2. offset' < mOffset' /\ mOffset' - offset' = 1
      BY <2>1, <2>4, <1>3
    <3>3. Piece(mTokenBuffer, mOffset)'
      BY <3>2, <2>1, <2>3, <2>4, <1>3, <1>7 DEF Piece, Spells
    <3> QED
      BY <3>1, <3>2, <3>3, <2>1 DEF PieceInv
  <2>8. EndsInv'
    <3>1. \A k \in DOMAIN mTokens : mTokens[k].offset + mTokens[k].span <= mOffset
      BY <2>1, <2>2, <1>1, <1>2, <1>3 DEF LexInv, EndsInv, Scanned
    <3>2. Scanned' = mOffset
      BY <2>3, <2>4 DEF Scanned
    <3> QED
      BY <3>1, <3>2, <1>8 DEF EndsInv
  <2>9. AllAccounted'
    <3>1. Scanned' = mOffset /\ Scanned = mOffset
      BY <2>2, <2>3, <2>4 DEF Scanned
    <3>2. \A i \in 1 .. mOffset : Accounted(i)'
      BY <3>1, <1>3, <1>10
    <3> QED
      BY <3>1, <3>2 DEF AllAccounted
  <2> QED
    BY <1>7, <1>9, <2>5, <2>6, <2>7, <2>8, <2>9 DEF LexInv
<1> QED
  BY <1>11, <1>12

-----------------------------------------------------------------------------
(* The steps of a token that is being read                                  *)

LEMMA StaleStays ==
    ASSUME LexInv, Peeks
    PROVE  (stale => stale') /\ stale' \in BOOLEAN
BY DEF Peeks, LexInv, LexTypeOK

LEMMA ReadingLength ==
    ASSUME LexInv, pc \in Reading
    PROVE  /\ Len(mTokenBuffer) \in Nat /\ Len(mTokenBuffer) < MaxTokenLen
           /\ Len(mTokenBuffer) > 0 /\ pc # "exit"
<1>1. mTokenBuffer # << >> /\ mTokenBuffer \in Seq(Chars)
  BY ReadingPiece
<1>2. pc # "exit"
  BY DEF Reading
<1> QED
  BY <1>1, <1>2 DEF LexInv, LabelOK

\* The buffer is left as it is: for the loop, for a word, or for an error.
LEMMA HoldHere ==
    ASSUME LexInv, pc \in Reading, NoInput, mTokenBuffer' = mTokenBuffer,
           UNCHANGED <<offset, line, column, calls, mTokens>>,
           stale => stale', stale' \in BOOLEAN, error' \in Errors,
           pc' \in {"loop", "ident", "type", "exit"}, pc' = "loop" => PeekValue = EOF
    PROVE  LexInv'
<1>1. Taken(mTokenBuffer) /\ calls = 1 /\ mTokenBuffer # << >>
  BY StandsTaken, ReadingPiece
<1>2. pc' = "loop" => EofAhead'
  <2>1. SUFFICES ASSUME pc' = "loop" PROVE EofAhead'
    OBVIOUS
  <2>2. EofAhead
    BY <2>1, PeekedEof DEF LexInv
  <2>3. text' = text /\ mOffset' = mOffset /\ mDone' = mDone
    BY DEF NoInput, bufferVars
  <2> QED
    BY <2>2, <2>3 DEF EofAhead
<1>3. LabelOK'
  <2>1. Len(mTokenBuffer) < MaxTokenLen /\ Len(mTokenBuffer) <= MaxTokenLen
    BY ReadingLength, MaxTokenLenAssumption
  <2> QED
    BY <2>1, <1>1, <1>2 DEF LabelOK
<1> QED
  BY <1>1, <1>3, HoldStep DEF Reading

\* One more character is consumed.
LEMMA HoldMore ==
    ASSUME LexInv, pc \in Reading, NEW d \in Chars, Consume(d), Peeks,
           ~mDone \/ PeekValue # NUL,
           mTokenBuffer' = Append(mTokenBuffer, d),
           UNCHANGED <<offset, line, column, calls, mTokens>>, error' \in Errors,
           pc' \in {"under", "third", "ident", "type", "exit"},
           pc' \in {"under", "third"} => Len(mTokenBuffer) = 1,
           pc' = "third" => First \in OpTriple,
           pc' # "exit" => Len(mTokenBuffer) + 1 < MaxTokenLen
    PROVE  LexInv'
<1>1. Taken(Append(mTokenBuffer, d))
  BY MoreTaken
<1>2. /\ calls = 1 /\ mTokenBuffer \in Seq(Chars) /\ mTokenBuffer # << >>
      /\ Len(mTokenBuffer) \in Nat /\ Len(mTokenBuffer) < MaxTokenLen
  BY ReadingPiece, ReadingLength
<1>3. /\ Len(mTokenBuffer') = Len(mTokenBuffer) + 1 /\ Head(mTokenBuffer') = Head(mTokenBuffer)
      /\ Len(mTokenBuffer') <= MaxTokenLen
  BY <1>2, MaxTokenLenAssumption
<1>4. LabelOK'
  BY <1>2, <1>3 DEF LabelOK, First
<1> QED
  BY <1>1, <1>4, StaleStays, HoldStep DEF Reading

LEMMA CreateHere ==
    ASSUME LexInv, pc \in Reading, NoInput, NEW type \in TokenTypes,
           CreateToken(type, mTokenBuffer),
           UNCHANGED startVars, UNCHANGED calls, stale => stale', stale' \in BOOLEAN
    PROVE  LexInv'
<1>1. Taken(mTokenBuffer) /\ Len(mTokenBuffer) < MaxTokenLen
  BY StandsTaken, ReadingLength
<1> QED
  BY <1>1, CreateStep

LEMMA CreateMore ==
    ASSUME LexInv, pc \in Reading, NEW d \in Chars, Consume(d), Peeks,
           ~mDone \/ PeekValue # NUL, NEW type \in TokenTypes,
           CreateToken(type, Append(mTokenBuffer, d)), Len(mTokenBuffer) < 3,
           UNCHANGED startVars, UNCHANGED calls
    PROVE  LexInv'
<1>1. Taken(Append(mTokenBuffer, d))
  BY MoreTaken
<1>2. Len(Append(mTokenBuffer, d)) < MaxTokenLen
  <2>1. mTokenBuffer \in Seq(Chars)
    BY ReadingPiece
  <2>2. Len(Append(mTokenBuffer, d)) = Len(mTokenBuffer) + 1 /\ Len(mTokenBuffer) \in Nat
    BY <2>1
  <2> QED
    BY <2>2, MaxTokenLenAssumption
<1> QED
  BY <1>1, <1>2, StaleStays, CreateStep

-----------------------------------------------------------------------------
(* Every type that createToken is called with is a token type               *)

LEMMA OneCharacterSymbol ==
    ASSUME NEW c \in Singles \cup OpStart
    PROVE  <<c>> \in Tokens!Symbols /\ <<c>> \in TokenTypes
BY DEF Singles, OpStart, Doubling, TokenTypes, Tokens!Symbols

LEMMA TwoCharacterSymbol ==
    ASSUME NEW c \in OpStart, NEW d \in OpSecond(c)
    PROVE  <<c, d>> \in Tokens!Symbols /\ <<c, d>> \in TokenTypes
<1>1. CASE d = "="
  BY <1>1 DEF OpStart, Doubling, TokenTypes, Tokens!Symbols
<1>2. CASE d = c /\ c \in Doubling
  BY <1>2 DEF Doubling, TokenTypes, Tokens!Symbols
<1> QED
  BY <1>1, <1>2 DEF OpSecond

LEMMA ThreeCharacterSymbol ==
    ASSUME NEW c \in OpTriple
    PROVE  /\ <<c, c>> \in Tokens!Symbols /\ <<c, c, "=">> \in Tokens!Symbols
           /\ <<c, c>> \in TokenTypes /\ <<c, c, "=">> \in TokenTypes
BY DEF OpTriple, TokenTypes, Tokens!Symbols

LEMMA WordType == <<"IDENT">> \in TokenTypes /\ <<"TYPE_IDENT">> \in TokenTypes
BY DEF TokenTypes, Tokens!WordTypes

-----------------------------------------------------------------------------
(* The actions of a token that is being read                                *)

LEMMA DispatchStep == LexInv /\ Dispatch => LexInv'
<1> SUFFICES ASSUME LexInv, Dispatch PROVE LexInv'
  OBVIOUS
<1>1. /\ NoInput /\ UNCHANGED startVars /\ UNCHANGED calls /\ UNCHANGED stale
      /\ UNCHANGED <<offset, line, column>>
  BY DEF Dispatch, startVars
<1>2. pc = "switch" /\ pc \in Reading
  BY DEF Dispatch, AtSwitch, Reading
<1>3. error \in Errors /\ stale' \in BOOLEAN /\ (stale => stale')
  BY <1>1 DEF LexInv, LexTypeOK
<1>4. CASE Goto("ident", mTokenBuffer) \/ Goto("type", mTokenBuffer)
  <2>1. /\ pc' \in {"ident", "type"} /\ mTokenBuffer' = mTokenBuffer
        /\ mTokens' = mTokens /\ error' \in Errors
    BY <1>3, <1>4 DEF Goto
  <2> QED
    BY <2>1, <1>1, <1>2, <1>3, HoldHere
<1>5. CASE First \in Blank \cup Digit /\ Goto("loop", << >>)
  <2>1. pc' = "loop" /\ mTokenBuffer' = << >> /\ mTokens' = mTokens /\ error' = error
    BY <1>5 DEF Goto
  <2> QED
    BY <2>1, <1>1, <1>2, <1>5, DropStep
<1>6. CASE First \in Singles /\ CreateToken(<<First>>, mTokenBuffer)
  <2>1. <<First>> \in TokenTypes
    BY <1>6, OneCharacterSymbol
  <2> QED
    BY <2>1, <1>1, <1>2, <1>3, <1>6, CreateHere
<1> QED
  BY <1>4, <1>5, <1>6 DEF Dispatch, AtSwitch

LEMMA UnderscoreStep == LexInv /\ Underscore => LexInv'
<1> SUFFICES ASSUME LexInv, Underscore PROVE LexInv'
  OBVIOUS
<1>1. pc = "switch" /\ pc \in Reading /\ Peeks /\ UNCHANGED <<offset, line, column, calls>>
  BY DEF Underscore, AtSwitch, Reading, startVars
<1>2. /\ error \in Errors /\ stale' \in BOOLEAN /\ (stale => stale')
      /\ ~mDone /\ Len(mTokenBuffer) = 1
  BY <1>1, StaleStays, OneCharacter DEF LexInv, LexTypeOK
<1>3. CASE /\ NoInput
           /\ \/ PeekValue = EOF /\ Goto("loop", mTokenBuffer)
              \/ Goto("ident", mTokenBuffer)
              \/ Raise("underscore", mTokenBuffer)
              \/ Raise("character", mTokenBuffer)
  <2>1. /\ pc' \in {"loop", "ident", "exit"} /\ mTokenBuffer' = mTokenBuffer
        /\ mTokens' = mTokens /\ error' \in Errors /\ (pc' = "loop" => PeekValue = EOF)
    BY <1>2, <1>3 DEF Goto, Raise, Errors
  <2> QED
    BY <2>1, <1>1, <1>2, <1>3, HoldHere
<1>4. CASE \E d \in Chars : Consume(d) /\ Goto("under", Append(mTokenBuffer, d))
  <2>1. PICK d \in Chars : Consume(d) /\ Goto("under", Append(mTokenBuffer, d))
    BY <1>4
  <2>2. /\ pc' = "under" /\ mTokenBuffer' = Append(mTokenBuffer, d)
        /\ mTokens' = mTokens /\ error' \in Errors
    BY <2>1, <1>2 DEF Goto
  <2>3. Len(mTokenBuffer) + 1 < MaxTokenLen
    BY <1>2, MaxTokenLenAssumption
  <2> QED
    BY <2>1, <2>2, <2>3, <1>1, <1>2, HoldMore
<1> QED
  BY <1>3, <1>4 DEF Underscore

LEMMA SecondUnderscoreStep == LexInv /\ SecondUnderscore => LexInv'
<1> SUFFICES ASSUME LexInv, SecondUnderscore PROVE LexInv'
  OBVIOUS
<1>1. pc \in Reading /\ Peeks /\ NoInput /\ UNCHANGED <<offset, line, column, calls>>
  BY DEF SecondUnderscore, Reading, startVars
<1>2. error \in Errors /\ stale' \in BOOLEAN /\ (stale => stale')
  BY <1>1, StaleStays DEF LexInv, LexTypeOK
<1>3. /\ pc' \in {"loop", "ident", "exit"} /\ mTokenBuffer' = mTokenBuffer
      /\ mTokens' = mTokens /\ error' \in Errors /\ (pc' = "loop" => PeekValue = EOF)
  BY <1>2 DEF SecondUnderscore, Goto, Raise, Errors
<1> QED
  BY <1>1, <1>2, <1>3, HoldHere

LEMMA OperatorStep == LexInv /\ Operator => LexInv'
<1> SUFFICES ASSUME LexInv, Operator PROVE LexInv'
  OBVIOUS
<1>1. /\ pc = "switch" /\ pc \in Reading /\ Peeks /\ First \in OpStart
      /\ UNCHANGED startVars /\ UNCHANGED calls /\ UNCHANGED <<offset, line, column>>
  BY DEF Operator, AtSwitch, Reading, startVars
<1>2. /\ error \in Errors /\ stale' \in BOOLEAN /\ (stale => stale')
      /\ ~mDone /\ Len(mTokenBuffer) = 1
  BY <1>1, StaleStays, OneCharacter DEF LexInv, LexTypeOK
<1>3. CASE PeekValue = EOF /\ NoInput /\ Goto("loop", mTokenBuffer)
  <2>1. /\ pc' = "loop" /\ mTokenBuffer' = mTokenBuffer
        /\ mTokens' = mTokens /\ error' \in Errors
    BY <1>2, <1>3 DEF Goto
  <2> QED
    BY <2>1, <1>1, <1>2, <1>3, HoldHere
<1>4. CASE /\ PeekValue \in OpSecond(First)
           /\ \E d \in Chars :
                 /\ Consume(d)
                 /\ IF First \in OpTriple /\ PeekValue = First
                    THEN Goto("third", Append(mTokenBuffer, d))
                    ELSE CreateToken(<<First, PeekValue>>, Append(mTokenBuffer, d))
  <2>1. PICK d \in Chars :
            /\ Consume(d)
            /\ IF First \in OpTriple /\ PeekValue = First
               THEN Goto("third", Append(mTokenBuffer, d))
               ELSE CreateToken(<<First, PeekValue>>, Append(mTokenBuffer, d))
    BY <1>4
  <2>2. CASE First \in OpTriple /\ Goto("third", Append(mTokenBuffer, d))
    <3>1. /\ pc' = "third" /\ mTokenBuffer' = Append(mTokenBuffer, d)
          /\ mTokens' = mTokens /\ error' \in Errors
      BY <2>2, <1>2 DEF Goto
    <3>2. Len(mTokenBuffer) + 1 < MaxTokenLen
      BY <1>2, MaxTokenLenAssumption
    <3> QED
      BY <2>1, <2>2, <3>1, <3>2, <1>1, <1>2, HoldMore
  <2>3. CASE CreateToken(<<First, PeekValue>>, Append(mTokenBuffer, d))
    <3>1. <<First, PeekValue>> \in TokenTypes
      BY <1>1, <1>4, TwoCharacterSymbol
    <3>2. Len(mTokenBuffer) < 3
      BY <1>2
    <3> QED
      BY <2>1, <2>3, <3>1, <3>2, <1>1, <1>2, CreateMore
  <2> QED
    BY <2>1, <2>2, <2>3
<1>5. CASE NoInput /\ CreateToken(<<First>>, mTokenBuffer)
  <2>1. <<First>> \in TokenTypes
    BY <1>1, OneCharacterSymbol
  <2> QED
    BY <2>1, <1>1, <1>2, <1>5, CreateHere
<1> QED
  BY <1>3, <1>4, <1>5 DEF Operator

LEMMA ThirdCharacterStep == LexInv /\ ThirdCharacter => LexInv'
<1> SUFFICES ASSUME LexInv, ThirdCharacter PROVE LexInv'
  OBVIOUS
<1>1. /\ pc = "third" /\ pc \in Reading /\ Peeks
      /\ UNCHANGED startVars /\ UNCHANGED calls /\ UNCHANGED <<offset, line, column>>
  BY DEF ThirdCharacter, Reading, startVars
<1>2. /\ error \in Errors /\ stale' \in BOOLEAN /\ (stale => stale')
      /\ First \in OpTriple /\ Len(mTokenBuffer) = 2
  BY <1>1, StaleStays DEF LexInv, LexTypeOK, LabelOK
<1>3. <<First, First>> \in TokenTypes /\ <<First, First, "=">> \in TokenTypes
  BY <1>2, ThreeCharacterSymbol
<1>4. CASE PeekValue = EOF /\ NoInput /\ Goto("loop", mTokenBuffer)
  <2>1. /\ pc' = "loop" /\ mTokenBuffer' = mTokenBuffer
        /\ mTokens' = mTokens /\ error' \in Errors
    BY <1>2, <1>4 DEF Goto
  <2> QED
    BY <2>1, <1>1, <1>2, <1>4, HoldHere
<1>5. CASE /\ PeekValue = "="
           /\ \E d \in Chars :
                 Consume(d) /\ CreateToken(<<First, First, "=">>, Append(mTokenBuffer, d))
  <2>1. PICK d \in Chars :
            Consume(d) /\ CreateToken(<<First, First, "=">>, Append(mTokenBuffer, d))
    BY <1>5
  <2>2. PeekValue # NUL
    BY <1>5, ClassAssumption
  <2>3. Len(mTokenBuffer) < 3
    BY <1>2
  <2> QED
    BY <2>1, <2>2, <2>3, <1>1, <1>3, CreateMore
<1>6. CASE NoInput /\ CreateToken(<<First, First>>, mTokenBuffer)
  BY <1>1, <1>2, <1>3, <1>6, CreateHere
<1> QED
  BY <1>4, <1>5, <1>6 DEF ThirdCharacter

LEMMA ParseWordStep ==
    ASSUME LexInv, NEW label \in {"ident", "type"},
           NEW class \in SUBSET IdentChars, NEW type \in TokenTypes,
           ParseWord(label, class, type)
    PROVE  LexInv'
<1>1. /\ pc = label /\ pc \in Reading /\ Peeks
      /\ UNCHANGED startVars /\ UNCHANGED calls /\ UNCHANGED <<offset, line, column>>
  BY DEF ParseWord, Reading, startVars
<1>2. error \in Errors /\ stale' \in BOOLEAN /\ (stale => stale')
  BY <1>1, StaleStays DEF LexInv, LexTypeOK
<1>3. CASE /\ NoInput
           /\ \/ PeekValue = EOF /\ Goto("loop", mTokenBuffer)
              \/ Raise("character", mTokenBuffer)
  <2>1. /\ pc' \in {"loop", "exit"} /\ mTokenBuffer' = mTokenBuffer
        /\ mTokens' = mTokens /\ error' \in Errors /\ (pc' = "loop" => PeekValue = EOF)
    BY <1>2, <1>3 DEF Goto, Raise, Errors
  <2> QED
    BY <2>1, <1>1, <1>2, <1>3, HoldHere
<1>4. CASE NoInput /\ CreateToken(type, mTokenBuffer)
  BY <1>1, <1>2, <1>4, CreateHere
<1>5. CASE /\ PeekValue \in class
           /\ \E d \in Chars :
                 /\ Consume(d)
                 /\ LET buf == Append(mTokenBuffer, d) IN
                    IF TooLong(buf) THEN Raise("length", buf) ELSE Goto(label, buf)
  <2>1. PICK d \in Chars :
            /\ Consume(d)
            /\ LET buf == Append(mTokenBuffer, d) IN
               IF TooLong(buf) THEN Raise("length", buf) ELSE Goto(label, buf)
    BY <1>5
  <2>2. PeekValue # NUL
    BY <1>5, ClassAssumption DEF IdentChars, TypeChars
  <2>3. /\ pc' \in {label, "exit"} /\ mTokenBuffer' = Append(mTokenBuffer, d)
        /\ mTokens' = mTokens /\ error' \in Errors
        /\ (pc' # "exit" => ~TooLong(Append(mTokenBuffer, d)))
    BY <2>1, <1>2 DEF Goto, Raise, Errors
  <2>4. pc' # "exit" => Len(mTokenBuffer) + 1 < MaxTokenLen
    <3>1. mTokenBuffer \in Seq(Chars) /\ Len(mTokenBuffer) \in Nat
      BY <1>1, ReadingPiece, ReadingLength
    <3>2. Len(Append(mTokenBuffer, d)) = Len(mTokenBuffer) + 1
      BY <3>1
    <3> QED
      BY <2>3, <3>1, <3>2, MaxTokenLenAssumption DEF TooLong
  <2> QED
    BY <2>1, <2>2, <2>3, <2>4, <1>1, <1>2, HoldMore
<1> QED
  BY <1>3, <1>4, <1>5 DEF ParseWord

LEMMA WordSteps == LexInv /\ (ParseIdent \/ ParseType) => LexInv'
<1>1. IdentChars \in SUBSET IdentChars /\ TypeChars \in SUBSET IdentChars
  BY DEF IdentChars
<1> QED
  BY <1>1, ParseWordStep, WordType DEF ParseIdent, ParseType

-----------------------------------------------------------------------------
(* The inductive invariant                                                  *)

LEMMA InitLexInv == Init => LexInv
<1> SUFFICES ASSUME Init PROVE LexInv
  OBVIOUS
<1>1. BufInv /\ PositionExact
  BY InitBufInv, InitPositionExact DEF Init
<1>2. /\ mTokenBuffer = << >> /\ mTokens = << >> /\ offset = 0 /\ line = 0 /\ column = 0
      /\ pc = "loop" /\ error = "none" /\ calls = 1 /\ stale = FALSE
  BY DEF Init
<1>3. mOffset = 0
  BY DEF Init, BufInit
<1>4. LexTypeOK
  <2>1. mTokenBuffer \in Seq(Chars) /\ mTokens \in Seq(TokenSet)
    BY <1>2
  <2>2. pc \in Labels /\ error \in Errors /\ calls \in {1, 2} /\ stale \in BOOLEAN
    BY <1>2 DEF Labels, Errors
  <2>3. ~(pc \in {"switch", "under", "third", "ident", "type", "comment"})
    BY <1>2
  <2> QED
    BY <2>1, <2>2, <2>3, <1>1, <1>2 DEF LexTypeOK, BufInv
<1>5. LabelOK
  <2>1. Len(mTokenBuffer) = 0
    BY <1>2
  <2> QED
    BY <2>1, <1>2, MaxTokenLenAssumption DEF LabelOK
<1>6. PieceInv
  BY <1>2 DEF PieceInv
<1>7. DOMAIN mTokens = {} /\ Len(mTokens) = 0
  BY <1>2
<1>8. TokensOK /\ EndsInv
  BY <1>7, <1>2 DEF TokensOK, EndsInv
<1>9. Ordered
  BY <1>7 DEF Ordered
<1>10. AllAccounted
  BY <1>2, <1>3 DEF AllAccounted, Scanned
<1> QED
  BY <1>1, <1>4, <1>5, <1>6, <1>8, <1>9, <1>10 DEF LexInv

LEMMA IdleStep ==
    ASSUME LexInv, UNCHANGED vars
    PROVE  LexInv'
<1>1. NoInput /\ UNCHANGED scanVars
  BY DEF vars, NoInput
<1>2. /\ UNCHANGED <<offset, line, column, calls, mTokens, mTokenBuffer, stale>>
      /\ pc' = pc /\ error' = error
  BY <1>1 DEF scanVars
<1>3. BufInv' /\ PositionExact' /\ text' = text /\ mOffset' = mOffset /\ mDone' = mDone
  BY <1>1, NoInputMoves DEF LexInv, BufferMoved, NoInput, bufferVars
<1>4. LexTypeOK'
  BY <1>2, <1>3 DEF LexInv, LexTypeOK, BufInv
<1>5. LabelOK'
  BY <1>2, <1>3 DEF LexInv, LabelOK, First, EofAhead
<1>6. PieceInv'
  BY <1>2, <1>3 DEF LexInv, PieceInv, Piece, Spells, IsPlace
<1>7. TokensOK' /\ Ordered'
  BY <1>2, <1>3, TokensKept
<1>8. EndsInv'
  BY <1>2, <1>3 DEF LexInv, EndsInv, Scanned
<1>9. AllAccounted'
  <2>1. Scanned' = Scanned /\ Scanned \in Nat
    BY <1>2, <1>3 DEF Scanned, LexInv, LexTypeOK, BufInv, BufTypeOK
  <2>2. ASSUME NEW i \in 1 .. Scanned PROVE Accounted(i)'
    <3>1. Accounted(i) /\ i \in Nat
      BY <2>1 DEF LexInv, AllAccounted
    <3> QED
      BY <3>1, <1>2, <1>3, AccountedKept
  <2> QED
    BY <2>1, <2>2 DEF AllAccounted
<1> QED
  BY <1>3, <1>4, <1>5, <1>6, <1>7, <1>8, <1>9 DEF LexInv

LEMMA NextLexInv == LexInv /\ [Next]_vars => LexInv'
<1> SUFFICES ASSUME LexInv, [Next]_vars PROVE LexInv'
  OBVIOUS
<1>1. CASE LeaveLoop
  BY <1>1, LeaveLoopStep
<1>2. CASE ReadCharacter
  BY <1>2, ReadCharacterStep
<1>3. CASE Underscore
  BY <1>3, UnderscoreStep
<1>4. CASE SecondUnderscore
  BY <1>4, SecondUnderscoreStep
<1>5. CASE Dispatch
  BY <1>5, DispatchStep
<1>6. CASE Operator
  BY <1>6, OperatorStep
<1>7. CASE ThirdCharacter
  BY <1>7, ThirdCharacterStep
<1>8. CASE Comment
  BY <1>8, CommentStep
<1>9. CASE UnknownSymbol
  BY <1>9, UnknownSymbolStep
<1>10. CASE ParseIdent \/ ParseType
  BY <1>10, WordSteps
<1>11. CASE FinishPass
  BY <1>11, FinishPassStep
<1>12. CASE UNCHANGED vars
  BY <1>12, IdleStep
<1> QED
  BY <1>1, <1>2, <1>3, <1>4, <1>5, <1>6, <1>7, <1>8, <1>9, <1>10, <1>11, <1>12
     DEF Next, Step, Terminated

\* What the token buffer holds is the source behind the last token, at every label
\* of tokenize(), parseIdent() and parseType() (lexer.cpp:22-570).
THEOREM LexerInvariant == Spec => []LexInv
BY InitLexInv, NextLexInv, PTL DEF Spec

\* Every variable of the lexer and of the buffer under it has its type, and there
\* is a character to switch on behind every consume() (lexer.cpp:40-44).
THEOREM LexerTypeTheorem == Spec => []LexTypeOK
<1>1. LexInv => LexTypeOK
  BY DEF LexInv
<1> QED
  BY <1>1, LexerInvariant, PTL

\* Every token's lexeme is the source at its offset, but for EOFs behind the end of
\* the text, for every text, chunk size and content of uninitialised memory
\* (lexer.cpp:49, 67, 178-209, 456-482, 494, 529).
THEOREM TokensMatchTheorem == Spec => []TokensMatchSource
<1>1. LexInv => TokensMatchSource
  BY DEF LexInv, TokensOK, TokenOK, TokensMatchSource
<1> QED
  BY <1>1, LexerInvariant, PTL

\* Tokens come in source order and do not overlap, and nothing is dropped between
\* them but white space, digits, comments and the EOF byte, although the token
\* buffer is cleared at six places (lexer.cpp:131, 423, 460, 470, 480, 556).
THEOREM PartitionTheorem == Spec => []SourcePartitioned
<1>1. LexInv => SourcePartitioned
  BY DEF LexInv, Ordered, AllAccounted, Accounted, SourcePartitioned
<1> QED
  BY <1>1, LexerInvariant, PTL

\* The line and column of every token are those of its first character
\* (lexer.cpp:33-37).
THEOREM LocationTheorem == Spec => []LocationExact
<1>1. LexInv => LocationExact
  BY DEF LexInv, TokensOK, TokenOK, LocationExact
<1> QED
  BY <1>1, LexerInvariant, PTL

\* For every maximum of more than three: no token is longer than it, and the lexer goes on
\* with no longer token buffer, although the length is looked at behind the append, at
\* three places only (lexer.cpp:38, 495, 530).
THEOREM LengthTheorem == Spec => []LengthBounded
<1>1. LexInv => LengthBounded
  <2> SUFFICES ASSUME LexInv PROVE LengthBounded
    OBVIOUS
  <2>1. pc # "exit" => Len(mTokenBuffer) <= MaxTokenLen
    BY DEF LexInv, LabelOK
  <2>2. \A k \in DOMAIN mTokens : mTokens[k].span <= MaxTokenLen
    BY MaxTokenLenAssumption DEF LexInv, TokensOK, TokenOK
  <2> QED
    BY <2>1, <2>2 DEF LengthBounded
<1> QED
  BY <1>1, LexerInvariant, PTL

-----------------------------------------------------------------------------
(* What the trace prints                                                    *)

\* get() returns a span of the text wherever it lies, however long.
LEMMA GetInText ==
    ASSUME BufInv, NEW o \in Nat, NEW n \in Nat \ {0}, o + n <= Len(text)
    PROVE  GetResult(o, n) = [k \in 1 .. n |-> text[o + k]]
<1>1. Len(text) \in Nat
  BY TextIsSeq DEF BufInv
<1>2. Reread(o, n) = [k \in 1 .. n |-> text[o + k]]
  <2>1. \A k \in 1 .. n : o + k <= Len(text)
    BY <1>1
  <2> QED
    BY <2>1 DEF Reread
<1>3. CASE ~InChunk(o, n)
  BY <1>2, <1>3 DEF GetResult
<1>4. CASE InChunk(o, n)
  <2>1. mTotalChunks # 0
    <3>1. SUFFICES ASSUME mTotalChunks = 0 PROVE FALSE
      OBVIOUS
    <3>2. mNumChars = 0 /\ pos = 0
      BY <3>1, SizeAssumption DEF BufInv, BufTypeOK, WindowInv
    <3>3. pos = Len(text)
      BY <3>2, SizeAssumption DEF BufInv, BufTypeOK, WindowInv
    <3> QED
      BY <3>2, <3>3
  <2>2. /\ ChunkStart = pos - mNumChars
        /\ o >= ChunkStart /\ o + n <= pos /\ pos <= Len(text)
    BY <1>4, <2>1, ChunkStartValue, SizeAssumption
       DEF InChunk, BufInv, BufTypeOK, WindowInv
  <2>3. ASSUME NEW k \in 1 .. n
        PROVE  mBuffer[o - ChunkStart + k - 1] = text[o + k]
    <3>1. /\ o - ChunkStart + k - 1 \in 0 .. mNumChars - 1
          /\ pos - mNumChars + (o - ChunkStart + k - 1) + 1 = o + k
      BY <2>2, TextIsSeq, SizeAssumption DEF BufInv, BufTypeOK
    <3> QED
      BY <3>1 DEF BufInv, WindowInv
  <2> QED
    BY <1>4, <2>3 DEF GetResult
<1> QED
  BY <1>3, <1>4

\* At level trace, the span of each token that get() prints is its lexeme, whichever
\* chunk it came from and whatever chunk is loaded (lexer.cpp:448-452).
THEOREM EchoTheorem == Spec => []TraceEchoesLexemes
<1>1. LexInv => TraceEchoesLexemes
  <2> SUFFICES ASSUME LexInv, ~stale, NEW k \in DOMAIN mTokens
               PROVE  GetResult(mTokens[k].offset, mTokens[k].span) = mTokens[k].lexeme
    BY DEF TraceEchoesLexemes
  <2> DEFINE t == mTokens[k]
  <2>1. t \in TokenSet
    BY DEF LexInv, LexTypeOK
  <2>2. t.lexeme \in Seq(Chars) /\ t.offset \in Nat /\ t.span \in Nat
    BY <2>1 DEF TokenSet
  <2>3. TokenOK(t)
    BY DEF LexInv, TokensOK
  <2>4. t.span = Len(t.lexeme) /\ t.span > 0 /\ Spells(t.lexeme, t.offset, t.span)
    BY <2>2, <2>3 DEF TokenOK
  <2>5. t.lexeme = [i \in 1 .. t.span |-> text[t.offset + i]]
    BY <2>2, <2>4 DEF Spells
  <2>6. t.span \in Nat \ {0} /\ t.offset + t.span <= Len(text)
    BY <2>2, <2>4 DEF Spells
  <2>7. GetResult(t.offset, t.span) = [i \in 1 .. t.span |-> text[t.offset + i]]
    BY <2>2, <2>6, GetInText DEF LexInv
  <2> QED
    BY <2>5, <2>7
<1> QED
  BY <1>1, LexerInvariant, PTL

-----------------------------------------------------------------------------
(* The second call                                                          *)

\* The Parser's call of tokenize() finds the buffer done: it adds no token, reads
\* nothing and raises nothing (lexer.cpp:15, parser.cpp:11).
THEOREM SecondCallTheorem == Spec => SecondCallIsIdle
<1>1. LexInv /\ [Next]_vars => [calls = 2 => UNCHANGED <<mTokens, mOffset, pos, error>>]_vars
  <2> SUFFICES ASSUME LexInv, Next, calls = 2
               PROVE  UNCHANGED <<mTokens, mOffset, pos, error>>
    BY DEF vars, scanVars, bufferVars
  <2>1. mDone /\ pc \in {"loop", "finish", "done"}
    BY DEF LexInv, LabelOK
  <2>2. LeaveLoop \/ FinishPass \/ Terminated
    BY <2>1 DEF Next, Step, ReadCharacter, Underscore, SecondUnderscore, Dispatch, Operator,
                ThirdCharacter, Comment, UnknownSymbol, ParseIdent, ParseType, ParseWord, AtSwitch
  <2>3. CASE LeaveLoop
    BY <2>3 DEF LeaveLoop, NoInput, bufferVars, Goto
  <2>4. CASE FinishPass
    BY <2>4 DEF FinishPass, placeVars, Goto
  <2>5. CASE Terminated
    BY <2>5 DEF Terminated, vars, scanVars, bufferVars
  <2> QED
    BY <2>2, <2>3, <2>4, <2>5
<1> QED
  BY <1>1, LexerInvariant, PTL DEF Spec, SecondCallIsIdle

-----------------------------------------------------------------------------
(* The lexer implements TokenStream until a peek() looks behind the chunk,  *)
(* on texts without an EOF byte: every token it creates is the longest      *)
(* lexeme of the text at its place, and where it raises an error there is   *)
(* no acceptable one.                                                       *)

\* The next characters of the text, from where the token starts.
Underscores(u) == \A i \in 1 .. u : text[offset + i] = "_"

IdentFrom(u) ==
    /\ Underscores(u)
    /\ offset + u < Len(text) /\ text[offset + u + 1] \in Lower

\* What has been read of an identifier after u underscores.
IdentRead(u) ==
    /\ IdentFrom(u)
    /\ u <= Len(mTokenBuffer)
    /\ \A i \in u + 2 .. Len(mTokenBuffer) : text[offset + i] \in IdentChars

\* No peek() was stale, and none will be taken for the end of the text.
Exact == ~stale /\ ~HasEofByte

\* What the labels say of the text, as long as the lookahead is exact.
ReadInv ==
    Exact =>
        /\ pc \in {"loop", "finish", "done"} => mTokenBuffer = << >>
        /\ pc = "under" => Underscores(2)
        /\ pc = "third" => text[offset + 2] = text[offset + 1]
        /\ pc = "ident" => \E u \in 0 .. 2 : IdentRead(u)
        /\ pc = "type" => /\ text[offset + 1] \in Upper
                          /\ \A i \in 2 .. Len(mTokenBuffer) : text[offset + i] \in TypeChars

RefInv == LexInv /\ NothingLost /\ ReadInv

-----------------------------------------------------------------------------
(* The shapes of lexemes                                                    *)

LEMMA SymbolForms ==
    ASSUME NEW s \in Tokens!Symbols
    PROVE  \/ \E c \in Singles \cup OpStart : s = <<c>>
           \/ \E c \in OpStart : s = <<c, "=">>
           \/ \E c \in Doubling : s = <<c, c>>
           \/ \E c \in OpTriple : s = <<c, c, "=">>
<1>1. CASE s \in { <<":">>, <<",">>, <<"{">>, <<"(">>, <<"[">>, <<"}">>, <<")">>, <<"]">>,
                   <<";">>, <<".">>, <<"?">>, <<"&">>, <<"^">>, <<"=">>, <<"/">>, <<"<">>,
                   <<"-">>, <<"%">>, <<"|">>, <<"+">>, <<">">>, <<"*">>, <<"~">> }
  BY <1>1, Zenon DEF Singles, OpStart, Doubling
<1>2. CASE s \in { <<"&", "=">>, <<"^", "=">>, <<"=", "=">>, <<"/", "=">>, <<"<", "=">>,
                   <<"-", "=">>, <<"%", "=">>, <<"|", "=">>, <<"+", "=">>, <<">", "=">>,
                   <<"*", "=">>, <<"~", "=">> }
  BY <1>2, Zenon DEF OpStart, Doubling
<1>3. CASE s \in { <<"^", "^">>, <<"/", "/">>, <<"<", "<">>, <<"-", "-">>, <<"+", "+">>,
                   <<">", ">">> }
  BY <1>3, Zenon DEF Doubling
<1>4. CASE s \in { <<"^", "^", "=">>, <<"/", "/", "=">> }
  BY <1>4, Zenon DEF OpTriple
<1> QED
  BY <1>1, <1>2, <1>3, <1>4, Zenon DEF Tokens!Symbols

LEMMA OpClasses ==
    /\ Doubling \subseteq OpStart /\ OpTriple \subseteq Doubling
    /\ \A c : "=" \in OpSecond(c)
    /\ \A c \in Doubling : c \in OpSecond(c)
    /\ \A c : \A d \in OpSecond(c) : d = "=" \/ d = c
BY DEF OpStart, Doubling, OpTriple, OpSecond

LEMMA SymbolShape ==
    ASSUME NEW s \in Tokens!Symbols
    PROVE  /\ s[1] \in Singles \cup OpStart
           /\ Len(s) \in 1 .. 3
           /\ Len(s) >= 2 => s[1] \in OpStart /\ s[2] \in OpSecond(s[1])
           /\ Len(s) = 3 => s[1] \in OpTriple /\ s[2] = s[1] /\ s[3] = "="
<1>1. ASSUME NEW c, s = <<c>>
      PROVE  s[1] = c /\ Len(s) = 1
  BY <1>1
<1>2. ASSUME NEW c, NEW d, s = <<c, d>>
      PROVE  s[1] = c /\ s[2] = d /\ Len(s) = 2
  BY <1>2
<1>3. ASSUME NEW c, NEW d, NEW e, s = <<c, d, e>>
      PROVE  s[1] = c /\ s[2] = d /\ s[3] = e /\ Len(s) = 3
  BY <1>3
<1> QED
  BY <1>1, <1>2, <1>3, SymbolForms, OpClasses

LEMMA Disjoint ==
    /\ Lower \cap (Upper \cup Digit \cup Space \cup Singles \cup OpStart \cup {"_", "#"}) = {}
    /\ Upper \cap (Digit \cup Space \cup Singles \cup OpStart \cup {"_", "#"}) = {}
    /\ (Digit \cup Space) \cap (Singles \cup OpStart \cup {"_", "#"}) = {}
    /\ Digit \cap Space = {}
    /\ "_" \notin Singles \cup OpStart \cup {"#"} /\ "#" \notin Singles \cup OpStart
    /\ Singles \cap OpStart = {}
<1> DEFINE Rest == Singles \cup OpStart \cup {"_", "#"}
           Classes == <<Lower, Upper, Digit, Space, Rest>>
<1>1. \A i, j \in 1 .. 5 : i # j => Classes[i] \cap Classes[j] = {}
  BY DisjointAssumption
<1>2. /\ Lower \cap Upper = {} /\ Lower \cap Digit = {} /\ Lower \cap Space = {}
      /\ Lower \cap Rest = {} /\ Upper \cap Digit = {} /\ Upper \cap Space = {}
      /\ Upper \cap Rest = {} /\ Digit \cap Space = {} /\ Digit \cap Rest = {}
      /\ Space \cap Rest = {}
  <2> HIDE DEF Rest
  <2> QED
    BY <1>1
<1>3. /\ "_" \notin Singles \cup OpStart \cup {"#"} /\ "#" \notin Singles \cup OpStart
      /\ Singles \cap OpStart = {}
  BY DEF Singles, OpStart, Doubling
<1> QED
  BY <1>2, <1>3

\* What begins with at most two marks and goes on as a word.
LEMMA Marked ==
    ASSUME NEW s \in Seq(Chars), NEW mark, NEW lower, NEW word,
           mark \notin lower, mark \in word, lower \subseteq word,
           NEW u \in 0 .. 2, u < Len(s), \A i \in 1 .. u : s[i] = mark,
           s[u + 1] \in lower, \A i \in u + 2 .. Len(s) : s[i] \in word
    PROVE  /\ Len(s) >= 1 /\ (s[1] \in lower \/ s[1] = mark)
           /\ \A i \in 2 .. Len(s) : s[i] \in word
           /\ s[1] = mark => /\ Len(s) >= 2 /\ (s[2] \in lower \/ s[2] = mark)
                             /\ s[2] = mark => Len(s) >= 3 /\ s[3] \in lower
<1>0. Len(s) \in Nat
  OBVIOUS
<1>3. CASE u = 0
  BY <1>3
<1>4. CASE u = 1
  BY <1>4
<1>5. CASE u = 2
  BY <1>5
<1> QED
  BY <1>3, <1>4, <1>5

LEMMA IdentShape ==
    ASSUME NEW s \in Seq(Chars), Tokens!IsIdent(s)
    PROVE  /\ Len(s) >= 1 /\ (s[1] \in Lower \/ s[1] = "_")
           /\ \A i \in 2 .. Len(s) : s[i] \in IdentChars
           /\ s[1] = "_" => /\ Len(s) >= 2 /\ (s[2] \in Lower \/ s[2] = "_")
                            /\ s[2] = "_" => Len(s) >= 3 /\ s[3] \in Lower
<1>1. "_" \notin Lower /\ "_" \in IdentChars /\ Lower \subseteq IdentChars
  BY Disjoint DEF IdentChars, TypeChars
<1>2. PICK u \in 0 .. 2 : /\ u < Len(s)
                          /\ \A i \in 1 .. u : s[i] = "_"
                          /\ s[u + 1] \in Lower
                          /\ \A i \in u + 2 .. Len(s) : s[i] \in IdentChars
  BY DEF Tokens!IsIdent, Tokens!IdentChars, Tokens!TypeChars, IdentChars, TypeChars
<1> QED
  BY <1>1, <1>2, Marked

LEMMA TypeShape ==
    ASSUME NEW s \in Seq(Chars), Tokens!IsType(s)
    PROVE  /\ Len(s) >= 1 /\ s[1] \in Upper
           /\ \A i \in 2 .. Len(s) : s[i] \in TypeChars
BY DEF Tokens!IsType, Tokens!TypeChars, TypeChars

LEMMA LexemeShape ==
    ASSUME NEW s \in Seq(Chars), NEW type, Tokens!IsLexeme(s, type)
    PROVE  /\ Len(s) >= 1
           /\ s[1] \in Singles \cup OpStart \cup Upper \cup Lower \/ s[1] = "_"
           /\ s[1] \in Singles => Len(s) = 1 /\ type = s
           /\ s[1] \in OpStart =>
                /\ type = s /\ Len(s) \in 1 .. 3
                /\ Len(s) >= 2 => s[2] \in OpSecond(s[1])
                /\ Len(s) = 3 => s[1] \in OpTriple /\ s[2] = s[1] /\ s[3] = "="
           /\ s[1] \in Upper =>
                /\ type = <<"TYPE_IDENT">>
                /\ \A i \in 2 .. Len(s) : s[i] \in TypeChars
           /\ s[1] \in Lower \/ s[1] = "_" =>
                /\ type = <<"IDENT">>
                /\ \A i \in 2 .. Len(s) : s[i] \in IdentChars
           /\ s[1] = "_" => /\ Len(s) >= 2 /\ (s[2] \in Lower \/ s[2] = "_")
                            /\ s[2] = "_" => Len(s) >= 3 /\ s[3] \in Lower
<1>1. CASE s \in Tokens!Symbols /\ type = s
  <2>1. /\ s[1] \in Singles \cup OpStart
        /\ Len(s) \in 1 .. 3
        /\ Len(s) >= 2 => s[1] \in OpStart /\ s[2] \in OpSecond(s[1])
        /\ Len(s) = 3 => s[1] \in OpTriple /\ s[2] = s[1] /\ s[3] = "="
    BY <1>1, SymbolShape
  <2>2. s[1] \notin Upper /\ s[1] \notin Lower /\ s[1] # "_"
    BY <2>1, Disjoint
  <2>3. Len(s) >= 1 /\ (s[1] \notin OpStart => Len(s) = 1)
    BY <2>1
  <2>4. s[1] \in Singles => s[1] \notin OpStart
    BY Disjoint
  <2> QED
    BY <2>1, <2>2, <2>3, <2>4, <1>1, Zenon
<1>2. CASE Tokens!IsIdent(s) /\ type = <<"IDENT">>
  <2>1. /\ Len(s) >= 1 /\ (s[1] \in Lower \/ s[1] = "_")
        /\ \A i \in 2 .. Len(s) : s[i] \in IdentChars
        /\ s[1] = "_" => /\ Len(s) >= 2 /\ (s[2] \in Lower \/ s[2] = "_")
                         /\ s[2] = "_" => Len(s) >= 3 /\ s[3] \in Lower
    BY <1>2, IdentShape
  <2>2. s[1] \notin Upper /\ s[1] \notin Singles /\ s[1] \notin OpStart
    BY <2>1, Disjoint
  <2> QED
    BY <2>1, <2>2, <1>2
<1>3. CASE Tokens!IsType(s) /\ type = <<"TYPE_IDENT">>
  <2>1. Len(s) >= 1 /\ s[1] \in Upper /\ \A i \in 2 .. Len(s) : s[i] \in TypeChars
    BY <1>3, TypeShape
  <2>2. s[1] \notin Lower /\ s[1] # "_" /\ s[1] \notin Singles /\ s[1] \notin OpStart
    BY <2>1, Disjoint
  <2> QED
    BY <2>1, <2>2, <1>3
<1> QED
  BY <1>1, <1>2, <1>3 DEF Tokens!IsLexeme

-----------------------------------------------------------------------------
(* The text that lies ahead                                                 *)

LEMMA AheadIs ==
    ASSUME text \in Seq(Chars), offset \in Nat, mTokenBuffer # << >>,
           NEW n \in Nat \ {0}, offset + n <= Len(text)
    PROVE  /\ Tokens!Ahead(n) \in Seq(Chars) /\ Len(Tokens!Ahead(n)) = n
           /\ \A i \in 1 .. n : Tokens!Ahead(n)[i] = text[offset + i]
<1>1. Tokens!Ahead(n) = SubSeq(text, offset + 1, offset + n)
  BY DEF Tokens!Ahead
<1> QED
  BY <1>1

LEMMA LeftIs ==
    ASSUME mTokenBuffer # << >>
    PROVE  Tokens!Left = Len(text) - offset
BY DEF Tokens!Left

\* What is read is what lies ahead, as long as no peek() was stale.
LEMMA Window ==
    ASSUME LexInv, pc \in Reading, ~stale
    PROVE  /\ text \in Seq(Chars) /\ Len(text) \in Nat /\ offset \in Nat
           /\ mTokenBuffer # << >> /\ mTokenBuffer \in Seq(Chars) /\ calls = 1
           /\ Len(mTokenBuffer) \in Nat \ {0}
           /\ mOffset = offset + Len(mTokenBuffer) /\ mOffset <= Len(text)
           /\ \A i \in 1 .. Len(mTokenBuffer) : mTokenBuffer[i] = text[offset + i]
           /\ mTokenBuffer = Tokens!Ahead(Len(mTokenBuffer))
<1>1. /\ calls = 1 /\ mTokenBuffer # << >> /\ mTokenBuffer \in Seq(Chars)
      /\ offset \in Nat /\ offset < mOffset /\ mOffset - offset <= Len(mTokenBuffer)
      /\ Spells(mTokenBuffer, offset, mOffset - offset)
      /\ ~(mOffset - offset < Len(mTokenBuffer))
  BY ReadingPiece
<1>2. text \in Seq(Chars) /\ Len(text) \in Nat /\ mOffset \in Nat /\ mOffset <= Len(text)
  BY OffsetInText DEF LexInv
<1> DEFINE n == Len(mTokenBuffer)
<1>3. n \in Nat \ {0} /\ mOffset - offset = n /\ mOffset = offset + n
  BY <1>1, <1>2
<1>4. \A i \in 1 .. n : mTokenBuffer[i] = text[offset + i]
  BY <1>1, <1>3 DEF Spells
<1>5. /\ Tokens!Ahead(n) \in Seq(Chars) /\ Len(Tokens!Ahead(n)) = n
      /\ \A i \in 1 .. n : Tokens!Ahead(n)[i] = text[offset + i]
  BY <1>1, <1>2, <1>3, AheadIs
<1>6. mTokenBuffer = Tokens!Ahead(n)
  BY <1>1, <1>4, <1>5
<1> QED
  BY <1>1, <1>2, <1>3, <1>4, <1>6

\* An exact lookahead is the next character, and consume() returns it.
LEMMA ExactPeek ==
    ASSUME LexInv, pc \in Reading, Peeks, ~stale', ~HasEofByte
    PROVE  /\ ~stale /\ mOffset < Len(text)
           /\ PeekValue = text[mOffset + 1] /\ PeekValue # EOF /\ PeekValue \in Chars
           /\ \A d \in Chars : Consume(d) => d = PeekValue /\ mOffset' = mOffset + 1
<1>1. /\ stale \in BOOLEAN /\ mIndex \in Nat /\ mNumChars \in Nat
  BY SizeAssumption DEF LexInv, LexTypeOK, BufTypeOK
<1>2. ~stale /\ mIndex < mNumChars
  <2>1. ~stale /\ ~(mIndex >= mNumChars)
    BY <1>1, Zenon DEF Peeks
  <2> QED
    BY <1>1, <2>1
<1>3. /\ mOffset < Len(text) /\ PeekValue = text[mOffset + 1]
      /\ \A c \in Chars : Consume(c) => c = PeekValue
  BY <1>2, PeekIsNext DEF LexInv
<1>4. /\ text \in Seq(Chars) /\ mOffset \in Nat /\ Len(text) \in Nat
  BY OffsetInText DEF LexInv
<1>5. mOffset + 1 \in DOMAIN text
  BY <1>3, <1>4
<1>6. PeekValue # EOF /\ PeekValue \in Chars
  BY <1>3, <1>4, <1>5 DEF HasEofByte
<1>7. ASSUME NEW d \in Chars, Consume(d) PROVE mOffset' = mOffset + 1
  <2>1. d = PeekValue
    BY <1>3, <1>7
  <2>2. \/ mOffset < Len(text) /\ d = text[mOffset + 1] /\ mOffset' = mOffset + 1
        \/ (mOffset = Len(text) \/ mDone) /\ d = EOF /\ mOffset' = mOffset
    BY <1>7, ConsumeIsStreamStep DEF LexInv
  <2> QED
    BY <2>1, <2>2, <1>6
<1> QED
  BY <1>2, <1>3, <1>6, <1>7

-----------------------------------------------------------------------------
(* What the specification's steps need                                      *)

LEMMA ColumnIs ==
    ASSUME NEW t \in Seq(Chars), NEW o \in Nat, NEW c \in Nat, c <= o, o <= Len(t),
           \A i \in o - c + 1 .. o : t[i] # NL, c < o => t[o - c] = NL
    PROVE  c = CHOOSE k \in 0 .. o : /\ \A i \in o - k + 1 .. o : t[i] # NL
                                     /\ k < o => t[o - k] = NL
<1> DEFINE P(k) == /\ \A i \in o - k + 1 .. o : t[i] # NL
                   /\ k < o => t[o - k] = NL
<1>1. c \in 0 .. o /\ P(c)
  OBVIOUS
<1>2. ASSUME NEW a \in 0 .. o, NEW b \in 0 .. o, P(a), P(b), a < b PROVE FALSE
  <2>1. o - a \in o - b + 1 .. o /\ a < o
    BY <1>2
  <2> QED
    BY <1>2, <2>1
<1>3. ASSUME NEW k \in 0 .. o, P(k) PROVE k = c
  <2>1. ~(k < c) /\ ~(c < k)
    BY <1>1, <1>2, <1>3
  <2> QED
    BY <2>1
<1> HIDE DEF P
<1>4. c = CHOOSE k \in 0 .. o : P(k)
  BY <1>1, <1>3
<1> QED
  BY <1>4 DEF P

\* A token is created as the specification does.
LEMMA EmitStep ==
    ASSUME LexInv, pc \in Reading, NEW n \in Nat \ {0}, offset + n <= Len(text),
           NEW type \in TokenTypes, Tokens!Acceptable(n, type),
           CreateToken(type, Tokens!Ahead(n)), mOffset' = offset + n,
           UNCHANGED <<text, calls>>
    PROVE  Tokens!Next
<1>1. /\ calls = 1 /\ mTokenBuffer # << >> /\ IsPlace(offset, line, column)
      /\ offset \in Nat /\ text \in Seq(Chars) /\ Len(text) \in Nat
  BY ReadingPiece, OffsetInText DEF LexInv
<1>2. line \in Nat /\ column \in Nat
  BY DEF LexInv, LexTypeOK
<1>3. Len(Tokens!Ahead(n)) = n
  BY <1>1, AheadIs
<1>4. Tokens!LineOf(offset) = line
  <2>1. line = Cardinality({i \in 1 .. offset : text[i] = NL})
    BY <1>1 DEF IsPlace
  <2> QED
    BY <2>1, Zenon DEF Tokens!LineOf, Tokens!Cardinality, Cardinality
<1>5. Tokens!ColumnOf(offset) = column
  BY <1>1, <1>2, ColumnIs DEF Tokens!ColumnOf, IsPlace
<1>6. Tokens!Left = Len(text) - offset /\ n \in 1 .. Tokens!Left
  BY <1>1, LeftIs
<1>7. mTokens' = Append(mTokens, [type |-> type, lexeme |-> Tokens!Ahead(n), offset |-> offset,
                                  span |-> n, line |-> line, column |-> column])
  BY <1>3 DEF CreateToken, Token
<1>8. mTokenBuffer' = << >> /\ pc' = "loop" /\ calls' = 1 /\ text' = text
  BY <1>1 DEF CreateToken
<1>9. pc \notin {"exit", "finish", "done"}
  BY DEF Reading
<1> QED
  BY <1>1, <1>4, <1>5, <1>6, <1>7, <1>8, <1>9 DEF Tokens!Next, Tokens!EmitToken, TokenTypes

\* An error is raised where the specification fails.
LEMMA FailStep ==
    ASSUME LexInv, pc \in Reading, pc' = "exit", mTokenBuffer' # << >>,
           UNCHANGED <<text, offset, mTokens, calls>>,
           text[offset + 1] \notin Blank \cup Digit, text[offset + 1] # "#",
           \A n \in 1 .. Len(text) - offset, type \in TokenTypes : ~Tokens!Acceptable(n, type)
    PROVE  Tokens!Next
<1>1. calls = 1 /\ mTokenBuffer # << >> /\ offset \in Nat /\ Len(text) \in Nat
  BY ReadingPiece, OffsetInText DEF LexInv
<1>2. Tokens!Left = Len(text) - offset /\ offset < Len(text)
  BY <1>1, LeftIs, ReadingPiece, OffsetInText DEF LexInv
<1>3. pc \notin {"exit", "finish", "done"}
  BY DEF Reading
<1>4. Tokens!Left > 0
  BY <1>1, <1>2
<1> QED
  BY <1>1, <1>2, <1>3, <1>4 DEF Tokens!Next, Tokens!Fail, Tokens!Skippable, TokenTypes

-----------------------------------------------------------------------------
(* What is acceptable                                                       *)

\* Nothing longer than what has been read is a lexeme.
NoneLonger(n) ==
    \A m \in Nat : n < m /\ offset + m <= Len(text) =>
        \A type : ~Tokens!IsLexeme(Tokens!Ahead(m), type)

LEMMA LongestIs ==
    ASSUME LexInv, pc \in Reading, NEW n \in Nat \ {0}, offset + n <= Len(text),
           NEW type, Tokens!IsLexeme(Tokens!Ahead(n), type), NoneLonger(n)
    PROVE  Tokens!Longest(n, type)
<1>1. mTokenBuffer # << >> /\ offset \in Nat /\ Len(text) \in Nat
  BY ReadingPiece, OffsetInText DEF LexInv
<1>2. Tokens!Left = Len(text) - offset
  BY <1>1, LeftIs
<1>3. ASSUME NEW m \in n + 1 .. Tokens!Left, NEW t PROVE ~Tokens!IsLexeme(Tokens!Ahead(m), t)
  <2>1. m \in Nat /\ n < m /\ offset + m <= Len(text)
    BY <1>1, <1>2
  <2> QED
    BY <2>1 DEF NoneLonger
<1> QED
  BY <1>3 DEF Tokens!Longest

LEMMA WordsAreNoSymbols ==
    Tokens!WordTypes \cap Tokens!Symbols = {}
<1>1. "IDENT" \notin Singles \cup OpStart /\ "TYPE_IDENT" \notin Singles \cup OpStart
  BY DEF Singles, OpStart, Doubling
<1>2. <<"IDENT">>[1] = "IDENT" /\ <<"TYPE_IDENT">>[1] = "TYPE_IDENT"
  OBVIOUS
<1>3. <<"IDENT">> \notin Tokens!Symbols /\ <<"TYPE_IDENT">> \notin Tokens!Symbols
  BY <1>1, <1>2, SymbolShape
<1> QED
  BY <1>3, Zenon DEF Tokens!WordTypes

LEMMA SymbolAcceptable ==
    ASSUME LexInv, pc \in Reading, NEW n \in Nat \ {0}, offset + n <= Len(text),
           Tokens!Ahead(n) \in Tokens!Symbols, NoneLonger(n)
    PROVE  Tokens!Acceptable(n, Tokens!Ahead(n))
<1> DEFINE s == Tokens!Ahead(n)
<1>1. Tokens!IsLexeme(s, s)
  BY DEF Tokens!IsLexeme
<1>2. s \notin Tokens!WordTypes
  BY WordsAreNoSymbols
<1> QED
  BY <1>1, <1>2, LongestIs DEF Tokens!Acceptable

LEMMA WordAcceptable ==
    ASSUME LexInv, pc \in Reading, NEW n \in Nat \ {0}, offset + n < Len(text),
           NEW type \in Tokens!WordTypes, Tokens!IsLexeme(Tokens!Ahead(n), type), NoneLonger(n),
           n < MaxTokenLen, text[offset + n + 1] \in Space
    PROVE  Tokens!Acceptable(n, type)
<1>1. mTokenBuffer # << >> /\ offset \in Nat /\ Len(text) \in Nat
  BY ReadingPiece, OffsetInText DEF LexInv
<1>2. n < Tokens!Left /\ offset + n <= Len(text)
  BY <1>1, LeftIs
<1> QED
  BY <1>1, <1>2, LongestIs DEF Tokens!Acceptable

\* The lexemes ahead by their characters in the text.
LEMMA AheadShape ==
    ASSUME text \in Seq(Chars), offset \in Nat, mTokenBuffer # << >>,
           NEW n \in Nat \ {0}, offset + n <= Len(text),
           NEW type, Tokens!IsLexeme(Tokens!Ahead(n), type)
    PROVE  LET c == text[offset + 1] IN
           /\ c \in Singles \cup OpStart \cup Upper \cup Lower \/ c = "_"
           /\ c \in Singles => n = 1
           /\ c \in OpStart =>
                /\ n <= 3
                /\ n >= 2 => text[offset + 2] \in OpSecond(c)
                /\ n = 3 => c \in OpTriple /\ text[offset + 2] = c /\ text[offset + 3] = "="
           /\ c \in Upper =>
                /\ type = <<"TYPE_IDENT">>
                /\ \A i \in 2 .. n : text[offset + i] \in TypeChars
           /\ c \in Lower \/ c = "_" =>
                /\ type = <<"IDENT">>
                /\ \A i \in 2 .. n : text[offset + i] \in IdentChars
           /\ c = "_" =>
                /\ n >= 2 /\ (text[offset + 2] \in Lower \/ text[offset + 2] = "_")
                /\ text[offset + 2] = "_" => n >= 3 /\ text[offset + 3] \in Lower
<1> DEFINE s == Tokens!Ahead(n)
<1>1. s \in Seq(Chars) /\ Len(s) = n /\ \A i \in 1 .. n : s[i] = text[offset + i]
  BY AheadIs
<1>2. /\ s[1] = text[offset + 1] /\ (n >= 2 => s[2] = text[offset + 2])
      /\ (n >= 3 => s[3] = text[offset + 3])
  BY <1>1
<1>3. \A i \in 2 .. n : s[i] = text[offset + i]
  BY <1>1
<1> HIDE DEF s
<1>4. /\ s[1] \in Singles \cup OpStart \cup Upper \cup Lower \/ s[1] = "_"
      /\ s[1] \in Singles => n = 1
      /\ s[1] \in OpStart =>
           /\ n \in 1 .. 3
           /\ n >= 2 => s[2] \in OpSecond(s[1])
           /\ n = 3 => s[1] \in OpTriple /\ s[2] = s[1] /\ s[3] = "="
      /\ s[1] \in Upper => type = <<"TYPE_IDENT">> /\ \A i \in 2 .. n : s[i] \in TypeChars
      /\ s[1] \in Lower \/ s[1] = "_" =>
           type = <<"IDENT">> /\ \A i \in 2 .. n : s[i] \in IdentChars
      /\ s[1] = "_" => /\ n >= 2 /\ (s[2] \in Lower \/ s[2] = "_")
                       /\ s[2] = "_" => n >= 3 /\ s[3] \in Lower
  BY <1>1, LexemeShape DEF s
<1>5. /\ n >= 2 => text[offset + 2] = s[2]
      /\ n = 3 => text[offset + 2] = s[2] /\ text[offset + 3] = s[3]
      /\ \A i \in 2 .. n : text[offset + i] = s[i]
  BY <1>2, <1>3
<1>6. s[1] = "_" => /\ n >= 2 /\ (text[offset + 2] \in Lower \/ text[offset + 2] = "_")
                    /\ text[offset + 2] = "_" => n >= 3 /\ text[offset + 3] \in Lower
  BY <1>2, <1>4
<1>7. s[1] \in OpStart =>
        /\ n <= 3
        /\ n >= 2 => text[offset + 2] \in OpSecond(s[1])
        /\ n = 3 => /\ s[1] \in OpTriple
                    /\ text[offset + 2] = s[1] /\ text[offset + 3] = "="
  <2>1. n \in 1 .. 3 => n <= 3
    OBVIOUS
  <2> QED
    BY <2>1, <1>4, <1>5, Zenon
<1>8. text[offset + 1] = s[1]
  BY <1>2
<1> QED
  BY <1>4, <1>5, <1>6, <1>7, <1>8, Zenon

LEMMA SymbolLongest ==
    ASSUME text \in Seq(Chars), offset \in Nat, mTokenBuffer # << >>,
           NEW c, c = text[offset + 1]
    PROVE  /\ c \in Singles => NoneLonger(1)
           /\ c \in OpStart /\ text[offset + 2] \notin OpSecond(c) => NoneLonger(1)
           /\ c \in OpStart /\ ~(c \in OpTriple /\ text[offset + 2] = c) => NoneLonger(2)
           /\ c \in OpStart /\ text[offset + 3] # "=" => NoneLonger(2)
           /\ c \in OpStart => NoneLonger(3)
<1>1. ASSUME NEW m \in Nat, offset + m <= Len(text), NEW type, m > 1,
             Tokens!IsLexeme(Tokens!Ahead(m), type)
      PROVE  /\ c \notin Singles
             /\ c \in OpStart => text[offset + 2] \in OpSecond(c)
             /\ c \in OpStart => ~(m > 3)
             /\ c \in OpStart /\ m > 2 =>
                    c \in OpTriple /\ text[offset + 2] = c /\ text[offset + 3] = "="
  <2>1. m \in Nat \ {0} /\ m # 1 /\ m >= 2 /\ (m <= 3 => ~(m > 3)) /\ (m > 2 /\ m <= 3 => m = 3)
    BY <1>1
  <2> QED
    BY <1>1, <2>1, AheadShape, Zenon
<1>2. ASSUME NEW n \in 1 .. 3, NEW m \in Nat, n < m
      PROVE  m > 1 /\ (n = 2 => m > 2) /\ (n = 3 => m > 3)
  BY <1>2
<1>3. 1 \in 1 .. 3 /\ 2 \in 1 .. 3 /\ 3 \in 1 .. 3
  OBVIOUS
<1> QED
  BY <1>1, <1>2, <1>3, Zenon DEF NoneLonger

LEMMA WordLongest ==
    ASSUME text \in Seq(Chars), offset \in Nat, mTokenBuffer # << >>,
           NEW c, c = text[offset + 1], NEW n \in Nat \ {0}
    PROVE  /\ (c \in Lower \/ c = "_") /\ text[offset + n + 1] \notin IdentChars => NoneLonger(n)
           /\ c \in Upper /\ text[offset + n + 1] \notin TypeChars => NoneLonger(n)
<1>1. ASSUME NEW m \in Nat, offset + m <= Len(text), n < m, NEW type,
             Tokens!IsLexeme(Tokens!Ahead(m), type)
      PROVE  /\ c \in Lower \/ c = "_" => text[offset + n + 1] \in IdentChars
             /\ c \in Upper => text[offset + n + 1] \in TypeChars
  <2>1. m \in Nat \ {0} /\ n + 1 \in 2 .. m /\ offset + (n + 1) = offset + n + 1
    BY <1>1
  <2> QED
    BY <1>1, <2>1, AheadShape, Zenon
<1> QED
  BY <1>1, Zenon DEF NoneLonger

-----------------------------------------------------------------------------
(* Steps that say nothing, and what a consumed character adds               *)

LEMMA HoldsStill ==
    ASSUME LexInv, pc \in Reading, pc' \in Reading, mTokenBuffer' # << >>,
           UNCHANGED <<text, offset, mTokens, calls>>
    PROVE  UNCHANGED Tokens!vars
<1>1. mTokenBuffer # << >> /\ calls = 1
  BY ReadingPiece
<1>2. pc \notin {"exit", "finish", "done"} /\ pc' \notin {"exit", "finish", "done"}
  BY DEF Reading
<1> QED
  BY <1>1, <1>2 DEF Tokens!vars

LEMMA MoreAhead ==
    ASSUME LexInv, pc \in Reading, ~stale, mOffset < Len(text), NEW d, d = text[mOffset + 1]
    PROVE  LET n == Len(mTokenBuffer) + 1 IN
           /\ n \in Nat \ {0} /\ offset + n <= Len(text) /\ mOffset + 1 = offset + n
           /\ d = text[offset + n]
           /\ Append(mTokenBuffer, d) # << >>
           /\ Append(mTokenBuffer, d) = Tokens!Ahead(n)
<1> DEFINE k == Len(mTokenBuffer)
           n == k + 1
           s == Append(mTokenBuffer, d)
<1>1. /\ text \in Seq(Chars) /\ Len(text) \in Nat /\ offset \in Nat
      /\ mTokenBuffer # << >> /\ mTokenBuffer \in Seq(Chars)
      /\ k \in Nat \ {0} /\ mOffset = offset + k
      /\ \A i \in 1 .. k : mTokenBuffer[i] = text[offset + i]
  BY Window
<1>2. n \in Nat \ {0} /\ offset + n <= Len(text) /\ mOffset + 1 = offset + n
  BY <1>1
<1>3. d = text[offset + n] /\ d \in Chars
  BY <1>1, <1>2
<1>4. /\ s \in Seq(Chars) /\ Len(s) = n /\ s # << >> /\ s[n] = d
      /\ \A i \in 1 .. k : s[i] = mTokenBuffer[i]
  BY <1>1, <1>3
<1>5. \A i \in 1 .. n : s[i] = text[offset + i]
  <2>1. TAKE i \in 1 .. n
  <2>2. i = n \/ i \in 1 .. k
    BY <1>1
  <2> QED
    BY <2>2, <1>1, <1>3, <1>4
<1>6. /\ Tokens!Ahead(n) \in Seq(Chars) /\ Len(Tokens!Ahead(n)) = n
      /\ \A i \in 1 .. n : Tokens!Ahead(n)[i] = text[offset + i]
  BY <1>1, <1>2, AheadIs
<1>7. s = Tokens!Ahead(n)
  BY <1>4, <1>5, <1>6
<1> QED
  BY <1>2, <1>3, <1>4, <1>7

-----------------------------------------------------------------------------
(* The actions, one by one                                                  *)

Outcome == Tokens!Next \/ UNCHANGED Tokens!vars

LEMMA EmitSymbol ==
    ASSUME LexInv, pc \in Reading, NEW n \in Nat \ {0}, offset + n <= Len(text),
           NoneLonger(n), NEW s, s = Tokens!Ahead(n), s \in Tokens!Symbols,
           CreateToken(s, s), mOffset' = offset + n, UNCHANGED <<text, calls>>
    PROVE  Outcome
<1>1. Tokens!Acceptable(n, s) /\ s \in TokenTypes
  BY SymbolAcceptable DEF TokenTypes
<1> QED
  BY <1>1, EmitStep DEF Outcome

LEMMA NoInputStill ==
    ASSUME NoInput
    PROVE  text' = text /\ mOffset' = mOffset /\ (HasEofByte' <=> HasEofByte)
BY DEF NoInput, bufferVars, HasEofByte

\* White space and digits are skipped, a single is a lexeme.
LEMMA DispatchRefines ==
    ASSUME LexInv, Dispatch, ~stale', ~HasEofByte
    PROVE  Outcome
<1>1. /\ pc = "switch" /\ pc \in Reading /\ NoInput /\ ~stale
      /\ UNCHANGED <<offset, line, column, calls>>
  BY DEF Dispatch, AtSwitch, Reading, startVars
<1>2. /\ calls = 1 /\ mTokenBuffer # << >> /\ mOffset = offset + 1 /\ mOffset <= Len(text)
      /\ text[offset + 1] = First /\ mTokenBuffer \in Seq(Chars)
      /\ Len(mTokenBuffer) = 1 /\ mTokenBuffer[1] = First
  BY <1>1, OneCharacter
<1>3. /\ text \in Seq(Chars) /\ Len(text) \in Nat /\ offset \in Nat
      /\ mTokenBuffer = Tokens!Ahead(1)
  BY <1>1, <1>2, Window
<1>4. text' = text /\ mOffset' = mOffset
  BY <1>1, NoInputStill
<1>5. CASE Goto("ident", mTokenBuffer) \/ Goto("type", mTokenBuffer)
  BY <1>1, <1>2, <1>4, <1>5, HoldsStill DEF Goto, Outcome, Reading
<1>6. CASE First \in Blank \cup Digit /\ Goto("loop", << >>)
  <2>1. mTokenBuffer' = << >> /\ pc' = "loop" /\ mTokens' = mTokens
    BY <1>6 DEF Goto
  <2>2. text[offset + 1] \in Tokens!Skippable
    BY <1>2, <1>6 DEF Tokens!Skippable
  <2>3. Tokens!Left > 0
    BY <1>2, <1>3, LeftIs
  <2>4. Tokens!Skip
    BY <2>1, <2>2, <2>3, <1>1, <1>2, <1>4 DEF Tokens!Skip
  <2> QED
    BY <2>4, <1>1, <1>2, <1>4 DEF Outcome, Tokens!Next
<1>7. CASE First \in Singles /\ CreateToken(<<First>>, mTokenBuffer)
  <2>1. mTokenBuffer = <<First>> /\ <<First>> \in Tokens!Symbols
    BY <1>2, <1>7, OneCharacterSymbol
  <2>2. NoneLonger(1)
    BY <1>2, <1>3, <1>7, SymbolLongest
  <2>3. CreateToken(mTokenBuffer, mTokenBuffer) /\ mTokenBuffer \in Tokens!Symbols
    BY <2>1, <1>7
  <2>4. mOffset' = offset + 1 /\ offset + 1 <= Len(text)
    BY <1>2, <1>4
  <2> QED
    BY <2>2, <2>3, <2>4, <1>1, <1>3, <1>4, EmitSymbol
<1> QED
  BY <1>5, <1>6, <1>7 DEF Dispatch, AtSwitch

\* The character consumed behind a lookahead that is exact.
LEMMA ConsumedAhead ==
    ASSUME LexInv, pc \in Reading, Peeks, ~stale', ~HasEofByte, NEW d \in Chars, Consume(d)
    PROVE  LET n == Len(mTokenBuffer) + 1 IN
           /\ d = PeekValue /\ text' = text
           /\ n \in Nat \ {0} /\ offset + n <= Len(text) /\ mOffset' = offset + n
           /\ d = text[offset + n]
           /\ Append(mTokenBuffer, d) # << >> /\ Append(mTokenBuffer, d) = Tokens!Ahead(n)
<1>1. /\ ~stale /\ mOffset < Len(text) /\ PeekValue = text[mOffset + 1]
      /\ d = PeekValue /\ mOffset' = mOffset + 1
  BY ExactPeek
<1>2. text' = text
  BY DEF Consume
<1> QED
  BY <1>1, <1>2, MoreAhead

LEMMA TwoAhead ==
    ASSUME text \in Seq(Chars), offset \in Nat, mTokenBuffer # << >>, offset + 2 <= Len(text)
    PROVE  Tokens!Ahead(2) = <<text[offset + 1], text[offset + 2]>>
<1>1. /\ Tokens!Ahead(2) \in Seq(Chars) /\ Len(Tokens!Ahead(2)) = 2
      /\ Tokens!Ahead(2)[1] = text[offset + 1] /\ Tokens!Ahead(2)[2] = text[offset + 2]
  <2>1. 2 \in Nat \ {0} /\ 1 \in 1 .. 2 /\ 2 \in 1 .. 2
    OBVIOUS
  <2> QED
    BY <2>1, AheadIs, Zenon
<1> QED
  BY <1>1

LEMMA ThreeAhead ==
    ASSUME text \in Seq(Chars), offset \in Nat, mTokenBuffer # << >>, offset + 3 <= Len(text)
    PROVE  Tokens!Ahead(3) = <<text[offset + 1], text[offset + 2], text[offset + 3]>>
<1>1. /\ Tokens!Ahead(3) \in Seq(Chars) /\ Len(Tokens!Ahead(3)) = 3
      /\ Tokens!Ahead(3)[1] = text[offset + 1] /\ Tokens!Ahead(3)[2] = text[offset + 2]
      /\ Tokens!Ahead(3)[3] = text[offset + 3]
  <2>1. 3 \in Nat \ {0} /\ 1 \in 1 .. 3 /\ 2 \in 1 .. 3 /\ 3 \in 1 .. 3
    OBVIOUS
  <2> QED
    BY <2>1, AheadIs, Zenon
<1> QED
  BY <1>1

\* The operators of one and two characters.
LEMMA OperatorRefines ==
    ASSUME LexInv, Operator, ~stale', ~HasEofByte
    PROVE  Outcome
<1>1. /\ pc = "switch" /\ pc \in Reading /\ Peeks /\ First \in OpStart
      /\ UNCHANGED <<offset, line, column, calls>>
  BY DEF Operator, AtSwitch, Reading, startVars
<1>2. /\ calls = 1 /\ mTokenBuffer # << >> /\ mOffset = offset + 1 /\ mOffset <= Len(text)
      /\ text[offset + 1] = First /\ mTokenBuffer \in Seq(Chars)
      /\ Len(mTokenBuffer) = 1 /\ mTokenBuffer[1] = First
  BY <1>1, OneCharacter
<1>3. /\ ~stale /\ mOffset < Len(text) /\ PeekValue = text[mOffset + 1] /\ PeekValue # EOF
  BY <1>1, ExactPeek
<1>4. /\ text \in Seq(Chars) /\ Len(text) \in Nat /\ offset \in Nat
      /\ mTokenBuffer = Tokens!Ahead(1)
  BY <1>1, <1>2, <1>3, Window
<1>5. text[offset + 2] = PeekValue
  BY <1>2, <1>3, <1>4
<1>6. mTokenBuffer = <<First>>
  BY <1>2
<1>7. CASE /\ PeekValue \in OpSecond(First)
           /\ \E d \in Chars :
                 /\ Consume(d)
                 /\ IF First \in OpTriple /\ PeekValue = First
                    THEN Goto("third", Append(mTokenBuffer, d))
                    ELSE CreateToken(<<First, PeekValue>>, Append(mTokenBuffer, d))
  <2>1. PICK d \in Chars :
            /\ Consume(d)
            /\ IF First \in OpTriple /\ PeekValue = First
               THEN Goto("third", Append(mTokenBuffer, d))
               ELSE CreateToken(<<First, PeekValue>>, Append(mTokenBuffer, d))
    BY <1>7
  <2>2. /\ d = PeekValue /\ text' = text
        /\ offset + 2 <= Len(text) /\ mOffset' = offset + 2
        /\ Append(mTokenBuffer, d) # << >> /\ Append(mTokenBuffer, d) = Tokens!Ahead(2)
    <3>1. Len(mTokenBuffer) + 1 = 2
      BY <1>2
    <3> QED
      BY <3>1, <2>1, <1>1, ConsumedAhead
  <2>3. CASE First \in OpTriple /\ PeekValue = First
    <3>1. Goto("third", Append(mTokenBuffer, d))
      BY <2>1, <2>3
    <3>2. pc' \in Reading /\ mTokenBuffer' # << >> /\ mTokens' = mTokens
      BY <3>1, <2>2 DEF Goto, Reading
    <3> QED
      BY <3>2, <2>2, <1>1, HoldsStill DEF Outcome
  <2>4. CASE ~(First \in OpTriple /\ PeekValue = First)
    <3>1. Append(mTokenBuffer, d) = <<First, PeekValue>>
      BY <1>2, <1>4, <1>5, <2>2, TwoAhead
    <3>2. <<First, PeekValue>> \in Tokens!Symbols
      BY <1>1, <1>7, TwoCharacterSymbol
    <3>3. NoneLonger(2)
      BY <2>4, <1>1, <1>2, <1>4, <1>5, SymbolLongest
    <3>4. CreateToken(<<First, PeekValue>>, <<First, PeekValue>>)
      BY <2>1, <2>4, <3>1
    <3>5. <<First, PeekValue>> = Tokens!Ahead(2)
      BY <3>1, <2>2
    <3> QED
      BY <3>2, <3>3, <3>4, <3>5, <2>2, <1>1, EmitSymbol
  <2> QED
    BY <2>3, <2>4
<1>8. CASE /\ PeekValue \notin OpSecond(First)
           /\ NoInput /\ CreateToken(<<First>>, mTokenBuffer)
  <2>1. mTokenBuffer \in Tokens!Symbols /\ CreateToken(mTokenBuffer, mTokenBuffer)
    BY <1>1, <1>6, <1>8, OneCharacterSymbol
  <2>2. NoneLonger(1)
    BY <1>1, <1>2, <1>4, <1>5, <1>8, SymbolLongest
  <2>3. text' = text /\ mOffset' = offset + 1 /\ offset + 1 <= Len(text)
    BY <1>2, <1>8, NoInputStill
  <2> QED
    BY <2>1, <2>2, <2>3, <1>1, <1>4, EmitSymbol
<1> QED
  BY <1>3, <1>7, <1>8, Zenon DEF Operator

LEMMA ThirdCharacterRefines ==
    ASSUME LexInv, ReadInv, ThirdCharacter, ~stale', ~HasEofByte
    PROVE  Outcome
<1>1. /\ pc = "third" /\ pc \in Reading /\ Peeks
      /\ UNCHANGED <<offset, line, column, calls>>
  BY DEF ThirdCharacter, Reading, startVars
<1>2. /\ ~stale /\ mOffset < Len(text) /\ PeekValue = text[mOffset + 1] /\ PeekValue # EOF
  BY <1>1, ExactPeek
<1>3. First \in OpTriple /\ Len(mTokenBuffer) = 2 /\ text[offset + 2] = text[offset + 1]
  BY <1>1, <1>2 DEF LexInv, LabelOK, ReadInv, Exact
<1>4. /\ text \in Seq(Chars) /\ Len(text) \in Nat /\ offset \in Nat
      /\ mTokenBuffer # << >> /\ mTokenBuffer \in Seq(Chars)
      /\ mOffset = offset + 2 /\ mOffset <= Len(text)
      /\ mTokenBuffer[1] = text[offset + 1] /\ mTokenBuffer[2] = text[offset + 2]
      /\ mTokenBuffer = Tokens!Ahead(2)
  BY <1>1, <1>2, <1>3, Window
<1>5. First = mTokenBuffer[1] /\ mTokenBuffer = <<First, First>>
  <2>1. First = mTokenBuffer[1]
    BY <1>4 DEF First
  <2> QED
    BY <2>1, <1>3, <1>4
<1>6. /\ text[offset + 3] = PeekValue /\ text[offset + 1] = First /\ First \in OpStart
  <2>1. offset + 3 = mOffset + 1
    BY <1>4
  <2> QED
    BY <2>1, <1>2, <1>3, <1>4, <1>5, OpClasses
<1>7. CASE /\ PeekValue = "="
           /\ \E d \in Chars :
                 Consume(d) /\ CreateToken(<<First, First, "=">>, Append(mTokenBuffer, d))
  <2>1. PICK d \in Chars :
            Consume(d) /\ CreateToken(<<First, First, "=">>, Append(mTokenBuffer, d))
    BY <1>7
  <2>2. /\ d = PeekValue /\ text' = text
        /\ offset + 3 <= Len(text) /\ mOffset' = offset + 3
        /\ Append(mTokenBuffer, d) = Tokens!Ahead(3)
    <3>1. Len(mTokenBuffer) + 1 = 3
      BY <1>3
    <3> QED
      BY <3>1, <2>1, <1>1, ConsumedAhead
  <2>3. Append(mTokenBuffer, d) = <<First, First, "=">>
    <3>1. Tokens!Ahead(3) = <<First, First, PeekValue>>
      BY <1>3, <1>4, <1>6, <2>2, ThreeAhead
    <3> QED
      BY <3>1, <1>7, <2>2, Zenon
  <2>4. <<First, First, "=">> \in Tokens!Symbols
    BY <1>3, ThreeCharacterSymbol
  <2>5. NoneLonger(3)
    BY <1>4, <1>6, SymbolLongest
  <2>6. CreateToken(<<First, First, "=">>, <<First, First, "=">>)
    BY <2>1, <2>3
  <2>7. <<First, First, "=">> = Tokens!Ahead(3)
    BY <2>2, <2>3
  <2> QED
    BY <2>2, <2>4, <2>5, <2>6, <2>7, <1>1, EmitSymbol
<1>8. CASE PeekValue # "=" /\ NoInput /\ CreateToken(<<First, First>>, mTokenBuffer)
  <2>1. mTokenBuffer \in Tokens!Symbols /\ CreateToken(mTokenBuffer, mTokenBuffer)
    BY <1>3, <1>5, <1>8, ThreeCharacterSymbol
  <2>2. NoneLonger(2)
    BY <1>4, <1>6, <1>8, SymbolLongest
  <2>3. text' = text /\ mOffset' = offset + 2 /\ offset + 2 <= Len(text)
    BY <1>4, <1>8, NoInputStill
  <2> QED
    BY <2>1, <2>2, <2>3, <1>1, <1>4, EmitSymbol
<1> QED
  BY <1>2, <1>7, <1>8, Zenon DEF ThirdCharacter

\* Where there is no lexeme at all, an error is what the specification has too.
LEMMA NoLexemeFails ==
    ASSUME LexInv, pc \in Reading, NoInput, NEW e, Raise(e, mTokenBuffer),
           UNCHANGED <<offset, calls>>,
           text[offset + 1] \notin Blank \cup Digit, text[offset + 1] # "#",
           \A n \in Nat \ {0} : offset + n <= Len(text) =>
                \A type : ~Tokens!IsLexeme(Tokens!Ahead(n), type)
    PROVE  Outcome
<1>1. mTokenBuffer # << >> /\ offset \in Nat /\ Len(text) \in Nat
  BY ReadingPiece, OffsetInText DEF LexInv
<1>2. ASSUME NEW n \in 1 .. Len(text) - offset, NEW type, Tokens!Acceptable(n, type)
      PROVE  FALSE
  <2>1. n \in Nat \ {0} /\ offset + n <= Len(text)
    BY <1>1
  <2> QED
    BY <1>2, <2>1 DEF Tokens!Acceptable, Tokens!Longest
<1>3. pc' = "exit" /\ mTokenBuffer' # << >> /\ UNCHANGED <<text, mTokens>>
  BY <1>1, NoInputStill DEF Raise
<1> QED
  BY <1>2, <1>3, FailStep DEF Outcome

LEMMA UnknownSymbolRefines ==
    ASSUME LexInv, UnknownSymbol, ~stale', ~HasEofByte
    PROVE  Outcome
<1>1. /\ pc = "switch" /\ pc \in Reading /\ NoInput /\ Raise("symbol", mTokenBuffer)
      /\ UNCHANGED <<offset, calls>> /\ First \notin Known
  BY DEF UnknownSymbol, Reading, startVars
<1>2. /\ text[offset + 1] = First /\ mTokenBuffer # << >>
      /\ text \in Seq(Chars) /\ offset \in Nat
  BY <1>1, OneCharacter, OffsetInText DEF LexInv
<1>3. /\ First \notin Blank \cup Digit /\ First # "#" /\ First # "_"
      /\ First \notin Singles \cup OpStart \cup Upper \cup Lower
  BY <1>1 DEF Known
<1>4. ASSUME NEW n \in Nat \ {0}, offset + n <= Len(text), NEW type,
             Tokens!IsLexeme(Tokens!Ahead(n), type)
      PROVE  FALSE
  BY <1>2, <1>3, <1>4, AheadShape, Zenon
<1> QED
  BY <1>1, <1>2, <1>3, <1>4, NoLexemeFails

LEMMA UnderscoreRefines ==
    ASSUME LexInv, Underscore, ~stale', ~HasEofByte
    PROVE  Outcome
<1>1. /\ pc = "switch" /\ pc \in Reading /\ Peeks /\ First = "_"
      /\ UNCHANGED <<offset, calls>>
  BY DEF Underscore, AtSwitch, Reading, startVars
<1>2. /\ mTokenBuffer # << >> /\ mOffset = offset + 1 /\ text[offset + 1] = First
      /\ text \in Seq(Chars) /\ offset \in Nat
  BY <1>1, OneCharacter, OffsetInText DEF LexInv
<1>3. PeekValue = text[mOffset + 1] /\ PeekValue # EOF
  BY <1>1, ExactPeek
<1>4. text[offset + 2] = PeekValue
  <2>1. mOffset + 1 = offset + 2
    BY <1>2
  <2> QED
    BY <2>1, <1>3
<1>5. CASE NoInput /\ Goto("ident", mTokenBuffer)
  BY <1>1, <1>2, <1>5, NoInputStill, HoldsStill DEF Goto, Reading, Outcome
<1>6. CASE \E d \in Chars : Consume(d) /\ Goto("under", Append(mTokenBuffer, d))
  <2>1. PICK d \in Chars : Consume(d) /\ Goto("under", Append(mTokenBuffer, d))
    BY <1>6
  <2>2. text' = text /\ Append(mTokenBuffer, d) # << >>
    BY <2>1, <1>1, ConsumedAhead
  <2> QED
    BY <2>1, <2>2, <1>1, HoldsStill DEF Goto, Reading, Outcome
<1>7. CASE /\ PeekValue # "_" /\ PeekValue \notin Lower
           /\ NoInput /\ Raise("character", mTokenBuffer)
  <2>1. ASSUME NEW n \in Nat \ {0}, offset + n <= Len(text), NEW type,
               Tokens!IsLexeme(Tokens!Ahead(n), type)
        PROVE  FALSE
    BY <2>1, <1>1, <1>2, <1>4, <1>7, AheadShape, Zenon
  <2>2. First \notin Blank \cup Digit /\ First # "#"
    BY <1>1, Disjoint, ClassAssumption
  <2> QED
    BY <2>1, <2>2, <1>1, <1>2, <1>7, NoLexemeFails
<1> QED
  BY <1>3, <1>5, <1>6, <1>7, Zenon DEF Underscore

LEMMA SecondUnderscoreRefines ==
    ASSUME LexInv, ReadInv, SecondUnderscore, ~stale', ~HasEofByte
    PROVE  Outcome
<1>1. /\ pc = "under" /\ pc \in Reading /\ Peeks /\ NoInput
      /\ UNCHANGED <<offset, calls>>
  BY DEF SecondUnderscore, Reading, startVars
<1>2. ~stale /\ PeekValue = text[mOffset + 1] /\ PeekValue # EOF
  BY <1>1, ExactPeek
<1>3. Underscores(2) /\ Len(mTokenBuffer) = 2
  BY <1>1, <1>2 DEF LexInv, LabelOK, ReadInv, Exact
<1>4. /\ mTokenBuffer # << >> /\ mOffset = offset + 2
      /\ text \in Seq(Chars) /\ offset \in Nat
  BY <1>1, <1>2, <1>3, Window
<1>5. text[offset + 1] = "_" /\ text[offset + 2] = "_"
  <2>1. 1 \in 1 .. 2 /\ 2 \in 1 .. 2
    OBVIOUS
  <2> QED
    BY <2>1, <1>3, Zenon DEF Underscores
<1>6. text[offset + 3] = PeekValue
  <2>1. mOffset + 1 = offset + 3
    BY <1>4
  <2> QED
    BY <2>1, <1>2
<1>7. CASE Goto("ident", mTokenBuffer)
  BY <1>1, <1>4, <1>7, NoInputStill, HoldsStill DEF Goto, Reading, Outcome
<1>8. CASE PeekValue \notin Lower /\ \E e : Raise(e, mTokenBuffer)
  <2>1. ASSUME NEW n \in Nat \ {0}, offset + n <= Len(text), NEW type,
               Tokens!IsLexeme(Tokens!Ahead(n), type)
        PROVE  FALSE
    BY <2>1, <1>4, <1>5, <1>6, <1>8, AheadShape, Zenon
  <2>2. "_" \notin Blank \cup Digit /\ "_" # "#"
    BY Disjoint, ClassAssumption
  <2> QED
    BY <2>1, <2>2, <1>1, <1>5, <1>8, NoLexemeFails
<1>9. "_" \notin Lower
  BY Disjoint
<1> QED
  BY <1>2, <1>7, <1>8, <1>9, Zenon DEF SecondUnderscore

-----------------------------------------------------------------------------
(* Identifiers and types                                                    *)

LEMMA IdentIs ==
    ASSUME text \in Seq(Chars), offset \in Nat, mTokenBuffer # << >>,
           NEW n \in Nat \ {0}, offset + n <= Len(text), NEW u \in 0 .. 2, u < n,
           IdentFrom(u), \A i \in u + 2 .. n : text[offset + i] \in IdentChars
    PROVE  Tokens!IsLexeme(Tokens!Ahead(n), <<"IDENT">>)
<1> DEFINE s == Tokens!Ahead(n)
<1>1. s \in Seq(Chars) /\ Len(s) = n /\ \A i \in 1 .. n : s[i] = text[offset + i]
  BY AheadIs
<1>2. PICK mark : mark = "_"
  OBVIOUS
<1>3. (\A i \in 1 .. u : text[offset + i] = mark) /\ text[offset + u + 1] \in Lower
  BY <1>2, Zenon DEF IdentFrom, Underscores
<1> HIDE DEF s
<1>4. /\ u < Len(s)
      /\ \A i \in 1 .. u : s[i] = mark
      /\ s[u + 1] \in Lower
      /\ \A i \in u + 2 .. Len(s) : s[i] \in IdentChars
  <2>1. u + 1 \in 1 .. n /\ offset + (u + 1) = offset + u + 1 /\ u < Len(s)
    BY <1>1
  <2>2. s[u + 1] = text[offset + u + 1]
    BY <1>1, <2>1
  <2>3. \A i \in 1 .. u : s[i] = mark
    BY <1>1, <1>3
  <2>4. \A i \in u + 2 .. n : s[i] \in IdentChars
    <3>1. \A i \in u + 2 .. n : i \in 1 .. n
      OBVIOUS
    <3> QED
      BY <1>1, <3>1, Zenon
  <2> QED
    BY <1>1, <1>3, <2>1, <2>2, <2>3, <2>4, Zenon
<1>5. Tokens!IsIdent(s)
  BY <1>2, <1>4, Zenon
     DEF Tokens!IsIdent, Tokens!IdentChars, Tokens!TypeChars, IdentChars, TypeChars
<1> QED
  BY <1>5 DEF Tokens!IsLexeme, s

LEMMA TypeIs ==
    ASSUME text \in Seq(Chars), offset \in Nat, mTokenBuffer # << >>,
           NEW n \in Nat \ {0}, offset + n <= Len(text),
           text[offset + 1] \in Upper, \A i \in 2 .. n : text[offset + i] \in TypeChars
    PROVE  Tokens!IsLexeme(Tokens!Ahead(n), <<"TYPE_IDENT">>)
<1> DEFINE s == Tokens!Ahead(n)
<1>1. s \in Seq(Chars) /\ Len(s) = n /\ \A i \in 1 .. n : s[i] = text[offset + i]
  BY AheadIs
<1> HIDE DEF s
<1>2. s # << >> /\ s[1] \in Upper /\ \A i \in 2 .. Len(s) : s[i] \in TypeChars
  <2>1. 1 \in 1 .. n /\ \A i \in 2 .. n : i \in 1 .. n
    OBVIOUS
  <2>2. s[1] = text[offset + 1] /\ \A i \in 2 .. n : s[i] = text[offset + i]
    BY <1>1, <2>1, Zenon
  <2>3. s # << >>
    BY <1>1
  <2> QED
    BY <1>1, <2>2, <2>3, Zenon
<1>3. Tokens!IsType(s)
  BY <1>2 DEF Tokens!IsType, Tokens!TypeChars, TypeChars
<1> QED
  BY <1>3 DEF Tokens!IsLexeme, s

\* The text read so far begins a word of this type, which class goes on.
WordHere(class, type) ==
    LET c == text[offset + 1]
        n == Len(mTokenBuffer)
    IN  /\ c \in Lower \/ c = "_" \/ c \in Upper
        /\ PeekValue \in class => Tokens!IsLexeme(Tokens!Ahead(n + 1), type)
        /\ PeekValue \notin class => Tokens!IsLexeme(Tokens!Ahead(n), type) /\ NoneLonger(n)

\* parseIdent() and parseType(): a word in front of white space is created, one that
\* is too long or ends in front of something else is an error.
LEMMA WordRefines ==
    ASSUME LexInv, NEW label \in {"ident", "type"}, NEW class, NEW type \in Tokens!WordTypes,
           ParseWord(label, class, type), ~stale', ~HasEofByte,
           WordHere(class, type)
    PROVE  Outcome
<1> DEFINE c == text[offset + 1]
           n == Len(mTokenBuffer)
<1>1. /\ pc = label /\ pc \in Reading /\ Peeks
      /\ UNCHANGED <<offset, calls>>
  BY DEF ParseWord, Reading, startVars
<1>2. /\ ~stale /\ mOffset < Len(text) /\ PeekValue = text[mOffset + 1] /\ PeekValue # EOF
  BY <1>1, ExactPeek
<1>3. /\ text \in Seq(Chars) /\ Len(text) \in Nat /\ offset \in Nat /\ n \in Nat \ {0}
      /\ mTokenBuffer # << >> /\ mTokenBuffer \in Seq(Chars) /\ mTokenBuffer = Tokens!Ahead(n)
      /\ mOffset = offset + n /\ offset + n < Len(text)
      /\ text[offset + n + 1] = PeekValue
  BY <1>1, <1>2, Window
<1>4. n < MaxTokenLen
  BY <1>1, ReadingLength
<1>5. c \notin Blank \cup Digit /\ c # "#" /\ (c \in Lower \/ c = "_" \/ c \in Upper)
  BY Disjoint, ClassAssumption DEF WordHere
<1>w. /\ PeekValue \in class => Tokens!IsLexeme(Tokens!Ahead(n + 1), type)
      /\ PeekValue \notin class => Tokens!IsLexeme(Tokens!Ahead(n), type) /\ NoneLonger(n)
  BY DEF WordHere
<1> HIDE DEF c
<1>6. Tokens!Left = Len(text) - offset
  BY <1>3, LeftIs
<1>7. ASSUME NEW m \in 1 .. Len(text) - offset, NEW t \in TokenTypes, Tokens!Acceptable(m, t)
      PROVE  /\ m < MaxTokenLen /\ text[offset + m + 1] \in Space
             /\ \A k \in m + 1 .. Len(text) - offset :
                    ~Tokens!IsLexeme(Tokens!Ahead(k), type)
  <2>1. Tokens!IsLexeme(Tokens!Ahead(m), t)
    BY <1>7 DEF Tokens!Acceptable, Tokens!Longest
  <2>2. m \in Nat \ {0} /\ offset + m <= Len(text)
    BY <1>3
  <2>3. t \in Tokens!WordTypes
    BY <2>1, <2>2, <1>3, <1>5, AheadShape, Zenon DEF Tokens!WordTypes, c
  <2>4. m < MaxTokenLen /\ text[offset + m + 1] \in Space
    BY <1>3, <1>7, <2>3 DEF Tokens!Acceptable
  <2>5. \A k \in m + 1 .. Tokens!Left : ~Tokens!IsLexeme(Tokens!Ahead(k), type)
    BY <1>7, Zenon DEF Tokens!Acceptable, Tokens!Longest
  <2> QED
    BY <2>4, <2>5, <1>6
<1>8. CASE /\ PeekValue \in class
           /\ \E d \in Chars :
                 /\ Consume(d)
                 /\ LET buf == Append(mTokenBuffer, d) IN
                    IF TooLong(buf) THEN Raise("length", buf) ELSE Goto(label, buf)
  <2>1. PICK d \in Chars :
            /\ Consume(d)
            /\ LET buf == Append(mTokenBuffer, d) IN
               IF TooLong(buf) THEN Raise("length", buf) ELSE Goto(label, buf)
    BY <1>8
  <2> DEFINE buf == Append(mTokenBuffer, d)
  <2>2. text' = text /\ buf # << >> /\ offset + (n + 1) <= Len(text)
    BY <2>1, <1>1, ConsumedAhead
  <2>3. CASE ~TooLong(buf) /\ Goto(label, buf)
    BY <2>2, <2>3, <1>1, HoldsStill DEF Goto, Reading, Outcome
  <2>4. CASE TooLong(buf) /\ Raise("length", buf)
    <3>1. Len(buf) = n + 1
      BY <1>3
    <3>2. n + 1 + 1 > MaxTokenLen
      BY <2>4, <3>1 DEF TooLong
    <3>3. ASSUME NEW m \in 1 .. Len(text) - offset, NEW t \in TokenTypes,
                 Tokens!Acceptable(m, t)
          PROVE  FALSE
      <4>1. m < MaxTokenLen /\ m \in Nat
        BY <3>3, <1>7
      <4>2. n + 1 \in m + 1 .. Len(text) - offset
        BY <4>1, <3>2, <2>2, <1>3, <1>4, MaxTokenLenAssumption
      <4> QED
        BY <3>3, <4>2, <1>7, <1>8, <1>w
    <3>4. pc' = "exit" /\ mTokenBuffer' # << >> /\ mTokens' = mTokens
      BY <2>2, <2>4 DEF Raise
    <3> QED
      BY <3>3, <3>4, <2>2, <1>1, <1>5, FailStep DEF Outcome, c
  <2> QED
    BY <2>1, <2>3, <2>4
<1>9. CASE PeekValue \notin class /\ PeekValue \in Space /\ NoInput /\ CreateToken(type, mTokenBuffer)
  <2>1. Tokens!Acceptable(n, type) /\ type \in TokenTypes
    BY <1>1, <1>3, <1>4, <1>9, <1>w, WordAcceptable DEF TokenTypes
  <2>2. CreateToken(type, Tokens!Ahead(n)) /\ offset + n <= Len(text)
    BY <1>3, <1>9
  <2>3. text' = text /\ mOffset' = offset + n
    BY <1>3, <1>9, NoInputStill
  <2> QED
    BY <2>1, <2>2, <2>3, <1>1, <1>3, EmitStep DEF Outcome
<1>10. CASE PeekValue \notin class /\ PeekValue \notin Space /\ NoInput /\ Raise("character", mTokenBuffer)
  <2>1. ASSUME NEW m \in 1 .. Len(text) - offset, NEW t \in TokenTypes, Tokens!Acceptable(m, t)
        PROVE  FALSE
    <3>1. m # n
      BY <2>1, <1>3, <1>7, <1>10
    <3>2. ~(n < m)
      <4>1. SUFFICES ASSUME n < m PROVE FALSE
        OBVIOUS
      <4>2. Tokens!IsLexeme(Tokens!Ahead(m), t)
        BY <2>1 DEF Tokens!Acceptable, Tokens!Longest
      <4>3. m \in Nat /\ offset + m <= Len(text)
        BY <1>3
      <4> QED
        BY <4>1, <4>2, <4>3, <1>10, <1>w DEF NoneLonger
    <3>3. n \in m + 1 .. Len(text) - offset
      BY <3>1, <3>2, <1>3
    <3> QED
      BY <2>1, <3>3, <1>7, <1>10, <1>w
  <2>2. pc' = "exit" /\ mTokenBuffer' # << >> /\ UNCHANGED <<text, mTokens>>
    BY <1>3, <1>10, NoInputStill DEF Raise
  <2> QED
    BY <2>1, <2>2, <1>1, <1>5, FailStep DEF Outcome, c
<1> QED
  BY <1>2, <1>8, <1>9, <1>10, Zenon DEF ParseWord

LEMMA IdentRefines ==
    ASSUME LexInv, ReadInv, ParseIdent, ~stale', ~HasEofByte
    PROVE  Outcome
<1> DEFINE c == text[offset + 1]
           n == Len(mTokenBuffer)
<1>1. ParseWord("ident", IdentChars, <<"IDENT">>) /\ pc = "ident" /\ pc \in Reading /\ Peeks
  BY DEF ParseIdent, ParseWord, Reading
<1>2. /\ ~stale /\ mOffset < Len(text) /\ PeekValue = text[mOffset + 1]
  BY <1>1, ExactPeek
<1>3. /\ text \in Seq(Chars) /\ Len(text) \in Nat /\ offset \in Nat /\ n \in Nat \ {0}
      /\ mTokenBuffer # << >> /\ mOffset = offset + n /\ offset + n < Len(text)
      /\ text[offset + n + 1] = PeekValue
  BY <1>1, <1>2, Window
<1>4. PICK u \in 0 .. 2 : IdentRead(u)
  BY <1>1, <1>2, Zenon DEF ReadInv, Exact
<1>5. /\ IdentFrom(u) /\ u <= n
      /\ \A i \in u + 2 .. n : text[offset + i] \in IdentChars
  BY <1>4 DEF IdentRead
<1>6. text[offset + u + 1] \in Lower /\ text[offset + u + 1] \in IdentChars
  BY <1>5 DEF IdentFrom, IdentChars, TypeChars
<1>7. c \in Lower \/ c = "_"
  <2>1. u = 0 => offset + u + 1 = offset + 1
    BY <1>3
  <2>2. u # 0 => 1 \in 1 .. u
    OBVIOUS
  <2> QED
    BY <2>1, <2>2, <1>5, <1>6, Zenon DEF IdentFrom, Underscores
<1>8. ASSUME PeekValue \in IdentChars
      PROVE  Tokens!IsLexeme(Tokens!Ahead(n + 1), <<"IDENT">>)
  <2>1. /\ n + 1 \in Nat \ {0} /\ offset + (n + 1) <= Len(text) /\ u < n + 1
        /\ offset + (n + 1) = offset + n + 1
        /\ \A i \in u + 2 .. n + 1 : i = n + 1 \/ i \in u + 2 .. n
    BY <1>3, <1>5
  <2>2. \A i \in u + 2 .. n + 1 : text[offset + i] \in IdentChars
    BY <2>1, <1>3, <1>5, <1>8, Zenon
  <2> QED
    BY <2>1, <2>2, <1>3, <1>5, IdentIs
<1>9. ASSUME PeekValue \notin IdentChars
      PROVE  Tokens!IsLexeme(Tokens!Ahead(n), <<"IDENT">>) /\ NoneLonger(n)
  <2>1. u < n /\ offset + n <= Len(text)
    <3>1. u # n
      BY <1>3, <1>6, <1>9
    <3> QED
      BY <3>1, <1>3, <1>5
  <2>2. NoneLonger(n)
    BY <1>3, <1>7, <1>9, WordLongest
  <2> QED
    BY <2>1, <2>2, <1>3, <1>5, IdentIs
<1>10. WordHere(IdentChars, <<"IDENT">>)
  BY <1>7, <1>8, <1>9, Zenon DEF WordHere
<1>11. <<"IDENT">> \in Tokens!WordTypes
  BY DEF Tokens!WordTypes
<1> QED
  BY <1>1, <1>10, <1>11, WordRefines

LEMMA TypeRefines ==
    ASSUME LexInv, ReadInv, ParseType, ~stale', ~HasEofByte
    PROVE  Outcome
<1> DEFINE c == text[offset + 1]
           n == Len(mTokenBuffer)
<1>1. ParseWord("type", TypeChars, <<"TYPE_IDENT">>) /\ pc = "type" /\ pc \in Reading /\ Peeks
  BY DEF ParseType, ParseWord, Reading
<1>2. /\ ~stale /\ mOffset < Len(text) /\ PeekValue = text[mOffset + 1]
  BY <1>1, ExactPeek
<1>3. /\ text \in Seq(Chars) /\ Len(text) \in Nat /\ offset \in Nat /\ n \in Nat \ {0}
      /\ mTokenBuffer # << >> /\ mOffset = offset + n /\ offset + n < Len(text)
      /\ text[offset + n + 1] = PeekValue
  BY <1>1, <1>2, Window
<1>4. c \in Upper /\ \A i \in 2 .. n : text[offset + i] \in TypeChars
  BY <1>1, <1>2, Zenon DEF ReadInv, Exact
<1>5. /\ n + 1 \in Nat \ {0} /\ offset + (n + 1) <= Len(text) /\ offset + n <= Len(text)
      /\ offset + (n + 1) = offset + n + 1
      /\ \A i \in 2 .. n + 1 : i = n + 1 \/ i \in 2 .. n
  BY <1>3
<1>6. ASSUME PeekValue \in TypeChars
      PROVE  Tokens!IsLexeme(Tokens!Ahead(n + 1), <<"TYPE_IDENT">>)
  <2>1. \A i \in 2 .. n + 1 : text[offset + i] \in TypeChars
    BY <1>3, <1>4, <1>5, <1>6, Zenon
  <2> QED
    BY <2>1, <1>3, <1>4, <1>5, TypeIs
<1>7. ASSUME PeekValue \notin TypeChars
      PROVE  Tokens!IsLexeme(Tokens!Ahead(n), <<"TYPE_IDENT">>) /\ NoneLonger(n)
  <2>1. NoneLonger(n)
    BY <1>3, <1>4, <1>7, WordLongest
  <2> QED
    BY <2>1, <1>3, <1>4, <1>5, TypeIs
<1>8. WordHere(TypeChars, <<"TYPE_IDENT">>)
  BY <1>4, <1>6, <1>7, Zenon DEF WordHere
<1>9. <<"TYPE_IDENT">> \in Tokens!WordTypes
  BY DEF Tokens!WordTypes
<1> QED
  BY <1>1, <1>8, <1>9, WordRefines

-----------------------------------------------------------------------------
(* Comments, and the ends of the loop and of the text                       *)

LEMMA CommentRefines ==
    ASSUME LexInv, Comment, ~stale', ~HasEofByte
    PROVE  Outcome
<1>1. /\ AtSwitch({"#"}) \/ pc = "comment"
      /\ UNCHANGED <<offset, calls>>
      /\ pc \notin {"exit", "finish", "done"}
  BY DEF Comment, startVars, AtSwitch
<1>2. /\ calls = 1 /\ ~mDone /\ mTokenBuffer # << >>
      /\ offset \in Nat /\ offset < mOffset /\ text[offset + 1] = "#"
      /\ \A i \in offset + 1 .. mOffset : text[i] # NL
  BY <1>1, CommentSoFar
<1>3. PICK d \in Chars : /\ Consume(d)
                         /\ IF EndsComment(d) THEN Goto("loop", << >>)
                                              ELSE Goto("comment", mTokenBuffer)
  BY DEF Comment
<1>4. text \in Seq(Chars) /\ Len(text) \in Nat /\ mOffset \in Nat /\ mOffset <= Len(text)
  BY OffsetInText DEF LexInv
<1>5. /\ text' = text
      /\ \/ mOffset < Len(text) /\ d = text[mOffset + 1] /\ mOffset' = mOffset + 1
         \/ mOffset = Len(text) /\ d = EOF /\ mOffset' = mOffset
  BY <1>2, <1>3, ConsumeMoves DEF LexInv, BufferMoved
<1>6. CASE EndsComment(d)
  <2>1. mTokenBuffer' = << >> /\ pc' = "loop" /\ mTokens' = mTokens
    BY <1>3, <1>6 DEF Goto
  <2>2. /\ mOffset' \in offset + 1 .. Len(text)
        /\ mOffset' = Len(text) \/ text[mOffset'] = NL
        /\ \A i \in offset + 1 .. mOffset' - 1 : text[i] # NL
    <3>1. CASE mOffset < Len(text) /\ d = text[mOffset + 1] /\ mOffset' = mOffset + 1
      <4>1. mOffset + 1 \in DOMAIN text
        BY <3>1, <1>4
      <4>2. text[mOffset + 1] = NL
        BY <4>1, <3>1, <1>6 DEF EndsComment, HasEofByte
      <4>3. mOffset + 1 \in offset + 1 .. Len(text) /\ mOffset' - 1 = mOffset
        BY <3>1, <1>2, <1>4
      <4> QED
        BY <4>2, <4>3, <3>1, <1>2, Zenon
    <3>2. CASE mOffset = Len(text) /\ mOffset' = mOffset
      <4>1. Len(text) \in offset + 1 .. Len(text)
        BY <3>2, <1>2, <1>4
      <4>2. \A i \in offset + 1 .. mOffset - 1 : i \in offset + 1 .. mOffset
        BY <1>2, <1>4
      <4> QED
        BY <4>1, <4>2, <3>2, <1>2, Zenon
    <3> QED
      BY <3>1, <3>2, <1>5
  <2>3. Tokens!Left = Len(text) - offset /\ Tokens!Left > 0
    BY <1>2, <1>4, LeftIs
  <2>4. Tokens!SkipComment
    BY <2>1, <2>2, <2>3, <1>1, <1>2 DEF Tokens!SkipComment
  <2> QED
    BY <2>1, <2>4, <1>1, <1>2, <1>5 DEF Outcome, Tokens!Next
<1>7. CASE ~EndsComment(d)
  BY <1>1, <1>2, <1>3, <1>5, <1>7 DEF Goto, Outcome, Tokens!vars
<1> QED
  BY <1>6, <1>7

\* With no EOF byte in the text, the buffer is done at its end.
LEMMA AtTheEnd ==
    ASSUME LexInv, NothingLost, mDone, ~HasEofByte
    PROVE  mOffset = Len(text)
<1>1. text \in Seq(Chars) /\ Len(text) \in Nat /\ mOffset \in 0 .. Len(text)
  BY OffsetInText DEF LexInv
<1>2. \A i \in 1 .. mOffset : i \in DOMAIN text
  BY <1>1
<1> QED
  BY <1>2 DEF NothingLost, HasEofByte

LEMMA ReadCharacterRefines ==
    ASSUME LexInv, ReadInv, ReadCharacter, ~stale', ~HasEofByte
    PROVE  Outcome
<1>1. pc = "loop" /\ ~mDone /\ UNCHANGED <<calls, stale>>
  BY DEF ReadCharacter
<1>2. calls = 1 /\ mTokenBuffer = << >>
  BY <1>1 DEF LexInv, LexTypeOK, LabelOK, ReadInv, Exact
<1>3. PICK c \in Chars : /\ Consume(c)
                         /\ IF c = EOF THEN Goto("finish", mTokenBuffer)
                                       ELSE Goto("switch", Append(mTokenBuffer, c))
  BY <1>2 DEF ReadCharacter
<1>4. offset' = mOffset
  BY <1>2 DEF ReadCharacter, NoteStart
<1>5. text \in Seq(Chars) /\ Len(text) \in Nat /\ mOffset \in Nat
  BY OffsetInText DEF LexInv
<1>6. /\ text' = text
      /\ \/ mOffset < Len(text) /\ c = text[mOffset + 1] /\ mOffset' = mOffset + 1
         \/ mOffset = Len(text) /\ c = EOF /\ mOffset' = mOffset
  BY <1>1, <1>3, ConsumeMoves DEF LexInv, BufferMoved
<1>7. CASE c = EOF
  <2>1. mOffset = Len(text) /\ mOffset' = mOffset
    <3>1. mOffset < Len(text) => mOffset + 1 \in DOMAIN text
      BY <1>5
    <3> QED
      BY <3>1, <1>6, <1>7 DEF HasEofByte
  <2>2. pc' = "finish" /\ mTokenBuffer' = << >> /\ mTokens' = mTokens
    BY <1>2, <1>3, <1>7 DEF Goto
  <2>3. Tokens!Left = 0
    BY <2>1, <1>2, <1>5 DEF Tokens!Left
  <2> QED
    BY <2>1, <2>2, <2>3, <1>1, <1>2, <1>6 DEF Outcome, Tokens!Next, Tokens!Finish
<1>8. CASE c # EOF
  <2>1. pc' = "switch" /\ mTokenBuffer' = Append(<< >>, c) /\ mTokens' = mTokens
    BY <1>2, <1>3, <1>8 DEF Goto
  <2>2. mTokenBuffer' # << >>
    BY <2>1
  <2> QED
    BY <2>1, <2>2, <1>1, <1>2, <1>4, <1>6 DEF Outcome, Tokens!vars
<1> QED
  BY <1>7, <1>8

LEMMA LeaveLoopRefines ==
    ASSUME LexInv, NothingLost, ReadInv, LeaveLoop, ~stale', ~HasEofByte
    PROVE  Outcome
<1>1. /\ pc = "loop" /\ mDone /\ NoInput /\ UNCHANGED <<offset, calls, stale>>
      /\ pc' = "finish" /\ mTokenBuffer' = mTokenBuffer /\ mTokens' = mTokens
  BY DEF LeaveLoop, Goto, startVars
<1>2. mTokenBuffer = << >>
  BY <1>1 DEF ReadInv, Exact
<1>3. text' = text /\ mOffset' = mOffset
  BY <1>1, NoInputStill
<1>4. CASE calls = 1
  <2>1. Len(text) \in Nat /\ mOffset = Len(text)
    BY <1>1, AtTheEnd, OffsetInText DEF LexInv
  <2>2. Tokens!Left = 0
    BY <2>1, <1>2 DEF Tokens!Left
  <2> QED
    BY <2>2, <1>1, <1>2, <1>3, <1>4 DEF Outcome, Tokens!Next, Tokens!Finish
<1>5. CASE calls = 2
  BY <1>1, <1>2, <1>3, <1>5 DEF Outcome, Tokens!vars
<1> QED
  BY <1>4, <1>5 DEF LexInv, LexTypeOK

LEMMA FinishPassRefines ==
    ASSUME LexInv, ReadInv, FinishPass, ~stale', ~HasEofByte
    PROVE  Outcome
<1>1. /\ pc = "finish" /\ UNCHANGED stale /\ text' = text /\ mOffset' = mOffset
      /\ mTokenBuffer' = mTokenBuffer /\ mTokens' = mTokens
  BY DEF FinishPass, Goto, placeVars
<1>2. mTokenBuffer = << >>
  BY <1>1 DEF ReadInv, Exact
<1>3. pc' = "done" \/ (pc' = "loop" /\ calls' = 2)
  BY DEF FinishPass, Goto
<1> QED
  BY <1>1, <1>2, <1>3 DEF Outcome, Tokens!vars

-----------------------------------------------------------------------------
(* RefInv is inductive                                                      *)

LEMMA NextNothingLost ==
    ASSUME LexInv, NothingLost, [Next]_vars
    PROVE  NothingLost'
<1>1. \/ \E c \in Chars : Consume(c)
      \/ UNCHANGED <<text, mOffset, mDone>>
  BY DEF Next, Step, LeaveLoop, ReadCharacter, Underscore, SecondUnderscore, Dispatch,
         Operator, ThirdCharacter, Comment, UnknownSymbol, ParseIdent, ParseType, ParseWord,
         FinishPass, Terminated, NoInput, vars, bufferVars, placeVars
<1>2. CASE \E c \in Chars : Consume(c)
  BY <1>2, ConsumeNothingLost DEF LexInv
<1>3. CASE UNCHANGED <<text, mOffset, mDone>>
  BY <1>3 DEF NothingLost
<1> QED
  BY <1>1, <1>2, <1>3

\* A step that leaves the labels ReadInv speaks of, or empties the buffer.
LEMMA ReadInvFree ==
    ASSUME \/ mTokenBuffer' = << >> /\ pc' \in {"loop", "finish", "done"}
           \/ pc' \in {"switch", "comment", "exit"}
    PROVE  ReadInv'
BY DEF ReadInv

\* What ReadInv says of an identifier, once u underscores and a letter are in sight.
LEMMA IdentBegins ==
    ASSUME NEW u \in 0 .. 2, u \in 0 .. Len(mTokenBuffer), Len(mTokenBuffer) \in Nat,
           Len(mTokenBuffer) < u + 2, IdentFrom(u), pc' = "ident",
           UNCHANGED <<text, offset, mTokenBuffer>>
    PROVE  ReadInv'
<1>1. u + 2 .. Len(mTokenBuffer) = {} /\ u <= Len(mTokenBuffer)
  OBVIOUS
<1>2. IdentRead(u)
  BY <1>1 DEF IdentRead
<1>3. IdentRead(u)'
  BY <1>2 DEF IdentRead, IdentFrom, Underscores
<1> QED
  BY <1>3, Zenon DEF ReadInv

LEMMA DispatchReadInv ==
    ASSUME LexInv, Dispatch
    PROVE  ReadInv'
<1>1. pc = "switch" /\ NoInput /\ UNCHANGED offset
  BY DEF Dispatch, AtSwitch, startVars
<1>2. /\ mOffset = offset + 1 /\ mOffset <= Len(text) /\ offset \in Nat
      /\ text[offset + 1] = First /\ Len(mTokenBuffer) = 1
  BY <1>1, OneCharacter
<1>3. text' = text /\ Len(text) \in Nat
  BY <1>1, NoInputStill, OffsetInText DEF LexInv
<1>4. CASE First \in Lower /\ Goto("ident", mTokenBuffer)
  <2>1. offset + 0 + 1 = offset + 1 /\ offset + 0 < Len(text) /\ 1 .. 0 = {}
    BY <1>2, <1>3
  <2>2. IdentFrom(0)
    BY <2>1, <1>2, <1>4, Zenon DEF IdentFrom, Underscores
  <2>3. 0 \in 0 .. 2 /\ 0 \in 0 .. Len(mTokenBuffer) /\ Len(mTokenBuffer) < 0 + 2
        /\ Len(mTokenBuffer) \in Nat
    BY <1>2
  <2> QED
    BY <2>2, <2>3, <1>1, <1>3, <1>4, IdentBegins DEF Goto
<1>5. CASE First \in Upper /\ Goto("type", mTokenBuffer)
  <2>1. 2 .. Len(mTokenBuffer) = {}
    BY <1>2
  <2> QED
    BY <2>1, <1>1, <1>2, <1>3, <1>5 DEF Goto, ReadInv
<1>6. CASE mTokenBuffer' = << >> /\ pc' = "loop"
  BY <1>6, ReadInvFree
<1> QED
  BY <1>4, <1>5, <1>6 DEF Dispatch, AtSwitch, Goto, CreateToken

LEMMA UnderscoreReadInv ==
    ASSUME LexInv, Underscore, ~stale', ~HasEofByte
    PROVE  ReadInv'
<1>1. pc = "switch" /\ pc \in Reading /\ Peeks /\ First = "_" /\ UNCHANGED offset
  BY DEF Underscore, AtSwitch, Reading, startVars
<1>2. /\ mOffset = offset + 1 /\ offset \in Nat
      /\ text[offset + 1] = First /\ Len(mTokenBuffer) = 1
  BY <1>1, OneCharacter
<1>3. mOffset < Len(text) /\ PeekValue = text[mOffset + 1] /\ PeekValue # EOF /\ Len(text) \in Nat
  BY <1>1, ExactPeek, OffsetInText DEF LexInv
<1>4. text[offset + 2] = PeekValue /\ offset + 1 + 1 = offset + 2 /\ offset + 1 < Len(text)
  <2>1. mOffset + 1 = offset + 2 /\ offset + 1 + 1 = offset + 2 /\ offset + 1 < Len(text)
    BY <1>2, <1>3
  <2> QED
    BY <2>1, <1>3
<1>5. CASE PeekValue \in Lower /\ NoInput /\ Goto("ident", mTokenBuffer)
  <2>1. \A i \in 1 .. 1 : i = 1
    OBVIOUS
  <2>2. IdentFrom(1)
    BY <2>1, <1>1, <1>2, <1>4, <1>5, Zenon DEF IdentFrom, Underscores
  <2>3. 1 \in 0 .. 2 /\ 1 \in 0 .. Len(mTokenBuffer) /\ Len(mTokenBuffer) < 1 + 2
        /\ Len(mTokenBuffer) \in Nat
    BY <1>2
  <2> QED
    BY <2>2, <2>3, <1>1, <1>5, NoInputStill, IdentBegins DEF Goto
<1>6. CASE /\ PeekValue = "_"
           /\ \E d \in Chars : Consume(d) /\ Goto("under", Append(mTokenBuffer, d))
  <2>1. text' = text /\ pc' = "under"
    BY <1>6 DEF Consume, Goto
  <2>2. \A i \in 1 .. 2 : i = 1 \/ i = 2
    OBVIOUS
  <2>3. Underscores(2)'
    BY <2>1, <2>2, <1>1, <1>2, <1>4, <1>6, Zenon DEF Underscores
  <2> QED
    BY <2>1, <2>3 DEF ReadInv
<1>7. CASE \E e : Raise(e, mTokenBuffer)
  BY <1>7, ReadInvFree DEF Raise
<1> QED
  BY <1>3, <1>5, <1>6, <1>7, Zenon DEF Underscore

LEMMA SecondUnderscoreReadInv ==
    ASSUME LexInv, ReadInv, SecondUnderscore, ~stale', ~HasEofByte
    PROVE  ReadInv'
<1>1. pc = "under" /\ pc \in Reading /\ Peeks /\ NoInput /\ UNCHANGED offset
  BY DEF SecondUnderscore, Reading, startVars
<1>2. /\ ~stale /\ mOffset < Len(text) /\ PeekValue = text[mOffset + 1] /\ PeekValue # EOF
      /\ Len(text) \in Nat
  BY <1>1, ExactPeek, OffsetInText DEF LexInv
<1>3. Underscores(2) /\ Len(mTokenBuffer) = 2
  BY <1>1, <1>2 DEF LexInv, LabelOK, ReadInv, Exact
<1>4. offset \in Nat /\ mOffset = offset + 2
  BY <1>1, <1>2, <1>3, Window
<1>5. CASE PeekValue \in Lower /\ Goto("ident", mTokenBuffer)
  <2>1. offset + 2 + 1 = mOffset + 1 /\ offset + 2 < Len(text)
    BY <1>2, <1>4
  <2>2. IdentFrom(2)
    BY <2>1, <1>2, <1>3, <1>5 DEF IdentFrom
  <2>3. 2 \in 0 .. 2 /\ 2 \in 0 .. Len(mTokenBuffer) /\ Len(mTokenBuffer) < 2 + 2
        /\ Len(mTokenBuffer) \in Nat
    BY <1>3
  <2> QED
    BY <2>2, <2>3, <1>1, <1>5, NoInputStill, IdentBegins DEF Goto
<1>6. CASE \E e : Raise(e, mTokenBuffer)
  BY <1>6, ReadInvFree DEF Raise
<1> QED
  BY <1>2, <1>5, <1>6, Zenon DEF SecondUnderscore

LEMMA OperatorReadInv ==
    ASSUME LexInv, Operator, ~stale', ~HasEofByte
    PROVE  ReadInv'
<1>1. pc = "switch" /\ pc \in Reading /\ Peeks /\ UNCHANGED offset
  BY DEF Operator, AtSwitch, Reading, startVars
<1>2. /\ mOffset = offset + 1 /\ offset \in Nat /\ text[offset + 1] = First
  BY <1>1, OneCharacter
<1>3. PeekValue = text[mOffset + 1] /\ PeekValue # EOF
  BY <1>1, ExactPeek
<1>4. text[offset + 2] = PeekValue
  <2>1. mOffset + 1 = offset + 2
    BY <1>2
  <2> QED
    BY <2>1, <1>3
<1>5. CASE PeekValue = First /\ text' = text /\ pc' = "third"
  BY <1>1, <1>2, <1>4, <1>5 DEF ReadInv
<1>6. CASE mTokenBuffer' = << >> /\ pc' = "loop"
  BY <1>6, ReadInvFree
<1> QED
  BY <1>3, <1>5, <1>6, Zenon DEF Operator, Goto, CreateToken, Consume

LEMMA ThirdCharacterReadInv ==
    ASSUME LexInv, ThirdCharacter, ~stale', ~HasEofByte
    PROVE  ReadInv'
<1>1. pc \in Reading /\ Peeks
  BY DEF ThirdCharacter, Reading
<1>2. PeekValue # EOF
  BY <1>1, ExactPeek
<1>3. mTokenBuffer' = << >> /\ pc' = "loop"
  BY <1>2, Zenon DEF ThirdCharacter, CreateToken
<1> QED
  BY <1>3, ReadInvFree

LEMMA IdentReadInv ==
    ASSUME LexInv, ReadInv, ParseIdent, ~stale', ~HasEofByte
    PROVE  ReadInv'
<1> DEFINE n == Len(mTokenBuffer)
<1>1. /\ pc = "ident" /\ pc \in Reading /\ Peeks /\ UNCHANGED offset
      /\ ParseWord("ident", IdentChars, <<"IDENT">>)
  BY DEF ParseIdent, ParseWord, Reading, startVars
<1>2. ~stale /\ PeekValue # EOF
  BY <1>1, ExactPeek
<1>3. PICK u \in 0 .. 2 : IdentRead(u)
  BY <1>1, <1>2, Zenon DEF ReadInv, Exact
<1>4. mTokenBuffer \in Seq(Chars) /\ n \in Nat
  BY <1>1, ReadingPiece
<1>5. CASE /\ PeekValue \in IdentChars
           /\ \E d \in Chars : Consume(d) /\ Goto("ident", Append(mTokenBuffer, d))
  <2>1. PICK d \in Chars : Consume(d) /\ Goto("ident", Append(mTokenBuffer, d))
    BY <1>5
  <2>2. text' = text /\ d = PeekValue /\ d = text[offset + (n + 1)]
    BY <2>1, <1>1, ConsumedAhead
  <2>3. mTokenBuffer' = Append(mTokenBuffer, d) /\ Len(mTokenBuffer') = n + 1 /\ pc' = "ident"
    BY <2>1, <1>4 DEF Goto
  <2>4. \A i \in u + 2 .. n + 1 : i = n + 1 \/ i \in u + 2 .. n
    BY <1>4
  <2>5. \A i \in u + 2 .. n + 1 : text[offset + i] \in IdentChars
    BY <2>2, <2>4, <1>3, <1>5, Zenon DEF IdentRead
  <2>6. u <= n + 1
    <3>1. u <= n
      BY <1>3 DEF IdentRead
    <3> QED
      BY <3>1, <1>4
  <2>7. IdentFrom(u)'
    BY <2>2, <1>1, <1>3, Zenon DEF IdentRead, IdentFrom, Underscores
  <2>8. IdentRead(u)'
    BY <2>2, <2>3, <2>5, <2>6, <2>7, <1>1 DEF IdentRead
  <2> QED
    BY <2>3, <2>8, Zenon DEF ReadInv
<1>6. CASE pc' = "exit" \/ (mTokenBuffer' = << >> /\ pc' = "loop")
  BY <1>6, ReadInvFree
<1> QED
  BY <1>1, <1>2, <1>5, <1>6, Zenon DEF ParseWord, CreateToken, Raise

LEMMA TypeReadInv ==
    ASSUME LexInv, ReadInv, ParseType, ~stale', ~HasEofByte
    PROVE  ReadInv'
<1> DEFINE n == Len(mTokenBuffer)
<1>1. /\ pc = "type" /\ pc \in Reading /\ Peeks /\ UNCHANGED offset
      /\ ParseWord("type", TypeChars, <<"TYPE_IDENT">>)
  BY DEF ParseType, ParseWord, Reading, startVars
<1>2. ~stale /\ PeekValue # EOF
  BY <1>1, ExactPeek
<1>3. /\ text[offset + 1] \in Upper
      /\ \A i \in 2 .. n : text[offset + i] \in TypeChars
  BY <1>1, <1>2, Zenon DEF ReadInv, Exact
<1>4. mTokenBuffer \in Seq(Chars) /\ n \in Nat
  BY <1>1, ReadingPiece
<1>5. CASE /\ PeekValue \in TypeChars
           /\ \E d \in Chars : Consume(d) /\ Goto("type", Append(mTokenBuffer, d))
  <2>1. PICK d \in Chars : Consume(d) /\ Goto("type", Append(mTokenBuffer, d))
    BY <1>5
  <2>2. text' = text /\ d = PeekValue /\ d = text[offset + (n + 1)]
    BY <2>1, <1>1, ConsumedAhead
  <2>3. mTokenBuffer' = Append(mTokenBuffer, d) /\ Len(mTokenBuffer') = n + 1 /\ pc' = "type"
    BY <2>1, <1>4 DEF Goto
  <2>4. \A i \in 2 .. n + 1 : i = n + 1 \/ i \in 2 .. n
    BY <1>4
  <2>5. \A i \in 2 .. n + 1 : text[offset + i] \in TypeChars
    BY <2>2, <2>4, <1>3, <1>5, Zenon
  <2> QED
    BY <2>2, <2>3, <2>5, <1>1, <1>3 DEF ReadInv
<1>6. CASE pc' = "exit" \/ (mTokenBuffer' = << >> /\ pc' = "loop")
  BY <1>6, ReadInvFree
<1> QED
  BY <1>1, <1>2, <1>5, <1>6, Zenon DEF ParseWord, CreateToken, Raise

LEMMA OtherReadInv ==
    ASSUME LexInv, ReadInv, ~stale, ~HasEofByte,
           LeaveLoop \/ ReadCharacter \/ Comment \/ UnknownSymbol \/ FinishPass
    PROVE  ReadInv'
<1>1. CASE Comment \/ UnknownSymbol
  BY <1>1, ReadInvFree DEF Comment, UnknownSymbol, Goto, Raise
<1>2. CASE LeaveLoop \/ ReadCharacter \/ FinishPass
  <2>1. mTokenBuffer = << >>
    BY <1>2 DEF LeaveLoop, ReadCharacter, FinishPass, ReadInv, Exact
  <2> QED
    BY <2>1, <1>2, ReadInvFree DEF LeaveLoop, ReadCharacter, FinishPass, Goto
<1> QED
  BY <1>1, <1>2

LEMMA IdleReadInv ==
    ASSUME ReadInv, UNCHANGED vars
    PROVE  ReadInv'
BY DEF ReadInv, Exact, HasEofByte, Underscores, IdentRead, IdentFrom, vars, bufferVars, scanVars

\* Once a peek() was stale, there always was one; the text stays the same.
LEMMA ExactStays ==
    ASSUME LexInv, [Next]_vars, ~stale'
    PROVE  ~stale /\ (HasEofByte' <=> HasEofByte)
<1>1. text' = text
  BY DEF Next, Step, LeaveLoop, ReadCharacter, Underscore, SecondUnderscore, Dispatch,
         Operator, ThirdCharacter, Comment, UnknownSymbol, ParseIdent, ParseType, ParseWord,
         FinishPass, Terminated, NoInput, Consume, vars, bufferVars
<1>2. stale => stale'
  BY DEF Next, Step, LeaveLoop, ReadCharacter, Underscore, SecondUnderscore, Dispatch,
         Operator, ThirdCharacter, Comment, UnknownSymbol, ParseIdent, ParseType, ParseWord,
         FinishPass, Terminated, Peeks, vars, scanVars
<1> QED
  BY <1>1, <1>2 DEF HasEofByte

LEMMA InitRefInv == Init => RefInv
<1> SUFFICES ASSUME Init PROVE RefInv
  OBVIOUS
<1>1. NothingLost
  BY InitNothingLost DEF Init
<1>2. ReadInv
  BY DEF Init, ReadInv
<1> QED
  BY <1>1, <1>2, InitLexInv DEF RefInv

LEMMA NextRefInv == RefInv /\ [Next]_vars => RefInv'
<1> SUFFICES ASSUME RefInv, [Next]_vars PROVE RefInv'
  OBVIOUS
<1>1. LexInv /\ NothingLost /\ ReadInv
  BY DEF RefInv
<1>2. LexInv' /\ NothingLost'
  BY <1>1, NextLexInv, NextNothingLost
<1>3. ReadInv'
  <2>1. CASE stale' \/ HasEofByte'
    BY <2>1 DEF ReadInv, Exact
  <2>2. CASE ~stale' /\ ~HasEofByte'
    <3>1. ~stale /\ ~HasEofByte
      BY <1>1, <2>2, ExactStays
    <3>2. CASE UNCHANGED vars
      BY <1>1, <3>2, IdleReadInv
    <3>3. CASE Underscore \/ SecondUnderscore \/ Dispatch \/ Operator \/ ThirdCharacter
      BY <1>1, <2>2, <3>1, <3>3, UnderscoreReadInv, SecondUnderscoreReadInv, DispatchReadInv,
         OperatorReadInv, ThirdCharacterReadInv
    <3>4. CASE ParseIdent \/ ParseType
      BY <1>1, <2>2, <3>1, <3>4, IdentReadInv, TypeReadInv
    <3>5. CASE LeaveLoop \/ ReadCharacter \/ Comment \/ UnknownSymbol \/ FinishPass
      BY <1>1, <3>1, <3>5, OtherReadInv
    <3> QED
      BY <3>2, <3>3, <3>4, <3>5 DEF Next, Step, Terminated
  <2> QED
    BY <2>1, <2>2
<1> QED
  BY <1>2, <1>3 DEF RefInv

-----------------------------------------------------------------------------
(* The refinement                                                           *)

LEMMA InitIsTokensInit == Init => Tokens!Init
BY DEF Init, BufInit, Tokens!Init

LEMMA StepIsTokensStep ==
    RefInv /\ [Next]_vars => [stale' \/ HasEofByte \/ Tokens!Next]_(Tokens!vars)
<1> SUFFICES ASSUME RefInv, [Next]_vars, ~stale', ~HasEofByte PROVE Outcome
  BY DEF Outcome
<1>1. LexInv /\ NothingLost /\ ReadInv
  BY DEF RefInv
<1>2. CASE UNCHANGED vars
  BY <1>2 DEF Outcome, Tokens!vars, vars, bufferVars, scanVars
<1>3. CASE Underscore \/ SecondUnderscore \/ Dispatch \/ Operator \/ ThirdCharacter
  BY <1>1, <1>3, UnderscoreRefines, SecondUnderscoreRefines, DispatchRefines,
     OperatorRefines, ThirdCharacterRefines
<1>4. CASE ParseIdent \/ ParseType
  BY <1>1, <1>4, IdentRefines, TypeRefines
<1>5. CASE LeaveLoop \/ ReadCharacter \/ Comment \/ UnknownSymbol \/ FinishPass
  BY <1>1, <1>5, LeaveLoopRefines, ReadCharacterRefines, CommentRefines,
     UnknownSymbolRefines, FinishPassRefines
<1> QED
  BY <1>2, <1>3, <1>4, <1>5 DEF Next, Step, Terminated

\* Until a peek() looks behind the chunk, and on texts without an EOF byte, the lexer
\* takes the longest lexeme at every point, with its type, text and place, skips what
\* the grammar skips and fails where nothing fits (lexer.cpp:31-552).
THEOREM LexerRefinesTokens == Spec => LongestMatchUnlessStale
<1>1. Spec => []RefInv
  BY InitRefInv, NextRefInv, PTL DEF Spec
<1> QED
  BY <1>1, InitIsTokensInit, StepIsTokensStep, PTL DEF Spec, LongestMatchUnlessStale
=============================================================================
