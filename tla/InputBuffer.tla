---------------------------- MODULE InputBuffer -----------------------------
(***************************************************************************)
(* pimento::tokenization::InputBuffer (src/src/input_buffer.cpp): a window *)
(* of BUFFER_SIZE bytes over a std::istream, filled one chunk at a time.   *)
(* consume() serves from the window and refills it when it is used up;     *)
(* peek() looks at the window without refilling it; get() re-reads any     *)
(* span of the source, seeking the stream away and back.                   *)
(*                                                                         *)
(* The stream is modelled by what the buffer sees of it: the text it will  *)
(* deliver, its read position and its state bit.  A read that returns      *)
(* fewer bytes than asked leaves the stream not good (eofbit | failbit),   *)
(* and a stream that is not good delivers nothing.                         *)
(*                                                                         *)
(* The window is never initialised: cells no read has written hold members *)
(* of Junk.  peek() may also index the byte behind the window; in an       *)
(* x86-64 build that is the low byte of mNumChars, which is 4096 = 0x1000  *)
(* whenever that byte is read, so it reads as NUL.                         *)
(***************************************************************************)
EXTENDS Integers, Sequences, FiniteSets

CONSTANTS
    Chars,          \* the bytes of a text
    EOF,            \* 0xFF, which std::char_traits<char>::eof() converts to
    NL,             \* '\n'
    NUL,            \* '\0', with which get() pads
    BufferSize,     \* BUFFER_SIZE
    Junk,           \* bytes that memory no read has written may hold
    Texts,          \* what the stream may deliver
    SizeMod,        \* size_t is computed modulo this
    MaxGet          \* bound: the offsets and spans get() is called with

ASSUME CharsAssumption == {EOF, NL, NUL} \subseteq Chars /\ EOF \notin {NL, NUL}
ASSUME JunkAssumption  == Junk \subseteq Chars /\ Junk # {}
ASSUME SizeAssumption  == /\ BufferSize \in Nat \ {0}
                          /\ SizeMod \in Nat
                          /\ MaxGet \in Nat
                          /\ BufferSize + MaxGet < SizeMod
ASSUME TextsAssumption == /\ Texts \subseteq Seq(Chars)
                          /\ \A t \in Texts : Len(t) < SizeMod

VARIABLES
    text,           \* all the stream delivers
    pos,            \* the stream's read position
    good,           \* the stream is good()
    mBuffer,
    mNumChars,
    mTotalBytes,
    mTotalChunks,
    mIndex,
    mLine,
    mColumn,
    mOffset,
    mDone

streamVars == <<pos, good>>
chunkVars  == <<mBuffer, mNumChars, mTotalBytes, mTotalChunks>>
placeVars  == <<mLine, mColumn, mOffset>>
bufferVars == <<text, pos, good, mBuffer, mNumChars, mTotalBytes, mTotalChunks,
                mIndex, mLine, mColumn, mOffset, mDone>>

Cells == 0 .. BufferSize - 1

-----------------------------------------------------------------------------
(* The stream and the window                                               *)

\* How many bytes a read of BUFFER_SIZE bytes delivers at position p.
Available(t, p) ==
    IF Len(t) - p < BufferSize THEN Len(t) - p ELSE BufferSize

ReadCount == IF good THEN Available(text, pos) ELSE 0

\* Window b with its first n cells overwritten by the n bytes at position p.
Load(b, t, p, n) == [i \in Cells |-> IF i < n THEN t[p + i + 1] ELSE b[i]]

\* readChunk(), all but its assignments to mIndex and mDone: those are made
\* in Consume, whose steps also write these two.
ReadChunk ==
    /\ pos' = pos + ReadCount
    /\ good' = (ReadCount = BufferSize)
    /\ mBuffer' = Load(mBuffer, text, pos, ReadCount)
    /\ IF ReadCount = 0
       THEN UNCHANGED <<mNumChars, mTotalBytes, mTotalChunks>>
       ELSE /\ mNumChars' = ReadCount
            /\ mTotalBytes' = mTotalBytes + ReadCount
            /\ mTotalChunks' = mTotalChunks + 1

-----------------------------------------------------------------------------
(* Operations                                                              *)

\* The constructor's readChunk() on a window of junk.
BufInit ==
    /\ text \in Texts
    /\ pos = Available(text, 0)
    /\ good = (pos = BufferSize)
    /\ \E junk \in [Cells -> Junk] : mBuffer = Load(junk, text, 0, pos)
    /\ mNumChars = pos
    /\ mTotalBytes = pos
    /\ mTotalChunks = IF pos = 0 THEN 0 ELSE 1
    /\ mIndex = 0
    /\ mLine = 0
    /\ mColumn = 0
    /\ mOffset = 0
    /\ mDone = (pos = 0)

\* Mutant of Advance: the newline itself is counted in the new line.
AdvanceCountsNewline(c, i) ==
    /\ mLine' = IF c = NL THEN mLine + 1 ELSE mLine
    /\ mColumn' = IF c = NL THEN 1 ELSE mColumn + 1
    /\ mIndex' = i + 1
    /\ mOffset' = mOffset + 1

\* The bookkeeping of a character c taken from cell i.
Advance(c, i) ==
    /\ mLine' = IF c = NL THEN mLine + 1 ELSE mLine
    /\ mColumn' = IF c = NL THEN 0 ELSE mColumn + 1
    /\ mIndex' = i + 1
    /\ mOffset' = mOffset + 1

ServeFromChunk(c) ==
    /\ mIndex < mNumChars
    /\ c = mBuffer[mIndex]
    /\ Advance(c, mIndex)
    /\ UNCHANGED <<streamVars, chunkVars>>

\* Mutant of ServeAfterRefill: the index stays on the character returned.
ServeAfterRefillInPlace(c) ==
    /\ mIndex >= mNumChars
    /\ ReadCount > 0
    /\ ~mDone
    /\ ReadChunk
    /\ c = mBuffer'[0]
    /\ Advance(c, -1)

ServeAfterRefill(c) ==
    /\ mIndex >= mNumChars
    /\ ReadCount > 0
    /\ ~mDone
    /\ ReadChunk
    /\ c = mBuffer'[0]
    /\ Advance(c, 0)

\* Mutant of ReturnEof: the index moves on at the end, too.
ReturnEofMovesOn(c) ==
    /\ mIndex >= mNumChars
    /\ ReadCount = 0 \/ mDone
    /\ ReadChunk
    /\ c = EOF
    /\ mIndex' = IF ReadCount = 0 THEN mIndex + 1 ELSE 0
    /\ UNCHANGED placeVars

\* readChunk() found nothing, or an EOF byte had set mDone before: the second
\* case keeps the chunk just read and returns without serving from it.
ReturnEof(c) ==
    /\ mIndex >= mNumChars
    /\ ReadCount = 0 \/ mDone
    /\ ReadChunk
    /\ c = EOF
    /\ mIndex' = IF ReadCount = 0 THEN mIndex ELSE 0
    /\ UNCHANGED placeVars

\* Mutants of Consume: a chunk read short ends the stream at once; an EOF byte in
\* the text does not set mDone.
ConsumeShortIsDone(c) ==
    /\ ServeFromChunk(c) \/ ServeAfterRefill(c) \/ ReturnEof(c)
    /\ mDone' = (mDone \/ c = EOF \/ ~good')
    /\ UNCHANGED text

ConsumeEofByteIsText(c) ==
    /\ ServeFromChunk(c) \/ ServeAfterRefill(c) \/ ReturnEof(c)
    /\ mDone' = (mDone \/ (c = EOF /\ mOffset' = mOffset))
    /\ UNCHANGED text

\* consume() returning c.  Every path that returns EOF leaves mDone set.
Consume(c) ==
    /\ ServeFromChunk(c) \/ ServeAfterRefill(c) \/ ReturnEof(c)
    /\ mDone' = (mDone \/ c = EOF)
    /\ UNCHANGED text

\* What peek() returns: it neither refills the window nor looks at mNumChars.
PeekValue == IF mIndex < BufferSize THEN mBuffer[mIndex] ELSE NUL

\* Mutant of ChunkStart: the start of the chunk behind the window.
ChunkStartOfNext == (mTotalChunks * BufferSize) % SizeMod

\* (mTotalChunks - 1) * BUFFER_SIZE, in size_t.
ChunkStart == ((mTotalChunks - 1) * BufferSize) % SizeMod

InChunk(o, n) == o >= ChunkStart /\ o + n <= ChunkStart + mNumChars

\* Mutant of Reread: no clear() before the seek, so a stream that has reached its
\* end yields nothing.
RereadWithoutClear(o, n) ==
    [k \in 1 .. n |-> IF good /\ o + k <= Len(text) THEN text[o + k] ELSE NUL]

\* The n bytes at offset o as the stream yields them, '\0' behind its end.
Reread(o, n) ==
    [k \in 1 .. n |-> IF o + k <= Len(text) THEN text[o + k] ELSE NUL]

\* What get(o, n) returns.
GetResult(o, n) ==
    IF InChunk(o, n)
    THEN [k \in 1 .. n |-> mBuffer[o - ChunkStart + k - 1]]
    ELSE Reread(o, n)

\* Mutant of Get: the stream stays behind the span that was read.
GetLeavesStreamThere(o, n) ==
    /\ good' = (good \/ ~InChunk(o, n))
    /\ pos' = IF InChunk(o, n) THEN pos ELSE IF o + n < Len(text) THEN o + n ELSE Len(text)
    /\ UNCHANGED <<text, chunkVars, mIndex, placeVars, mDone>>

\* get(o, n): outside the window it leaves the stream where it found it, but
\* clear() has made it good again.
Get(o, n) ==
    /\ good' = (good \/ ~InChunk(o, n))
    /\ UNCHANGED <<text, pos, chunkVars, mIndex, placeVars, mDone>>

BufNext ==
    \/ \E c \in Chars : Consume(c)
    \/ \E o, n \in 0 .. MaxGet : Get(o, n)

BufSpec == BufInit /\ [][BufNext]_bufferVars

-----------------------------------------------------------------------------
(* Invariants                                                              *)

\* Each field has its type; the window is a full array of bytes.
BufTypeOK ==
    /\ text \in Texts
    /\ pos \in Nat
    /\ good \in BOOLEAN
    /\ mBuffer \in [Cells -> Chars]
    /\ mNumChars \in 0 .. BufferSize
    /\ mTotalBytes \in Nat
    /\ mTotalChunks \in Nat
    /\ mIndex \in 0 .. BufferSize
    /\ mLine \in Nat
    /\ mColumn \in Nat
    /\ mOffset \in Nat
    /\ mDone \in BOOLEAN

\* The window holds exactly the mNumChars bytes of the text that end at the
\* stream's position, the caller stands mIndex bytes into it, and chunks before
\* it were all full.  In particular no get() has moved the stream, and a stream
\* that is no longer good has nothing left (input_buffer.cpp:63-72, 79-92).
WindowInv ==
    /\ mIndex <= mNumChars
    /\ mNumChars <= pos
    /\ pos <= Len(text)
    /\ mTotalBytes = pos
    /\ mOffset = pos - mNumChars + mIndex
    /\ \A i \in 0 .. mNumChars - 1 : mBuffer[i] = text[pos - mNumChars + i + 1]
    /\ mNumChars < BufferSize => pos = Len(text)
    /\ ~good => pos = Len(text)
    /\ mTotalChunks = 0 => pos = 0
    /\ mTotalChunks > 0 => pos - mNumChars = (mTotalChunks - 1) * BufferSize
    /\ mTotalChunks > 0 => mNumChars > 0

\* l and c are the newlines before offset o and the distance to the last of them.
IsPlace(o, l, c) ==
    /\ l = Cardinality({i \in 1 .. o : text[i] = NL})
    /\ c <= o
    /\ \A i \in o - c + 1 .. o : text[i] # NL
    /\ c < o => text[o - c] = NL

\* The line and column that consume() keeps are those of the current offset,
\* across every chunk boundary and whatever get() calls came between
\* (input_buffer.cpp:27-38).
PositionExact == IsPlace(mOffset, mLine, mColumn)

\* get() answers with the source, padded with '\0' behind its end, whether the
\* span lies in the window, in an earlier or later chunk, or across a boundary,
\* and also before any chunk was read, when mTotalChunks - 1 wraps around
\* (input_buffer.cpp:46-75).
GetReturnsSource ==
    \A o, n \in 0 .. MaxGet : GetResult(o, n) = Reread(o, n)

\* A stream reported done with no EOF byte in what was handed out has been
\* handed out whole: no chunk, and no tail shorter than a chunk, is skipped
\* (input_buffer.cpp:19-24, 77-92).
NothingLost ==
    mDone => \/ mOffset = Len(text)
             \/ \E i \in 1 .. mOffset : text[i] = EOF

-----------------------------------------------------------------------------
(* Action properties and refinement                                        *)

\* A caller cannot tell the window from the whole text: consume() hands out the
\* characters of CharStream, in order and once each, and get() is invisible.
Stream == INSTANCE CharStream
          WITH offset <- mOffset, line <- mLine, column <- mColumn, done <- mDone

ImplementsCharStream == Stream!Spec

=============================================================================
