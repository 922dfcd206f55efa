------------------------- MODULE InputBufferProofs --------------------------
(***************************************************************************)
(* Proofs about InputBuffer, for every chunk size, text and content of     *)
(* uninitialised memory.  The inductive invariant is BufInv; each step     *)
(* lemma is stated of Consume(c) and of Get(o, n) alone, so that a         *)
(* component that uses the buffer can cite it for its own steps.           *)
(***************************************************************************)
EXTENDS InputBuffer, FiniteSetTheorems, TLAPS

BufInv == BufTypeOK /\ WindowInv

-----------------------------------------------------------------------------
(* Reading from the stream                                                 *)

\* A read delivers at most a chunk, stays in the text, and is short only when it
\* reaches the end of the text.
LEMMA AvailableBounds ==
    ASSUME NEW t \in Seq(Chars), NEW p \in 0 .. Len(t)
    PROVE  /\ Available(t, p) \in 0 .. BufferSize
           /\ p + Available(t, p) <= Len(t)
           /\ Available(t, p) < BufferSize => p + Available(t, p) = Len(t)
           /\ Available(t, p) = 0 <=> p = Len(t)
  BY SizeAssumption DEF Available

\* The text is a sequence of bytes whose length fits a size_t.
LEMMA TextIsSeq ==
    ASSUME BufTypeOK
    PROVE  /\ text \in Seq(Chars)
           /\ Len(text) \in Nat
           /\ Len(text) < SizeMod
           /\ \A i \in 1 .. Len(text) : text[i] \in Chars
  BY TextsAssumption DEF BufTypeOK

\* What a refill can find: nothing exactly at the end of the text, and anything
\* only behind a full chunk.
LEMMA RefillBounds ==
    ASSUME BufInv
    PROVE  /\ ReadCount \in 0 .. BufferSize
           /\ pos + ReadCount <= Len(text)
           /\ ReadCount = 0 <=> pos = Len(text)
           /\ ReadCount < BufferSize => pos + ReadCount = Len(text)
           /\ ReadCount > 0 => mNumChars = BufferSize
  <1>1. text \in Seq(Chars) /\ pos \in 0 .. Len(text)
    BY TextIsSeq DEF BufInv, BufTypeOK, WindowInv
  <1>2. /\ Available(text, pos) \in 0 .. BufferSize
        /\ pos + Available(text, pos) <= Len(text)
        /\ Available(text, pos) < BufferSize => pos + Available(text, pos) = Len(text)
        /\ Available(text, pos) = 0 <=> pos = Len(text)
    BY <1>1, AvailableBounds
  <1>3. CASE good
    BY <1>1, <1>2, <1>3, SizeAssumption DEF ReadCount, BufInv, BufTypeOK, WindowInv
  <1>4. CASE ~good
    BY <1>1, <1>4, SizeAssumption DEF ReadCount, BufInv, BufTypeOK, WindowInv
  <1> QED BY <1>3, <1>4

-----------------------------------------------------------------------------
(* The inductive invariant                                                 *)

LEMMA InitBufInv == BufInit => BufInv
  <1> SUFFICES ASSUME BufInit PROVE BufInv
    OBVIOUS
  <1>a. /\ text \in Texts
        /\ pos = Available(text, 0)
        /\ good <=> pos = BufferSize
        /\ mNumChars = pos /\ mTotalBytes = pos
        /\ mTotalChunks = IF pos = 0 THEN 0 ELSE 1
        /\ mIndex = 0 /\ mLine = 0 /\ mColumn = 0 /\ mOffset = 0
    BY DEF BufInit
  <1>b. good \in BOOLEAN /\ mDone \in BOOLEAN
    BY DEF BufInit
  <1>1. text \in Seq(Chars) /\ Len(text) \in Nat
    BY <1>a, TextsAssumption
  <1>2. /\ pos \in 0 .. BufferSize
        /\ pos <= Len(text)
        /\ pos < BufferSize => pos = Len(text)
        /\ pos = 0 <=> 0 = Len(text)
    BY <1>1, <1>a, AvailableBounds
  <1>3. PICK junk \in [Cells -> Junk] : mBuffer = Load(junk, text, 0, pos)
    BY DEF BufInit
  <1>4. mBuffer \in [Cells -> Chars]
    BY <1>1, <1>2, <1>3, JunkAssumption, SizeAssumption DEF Load, Cells
  <1>5. \A i \in 0 .. pos - 1 : mBuffer[i] = text[i + 1]
    BY <1>1, <1>2, <1>3, SizeAssumption DEF Load, Cells
  <1>6. BufTypeOK
    BY <1>a, <1>b, <1>2, <1>4, SizeAssumption DEF BufTypeOK
  <1>7. WindowInv
    BY <1>a, <1>1, <1>2, <1>5, SizeAssumption DEF WindowInv
  <1> QED BY <1>6, <1>7 DEF BufInv

\* The window after a read of n bytes.
LEMMA LoadedWindow ==
    ASSUME NEW b \in [Cells -> Chars], NEW t \in Seq(Chars),
           NEW p \in Nat, NEW n \in 0 .. BufferSize, p + n <= Len(t)
    PROVE  /\ Load(b, t, p, n) \in [Cells -> Chars]
           /\ \A i \in 0 .. n - 1 : Load(b, t, p, n)[i] = t[p + i + 1]
  BY SizeAssumption DEF Load, Cells

\* A read that finds nothing leaves the window and the counters as they were.
LEMMA EmptyRead ==
    ASSUME BufInv, ReadChunk, ReadCount = 0
    PROVE  UNCHANGED <<pos, chunkVars>> /\ good' = FALSE
  <1>1. Load(mBuffer, text, pos, 0) = mBuffer
    BY DEF Load, BufInv, BufTypeOK, Cells
  <1>2. mBuffer' = mBuffer /\ UNCHANGED <<mNumChars, mTotalBytes, mTotalChunks>>
    BY <1>1 DEF ReadChunk
  <1>3. pos' = pos
    BY DEF ReadChunk, BufInv, BufTypeOK
  <1>4. 0 # BufferSize
    BY SizeAssumption
  <1>5. good' = FALSE
    BY <1>4 DEF ReadChunk
  <1> QED BY <1>2, <1>3, <1>5 DEF chunkVars

LEMMA NextChunkStart ==
    ASSUME NEW k \in Nat, NEW b \in Nat
    PROVE  (k + 1 - 1) * b = (k - 1) * b + b
  <1>1. k + 1 - 1 = k  OBVIOUS
  <1>2. k * b = (k - 1) * b + b  BY SMT
  <1> QED BY <1>1, <1>2

LEMMA FirstCell ==
    ASSUME NEW b \in Nat, NEW n \in 1 .. b
    PROVE  0 \in 0 .. n - 1
  OBVIOUS

\* A read that finds something makes it the window, directly behind the old one.
LEMMA NextChunk ==
    ASSUME BufInv, ReadChunk, ReadCount > 0, UNCHANGED text
    PROVE  /\ pos' \in Nat /\ good' \in BOOLEAN
           /\ mBuffer' \in [Cells -> Chars]
           /\ mNumChars' \in 1 .. BufferSize
           /\ mTotalBytes' = pos' /\ mTotalChunks' \in Nat \ {0}
           /\ pos' <= Len(text)
           /\ pos' - mNumChars' = pos
           /\ \A i \in 0 .. mNumChars' - 1 : mBuffer'[i] = text[pos + i + 1]
           /\ mNumChars' < BufferSize => pos' = Len(text)
           /\ ~good' => pos' = Len(text)
           /\ pos = (mTotalChunks' - 1) * BufferSize
  <1>1. /\ ReadCount \in 1 .. BufferSize
        /\ pos + ReadCount <= Len(text)
        /\ ReadCount < BufferSize => pos + ReadCount = Len(text)
        /\ mNumChars = BufferSize
    BY RefillBounds, SizeAssumption
  <1>2. /\ mNumChars' = ReadCount
        /\ mTotalBytes' = mTotalBytes + ReadCount
        /\ mTotalChunks' = mTotalChunks + 1
        /\ pos' = pos + ReadCount
        /\ mBuffer' = Load(mBuffer, text, pos, ReadCount)
    <2>1. ReadCount # 0
      BY <1>1
    <2> QED BY <2>1 DEF ReadChunk
  <1>g. good' \in BOOLEAN /\ (good' <=> ReadCount = BufferSize)
    BY DEF ReadChunk
  <1>3. /\ mBuffer' \in [Cells -> Chars]
        /\ \A i \in 0 .. ReadCount - 1 : mBuffer'[i] = text[pos + i + 1]
    BY <1>1, <1>2, LoadedWindow, TextIsSeq DEF BufInv, BufTypeOK
  <1>4. mTotalChunks > 0 /\ pos - BufferSize = (mTotalChunks - 1) * BufferSize
    BY <1>1, SizeAssumption DEF BufInv, BufTypeOK, WindowInv
  <1>5. pos = (mTotalChunks + 1 - 1) * BufferSize
    <2>1. (mTotalChunks + 1 - 1) * BufferSize = (mTotalChunks - 1) * BufferSize + BufferSize
      BY NextChunkStart, SizeAssumption DEF BufInv, BufTypeOK
    <2> QED BY <2>1, <1>4, SizeAssumption DEF BufInv, BufTypeOK
  <1> QED BY <1>1, <1>2, <1>g, <1>3, <1>5, SizeAssumption, TextIsSeq DEF BufInv, BufTypeOK, WindowInv

\* Which of its paths consume() took, seen from the text: it delivers the next
\* character, or it answers EOF and stays.
LEMMA ConsumeIsStreamStep ==
    ASSUME BufInv, NEW c \in Chars, Consume(c)
    PROVE  /\ text' = text
           /\ mDone' \in BOOLEAN
           /\ mDone' <=> mDone \/ c = EOF
           /\ \/ /\ mOffset < Len(text)
                 /\ c = text[mOffset + 1]
                 /\ mOffset' = mOffset + 1
                 /\ mLine' = IF c = NL THEN mLine + 1 ELSE mLine
                 /\ mColumn' = IF c = NL THEN 0 ELSE mColumn + 1
              \/ /\ mOffset = Len(text) \/ mDone
                 /\ c = EOF
                 /\ mOffset' = mOffset /\ mLine' = mLine /\ mColumn' = mColumn
  <1> DEFINE Delivers == /\ mOffset < Len(text)
                         /\ c = text[mOffset + 1]
                         /\ mOffset' = mOffset + 1
                         /\ mLine' = IF c = NL THEN mLine + 1 ELSE mLine
                         /\ mColumn' = IF c = NL THEN 0 ELSE mColumn + 1
             Refuses ==  /\ mOffset = Len(text) \/ mDone
                         /\ c = EOF
                         /\ mOffset' = mOffset /\ mLine' = mLine /\ mColumn' = mColumn
  <1>t. text' = text /\ mDone' \in BOOLEAN /\ (mDone' <=> mDone \/ c = EOF)
    BY DEF Consume
  <1>1. CASE ServeFromChunk(c)
    <2>1. mIndex < mNumChars /\ c = mBuffer[mIndex]
      BY <1>1 DEF ServeFromChunk
    <2>2. mOffset < Len(text) /\ c = text[mOffset + 1]
      BY <2>1, TextIsSeq DEF BufInv, BufTypeOK, WindowInv
    <2>3. Delivers
      BY <1>1, <2>2 DEF ServeFromChunk, Advance
    <2> QED BY <2>3, <1>t
  <1>2. CASE ServeAfterRefill(c)
    <2>0. ReadChunk /\ ReadCount > 0 /\ c = mBuffer'[0] /\ mIndex >= mNumChars
      BY <1>2 DEF ServeAfterRefill
    <2>n. mNumChars' \in 1 .. BufferSize
      BY <2>0, <1>t, NextChunk
    <2>w. \A i \in 0 .. mNumChars' - 1 : mBuffer'[i] = text[pos + i + 1]
      BY <2>0, <1>t, NextChunk
    <2>1. mBuffer'[0] = text[pos + 0 + 1]
      BY <2>n, <2>w, FirstCell, SizeAssumption
    <2>2. mOffset = pos /\ pos < Len(text)
      BY <2>0, RefillBounds, TextIsSeq DEF BufInv, BufTypeOK, WindowInv
    <2>3. pos + 0 + 1 = mOffset + 1
      BY <2>2 DEF BufInv, BufTypeOK
    <2>4. Delivers
      BY <1>2, <2>0, <2>1, <2>2, <2>3 DEF ServeAfterRefill, Advance
    <2> QED BY <2>4, <1>t
  <1>3. CASE ReturnEof(c)
    <2>0. mIndex >= mNumChars /\ (ReadCount = 0 \/ mDone)
      BY <1>3 DEF ReturnEof
    <2>1. mOffset = pos
      BY <2>0 DEF BufInv, BufTypeOK, WindowInv
    <2>2. ReadCount = 0 => pos = Len(text)
      BY RefillBounds
    <2>3. Refuses
      BY <1>3, <2>0, <2>1, <2>2 DEF ReturnEof, placeVars
    <2> QED BY <2>3, <1>t
  <1> QED BY <1>1, <1>2, <1>3 DEF Consume

LEMMA ConsumeBufInv ==
    ASSUME BufInv, NEW c \in Chars, Consume(c)
    PROVE  BufInv'
  <1>t. text' = text /\ mDone' \in BOOLEAN
    BY DEF Consume
  <1>n. Len(text) \in Nat /\ mLine' \in Nat /\ mColumn' \in Nat /\ mOffset' \in Nat
    BY ConsumeIsStreamStep, TextIsSeq DEF BufInv, BufTypeOK
  <1>1. CASE ServeFromChunk(c)
    <2>0. /\ UNCHANGED <<pos, good, mBuffer, mNumChars, mTotalBytes, mTotalChunks>>
          /\ mIndex < mNumChars
          /\ mIndex' = mIndex + 1
          /\ mOffset' = mOffset + 1
      BY <1>1 DEF ServeFromChunk, Advance, streamVars, chunkVars
    <2>1. BufTypeOK'
      BY <2>0, <1>t, <1>n, SizeAssumption DEF BufInv, BufTypeOK, Cells
    <2>2. WindowInv'
      BY <2>0, <1>t, <1>n, SizeAssumption DEF BufInv, BufTypeOK, WindowInv
    <2> QED BY <2>1, <2>2 DEF BufInv
  <1>2. CASE ReadChunk /\ ReadCount > 0 /\ mIndex' \in {0, 1}
             /\ mOffset' = mOffset + mIndex' /\ mIndex >= mNumChars
    <2>0. mOffset = pos
      BY <1>2 DEF BufInv, BufTypeOK, WindowInv
    <2>1. /\ pos' \in Nat /\ good' \in BOOLEAN
          /\ mBuffer' \in [Cells -> Chars]
          /\ mNumChars' \in 1 .. BufferSize
          /\ mTotalBytes' = pos' /\ mTotalChunks' \in Nat \ {0}
          /\ pos' <= Len(text)
          /\ pos' - mNumChars' = pos
          /\ \A i \in 0 .. mNumChars' - 1 : mBuffer'[i] = text[pos + i + 1]
          /\ mNumChars' < BufferSize => pos' = Len(text)
          /\ ~good' => pos' = Len(text)
          /\ pos = (mTotalChunks' - 1) * BufferSize
      BY <1>2, <1>t, NextChunk
    <2>i. mIndex' \in 0 .. BufferSize /\ mIndex' <= mNumChars' /\ mIndex' \in {0, 1}
      BY <1>2, <2>1, SizeAssumption
    <2>o. mOffset' = pos + mIndex'
      BY <1>2, <2>0
    <2>2. BufTypeOK'
      <3>1. mNumChars' \in 0 .. BufferSize /\ mTotalBytes' \in Nat /\ mTotalChunks' \in Nat
        BY <2>1, SizeAssumption
      <3>2. text' \in Texts
        BY <1>t DEF BufInv, BufTypeOK
      <3> QED BY <1>t, <1>n, <2>1, <2>i, <3>1, <3>2 DEF BufTypeOK, Cells
    <2>3. WindowInv'
      <3>1. /\ mNumChars' <= pos'
            /\ mTotalBytes' = pos'
            /\ mOffset' = pos' - mNumChars' + mIndex'
            /\ mTotalChunks' > 0 /\ mNumChars' > 0
        BY <2>1, <2>o, <2>i, SizeAssumption DEF BufInv, BufTypeOK
      <3>2. \A i \in 0 .. mNumChars' - 1 : mBuffer'[i] = text[pos' - mNumChars' + i + 1]
        BY <2>1
      <3>3. mTotalChunks' # 0
        BY <2>1
      <3> QED BY <1>t, <2>1, <2>i, <3>1, <3>2, <3>3 DEF WindowInv
    <2> QED BY <2>2, <2>3 DEF BufInv
  <1>3. CASE ReadChunk /\ ReadCount = 0 /\ mIndex' = mIndex /\ mOffset' = mOffset
    <2>0. UNCHANGED <<pos, mBuffer, mNumChars, mTotalBytes, mTotalChunks>>
          /\ good' = FALSE /\ pos = Len(text)
      BY <1>3, EmptyRead, RefillBounds DEF chunkVars
    <2>1. BufTypeOK'
      BY <1>3, <1>t, <1>n, <2>0 DEF BufInv, BufTypeOK, Cells
    <2>2. WindowInv'
      BY <1>3, <1>t, <1>n, <2>0 DEF BufInv, BufTypeOK, WindowInv
    <2> QED BY <2>1, <2>2 DEF BufInv
  <1>4. ServeAfterRefill(c) => ReadChunk /\ ReadCount > 0 /\ mIndex' = 1
                               /\ mOffset' = mOffset + 1 /\ mIndex >= mNumChars
    BY DEF ServeAfterRefill, Advance
  <1>5. ReturnEof(c) => \/ ReadChunk /\ ReadCount > 0 /\ mIndex' = 0
                           /\ mOffset' = mOffset + 0 /\ mIndex >= mNumChars
                        \/ ReadChunk /\ ReadCount = 0 /\ mIndex' = mIndex /\ mOffset' = mOffset
    BY RefillBounds DEF ReturnEof, placeVars, BufInv, BufTypeOK
  <1> QED BY <1>1, <1>2, <1>3, <1>4, <1>5 DEF Consume

LEMMA GetBufInv ==
    ASSUME BufInv, NEW o, NEW n, Get(o, n)
    PROVE  BufInv'
  <1>1. good' \in BOOLEAN /\ (~good' => ~good)
    BY DEF Get, BufInv, BufTypeOK
  <1>2. BufTypeOK'
    BY <1>1 DEF Get, chunkVars, placeVars, BufInv, BufTypeOK, Cells
  <1>3. WindowInv'
    BY <1>1 DEF Get, chunkVars, placeVars, BufInv, WindowInv
  <1> QED BY <1>2, <1>3 DEF BufInv

LEMMA StutterBufInv == BufInv /\ UNCHANGED bufferVars => BufInv'
  BY DEF bufferVars, BufInv, BufTypeOK, WindowInv, Cells

\* BufInv is inductive.
LEMMA StepBufInv == BufInv /\ [BufNext]_bufferVars => BufInv'
  <1> SUFFICES ASSUME BufInv, [BufNext]_bufferVars PROVE BufInv'
    OBVIOUS
  <1>1. CASE \E c \in Chars : Consume(c)
    BY <1>1, ConsumeBufInv
  <1>2. CASE \E o, n \in 0 .. MaxGet : Get(o, n)
    BY <1>2, GetBufInv
  <1>3. CASE UNCHANGED bufferVars
    BY <1>3, StutterBufInv
  <1> QED BY <1>1, <1>2, <1>3 DEF BufNext

\* The window, the counters and the stream always agree with the text: the types
\* hold and the window is the part of the text it claims to be
\* (input_buffer.cpp:17-93).
THEOREM BufferInvariant == BufSpec => [](BufTypeOK /\ WindowInv)
  <1>1. BufSpec => []BufInv
    BY InitBufInv, StepBufInv, PTL DEF BufSpec
  <1> QED BY <1>1, PTL DEF BufInv

-----------------------------------------------------------------------------
(* get() answers with the source                                           *)

\* The remainders that the start of a chunk is computed with.
LEMMA ModSmall ==
    ASSUME NEW m \in Nat, NEW a \in Nat, a < m
    PROVE  a % m = a
  BY SMT

LEMMA ModWrapped ==
    ASSUME NEW m \in Nat, NEW a \in Nat \ {0}, a < m
    PROVE  (-a) % m = m - a
  BY SMT

\* The start of the chunk in the window; before any chunk was read, an offset
\* that no call can give.
LEMMA ChunkStartValue ==
    ASSUME BufInv
    PROVE  IF mTotalChunks = 0 THEN ChunkStart = SizeMod - BufferSize
                               ELSE ChunkStart = pos - mNumChars
  <1>1. CASE mTotalChunks = 0
    <2>1. (mTotalChunks - 1) * BufferSize = -BufferSize
      BY <1>1, SizeAssumption
    <2>2. BufferSize < SizeMod
      BY SizeAssumption
    <2> QED BY <1>1, <2>1, <2>2, ModWrapped, SizeAssumption DEF ChunkStart
  <1>2. CASE mTotalChunks # 0
    <2>1. /\ pos - mNumChars = (mTotalChunks - 1) * BufferSize
          /\ pos - mNumChars \in Nat
          /\ pos - mNumChars < SizeMod
      BY <1>2, TextIsSeq, SizeAssumption DEF BufInv, BufTypeOK, WindowInv
    <2> QED BY <1>2, <2>1, ModSmall, SizeAssumption DEF ChunkStart
  <1> QED BY <1>1, <1>2

LEMMA GetIsSource == BufInv => GetReturnsSource
  <1> SUFFICES ASSUME BufInv, NEW o \in 0 .. MaxGet, NEW n \in 0 .. MaxGet
               PROVE  GetResult(o, n) = Reread(o, n)
    BY DEF GetReturnsSource
  <1>1. CASE ~InChunk(o, n)
    BY <1>1 DEF GetResult
  <1>2. CASE InChunk(o, n)
    <2>1. mTotalChunks # 0
      BY <1>2, ChunkStartValue, SizeAssumption DEF InChunk
    <2>2. /\ ChunkStart = pos - mNumChars
          /\ o >= ChunkStart /\ o + n <= pos /\ pos <= Len(text)
      BY <1>2, <2>1, ChunkStartValue, SizeAssumption
         DEF InChunk, BufInv, BufTypeOK, WindowInv
    <2>3. ASSUME NEW k \in 1 .. n
          PROVE  /\ mBuffer[o - ChunkStart + k - 1] = text[o + k]
                 /\ o + k <= Len(text)
      <3>1. /\ o - ChunkStart + k - 1 \in 0 .. mNumChars - 1
            /\ pos - mNumChars + (o - ChunkStart + k - 1) + 1 = o + k
            /\ o + k <= Len(text)
        BY <2>2, TextIsSeq, SizeAssumption DEF BufInv, BufTypeOK
      <3> QED BY <3>1 DEF BufInv, WindowInv
    <2> QED BY <1>2, <2>3 DEF GetResult, Reread
  <1> QED BY <1>1, <1>2

\* The cursor never leaves the chunk, the chunk never passes BUFFER_SIZE, and the
\* counters of bytes and chunks stay numbers, for every chunk size and every content
\* of uninitialised memory (input_buffer.hpp:75-94, input_buffer.cpp:77-92).
THEOREM BufferTypeTheorem == BufSpec => []BufTypeOK
  <1> QED BY BufferInvariant, PTL

\* Whatever chunk is in the window, and before there is one, get() answers with
\* the source (input_buffer.cpp:46-75): that the first chunk's start wraps around
\* does no harm, and no offset in the window is ever translated wrongly.
THEOREM GetTheorem == BufSpec => []GetReturnsSource
  <1>1. BufSpec => []BufInv
    BY InitBufInv, StepBufInv, PTL DEF BufSpec
  <1> QED BY <1>1, GetIsSource, PTL

-----------------------------------------------------------------------------
(* Nothing is lost                                                         *)

LEMMA InitNothingLost == BufInit => NothingLost
  <1> SUFFICES ASSUME BufInit, mDone PROVE mOffset = Len(text)
    BY DEF NothingLost
  <1>1. pos = 0 /\ pos = Available(text, 0) /\ mOffset = 0
    BY DEF BufInit
  <1>2. text \in Seq(Chars) /\ 0 \in 0 .. Len(text)
    BY TextsAssumption DEF BufInit
  <1> QED BY <1>1, <1>2, AvailableBounds

LEMMA ConsumeNothingLost ==
    ASSUME BufInv, NothingLost, NEW c \in Chars, Consume(c)
    PROVE  NothingLost'
  <1> SUFFICES ASSUME mDone'
               PROVE  mOffset' = Len(text') \/ \E i \in 1 .. mOffset' : text'[i] = EOF
    BY DEF NothingLost
  <1>t. text' = text /\ (mDone \/ c = EOF) /\ mOffset \in Nat
    BY ConsumeIsStreamStep DEF BufInv, BufTypeOK
  <1>1. CASE mOffset < Len(text) /\ c = text[mOffset + 1] /\ mOffset' = mOffset + 1
    <2>1. CASE c = EOF
      <3>1. mOffset + 1 \in 1 .. mOffset'
        BY <1>1, <1>t
      <3> QED BY <1>1, <1>t, <2>1, <3>1
    <2>2. CASE c # EOF
      <3>1. \E i \in 1 .. mOffset : text[i] = EOF
        BY <1>1, <1>t, <2>2 DEF NothingLost
      <3>2. 1 .. mOffset \subseteq 1 .. mOffset'
        BY <1>1, <1>t
      <3> QED BY <1>t, <3>1, <3>2
    <2> QED BY <2>1, <2>2
  <1>2. CASE (mOffset = Len(text) \/ mDone) /\ mOffset' = mOffset
    BY <1>2, <1>t DEF NothingLost
  <1> QED BY <1>1, <1>2, ConsumeIsStreamStep

LEMMA StepNothingLost ==
    BufInv /\ NothingLost /\ [BufNext]_bufferVars => NothingLost'
  <1> SUFFICES ASSUME BufInv, NothingLost, [BufNext]_bufferVars PROVE NothingLost'
    OBVIOUS
  <1>1. CASE \E c \in Chars : Consume(c)
    BY <1>1, ConsumeNothingLost
  <1>2. CASE \E o, n \in 0 .. MaxGet : Get(o, n)
    BY <1>2 DEF Get, placeVars, NothingLost
  <1>3. CASE UNCHANGED bufferVars
    BY <1>3 DEF bufferVars, NothingLost
  <1> QED BY <1>1, <1>2, <1>3 DEF BufNext

\* done() is not reported before the whole text has been handed out, unless an EOF
\* byte stood in it (input_buffer.cpp:19-24, 77-92).
THEOREM NothingLostTheorem == BufSpec => []NothingLost
  <1>1. BufSpec => []BufInv
    BY InitBufInv, StepBufInv, PTL DEF BufSpec
  <1> QED BY <1>1, InitNothingLost, StepNothingLost, PTL DEF BufSpec

-----------------------------------------------------------------------------
(* Lines and columns                                                       *)

Newlines(o) == {i \in 1 .. o : text[i] = NL}

\* The number of newlines, one offset further on.
LEMMA NewlinesGrow ==
    ASSUME NEW o \in Nat
    PROVE  /\ Cardinality(Newlines(o)) \in Nat
           /\ Cardinality(Newlines(o + 1)) = IF text[o + 1] = NL
                                             THEN Cardinality(Newlines(o)) + 1
                                             ELSE Cardinality(Newlines(o))
  <1>1. IsFiniteSet(Newlines(o))
    <2>1. IsFiniteSet(1 .. o)
      BY FS_Interval
    <2>2. Newlines(o) \in SUBSET (1 .. o)
      BY DEF Newlines
    <2> QED BY <2>1, <2>2, FS_Subset
  <1>2. o + 1 \notin Newlines(o)
    BY DEF Newlines
  <1>3. CASE text[o + 1] = NL
    <2>1. Newlines(o + 1) = Newlines(o) \cup {o + 1}
      BY <1>3 DEF Newlines
    <2> QED BY <1>1, <1>2, <1>3, <2>1, FS_AddElement, FS_CardinalityType
  <1>4. CASE text[o + 1] # NL
    <2>1. Newlines(o + 1) = Newlines(o)
      BY <1>4 DEF Newlines
    <2> QED BY <1>1, <1>4, <2>1, FS_CardinalityType
  <1> QED BY <1>3, <1>4

LEMMA InitPositionExact == BufInit => PositionExact
  <1> SUFFICES ASSUME BufInit PROVE IsPlace(0, 0, 0)
    BY DEF BufInit, PositionExact
  <1>1. {i \in 1 .. 0 : text[i] = NL} = {}
    OBVIOUS
  <1> QED BY <1>1, FS_EmptySet DEF IsPlace

LEMMA ConsumePositionExact ==
    ASSUME BufInv, PositionExact, NEW c \in Chars, Consume(c)
    PROVE  PositionExact'
  <1>t. text' = text /\ mOffset \in Nat /\ mLine \in Nat /\ mColumn \in Nat
    BY ConsumeIsStreamStep DEF BufInv, BufTypeOK
  <1>p. /\ mLine = Cardinality(Newlines(mOffset))
        /\ mColumn <= mOffset
        /\ \A i \in mOffset - mColumn + 1 .. mOffset : text[i] # NL
        /\ mColumn < mOffset => text[mOffset - mColumn] = NL
    BY DEF PositionExact, IsPlace, Newlines
  <1>1. CASE /\ c = text[mOffset + 1]
             /\ mOffset' = mOffset + 1
             /\ mLine' = IF c = NL THEN mLine + 1 ELSE mLine
             /\ mColumn' = IF c = NL THEN 0 ELSE mColumn + 1
    <2>1. mLine' = Cardinality(Newlines(mOffset'))
      BY <1>1, <1>t, <1>p, NewlinesGrow
    <2>2. /\ mColumn' <= mOffset'
          /\ \A i \in mOffset' - mColumn' + 1 .. mOffset' : text[i] # NL
          /\ mColumn' < mOffset' => text[mOffset' - mColumn'] = NL
      <3>1. CASE c = NL
        <4>1. mColumn' = 0 /\ mOffset' = mOffset + 1 /\ text[mOffset + 1] = NL
          BY <1>1, <3>1
        <4>2. mOffset' - mColumn' = mOffset + 1
          BY <4>1, <1>t
        <4>3. mOffset' - mColumn' + 1 .. mOffset' = {}
          BY <4>1, <1>t
        <4> QED BY <4>1, <4>2, <4>3, <1>t
      <3>2. CASE c # NL
        BY <1>1, <1>t, <1>p, <3>2
      <3> QED BY <3>1, <3>2
    <2> QED BY <1>t, <2>1, <2>2 DEF PositionExact, IsPlace, Newlines
  <1>2. CASE mOffset' = mOffset /\ mLine' = mLine /\ mColumn' = mColumn
    BY <1>2, <1>t, <1>p DEF PositionExact, IsPlace, Newlines
  <1> QED BY <1>1, <1>2, ConsumeIsStreamStep

LEMMA StepPositionExact ==
    BufInv /\ PositionExact /\ [BufNext]_bufferVars => PositionExact'
  <1> SUFFICES ASSUME BufInv, PositionExact, [BufNext]_bufferVars PROVE PositionExact'
    OBVIOUS
  <1>1. CASE \E c \in Chars : Consume(c)
    BY <1>1, ConsumePositionExact
  <1>2. CASE \E o, n \in 0 .. MaxGet : Get(o, n)
    BY <1>2 DEF Get, placeVars, PositionExact, IsPlace
  <1>3. CASE UNCHANGED bufferVars
    BY <1>3 DEF bufferVars, PositionExact, IsPlace
  <1> QED BY <1>1, <1>2, <1>3 DEF BufNext

\* The line and the column kept by consume() are those of the offset it has
\* reached, across refills and get() calls (input_buffer.cpp:27-38).
THEOREM PositionTheorem == BufSpec => []PositionExact
  <1>1. BufSpec => []BufInv
    BY InitBufInv, StepBufInv, PTL DEF BufSpec
  <1> QED BY <1>1, InitPositionExact, StepPositionExact, PTL DEF BufSpec

-----------------------------------------------------------------------------
(* Refinement                                                              *)

LEMMA InitIsStreamInit == BufInit => Stream!Init
  <1> SUFFICES ASSUME BufInit PROVE Stream!Init
    OBVIOUS
  <1>1. text \in Texts /\ mOffset = 0 /\ mLine = 0 /\ mColumn = 0
    BY DEF BufInit
  <1>2. pos = Available(text, 0) /\ mDone = (pos = 0)
    BY DEF BufInit
  <1>3. text \in Seq(Chars) /\ 0 \in 0 .. Len(text)
    BY <1>1, TextsAssumption
  <1>4. pos = 0 <=> 0 = Len(text)
    BY <1>2, <1>3, AvailableBounds
  <1>5. 0 = Len(text) <=> text = << >>
    BY <1>3
  <1>6. mDone = (text = << >>)
    BY <1>2, <1>4, <1>5, Zenon
  <1> QED BY <1>1, <1>6 DEF Stream!Init

LEMMA StepIsStreamStep ==
    BufInv /\ [BufNext]_bufferVars => [Stream!Next]_(Stream!vars)
  <1> SUFFICES ASSUME BufInv, [BufNext]_bufferVars
               PROVE  Stream!Next \/ UNCHANGED Stream!vars
    OBVIOUS
  <1>1. ASSUME NEW c \in Chars, Consume(c)
        PROVE  Stream!Next
    <2>t. text' = text /\ mDone' = (mDone \/ c = EOF)
      BY <1>1 DEF Consume
    <2>1. CASE /\ mOffset < Len(text)
               /\ c = text[mOffset + 1]
               /\ mOffset' = mOffset + 1
               /\ mLine' = IF c = NL THEN mLine + 1 ELSE mLine
               /\ mColumn' = IF c = NL THEN 0 ELSE mColumn + 1
      <3>1. Stream!Deliver(c)
        BY <2>1, <2>t, Zenon DEF Stream!Deliver
      <3> QED BY <3>1, <2>t DEF Stream!Next, Stream!Consume
    <2>2. CASE /\ mOffset = Len(text) \/ mDone
               /\ c = EOF
               /\ mOffset' = mOffset /\ mLine' = mLine /\ mColumn' = mColumn
      <3>1. mDone' = TRUE
        BY <2>2, <2>t, Zenon
      <3>2. Stream!Refuse(c)
        BY <2>2, <3>1, Zenon DEF Stream!Refuse
      <3> QED BY <3>2, <2>t DEF Stream!Next, Stream!Consume
    <2> QED BY <1>1, <2>1, <2>2, ConsumeIsStreamStep
  <1>2. CASE \E o, n \in 0 .. MaxGet : Get(o, n)
    BY <1>2 DEF Get, placeVars, Stream!vars
  <1>3. CASE UNCHANGED bufferVars
    BY <1>3 DEF bufferVars, Stream!vars
  <1> QED BY <1>1, <1>2, <1>3 DEF BufNext

\* The buffer implements the stream of characters it stands for, whatever the
\* chunk size and whatever get() calls come between (input_buffer.cpp:17-93).
THEOREM BufferImplementsStream == BufSpec => ImplementsCharStream
  <1>1. BufSpec => []BufInv
    BY InitBufInv, StepBufInv, PTL DEF BufSpec
  <1> QED BY <1>1, InitIsStreamInit, StepIsStreamStep, PTL
          DEF BufSpec, ImplementsCharStream, Stream!Spec

=============================================================================
