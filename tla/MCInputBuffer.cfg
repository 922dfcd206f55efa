\* Windows of three bytes: a text of eight spans three chunks, the last one short
\* by one; a text of four or seven leaves one byte for it.  The text may hold the
\* EOF byte and '\0'; junk is a text byte or EOF.
CONSTANTS
    Chars = {"a", "NL", "EOF", "NUL"}
    EOF = "EOF"
    NL = "NL"
    NUL = "NUL"
    BufferSize = 3
    Junk = {"a", "EOF"}
    SizeMod = 64
    MaxGet = 9
    MaxText = 5
    LongChars = {"a", "NL"}
    MaxLong = 8
    Texts <- MCTexts
SPECIFICATION BufSpec
INVARIANTS
    BufTypeOK
    WindowInv
    PositionExact
    GetReturnsSource
    NothingLost
PROPERTIES
    ImplementsCharStream
