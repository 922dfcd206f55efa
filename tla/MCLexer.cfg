\* Windows of three bytes: texts span up to two chunk boundaries, and lexemes of
\* three characters cross them.
CONSTANTS
    Words = {"a", "A", "1", "_", " "}
    Operators = {"+", "^", "=", "*", "/"}
    Lines = {"#", "NL", ";", "EOF", "CR"}
    MaxWords = 5
    MaxOperators = 5
    MaxLines = 5
    Chars <- MCChars
    Texts <- MCTexts
    EOF = "EOF"
    NL = "NL"
    NUL = "NUL"
    BufferSize = 3
    Junk = {"a", "=", "EOF", " "}
    SizeMod = 64
    MaxGet = 8
    Lower = {"a"}
    Upper = {"A"}
    Digit = {"1"}
    Blank = {"NL", " "}
    Space = {"NL", " ", "CR"}
    MaxTokenLen = 4
    TraceLevel = TRUE
SPECIFICATION FairSpec
INVARIANTS
    LexTypeOK
    TokensMatchSource
    SourcePartitioned
    LocationExact
    TraceEchoesLexemes
    LengthBounded
PROPERTIES
    SecondCallIsIdle
    LongestMatchUnlessStale
    Terminates
