\* Words of the maximal length and of one character more, in one chunk.
CONSTANTS
    Words = {"a", " "}
    Operators = {}
    Lines = {}
    MaxWords = 5
    MaxOperators = 0
    MaxLines = 0
    Chars <- MCChars
    Texts <- MCTexts
    EOF = "EOF"
    NL = "NL"
    NUL = "NUL"
    BufferSize = 8
    Junk = {"NUL"}
    SizeMod = 64
    MaxGet = 8
    Lower = {"a"}
    Upper = {"A"}
    Digit = {"1"}
    Blank = {"NL", " "}
    Space = {"NL", " ", "CR"}
    MaxTokenLen = 4
    TraceLevel = FALSE
SPECIFICATION Spec
INVARIANT LimitExceeded
