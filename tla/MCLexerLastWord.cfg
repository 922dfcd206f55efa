\* A text that is one identifier; memory is zero before it is read into.
CONSTANTS
    Words = {"a", "_", "A"}
    Operators = {}
    Lines = {}
    MaxWords = 4
    MaxOperators = 0
    MaxLines = 0
    Chars <- MCChars
    Texts <- MCTexts
    EOF = "EOF"
    NL = "NL"
    NUL = "NUL"
    BufferSize = 3
    Junk = {"NUL"}
    SizeMod = 64
    MaxGet = 8
    Lower = {"a"}
    Upper = {"A"}
    Digit = {"1"}
    Blank = {"NL", " "}
    Space = {"NL", " ", "CR"}
    MaxTokenLen = 4
    TraceLevel = FALSE
SPECIFICATION Spec
INVARIANT WordIsOneToken
