SPECIFICATION NumericSpec
CONSTANTS
    Width64 = 8
    Width32 = 5
    Width16 = 4
    Width8 = 2
    Bits64 = 6
    Bits32 = 4
    One = 4
    Least32 = 2
    Top64 = 16
    Top32 = 14
    Exponents <- MCExponents
    Inf = Inf
    None = None
    Undefined = Undefined
INVARIANTS
    IntReadsBack
    FloatReadsBack
    ScientificIsNext
    IntAsFloatNearest
    FloatTruncates
