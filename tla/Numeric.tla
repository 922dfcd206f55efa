------------------------------- MODULE Numeric -------------------------------
(***************************************************************************)
(* The constants of src/include/pimento/tokens.hpp: NumericConst, one of   *)
(* IntConst, FloatConst and RawBits, from its construction to what the     *)
(* accessors answer.                                                       *)
(*                                                                         *)
(* A finite magnitude is a natural number of units, 1.0 being 2^One units  *)
(* and one unit the least double; an infinite one is Inf.  A bit_cast to a *)
(* floating point number answers with the bits, undecoded.                 *)
(***************************************************************************)
EXTENDS Integers, FiniteSetsExt

CONSTANTS
    Width64, Width32, Width16, Width8,  \* bits of the integer types
    Bits64, Bits32,                     \* FLOAT64_MANTISSA_BITS, FLOAT32_MANTISSA_BITS
    One, Least32,                       \* 1.0 and the least float are 2^One and 2^Least32 units
    Top64, Top32,                       \* what has to be less than 2^Top units to be finite
    Exponents,                          \* the exponents of values in scientific notation
    Inf, None,
    Undefined       \* any value of the type that is asked for

\* A double holds every int32 and not every int64, a float every int16 and not
\* every int32; the largest int64 is a finite float.
ASSUME SizesAssumption ==
    /\ {Width64, Width32, Width16, Width8, Bits64, Bits32, One, Least32, Top64, Top32} \subseteq Nat
    /\ 0 < Width8 /\ Width8 < Width16 /\ Width16 <= Bits32 /\ Bits32 < Width32
    /\ Width32 < Bits64 /\ Bits64 < Width64
    /\ One + Width64 < Top32 /\ Top32 < Top64 /\ 0 < Least32 /\ Least32 <= One

ASSUME ExponentsAssumption == Exponents \subseteq Int

\* An infinite number has no magnitude.
ASSUME InfAssumption == Inf \notin Int

VARIABLES
    made,       \* how the constant was constructed: history
    mValue,     \* the variant
    answered    \* the accessor called and its answer

numvars == <<made, mValue, answered>>

-----------------------------------------------------------------------------
(* Types                                                                    *)

Pow2[n \in Nat] == IF n = 0 THEN 1 ELSE 2 * Pow2[n - 1]

IntTypes == [signed : BOOLEAN, width : {Width64, Width32, Width16, Width8}]
Int64 == [signed |-> TRUE, width |-> Width64]

ValuesOf(type) ==
    IF type.signed THEN -(Pow2[type.width - 1]) .. Pow2[type.width - 1] - 1
    ELSE 0 .. Pow2[type.width] - 1

\* static_cast to an integer type, and what a packed view of the low bits holds.
Cast(x, type) ==
    LET low == x % Pow2[type.width]
    IN  IF type.signed /\ low >= Pow2[type.width - 1] THEN low - Pow2[type.width] ELSE low

Precisions == {"FLOAT64", "FLOAT32"}
Bits(precision)  == IF precision = "FLOAT64" THEN Bits64 ELSE Bits32
Least(precision) == IF precision = "FLOAT64" THEN 0 ELSE Least32
Top(precision)   == IF precision = "FLOAT64" THEN Top64 ELSE Top32

Magnitudes(precision) ==
    {m * Pow2[g] : m \in 0 .. Pow2[Bits(precision)] - 1, g \in Least(precision) .. Top(precision) - Bits(precision)}

BitLength(n) == CHOOSE l \in 0 .. n : n < Pow2[l] /\ (l = 0 \/ n >= Pow2[l - 1])

\* The magnitude nearest to n * 2^shift units, an even one of two.
Rounded(n, shift, precision) ==
    LET ulp == Max({BitLength(n) + shift - Bits(precision), Least(precision)})
        part == Pow2[ulp - shift]
        quotient == n \div part
        twice == 2 * (n % part)
        up == twice > part \/ (twice = part /\ quotient % 2 = 1)
        magnitude == IF shift >= ulp THEN n * Pow2[shift]
                     ELSE (IF up THEN quotient + 1 ELSE quotient) * Pow2[ulp]
    IN  IF magnitude < Pow2[Top(precision)] THEN magnitude ELSE Inf

-----------------------------------------------------------------------------
(* Construction                                                             *)

\* Mutant of Word: the bits of a signed value are extended with zeros.
WordUnsigned(x, type) == x % Pow2[type.width]

\* int64 = static_cast<int64_t>(value) or uint64 = static_cast<uint64_t>(value).
Word(x, type) == x % Pow2[Width64]

ConstructInt ==
    \E alternative \in {"IntConst", "RawBits"}, type \in IntTypes : \E x \in ValuesOf(type) :
        /\ made' = [by |-> alternative, type |-> type, x |-> x]
        /\ mValue' = [alternative |-> alternative, word |-> Word(x, type)]

\* Mutant of MantissaBits: the exponent is that of a double.
MantissaBitsOfDouble(precision) == Bits64

\* The subtrahend of mExponent.
MantissaBits(precision) == Bits(precision)

\* frexp() gives a fraction of Bits(precision) bits at most: the product with
\* 2^Bits is a whole number, and the exponent of zero is 0.
ConstructFloat ==
    \E precision \in Precisions, negative \in BOOLEAN : \E magnitude \in Magnitudes(precision) :
        LET l == BitLength(magnitude)
            exp == IF magnitude = 0 THEN 0 ELSE l - One
        IN  /\ made' = [by |-> "float", precision |-> precision, negative |-> negative, magnitude |-> magnitude]
            /\ mValue' = [alternative |-> "FloatConst",
                          mMantissa |-> (magnitude * Pow2[Bits(precision)]) \div Pow2[l],
                          mExponent |-> exp - MantissaBits(precision),
                          mNegative |-> negative, mPrecision |-> precision]

ConstructScientific ==
    \E mantissa \in 0 .. Pow2[Width64] - 1, exponent \in Exponents, negative \in BOOLEAN, precision \in Precisions :
        /\ made' = [by |-> "scientific", mantissa |-> mantissa, exponent |-> exponent, negative |-> negative]
        /\ mValue' = [alternative |-> "FloatConst", mMantissa |-> mantissa, mExponent |-> exponent,
                      mNegative |-> negative, mPrecision |-> precision]

Construct ==
    /\ made = None
    /\ ConstructInt \/ ConstructFloat \/ ConstructScientific
    /\ UNCHANGED answered

-----------------------------------------------------------------------------
(* Accessors: they are const, and one answer owes nothing to another.       *)

Narrow(magnitude, precision) ==
    IF magnitude = Inf THEN Inf ELSE Rounded(magnitude, 0, precision)

\* Mutant of Scaled: the mantissa is converted to a float first.
ScaledFloat(value) == 
    Rounded(Rounded(value.mMantissa, One, "FLOAT32"), value.mExponent, "FLOAT64")

\* std::ldexp(static_cast<double>(mMantissa), mExponent): it rounds twice.
Scaled(value) == Rounded(Rounded(value.mMantissa, One, "FLOAT64"), value.mExponent, "FLOAT64")

Magnitude(value, precision) ==
    LET stored == IF value.mPrecision = "FLOAT64" THEN Scaled(value) ELSE Narrow(Scaled(value), "FLOAT32")
    IN  IF precision = "FLOAT32" THEN Narrow(stored, "FLOAT32") ELSE stored

\* Mutant of ReadAs: floating point numbers are made of the low half.
ReadAsInt32(value) == Cast(value.word, [signed |-> TRUE, width |-> Width32])

\* An IntConst becomes a floating point number as int64_t, whatever it was.
ReadAs(value) == Cast(value.word, Int64)

AsFloat(value, precision) ==
    CASE value.alternative = "FloatConst" ->
            [negative |-> value.mNegative, magnitude |-> Magnitude(value, precision)]
      [] value.alternative = "IntConst" ->
            LET x == ReadAs(value)
            IN  [negative |-> x < 0, magnitude |-> Rounded(IF x < 0 THEN -x ELSE x, One, precision)]
      [] value.alternative = "RawBits" ->
            [bits |-> value.word % Pow2[IF precision = "FLOAT64" THEN Width64 ELSE Width32]]

\* Mutant of Truncated: the accessor for integers goes by way of a float.
TruncatedFloat(value) ==
    LET magnitude == Magnitude(value, "FLOAT32")
    IN  IF magnitude = Inf THEN Pow2[Top32] ELSE magnitude \div Pow2[One]

\* What asFloat64() answers, without its fraction and sign.
Truncated(value) ==
    LET magnitude == Magnitude(value, "FLOAT64")
    IN  IF magnitude = Inf THEN Pow2[Top64] ELSE magnitude \div Pow2[One]

\* static_cast of a floating point number that the type cannot hold is undefined.
AsInt(value, type) ==
    IF value.alternative # "FloatConst" THEN Cast(value.word, type)
    ELSE LET x == IF value.mNegative THEN -Truncated(value) ELSE Truncated(value)
         IN  IF x \in ValuesOf(type) THEN x ELSE Undefined

ReadFloat ==
    /\ made # None /\ answered = None
    /\ \E precision \in Precisions :
          answered' = [accessor |-> "float", as |-> precision, answer |-> AsFloat(mValue, precision)]
    /\ UNCHANGED <<made, mValue>>

ReadInt ==
    /\ made # None /\ answered = None
    /\ \E type \in IntTypes :
          answered' = [accessor |-> "int", as |-> type, answer |-> AsInt(mValue, type)]
    /\ UNCHANGED <<made, mValue>>

NumericInit == made = None /\ mValue = None /\ answered = None

Answer == answered # None /\ UNCHANGED numvars

NumericNext == Construct \/ ReadFloat \/ ReadInt \/ Answer

NumericSpec == NumericInit /\ [][NumericNext]_numvars

-----------------------------------------------------------------------------

Answered(by, accessor) == answered # None /\ made.by \in by /\ answered.accessor = accessor

\* No magnitude of the precision is nearer to n * 2^shift units than this one of them;
\* Inf it is only when the number lies above them all.
Nearest(n, shift, magnitude, precision) ==
    LET over == Pow2[Max({shift, 0})]
        under == Pow2[Max({-shift, 0})]
        Off(v) == IF v * under > n * over THEN v * under - n * over ELSE n * over - v * under
    IN  IF magnitude = Inf THEN \A v \in Magnitudes(precision) : v * under < n * over
        ELSE /\ magnitude \in Magnitudes(precision)
             /\ \A v \in Magnitudes(precision) : Off(magnitude) <= Off(v)

\* Whatever integer type a constant is made from and read as, the answer is the
\* value, or what its low bits say in the type (tokens.hpp:259-404, 502-655).
IntReadsBack ==
    Answered({"IntConst", "RawBits"}, "int") =>
        /\ answered.answer \in ValuesOf(answered.as)
        /\ (answered.answer - made.x) % Pow2[answered.as.width] = 0
        /\ made.x \in ValuesOf(answered.as) => answered.answer = made.x

\* A number taken apart by frexp() is put together again, the least ones and
\* both zeros too; of what a float cannot hold it has the nearest (:160-214).
FloatReadsBack ==
    Answered({"float"}, "float") =>
        /\ answered.answer.negative = made.negative
        /\ made.magnitude \in Magnitudes(answered.as) => answered.answer.magnitude = made.magnitude
        /\ Nearest(made.magnitude, 0, answered.answer.magnitude, answered.as)

\* mantissa * 2^exponent is rounded up to three times on its way (:168-206): the
\* answer need not be the nearest, but nothing lies between it and the value.
ScientificIsNext ==
    Answered({"scientific"}, "float") =>
        LET shift == made.exponent + One
            over == Pow2[Max({shift, 0})]
            under == Pow2[Max({-shift, 0})]
            exact == made.mantissa * over
            given == answered.answer.magnitude
        IN  /\ answered.answer.negative = made.negative
            /\ given \in Magnitudes(answered.as) \cup {Inf}
            /\ \A v \in Magnitudes(mValue.mPrecision) \cap Magnitudes(answered.as) :
                  /\ v * under > exact => given # Inf /\ given <= v
                  /\ v * under < exact => given = Inf \/ given >= v

\* An integer as a floating point number is the nearest one with its sign
\* (:459-499), except for what is unsigned and no int64_t: that turns negative.
IntAsFloatNearest ==
    Answered({"IntConst"}, "float") /\ made.x \in ValuesOf(Int64) =>
        /\ answered.answer.negative = (made.x < 0)
        /\ Nearest(IF made.x < 0 THEN -made.x ELSE made.x, One, answered.answer.magnitude, answered.as)

\* A number loses its fraction and nothing else where the type can hold it
\* (:502-655).
FloatTruncates ==
    Answered({"float"}, "int") =>
        LET whole == made.magnitude \div Pow2[One]
            x == IF made.negative THEN -whole ELSE whole
        IN  x \in ValuesOf(answered.as) => answered.answer = x
=============================================================================
