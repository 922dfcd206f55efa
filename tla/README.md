# pimento in TLA+

TLA+ specifications of pimento, the compiler of the olive language: what its
components do, checked with TLC on small instances and, for the input buffer, the
lexer, the parser, the generator and the driver, proved with TLAPS for every text,
every token sequence, every tree and every file system.

Paths below are relative to the repository root; `src/...` in `PROJECT.json` is the
repository itself, so `src/src/lexer.cpp` there is `src/lexer.cpp` here.

## 1. The system

pimento reads a source file and writes x86-64 assembly. One thread does
everything, in this order; each component owns the one to its right:

```
main ─ Generator ─ Parser ─ Lexer ─ InputBuffer ─ std::istream
          │          │        │          │
      std::ostream   AST    tokens     one chunk of 4096 bytes
```

| component | source | state | operations |
|---|---|---|---|
| InputBuffer | `src/input_buffer.cpp` | the chunk, counts of bytes and chunks, index into the chunk, line, column, offset, done | constructor, `peek`, `consume`, `get`, getters |
| Lexer | `src/lexer.cpp` | token buffer, tokens; locals: where the token starts | `tokenize`, called twice |
| Errors | `include/pimento/errors.hpp` | none | `raise` prints a message and ends the process |
| Tokens, numeric constants | `include/pimento/tokens.hpp` | a variant of an integer word, a mantissa with exponent, or raw bits | constructors, `asInt64` ... `asFloat32` |
| Parser | `src/parser.cpp` | index into the tokens, the program so far, the call stack | `parse`, `parseStatement`, `parseExpression`, `parseScope`, `parseIfPred`, `parseTerm`, `tryConsume` |
| AST | `include/pimento/ast.hpp` | immutable nodes | constructors |
| Generator | `src/generator.cpp` | stack size, variables, scopes, a static label counter, the output, the call stack | `generate`, `genStatement`, `genScope`, `genIfpred`, `genExpression`, `genTerm`, `genBinExpr`, `push`, `pop`, `beginScope`, `endScope`, `createLabel` |
| FileStream | `include/pimento/file_stream.hpp` | a stream and who closes it | `makeFromPath`, `makeFromStdout`, the deleter |
| Utilities | `src/utils.cpp` | the logger | `expandVars`, `sanitizePath`, `fileExists`, logging |
| Driver | `src/pimento.cpp` | arguments, paths, two streams | `main` |

Components interact by direct calls. Inside the process there is no concurrency;
outside of it the file system changes while `main` runs. What is hard:

- `peek()` never refills the chunk, `consume()` does. Behind the last loaded byte
  `peek()` returns a byte an earlier chunk left there, or one no read has written.
- `get()` moves the stream under the buffer, clears its state bits and must put it
  back where the next refill expects it.
- Line, column, offset and the place of the current token are caches, kept over
  refills and never recomputed.
- `EOF` is `char_traits<char>::eof()` squeezed into a `char`: the byte `0xFF` of a
  text is taken for the end.
- `tokenize()` runs twice on one lexer (`src/lexer.cpp:15`, `src/parser.cpp:11`),
  with the token buffer as the first call left it.
- An operator's type follows the peeked character, its lexeme the consumed one.
- The parser recurses over one index that every function advances in its own way:
  most look before they consume, `parseTerm` consumes before it looks.
- The labels of an if chain are created, passed down a recursion, jumped to and
  written at different points; scopes are begun and ended around a recursive call.
- Identifiers and literals generate nothing, so the output pops what it never pushed.
- `div` divides `rdx:rax`, and `rdx` holds what an earlier instruction left there.
- `main` opens and truncates the output before it knows that the source compiles, asks
  three questions about one path one after the other, and leaves flushing to
  destructors that `exit()` does not run.
- One 64-bit word stands for eight integer types; a mantissa is rounded up to three
  times on its way to a `float`.

What makes each component correct:

- **InputBuffer**: a caller cannot tell it from the whole text: each byte once and in
  order, exact positions, `get()` answers with the source and is invisible otherwise,
  nothing is lost when it says it is done.
- **Lexer**: tokens spell the source at the place they name, do not overlap, and leave
  out nothing but white space, comments and (in this code) digits; the longest lexeme
  wins; `tokenize()` ends, and its second call does nothing.
- **Parser**: it accepts the programs of its grammar and nothing else; at every moment the finished trees and the
  suspended calls spell the tokens consumed; it ends, and its depth is bounded by them.
- **Generator**: every label is written once and every jump lands; `begin`/`endScope`
  nest; the output, when run, takes the turns the tree's structure demands and computes
  the values its operations mean.
- **Driver**: unless a write failed or the input is the output, success means a complete
  translation of the source and nothing else in the output; failure leaves no part of one; no other file is touched.
- **Numeric constants**: what the type asked for can hold is read back exactly, and the
  rest is rounded to the nearest or cut to the low bits.

`PROJECT.json` lists every hazard at its line with the properties that cover it.

## 2. Modules

| module | what it is |
|---|---|
| `CharStream` | the promise of a buffer: the characters of a text, one by one, with positions |
| `InputBuffer` | `input_buffer.cpp`, with its properties |
| `InputBufferProofs` | the theorems about it |
| `TokenStream` | the promise of lexical analysis: from the left, the longest lexeme or a skip |
| `Lexer` | `lexer.cpp` over `InputBuffer`, with its properties |
| `LexerProofs` | the theorems about it, and that it implements `TokenStream` |
| `LexerDocs` | what docs and tests say of the lexer where the code does otherwise |
| `Ast` | the nodes of `ast.hpp` as a heap, and which trees its types admit |
| `Parser` | `parser.cpp`, with the invariants that are proved |
| `Grammar` | the language of the README, as membership, with no parser in it |
| `ParserChecks` | the properties that relate `Parser` to the tokens |
| `Language` | the properties that relate it to `Grammar` |
| `ParserProofs` | the theorems about `Parser` |
| `YieldProofs` | the theorems that the trees spell the tokens |
| `Generator` | `generator.cpp`, with the invariants that are proved |
| `GeneratorProofs` | the theorems about `Generator` |
| `Machine` | the written program, run, beside the tree, executed |
| `TreeSets` | the trees of the runs |
| `Compiler` | `Parser` and `Generator` composed |
| `CompilerProofs` | the theorems about the composition |
| `Driver` | `pimento.cpp` with `utils.cpp` and `file_stream.hpp` |
| `DriverProofs` | the theorems about it |
| `Numeric` | the numeric constants of `tokens.hpp`, with their properties |
| `NumericProofs` | the theorems about them |
| `MC...` | small instances; the `.cfg` files name them |

`Grammar`, `Machine` and `TreeSets` hold RECURSIVE operators and are for TLC only, and so is
`Language`, which uses `Grammar`. The modules that are proved about do not.

### InputBuffer

The variables carry the names of the members. `std::istream` is what the buffer sees of
it: `text`, all it will deliver; `pos`, its read position; `good`, its state. A read that
comes back short leaves it not good, a stream that is not good delivers nothing, and
`clear()` in `get()` makes it good again. A read error is to this code the end of the
text (`gcount()` is all it looks at), so it is a shorter `text`.

`Consume(c)` is `consume()` returning `c`, in one of three ways: from the chunk, after a
refill, or `EOF`. The last includes a case that is easy to miss: once `mDone` is set by
an `EOF` byte in the text, a later `consume()` at the end of the chunk still reads the
next chunk, throws nothing away, and returns `EOF` without serving from it.
`readChunk()` is not an action: it is a part of `BufInit` and `Consume`. `Get(o, n)` is
`get()` with its answer `GetResult(o, n)`.

*Undefined behaviour.* `mBuffer` is never initialised: cells no read has written hold any
member of `Junk`. `peek()` at `mIndex = 4096` reads the byte behind the array. In the
x86-64 builds the project makes that is the low byte of `mNumChars`, which is 0x1000
whenever that happens, so it reads as `NUL`.

*size_t.* `(mTotalChunks - 1) * BUFFER_SIZE` is computed modulo `SizeMod` (2^64), because it
does wrap when no chunk was read. Texts are assumed shorter than `SizeMod`.

### Lexer

`tokenize()` is cut at its `consume()` calls; `pc` names the place in the code (the list is
in the module's head). One action stands for one `case` group of the switch or one
scanning loop, from one label to the next, with every call it makes. `parseIdent` and
`parseType` are the same text over another class of characters and share `ParseWord`.
`calls` counts the calls of `tokenize()`: the Lexer's constructor makes the first, the
Parser's the second. `stale` is a history variable: some `peek()` looked behind the loaded
characters. A token's type is written as its spelling.

Two branches of the source cannot be reached, and no run takes them. The length check at
the head of the loop (`lexer.cpp:38`) needs a long token left in the buffer while the
stream is not done. The branch behind `lexer.cpp:59` needs a token buffer that starts with
`_`, holds more than underscores and comes back to the switch. Both need a token left in
the buffer at a peeked `EOF`, and the `consume()` after that always answers `EOF`. They are
kept in the guards all the same.

`!` has no case in the switch, so `!=` (`docs/lexical_grammar.tex`, `TT_EXCLAIM_EQUAL`) is an
unknown symbol. Keywords are lexed as identifiers; `TokenStream` says so.

`errors::raise` is the step to label `exit`, with `error` naming which one it was.

`LongestMatchUnlessStale` states that the lexer implements `TokenStream` step by step, up to
the first `peek()` that looks behind the loaded characters, for texts without an `EOF` byte;
`greedy` is what happens behind it.

### Ast and Parser

A `shared_ptr` is an index into the sequence `nodes`; `std::make_shared` appends to it. The
wrapper nodes (`StmtNode`, `ExprNode`, `TermNode`, ...) add nothing to what they hold: they
are the table `KidKinds` of what may stand where. `WellFormedAst` says that the heap is a
forest that the types of `ast.hpp` admit.

`Parser` is a pushdown automaton. `calls` is the C++ call stack: a frame has the place in
the code where its function is, the nodes its calls have returned, and the value of `mIndex`
when it was entered. One action runs from one call or return to the next, with every
`tryConsume` on the way: `TryConsume(types, Then)` either takes all of them and goes on with
`Then`, or fails at the first that differs. A token is consumed before it is compared and
the end of the tokens is not, as in the code. `exit(EXIT_FAILURE)` is the status `failed`;
`error` says which of them.

`ExpressionEnd` is what is left of `parseExpression`'s loop with its operator cases commented
out: it returns the term whatever follows, and fails when nothing does.

### Generator and Machine

`Generator` has the same form: `frames` is the call stack, a frame holds the node, the
labels and the loop counter of its function, and a call that is the last thing a function
does takes its frame over. `Emit` is `operator<<` on the output; an instruction is its text,
the label if it has one, and (a history component, for the properties) the node it was
written for. `push` and `pop` also count in `mStackSize`, modulo `SizeMax` (2^64); nothing in
the code reads that count, so no property is about it. `sLabelCount` is static in the code;
one process makes one `Generator`, so it starts at 0.

The trees are those that `ast.hpp` admits. That includes the nodes of let, integer literals
and operators, which the parser does not make today: `Generator` has code for them.

`Machine` runs the output, on words of `Width` bits: registers start at 0 (as Linux starts a
process), flags are those the emitted jumps look at, `div` divides `rdx:rax` and faults when
the quotient does not fit. A value that is popped and was never pushed is arbitrary; the
first `MaxInputs` are recorded in `inputs`. Beside it `todo` executes the tree by its
structure: it knows of no labels, and only learns from `test` how a condition turned out.
The processor is external to the repository; it is modelled as far as the instructions ask.

### Compiler

`Compiler` shares `nodes` and `mProg` between `Parser` and `Generator`: the constructor parses
everything, then `generate()` walks the tree that came out. `CompiledInOrder` compares the two ends,
the tokens and the finished output; `OwedInOrder` is the same at every moment of the walk, when
part of the output is still owed by the functions on the stack (`Owed`: what a function at its
place writes itself, and what the subtrees it has not called for yet ask for).

### Driver

One action per call of `main()`. A path is a sequence of pieces (`~`, `/`, a reference to a
variable, other text), `Links` is what a path leads to, `entry` what is there now, `data` the
content of each inode. Between any two actions `Meddle` may remove a file or put a new one
in its place (editors save that way); that a file is overwritten in place while it is read
is left out. A text is only what it compiles to. `unflushed` is the buffer of the output
stream: `exit()` flushes `std::cout`, and destroys no local of `main()`. `given` is a
history variable: what users wrote.

### Numeric

A constant is constructed and one accessor is called. A magnitude is a natural number of
units of the least double, so frexp, ldexp and rounding to even are exact arithmetic.
Widths, mantissa bits and exponent ranges are constants, in the order that matters:
a double holds every int32 and not every int64, a float every int16 and not every int32.
A cast that is undefined in C++ answers `Undefined`, of which the properties say nothing.
`Pow2` is a function and not `^`, of which the provers know nothing. `Nearest` says what
rounding promises without saying how: the answer is a magnitude of the precision and none is nearer, or it is
`Inf` and the number lies above them all.

## 3. What the runs show

Passing runs:

| run | instance | shows |
|---|---|---|
| `input_buffer` | windows of 3, all texts to length 5 over four bytes and to length 8 over two, any `get()` at any time | the window is the part of the text it claims to be; positions are exact; `get()` answers with the source; nothing is lost; the buffer implements `CharStream` |
| `lexer` | windows of 3, all texts to length 5 over three alphabets, any junk | tokens match the source and partition it, locations are exact, the trace prints the lexemes, lengths are bounded, the longest match is taken up to the first stale lookahead, the second call is idle, `tokenize()` terminates |
| `program` | every statement, of up to two `elif`, in every place of every other, and followed by others; exits with every chain of two operations; words of 2 bits, any values on the stack | labels are defined once and jumps land, scopes nest, control and values are those of the tree, programs without a loop end |
| `compiler` | all programs of up to 11 tokens, with the `=` of their assignments and without, all prefixes with any token behind, all sequences of 3 tokens | the programs of the grammar are accepted and nothing else is, whether or not assignments have a `=`; at every moment the trees and the calls spell the tokens consumed; the parser's types and depth; at every moment of the walk what is written and what the running functions owe is what the tokens ask for; so each condition and each exit of the source is compiled once and in order; what is written assembles; the compiler comes to its end, and writes nothing when it fails |
| `driver` | nine inputs, five outputs, `--stdout` or not, nine environments, every state of two names and three inodes, failing opens and short writes, one change by another process at any point | unless a write failed or the input is the output, success is a complete translation; failure leaves none, no other file changes |
| `numeric` | every value of eight integer types, every finite number of two formats, every mantissa with eleven exponents | what the type holds reads back; the rest is rounded to the nearest (or, for scientific constants, to a neighbour) or cut to its low bits |

Runs that find the code and what is written about it to disagree:

| run | the text says | the code does |
|---|---|---|
| `greedy` | the longest match (`docs/lexical_grammar.tex:25`) | an operator across a chunk boundary is two tokens |
| `last_word` | `"else"` is one token (`tests/lexer_test.cpp:151`) | a word at the end of the text ends in an error or in no token |
| `token_limit` | a token may have the maximal length and not exceed it (`lexer.hpp:135`, `lexer.cpp:499`) | a word of exactly that length is an error |
| `assignment` | `ident = [Expr];` (the README's "Parser Grammar", `parser.cpp:122`) | the `=` of an assignment is an error |
| `division` | a division node divides (`ast.hpp:127`) | a division behind a division or modulus divides with its remainder, or faults |
| `missing_output` | the path for the output file (`pimento.cpp:40`) | an output file that does not exist yet aborts the process |

Known divergences that have no run of their own: `peek()` at the end of a chunk is not the
current character (`input_buffer.hpp:31`); a byte `0xFF` sets `mDone` in the middle of a text
(`input_buffer.hpp:93`); leftovers of an earlier chunk make the lexeme `+=` of a final `+`; digits are
dropped (`docs/lexical_grammar.tex:52`); a word must be followed by white space; every word is an
identifier, so no keyword's case in the parser is ever reached (`parser.cpp:94`), and `exit(0);` is no exit
(`tests/parser_test.cpp:27`) but an error in the lexer, and with white space in the parser; let statements, literals and
operators, which the README's grammar has, are not parsed; an assignment without a `=` is; a
missing input file, and an output path that is not used because of `--stdout`, abort the
process as well; an unsigned constant of 2^63 or more turns into a negative float
(`tokens.hpp:475`). `WindowInv`, `NothingLost`, `SourcePartitioned`, `TokenStream`
and `IntAsFloatNearest` are stated for what the code does there. `LengthBounded` and `AcceptsGrammar` hold of the
code and would hold of a code with the documented limit and the documented assignment: `AcceptsGrammar` puts
the `=` where it is missing before it asks the grammar, and accepts an error only at the token
where it belongs; `token_limit` and `assignment` are about the difference.

### Bounds

All are constants of the `.cfg` files or definitions of the `MC` modules.

*InputBuffer.* The behaviour of the buffer depends on the chunk size only through "at,
before, behind a boundary": windows of 3 with texts to 8 have two full chunks and a short
one, texts that end exactly at a boundary, one before and one behind it, short chunks of
one and of two bytes, and the empty text. A short chunk of two bytes matters: with windows
of 2 every short chunk is used up by the `consume()` that loads it, and ending the stream
early there would go unnoticed. `MaxGet` lets `get()` start in, before and behind the
window and reach over the end of the text.

*Lexer.* Windows of 3 put a boundary between any two characters of a three-character
operator. The longest operator is `//=`, so texts of 5 have a lexeme, a neighbour and a
boundary. The alphabets are split by what interacts: words with blanks and digits;
operators of each kind (one that doubles, one that also takes a third character, `=`, one
that does neither); comments with newlines, `'\r'`, the `EOF` byte and a symbol.
`MaxTokenLen = 4` is the least that no operator can exceed, so the length check is met in
texts of 5 by words, as in the code with `MAX_TOKEN_LEN` = 64.

*Compiler.* The parser reads from the left and looks one token ahead, so what it
does on a sequence it has done on the longest prefix that a program has, and one token
more: the programs to a length, their prefixes and any one token behind them are all its
behaviours to that length. With 11 tokens there are an if with elif and else, two levels of
nesting, two statements in a scope, and parentheses in every place of an expression.

*Program.* Two `elif` are needed for the label of the end to be passed on twice; one level
of nesting puts every statement into every place of every other; followed by an if with an
else or a while, and an exit, labels of consecutive statements meet. Chains of two
operations make the second work on the first's result. `Width = 2` has negative numbers,
borrows, products that do not fit and every exponent, zero too; `MaxInputs = 3` are all the operands of a
chain. A division behind another operation is left out of `ExitsWithValue`: that is
`division`. `mStackSize` wraps below zero as soon as a condition is compiled, whatever `SizeMax` is.

*Driver.* Two names, so that input and output are different files, one file, or one and a
link to it; three inodes, so that one can be new. With one interference it comes between any two steps;
`main()` asks for a name at most three times, and each property is about the streams it got.
`HOME` and the variable are set, not set, and refer to each other.

*Numeric.* Eight, five, four and two bits for 64, 32, 16 and 8, with mantissas of six and
four: the order of the widths is that of the code (`SizesAssumption`). The exponents reach below
the least double and above the largest float. The theorems about `Numeric` hold for the real sizes.

### Fairness

`Terminates` (lexer), `CompilerTerminates` and `ProgramEnds` are checked under weak fairness of
the whole step: one thread runs the code, and nothing it waits for can fail to come, since
a `std::istream` over a file or a string answers every read. Nothing is assumed of which
step is taken, and a condition of the compiled program owes nobody a value: `ProgramEnds`
is for programs without `while`, through the loop that a power is compiled to. The lexer's
property is about the comment loop, which must stop at the end of a text without a newline, and about `parseIdent`, whose stale lookahead may stay an identifier character
for ever and which runs into the length check. The compiler's is about `parse()` and
`parseScope()`, loops that end when the tokens do.

### Deadlock

It is checked in every run: where a thread has ended (`Terminated`, `ParserStopped`,
`GeneratorStopped`, `CompilerStopped`, `Ended`, `Answer`) a stuttering action says so, and
every other state must have a successor. A place of a function that no action takes up
would show.

## 4. What is proved

For every value of the constants, from the assumptions named in the modules:

| module | theorem | statement |
|---|---|---|
| `InputBufferProofs` | `BufferInvariant` | `BufSpec => [](BufTypeOK /\ WindowInv)` |
| | `BufferTypeTheorem` | `BufSpec => []BufTypeOK` |
| | `GetTheorem` | `BufSpec => []GetReturnsSource` |
| | `NothingLostTheorem` | `BufSpec => []NothingLost` |
| | `PositionTheorem` | `BufSpec => []PositionExact` |
| | `BufferImplementsStream` | `BufSpec => ImplementsCharStream` |
| `LexerProofs` | `LexerInvariant` | `Spec => []LexInv` |
| | `LexerTypeTheorem` | `Spec => []LexTypeOK` |
| | `TokensMatchTheorem` | `Spec => []TokensMatchSource` |
| | `PartitionTheorem` | `Spec => []SourcePartitioned` |
| | `LocationTheorem` | `Spec => []LocationExact` |
| | `LengthTheorem` | `Spec => []LengthBounded` |
| | `EchoTheorem` | `Spec => []TraceEchoesLexemes` |
| | `SecondCallTheorem` | `Spec => SecondCallIsIdle` |
| | `LexerRefinesTokens` | `Spec => LongestMatchUnlessStale` |
| `ParserProofs` | `ParserTypeTheorem` | `ParserSpec => []ParserTypeOK` |
| | `DepthTheorem` | `ParserSpec => []DepthBounded` |
| `YieldProofs` | `YieldTheorem` | `ParserSpec => []YieldIsConsumed` |
| | `AcceptedTheorem` | `ParserSpec => [](status = "done" => YieldOf(mProg) = tokens)` |
| `GeneratorProofs` | `GenTypeTheorem` | `GeneratorSpec => []GenTypeOK` |
| | `ScopesTheorem` | `GeneratorSpec => []ScopesNest` |
| | `PendingTheorem` | `GeneratorSpec => []LabelInv` |
| | `LabelsTheorem` | `GeneratorSpec => []LabelsDefinedOnce` |
| | `JumpsTheorem` | `GeneratorSpec => []JumpsLand` |
| `CompilerProofs` | `HandOverTheorem` | `CompilerSpec => [](ParserTypeOK /\ (status = "done" => GenTypeOK))` |
| | `AssemblesTheorem` | `CompilerSpec => []OutputAssembles` |
| | `OwedTheorem` | `CompilerSpec => []OwedInOrder` |
| | `InOrderTheorem` | `CompilerSpec => []CompiledInOrder` |
| `DriverProofs` | `DriverInvariant` | `DriverSpec => []DriverInv` |
| | `DriverTypeTheorem` | `DriverSpec => []DriverTypeOK` |
| | `SuccessTheorem` | `DriverSpec => []SuccessIsTranslated` |
| | `FailureTheorem` | `DriverSpec => []FailureLeavesNothing` |
| | `OutputTheorem` | `DriverSpec => []OnlyOutputChanges` |
| `NumericProofs` | `IntTheorem` | `NumericSpec => []IntReadsBack` |
| | `IntAsFloatTheorem` | `NumericSpec => []IntAsFloatNearest` |
| | `FloatTheorem` | `NumericSpec => []FloatReadsBack` |
| | `TruncatesTheorem` | `NumericSpec => []FloatTruncates` |
| | `ScientificTheorem` | `NumericSpec => []ScientificIsNext` |

### The buffer

The inductive invariant is `BufInv == BufTypeOK /\ WindowInv`. It is needed because nothing
that a caller observes is inductive alone: that `consume()` returns the next character needs
that the window ends at the stream's position and that the caller stands `mIndex` into it;
that a refill leaves no gap needs that a chunk shorter than `BufferSize` was the last one
and that a stream which is no longer good is at its end; that `get()` finds the window
needs that all chunks before it were full. The argument:

1. `RefillBounds`: under `BufInv` a read finds nothing exactly at the end of the text, and
   finds something only behind a full chunk. `NextChunk`: what it finds is the new window,
   directly behind the old one.
2. `ConsumeIsStreamStep`: whichever way `consume()` took, it delivered the next character and
   moved on by one, or answered `EOF` and stayed, at the end of the text or when done.
3. `ConsumeBufInv` and `GetBufInv` give `StepBufInv`, and with `InitBufInv` the first theorem.
4. The others follow from `ConsumeIsStreamStep`: the refinement directly; `NothingLost` and
   `PositionExact` as invariants relative to `BufInv` (`NewlinesGrow` counts one more newline);
   `GetReturnsSource` from `BufInv` alone, once `ChunkStartValue` has shown that the wrapped
   start of "chunk -1" lies above any offset `get()` is called with.

The step lemmas speak of `Consume(c)` and `Get(o, n)` and not of `BufNext`, so that proofs
about the lexer cite them. The assumption that texts are shorter than `SizeMod` is used
for `ChunkStart` only; that `BufferSize + MaxGet < SizeMod` for its wrapped value.

### The lexer

The assumptions are those of the buffer, that a token may have more than three characters
(`MaxTokenLenAssumption`; 64 in the code), and what the character classes of `lexer.cpp` are to each
other: `EOF` and `NUL` are in none and `NUL` is not `EOF`, a newline is a blank and no `#`
(`CharsAssumption`, `ClassAssumption`), and the classes the switch tells apart have no
character in common (`DisjointAssumption`, which only the refinement needs). They are facts of
ASCII and of the `case` labels.

`LexInv` is inductive. That tokens spell the source is not inductive, because a token is what
the buffer held: `PieceInv` says that `mTokenBuffer` spells the text from `offset` to the place
of the buffer, with `line` and `column` those of `offset`, at every label where a token is being
read. It also has to say what may be wrong with it: a word whose stale lookahead looked like a
letter can run over the end of the text, and then its tail is `EOF`s (`Piece`, `Spells`); that
happens only when `stale`. `AllAccounted` carries the partition: each character handed out and not held is in
a token, is one that is dropped, or stands behind a `#` with no newline between; `EndsInv` has it
that the piece held starts behind the last token. `LabelOK` ties a label to the characters
that led there. The argument:

1. `ConsumeMoves`, from `ConsumeIsStreamStep` of the buffer: `consume()` hands out the next
   character, or `EOF` at the end of the text; `PeekIsNext`: a `peek()` that does not look behind
   the chunk shows what `consume()` will return.
2. `MoreTaken`: whatever `consume()` appended, the buffer spells the source one character further.
3. Six step lemmas for what an action does to the token buffer, whichever action it is: hold it
   (`HoldHere`, `HoldMore`), make a token of it (`CreateHere`, `CreateMore`), drop it (`DropStep`,
   `CommentStep`), or leave all as it is (`QuietStep`).
4. One lemma per action brings it to one of these; `NextLexInv` puts them together.
5. The theorems follow from `LexInv`; `EchoTheorem` with `GetInText`, that `get()` finds any span
   of the text at the end of a pass; `SecondCallTheorem` from `LabelOK` at the second call.

### The lexer implements its specification

`LexerRefinesTokens` is the simulation of `TokenStream`: a token that is created is a `Tokens!EmitToken` of
the longest lexeme, an error is a `Tokens!Fail` where nothing fits, and what is dropped is a `Tokens!Skip` or
`Tokens!SkipComment`, as long as no
lookahead was stale and the text has no `EOF` byte. `LexInv` is not enough, because the longest lexeme is about the
text, and the code only remembers what it read: `ReadInv` says, at each label, what the text
holds from `offset` on (two underscores at `under`, up to two of them in front of an identifier at `ident`, the operator twice at
`third`). `RefInv == LexInv /\ NothingLost /\ ReadInv` is inductive; `NothingLost` (of the buffer) is what makes
`done()` the end of the text. The argument:

1. `SymbolForms`, `IdentShape`, `TypeShape` and `LexemeShape`: what a lexeme can look like, character
   by character; `AheadIs` and `Window`: the text ahead, character by character.
2. `NoneLonger(n)`: nothing longer than what was read is a lexeme. It is shown for each way a
   token can end: an operator before a character that does not continue it, a word before one
   that is not of its class.
3. `EmitStep` and `FailStep`: from these, that the step of the lexer is one of `TokenStream`.
4. One lemma per action for the simulation, and one for `ReadInv`.

### The parser

The only assumption is that the token lists are sequences (`TokenAssumption`). `ParserTypeOK` is
inductive. Types alone are not: that `Return(StmtIfNode(Top.kids[1], Top.kids[2], ...))`
makes a well-formed node needs that an `if` that is done with its scope holds two nodes, an
expression and a scope, and that needs that each suspended function waits for a call of
the very function above it, whose nodes are of the kinds that function returns. `FrameOK`
says this, by the tables `Callee`, `Returns`, `Held`, `Complete` and `KindsAt`. It also carries
the depth: frame `i` has `i <= 2 * start + Slack`, where `Slack` is how far a function can go
down before it takes a token, and `start` grows along the stack by what was taken. The argument:

1. `Expected` and `EntryFacts`: the tables agree with each other.
2. `CallStep`, `ReturnStep`, `PassStep`, `ReturnNothingStep`, `FailStep`: a call, a return of a new
   node, of an old node, of nothing, and a failure keep `ParserTypeOK`, whoever makes them.
3. One lemma per action brings it to one of these; `AllKids`, `OneKid` and `Rebuilt` give the nodes
   its constructor is handed.
4. `DepthTheorem` follows: the innermost frame has `Len(calls) <= 2 * start + Slack`, and
   `start + Taken <= mIndex`.

### The trees spell the tokens

`YieldIsConsumed` is an equation between the tokens up to `mIndex` and what the trees and the
call stack spell, and it is inductive beside `ParserTypeOK`. What is hard is not the step but
the data: `Yield` is a recursive function over the heap, `FlattenSeq` one over a sequence, and to
unfold a recursive function one must know that a function with its equation exists. The
library's induction theorems take a predicate, which no installed prover can instantiate; a
set can be instantiated, so `SetInduction` states induction for a set of numbers and is proved
from the least element of its complement. The argument:

1. `FlatteningExists` and `FlatteningsAgree`: up to each length there is one function that
   `FlattenSeq` can be computed by. `FlattenAppend`: one more sequence is one more concatenation.
2. `ReadingExists`: a heap whose nodes' children come before them (`Forest`, which `ParserTypeOK`
   gives) has a function with the equation of `Yield`; `HeapFacts` concludes that `Yield` has it.
   `ReadingsAgree` and `OldYields`: a node that is added changes no older node's yield.
3. `OneTreeMore` and `OneFrameMore`: what is spelled by one more tree, one more frame.
4. `Accounted`: what has to be spelled after a step is what the frames below spell, what the
   running function had taken, and `Consumed`, the tokens of the step.
5. `CallSpells`, `ReturnSpells` and `PassSpells`: a call, a return of a new node and of an old one
   account for exactly that. One lemma per action brings it to one of these; `SpellingIs` compares
   the tokens a function has taken when it makes a node with what the node spells.
6. `AcceptedTheorem`: `YieldIsConsumed` compares with the tokens up to `mIndex`, and a program may be
   accepted only with all of them consumed. `ReadInv` says so; it needs that `peek()` answers
   `std::nullopt` at the end of the tokens and nowhere else, that is, that `std::nullopt` is no
   token's type (`NoTokenAssumption`).

### The generator

The assumptions are the types of the trees (`TreesAssumption`) and that a `size_t` has values
(`SizeAssumption`). The inductive invariant is `GenInv /\ LabelInv`. That no label is defined
twice is not inductive: a label that is written must be one that was created and not yet
written, by anybody. `LabelInv` therefore says of every running function which labels it has
still to write (`Pending`), that those of two functions are different, and that a jump goes
to a label that is defined or is some function's to write. An `elif` jumps to a label its
caller's caller will write: the invariant has it that `genIfpred` always runs directly above
the `if` whose label it was given. `GenInv` adds that each function works on a node of its
variant, so that the children it descends to exist and are of the kinds it calls for.

1. `Shows(code, D, T)`: a piece of code defines the labels `D`, once each, and jumps to labels in
   `T`. `OperationShows` and its like say it of every piece the generator has.
2. Every action is one of three shapes, a call, a last call or a return, and writes one
   piece of code. `LabelStep` says of all of them what has to be true of `D`, `T`, the
   labels created and the frames before and behind; `GenCallStep`, `GenLastCallStep` and
   `GenReturnStep` are its instances.
3. One lemma per action gives the piece and the shape; `StepInv` puts them together.
4. `JumpsTheorem`: when no function runs, nothing is pending, so every jump goes to a label that is defined.
5. `ScopesNest` counts the frames inside a statement of a scope; `InScopesFinite` and the
   cardinality of a set with one element more or less give it. It is what lets `endScope()`
   find an entry, so `GenTypeOK` needs it.

### Parser and generator together

`CompilerProofs` composes the two. Nothing is assumed of the trees, `TreesAssumption` is not used:
that the heap the parser ends with is one the generator is proved for (`ParsedHeap`) follows from
`ParserTypeOK`. `CompilerInv` is
the parser's invariant throughout, the generator as it was constructed until the parser is done,
and the generator's invariant from then on. `ParseProgramStep` and `GenerateProgramStep` keep it:
neither writes the other's variables, and the walk reads the heap but does not change it
(`WalkLeavesTree`). `AssemblesTheorem` has `LabelsDefinedOnce` and `JumpsLand` of every token
sequence then, and that a failed parse has written nothing.

`CompiledInOrder` speaks of the end of the walk and is not inductive. `OwedInOrder` is, beside
`CompilerInv` and `ReadInv`: every step of the walk pays off what it writes (`Balanced`), whatever is
owed by the functions below. The argument:

1. `Through(c, s)` is `FlattenSeq` of what `c` makes of each element of `s`. `ThroughConcat`,
   `ThroughBoth` (mapping twice) and `ThroughSilent` (elements of which nothing is made) are by
   `SetInduction`, on `FlattenAppend`. What the tokens ask for, what is written, what a tree asks for
   and what a stack owes are all of this form.
2. `NodeDue`: what the tokens that a tree spells ask for is its root's own command, then what its
   children ask for. `SpellingAsks` compares the spelling of each kind with its command;
   `ExprSilent` has it that expressions ask for nothing.
3. `OwedTable`: what each place of each function owes. `LeaveBalances`, `TakeOverBalances` and
   `DescendBalances`: the stack shapes a step can have, a return, a last call and a call.
4. One lemma per action (`GenStatementBalances`, `GenIfTestBalances`, ...) gives the commands it writes
   (`TestSays`, `ExitSays`, `OperationQuiet`, ...) and the shape; `StepBalances` puts them together.
5. `HandedOver`: when the parser is done nothing is written, `generate()` owes what `mProg` asks for,
   and by `AcceptedTheorem`'s equation that is what the tokens ask for. `OrderHolds` is the invariant;
   `CompiledInOrder` is the case of an empty stack.

### The driver

The assumptions are that "stdout", "directory" and None are no inodes (`FilesAssumption`) and that
arguments are what the argument parser hands out (`ArgumentsAssumption`). Nothing is assumed of
the links, of the environment, of the number of files or of `MaxMeddle`.

The difficulty is that `main()` decides about names and acts on streams, while other processes
give a name another file. `DriverInv` speaks of the streams for that reason: `LocalsInv` says which
locals are set at each label, `OutputInv` that every inode but the one opened for output has
what users wrote, and that one nothing, until `generate()` has run and the stream is flushed. `ProgramInv` has it that the program
parsed is what a user wrote to the input, unless the input is the output (`OpenOutput` truncates it
before the parser reads). `SuccessIsTranslated` is a part of the invariant and must be: a user may
replace a file after `main()` has returned, which makes a new inode and leaves the old.

1. `EndStep`: `fail()` and `std::terminate()` end the run, before anything was flushed.
2. `GoOn`: the steps before the output is open change no file, whatever they set.
3. One lemma per action of `main()`, and `MeddleStep` for the other processes.

### The numeric constants

The assumptions are the order of the sizes (`SizesAssumption`), that exponents are integers
(`ExponentsAssumption`) and that `Inf` is none (`InfAssumption`). The sizes of the code satisfy the first one:
widths 64, 32, 16 and 8, mantissas of 53 and 24 bits, and in units of 2^-1074 `One = 1074`,
`Least32 = 925`, `Top64 = 2098`, `Top32 = 1202`. So the theorems are about the program's own integers,
doubles and floats, where the run has formats of a few bits.

`NumInv` is inductive: what is held is what the constructor put there, and the answer is what the accessor makes of it.
The rest is arithmetic:

1. *Powers of two.* `SetInduction` is induction for a set of numbers, from the well-foundedness of `<`,
   since the library's takes an operator. It shows that `Pow2` is total (`Pow2Is`), positive,
   additive and monotonic.
2. *Rounding.* No magnitude of a precision lies between two neighbours on the grid of its last bit
   (`Grid`), and rounding chooses one of the two, the nearer (`RoundedIs`). Hence it stays on the number's side
   of every magnitude (`RoundedBetween`), no magnitude is nearer (`RoundedNearest`), and a magnitude
   rounds to itself (`RoundedSame`).
3. *Integers.* A signed value widened to 64 bits and cut again is the value modulo the width
   (`CastOfWord`); two values of a type that agree there are one (`SameValue`).
4. *frexp and ldexp.* The mantissa of a finite number is whole (`MantissaExact`) and the two scalings cancel
   (`CrossPowers`), subnormal numbers too, so nothing is rounded until a double is read as a float: `FloatRead`. `FloatTruncates`
   needs that every float is a double (`FloatsAreDoubles`).
5. *Scientific notation.* There are three roundings: of the mantissa, of the scaled value, and to a float.
   Only the first one is scaled afterwards. A double scaled back by the exponent is a double again, a fraction of a
   unit, or too large, and the rounded mantissa lies on the same side of each (`FirstKeepsSide`).
   `ScaledBetween` and `NarrowBetween` chain the three. That is also why the property
   is `ScientificIsNext` and not `Nearest`, which is false of a value rounded twice.

### Only model-checked

- `AcceptsGrammar`, `ControlMatchesTree` and `ExitsWithValue`: `Grammar` and `Machine` are written
  with RECURSIVE operators, which take the SMT solver from the prover. Besides, what they compute
  of every program would be an induction over trees.
- Liveness, which TLAPS does not prove under fairness.

## 5. Not modelled

- `doubleFromScientific` (`lexer.cpp:561-609`) and the digit predicates have no caller;
  `parseNumericConst` only clears the buffer.
- NaN and infinite arguments of numeric constants; `operator<<` on tokens.
- The wording, line and column of messages; logging, and the flags for its level.
- `--help` and `--version`; the argument parser is a library, of which only "the file is
  required" and "`-o` excludes `--stdout`" are modelled.
- `makeFromStdin` and `makeFromStderr` have no caller.
- Read errors: `gcount()` is all that the buffer looks at, so one is a shorter text.
- The assembler and the linker; the text format of the assembly.
- The libraries the build fetches, build files.

## 6. Plan

Done: `CharStream`, `InputBuffer`, `TokenStream`, `Lexer`, `Ast`, `Grammar`, `Parser`, `Generator`,
`Machine`, `Compiler`, `Driver`, `Numeric`; proofs about `InputBuffer`, `Lexer`, `Parser`,
`Generator`, `Compiler`, `Driver` and `Numeric`.
