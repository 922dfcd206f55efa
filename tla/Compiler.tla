------------------------------- MODULE Compiler ------------------------------
(***************************************************************************)
(* Parser and Generator put together as in the constructor of Generator    *)
(* and in generate() (src/src/generator.cpp:9-22): the member mParser      *)
(* parses everything before anything is written, and the tree it returns   *)
(* is the one that is walked.                                              *)
(***************************************************************************)
EXTENDS ParserChecks, Generator

parserOnly == <<tokens, mIndex, calls, status, error>>
generatorOnly == <<mOutput, mStackSize, mVars, mScopes, sLabelCount, frames>>
cvars == <<pvars, gvars>>

CompilerInit == ParserInit /\ Constructed

ParseProgram == ParserStep /\ UNCHANGED generatorOnly

\* generate(), when the constructor has returned.
GenerateProgram == status = "done" /\ GeneratorStep /\ UNCHANGED parserOnly

CompilerStopped ==
    /\ status = "failed" \/ (status = "done" /\ frames = << >>)
    /\ UNCHANGED cvars

CompilerNext == ParseProgram \/ GenerateProgram \/ CompilerStopped

CompilerSpec == CompilerInit /\ [][CompilerNext]_cvars

\* One thread runs main(), and nothing in it waits.
FairCompilerSpec == CompilerSpec /\ WF_cvars(ParseProgram \/ GenerateProgram)

-----------------------------------------------------------------------------

\* What a token is compiled to, of the tokens that are, and what is kept of an
\* instruction to compare with it.
CodeFor(type) ==
    CASE type \in {"IF", "ELIF", "WHILE"} -> <<"test rax, rax">>
      [] type = "EXIT" -> <<"syscall">>
      [] OTHER -> << >>

Command(ins) == IF ins.op \in {"test rax, rax", "syscall"} THEN <<ins.op>> ELSE << >>

Asked(types) == FlattenSeq([k \in DOMAIN types |-> CodeFor(types[k])])
Commands     == FlattenSeq([k \in DOMAIN mOutput |-> Command(mOutput[k])])

\* Every condition and every exit of the source is compiled, once and in the
\* order of the source, and nothing else is (parser.cpp:78-491, generator.cpp:24-192).
CompiledInOrder == status = "done" /\ frames = << >> => Commands = Asked(tokens)

\* The trees that a function of the walk, at its place, has still to call others for,
\* behind the call it waits for, and what it still writes before them.
TreesLeft(f) ==
    LET From(ids, k) == SubSeq(ids, k, Len(ids))
    IN  CASE f.at \in {"generate", "program"} -> From(mProg, f.i + 1)
          [] f.at \in {"stmt", "pred"} -> <<f.node>>
          [] f.at \in {"scope", "scope.stmt"} -> From(nodes[f.node].kids, f.i + 1)
          [] f.at \in {"if.expr", "elif.expr", "while.expr"} -> From(nodes[f.node].kids, 2)
          [] f.at \in {"if.scope", "elif.scope"} -> From(nodes[f.node].kids, 3)
          [] OTHER -> << >>

CommandLeft(place) ==
    CASE place \in {"if.expr", "elif.expr", "while.expr"} -> <<"test rax, rax">>
      [] place = "exit" -> <<"syscall">>
      [] OTHER -> << >>

Owed(f) == CommandLeft(f.at) \o Asked(YieldOf(TreesLeft(f)))

\* Why: at every moment of the walk, what is written and then what each function on the
\* stack owes, the innermost first, is what the tokens ask for: none of them forgets a
\* subtree, visits one twice or takes its children in another order (generator.cpp:24-192).
OwedInOrder ==
    status = "done" =>
        Commands \o FlattenSeq([i \in DOMAIN frames |-> Owed(frames[Len(frames) + 1 - i])])
        = Asked(tokens)

\* What is written assembles, whatever the tokens are: the walk meets no node that it
\* has no code for, every label stands once and every jump has its own; a program that
\* does not parse gets no output at all (parser.cpp:22-491, generator.cpp:9-416).
OutputAssembles ==
    /\ status # "done" => mOutput = << >>
    /\ \A n \in DOMAIN frames : WalkOK(frames[n])
    /\ LabelsDefinedOnce /\ JumpsLand

\* Whatever the tokens are, the compiler comes to its end, with the program
\* written or having exited before it wrote anything: the loops at parser.cpp:22
\* and 402, the recursion and the walk end.
CompilerTerminates ==
    <>(\/ status = "failed" /\ mOutput = << >>
       \/ status = "done" /\ frames = << >>)
=============================================================================
