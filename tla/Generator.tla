------------------------------ MODULE Generator ------------------------------
(***************************************************************************)
(* pimento::generation::Generator (src/src/generator.cpp): one walk over   *)
(* the tree that appends to the output.  The call stack is a variable, as  *)
(* in Parser: a frame names the place in the code, the node it works on,   *)
(* and holds the labels and the loop counter of the function.  An action   *)
(* runs from one call or return to the next; the std::visit dispatch of    *)
(* the wrapper nodes is no step of its own, and a call that is the last    *)
(* thing a function does takes its frame over.                             *)
(*                                                                         *)
(* An instruction is its text and, for labels and jumps, the label; node,  *)
(* which the code does not write, is the node it was emitted for.          *)
(***************************************************************************)
EXTENDS Ast, Integers, FiniteSets

CONSTANTS
    Trees,      \* the trees that may be given: records of a heap and its root
    SizeMax     \* the number of values of a size_t

ASSUME SizeAssumption == SizeMax \in Nat \ {0}

ASSUME TreesAssumption ==
    \A tree \in Trees :
        /\ tree.nodes \in Seq([kind : AllKinds, token : Nat, kids : Seq(Nat)])
        /\ tree.prog \in Seq(Nat)

VARIABLES
    mOutput,
    mStackSize,
    mVars,
    mScopes,
    sLabelCount,
    frames          \* the call stack, innermost last

gvars == <<mOutput, mStackSize, mVars, mScopes, sLabelCount, frames, nodes, mProg>>

Instr(op, label, node) == [op |-> op, label |-> label, node |-> node]

Jumps == {"jmp", "jz", "jc", "jl", "jg"}

GenFrame(place, node, end) ==
    [at |-> place, node |-> node, label |-> 0, end |-> end, i |-> 0]

-----------------------------------------------------------------------------
(* The walk.                                                                *)

Walking == frames[Len(frames)]
GenAt(place) == frames # << >> /\ Walking.at = place
Kids == nodes[Walking.node].kids
Kind == nodes[Walking.node].kind

\* The function at the top changes to walking and calls another.
Descend(walking, callee) == frames' = Append([frames EXCEPT ![Len(frames)] = walking], callee)

\* Its last call, and its return.
TakeOver(callee) == frames' = [frames EXCEPT ![Len(frames)] = callee]
Leave == frames' = SubSeq(frames, 1, Len(frames) - 1)

ExprOf(node)  == GenFrame("expr", node, 0)
ScopeOf(node) == GenFrame("scope", node, 0)
StmtOf(node)  == GenFrame("stmt", node, 0)

\* operator << on mOutput, of lines without a label and of lines with one.
Op(op)          == Instr(op, 0, Walking.node)
Jump(op, label) == Instr(op, label, Walking.node)
Label(label)    == Instr("label", label, Walking.node)

\* push() and pop() among the instructions change mStackSize by so many.
EmitCounting(code, change) ==
    /\ mOutput' = mOutput \o code
    /\ mStackSize' = (mStackSize + change) % SizeMax

Emit(code) == EmitCounting(code, 0)
EmitNothing == UNCHANGED <<mOutput, mStackSize>>

\* Mutant of CreateLabels: the counter is the function's own.
CreateLabelsAfresh(n) == sLabelCount' = n

\* createLabel(), n times: the labels are sLabelCount and those behind it.
CreateLabels(n) == sLabelCount' = sLabelCount + n
NoLabels == UNCHANGED sLabelCount
ScopesStay == UNCHANGED <<mVars, mScopes, nodes, mProg>>

-----------------------------------------------------------------------------

\* The constructor.
Constructed ==
    /\ mOutput = << >>
    /\ mStackSize = 0
    /\ mVars = << >>
    /\ mScopes = << >>
    /\ sLabelCount = 0
    /\ frames = <<GenFrame("generate", 0, 0)>>

\* mParser has a tree.
GeneratorInit ==
    /\ \E tree \in Trees : nodes = tree.nodes /\ mProg = tree.prog
    /\ WellFormedAst
    /\ Constructed

Generate ==
    /\ GenAt("generate")
    /\ Emit(<<Instr("_start:", 0, 0)>>)
    /\ TakeOver([Walking EXCEPT !.at = "program"])
    /\ NoLabels /\ ScopesStay

GenProgram ==
    /\ GenAt("program")
    /\ \/ /\ Walking.i < Len(mProg)
          /\ Descend([Walking EXCEPT !.i = @ + 1], StmtOf(mProg[Walking.i + 1]))
       \/ Walking.i = Len(mProg) /\ Leave
    /\ EmitNothing /\ NoLabels /\ ScopesStay

\* genStatement() up to its first call.  Let and assign are not implemented.
GenStatement ==
    /\ GenAt("stmt")
    /\ \/ /\ Kind = "exit"
          /\ Descend([Walking EXCEPT !.at = "exit"], ExprOf(Kids[1]))
          /\ EmitNothing /\ NoLabels
       \/ Kind \in {"let", "assign"} /\ Leave /\ EmitNothing /\ NoLabels
       \/ /\ Kind = "scope"
          /\ Emit(<<Op(";; scope")>>)
          /\ Descend([Walking EXCEPT !.at = "block"], ScopeOf(Walking.node))
          /\ NoLabels
       \/ /\ Kind = "if"
          /\ Descend([Walking EXCEPT !.at = "if.expr"], ExprOf(Kids[1]))
          /\ EmitNothing /\ NoLabels
       \/ /\ Kind = "while"
          /\ CreateLabels(2)
          /\ Emit(<<Label(sLabelCount)>>)
          /\ Descend([Walking EXCEPT !.at = "while.expr", !.label = sLabelCount,
                                     !.end = sLabelCount + 1], ExprOf(Kids[1]))
    /\ ScopesStay

GenExit ==
    /\ GenAt("exit")
    /\ EmitCounting(<<Op("mov rax, 60"), Op("pop rdi"), Op("syscall")>>, -1)
    /\ Leave /\ NoLabels /\ ScopesStay

GenBlockEnd == GenAt("block") /\ Emit(<<Op(";; /scope")>>) /\ Leave /\ NoLabels /\ ScopesStay

GenIfTest ==
    /\ GenAt("if.expr")
    /\ CreateLabels(1)
    /\ EmitCounting(<<Op("pop rax"), Op("test rax, rax"), Jump("jz", sLabelCount)>>, -1)
    /\ Descend([Walking EXCEPT !.at = "if.scope", !.label = sLabelCount], ScopeOf(Kids[2]))
    /\ ScopesStay

\* Mutant of GenIfEnd: no jump behind the scope.
GenIfEndFallsThrough ==
    /\ GenAt("if.scope")
    /\ \/ Len(Kids) = 2 /\ Emit(<<Label(Walking.label)>>) /\ Leave /\ NoLabels
       \/ /\ Len(Kids) = 3
          /\ CreateLabels(1)
          /\ Emit(<<Label(Walking.label)>>)
          /\ Descend([Walking EXCEPT !.at = "if.pred", !.end = sLabelCount],
                     GenFrame("pred", Kids[3], sLabelCount))
    /\ ScopesStay

\* Mutant of GenIfEnd: every if ends behind its scope.
GenIfEndForgetsPredicate ==
    /\ GenAt("if.scope")
    /\ Emit(<<Label(Walking.label)>>) /\ Leave
    /\ NoLabels /\ ScopesStay

GenIfEnd ==
    /\ GenAt("if.scope")
    /\ \/ Len(Kids) = 2 /\ Emit(<<Label(Walking.label)>>) /\ Leave /\ NoLabels
       \/ /\ Len(Kids) = 3
          /\ CreateLabels(1)
          /\ Emit(<<Jump("jmp", sLabelCount), Label(Walking.label)>>)
          /\ Descend([Walking EXCEPT !.at = "if.pred", !.end = sLabelCount],
                     GenFrame("pred", Kids[3], sLabelCount))
    /\ ScopesStay

GenIfPredEnd == GenAt("if.pred") /\ Emit(<<Label(Walking.end)>>) /\ Leave /\ NoLabels /\ ScopesStay

GenWhileTest ==
    /\ GenAt("while.expr")
    /\ EmitCounting(<<Op("pop rax"), Op("test rax, rax"), Jump("jz", Walking.end)>>, -1)
    /\ Descend([Walking EXCEPT !.at = "while.scope"], ScopeOf(Kids[2]))
    /\ NoLabels /\ ScopesStay

GenWhileEnd ==
    /\ GenAt("while.scope")
    /\ Emit(<<Jump("jmp", Walking.label), Label(Walking.end)>>)
    /\ Leave /\ NoLabels /\ ScopesStay

-----------------------------------------------------------------------------

\* genScope(): beginScope() before each statement.
GenScope ==
    /\ GenAt("scope")
    /\ \/ /\ Walking.i < Len(Kids)
          /\ mScopes' = Append(mScopes, Len(mVars))
          /\ Descend([Walking EXCEPT !.at = "scope.stmt", !.i = @ + 1], StmtOf(Kids[Walking.i + 1]))
       \/ Walking.i = Len(Kids) /\ Leave /\ UNCHANGED mScopes
    /\ EmitNothing /\ NoLabels
    /\ UNCHANGED <<mVars, nodes, mProg>>

\* Mutant of GenEndScope: one scope is begun for each statement, none is ended.
GenEndScopeKeeps ==
    /\ GenAt("scope.stmt")
    /\ TakeOver([Walking EXCEPT !.at = "scope"])
    /\ EmitNothing /\ NoLabels /\ ScopesStay

\* endScope() behind it.
GenEndScope ==
    /\ GenAt("scope.stmt")
    /\ LET popCount == Len(mVars) - mScopes[Len(mScopes)]
       IN  /\ EmitCounting(IF popCount # 0 THEN <<Op("add rsp")>> ELSE << >>, -popCount)
           /\ mVars' = SubSeq(mVars, 1, Len(mVars) - popCount)
    /\ mScopes' = SubSeq(mScopes, 1, Len(mScopes) - 1)
    /\ TakeOver([Walking EXCEPT !.at = "scope"])
    /\ NoLabels /\ UNCHANGED <<nodes, mProg>>

\* Mutant of GenIfpred: the scope is generated where the condition belongs.
GenIfpredSwapped ==
    /\ GenAt("pred")
    /\ \/ Kind = "elif" /\ Descend([Walking EXCEPT !.at = "elif.expr"], ExprOf(Kids[2]))
       \/ Kind = "else" /\ TakeOver(ScopeOf(Kids[1]))
    /\ EmitNothing /\ NoLabels /\ ScopesStay

\* genIfpred() up to its first call.
GenIfpred ==
    /\ GenAt("pred")
    /\ \/ Kind = "elif" /\ Descend([Walking EXCEPT !.at = "elif.expr"], ExprOf(Kids[1]))
       \/ Kind = "else" /\ TakeOver(ScopeOf(Kids[1]))
    /\ EmitNothing /\ NoLabels /\ ScopesStay

GenElifTest ==
    /\ GenAt("elif.expr")
    /\ CreateLabels(1)
    /\ EmitCounting(<<Op("pop rax"), Op("test rax, rax"), Jump("jz", sLabelCount)>>, -1)
    /\ Descend([Walking EXCEPT !.at = "elif.scope", !.label = sLabelCount], ScopeOf(Kids[2]))
    /\ ScopesStay

\* Mutant of GenElifEnd: what follows jumps to this label, not behind the if.
GenElifEndPassesLabel ==
    /\ GenAt("elif.scope")
    /\ Emit(<<Jump("jmp", Walking.end), Label(Walking.label)>>)
    /\ \/ Len(Kids) = 3 /\ TakeOver(GenFrame("pred", Kids[3], Walking.label))
       \/ Len(Kids) = 2 /\ Leave
    /\ NoLabels /\ ScopesStay

\* Mutant of GenElifEnd: the last elif needs no label.
GenElifEndSkipsLabel ==
    /\ GenAt("elif.scope")
    /\ \/ /\ Len(Kids) = 3
          /\ Emit(<<Jump("jmp", Walking.end), Label(Walking.label)>>)
          /\ TakeOver(GenFrame("pred", Kids[3], Walking.end))
       \/ Len(Kids) = 2 /\ EmitNothing /\ Leave
    /\ NoLabels /\ ScopesStay

GenElifEnd ==
    /\ GenAt("elif.scope")
    /\ Emit(<<Jump("jmp", Walking.end), Label(Walking.label)>>)
    /\ \/ Len(Kids) = 3 /\ TakeOver(GenFrame("pred", Kids[3], Walking.end))
       \/ Len(Kids) = 2 /\ Leave
    /\ NoLabels /\ ScopesStay

-----------------------------------------------------------------------------

\* genExpression() and genTerm().  Identifiers and literals are not implemented.
GenExpression ==
    /\ GenAt("expr")
    /\ \/ Kind \in {"ident", "intlit"} /\ Leave
       \/ Kind = "paren" /\ TakeOver(ExprOf(Kids[1]))
       \/ Kind \in BinExprKinds /\ Descend([Walking EXCEPT !.at = "bin.right"], ExprOf(Kids[2]))
    /\ EmitNothing /\ NoLabels /\ ScopesStay

GenBinRight ==
    /\ GenAt("bin.right")
    /\ Descend([Walking EXCEPT !.at = "bin.left"], ExprOf(Kids[1]))
    /\ EmitNothing /\ NoLabels /\ ScopesStay

LabelsOf(kind) == CASE kind = "power" -> 3 [] kind \in {"less", "greater"} -> 2 [] OTHER -> 0

Operands == <<Op("pop rax"), Op("pop rbx")>>

\* Mutant of Comparison: no jump over the other result.
ComparisonFallsThrough(jump) ==
    Operands \o <<Op("cmp rax, rbx"), Jump(jump, sLabelCount), Op("mov rax, 0"),
                  Label(sLabelCount), Op("mov rax, 1"), Label(sLabelCount + 1), Op("push rax")>>

Comparison(jump) ==
    Operands \o <<Op("cmp rax, rbx"), Jump(jump, sLabelCount), Op("mov rax, 0"),
                  Jump("jmp", sLabelCount + 1), Label(sLabelCount), Op("mov rax, 1"),
                  Label(sLabelCount + 1), Op("push rax")>>

\* Mutant of Power: the loop begins a line early.
PowerPopsAgain ==
    <<Op("pop rax"), Op("mov rbx, rax"), Label(sLabelCount), Op("pop rcx"), Op("sub rcx, 1"),
      Jump("jc", sLabelCount + 1), Jump("jz", sLabelCount + 2), Op("mul rbx"),
      Jump("jmp", sLabelCount), Label(sLabelCount + 1), Op("mov rax, 1"),
      Label(sLabelCount + 2), Op("push rax")>>

Power ==
    <<Op("pop rax"), Op("mov rbx, rax"), Op("pop rcx"), Label(sLabelCount), Op("sub rcx, 1"),
      Jump("jc", sLabelCount + 1), Jump("jz", sLabelCount + 2), Op("mul rbx"),
      Jump("jmp", sLabelCount), Label(sLabelCount + 1), Op("mov rax, 1"),
      Label(sLabelCount + 2), Op("push rax")>>

OperationCode(kind) ==
    CASE kind = "power"   -> Power
      [] kind = "mod"     -> Operands \o <<Op("div rbx"), Op("push rdx")>>
      [] kind = "mul"     -> Operands \o <<Op("mul rbx"), Op("push rax")>>
      [] kind = "div"     -> Operands \o <<Op("div rbx"), Op("push rax")>>
      [] kind = "plus"    -> Operands \o <<Op("add rax, rbx"), Op("push rax")>>
      [] kind = "minus"   -> Operands \o <<Op("sub rax, rbx"), Op("push rax")>>
      [] kind = "less"    -> Comparison("jl")
      [] kind = "greater" -> Comparison("jg")

\* genBinExpr() behind both operands: two pops and a push.
GenOperation ==
    /\ GenAt("bin.left")
    /\ CreateLabels(LabelsOf(Kind))
    /\ EmitCounting(OperationCode(Kind), -1)
    /\ Leave /\ ScopesStay

-----------------------------------------------------------------------------

GenStatements == GenStatement \/ GenExit \/ GenBlockEnd \/ GenIfTest \/ GenIfEnd
                 \/ GenIfPredEnd \/ GenWhileTest \/ GenWhileEnd
GenScopes     == GenScope \/ GenEndScope
GenIfpreds    == GenIfpred \/ GenElifTest \/ GenElifEnd
GenExpressions == GenExpression \/ GenBinRight \/ GenOperation

GeneratorStep == Generate \/ GenProgram \/ GenStatements \/ GenScopes \/ GenIfpreds
                 \/ GenExpressions

GeneratorStopped == frames = << >> /\ UNCHANGED gvars

GeneratorNext == GeneratorStep \/ GeneratorStopped

GeneratorSpec == GeneratorInit /\ [][GeneratorNext]_gvars

-----------------------------------------------------------------------------
(* What holds of the walk at every moment.                                  *)

Plain == {"_start:", ";; scope", ";; /scope", "mov rax, 60", "pop rdi", "syscall", "pop rax",
          "pop rbx", "pop rcx", "test rax, rax", "mov rbx, rax", "sub rcx, 1", "mul rbx",
          "div rbx", "add rax, rbx", "sub rax, rbx", "cmp rax, rbx", "mov rax, 0",
          "mov rax, 1", "push rax", "push rdx", "add rsp"}

\* The nodes a function may work on when it is at a place.
KindsIn(place) ==
    CASE place = "stmt" -> StmtKinds
      [] place = "exit" -> {"exit"}
      [] place \in {"if.expr", "if.scope", "if.pred"} -> {"if"}
      [] place \in {"while.expr", "while.scope"} -> {"while"}
      [] place \in {"elif.expr", "elif.scope"} -> {"elif"}
      [] place \in {"block", "scope", "scope.stmt"} -> {"scope"}
      [] place = "pred" -> IfPredKinds
      [] place = "expr" -> ExprKinds
      [] place \in {"bin.right", "bin.left"} -> BinExprKinds
      [] OTHER -> {}

GenPlaces == {"generate", "program", "stmt", "exit", "block", "if.expr", "if.scope", "if.pred",
              "while.expr", "while.scope", "scope", "scope.stmt", "pred", "elif.expr",
              "elif.scope", "expr", "bin.right", "bin.left"}

GenFrames == [at : GenPlaces, node : Nat, label : Nat, end : Nat, i : Nat]

\* A function works on a node of the variant it was visited with, and not past
\* the last statement; only generate() has none.
WalkOK(f) ==
    \/ f.at \in {"generate", "program"} /\ f.i <= Len(mProg)
    \/ /\ f.at \notin {"generate", "program"}
       /\ f.node \in DOMAIN nodes
       /\ nodes[f.node].kind \in KindsIn(f.at)
       /\ f.at \in {"scope", "scope.stmt"} => f.i <= Len(nodes[f.node].kids)

\* The types of the variables; each function on the stack works on a node of
\* the variant it was written for (generator.cpp:24-371).
GenTypeOK ==
    /\ nodes \in Seq([kind : AllKinds, token : Nat, kids : Seq(Nat)])
    /\ mProg \in Seq(Nat)
    /\ WellFormedAst
    /\ mOutput \in Seq([op : Plain \cup Jumps \cup {"label"}, label : Nat, node : Nat])
    /\ mStackSize \in 0 .. SizeMax - 1
    /\ mVars = << >>
    /\ mScopes \in Seq({0})
    /\ sLabelCount \in Nat
    /\ frames \in Seq(GenFrames)
    /\ \A n \in DOMAIN frames : WalkOK(frames[n])

\* genScope()'s calls of beginScope() and endScope() nest: as many scopes are
\* begun as statements of scopes are being generated (generator.cpp:140-147),
\* so endScope() finds its own at the back.
ScopesNest == Len(mScopes) = Cardinality({n \in DOMAIN frames : frames[n].at = "scope.stmt"})

-----------------------------------------------------------------------------
(* Labels: "create unique assembly labels" (generator.hpp:68).              *)

Definitions == {k \in DOMAIN mOutput : mOutput[k].op = "label"}
Defined     == {mOutput[k].label : k \in Definitions}
JumpsOut    == {k \in DOMAIN mOutput : mOutput[k].op \in Jumps}

\* Labels that a function has created and has still to write.
Pending(f) ==
    CASE f.at \in {"if.scope", "elif.scope"} -> {f.label}
      [] f.at \in {"if.pred", "while.expr", "while.scope"} -> {f.end}
      [] OTHER -> {}

\* No two lines define one label, of nested or of consecutive statements.
LabelsDefinedOnce == \A j, k \in Definitions : mOutput[j].label = mOutput[k].label => j = k

\* What is written in the end assembles: every jump, to a label of the function
\* that wrote it or to one it was given, goes to a label that some line defines.
JumpsLand == frames = << >> => \A k \in JumpsOut : mOutput[k].label \in Defined

\* Why: what is created is defined, or it is some one running function's to write.
LabelInv ==
    /\ LabelsDefinedOnce
    /\ Defined \subseteq 0 .. sLabelCount - 1
    /\ \A n \in DOMAIN frames :
          /\ Pending(frames[n]) \subseteq (0 .. sLabelCount - 1) \ Defined
          /\ \A m \in DOMAIN frames : m # n => Pending(frames[n]) \cap Pending(frames[m]) = {}
          /\ frames[n].at = "while.scope" \/ frames[n].at = "while.expr" =>
                 frames[n].label \in Defined
          /\ frames[n].at \in {"pred", "elif.expr", "elif.scope"} =>
                 n > 1 /\ frames[n - 1].at = "if.pred" /\ frames[n - 1].end = frames[n].end
    /\ \A k \in JumpsOut :
          \/ mOutput[k].label \in Defined
          \/ \E n \in DOMAIN frames : mOutput[k].label \in Pending(frames[n])
=============================================================================
