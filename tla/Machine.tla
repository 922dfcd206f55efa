------------------------------- MODULE Machine -------------------------------
(***************************************************************************)
(* The program that Generator has written, run: the x86-64 instructions of *)
(* generator.cpp on words of Width bits, and beside it the tree, executed  *)
(* by its structure.  Nothing under src/ runs the output; the processor is *)
(* modelled as far as those instructions ask for it.                       *)
(*                                                                         *)
(* Identifiers and literals generate nothing, so an instruction pops what  *)
(* the program never pushed.  Any value may lie there; the first MaxInputs *)
(* of them are recorded.                                                   *)
(***************************************************************************)
EXTENDS Generator, TLC

CONSTANTS
    Width,
    MaxInputs       \* bound of the record

VARIABLES
    pc,
    reg,            \* rax, rbx, rcx, rdx and rdi
    flag,           \* of test, cmp and sub: what jz, jc, jl and jg look at
    stack,          \* what the program has pushed and not popped, top last
    inputs,         \* what it popped and had not pushed
    outcome,        \* "running", "exited", "fault" or "off the end"
    todo            \* the nodes the tree's execution has before it

mvars == <<pc, reg, flag, stack, inputs, outcome, todo>>

WordCount == 2 ^ Width
Words == 0 .. WordCount - 1

\* Two's complement.
Signed(w) == IF w >= WordCount \div 2 THEN w - WordCount ELSE w

-----------------------------------------------------------------------------
(* The tree, executed by its structure.                                     *)

\* The statements before the next condition or exit.  Assignments do nothing.
RECURSIVE Pursue(_)
Pursue(list) ==
    IF list = << >> THEN << >>
    ELSE LET first == nodes[Head(list)]
         IN  CASE first.kind \in {"let", "assign"} -> Pursue(Tail(list))
               [] first.kind = "scope" -> Pursue(first.kids \o Tail(list))
               [] first.kind = "else"  -> Pursue(first.kids \o Tail(list))
               [] OTHER -> list

\* A condition has been found true or false.
Decide(list, holds) ==
    LET first == nodes[Head(list)]
    IN  Pursue((CASE first.kind = "while" /\ holds -> <<first.kids[2], Head(list)>>
                  [] first.kind \in {"if", "elif"} /\ holds -> <<first.kids[2]>>
                  [] first.kind \in {"if", "elif"} /\ ~holds /\ Len(first.kids) = 3 ->
                         <<first.kids[3]>>
                  [] OTHER -> << >>) \o Tail(list))

-----------------------------------------------------------------------------

Now == mOutput[pc]
Running(op) == outcome = "running" /\ pc <= Len(mOutput) /\ Now.op = op

Place(label) == CHOOSE k \in Definitions : mOutput[k].label = label

Follow == pc' = pc + 1 /\ UNCHANGED outcome
Jumping(holds) == pc' = (IF holds THEN Place(Now.label) ELSE pc + 1)

Set(changed) == reg' = changed @@ reg
Flags(zero, carry, less, greater) ==
    flag' = [zero |-> zero, carry |-> carry, less |-> less, greater |-> greater]

Pop(op, name) ==
    /\ Running(op)
    /\ \/ /\ stack # << >>
          /\ Set(name :> stack[Len(stack)])
          /\ stack' = SubSeq(stack, 1, Len(stack) - 1)
          /\ UNCHANGED inputs
       \/ /\ stack = << >>
          /\ \E w \in Words :
                /\ Set(name :> w)
                /\ inputs' = IF Len(inputs) < MaxInputs THEN Append(inputs, w) ELSE inputs
          /\ UNCHANGED stack
    /\ Follow
    /\ UNCHANGED <<flag, todo>>

Push(op, name) ==
    /\ Running(op)
    /\ stack' = Append(stack, reg[name])
    /\ Follow
    /\ UNCHANGED <<reg, flag, inputs, todo>>

\* mov, add, sub of registers and mul: what they leave in the registers.
Compute(op, changed) ==
    /\ Running(op)
    /\ Set(changed)
    /\ Follow
    /\ UNCHANGED <<flag, stack, inputs, todo>>

\* rdx and rax are divided; a quotient that is no word is an exception.
Divide ==
    LET dividend == reg["rdx"] * WordCount + reg["rax"]
        divides  == reg["rbx"] # 0 /\ dividend \div reg["rbx"] < WordCount
    IN  /\ Running("div rbx")
        /\ \/ /\ divides
              /\ Set("rax" :> dividend \div reg["rbx"] @@ "rdx" :> dividend % reg["rbx"])
              /\ Follow
           \/ ~divides /\ outcome' = "fault" /\ UNCHANGED <<pc, reg>>
        /\ UNCHANGED <<flag, stack, inputs, todo>>

Calculate ==
    \/ Compute("mov rax, 60", "rax" :> 60 % WordCount)
    \/ Compute("mov rbx, rax", "rbx" :> reg["rax"])
    \/ Compute("mov rax, 0", "rax" :> 0)
    \/ Compute("mov rax, 1", "rax" :> 1)
    \/ Compute("add rax, rbx", "rax" :> (reg["rax"] + reg["rbx"]) % WordCount)
    \/ Compute("sub rax, rbx", "rax" :> (reg["rax"] - reg["rbx"]) % WordCount)
    \/ Compute("mul rbx", "rax" :> (reg["rax"] * reg["rbx"]) % WordCount
                          @@ "rdx" :> (reg["rax"] * reg["rbx"]) \div WordCount)
    \/ Divide

\* sub rcx, 1 borrows of zero; cmp compares with sign.
CountDown ==
    /\ Running("sub rcx, 1")
    /\ Set("rcx" :> (reg["rcx"] - 1) % WordCount)
    /\ Flags(reg["rcx"] = 1, reg["rcx"] = 0, FALSE, FALSE)
    /\ Follow
    /\ UNCHANGED <<stack, inputs, todo>>

Compare ==
    /\ Running("cmp rax, rbx")
    /\ Flags(reg["rax"] = reg["rbx"], reg["rax"] < reg["rbx"],
             Signed(reg["rax"]) < Signed(reg["rbx"]), Signed(reg["rax"]) > Signed(reg["rbx"]))
    /\ Follow
    /\ UNCHANGED <<reg, stack, inputs, todo>>

\* The conditions of if, elif and while; the tree takes the same turn.
Test ==
    /\ Running("test rax, rax")
    /\ Flags(reg["rax"] = 0, FALSE, FALSE, FALSE)
    /\ todo' = IF todo = << >> THEN << >> ELSE Decide(todo, reg["rax"] # 0)
    /\ Follow
    /\ UNCHANGED <<reg, stack, inputs>>

Branch ==
    /\ \/ Running("jmp") /\ Jumping(TRUE)
       \/ Running("jz") /\ Jumping(flag.zero)
       \/ Running("jc") /\ Jumping(flag.carry)
       \/ Running("jl") /\ Jumping(flag.less)
       \/ Running("jg") /\ Jumping(flag.greater)
    /\ UNCHANGED <<reg, flag, stack, inputs, outcome, todo>>

PassOver ==
    /\ \E op \in {"_start:", ";; scope", ";; /scope", "label"} : Running(op)
    /\ Follow
    /\ UNCHANGED <<reg, flag, stack, inputs, todo>>

\* System call 60 is exit.
Syscall ==
    /\ Running("syscall")
    /\ outcome' = "exited"
    /\ UNCHANGED <<pc, reg, flag, stack, inputs, todo>>

OffTheEnd ==
    /\ outcome = "running" /\ pc = Len(mOutput) + 1
    /\ outcome' = "off the end"
    /\ UNCHANGED <<pc, reg, flag, stack, inputs, todo>>

Execute == \/ Pop("pop rax", "rax") \/ Pop("pop rbx", "rbx")
           \/ Pop("pop rcx", "rcx") \/ Pop("pop rdi", "rdi")
           \/ Push("push rax", "rax") \/ Push("push rdx", "rdx")
           \/ Calculate \/ CountDown \/ Compare \/ Test \/ Branch \/ PassOver
           \/ Syscall \/ OffTheEnd

-----------------------------------------------------------------------------

MachineInit ==
    /\ GeneratorInit
    /\ pc = 1
    /\ reg = [r \in {"rax", "rbx", "rcx", "rdx", "rdi"} |-> 0]
    /\ flag = [zero |-> FALSE, carry |-> FALSE, less |-> FALSE, greater |-> FALSE]
    /\ stack = << >>
    /\ inputs = << >>
    /\ outcome = "running"
    /\ todo = Pursue(mProg)

WriteProgram == GeneratorStep /\ UNCHANGED mvars

\* The program runs when it is complete.
RunProgram == frames = << >> /\ Execute /\ UNCHANGED gvars

MachineNext ==
    \/ WriteProgram
    \/ RunProgram
    \/ frames = << >> /\ outcome # "running" /\ UNCHANGED <<gvars, mvars>>

MachineSpec == MachineInit /\ [][MachineNext]_<<gvars, mvars>>

\* The compiler and the processor go on; a condition owes nobody a value.
FairMachineSpec == MachineSpec /\ WF_<<gvars, mvars>>(WriteProgram \/ RunProgram)

-----------------------------------------------------------------------------

\* Whatever the conditions are found to be, the program comes to the conditions
\* and to the exits that the tree's structure leads to, in its order, and runs
\* off its end when the tree has nothing left (generator.cpp:64-192).
ControlMatchesTree ==
    frames = << >> =>
        /\ (Running("test rax, rax") \/ Running("syscall")) =>
               todo # << >> /\ Head(todo) = Now.node
        /\ outcome = "off the end" => todo = << >>

-----------------------------------------------------------------------------
(* What an operation is to compute, of words: signed where they are compared. *)

Meaning(kind, left, right) ==
    CASE kind = "plus"    -> (left + right) % WordCount
      [] kind = "minus"   -> (left - right) % WordCount
      [] kind = "mul"     -> (left * right) % WordCount
      [] kind = "power"   -> IF right = 0 THEN 1 % WordCount ELSE (left ^ right) % WordCount
      [] kind = "div"     -> left \div right
      [] kind = "mod"     -> left % right
      [] kind = "less"    -> IF Signed(left) < Signed(right) THEN 1 ELSE 0
      [] kind = "greater" -> IF Signed(left) > Signed(right) THEN 1 ELSE 0

\* The kinds of a chain of operations, the innermost first: the right operand of
\* each and the left one of the first are not operations.
RECURSIVE Chain(_)
Chain(node) ==
    IF nodes[node].kind \in BinExprKinds
    THEN Append(Chain(nodes[node].kids[1]), nodes[node].kind)
    ELSE << >>

RECURSIVE Total(_)
Total(kinds) ==
    IF kinds = << >> THEN inputs[1]
    ELSE LET last == Len(kinds)
         IN  Meaning(kinds[last], Total(SubSeq(kinds, 1, last - 1)), inputs[last + 1])

ExitChain == Chain(nodes[mProg[1]].kids[1])

\* A program that exits with a chain of operations exits with its value, of
\* whatever operands, and faults when it divides by zero (generator.cpp:236-371).
ChainComputed ==
    /\ outcome = "exited" => reg["rdi"] = Total(ExitChain)
    /\ outcome = "fault" => \E k \in DOMAIN ExitChain :
           ExitChain[k] \in {"div", "mod"} /\ inputs[k + 1] = 0

\* With a division at most as the first operation, while rdx is still zero.
ExitsWithValue ==
    /\ nodes[mProg[1]].kind = "exit"
    /\ \A k \in DOMAIN ExitChain : k > 1 => ExitChain[k] \notin {"div", "mod"}
    => ChainComputed

\* "The Binary Expression Division AST node" (ast.hpp:127) divides, behind another
\* operation too.  It divides rdx with rax, and nothing clears rdx.
DivisionDivides == ChainComputed

\* A program without while comes to an end, also through power's loop.
ProgramEnds ==
    (\A n \in DOMAIN nodes : nodes[n].kind # "while") ~> outcome # "running"
=============================================================================
