------------------------------- MODULE TreeSets ------------------------------
(***************************************************************************)
(* Trees for the runs of Generator and Machine, written as nested records  *)
(* and laid out as a heap the way the parser lays them out: children       *)
(* first.                                                                  *)
(***************************************************************************)
EXTENDS Naturals, Sequences, SequencesExt

Tree(kind, kids) == [kind |-> kind, kids |-> kids]

RECURSIVE LayOut(_, _)
LayOut(trees, heap) ==
    IF trees = << >> THEN [heap |-> heap, roots |-> << >>]
    ELSE LET kids == LayOut(Head(trees).kids, heap)
             node == [kind |-> Head(trees).kind, token |-> 0, kids |-> kids.roots]
             rest == LayOut(Tail(trees), Append(kids.heap, node))
         IN  [heap |-> rest.heap, roots |-> <<Len(kids.heap) + 1>> \o rest.roots]

Program(trees) ==
    LET all == LayOut(trees, << >>) IN [nodes |-> all.heap, prog |-> all.roots]

Ident  == Tree("ident", << >>)
Exit   == Tree("exit", <<Ident>>)
Assign == Tree("assign", <<Tree("paren", <<Ident>>)>>)
Block(statements) == Tree("scope", statements)
While(expression, scope) == Tree("while", <<expression, scope>>)
If(expression, scope, ifpred)   == Tree("if", <<expression, scope>> \o ifpred)
Elif(expression, scope, ifpred) == Tree("elif", <<expression, scope>> \o ifpred)
Else(scope) == Tree("else", <<scope>>)
Operation(kind, left, right) == Tree(kind, <<left, right>>)

Bodies == {Block(<< >>), Block(<<Exit>>)}

\* What may follow an if's scope, of up to two elif.
Elses == {<< >>} \cup {<<Else(b)>> : b \in Bodies}
OneElif  == {<<Elif(Ident, b, e)>> : b \in Bodies, e \in Elses}
TwoElifs == {<<Elif(Ident, b, e)>> : b \in Bodies, e \in OneElif}

Flat == {Exit, Assign} \cup Bodies \cup {While(Ident, b) : b \in Bodies}
        \cup {If(Ident, b, p) : b \in Bodies, p \in Elses \cup OneElif \cup TwoElifs}

\* One statement in another, in each of the places a scope has.
Holding(s) ==
    LET scope == Block(<<s, Assign>>)
    IN  {scope, While(Ident, scope), If(Ident, scope, << >>), If(Ident, scope, <<Else(Block(<<Exit>>))>>),
         If(Ident, Block(<< >>), <<Else(scope)>>), If(Ident, Block(<< >>), <<Elif(Ident, scope, << >>)>>),
         If(Ident, Block(<< >>), <<Elif(Ident, scope, <<Else(Block(<< >>))>>)>>)}
Nested == UNION {Holding(s) : s \in Flat}

\* Conditions that generate labels themselves.
Compared == {If(Operation(k, Ident, Ident), Block(<<Exit>>), p) :
                k \in {"less", "greater", "power"}, p \in Elses}
            \cup {While(Operation("less", Ident, Operation("greater", Ident, Ident)), Block(<<Exit>>))}

Twice == {If(Ident, Block(<<Exit>>), <<Else(Block(<< >>))>>), While(Ident, Block(<<Assign>>))}

\* Chains of two operations: the second works on the result of the first.
Chained(firsts, seconds) ==
    {Tree("exit", <<Operation(k, Operation(j, Ident, Ident), Ident)>>) : j \in firsts, k \in seconds}


\* The programs that have conditions: alone, and followed by others.
ControlTrees ==
    {Program(<<s>>) : s \in Flat \cup Nested \cup Compared}
    \cup {Program(<<s, t, Exit>>) : s \in Flat \cup Compared, t \in Twice}
=============================================================================
