--------------------------------- MODULE Ast ---------------------------------
(***************************************************************************)
(* The abstract syntax tree (src/include/pimento/ast.hpp).  The nodes that *)
(* std::make_shared has made lie in a heap, and a shared_ptr is an index   *)
(* into it.  The wrappers StmtNode, ExprNode, TermNode, BinExprNode and    *)
(* IfPredNode add nothing to the node they hold: they are the kinds that   *)
(* may stand in a place, below.  A token is an index into the tokens.      *)
(***************************************************************************)
EXTENDS Naturals, Sequences

VARIABLES
    nodes,      \* the heap
    mProg       \* ProgNode::statements, the root

TermKinds    == {"ident", "intlit", "paren"}
BinExprKinds == {"less", "greater", "minus", "plus", "div", "mul", "mod", "power"}
ExprKinds    == TermKinds \cup BinExprKinds
IfPredKinds  == {"elif", "else"}
StmtKinds    == {"exit", "let", "assign", "scope", "if", "while"}

Node(kind, token, kids) == [kind |-> kind, token |-> token, kids |-> kids]

TermIdentNode(token)           == Node("ident", token, << >>)
TermExprNode(expression)       == Node("paren", 0, <<expression>>)
BinExprNode(kind, left, right) == Node(kind, 0, <<left, right>>)
StmtExitNode(expression)       == Node("exit", 0, <<expression>>)
StmtAssignNode(token, expression) == Node("assign", token, <<expression>>)
StmtWhileNode(expression, scope)  == Node("while", 0, <<expression, scope>>)
ScopeNode(statements)             == Node("scope", 0, statements)
IfPredElseNode(scope)             == Node("else", 0, <<scope>>)

\* ifpred is the empty sequence (std::nullopt) or holds one node.
StmtIfNode(expression, scope, ifpred)     == Node("if", 0, <<expression, scope>> \o ifpred)
IfPredElifNode(expression, scope, ifpred) == Node("elif", 0, <<expression, scope>> \o ifpred)

\* The kinds the i-th child of a node of this kind may have, and their number.
KidKinds(kind, i) ==
    CASE kind \in {"exit", "let", "assign", "paren"} \cup BinExprKinds -> ExprKinds
      [] kind = "scope"  -> StmtKinds
      [] kind = "else"   -> {"scope"}
      [] kind \in {"if", "elif", "while"} ->
             CASE i = 1 -> ExprKinds [] i = 2 -> {"scope"} [] OTHER -> IfPredKinds
      [] OTHER -> {}

KidCounts(kind) ==
    CASE kind \in {"exit", "let", "assign", "paren", "else"} -> {1}
      [] kind \in BinExprKinds \cup {"while"} -> {2}
      [] kind \in {"if", "elif"} -> {2, 3}
      [] kind = "scope" -> Nat
      [] OTHER -> {0}

AllKinds == ExprKinds \cup IfPredKinds \cup StmtKinds

-----------------------------------------------------------------------------

\* The heap is a forest that ast.hpp's types admit: a node's children were made
\* before it and are of the kinds its constructor takes.
WellFormedNode(n) ==
    /\ nodes[n].kind \in AllKinds
    /\ nodes[n].token \in Nat
    /\ nodes[n].kids \in Seq(Nat)
    /\ Len(nodes[n].kids) \in KidCounts(nodes[n].kind)
    /\ \A i \in DOMAIN nodes[n].kids :
          /\ nodes[n].kids[i] \in 1 .. n - 1
          /\ nodes[nodes[n].kids[i]].kind \in KidKinds(nodes[n].kind, i)

WellFormedAst ==
    /\ \A n \in DOMAIN nodes : WellFormedNode(n)
    /\ \A i \in DOMAIN mProg :
          /\ mProg[i] \in DOMAIN nodes
          /\ nodes[mProg[i]].kind \in StmtKinds
=============================================================================
