-------------------------------- MODULE Grammar ------------------------------
(***************************************************************************)
(* The context-free grammar of programs over token types, as membership of *)
(* a sequence in a language, with no parser in it: the grammar of the      *)
(* README's section "Parser Grammar" as far as parser.cpp has a case for   *)
(* it: "let", literals and operators have none.                            *)
(***************************************************************************)
EXTENDS Naturals, Sequences

Inner(s) == SubSeq(s, 2, Len(s) - 1)
Drop(s, n) == SubSeq(s, n + 1, Len(s))
Between(s, i, j) == SubSeq(s, i + 1, j)

Bracketed(s, left, right) == Len(s) >= 2 /\ s[1] = left /\ s[Len(s)] = right

RECURSIVE IsExpr(_), IsStmts(_), IsStmt(_), IsIfPred(_)

IsExpr(s) ==
    \/ s = <<"IDENT">>
    \/ Bracketed(s, "LEFT_PAREN", "RIGHT_PAREN") /\ IsExpr(Inner(s))

IsScope(s) == Bracketed(s, "LEFT_CURLY", "RIGHT_CURLY") /\ IsStmts(Inner(s))

IsIfPred(s) ==
    \/ s = << >>
    \/ s[1] = "ELSE" /\ IsScope(Tail(s))
    \/ /\ s[1] = "ELIF"
       /\ \E i, j \in 2 .. Len(s) :
             /\ i < j
             /\ IsExpr(Between(s, 1, i))
             /\ IsScope(Between(s, i, j))
             /\ IsIfPred(Drop(s, j))

IsStmt(s) ==
    \/ IsScope(s)
    \/ /\ Len(s) > 4
       /\ SubSeq(s, 1, 2) = <<"EXIT", "LEFT_PAREN">>
       /\ Drop(s, Len(s) - 2) = <<"RIGHT_PAREN", "SEMI">>
       /\ IsExpr(Between(s, 2, Len(s) - 2))
    \/ /\ Len(s) > 3
       /\ SubSeq(s, 1, 2) = <<"IDENT", "EQUAL">> /\ s[Len(s)] = "SEMI"
       /\ IsExpr(Between(s, 2, Len(s) - 1))
    \/ /\ Len(s) > 3
       /\ s[1] \in {"IF", "WHILE"}
       /\ \E i, j \in 2 .. Len(s) :
             /\ i < j
             /\ IsExpr(Between(s, 1, i))
             /\ IsScope(Between(s, i, j))
             /\ IF s[1] = "WHILE" THEN j = Len(s) ELSE IsIfPred(Drop(s, j))

IsStmts(s) ==
    s = << >> \/ \E i \in 1 .. Len(s) : IsStmt(SubSeq(s, 1, i)) /\ IsStmts(Drop(s, i))

IsProgram(s) == IsStmts(s)
=============================================================================
