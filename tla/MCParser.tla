------------------------------- MODULE MCParser ------------------------------
(***************************************************************************)
(* Instances of Parser.  The parser reads its tokens from the left and one *)
(* ahead, so its behaviours are those over the prefixes of programs with   *)
(* one arbitrary token behind: these are the inputs, for all programs to a *)
(* length, with all short sequences whatever they are.                     *)
(***************************************************************************)
EXTENDS Language

CONSTANTS
    MaxLength,      \* bound: tokens of a program
    MaxAny          \* bound: tokens of an arbitrary sequence

Types == {"EXIT", "IDENT", "IF", "WHILE", "ELIF", "ELSE", "LEFT_CURLY", "RIGHT_CURLY",
          "LEFT_PAREN", "RIGHT_PAREN", "SEMI", "EQUAL"}

\* The programs of each length, bottom-up: a level has the sentences of one
\* length for each symbol, made from the shorter ones.
Of(levels, n, symbol) == IF n \in DOMAIN levels THEN levels[n][symbol] ELSE {}

Level(levels) ==
    LET n == Len(levels) + 1
        L(k, symbol) == Of(levels, k, symbol)
        StmtsOf(k) == IF k = 0 THEN {<< >>} ELSE L(k, "stmts")
        PredOf(k)  == IF k = 0 THEN {<< >>} ELSE L(k, "pred")
        expr  == IF n = 1 THEN {<<"IDENT">>}
                 ELSE {<<"LEFT_PAREN">> \o e \o <<"RIGHT_PAREN">> : e \in L(n - 2, "expr")}
        scope == IF n = 1 THEN {}
                 ELSE {<<"LEFT_CURLY">> \o s \o <<"RIGHT_CURLY">> : s \in StmtsOf(n - 2)}
        Branches(first, preds) ==
            UNION {{<<first>> \o e \o s \o p : e \in L(i, "expr"), s \in L(j, "scope"),
                        p \in IF preds THEN PredOf(n - 1 - i - j)
                              ELSE IF n = 1 + i + j THEN {<< >>} ELSE {}}
                   : i \in 1 .. n - 1, j \in 1 .. n - 1}
        stmt  == scope
                 \cup {<<"EXIT", "LEFT_PAREN">> \o e \o <<"RIGHT_PAREN", "SEMI">> : e \in L(n - 4, "expr")}
                 \cup {<<"IDENT">> \o e \o <<"SEMI">> : e \in L(n - 2, "expr")}
                 \cup Branches("IF", TRUE) \cup Branches("WHILE", FALSE)
        pred  == {<<"ELSE">> \o s : s \in L(n - 1, "scope")} \cup Branches("ELIF", TRUE)
        stmts == stmt \cup UNION {{s \o t : s \in L(k, "stmt"), t \in L(n - k, "stmts")} : k \in 1 .. n - 1}
    IN  [expr |-> expr, scope |-> scope, stmt |-> stmt, pred |-> pred, stmts |-> stmts]

Levels == FoldLeft(LAMBDA levels, i : Append(levels, Level(levels)), << >>, [i \in 1 .. MaxLength |-> i])

Programs == {<< >>} \cup UNION {Levels[n].stmts : n \in 1 .. MaxLength}

\* With the '=' that the README has in an assignment.
Documented == {WithEquals(p) : p \in Programs}

MCTokenLists ==
    Programs \cup Documented \cup {Append(p, t) : p \in UNION {Prefixes(q) : q \in Programs}, t \in Types} \cup BoundedSeq(Types, MaxAny)
=============================================================================
