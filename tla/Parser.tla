-------------------------------- MODULE Parser -------------------------------
(***************************************************************************)
(* pimento::ast::Parser (src/src/parser.cpp): recursive descent over the   *)
(* tokens, with one index that only grows.  The call stack is a variable:  *)
(* a frame names the place in the code where its function is, holds the    *)
(* nodes its calls have returned, and the value of mIndex at its entry.    *)
(* An action runs from one call or return to the next.                     *)
(*                                                                         *)
(*   parse        parse(), 22                                              *)
(*   stmt         parseStatement(), at the switch                          *)
(*   exit, assign, if.expr, if.scope, if.pred, while.expr, while.scope,    *)
(*   block        its cases, in or behind the call the name says           *)
(*   expr, expr.term          parseExpression(), before and behind 175     *)
(*   scope, scope.loop        parseScope(), before and at the loop         *)
(*   pred, elif.expr, elif.scope, elif.pred, else        parseIfPred()     *)
(*   term, paren              parseTerm(), before and behind the recursion *)
(*                                                                         *)
(* Token types are those parser.cpp tells apart, any other is another      *)
(* string.  exit(EXIT_FAILURE) is the status "failed".                     *)
(***************************************************************************)
EXTENDS Ast

CONSTANT
    TokenLists      \* the token sequences the lexer may deliver

ASSUME TokenAssumption == TokenLists \subseteq Seq(STRING)

VARIABLES
    tokens,         \* mLexer.tokens(), by type
    mIndex,
    calls,          \* the call stack, innermost last
    status,         \* "running", "done" or "failed"
    error           \* which exit(EXIT_FAILURE) was taken

pvars == <<tokens, mIndex, calls, status, error, nodes, mProg>>

NoToken == "none"   \* std::nullopt

\* It is the type of no token.
ASSUME NoTokenAssumption == \A list \in TokenLists : \A k \in DOMAIN list : list[k] # NoToken

-----------------------------------------------------------------------------
(* peek(), tryConsume() and the calls.                                      *)

Top == calls[Len(calls)]
At(place) == status = "running" /\ Top.at = place

\* peek(k - 1), an operator of the tokens that are left.
Ahead(k) == IF mIndex + k <= Len(tokens) THEN tokens[mIndex + k] ELSE NoToken

Frame(place, start) == [at |-> place, kids |-> << >>, start |-> start]

Fail(what) ==
    /\ status' = "failed"
    /\ error' = what
    /\ UNCHANGED <<tokens, calls, nodes, mProg>>

\* tryConsume(type) for each of types in turn.
Matches(types) == \A k \in DOMAIN types : Ahead(k) = types[k]

\* The first that differs ends the process; a token is consumed before it is
\* compared, the end of the tokens is not.
Mismatch(types) ==
    \E k \in DOMAIN types :
        /\ \A j \in 1 .. k - 1 : Ahead(j) = types[j]
        /\ Ahead(k) # types[k]
        /\ mIndex' = IF Ahead(k) = NoToken THEN mIndex + k - 1 ELSE mIndex + k
        /\ Fail(IF Ahead(k) = NoToken THEN "eof" ELSE "mismatch")

\* Mutant of TryConsume: compares the last token and leaves it where it is.
TryConsumeLeavesLast(types, Then) ==
    \/ Matches(types) /\ mIndex' = mIndex + Len(types) - 1 /\ Then
    \/ Mismatch(types)

TryConsume(types, Then) ==
    \/ Matches(types) /\ mIndex' = mIndex + Len(types) /\ Then
    \/ Mismatch(types)

\* The function at the top waits at place for a call of another, which begins
\* where mIndex stands after this step.
Call(place, callee) ==
    /\ calls' = Append([calls EXCEPT ![Len(calls)].at = place], Frame(callee, mIndex'))
    /\ UNCHANGED <<tokens, status, error, nodes, mProg>>

Callers == SubSeq(calls, 1, Len(calls) - 1)

\* The function at the top makes a node and returns it.
Return(node) ==
    /\ nodes' = Append(nodes, node)
    /\ calls' = [Callers EXCEPT ![Len(Callers)].kids = Append(@, Len(nodes) + 1)]
    /\ UNCHANGED <<tokens, status, error, mProg>>

ReturnNothing ==
    /\ calls' = Callers
    /\ UNCHANGED <<tokens, status, error, nodes, mProg>>

-----------------------------------------------------------------------------

ParserInit ==
    /\ tokens \in TokenLists
    /\ mIndex = 0
    /\ calls = <<Frame("parse", 0)>>
    /\ status = "running"
    /\ error = "none"
    /\ nodes = << >>
    /\ mProg = << >>

\* parse(): what parseStatement() returned is pushed, then the loop condition.
ParseLoop ==
    /\ At("parse")
    /\ mProg' = mProg \o Top.kids
    /\ \/ /\ Ahead(1) # NoToken
          /\ calls' = <<Frame("parse", 0), Frame("stmt", mIndex)>>
          /\ UNCHANGED status
       \/ /\ Ahead(1) = NoToken
          /\ calls' = << >>
          /\ status' = "done"
    /\ UNCHANGED <<tokens, mIndex, error, nodes>>

\* parseStatement() up to its first call.
Statement ==
    /\ At("stmt")
    /\ \/ Ahead(1) = "EXIT"   /\ TryConsume(<<"EXIT", "LEFT_PAREN">>, Call("exit", "expr"))
       \/ Ahead(1) = "IDENT"  /\ TryConsume(<<"IDENT">>, Call("assign", "expr"))
       \/ Ahead(1) = "IF"     /\ TryConsume(<<"IF">>, Call("if.expr", "expr"))
       \/ Ahead(1) = "WHILE"  /\ TryConsume(<<"WHILE">>, Call("while.expr", "expr"))
       \/ Ahead(1) = "LEFT_CURLY" /\ UNCHANGED mIndex /\ Call("block", "scope")
       \/ /\ Ahead(1) \notin {"EXIT", "IDENT", "IF", "WHILE", "LEFT_CURLY"}
          /\ UNCHANGED mIndex
          /\ Fail("statement")

ExitEnd ==
    /\ At("exit")
    /\ TryConsume(<<"RIGHT_PAREN", "SEMI">>, Return(StmtExitNode(Top.kids[1])))

\* currentToken is the token the statement began with.
AssignEnd ==
    /\ At("assign")
    /\ TryConsume(<<"SEMI">>, Return(StmtAssignNode(Top.start + 1, Top.kids[1])))

IfScope == At("if.expr") /\ UNCHANGED mIndex /\ Call("if.scope", "scope")

\* Mutant of IfPredicate: an if statement ends with its scope.
IfWithoutPredicate ==
    /\ At("if.scope")
    /\ UNCHANGED mIndex
    /\ Return(StmtIfNode(Top.kids[1], Top.kids[2], << >>))

IfPredicate == At("if.scope") /\ UNCHANGED mIndex /\ Call("if.pred", "pred")

\* Mutant of IfEnd: the optional predicate that was parsed is not passed on.
IfEndDropsPredicate ==
    /\ At("if.pred")
    /\ UNCHANGED mIndex
    /\ Return(StmtIfNode(Top.kids[1], Top.kids[2], << >>))

IfEnd ==
    /\ At("if.pred")
    /\ UNCHANGED mIndex
    /\ Return(StmtIfNode(Top.kids[1], Top.kids[2], SubSeq(Top.kids, 3, Len(Top.kids))))

WhileScope == At("while.expr") /\ UNCHANGED mIndex /\ Call("while.scope", "scope")

WhileEnd ==
    /\ At("while.scope")
    /\ UNCHANGED mIndex
    /\ Return(StmtWhileNode(Top.kids[1], Top.kids[2]))

\* The statement is the scope: parseScope()'s node is wrapped, not copied.
BlockEnd ==
    /\ At("block")
    /\ calls' = [Callers EXCEPT ![Len(Callers)].kids = Append(@, Top.kids[1])]
    /\ UNCHANGED <<tokens, mIndex, status, error, nodes, mProg>>

-----------------------------------------------------------------------------

Expression == At("expr") /\ UNCHANGED mIndex /\ Call("expr.term", "term")

\* Whatever token follows, the expression is the term: every operator's case is
\* commented out.  That one must follow is all the loop asks.  ExprNode wraps.
ExpressionEnd ==
    /\ At("expr.term")
    /\ UNCHANGED mIndex
    /\ \/ /\ Ahead(1) # NoToken
          /\ calls' = [Callers EXCEPT ![Len(Callers)].kids = Append(@, Top.kids[1])]
          /\ UNCHANGED <<tokens, status, error, nodes, mProg>>
       \/ Ahead(1) = NoToken /\ Fail("expression")

Scope == At("scope") /\ TryConsume(<<"LEFT_CURLY">>,
            /\ calls' = [calls EXCEPT ![Len(calls)].at = "scope.loop"]
            /\ UNCHANGED <<tokens, status, error, nodes, mProg>>)

\* Mutant of ScopeLoop: only a '}' ends the loop, and a missing token starts it over.
ScopeLoopWaits ==
    /\ At("scope.loop")
    /\ \/ /\ Ahead(1) \notin {NoToken, "RIGHT_CURLY"}
          /\ UNCHANGED mIndex
          /\ Call("scope.loop", "stmt")
       \/ /\ Ahead(1) = "RIGHT_CURLY"
          /\ TryConsume(<<"RIGHT_CURLY">>, Return(ScopeNode(Top.kids)))
       \/ Ahead(1) = NoToken /\ UNCHANGED pvars

ScopeLoop ==
    /\ At("scope.loop")
    /\ \/ /\ Ahead(1) \notin {NoToken, "RIGHT_CURLY"}
          /\ UNCHANGED mIndex
          /\ Call("scope.loop", "stmt")
       \/ /\ Ahead(1) \in {NoToken, "RIGHT_CURLY"}
          /\ TryConsume(<<"RIGHT_CURLY">>, Return(ScopeNode(Top.kids)))

\* parseIfPred() up to its first call, or back with nothing.
IfPred ==
    /\ At("pred")
    /\ \/ Ahead(1) = "ELIF" /\ TryConsume(<<"ELIF">>, Call("elif.expr", "expr"))
       \/ Ahead(1) = "ELSE" /\ TryConsume(<<"ELSE">>, Call("else", "scope"))
       \/ Ahead(1) \notin {"ELIF", "ELSE"} /\ UNCHANGED mIndex /\ ReturnNothing

ElifScope == At("elif.expr") /\ UNCHANGED mIndex /\ Call("elif.scope", "scope")

ElifPredicate == At("elif.scope") /\ UNCHANGED mIndex /\ Call("elif.pred", "pred")

ElifEnd ==
    /\ At("elif.pred")
    /\ UNCHANGED mIndex
    /\ Return(IfPredElifNode(Top.kids[1], Top.kids[2], SubSeq(Top.kids, 3, Len(Top.kids))))

ElseEnd == At("else") /\ UNCHANGED mIndex /\ Return(IfPredElseNode(Top.kids[1]))

\* Mutant of Term: advances whether or not there is a token.
TermAdvances ==
    /\ At("term")
    /\ mIndex' = mIndex + 1
    /\ \/ Ahead(1) = "IDENT" /\ Return(TermIdentNode(mIndex + 1))
       \/ Ahead(1) = "LEFT_PAREN" /\ Call("paren", "expr")
       \/ Ahead(1) \notin {"IDENT", "LEFT_PAREN"} /\ Fail("term")

\* parseTerm(): the token is consumed before it is looked at.
Term ==
    /\ At("term")
    /\ mIndex' = IF Ahead(1) = NoToken THEN mIndex ELSE mIndex + 1
    /\ \/ Ahead(1) = "IDENT" /\ Return(TermIdentNode(mIndex + 1))
       \/ Ahead(1) = "LEFT_PAREN" /\ Call("paren", "expr")
       \/ Ahead(1) \notin {"IDENT", "LEFT_PAREN"} /\ Fail("term")

ParenEnd ==
    /\ At("paren")
    /\ TryConsume(<<"RIGHT_PAREN">>, Return(TermExprNode(Top.kids[1])))

-----------------------------------------------------------------------------

ParseStatement == Statement \/ ExitEnd \/ AssignEnd \/ IfScope \/ IfPredicate \/ IfEnd
                  \/ WhileScope \/ WhileEnd \/ BlockEnd
ParseExpression == Expression \/ ExpressionEnd
ParseScope      == Scope \/ ScopeLoop
ParseIfPred     == IfPred \/ ElifScope \/ ElifPredicate \/ ElifEnd \/ ElseEnd
ParseTerm       == Term \/ ParenEnd

ParserStep == ParseLoop \/ ParseStatement \/ ParseExpression \/ ParseScope
              \/ ParseIfPred \/ ParseTerm

ParserStopped == status # "running" /\ UNCHANGED pvars

ParserNext == ParserStep \/ ParserStopped

ParserSpec == ParserInit /\ [][ParserNext]_pvars

-----------------------------------------------------------------------------
(* What the call stack is at every moment.                                  *)

Entries == {"stmt", "expr", "scope", "pred", "term"}

StmtPlaces == {"stmt", "exit", "assign", "if.expr", "if.scope", "if.pred",
               "while.expr", "while.scope", "block"}
PredPlaces == {"pred", "elif.expr", "elif.scope", "elif.pred", "else"}
Places == {"parse", "expr", "expr.term", "scope", "scope.loop", "term", "paren"}
          \cup StmtPlaces \cup PredPlaces

\* The function a place belongs to, and the one that is called there.
Function(place) ==
    CASE place = "parse" -> "parse"
      [] place \in StmtPlaces -> "stmt"
      [] place \in PredPlaces -> "pred"
      [] place \in {"expr", "expr.term"} -> "expr"
      [] place \in {"scope", "scope.loop"} -> "scope"
      [] OTHER -> "term"

Callee(place) ==
    CASE place \in {"parse", "scope.loop"} -> "stmt"
      [] place \in {"exit", "assign", "if.expr", "while.expr", "elif.expr", "paren"} -> "expr"
      [] place \in {"if.scope", "while.scope", "block", "elif.scope", "else"} -> "scope"
      [] place \in {"if.pred", "elif.pred"} -> "pred"
      [] place = "expr.term" -> "term"
      [] OTHER -> NoToken

Returns(function) ==
    CASE function = "stmt" -> StmtKinds
      [] function = "expr" -> TermKinds
      [] function = "scope" -> {"scope"}
      [] function = "pred" -> IfPredKinds
      [] function = "term" -> TermKinds
      [] OTHER -> {}

\* The nodes a frame holds: how many while it waits for the call, how many when
\* it goes on, and of which kinds.
Held(place) ==
    CASE place \in {"if.scope", "while.scope", "elif.scope"} -> 1
      [] place \in {"if.pred", "elif.pred"} -> 2
      [] OTHER -> 0

Complete(place) ==
    CASE place \in Entries -> {0}
      [] place \in {"parse", "if.pred", "elif.pred"} -> {Held(place), Held(place) + 1}
      [] OTHER -> {Held(place) + 1}

KindsAt(place, j) ==
    IF place \in {"if.scope", "while.scope", "elif.scope", "if.pred", "elif.pred"} /\ j < 3
    THEN IF j = 1 THEN TermKinds ELSE {"scope"}
    ELSE Returns(Callee(place))

\* Tokens the function has taken at least when it is at this place.
Taken(place) == IF place \in Entries \cup {"parse", "block", "expr.term"} THEN 0 ELSE 1

\* Depth that a function adds before it takes a token.
Slack(function) ==
    CASE function \in {"stmt", "term"} -> 2
      [] function = "scope" -> 3
      [] OTHER -> 1

Frames == [at : Places, kids : Seq(Nat), start : Nat]

FrameOK(i) ==
    /\ \A j \in DOMAIN calls[i].kids :
          /\ calls[i].kids[j] \in DOMAIN nodes
          /\ nodes[calls[i].kids[j]].kind \in KindsAt(calls[i].at, j)
    /\ calls[i].at # "scope.loop" =>
           Len(calls[i].kids) \in IF i < Len(calls) THEN {Held(calls[i].at)}
                                  ELSE Complete(calls[i].at)
    /\ i < Len(calls) => calls[i + 1].at \in Places /\ Function(calls[i + 1].at) = Callee(calls[i].at)
    /\ calls[i].start + Taken(calls[i].at) <= IF i < Len(calls) THEN calls[i + 1].start ELSE mIndex
    /\ i <= 2 * calls[i].start + Slack(Function(calls[i].at))
    /\ calls[i].at = "parse" <=> i = 1

\* The types of the variables and of the heap.  Each suspended function waits
\* for a call of the function above it and holds the nodes its earlier calls
\* returned, of the kinds its constructor takes (parser.cpp:78-491).
ParserTypeOK ==
    /\ tokens \in Seq(STRING)
    /\ mIndex \in 0 .. Len(tokens)
    /\ status \in {"running", "done", "failed"}
    /\ calls \in Seq(Frames)
    /\ calls # << >> <=> status # "done"
    /\ \A i \in DOMAIN calls : FrameOK(i)
    /\ nodes \in Seq([kind : AllKinds, token : Nat, kids : Seq(Nat)])
    /\ mProg \in Seq(Nat)
    /\ WellFormedAst

\* No rule calls itself before it has taken a token: the call stack, which
\* nothing in the code limits (parser.cpp:402, 481), holds at most two frames
\* for each token consumed, and three.
DepthBounded == Len(calls) <= 2 * mIndex + 3
=============================================================================
