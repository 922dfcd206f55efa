----------------------------- MODULE ParserChecks ----------------------------
(***************************************************************************)
(* The properties of the parser that compare its state with the tokens.    *)
(***************************************************************************)
EXTENDS Parser, SequencesExt

\* The tokens that a frame's own function has consumed before the nodes it holds.
Terminals(place) ==
    CASE place = "exit" -> <<"EXIT", "LEFT_PAREN">>
      [] place = "assign" -> <<"IDENT">>
      [] place \in {"if.expr", "if.scope", "if.pred"} -> <<"IF">>
      [] place \in {"while.expr", "while.scope"} -> <<"WHILE">>
      [] place = "scope.loop" -> <<"LEFT_CURLY">>
      [] place \in {"elif.expr", "elif.scope", "elif.pred"} -> <<"ELIF">>
      [] place = "else" -> <<"ELSE">>
      [] place = "paren" -> <<"LEFT_PAREN">>
      [] OTHER -> << >>

\* The token types a node was made from, with those of its children.  The parser
\* makes no others.
Spelling(kind, kids) ==
    CASE kind = "ident"  -> <<"IDENT">>
      [] kind = "paren"  -> <<"LEFT_PAREN">> \o kids \o <<"RIGHT_PAREN">>
      [] kind = "exit"   -> <<"EXIT", "LEFT_PAREN">> \o kids \o <<"RIGHT_PAREN", "SEMI">>
      [] kind = "assign" -> <<"IDENT">> \o kids \o <<"SEMI">>
      [] kind = "if"     -> <<"IF">> \o kids
      [] kind = "while"  -> <<"WHILE">> \o kids
      [] kind = "elif"   -> <<"ELIF">> \o kids
      [] kind = "else"   -> <<"ELSE">> \o kids
      [] kind = "scope"  -> <<"LEFT_CURLY">> \o kids \o <<"RIGHT_CURLY">>
      [] OTHER -> kids

\* Those of a tree, read off the tree, and of several.
Yield[n \in DOMAIN nodes] ==
    Spelling(nodes[n].kind,
             FlattenSeq([i \in DOMAIN nodes[n].kids |-> Yield[nodes[n].kids[i]]]))

YieldOf(ids) == FlattenSeq([i \in DOMAIN ids |-> Yield[ids[i]]])

\* What a suspended or running function has taken: tokens of its own, and trees.
Words(frame) == Terminals(frame.at) \o YieldOf(frame.kids)

-----------------------------------------------------------------------------

\* Nothing is dropped, invented, repeated or reordered (parser.cpp:22, 405, 437,
\* 481): at every moment what is finished of the program, followed by what each
\* suspended call has taken, outermost first, spells the tokens up to mIndex.
YieldIsConsumed ==
    status # "failed" =>
        YieldOf(mProg) \o FlattenSeq([i \in DOMAIN calls |-> Words(calls[i])])
        = SubSeq(tokens, 1, mIndex)
=============================================================================
