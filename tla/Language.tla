------------------------------- MODULE Language ------------------------------
(***************************************************************************)
(* What the parser accepts, against the grammar of the README.             *)
(***************************************************************************)
EXTENDS ParserChecks, Grammar

\* An identifier at the beginning of a statement: what an assignment assigns to.
AssignsAt(s, k) == s[k] = "IDENT" /\ (k > 1 => s[k - 1] \in {"SEMI", "LEFT_CURLY", "RIGHT_CURLY"})

\* The tokens with the '=' of each assignment, where it is missing.
WithEquals(s) ==
    FlattenSeq([k \in DOMAIN s |->
        IF AssignsAt(s, k) /\ (k < Len(s) => s[k + 1] # "EQUAL") THEN <<"IDENT", "EQUAL">> ELSE <<s[k]>>])

\* The token consumed last stands where the '=' of an assignment belongs.
AtEqual == mIndex > 1 /\ AssignsAt(tokens, mIndex - 1)

\* Whether or not assignments are written with their '=', on which the code and the
\* README differ: the parser accepts nothing but programs of the grammar, and of these it
\* refuses none, except on account of that '=' or its absence, and then at that token.
\* One token of lookahead is enough for it, in every nesting (parser.cpp:78-491).
AcceptsGrammar ==
    /\ status = "done"   => IsProgram(WithEquals(tokens))
    /\ status = "failed" => ~IsProgram(WithEquals(tokens)) \/ AtEqual

\* "ident = [Expr];" (the README's "Parser Grammar", src/README.md:125, and the comment
\* src/src/parser.cpp:122): no program of the grammar is refused.  The '=' of an
\* assignment is, as tryConsume(TT_EQUAL) is commented out.
AcceptsDocumented == status = "failed" => ~IsProgram(tokens)
=============================================================================
