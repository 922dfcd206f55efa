----------------------------- MODULE LexerDocs ------------------------------
(***************************************************************************)
(* What the grammar, the comments and the tests say of the lexer where the *)
(* code does something else.  Each formula is checked by a run in which    *)
(* TLC finds a behaviour of the code that violates it.                     *)
(***************************************************************************)
EXTENDS Lexer

Adjacent(t, u) == t.offset + t.span = u.offset

\* "taking the longest match" (docs/lexical_grammar.tex:25): two tokens that
\* touch never make a longer operator together.  A chunk boundary between '+'
\* and '=' makes two tokens of them: peek() does not load the next chunk.
GreedyMatching ==
    \A k \in 2 .. Len(mTokens) :
        Adjacent(mTokens[k - 1], mTokens[k]) =>
            mTokens[k - 1].type \o mTokens[k].type \notin Tokens!Symbols

\* EXPECT of src/tests/lexer_test.cpp:152-154 for "else": a text that is one
\* identifier gives one token.  At the end of the text peek() returns whatever
\* the window holds behind the chunk, and an error or no token follows.
WordIsOneToken ==
    pc \in {"done", "exit"} /\ Tokens!IsIdent(text) => Len(mTokens) = 1

\* "Max token length of {} characters exceeded." (src/src/lexer.cpp:42, 499, 534),
\* the length being that of lexer.hpp:135: the error is raised when a token is longer.
\* A token of that length raises it, as 1 is added before the comparison.
LimitExceeded == error = "length" => Len(mTokenBuffer) > MaxTokenLen
=============================================================================
