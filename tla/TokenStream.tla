---------------------------- MODULE TokenStream -----------------------------
(***************************************************************************)
(* What lexical analysis promises: from the left, each step takes the      *)
(* longest lexeme of the text that lies ahead and appends its token, or    *)
(* skips what is not a token, until the text ends or nothing fits.  There  *)
(* is no buffer, no lookahead and no label here; Lexer.tla implements this *)
(* as long as no peek() looks behind the chunk that is loaded.             *)
(*                                                                         *)
(* The lexemes are those of docs/lexical_grammar.tex that tokenize() has   *)
(* a case for.  Digits are skipped, keywords are identifiers, and a word   *)
(* must be followed by white space and be shorter than MaxTokenLen: that   *)
(* is what the code does.                                                  *)
(***************************************************************************)
EXTENDS Naturals, Sequences, FiniteSets

CONSTANTS
    Texts, NL, Lower, Upper, Digit, Blank, Space, MaxTokenLen

VARIABLES
    text,       \* the whole text, fixed
    at,         \* characters of it that are dealt with
    toks,       \* the tokens found
    status      \* "running", "done" or "failed"

vars == <<text, at, toks, status>>

Symbols ==
    { <<":">>, <<",">>, <<"{">>, <<"(">>, <<"[">>, <<"}">>, <<")">>, <<"]">>,
      <<";">>, <<".">>, <<"?">>,
      <<"&">>, <<"&", "=">>,
      <<"^">>, <<"^", "=">>, <<"^", "^">>, <<"^", "^", "=">>,
      <<"=">>, <<"=", "=">>,
      <<"/">>, <<"/", "=">>, <<"/", "/">>, <<"/", "/", "=">>,
      <<"<">>, <<"<", "=">>, <<"<", "<">>,
      <<"-">>, <<"-", "=">>, <<"-", "-">>,
      <<"%">>, <<"%", "=">>,
      <<"|">>, <<"|", "=">>,
      <<"+">>, <<"+", "=">>, <<"+", "+">>,
      <<">">>, <<">", "=">>, <<">", ">">>,
      <<"*">>, <<"*", "=">>,
      <<"~">>, <<"~", "=">> }

TypeChars  == Lower \cup Upper \cup Digit
IdentChars == TypeChars \cup {"_"}

\* At most two underscores and a lower-case letter begin an identifier.
IsIdent(s) ==
    \E u \in 0 .. 2 :
        /\ u < Len(s)
        /\ \A i \in 1 .. u : s[i] = "_"
        /\ s[u + 1] \in Lower
        /\ \A i \in u + 2 .. Len(s) : s[i] \in IdentChars

IsType(s) ==
    /\ s # << >>
    /\ s[1] \in Upper
    /\ \A i \in 2 .. Len(s) : s[i] \in TypeChars

WordTypes == {<<"IDENT">>, <<"TYPE_IDENT">>}

IsLexeme(s, type) ==
    \/ s \in Symbols /\ type = s
    \/ IsIdent(s) /\ type = <<"IDENT">>
    \/ IsType(s) /\ type = <<"TYPE_IDENT">>

Ahead(n) == SubSeq(text, at + 1, at + n)
Left     == Len(text) - at

Longest(n, type) ==
    /\ IsLexeme(Ahead(n), type)
    /\ \A m \in n + 1 .. Left, t \in Symbols \cup WordTypes : ~IsLexeme(Ahead(m), t)

Acceptable(n, type) ==
    /\ Longest(n, type)
    /\ type \in WordTypes =>
           n < MaxTokenLen /\ n < Left /\ text[at + n + 1] \in Space

Skippable == Blank \cup Digit

-----------------------------------------------------------------------------

Init ==
    /\ text \in Texts
    /\ at = 0
    /\ toks = << >>
    /\ status = "running"

LineOf(o)   == Cardinality({i \in 1 .. o : text[i] = NL})
ColumnOf(o) == CHOOSE c \in 0 .. o :
                    /\ \A i \in o - c + 1 .. o : text[i] # NL
                    /\ c < o => text[o - c] = NL

EmitToken ==
    \E n \in 1 .. Left, type \in Symbols \cup WordTypes :
        /\ Acceptable(n, type)
        /\ toks' = Append(toks, [type |-> type, lexeme |-> Ahead(n),
                                 offset |-> at, span |-> n,
                                 line |-> LineOf(at), column |-> ColumnOf(at)])
        /\ at' = at + n
        /\ UNCHANGED status

Skip ==
    /\ Left > 0
    /\ text[at + 1] \in Skippable
    /\ at' = at + 1
    /\ UNCHANGED <<toks, status>>

SkipComment ==
    /\ Left > 0
    /\ text[at + 1] = "#"
    /\ \E e \in at + 1 .. Len(text) :
          /\ e = Len(text) \/ text[e] = NL
          /\ \A i \in at + 1 .. e - 1 : text[i] # NL
          /\ at' = e
    /\ UNCHANGED <<toks, status>>

Finish ==
    /\ Left = 0
    /\ status' = "done"
    /\ UNCHANGED <<at, toks>>

Fail ==
    /\ Left > 0
    /\ text[at + 1] \notin Skippable \cup {"#"}
    /\ \A n \in 1 .. Left, type \in Symbols \cup WordTypes : ~Acceptable(n, type)
    /\ status' = "failed"
    /\ UNCHANGED <<at, toks>>

Next ==
    /\ status = "running"
    /\ EmitToken \/ Skip \/ SkipComment \/ Finish \/ Fail
    /\ UNCHANGED text

Spec == Init /\ [][Next]_vars
=============================================================================
