----------------------------- MODULE YieldProofs -----------------------------
(***************************************************************************)
(* Proof of YieldIsConsumed, for token sequences of every length.          *)
(***************************************************************************)
EXTENDS ParserChecks, ParserProofs, WellFoundedInduction

-----------------------------------------------------------------------------
(* Induction, with a set in place of a predicate: the least counterexample  *)
(* has a predecessor.                                                       *)

LEMMA SetInduction ==
    ASSUME NEW S, 0 \in S, \A n \in Nat : n \in S => n + 1 \in S
    PROVE  Nat \subseteq S
<1> DEFINE T == Nat \ S
<1> SUFFICES ASSUME T # {} PROVE FALSE
  OBVIOUS
<1>1. PICK x \in T : \A y \in T : ~(<<y, x>> \in OpToRel(<, Nat))
  BY NatLessThanWellFounded, WFMin
<1>2. x - 1 \in Nat /\ (x - 1) + 1 = x
  OBVIOUS
<1>3. x - 1 \in T
  BY <1>2, Zenon
<1>4. <<x - 1, x>> \in OpToRel(<, Nat)
  BY <1>2 DEF OpToRel
<1> QED
  BY <1>1, <1>3, <1>4

-----------------------------------------------------------------------------
(* FlattenSeq                                                               *)

LEMMA FunIsSeq ==
    ASSUME NEW S, NEW n \in Nat, NEW f \in [1 .. n -> S]
    PROVE  f \in Seq(S) /\ Len(f) = n
<1>1. f \in Seq(S)
  BY SeqDef
<1>2. Len(f) \in Nat /\ 1 .. Len(f) = 1 .. n
  BY <1>1, LenProperties
<1> QED
  BY <1>1, <1>2

\* What FlattenSeq computes by, up to n.
Flattens(ss, n, f) == f = [i \in 1 .. n |-> IF i = 1 THEN ss[i] ELSE f[i - 1] \o ss[i]]

LEMMA FlatteningExists ==
    ASSUME NEW ss, NEW n \in Nat
    PROVE  \E f : Flattens(ss, n, f)
<1> DEFINE S == {m \in Nat : \E f : Flattens(ss, m, f)}
<1>1. 0 \in S
  <2> DEFINE f == [i \in 1 .. 0 |-> 0]
  <2>1. f = [i \in 1 .. 0 |-> IF i = 1 THEN ss[i] ELSE f[i - 1] \o ss[i]]
    OBVIOUS
  <2> QED
    BY <2>1 DEF Flattens
<1>2. ASSUME NEW m \in Nat, m \in S PROVE m + 1 \in S
  <2>1. PICK f : Flattens(ss, m, f)
    BY <1>2
  <2> DEFINE last == IF m + 1 = 1 THEN ss[m + 1] ELSE f[m] \o ss[m + 1]
             g == [i \in 1 .. m + 1 |-> IF i <= m THEN f[i] ELSE last]
  <2>2. \A i \in 1 .. m : f[i] = IF i = 1 THEN ss[i] ELSE f[i - 1] \o ss[i]
    BY <2>1 DEF Flattens
  <2>3. \A i \in 1 .. m + 1 : g[i] = IF i = 1 THEN ss[i] ELSE g[i - 1] \o ss[i]
    <3> SUFFICES ASSUME NEW i \in 1 .. m + 1
                 PROVE  g[i] = IF i = 1 THEN ss[i] ELSE g[i - 1] \o ss[i]
      OBVIOUS
    <3>1. i # 1 => g[i - 1] = f[i - 1]
      OBVIOUS
    <3>2. CASE i <= m
      BY <2>2, <3>1, <3>2
    <3>3. CASE i = m + 1
      BY <3>1, <3>3
    <3> QED
      BY <3>2, <3>3
  <2>4. Flattens(ss, m + 1, g)
    <3> DEFINE h == [i \in 1 .. m + 1 |-> IF i = 1 THEN ss[i] ELSE g[i - 1] \o ss[i]]
    <3>1. DOMAIN g = 1 .. m + 1 /\ g = [i \in 1 .. m + 1 |-> g[i]]
      OBVIOUS
    <3> HIDE DEF g
    <3>2. g = h
      BY <2>3, <3>1
    <3> QED
      BY <3>2 DEF Flattens
  <2> HIDE DEF g
  <2> QED
    BY <2>4
<1> HIDE DEF S
<1>3. n \in S
  BY <1>1, <1>2, SetInduction
<1> QED
  BY <1>3 DEF S

LEMMA FlattenedBy ==
    ASSUME NEW ss, Len(ss) \in Nat \ {0}
    PROVE  \E f : Flattens(ss, Len(ss), f) /\ FlattenSeq(ss) = f[Len(ss)]
<1> DEFINE f == CHOOSE f : f = [i \in 1 .. Len(ss) |-> IF i = 1 THEN ss[i] ELSE f[i - 1] \o ss[i]]
<1>1. \E g : g = [i \in 1 .. Len(ss) |-> IF i = 1 THEN ss[i] ELSE g[i - 1] \o ss[i]]
  BY FlatteningExists DEF Flattens
<1>2. Flattens(ss, Len(ss), f)
  BY <1>1, Zenon DEF Flattens
<1>3. FlattenSeq(ss) = f[Len(ss)]
  BY DEF FlattenSeq
<1> QED
  BY <1>2, <1>3

LEMMA FlatteningsAgree ==
    ASSUME NEW ss, NEW tt, NEW k \in Nat, NEW n \in Nat, k <= n,
           NEW f, Flattens(ss, k, f), NEW g, Flattens(tt, n, g),
           \A i \in 1 .. k : ss[i] = tt[i]
    PROVE  \A i \in 1 .. k : f[i] = g[i]
<1> DEFINE S == {j \in Nat : j \in 1 .. k => f[j] = g[j]}
<1>1. /\ \A i \in 1 .. k : f[i] = IF i = 1 THEN ss[i] ELSE f[i - 1] \o ss[i]
      /\ \A i \in 1 .. n : g[i] = IF i = 1 THEN tt[i] ELSE g[i - 1] \o tt[i]
  BY DEF Flattens
<1>2. 0 \in S
  OBVIOUS
<1>3. ASSUME NEW j \in Nat, j \in S PROVE j + 1 \in S
  <2> SUFFICES ASSUME j + 1 \in 1 .. k PROVE f[j + 1] = g[j + 1]
    OBVIOUS
  <2>1. j + 1 \in 1 .. n /\ ss[j + 1] = tt[j + 1] /\ (j + 1) - 1 = j
    OBVIOUS
  <2>2. j + 1 # 1 => f[j] = g[j]
    BY <1>3
  <2> HIDE DEF S
  <2> QED
    BY <1>1, <2>1, <2>2
<1> HIDE DEF S
<1>4. Nat \subseteq S
  BY <1>2, <1>3, SetInduction
<1> QED
  BY <1>4 DEF S

LEMMA FlatteningType ==
    ASSUME NEW T, NEW ss \in Seq(Seq(T)), NEW f, Flattens(ss, Len(ss), f)
    PROVE  \A i \in 1 .. Len(ss) : f[i] \in Seq(T)
<1> DEFINE S == {j \in Nat : j \in 1 .. Len(ss) => f[j] \in Seq(T)}
<1>1. /\ Len(ss) \in Nat
      /\ \A i \in 1 .. Len(ss) : f[i] = IF i = 1 THEN ss[i] ELSE f[i - 1] \o ss[i]
      /\ \A i \in 1 .. Len(ss) : ss[i] \in Seq(T)
  BY LenProperties, ElementOfSeq DEF Flattens
<1>2. 0 \in S
  OBVIOUS
<1>3. ASSUME NEW j \in Nat, j \in S PROVE j + 1 \in S
  <2> SUFFICES ASSUME j + 1 \in 1 .. Len(ss) PROVE f[j + 1] \in Seq(T)
    OBVIOUS
  <2>1. ss[j + 1] \in Seq(T) /\ f[j + 1] = IF j + 1 = 1 THEN ss[j + 1] ELSE f[j] \o ss[j + 1]
    <3>1. (j + 1) - 1 = j
      OBVIOUS
    <3> QED
      BY <1>1, <3>1
  <2>2. j + 1 # 1 => f[j] \in Seq(T)
    BY <1>1, <1>3
  <2> HIDE DEF S
  <2> QED
    BY <2>1, <2>2, ConcatProperties
<1> HIDE DEF S
<1>4. Nat \subseteq S
  BY <1>2, <1>3, SetInduction
<1> QED
  BY <1>1, <1>4 DEF S

LEMMA FlattenEmpty == FlattenSeq(<< >>) = << >>
  BY DEF FlattenSeq

LEMMA FlattenInSeq ==
    ASSUME NEW T, NEW ss \in Seq(Seq(T))
    PROVE  FlattenSeq(ss) \in Seq(T)
<1>1. CASE ss = << >>
  BY <1>1, FlattenEmpty, EmptySeq
<1>2. CASE ss # << >>
  <2>1. Len(ss) \in Nat \ {0}
    BY <1>2, EmptySeq
  <2>2. PICK f : Flattens(ss, Len(ss), f) /\ FlattenSeq(ss) = f[Len(ss)]
    BY <2>1, FlattenedBy
  <2> QED
    BY <2>1, <2>2, FlatteningType
<1> QED
  BY <1>1, <1>2

LEMMA FlattenAppend ==
    ASSUME NEW T, NEW ss \in Seq(Seq(T)), NEW s \in Seq(T)
    PROVE  FlattenSeq(Append(ss, s)) = FlattenSeq(ss) \o s
<1> DEFINE more == Append(ss, s)
           n == Len(ss)
<1>1. /\ n \in Nat /\ Len(more) = n + 1 /\ more[n + 1] = s
      /\ \A i \in 1 .. n : ss[i] = more[i]
  BY LenProperties, AppendProperties
<1> HIDE DEF more, n
<1>2. PICK g : Flattens(more, n + 1, g) /\ FlattenSeq(more) = g[n + 1]
  <2>1. Len(more) \in Nat \ {0}
    BY <1>1
  <2> QED
    BY <1>1, <2>1, FlattenedBy
<1>3. g[n + 1] = IF n = 0 THEN s ELSE g[n] \o s
  <2>1. g[n + 1] = IF n + 1 = 1 THEN more[n + 1] ELSE g[(n + 1) - 1] \o more[n + 1]
    <3>1. n + 1 \in 1 .. n + 1
      BY <1>1
    <3> QED
      BY <1>2, <3>1 DEF Flattens
  <2> QED
    BY <1>1, <2>1
<1>4. CASE n = 0
  <2>1. ss = << >>
    BY <1>4, EmptySeq DEF n
  <2> QED
    BY <1>2, <1>3, <1>4, <1>1, <2>1, FlattenEmpty, ConcatEmptySeq DEF more
<1>5. CASE n # 0
  <2>1. n \in Nat \ {0}
    BY <1>1, <1>5
  <2>2. PICK f : Flattens(ss, n, f) /\ FlattenSeq(ss) = f[n]
    BY <2>1, FlattenedBy DEF n
  <2>3. f[n] = g[n]
    <3>1. n <= n + 1 /\ n + 1 \in Nat /\ n \in 1 .. n
      BY <2>1
    <3>2. Flattens(ss, n, f) /\ Flattens(more, n + 1, g) /\ \A i \in 1 .. n : ss[i] = more[i]
      BY <1>1, <1>2, <2>2
    <3>3. \A i \in 1 .. n : f[i] = g[i]
      BY <2>1, <3>1, <3>2, FlatteningsAgree
    <3> QED
      BY <3>1, <3>3
  <2> QED
    BY <1>1, <1>2, <1>3, <1>5, <2>2, <2>3 DEF more
<1> QED
  BY <1>4, <1>5

-----------------------------------------------------------------------------
(* The yield of a heap                                                      *)

\* What Yield computes by, of the first m nodes of a heap.
Reads(h, m, y) ==
    y = [n \in 1 .. m |->
            Spelling(h[n].kind, FlattenSeq([i \in DOMAIN h[n].kids |-> y[h[n].kids[i]]]))]

\* Children are made before their parents.
Forest(h, m) == \A n \in 1 .. m : h[n].kids \in Seq(1 .. n - 1)

\* The yields of some nodes, by a function that has those of all.
YieldsBy(y, ids) == [i \in DOMAIN ids |-> y[ids[i]]]

LEMMA YieldsByFirst ==
    ASSUME NEW m \in Nat, NEW ids \in Seq(1 .. m), NEW y, NEW z,
           \A n \in 1 .. m : y[n] = z[n]
    PROVE  YieldsBy(y, ids) = YieldsBy(z, ids)
<1>1. \A i \in DOMAIN ids : ids[i] \in 1 .. m
  BY LenProperties
<1> QED
  BY <1>1 DEF YieldsBy

LEMMA ReadsAt ==
    ASSUME NEW h, NEW m \in Nat, NEW y, Reads(h, m, y), NEW n \in 1 .. m
    PROVE  y[n] = Spelling(h[n].kind, FlattenSeq(YieldsBy(y, h[n].kids)))
  BY DEF Reads, YieldsBy

LEMMA ReadingExists ==
    ASSUME NEW h, NEW m \in Nat, Forest(h, m)
    PROVE  \E y : Reads(h, m, y)
<1> DEFINE S == {k \in Nat : k <= m => \E y : Reads(h, k, y)}
<1>1. 0 \in S
  <2> DEFINE y == [n \in 1 .. 0 |-> 0]
  <2>1. y = [n \in 1 .. 0 |-> Spelling(h[n].kind,
                FlattenSeq([i \in DOMAIN h[n].kids |-> y[h[n].kids[i]]]))]
    OBVIOUS
  <2> QED
    BY <2>1 DEF Reads
<1>2. ASSUME NEW k \in Nat, k \in S PROVE k + 1 \in S
  <2> SUFFICES ASSUME k + 1 <= m PROVE \E y : Reads(h, k + 1, y)
    OBVIOUS
  <2>1. PICK y : Reads(h, k, y)
    BY <1>2
  <2> DEFINE last == Spelling(h[k + 1].kind, FlattenSeq(YieldsBy(y, h[k + 1].kids)))
             z == [n \in 1 .. k + 1 |-> IF n <= k THEN y[n] ELSE last]
  <2>2. \A n \in 1 .. k : z[n] = y[n]
    OBVIOUS
  <2>3. z = [n \in 1 .. k + 1 |-> z[n]] /\ z[k + 1] = last
    OBVIOUS
  <2> HIDE DEF z
  <2>4. \A n \in 1 .. k + 1 : z[n] = Spelling(h[n].kind, FlattenSeq(YieldsBy(z, h[n].kids)))
    <3> SUFFICES ASSUME NEW n \in 1 .. k + 1
                 PROVE  z[n] = Spelling(h[n].kind, FlattenSeq(YieldsBy(z, h[n].kids)))
      OBVIOUS
    <3>1. YieldsBy(z, h[n].kids) = YieldsBy(y, h[n].kids)
      <4>1. h[n].kids \in Seq(1 .. n - 1) /\ n - 1 \in Nat
        BY DEF Forest
      <4>2. \A j \in 1 .. n - 1 : z[j] = y[j]
        BY <2>2
      <4> QED
        BY <4>1, <4>2, YieldsByFirst
    <3>2. CASE n \in 1 .. k
      BY <2>1, <2>2, <3>1, <3>2, ReadsAt
    <3>3. CASE n = k + 1
      BY <2>3, <3>1, <3>3
    <3> QED
      BY <3>2, <3>3
  <2>5. z = [n \in 1 .. k + 1 |-> Spelling(h[n].kind, FlattenSeq(YieldsBy(z, h[n].kids)))]
    BY <2>3, <2>4
  <2>6. Reads(h, k + 1, z)
    BY <2>5 DEF Reads, YieldsBy
  <2> QED
    BY <2>6
<1> HIDE DEF S
<1>3. m \in S
  BY <1>1, <1>2, SetInduction
<1> QED
  BY <1>3 DEF S

\* Two heaps that agree on their first k nodes yield the same there.
LEMMA ReadingsAgree ==
    ASSUME NEW h, NEW g, NEW k \in Nat, NEW n \in Nat, k <= n,
           Forest(h, k), \A j \in 1 .. k : h[j] = g[j],
           NEW y, Reads(h, k, y), NEW z, Reads(g, n, z)
    PROVE  \A j \in 1 .. k : y[j] = z[j]
<1> DEFINE S == {l \in Nat : \A j \in 1 .. l : j <= k => y[j] = z[j]}
<1>1. 0 \in S
  OBVIOUS
<1>2. ASSUME NEW l \in Nat, l \in S PROVE l + 1 \in S
  <2>1. ASSUME l + 1 <= k PROVE y[l + 1] = z[l + 1]
    <3>1. \A j \in 1 .. l : y[j] = z[j]
      BY <1>2, <2>1
    <3>2. l + 1 \in 1 .. k /\ l + 1 \in 1 .. n /\ (l + 1) - 1 = l
      BY <2>1
    <3>3. h[l + 1].kids \in Seq(1 .. l) /\ g[l + 1] = h[l + 1]
      BY <3>2 DEF Forest
    <3>4. YieldsBy(y, h[l + 1].kids) = YieldsBy(z, h[l + 1].kids)
      BY <3>1, <3>3, YieldsByFirst
    <3>5. /\ y[l + 1] = Spelling(h[l + 1].kind, FlattenSeq(YieldsBy(y, h[l + 1].kids)))
          /\ z[l + 1] = Spelling(g[l + 1].kind, FlattenSeq(YieldsBy(z, g[l + 1].kids)))
      BY <3>2, ReadsAt
    <3> QED
      BY <3>3, <3>4, <3>5
  <2>2. \A j \in 1 .. l + 1 : j \in 1 .. l \/ j = l + 1
    OBVIOUS
  <2> QED
    BY <1>2, <2>1, <2>2
<1> HIDE DEF S
<1>3. k \in S
  BY <1>1, <1>2, SetInduction
<1> QED
  BY <1>3 DEF S

LEMMA NarrowSeq ==
    ASSUME NEW S, NEW T, NEW s \in Seq(S), \A i \in DOMAIN s : s[i] \in T
    PROVE  s \in Seq(T)
<1>1. Len(s) \in Nat /\ s \in [1 .. Len(s) -> S] /\ DOMAIN s = 1 .. Len(s)
  BY LenProperties
<1>2. s \in [1 .. Len(s) -> T]
  BY <1>1
<1> QED
  BY <1>1, <1>2, FunIsSeq

LEMMA ShortSeqs ==
    ASSUME NEW S, NEW a \in S, NEW b \in S
    PROVE  <<a>> \in Seq(S) /\ <<a, b>> \in Seq(S)
  OBVIOUS

\* The token types, as the provers can have them: that a literal is in STRING is
\* unknown to them.
Written == {"IDENT", "LEFT_PAREN", "RIGHT_PAREN", "EXIT", "SEMI", "IF", "WHILE", "ELIF", "ELSE",
            "LEFT_CURLY", "RIGHT_CURLY"}
Types == STRING \cup Written

LEMMA WrittenSeqs ==
    \A a, b \in Written : <<a>> \in Seq(Types) /\ <<a, b>> \in Seq(Types)
  BY ShortSeqs DEF Types

LEMMA SpellingType ==
    ASSUME NEW kind, NEW w \in Seq(Types)
    PROVE  Spelling(kind, w) \in Seq(Types)
<1>1. <<"IDENT">> \in Seq(Types) /\ <<"LEFT_PAREN">> \in Seq(Types)
      /\ <<"RIGHT_PAREN">> \in Seq(Types) /\ <<"EXIT", "LEFT_PAREN">> \in Seq(Types)
      /\ <<"RIGHT_PAREN", "SEMI">> \in Seq(Types) /\ <<"SEMI">> \in Seq(Types)
      /\ <<"IF">> \in Seq(Types) /\ <<"WHILE">> \in Seq(Types) /\ <<"ELIF">> \in Seq(Types)
      /\ <<"ELSE">> \in Seq(Types) /\ <<"LEFT_CURLY">> \in Seq(Types)
      /\ <<"RIGHT_CURLY">> \in Seq(Types)
  BY WrittenSeqs DEF Written
<1> QED
  BY <1>1, ConcatProperties DEF Spelling

LEMMA TerminalsType ==
    ASSUME NEW place
    PROVE  Terminals(place) \in Seq(Types)
  BY WrittenSeqs, EmptySeq DEF Written, Terminals

-----------------------------------------------------------------------------
(* What trees and frames spell, by a function y that has the yields of the  *)
(* nodes 1 .. m.                                                            *)

Spells(y, m) == \A n \in 1 .. m : y[n] \in Seq(Types)

FramesOver(m) == [at : Places, kids : Seq(1 .. m), start : Nat]

TreesBy(y, ids) == FlattenSeq(YieldsBy(y, ids))
WordsBy(y, f) == Terminals(f.at) \o TreesBy(y, f.kids)
StackBy(y, fs) == FlattenSeq([i \in DOMAIN fs |-> WordsBy(y, fs[i])])

LEMMA YieldsType ==
    ASSUME NEW m \in Nat, NEW y, Spells(y, m), NEW ids \in Seq(1 .. m)
    PROVE  /\ YieldsBy(y, ids) \in Seq(Seq(Types))
           /\ TreesBy(y, ids) \in Seq(Types)
<1>1. Len(ids) \in Nat /\ DOMAIN ids = 1 .. Len(ids) /\ \A i \in 1 .. Len(ids) : ids[i] \in 1 .. m
  BY LenProperties, ElementOfSeq
<1>2. YieldsBy(y, ids) \in [1 .. Len(ids) -> Seq(Types)]
  BY <1>1 DEF YieldsBy, Spells
<1>3. YieldsBy(y, ids) \in Seq(Seq(Types))
  BY <1>1, <1>2, FunIsSeq
<1> QED
  BY <1>3, FlattenInSeq DEF TreesBy

LEMMA NoTrees == \A y : TreesBy(y, << >>) = << >>
<1> SUFFICES ASSUME NEW y PROVE TreesBy(y, << >>) = << >>
  OBVIOUS
<1>1. YieldsBy(y, << >>) = << >>
  BY DEF YieldsBy
<1> QED
  BY <1>1, FlattenEmpty DEF TreesBy

LEMMA OneTreeMore ==
    ASSUME NEW m \in Nat, NEW y, Spells(y, m), NEW ids \in Seq(1 .. m), NEW n \in 1 .. m
    PROVE  TreesBy(y, Append(ids, n)) = TreesBy(y, ids) \o y[n]
<1> DEFINE more == Append(ids, n)
           l == Len(ids)
<1>1. /\ l \in Nat /\ DOMAIN ids = 1 .. l /\ DOMAIN more = 1 .. l + 1
      /\ more[l + 1] = n /\ \A i \in 1 .. l : more[i] = ids[i]
      /\ more \in Seq(1 .. m)
  BY LenProperties, AppendProperties
<1>2. /\ YieldsBy(y, ids) \in Seq(Seq(Types)) /\ YieldsBy(y, more) \in Seq(Seq(Types))
      /\ y[n] \in Seq(Types)
  BY <1>1, YieldsType DEF Spells
<1> HIDE DEF more, l
<1>3. YieldsBy(y, more) = Append(YieldsBy(y, ids), y[n])
  <2>1. /\ Len(YieldsBy(y, ids)) = l /\ Len(YieldsBy(y, more)) = l + 1
    <3>1. DOMAIN YieldsBy(y, ids) = 1 .. l /\ DOMAIN YieldsBy(y, more) = 1 .. l + 1
      BY <1>1 DEF YieldsBy
    <3> QED
      BY <1>1, <1>2, <3>1, LenProperties
  <2>2. /\ Append(YieldsBy(y, ids), y[n]) \in Seq(Seq(Types))
        /\ Len(Append(YieldsBy(y, ids), y[n])) = l + 1
        /\ Append(YieldsBy(y, ids), y[n])[l + 1] = y[n]
        /\ \A i \in 1 .. l : Append(YieldsBy(y, ids), y[n])[i] = YieldsBy(y, ids)[i]
    BY <1>2, <2>1, AppendProperties
  <2>3. /\ \A i \in 1 .. l : YieldsBy(y, more)[i] = YieldsBy(y, ids)[i]
        /\ YieldsBy(y, more)[l + 1] = y[n]
    BY <1>1 DEF YieldsBy
  <2>4. \A i \in 1 .. l + 1 : YieldsBy(y, more)[i] = Append(YieldsBy(y, ids), y[n])[i]
    <3>1. \A i \in 1 .. l + 1 : i \in 1 .. l \/ i = l + 1
      BY <1>1
    <3> QED
      BY <2>2, <2>3, <3>1
  <2> QED
    BY <1>2, <2>1, <2>2, <2>4, SeqEqual
<1> QED
  BY <1>2, <1>3, FlattenAppend DEF TreesBy, more

LEMMA OneTree ==
    ASSUME NEW m \in Nat, NEW y, Spells(y, m), NEW n \in 1 .. m
    PROVE  TreesBy(y, <<n>>) = y[n]
<1>1. << >> \in Seq(1 .. m) /\ Append(<< >>, n) = <<n>>
  BY EmptySeq
<1>2. TreesBy(y, Append(<< >>, n)) = TreesBy(y, << >>) \o y[n]
  BY <1>1, OneTreeMore
<1>3. y[n] \in Seq(Types)
  BY DEF Spells
<1> QED
  BY <1>1, <1>2, <1>3, NoTrees, ConcatEmptySeq

LEMMA WordsType ==
    ASSUME NEW m \in Nat, NEW y, Spells(y, m), NEW f \in FramesOver(m)
    PROVE  WordsBy(y, f) \in Seq(Types)
<1>1. f.kids \in Seq(1 .. m)
  BY DEF FramesOver
<1> QED
  BY <1>1, YieldsType, TerminalsType, ConcatProperties DEF WordsBy

LEMMA StackType ==
    ASSUME NEW m \in Nat, NEW y, Spells(y, m), NEW fs \in Seq(FramesOver(m))
    PROVE  /\ [i \in DOMAIN fs |-> WordsBy(y, fs[i])] \in Seq(Seq(Types))
           /\ StackBy(y, fs) \in Seq(Types)
<1>1. Len(fs) \in Nat /\ DOMAIN fs = 1 .. Len(fs) /\ \A i \in 1 .. Len(fs) : fs[i] \in FramesOver(m)
  BY LenProperties, ElementOfSeq
<1>2. \A i \in 1 .. Len(fs) : WordsBy(y, fs[i]) \in Seq(Types)
  BY <1>1, WordsType
<1>3. [i \in DOMAIN fs |-> WordsBy(y, fs[i])] \in [1 .. Len(fs) -> Seq(Types)]
  BY <1>1, <1>2
<1>4. [i \in DOMAIN fs |-> WordsBy(y, fs[i])] \in Seq(Seq(Types))
  BY <1>1, <1>3, FunIsSeq
<1> QED
  BY <1>4, FlattenInSeq DEF StackBy

LEMMA NoFrames == \A y : StackBy(y, << >>) = << >>
<1> SUFFICES ASSUME NEW y PROVE StackBy(y, << >>) = << >>
  OBVIOUS
<1>1. [i \in DOMAIN << >> |-> WordsBy(y, << >>[i])] = << >>
  OBVIOUS
<1> QED
  BY <1>1, FlattenEmpty DEF StackBy

LEMMA OneFrameMore ==
    ASSUME NEW m \in Nat, NEW y, Spells(y, m), NEW fs \in Seq(FramesOver(m)),
           NEW f \in FramesOver(m)
    PROVE  StackBy(y, Append(fs, f)) = StackBy(y, fs) \o WordsBy(y, f)
<1> DEFINE more == Append(fs, f)
           l == Len(fs)
           a == [i \in DOMAIN fs |-> WordsBy(y, fs[i])]
           b == [i \in DOMAIN more |-> WordsBy(y, more[i])]
           w == WordsBy(y, f)
<1>1. /\ l \in Nat /\ DOMAIN fs = 1 .. l /\ DOMAIN more = 1 .. l + 1
      /\ more[l + 1] = f /\ \A i \in 1 .. l : more[i] = fs[i]
      /\ more \in Seq(FramesOver(m))
  BY LenProperties, AppendProperties
<1>2. a \in Seq(Seq(Types)) /\ b \in Seq(Seq(Types)) /\ w \in Seq(Types)
  BY <1>1, StackType, WordsType
<1>3. b = Append(a, w)
  <2>1. DOMAIN a = 1 .. l /\ DOMAIN b = 1 .. l + 1
    BY <1>1
  <2>2. /\ \A i \in 1 .. l : b[i] = a[i]
        /\ b[l + 1] = w
    BY <1>1
  <2> HIDE DEF a, b, w, l
  <2>3. Len(a) = l /\ Len(b) = l + 1
    BY <1>1, <1>2, <2>1, LenProperties
  <2>4. /\ Append(a, w) \in Seq(Seq(Types))
        /\ Len(Append(a, w)) = l + 1
        /\ Append(a, w)[l + 1] = w
        /\ \A i \in 1 .. l : Append(a, w)[i] = a[i]
    BY <1>2, <2>3, AppendProperties
  <2>5. \A i \in 1 .. l + 1 : b[i] = Append(a, w)[i]
    <3>1. \A i \in 1 .. l + 1 : i \in 1 .. l \/ i = l + 1
      BY <1>1
    <3> QED
      BY <2>2, <2>4, <3>1
  <2> QED
    BY <1>2, <2>3, <2>4, <2>5, SeqEqual
<1>4. FlattenSeq(Append(a, w)) = FlattenSeq(a) \o w
  <2> HIDE DEF a, w
  <2> QED
    BY <1>2, FlattenAppend
<1> QED
  BY <1>3, <1>4 DEF StackBy

\* Two functions that agree on the nodes spell the same.
LEMMA SameWords ==
    ASSUME NEW m \in Nat, NEW y, NEW z, \A n \in 1 .. m : y[n] = z[n]
    PROVE  /\ \A ids \in Seq(1 .. m) : TreesBy(y, ids) = TreesBy(z, ids)
           /\ \A f \in FramesOver(m) : WordsBy(y, f) = WordsBy(z, f)
           /\ \A fs \in Seq(FramesOver(m)) : StackBy(y, fs) = StackBy(z, fs)
<1>1. ASSUME NEW ids \in Seq(1 .. m) PROVE TreesBy(y, ids) = TreesBy(z, ids)
  BY YieldsByFirst DEF TreesBy
<1>2. ASSUME NEW f \in FramesOver(m) PROVE WordsBy(y, f) = WordsBy(z, f)
  <2>1. f.kids \in Seq(1 .. m)
    BY DEF FramesOver
  <2> QED
    BY <1>1, <2>1 DEF WordsBy
<1>3. ASSUME NEW fs \in Seq(FramesOver(m)) PROVE StackBy(y, fs) = StackBy(z, fs)
  <2>1. \A i \in DOMAIN fs : fs[i] \in FramesOver(m)
    BY LenProperties, ElementOfSeq
  <2>2. [i \in DOMAIN fs |-> WordsBy(y, fs[i])] = [i \in DOMAIN fs |-> WordsBy(z, fs[i])]
    BY <1>2, <2>1
  <2> QED
    BY <2>2 DEF StackBy
<1> QED
  BY <1>1, <1>2, <1>3

LEMMA ReadingType ==
    ASSUME NEW h, NEW m \in Nat, Forest(h, m), NEW y, Reads(h, m, y)
    PROVE  Spells(y, m)
<1> DEFINE S == {k \in Nat : k <= m => Spells(y, k)}
<1>1. 0 \in S
  BY DEF Spells
<1>2. ASSUME NEW k \in Nat, k \in S PROVE k + 1 \in S
  <2> SUFFICES ASSUME k + 1 <= m PROVE Spells(y, k + 1)
    OBVIOUS
  <2>1. Spells(y, k)
    BY <1>2
  <2>2. k + 1 \in 1 .. m /\ (k + 1) - 1 = k
    OBVIOUS
  <2>3. h[k + 1].kids \in Seq(1 .. k)
    BY <2>2 DEF Forest
  <2>4. FlattenSeq(YieldsBy(y, h[k + 1].kids)) \in Seq(Types)
    BY <2>1, <2>3, YieldsType DEF TreesBy
  <2>5. y[k + 1] \in Seq(Types)
    BY <2>2, <2>4, ReadsAt, SpellingType
  <2>6. \A j \in 1 .. k + 1 : j \in 1 .. k \/ j = k + 1
    OBVIOUS
  <2> QED
    BY <2>1, <2>5, <2>6 DEF Spells
<1> HIDE DEF S
<1>3. m \in S
  BY <1>1, <1>2, SetInduction
<1> QED
  BY <1>3 DEF S

-----------------------------------------------------------------------------
(* The parser's state                                                       *)

LEMMA HeapFacts ==
    ASSUME ParserTypeOK
    PROVE  /\ Len(nodes) \in Nat /\ DOMAIN nodes = 1 .. Len(nodes)
           /\ Forest(nodes, Len(nodes))
           /\ Reads(nodes, Len(nodes), Yield)
           /\ Spells(Yield, Len(nodes))
<1>1. Len(nodes) \in Nat /\ DOMAIN nodes = 1 .. Len(nodes)
  BY LenProperties DEF ParserTypeOK
<1>2. Forest(nodes, Len(nodes))
  <2> SUFFICES ASSUME NEW n \in 1 .. Len(nodes) PROVE nodes[n].kids \in Seq(1 .. n - 1)
    BY DEF Forest
  <2> DEFINE s == nodes[n].kids
             K == 1 .. n - 1
  <2>1. s \in Seq(Nat) /\ \A i \in DOMAIN s : s[i] \in K
    BY <1>1 DEF ParserTypeOK, WellFormedAst, WellFormedNode
  <2> HIDE DEF s, K
  <2>2. s \in Seq(K)
    BY <2>1, NarrowSeq
  <2> QED
    BY <2>2 DEF s, K
<1>3. Reads(nodes, Len(nodes), Yield)
  <2>3. \E y : Reads(nodes, Len(nodes), y)
    BY <1>1, <1>2, ReadingExists
  <2>1. \E y : y = [n \in DOMAIN nodes |->
            Spelling(nodes[n].kind, FlattenSeq([i \in DOMAIN nodes[n].kids |-> y[nodes[n].kids[i]]]))]
    BY <1>1, <2>3 DEF Reads
  <2>2. Yield = [n \in DOMAIN nodes |->
            Spelling(nodes[n].kind, FlattenSeq([i \in DOMAIN nodes[n].kids |-> Yield[nodes[n].kids[i]]]))]
    BY <2>1, Zenon DEF Yield
  <2> QED
    BY <1>1, <2>2 DEF Reads
<1> QED
  BY <1>1, <1>2, <1>3, ReadingType

LEMMA StateFacts ==
    ASSUME ParserTypeOK
    PROVE  /\ mProg \in Seq(1 .. Len(nodes))
           /\ calls \in Seq(FramesOver(Len(nodes)))
<1>1. DOMAIN nodes = 1 .. Len(nodes)
  BY HeapFacts
<1>2. mProg \in Seq(1 .. Len(nodes))
  <2> DEFINE K == 1 .. Len(nodes)
  <2>1. mProg \in Seq(Nat) /\ \A i \in DOMAIN mProg : mProg[i] \in K
    BY <1>1 DEF ParserTypeOK, WellFormedAst
  <2> HIDE DEF K
  <2>2. mProg \in Seq(K)
    BY <2>1, NarrowSeq
  <2> QED
    BY <2>2 DEF K
<1>3. \A i \in DOMAIN calls : calls[i] \in FramesOver(Len(nodes))
  <2> SUFFICES ASSUME NEW i \in DOMAIN calls PROVE calls[i] \in FramesOver(Len(nodes))
    OBVIOUS
  <2>1. calls[i] \in Frames
    BY LenProperties, ElementOfSeq DEF ParserTypeOK
  <2> DEFINE s == calls[i].kids
             K == 1 .. Len(nodes)
  <2>2. s \in Seq(Nat) /\ \A j \in DOMAIN s : s[j] \in K
    BY <1>1, <2>1 DEF ParserTypeOK, FrameOK, Frames
  <2> HIDE DEF s, K
  <2>3. s \in Seq(K)
    BY <2>2, NarrowSeq
  <2> QED
    BY <2>1, <2>3 DEF Frames, FramesOver, s, K
<1>4. calls \in Seq(Frames)
  BY DEF ParserTypeOK
<1>5. calls \in Seq(FramesOver(Len(nodes)))
  <2> DEFINE F == FramesOver(Len(nodes))
  <2>1. \A i \in DOMAIN calls : calls[i] \in F
    BY <1>3
  <2> HIDE DEF F
  <2>2. calls \in Seq(F)
    BY <1>4, <2>1, NarrowSeq
  <2> QED
    BY <2>2 DEF F
<1> QED
  BY <1>2, <1>5

LEMMA ConsumedIs ==
    YieldIsConsumed <=>
        (status # "failed" =>
             TreesBy(Yield, mProg) \o StackBy(Yield, calls) = SubSeq(tokens, 1, mIndex))
  BY DEF YieldIsConsumed, YieldOf, Words, TreesBy, YieldsBy, StackBy, WordsBy

\* Nodes that stay yield what they did.
LEMMA OldYields ==
    ASSUME ParserTypeOK, ParserTypeOK',
           \A d \in DOMAIN nodes : d \in DOMAIN nodes' /\ nodes'[d] = nodes[d]
    PROVE  /\ Len(nodes) <= Len(nodes') /\ Len(nodes') \in Nat
           /\ \A d \in 1 .. Len(nodes) : Yield'[d] = Yield[d]
<1>1. /\ Len(nodes) \in Nat /\ DOMAIN nodes = 1 .. Len(nodes)
      /\ Forest(nodes, Len(nodes)) /\ Reads(nodes, Len(nodes), Yield)
  BY HeapFacts
<1>2. /\ Len(nodes') \in Nat /\ DOMAIN nodes' = 1 .. Len(nodes')
      /\ Reads(nodes', Len(nodes'), Yield')
  <2>1. ParserTypeOK' => (/\ Len(nodes) \in Nat /\ DOMAIN nodes = 1 .. Len(nodes)
                          /\ Reads(nodes, Len(nodes), Yield))'
    BY HeapFacts, PTL
  <2> QED
    BY <2>1 DEF Reads
<1>3. Len(nodes) <= Len(nodes')
  <2>1. CASE Len(nodes) = 0
    BY <1>2, <2>1
  <2>2. CASE Len(nodes) # 0
    <3>1. Len(nodes) \in DOMAIN nodes
      BY <1>1, <2>2
    <3> QED
      BY <1>1, <1>2, <3>1
  <2> QED
    BY <2>1, <2>2
<1>4. \A j \in 1 .. Len(nodes) : nodes[j] = nodes'[j]
  BY <1>1
<1>5. \A j \in 1 .. Len(nodes) : Yield[j] = Yield'[j]
  <2> DEFINE m == Len(nodes)
             n == Len(nodes')
             h == nodes
             g == nodes'
             y == Yield
             z == Yield'
  <2>1. /\ m \in Nat /\ n \in Nat /\ m <= n /\ Forest(h, m)
        /\ \A j \in 1 .. m : h[j] = g[j]
        /\ Reads(h, m, y) /\ Reads(g, n, z)
    BY <1>1, <1>2, <1>3, <1>4
  <2> HIDE DEF m, n, h, g, y, z
  <2>2. \A j \in 1 .. m : y[j] = z[j]
    BY <2>1, ReadingsAgree
  <2> QED
    BY <2>2 DEF m, y, z
<1> QED
  BY <1>2, <1>3, <1>5

WithLast(s, e) == [s EXCEPT ![Len(s)] = e]

LEMMA LastOf ==
    ASSUME NEW S, NEW s \in Seq(S), s # << >>, NEW front, front = SubSeq(s, 1, Len(s) - 1)
    PROVE  /\ Len(s) \in Nat \ {0}
           /\ front \in Seq(S) /\ Len(front) = Len(s) - 1
           /\ s[Len(s)] \in S
           /\ s = Append(front, s[Len(s)])
           /\ \A e \in S : WithLast(s, e) = Append(front, e)
<1>1. Len(s) \in Nat \ {0}
  BY EmptySeq
<1>2. PICK n \in Nat : Len(s) = n + 1
  <2>1. Len(s) - 1 \in Nat /\ Len(s) = (Len(s) - 1) + 1
    BY <1>1
  <2> QED
    BY <2>1
<1>3. front \in Seq(S) /\ Len(front) = n /\ \A j \in 1 .. n : front[j] = s[j]
  <2>1. n < Len(s) /\ Len(s) - 1 = n
    BY <1>2
  <2> QED
    BY <2>1, FrontOf
<1>4. s[n + 1] \in S
  <2>1. n + 1 \in 1 .. Len(s)
    BY <1>2
  <2> QED
    BY <2>1, ElementOfSeq
<1>5. ASSUME NEW t \in Seq(S), Len(t) = n + 1, \A j \in 1 .. n : t[j] = s[j]
      PROVE  t = Append(front, t[n + 1])
  <2>1. t[n + 1] \in S
    <3>1. n + 1 \in 1 .. Len(t)
      BY <1>5
    <3> QED
      BY <3>1, ElementOfSeq
  <2>2. /\ Append(front, t[n + 1]) \in Seq(S) /\ Len(Append(front, t[n + 1])) = n + 1
        /\ Append(front, t[n + 1])[n + 1] = t[n + 1]
        /\ \A j \in 1 .. n : Append(front, t[n + 1])[j] = front[j]
    BY <1>3, <2>1, AppendProperties
  <2>3. \A j \in 1 .. Len(t) : t[j] = Append(front, t[n + 1])[j]
    <3>1. \A j \in 1 .. Len(t) : j \in 1 .. n \/ j = n + 1
      BY <1>5
    <3> QED
      BY <1>3, <1>5, <2>2, <3>1
  <2> QED
    BY <1>5, <2>2, <2>3, SeqEqual
<1>6. ASSUME NEW e \in S PROVE WithLast(s, e) = Append(front, e)
  <2> DEFINE t == [s EXCEPT ![n + 1] = e]
  <2>1. n + 1 \in 1 .. Len(s)
    BY <1>2
  <2>2. /\ t \in Seq(S) /\ Len(t) = n + 1
        /\ \A j \in 1 .. n + 1 : t[j] = IF j = n + 1 THEN e ELSE s[j]
    BY <1>2, <2>1, ExceptSeq
  <2>3. t[n + 1] = e /\ \A j \in 1 .. n : t[j] = s[j]
    BY <2>2
  <2> HIDE DEF t
  <2>4. t = Append(front, e)
    BY <1>5, <2>2, <2>3
  <2> QED
    BY <1>2, <2>4 DEF t, WithLast
<1>7. s = Append(front, s[n + 1])
  BY <1>2, <1>5
<1> QED
  BY <1>1, <1>2, <1>3, <1>4, <1>6, <1>7

LEMMA LastChanged ==
    ASSUME NEW S, NEW s \in Seq(S), s # << >>, NEW e \in S
    PROVE  WithLast(s, e) = Append(SubSeq(s, 1, Len(s) - 1), e)
<1> DEFINE front == SubSeq(s, 1, Len(s) - 1)
<1>1. front = SubSeq(s, 1, Len(s) - 1)
  OBVIOUS
<1> HIDE DEF front
<1>2. WithLast(s, e) = Append(front, e)
  BY <1>1, LastOf
<1> QED
  BY <1>2 DEF front

LEMMA Stacked ==
    ASSUME ParserTypeOK, status = "running"
    PROVE  /\ Callers \in Seq(FramesOver(Len(nodes)))
           /\ Top \in FramesOver(Len(nodes))
           /\ calls = Append(Callers, Top)
           /\ Len(Callers) = Len(calls) - 1
           /\ \A f \in FramesOver(Len(nodes)) : WithLast(calls, f) = Append(Callers, f)
<1>1. calls \in Seq(FramesOver(Len(nodes))) /\ calls # << >>
  BY StateFacts DEF ParserTypeOK
<1> QED
  <2> DEFINE F == FramesOver(Len(nodes))
  <2>1. calls \in Seq(F)
    BY <1>1
  <2> HIDE DEF F
  <2>2. /\ Callers \in Seq(F) /\ Len(Callers) = Len(calls) - 1
        /\ calls[Len(calls)] \in F
        /\ calls = Append(Callers, calls[Len(calls)])
        /\ \A e \in F : WithLast(calls, e) = Append(Callers, e)
    <3> DEFINE s == calls
               front == Callers
    <3>1. s \in Seq(F) /\ s # << >> /\ front = SubSeq(s, 1, Len(s) - 1)
      BY <1>1, <2>1 DEF Callers
    <3> HIDE DEF s, front
    <3>2. front \in Seq(F) /\ Len(front) = Len(s) - 1
      BY <3>1, LastOf
    <3>3. s[Len(s)] \in F
      BY <3>1, LastOf
    <3>4. s = Append(front, s[Len(s)])
      BY <3>1, LastOf
    <3>5. ASSUME NEW e \in F PROVE WithLast(s, e) = Append(front, e)
      BY <3>1, LastOf
    <3> QED
      BY <3>2, <3>3, <3>4, <3>5 DEF s, front
  <2> QED
    BY <2>2 DEF Top, F

\* The tokens that a step consumes.
Consumed == SubSeq(tokens, mIndex + 1, mIndex')

LEMMA ConsumedType ==
    ASSUME ParserTypeOK, mIndex' \in mIndex .. Len(tokens)
    PROVE  /\ Consumed \in Seq(Types)
           /\ SubSeq(tokens, 1, mIndex) \o Consumed = SubSeq(tokens, 1, mIndex')
<1>1. tokens \in Seq(Types) /\ Len(tokens) \in Nat /\ mIndex \in 0 .. Len(tokens)
  <2>1. tokens \in Seq(STRING) /\ STRING \subseteq Types
    BY DEF ParserTypeOK, Types
  <2> QED
    BY <2>1, SeqMonotonic, LenProperties DEF ParserTypeOK
<1>2. Consumed \in Seq(Types)
  <2>1. \A i \in mIndex + 1 .. mIndex' : tokens[i] \in Types
    BY <1>1, ElementOfSeq
  <2> QED
    BY <1>1, <2>1, SubSeqProperties DEF Consumed
<1>3. 1 \in 1 .. Len(tokens) + 1 /\ mIndex \in 1 - 1 .. Len(tokens)
  BY <1>1
<1> QED
  BY <1>1, <1>2, <1>3, ConcatAdjacentSubSeq DEF Consumed

\* What is spelled after a step: what was spelled below the running function, then what
\* it had taken, then what the step consumed.
LEMMA Accounted ==
    ASSUME ParserTypeOK, status = "running", YieldIsConsumed, mIndex' \in mIndex .. Len(tokens)
    PROVE  /\ TreesBy(Yield, mProg) \in Seq(Types)
           /\ StackBy(Yield, Callers) \in Seq(Types)
           /\ WordsBy(Yield, Top) \in Seq(Types)
           /\ TreesBy(Yield, Top.kids) \in Seq(Types)
           /\ Consumed \in Seq(Types)
           /\ TreesBy(Yield, mProg) \o (StackBy(Yield, Callers) \o (WordsBy(Yield, Top) \o Consumed))
              = SubSeq(tokens, 1, mIndex')
<1>1. /\ Len(nodes) \in Nat /\ Spells(Yield, Len(nodes)) /\ mProg \in Seq(1 .. Len(nodes))
      /\ Callers \in Seq(FramesOver(Len(nodes))) /\ Top \in FramesOver(Len(nodes))
      /\ calls = Append(Callers, Top)
  BY HeapFacts, StateFacts, Stacked
<1> DEFINE p == TreesBy(Yield, mProg)
           b == StackBy(Yield, Callers)
           w == WordsBy(Yield, Top)
           r == SubSeq(tokens, 1, mIndex)
<1>2. p \in Seq(Types) /\ b \in Seq(Types) /\ w \in Seq(Types)
  BY <1>1, YieldsType, StackType, WordsType
<1>3. TreesBy(Yield, Top.kids) \in Seq(Types)
  <2>1. Top.kids \in Seq(1 .. Len(nodes))
    BY <1>1 DEF FramesOver
  <2> QED
    BY <1>1, <2>1, YieldsType
<1>4. Consumed \in Seq(Types) /\ r \o Consumed = SubSeq(tokens, 1, mIndex')
  BY ConsumedType
<1>5. StackBy(Yield, calls) = b \o w
  BY <1>1, OneFrameMore
<1>6. p \o (b \o w) = r
  BY <1>5, ConsumedIs
<1> HIDE DEF p, b, w, r
<1>7. p \o (b \o (w \o Consumed)) = (p \o (b \o w)) \o Consumed
  <2>1. PICK pp, bb, ww, cc \in Seq(Types) : pp = p /\ bb = b /\ ww = w /\ cc = Consumed
    BY <1>2, <1>4
  <2>2. bb \o ww \in Seq(Types)
    BY ConcatProperties
  <2>3. (bb \o ww) \o cc = bb \o (ww \o cc)
    BY ConcatAssociative, SMTT(60)
  <2>4. (pp \o (bb \o ww)) \o cc = pp \o ((bb \o ww) \o cc)
    BY <2>2, ConcatAssociative, SMTT(60)
  <2> QED
    BY <2>1, <2>3, <2>4
<1> QED
  BY <1>2, <1>3, <1>4, <1>6, <1>7 DEF p, b, w

\* In the new state.
LEMMA ConsumedIsNext ==
    ASSUME tokens' = tokens,
           TreesBy(Yield', mProg') \o StackBy(Yield', calls') = SubSeq(tokens, 1, mIndex')
    PROVE  YieldIsConsumed'
<1>1. (YieldIsConsumed <=>
          (status # "failed" =>
               TreesBy(Yield, mProg) \o StackBy(Yield, calls) = SubSeq(tokens, 1, mIndex)))'
  BY ConsumedIs, PTL
<1> QED
  BY <1>1 DEF TreesBy, StackBy, WordsBy, YieldsBy

-----------------------------------------------------------------------------
(* A call, a return                                                         *)

\* The function that calls has taken what the step consumed; the new one nothing.
LEMMA CallSpells ==
    ASSUME ParserTypeOK, ParserTypeOK', status = "running", YieldIsConsumed,
           mIndex' \in mIndex .. Len(tokens),
           NEW place \in Places, NEW callee \in Entries, Call(place, callee),
           Terminals(place) \o TreesBy(Yield, Top.kids) = WordsBy(Yield, Top) \o Consumed
    PROVE  YieldIsConsumed'
<1> DEFINE m == Len(nodes)
           f == [Top EXCEPT !.at = place]
           g == Frame(callee, mIndex')
<1>1. /\ m \in Nat /\ Spells(Yield, m) /\ Callers \in Seq(FramesOver(m)) /\ Top \in FramesOver(m)
      /\ \A e \in FramesOver(m) : WithLast(calls, e) = Append(Callers, e)
  BY HeapFacts, Stacked
<1>2. f \in FramesOver(m) /\ f.at = place /\ f.kids = Top.kids
  BY <1>1 DEF FramesOver
<1>3. g \in FramesOver(m) /\ g.at = callee /\ g.kids = << >>
  <2>1. << >> \in Seq(1 .. m) /\ callee \in Places /\ mIndex' \in Nat
    BY EmptySeq, EntryFacts DEF ParserTypeOK
  <2> QED
    BY <2>1 DEF Frame, FramesOver
<1>4. /\ calls' = Append(WithLast(calls, f), g)
      /\ tokens' = tokens /\ nodes' = nodes /\ mProg' = mProg
  BY DEF Call, Top, WithLast
<1> HIDE DEF f, g, m
<1>5. calls' = Append(Append(Callers, f), g) /\ Append(Callers, f) \in Seq(FramesOver(m))
  BY <1>1, <1>2, <1>4, AppendProperties
<1>6. WordsBy(Yield, g) = << >>
  <2>1. Terminals(callee) = << >>
    BY DEF Terminals, Entries
  <2> QED
    BY <1>3, <2>1, NoTrees, ConcatEmptySeq, EmptySeq DEF WordsBy
<1>7. WordsBy(Yield, f) = WordsBy(Yield, Top) \o Consumed /\ WordsBy(Yield, f) \in Seq(Types)
  BY <1>1, <1>2, WordsType DEF WordsBy
<1>8. StackBy(Yield, calls') = StackBy(Yield, Callers) \o (WordsBy(Yield, Top) \o Consumed)
  <2>1. StackBy(Yield, Append(Callers, f)) = StackBy(Yield, Callers) \o WordsBy(Yield, f)
    BY <1>1, <1>2, OneFrameMore
  <2>2. StackBy(Yield, calls') = StackBy(Yield, Append(Callers, f)) \o WordsBy(Yield, g)
    BY <1>1, <1>3, <1>5, OneFrameMore
  <2>3. StackBy(Yield, Append(Callers, f)) \in Seq(Types)
    BY <1>1, <1>5, StackType
  <2> QED
    BY <1>6, <1>7, <2>1, <2>2, <2>3, ConcatEmptySeq
<1>9. Yield' = Yield
  BY <1>4 DEF Yield
<1> QED
  BY <1>4, <1>8, <1>9, Accounted, ConsumedIsNext

\* The caller has one tree more, which spells all that the callee had taken.
LEMMA HandBackSpells ==
    ASSUME ParserTypeOK, ParserTypeOK', status = "running", YieldIsConsumed, Top.at # "parse",
           mIndex' \in mIndex .. Len(tokens), UNCHANGED <<tokens, mProg>>,
           \A d \in DOMAIN nodes : d \in DOMAIN nodes' /\ nodes'[d] = nodes[d],
           NEW id \in DOMAIN nodes',
           calls' = [Callers EXCEPT ![Len(Callers)].kids = Append(@, id)],
           Yield'[id] = WordsBy(Yield, Top) \o Consumed
    PROVE  YieldIsConsumed'
<1> DEFINE m == Len(nodes)
           n == Len(nodes')
           y == Yield
           z == Yield'
           c == Callers[Len(Callers)]
           front == SubSeq(Callers, 1, Len(Callers) - 1)
           f == [c EXCEPT !.kids = Append(c.kids, id)]
           w == WordsBy(y, Top) \o Consumed
<1>1. /\ m \in Nat /\ Spells(y, m) /\ mProg \in Seq(1 .. m) /\ Callers \in Seq(FramesOver(m))
      /\ Callers # << >>
  <2>1. Len(Callers) \in Nat \ {0}
    BY CallerFrame, Stacked
  <2> QED
    BY <2>1, HeapFacts, StateFacts, Stacked
<1>2. /\ n \in Nat /\ m <= n /\ Spells(z, n) /\ id \in 1 .. n
      /\ \A d \in 1 .. m : z[d] = y[d]
  <2>1. ParserTypeOK' => (DOMAIN nodes = 1 .. Len(nodes) /\ Spells(Yield, Len(nodes)))'
    BY HeapFacts, PTL
  <2>2. DOMAIN nodes' = 1 .. n /\ Spells(z, n)
    BY <2>1 DEF Spells
  <2> QED
    BY <2>2, OldYields
<1>3. calls' = WithLast(Callers, f)
  BY DEF WithLast
<1>4. w \in Seq(Types) /\ z[id] = w
  BY Accounted, ConcatProperties
<1> HIDE DEF m, n, y, z, w
<1>5. /\ front \in Seq(FramesOver(m)) /\ c \in FramesOver(m)
      /\ Callers = Append(front, c)
      /\ \A e \in FramesOver(m) : e \in FramesOver(n)
      /\ 1 .. m \subseteq 1 .. n
  <2>1. 1 .. m \subseteq 1 .. n
    BY <1>1, <1>2
  <2>2. Seq(1 .. m) \subseteq Seq(1 .. n)
    BY <2>1, SeqMonotonic
  <2>3. \A e \in FramesOver(m) : e \in FramesOver(n)
    BY <2>2 DEF FramesOver
  <2> DEFINE F == FramesOver(m)
  <2>4. Callers \in Seq(F)
    BY <1>1
  <2> HIDE DEF F
  <2>5. front \in Seq(F) /\ c \in F /\ Callers = Append(front, c)
    BY <1>1, <2>4, LastOf
  <2> QED
    BY <2>1, <2>3, <2>5 DEF F
<1>6. /\ c.kids \in Seq(1 .. m) /\ c.kids \in Seq(1 .. n)
      /\ f \in FramesOver(n) /\ f.at = c.at /\ f.kids = Append(c.kids, id)
  <2>1. c.kids \in Seq(1 .. m) /\ c \in FramesOver(n) /\ c.kids \in Seq(1 .. n)
    BY <1>5 DEF FramesOver
  <2>2. Append(c.kids, id) \in Seq(1 .. n)
    BY <1>2, <2>1, AppendProperties
  <2> QED
    BY <2>1, <2>2 DEF FramesOver
<1> HIDE DEF c, front, f
<1>7. /\ Callers \in Seq(FramesOver(n)) /\ front \in Seq(FramesOver(n))
  <2>1. FramesOver(m) \subseteq FramesOver(n)
    BY <1>5
  <2> QED
    BY <1>1, <1>5, <2>1, SeqMonotonic
<1>8. calls' = Append(front, f)
  <2> DEFINE F == FramesOver(n)
             s == Callers
  <2>1. s \in Seq(F) /\ s # << >> /\ f \in F
    BY <1>1, <1>6, <1>7
  <2> HIDE DEF F, s
  <2>2. WithLast(s, f) = Append(SubSeq(s, 1, Len(s) - 1), f)
    BY <2>1, LastChanged
  <2> QED
    BY <1>3, <2>2 DEF s, front
<1>9. StackBy(z, calls') = StackBy(z, front) \o WordsBy(z, f)
  <2>1. StackBy(z, Append(front, f)) = StackBy(z, front) \o WordsBy(z, f)
    BY <1>2, <1>6, <1>7, OneFrameMore
  <2> QED
    BY <1>8, <2>1
<1>10. WordsBy(z, f) = WordsBy(z, c) \o w
  <2>1. TreesBy(z, f.kids) = TreesBy(z, c.kids) \o w
    BY <1>2, <1>4, <1>6, OneTreeMore
  <2>2. TreesBy(z, c.kids) \in Seq(Types) /\ Terminals(c.at) \in Seq(Types)
    BY <1>2, <1>6, YieldsType, TerminalsType
  <2>3. Terminals(c.at) \o (TreesBy(z, c.kids) \o w) = (Terminals(c.at) \o TreesBy(z, c.kids)) \o w
    BY <1>4, <2>2, ConcatAssociative, SMTT(60)
  <2> QED
    BY <1>6, <2>1, <2>3 DEF WordsBy
<1>11. StackBy(z, Callers) = StackBy(z, front) \o WordsBy(z, c)
  <2>1. c \in FramesOver(n)
    BY <1>5
  <2> QED
    BY <1>2, <1>5, <1>7, <2>1, OneFrameMore
<1>12. StackBy(z, calls') = StackBy(z, Callers) \o w
  <2>1. StackBy(z, front) \in Seq(Types) /\ WordsBy(z, c) \in Seq(Types)
    BY <1>2, <1>5, <1>7, StackType, WordsType
  <2>2. StackBy(z, front) \o (WordsBy(z, c) \o w) = (StackBy(z, front) \o WordsBy(z, c)) \o w
    BY <1>4, <2>1, ConcatAssociative, SMTT(60)
  <2> QED
    BY <1>9, <1>10, <1>11, <2>2
<1>13. TreesBy(z, mProg) = TreesBy(y, mProg) /\ StackBy(z, Callers) = StackBy(y, Callers)
  <2>1. \A d \in 1 .. m : y[d] = z[d]
    BY <1>2
  <2> QED
    BY <1>1, <2>1, SameWords
<1>14. TreesBy(z, mProg) \o StackBy(z, calls') = SubSeq(tokens, 1, mIndex')
  BY <1>12, <1>13, Accounted DEF y, w
<1> QED
  BY <1>14, ConsumedIsNext DEF z

\* A new node of the nodes the running function holds.
LEMMA ReturnSpells ==
    ASSUME ParserTypeOK, ParserTypeOK', status = "running", YieldIsConsumed, Top.at # "parse",
           mIndex' \in mIndex .. Len(tokens),
           NEW node \in NodeSet, Return(node), node.kids = Top.kids,
           Spelling(node.kind, TreesBy(Yield, Top.kids))
               = (Terminals(Top.at) \o TreesBy(Yield, Top.kids)) \o Consumed
    PROVE  YieldIsConsumed'
<1> DEFINE m == Len(nodes)
           id == m + 1
           z == Yield'
<1>1. /\ nodes \in Seq(NodeSet) /\ m \in Nat /\ DOMAIN nodes = 1 .. m
      /\ Top.kids \in Seq(1 .. m)
  BY HeapFacts, Stacked DEF ParserTypeOK, NodeSet, FramesOver
<1>2. /\ nodes' = Append(nodes, node) /\ UNCHANGED <<tokens, mProg>>
      /\ calls' = [Callers EXCEPT ![Len(Callers)].kids = Append(@, id)]
  BY DEF Return
<1>3. /\ Len(nodes') = id /\ DOMAIN nodes' = 1 .. id /\ nodes'[id] = node
      /\ \A d \in 1 .. m : nodes'[d] = nodes[d]
  BY <1>1, <1>2, AppendProperties, LenProperties
<1>4. \A d \in DOMAIN nodes : d \in DOMAIN nodes' /\ nodes'[d] = nodes[d]
  BY <1>1, <1>3
<1>5. z[id] = Spelling(node.kind, TreesBy(z, Top.kids))
  <2>1. ParserTypeOK' => Reads(nodes, Len(nodes), Yield)'
    BY HeapFacts, PTL
  <2>2. Reads(nodes', id, z)
    BY <1>3, <2>1 DEF Reads
  <2>3. id \in Nat /\ id \in 1 .. id
    BY <1>1
  <2> HIDE DEF id, z
  <2>4. z[id] = Spelling(nodes'[id].kind, FlattenSeq(YieldsBy(z, nodes'[id].kids)))
    BY <2>2, <2>3, ReadsAt
  <2> QED
    BY <1>3, <2>4 DEF TreesBy
<1>6. TreesBy(z, Top.kids) = TreesBy(Yield, Top.kids)
  <2> DEFINE y == Yield
             s == Top.kids
  <2>1. \A d \in 1 .. m : y[d] = z[d]
    BY <1>4, OldYields
  <2>2. m \in Nat /\ s \in Seq(1 .. m)
    BY <1>1
  <2> HIDE DEF z, m, y, s
  <2>3. TreesBy(y, s) = TreesBy(z, s)
    BY <2>1, <2>2, SameWords
  <2> QED
    BY <2>3 DEF y, s
<1>7. id \in DOMAIN nodes' /\ z[id] = WordsBy(Yield, Top) \o Consumed
  BY <1>1, <1>3, <1>5, <1>6 DEF WordsBy
<1> HIDE DEF id, m
<1> QED
  BY <1>2, <1>4, <1>7, HandBackSpells

\* Nothing is read.
LEMMA NothingRead ==
    ASSUME ParserTypeOK, mIndex' = mIndex
    PROVE  mIndex' \in mIndex .. Len(tokens) /\ Consumed = << >>
<1>1. mIndex \in Nat /\ Len(tokens) \in Nat /\ mIndex <= Len(tokens)
  BY LenProperties DEF ParserTypeOK
<1> QED
  BY <1>1, SubSeqEmpty DEF Consumed

\* What was compared is read.
LEMMA MatchesRead ==
    ASSUME ParserTypeOK, NEW T, NoToken \notin T, NEW types \in Seq(T), types # << >>,
           Matches(types), mIndex' = mIndex + Len(types)
    PROVE  mIndex' \in mIndex .. Len(tokens) /\ Consumed = types
<1> DEFINE n == Len(types)
<1>1. mIndex' \in mIndex .. Len(tokens)
  BY MatchBound
<1>2. /\ n \in Nat \ {0} /\ mIndex \in Nat /\ Len(tokens) \in Nat /\ DOMAIN types = 1 .. n
      /\ tokens \in Seq(STRING)
  BY LenProperties, EmptySeq DEF ParserTypeOK
<1>3. Len(Consumed) = n /\ \A i \in 1 .. n : Consumed[i] = tokens[mIndex + i]
  <2> DEFINE a == mIndex + 1
             b == mIndex'
  <2>1. a \in Int /\ b \in Int /\ b - a + 1 = n /\ a <= b
    BY <1>2
  <2>2. \A i \in a .. b : tokens[i] \in STRING
    BY <1>1, <1>2, ElementOfSeq
  <2>3. \A i \in 1 .. n : a + i - 1 = mIndex + i
    BY <1>2
  <2>4. Consumed = SubSeq(tokens, a, b)
    BY DEF Consumed
  <2> HIDE DEF a, b, n
  <2>5. /\ Len(SubSeq(tokens, a, b)) = IF a <= b THEN b - a + 1 ELSE 0
        /\ \A i \in 1 .. b - a + 1 : SubSeq(tokens, a, b)[i] = tokens[a + i - 1]
    BY <2>1, <2>2, SubSeqProperties
  <2> QED
    BY <2>1, <2>3, <2>4, <2>5
<1>4. \A i \in 1 .. n : tokens[mIndex + i] = types[i]
  <2> SUFFICES ASSUME NEW i \in 1 .. n PROVE tokens[mIndex + i] = types[i]
    OBVIOUS
  <2>1. Ahead(i) = types[i]
    BY <1>2 DEF Matches
  <2>2. mIndex + i <= Len(tokens)
    BY <1>1, <1>2
  <2> QED
    BY <2>1, <2>2 DEF Ahead
<1>5. Consumed \in Seq(Types)
  BY <1>1, ConsumedType
<1> HIDE DEF n
<1>6. Consumed = types
  <2> DEFINE U == Types \cup T
  <2>1. Types \subseteq U /\ T \subseteq U
    OBVIOUS
  <2> HIDE DEF U
  <2>2. Consumed \in Seq(U) /\ types \in Seq(U)
    BY <1>5, <2>1, SeqMonotonic
  <2>3. Len(Consumed) = Len(types) /\ \A i \in 1 .. Len(Consumed) : Consumed[i] = types[i]
    BY <1>3, <1>4 DEF n
  <2> QED
    BY <2>2, <2>3, SeqEqual
<1> QED
  BY <1>1, <1>6

LEMMA FailSpells ==
    ASSUME NEW what, Fail(what)
    PROVE  YieldIsConsumed'
  BY DEF Fail, YieldIsConsumed

LEMMA MismatchSpells ==
    ASSUME NEW types, Mismatch(types)
    PROVE  YieldIsConsumed'
  BY FailSpells DEF Mismatch

-----------------------------------------------------------------------------
(* The actions                                                              *)

\* What a node spells is what its function has taken when it makes the node.
LEMMA SpellingIs ==
    ASSUME NEW place, NEW kind, NEW read,
           \/ place = "exit" /\ kind = "exit" /\ read = <<"RIGHT_PAREN", "SEMI">>
           \/ place = "assign" /\ kind = "assign" /\ read = <<"SEMI">>
           \/ place = "paren" /\ kind = "paren" /\ read = <<"RIGHT_PAREN">>
           \/ place = "scope.loop" /\ kind = "scope" /\ read = <<"RIGHT_CURLY">>
           \/ place = "if.pred" /\ kind = "if" /\ read = << >>
           \/ place = "while.scope" /\ kind = "while" /\ read = << >>
           \/ place = "elif.pred" /\ kind = "elif" /\ read = << >>
           \/ place = "else" /\ kind = "else" /\ read = << >>
    PROVE  \A k \in Seq(Types) : Spelling(kind, k) = (Terminals(place) \o k) \o read
<1> SUFFICES ASSUME NEW k \in Seq(Types)
             PROVE  Spelling(kind, k) = (Terminals(place) \o k) \o read
  OBVIOUS
<1>1. CASE read # << >>
  <2>1. CASE place = "exit"
    BY <2>1 DEF Spelling, Terminals
  <2>2. CASE place = "assign"
    BY <2>2 DEF Spelling, Terminals
  <2>3. CASE place = "paren"
    BY <2>3 DEF Spelling, Terminals
  <2>4. CASE place = "scope.loop"
    BY <2>4 DEF Spelling, Terminals
  <2> QED
    BY <1>1, <2>1, <2>2, <2>3, <2>4
<1>2. CASE read = << >>
  <2>1. Spelling(kind, k) = Terminals(place) \o k
    BY <1>2 DEF Spelling, Terminals
  <2>2. Terminals(place) \o k \in Seq(Types)
    BY TerminalsType, ConcatProperties
  <2> QED
    BY <1>2, <2>1, <2>2, ConcatEmptySeq
<1> QED
  BY <1>1, <1>2

\* A function that has not called anything yet.
LEMMA NothingTaken ==
    ASSUME ParserTypeOK, status = "running", Top.at \in Entries
    PROVE  Top.kids = << >> /\ WordsBy(Yield, Top) = << >> /\ TreesBy(Yield, Top.kids) = << >>
<1>1. Complete(Top.at) = {0} /\ Top.at # "scope.loop"
  BY EntryFacts
<1>2. Top.kids = << >>
  BY <1>1, TopFrame, EmptySeq
<1>3. Terminals(Top.at) = << >>
  BY DEF Terminals, Entries
<1>4. TreesBy(Yield, Top.kids) = << >>
  BY <1>2, NoTrees
<1> QED
  BY <1>2, <1>3, <1>4, EmptySeq, ConcatEmptySeq DEF WordsBy

\* A function that holds one node.
LEMMA OneTaken ==
    ASSUME ParserTypeOK, status = "running",
           Top.at \in {"exit", "assign", "paren", "else", "block", "expr.term"}
    PROVE  Top.kids = <<Top.kids[1]>> /\ Top.kids[1] \in DOMAIN nodes
<1>1. Held(Top.at) = 0 /\ Top.at \notin Entries \cup {"parse", "scope.loop", "if.pred", "elif.pred"}
  BY DEF Held, Entries
<1>2. Len(Top.kids) = 1 /\ Top.kids[1] \in DOMAIN nodes /\ Top.kids \in Seq(Nat)
  BY <1>1, HeldKids, TopFrame
<1> QED
  BY <1>2

LEMMA CallAtOnce ==
    ASSUME ParserTypeOK, ParserTypeOK', status = "running", YieldIsConsumed, UNCHANGED mIndex,
           NEW place \in Places, NEW callee \in Entries, Call(place, callee),
           Terminals(place) = Terminals(Top.at)
    PROVE  YieldIsConsumed'
<1>1. mIndex' \in mIndex .. Len(tokens) /\ Consumed = << >>
  BY NothingRead
<1>2. WordsBy(Yield, Top) \in Seq(Types)
  BY <1>1, Accounted
<1>3. Terminals(place) \o TreesBy(Yield, Top.kids) = WordsBy(Yield, Top) \o Consumed
  BY <1>1, <1>2, ConcatEmptySeq DEF WordsBy
<1> QED
  BY <1>1, <1>3, CallSpells

LEMMA ConsumeCallSpells ==
    ASSUME ParserTypeOK, ParserTypeOK', status = "running", YieldIsConsumed, Top.at \in Entries,
           NEW T, NoToken \notin T, NEW types \in Seq(T), types # << >>,
           NEW place \in Places, NEW callee \in Entries, Terminals(place) = types,
           TryConsume(types, Call(place, callee))
    PROVE  YieldIsConsumed'
<1>1. CASE Mismatch(types)
  BY <1>1, MismatchSpells
<1>2. CASE Matches(types) /\ mIndex' = mIndex + Len(types) /\ Call(place, callee)
  <2>1. mIndex' \in mIndex .. Len(tokens) /\ Consumed = types
    BY <1>2, MatchesRead
  <2>2. Terminals(place) \o TreesBy(Yield, Top.kids) = WordsBy(Yield, Top) \o Consumed
    BY <2>1, NothingTaken, ConcatEmptySeq
  <2> QED
    BY <1>2, <2>1, <2>2, CallSpells
<1> QED
  BY <1>1, <1>2 DEF TryConsume

LEMMA ReturnAtOnce ==
    ASSUME ParserTypeOK, ParserTypeOK', status = "running", YieldIsConsumed, Top.at # "parse",
           UNCHANGED mIndex, NEW node \in NodeSet, Return(node), node.kids = Top.kids,
           \A k \in Seq(Types) : Spelling(node.kind, k) = (Terminals(Top.at) \o k) \o << >>
    PROVE  YieldIsConsumed'
<1>1. mIndex' \in mIndex .. Len(tokens) /\ Consumed = << >>
  BY NothingRead
<1>2. TreesBy(Yield, Top.kids) \in Seq(Types)
  BY <1>1, Accounted
<1>3. Spelling(node.kind, TreesBy(Yield, Top.kids))
          = (Terminals(Top.at) \o TreesBy(Yield, Top.kids)) \o Consumed
  BY <1>1, <1>2
<1> QED
  BY <1>1, <1>3, ReturnSpells

LEMMA ConsumeReturnSpells ==
    ASSUME ParserTypeOK, ParserTypeOK', status = "running", YieldIsConsumed, Top.at # "parse",
           NEW T, NoToken \notin T, NEW types \in Seq(T), types # << >>,
           NEW node \in NodeSet, node.kids = Top.kids,
           \A k \in Seq(Types) : Spelling(node.kind, k) = (Terminals(Top.at) \o k) \o types,
           TryConsume(types, Return(node))
    PROVE  YieldIsConsumed'
<1>1. CASE Mismatch(types)
  BY <1>1, MismatchSpells
<1>2. CASE Matches(types) /\ mIndex' = mIndex + Len(types) /\ Return(node)
  <2>1. mIndex' \in mIndex .. Len(tokens) /\ Consumed = types
    BY <1>2, MatchesRead
  <2>2. TreesBy(Yield, Top.kids) \in Seq(Types)
    BY <2>1, Accounted
  <2>3. Spelling(node.kind, TreesBy(Yield, Top.kids))
            = (Terminals(Top.at) \o TreesBy(Yield, Top.kids)) \o Consumed
    BY <2>1, <2>2
  <2> QED
    BY <1>2, <2>1, <2>3, ReturnSpells
<1> QED
  BY <1>1, <1>2 DEF TryConsume

\* The statement is the scope, the expression is the term: what was handed back is
\* handed on.
LEMMA PassSpells ==
    ASSUME ParserTypeOK, ParserTypeOK', status = "running", YieldIsConsumed, UNCHANGED mIndex,
           Top.at = "expr.term" \/ Top.at = "block",
           calls' = [Callers EXCEPT ![Len(Callers)].kids = Append(@, Top.kids[1])],
           UNCHANGED <<tokens, nodes, mProg>>
    PROVE  YieldIsConsumed'
<1> DEFINE id == Top.kids[1]
<1>1. mIndex' \in mIndex .. Len(tokens) /\ Consumed = << >> /\ Top.at # "parse"
  BY NothingRead
<1>2. Top.kids = <<id>> /\ id \in DOMAIN nodes
  BY OneTaken
<1>3. id \in 1 .. Len(nodes) /\ Len(nodes) \in Nat /\ Spells(Yield, Len(nodes))
  BY <1>2, HeapFacts
<1>4. Yield[id] \in Seq(Types)
  BY <1>3 DEF Spells
<1>5. WordsBy(Yield, Top) = Yield[id]
  <2>1. Terminals(Top.at) = << >>
    BY DEF Terminals
  <2> HIDE DEF id
  <2>2. TreesBy(Yield, Top.kids) = Yield[id]
    BY <1>2, <1>3, OneTree
  <2> QED
    BY <1>4, <2>1, <2>2, ConcatEmptySeq DEF WordsBy
<1>6. Yield' = Yield
  BY DEF Yield
<1>7. /\ id \in DOMAIN nodes' /\ Yield'[id] = WordsBy(Yield, Top) \o Consumed
      /\ \A d \in DOMAIN nodes : d \in DOMAIN nodes' /\ nodes'[d] = nodes[d]
  <2>1. Yield'[id] = Yield[id]
    BY <1>6
  <2>2. WordsBy(Yield, Top) \o Consumed = Yield[id]
    BY <1>1, <1>4, <1>5, ConcatEmptySeq
  <2> QED
    BY <1>2, <2>1, <2>2
<1>8. calls' = [Callers EXCEPT ![Len(Callers)].kids = Append(@, id)]
  OBVIOUS
<1> HIDE DEF id
<1> QED
  BY <1>1, <1>7, <1>8, HandBackSpells

LEMMA ParseLoopSpells ==
    ASSUME ParserTypeOK, status = "running", YieldIsConsumed, ParseLoop
    PROVE  YieldIsConsumed'
<1> DEFINE m == Len(nodes)
           y == Yield
           s == Top.kids
           p == mProg
           more == mProg \o Top.kids
<1>1. /\ Top.at = "parse" /\ Len(calls) = 1 /\ mProg' = more
      /\ UNCHANGED <<tokens, mIndex, nodes>>
  BY TopFrame DEF ParseLoop, At
<1>2. mIndex' \in mIndex .. Len(tokens) /\ Consumed = << >>
  BY <1>1, NothingRead
<1>3. m \in Nat /\ Spells(y, m) /\ s \in Seq(1 .. m) /\ p \in Seq(1 .. m)
  BY HeapFacts, StateFacts, Stacked DEF FramesOver
<1>4. s = << >> \/ (s = <<s[1]>> /\ s[1] \in 1 .. m)
  <2>1. Complete(Top.at) = {0, 1}
    <3>1. Held(Top.at) = 0 /\ Top.at \notin Entries
      BY <1>1 DEF Held, Entries
    <3> QED
      BY <1>1, <3>1 DEF Complete
  <2>2. Len(s) \in {0, 1}
    BY <1>1, <2>1, TopFrame
  <2> HIDE DEF s, m
  <2> QED
    BY <1>3, <2>2
<1>5. TreesBy(y, more) = TreesBy(y, p) \o TreesBy(y, s)
  <2>1. more = p \o s
    OBVIOUS
  <2> HIDE DEF m, y, s, p, more
  <2>2. TreesBy(y, p) \in Seq(Types)
    BY <1>3, YieldsType
  <2>3. CASE s = << >>
    <3>1. more = p
      BY <1>3, <2>1, <2>3, ConcatEmptySeq
    <3> QED
      BY <2>2, <2>3, <3>1, NoTrees, ConcatEmptySeq
  <2>4. CASE s = <<s[1]>> /\ s[1] \in 1 .. m
    <3>1. more = Append(p, s[1])
      BY <1>3, <2>1, <2>4, AppendIsConcat
    <3>2. TreesBy(y, s) = y[s[1]]
      BY <1>3, <2>4, OneTree
    <3> QED
      BY <1>3, <2>4, <3>1, <3>2, OneTreeMore
  <2> QED
    BY <1>4, <2>3, <2>4
<1>6. Callers = << >>
  <2>1. Callers \in Seq(FramesOver(m)) /\ Len(Callers) = 0
    BY <1>1, Stacked
  <2> QED
    BY <2>1, EmptySeq
<1>7. TreesBy(y, more) = SubSeq(tokens, 1, mIndex')
  <2>1. TreesBy(y, p) \o (StackBy(y, Callers) \o (WordsBy(y, Top) \o Consumed)) = SubSeq(tokens, 1, mIndex')
    BY <1>2, Accounted
  <2>2. StackBy(y, Callers) = << >>
    BY <1>6, NoFrames
  <2>3. WordsBy(y, Top) = << >> \o TreesBy(y, s)
    BY <1>1 DEF WordsBy, Terminals
  <2>4. TreesBy(y, s) \in Seq(Types)
    BY <1>2, Accounted
  <2> HIDE DEF y, s, p, more, m
  <2> QED
    BY <1>2, <1>5, <2>1, <2>2, <2>3, <2>4, ConcatEmptySeq
<1>8. StackBy(y, calls') = << >>
  <2>1. CASE calls' = << >>
    BY <2>1, NoFrames
  <2>2. CASE calls' = <<Frame("parse", 0), Frame("stmt", mIndex)>>
    <3> DEFINE f == Frame("parse", 0)
               g == Frame("stmt", mIndex)
               F == FramesOver(m)
    <3>1. /\ f \in F /\ f.at = "parse" /\ f.kids = << >>
          /\ g \in F /\ g.at = "stmt" /\ g.kids = << >>
      <4>1. << >> \in Seq(1 .. m) /\ mIndex \in Nat
        BY EmptySeq DEF ParserTypeOK
      <4> QED
        BY <4>1 DEF Frame, FramesOver, Places, StmtPlaces
    <3>2. << >> \in Seq(F) /\ calls' = Append(Append(<< >>, f), g)
      BY <2>2
    <3> HIDE DEF f, g
    <3>3. WordsBy(y, f) = << >> /\ WordsBy(y, g) = << >>
      BY <3>1, NoTrees, ConcatEmptySeq, EmptySeq DEF WordsBy, Terminals
    <3> HIDE DEF y, m, F
    <3>4. Append(<< >>, f) \in Seq(F)
      BY <3>1, <3>2, AppendProperties
    <3>5. StackBy(y, Append(<< >>, f)) = StackBy(y, << >>) \o WordsBy(y, f)
      BY <1>3, <3>1, <3>2, OneFrameMore DEF F
    <3>6. StackBy(y, calls') = StackBy(y, Append(<< >>, f)) \o WordsBy(y, g)
      BY <1>3, <3>1, <3>2, <3>4, OneFrameMore DEF F
    <3> QED
      BY <3>3, <3>5, <3>6, NoFrames, ConcatEmptySeq, EmptySeq
  <2> QED
    BY <1>1, <2>1, <2>2 DEF ParseLoop
<1>9. Yield' = Yield
  BY <1>1 DEF Yield
<1>10. TreesBy(y, more) \o StackBy(y, calls') = SubSeq(tokens, 1, mIndex')
  <2>1. TreesBy(y, more) \in Seq(Types)
    <3>1. p \o s \in Seq(1 .. m)
      BY <1>3, ConcatProperties
    <3>2. more = p \o s
      OBVIOUS
    <3> HIDE DEF more, p, s, y, m
    <3> QED
      BY <1>3, <3>1, <3>2, YieldsType
  <2> HIDE DEF y, more
  <2> QED
    BY <1>7, <1>8, <2>1, ConcatEmptySeq
<1> QED
  BY <1>1, <1>9, <1>10, ConsumedIsNext

LEMMA ScopeSpells ==
    ASSUME ParserTypeOK, ParserTypeOK', status = "running", YieldIsConsumed, Scope
    PROVE  YieldIsConsumed'
<1> DEFINE m == Len(nodes)
           f == [Top EXCEPT !.at = "scope.loop"]
           one == <<"LEFT_CURLY">>
<1>1. Top.at = "scope" /\ Top.at \in Entries
  BY DEF Scope, At, Entries
<1>2. CASE Mismatch(one)
  BY <1>2, MismatchSpells
<1>3. CASE /\ Matches(one) /\ mIndex' = mIndex + Len(one)
           /\ calls' = [calls EXCEPT ![Len(calls)].at = "scope.loop"]
           /\ UNCHANGED <<tokens, status, error, nodes, mProg>>
  <2>1. mIndex' \in mIndex .. Len(tokens) /\ Consumed = one
    <3>1. one \in Seq({"LEFT_CURLY"}) /\ one # << >> /\ NoToken \notin {"LEFT_CURLY"}
      BY DEF NoToken
    <3> HIDE DEF one
    <3> QED
      BY <1>3, <3>1, MatchesRead
  <2>2. /\ m \in Nat /\ Spells(Yield, m) /\ Callers \in Seq(FramesOver(m)) /\ Top \in FramesOver(m)
        /\ \A e \in FramesOver(m) : WithLast(calls, e) = Append(Callers, e)
    BY HeapFacts, Stacked
  <2>3. f \in FramesOver(m) /\ f.at = "scope.loop" /\ f.kids = Top.kids
    BY <2>2 DEF FramesOver, Places
  <2>4. calls' = WithLast(calls, f)
    BY <1>3 DEF Top, WithLast
  <2> HIDE DEF f, m
  <2>5. calls' = Append(Callers, f)
    BY <2>2, <2>3, <2>4
  <2>6. StackBy(Yield, calls') = StackBy(Yield, Callers) \o WordsBy(Yield, f)
    BY <2>2, <2>3, <2>5, OneFrameMore
  <2>7. WordsBy(Yield, f) = WordsBy(Yield, Top) \o Consumed
    <3>1. Terminals(f.at) = one
      BY <2>3 DEF Terminals
    <3>2. WordsBy(Yield, Top) = << >> /\ TreesBy(Yield, f.kids) = << >>
      BY <1>1, <2>3, NothingTaken
    <3>3. Consumed \in Seq(Types)
      BY <2>1, Accounted
    <3> HIDE DEF one
    <3> QED
      BY <2>1, <3>1, <3>2, <3>3, ConcatEmptySeq DEF WordsBy
  <2>8. Yield' = Yield
    BY <1>3 DEF Yield
  <2>9. TreesBy(Yield', mProg') \o StackBy(Yield', calls') = SubSeq(tokens, 1, mIndex')
    <3>1. TreesBy(Yield, mProg) \o (StackBy(Yield, Callers) \o (WordsBy(Yield, Top) \o Consumed))
              = SubSeq(tokens, 1, mIndex')
      BY <2>1, Accounted
    <3> QED
      BY <1>3, <2>6, <2>7, <2>8, <3>1
  <2> QED
    BY <1>3, <2>9, ConsumedIsNext
<1> QED
  BY <1>2, <1>3 DEF Scope, TryConsume

LEMMA StatementSpells ==
    ASSUME ParserTypeOK, ParserTypeOK', status = "running", YieldIsConsumed, Statement
    PROVE  YieldIsConsumed'
<1>1. Top.at = "stmt" /\ Top.at \in Entries
  BY DEF Statement, At, Entries
<1>2. CASE TryConsume(<<"EXIT", "LEFT_PAREN">>, Call("exit", "expr"))
  <2>1. /\ <<"EXIT", "LEFT_PAREN">> \in Seq({"EXIT", "LEFT_PAREN"})
        /\ <<"EXIT", "LEFT_PAREN">> # << >> /\ NoToken \notin {"EXIT", "LEFT_PAREN"}
        /\ Terminals("exit") = <<"EXIT", "LEFT_PAREN">>
    BY DEF NoToken, Terminals
  <2>2. "exit" \in Places /\ "expr" \in Entries
    BY FirstPlaces
  <2> QED
    BY <1>1, <1>2, <2>1, <2>2, ConsumeCallSpells
<1>3. CASE TryConsume(<<"IDENT">>, Call("assign", "expr"))
  <2>1. /\ <<"IDENT">> \in Seq({"IDENT"}) /\ <<"IDENT">> # << >> /\ NoToken \notin {"IDENT"}
        /\ Terminals("assign") = <<"IDENT">>
    BY DEF NoToken, Terminals
  <2>2. "assign" \in Places /\ "expr" \in Entries
    BY FirstPlaces
  <2> QED
    BY <1>1, <1>3, <2>1, <2>2, ConsumeCallSpells
<1>4. CASE TryConsume(<<"IF">>, Call("if.expr", "expr"))
  <2>1. /\ <<"IF">> \in Seq({"IF"}) /\ <<"IF">> # << >> /\ NoToken \notin {"IF"}
        /\ Terminals("if.expr") = <<"IF">>
    BY DEF NoToken, Terminals
  <2>2. "if.expr" \in Places /\ "expr" \in Entries
    BY FirstPlaces
  <2> QED
    BY <1>1, <1>4, <2>1, <2>2, ConsumeCallSpells
<1>5. CASE TryConsume(<<"WHILE">>, Call("while.expr", "expr"))
  <2>1. /\ <<"WHILE">> \in Seq({"WHILE"}) /\ <<"WHILE">> # << >> /\ NoToken \notin {"WHILE"}
        /\ Terminals("while.expr") = <<"WHILE">>
    BY DEF NoToken, Terminals
  <2>2. "while.expr" \in Places /\ "expr" \in Entries
    BY FirstPlaces
  <2> QED
    BY <1>1, <1>5, <2>1, <2>2, ConsumeCallSpells
<1>6. CASE UNCHANGED mIndex /\ Call("block", "scope")
  <2>1. "block" \in Places /\ "scope" \in Entries
    BY FirstPlaces
  <2>2. Terminals("block") = Terminals(Top.at)
    BY <1>1 DEF Terminals
  <2> QED
    BY <1>6, <2>1, <2>2, CallAtOnce
<1>7. CASE Fail("statement")
  BY <1>7, FailSpells
<1> QED
  BY <1>2, <1>3, <1>4, <1>5, <1>6, <1>7 DEF Statement

LEMMA IfPredSpells ==
    ASSUME ParserTypeOK, ParserTypeOK', status = "running", YieldIsConsumed, IfPred
    PROVE  YieldIsConsumed'
<1>1. Top.at = "pred" /\ Top.at \in Entries
  BY DEF IfPred, At, Entries
<1>2. CASE TryConsume(<<"ELIF">>, Call("elif.expr", "expr"))
  <2>1. /\ <<"ELIF">> \in Seq({"ELIF"}) /\ <<"ELIF">> # << >> /\ NoToken \notin {"ELIF"}
        /\ Terminals("elif.expr") = <<"ELIF">>
    BY DEF NoToken, Terminals
  <2>2. "elif.expr" \in Places /\ "expr" \in Entries
    BY FirstPlaces
  <2> QED
    BY <1>1, <1>2, <2>1, <2>2, ConsumeCallSpells
<1>3. CASE TryConsume(<<"ELSE">>, Call("else", "scope"))
  <2>1. /\ <<"ELSE">> \in Seq({"ELSE"}) /\ <<"ELSE">> # << >> /\ NoToken \notin {"ELSE"}
        /\ Terminals("else") = <<"ELSE">>
    BY DEF NoToken, Terminals
  <2>2. "else" \in Places /\ "scope" \in Entries
    BY FirstPlaces
  <2> QED
    BY <1>1, <1>3, <2>1, <2>2, ConsumeCallSpells
<1>4. CASE UNCHANGED mIndex /\ ReturnNothing
  <2>1. mIndex' \in mIndex .. Len(tokens) /\ Consumed = << >>
    BY <1>4, NothingRead
  <2>2. WordsBy(Yield, Top) = << >>
    BY <1>1, NothingTaken
  <2>3. /\ StackBy(Yield, Callers) \in Seq(Types)
        /\ TreesBy(Yield, mProg) \o (StackBy(Yield, Callers) \o (WordsBy(Yield, Top) \o Consumed))
           = SubSeq(tokens, 1, mIndex')
    BY <2>1, Accounted
  <2>4. TreesBy(Yield, mProg) \o StackBy(Yield, Callers) = SubSeq(tokens, 1, mIndex')
    BY <2>1, <2>2, <2>3, ConcatEmptySeq, EmptySeq
  <2>5. calls' = Callers /\ tokens' = tokens /\ nodes' = nodes /\ mProg' = mProg
    BY <1>4 DEF ReturnNothing
  <2>6. Yield' = Yield
    BY <2>5 DEF Yield
  <2> QED
    BY <2>4, <2>5, <2>6, ConsumedIsNext
<1> QED
  BY <1>2, <1>3, <1>4 DEF IfPred

\* exit, assignment and a term in parentheses: a node of the one node held.
LEMMA ExitEndSpells ==
    ASSUME ParserTypeOK, ParserTypeOK', status = "running", YieldIsConsumed, ExitEnd
    PROVE  YieldIsConsumed'
<1> DEFINE node == Node("exit", 0, <<Top.kids[1]>>)
           types == <<"RIGHT_PAREN", "SEMI">>
<1>1. Top.at = "exit" /\ Top.at # "parse" /\ TryConsume(types, Return(node))
  BY DEF ExitEnd, At, StmtExitNode
<1>2. node \in NodeSet
  BY <1>1, OneKid
<1>3. node.kids = Top.kids /\ node.kind = "exit"
  BY <1>1, OneTaken DEF Node
<1>4. types \in Seq({"RIGHT_PAREN", "SEMI"}) /\ types # << >> /\ NoToken \notin {"RIGHT_PAREN", "SEMI"}
  BY DEF NoToken
<1>5. \A k \in Seq(Types) : Spelling(node.kind, k) = (Terminals(Top.at) \o k) \o types
  BY <1>1, <1>3, SpellingIs
<1> HIDE DEF node, types
<1> QED
  BY <1>1, <1>2, <1>3, <1>4, <1>5, ConsumeReturnSpells

LEMMA AssignEndSpells ==
    ASSUME ParserTypeOK, ParserTypeOK', status = "running", YieldIsConsumed, AssignEnd
    PROVE  YieldIsConsumed'
<1> DEFINE node == Node("assign", Top.start + 1, <<Top.kids[1]>>)
           types == <<"SEMI">>
<1>1. Top.at = "assign" /\ Top.at # "parse" /\ TryConsume(types, Return(node))
  BY DEF AssignEnd, At, StmtAssignNode
<1>2. node \in NodeSet
  <2>1. Top.start + 1 \in Nat
    BY TopFrame
  <2> QED
    BY <1>1, <2>1, OneKid
<1>3. node.kids = Top.kids /\ node.kind = "assign"
  BY <1>1, OneTaken DEF Node
<1>4. types \in Seq({"SEMI"}) /\ types # << >> /\ NoToken \notin {"SEMI"}
  BY DEF NoToken
<1>5. \A k \in Seq(Types) : Spelling(node.kind, k) = (Terminals(Top.at) \o k) \o types
  BY <1>1, <1>3, SpellingIs
<1> HIDE DEF node, types
<1> QED
  BY <1>1, <1>2, <1>3, <1>4, <1>5, ConsumeReturnSpells

LEMMA ParenEndSpells ==
    ASSUME ParserTypeOK, ParserTypeOK', status = "running", YieldIsConsumed, ParenEnd
    PROVE  YieldIsConsumed'
<1> DEFINE node == Node("paren", 0, <<Top.kids[1]>>)
           types == <<"RIGHT_PAREN">>
<1>1. Top.at = "paren" /\ Top.at # "parse" /\ TryConsume(types, Return(node))
  BY DEF ParenEnd, At, TermExprNode
<1>2. node \in NodeSet
  BY <1>1, OneKid
<1>3. node.kids = Top.kids /\ node.kind = "paren"
  BY <1>1, OneTaken DEF Node
<1>4. types \in Seq({"RIGHT_PAREN"}) /\ types # << >> /\ NoToken \notin {"RIGHT_PAREN"}
  BY DEF NoToken
<1>5. \A k \in Seq(Types) : Spelling(node.kind, k) = (Terminals(Top.at) \o k) \o types
  BY <1>1, <1>3, SpellingIs
<1> HIDE DEF node, types
<1> QED
  BY <1>1, <1>2, <1>3, <1>4, <1>5, ConsumeReturnSpells

LEMMA ElseEndSpells ==
    ASSUME ParserTypeOK, ParserTypeOK', status = "running", YieldIsConsumed, ElseEnd
    PROVE  YieldIsConsumed'
<1> DEFINE node == Node("else", 0, <<Top.kids[1]>>)
<1>1. Top.at = "else" /\ Top.at # "parse" /\ UNCHANGED mIndex /\ Return(node)
  BY DEF ElseEnd, At, IfPredElseNode
<1>2. node \in NodeSet
  BY <1>1, OneKid
<1>3. node.kids = Top.kids /\ node.kind = "else"
  BY <1>1, OneTaken DEF Node
<1>4. \A k \in Seq(Types) : Spelling(node.kind, k) = (Terminals(Top.at) \o k) \o << >>
  BY <1>1, <1>3, SpellingIs
<1> HIDE DEF node
<1> QED
  BY <1>1, <1>2, <1>3, <1>4, ReturnAtOnce

LEMMA WhileEndSpells ==
    ASSUME ParserTypeOK, ParserTypeOK', status = "running", YieldIsConsumed, WhileEnd
    PROVE  YieldIsConsumed'
<1> DEFINE node == Node("while", 0, Top.kids)
<1>1. Top.at = "while.scope" /\ Top.at # "parse" /\ UNCHANGED mIndex
      /\ Return(Node("while", 0, <<Top.kids[1], Top.kids[2]>>))
  BY DEF WhileEnd, At, StmtWhileNode
<1>2. Top.kids = <<Top.kids[1], Top.kids[2]>>
  <2>1. Held(Top.at) = 1 /\ Top.at \notin Entries \cup {"parse", "scope.loop", "if.pred", "elif.pred"}
    BY <1>1 DEF Held, Entries
  <2>2. Len(Top.kids) = 2 /\ Top.kids \in Seq(Nat)
    BY <2>1, HeldKids, TopFrame
  <2> QED
    BY <2>2
<1>3. node \in NodeSet
  BY <1>1, AllKids
<1>4. Return(node)
  BY <1>1, <1>2
<1>5. node.kids = Top.kids /\ node.kind = "while"
  BY DEF Node
<1>6. \A k \in Seq(Types) : Spelling(node.kind, k) = (Terminals(Top.at) \o k) \o << >>
  BY <1>1, <1>5, SpellingIs
<1> HIDE DEF node
<1> QED
  BY <1>1, <1>3, <1>4, <1>5, <1>6, ReturnAtOnce

LEMMA PredicateEndSpells ==
    ASSUME ParserTypeOK, ParserTypeOK', status = "running", YieldIsConsumed, UNCHANGED mIndex,
           NEW kind,
           \/ Top.at = "if.pred" /\ kind = "if"
           \/ Top.at = "elif.pred" /\ kind = "elif",
           Return(Node(kind, 0, <<Top.kids[1], Top.kids[2]>> \o SubSeq(Top.kids, 3, Len(Top.kids))))
    PROVE  YieldIsConsumed'
<1> DEFINE node == Node(kind, 0, Top.kids)
<1>1. Complete(Top.at) = {2, 3}
  BY DEF Complete, Held, Entries
<1>2. (Len(Top.kids) = 2 \/ Len(Top.kids) = 3) /\ Top.kids \in Seq(Nat) /\ Top.at # "parse"
  BY <1>1, TopFrame
<1>3. Return(node)
  BY <1>2, Rebuilt
<1>4. node \in NodeSet
  BY AllKids
<1>5. node.kids = Top.kids /\ node.kind = kind
  BY DEF Node
<1>6. \A k \in Seq(Types) : Spelling(node.kind, k) = (Terminals(Top.at) \o k) \o << >>
  <2>1. CASE Top.at = "if.pred" /\ kind = "if"
    BY <1>5, <2>1, SpellingIs
  <2>2. CASE Top.at = "elif.pred" /\ kind = "elif"
    BY <1>5, <2>2, SpellingIs
  <2> QED
    BY <2>1, <2>2, Zenon
<1> HIDE DEF node
<1> QED
  BY <1>2, <1>3, <1>4, <1>5, <1>6, ReturnAtOnce

LEMMA ScopeLoopSpells ==
    ASSUME ParserTypeOK, ParserTypeOK', status = "running", YieldIsConsumed, ScopeLoop
    PROVE  YieldIsConsumed'
<1>1. Top.at = "scope.loop" /\ Top.at # "parse"
  BY DEF ScopeLoop, At
<1>2. CASE UNCHANGED mIndex /\ Call("scope.loop", "stmt")
  <2>1. "scope.loop" \in Places /\ "stmt" \in Entries
    BY DEF Places, Entries
  <2> QED
    BY <1>1, <1>2, <2>1, CallAtOnce
<1>3. CASE TryConsume(<<"RIGHT_CURLY">>, Return(ScopeNode(Top.kids)))
  <2> DEFINE node == Node("scope", 0, Top.kids)
             types == <<"RIGHT_CURLY">>
  <2>1. TryConsume(types, Return(node))
    BY <1>3 DEF ScopeNode
  <2>2. node \in NodeSet
    BY <1>1, AllKids
  <2>3. node.kids = Top.kids /\ node.kind = "scope"
    BY DEF Node
  <2>4. types \in Seq({"RIGHT_CURLY"}) /\ types # << >> /\ NoToken \notin {"RIGHT_CURLY"}
    BY DEF NoToken
  <2>5. \A k \in Seq(Types) : Spelling(node.kind, k) = (Terminals(Top.at) \o k) \o types
    BY <1>1, <2>3, SpellingIs
  <2> HIDE DEF node, types
  <2> QED
    BY <1>1, <2>1, <2>2, <2>3, <2>4, <2>5, ConsumeReturnSpells
<1> QED
  BY <1>2, <1>3 DEF ScopeLoop

\* A term consumes its token before it looks at it.
LEMMA TermSpells ==
    ASSUME ParserTypeOK, ParserTypeOK', status = "running", YieldIsConsumed, Term
    PROVE  YieldIsConsumed'
<1> DEFINE node == Node("ident", mIndex + 1, << >>)
<1>1. Top.at = "term" /\ Top.at # "parse" /\ Top.at \in Entries /\ mIndex \in Nat
  BY DEF Term, At, Entries, ParserTypeOK
<1>2. ASSUME NEW type \in {"IDENT", "LEFT_PAREN"}, Ahead(1) = type
      PROVE  mIndex' \in mIndex .. Len(tokens) /\ Consumed = <<type>>
  <2> DEFINE types == <<type>>
  <2>1. mIndex' = mIndex + 1
    BY <1>2 DEF Term, NoToken
  <2>2. /\ types \in Seq({"IDENT", "LEFT_PAREN"}) /\ types # << >> /\ Len(types) = 1
        /\ DOMAIN types = {1} /\ types[1] = type /\ NoToken \notin {"IDENT", "LEFT_PAREN"}
    BY DEF NoToken
  <2> HIDE DEF types
  <2>3. Matches(types)
    BY <1>2, <2>2 DEF Matches
  <2>4. mIndex' = mIndex + Len(types)
    BY <2>1, <2>2
  <2>5. mIndex' \in mIndex .. Len(tokens) /\ Consumed = types
    BY <2>2, <2>3, <2>4, MatchesRead
  <2> QED
    BY <2>5 DEF types
<1>3. CASE Ahead(1) = "IDENT" /\ Return(node)
  <2>1. mIndex' \in mIndex .. Len(tokens) /\ Consumed = <<"IDENT">>
    BY <1>2, <1>3
  <2>2. node \in NodeSet
    BY <1>1, EmptySeq DEF Node, NodeSet, AllKinds, ExprKinds, TermKinds
  <2>3. Top.kids = << >> /\ TreesBy(Yield, Top.kids) = << >>
    BY <1>1, NothingTaken
  <2>4. node.kids = Top.kids /\ node.kind = "ident"
    BY <2>3 DEF Node
  <2>5. Spelling("ident", TreesBy(Yield, Top.kids))
            = (Terminals("term") \o TreesBy(Yield, Top.kids)) \o <<"IDENT">>
    BY <2>3 DEF Spelling, Terminals
  <2> HIDE DEF node
  <2>6. Spelling(node.kind, TreesBy(Yield, Top.kids))
            = (Terminals(Top.at) \o TreesBy(Yield, Top.kids)) \o Consumed
    BY <1>1, <2>1, <2>4, <2>5
  <2> QED
    BY <1>1, <1>3, <2>1, <2>2, <2>4, <2>6, ReturnSpells
<1>4. CASE Ahead(1) = "LEFT_PAREN" /\ Call("paren", "expr")
  <2>1. mIndex' \in mIndex .. Len(tokens) /\ Consumed = <<"LEFT_PAREN">>
    BY <1>2, <1>4
  <2>2. "paren" \in Places /\ "expr" \in Entries
    BY FirstPlaces
  <2>3. Terminals("paren") \o TreesBy(Yield, Top.kids) = WordsBy(Yield, Top) \o Consumed
    <3>1. Terminals("paren") = <<"LEFT_PAREN">>
      BY DEF Terminals
    <3>2. WordsBy(Yield, Top) = << >> /\ TreesBy(Yield, Top.kids) = << >>
      BY <1>1, NothingTaken
    <3> QED
      BY <2>1, <3>1, <3>2
  <2> QED
    BY <1>4, <2>1, <2>2, <2>3, CallSpells
<1>5. CASE Fail("term")
  BY <1>5, FailSpells
<1> QED
  BY <1>3, <1>4, <1>5 DEF Term, TermIdentNode

-----------------------------------------------------------------------------
(* The theorem                                                              *)

LEMMA YieldInit == ParserInit => YieldIsConsumed
<1> SUFFICES ASSUME ParserInit PROVE YieldIsConsumed
  OBVIOUS
<1> DEFINE f == Frame("parse", 0)
           F == FramesOver(0)
           y == Yield
<1>1. /\ mProg = << >> /\ calls = Append(<< >>, f) /\ mIndex = 0 /\ tokens \in Seq(STRING)
      /\ f.at = "parse" /\ f.kids = << >>
  BY TokenAssumption DEF ParserInit, Frame
<1>2. f \in F /\ << >> \in Seq(F) /\ Spells(y, 0)
  BY EmptySeq DEF Frame, FramesOver, Places, Spells
<1> HIDE DEF f, F, y
<1>3. WordsBy(y, f) = << >>
  BY <1>1, NoTrees, ConcatEmptySeq, EmptySeq DEF WordsBy, Terminals
<1>4. StackBy(y, Append(<< >>, f)) = StackBy(y, << >>) \o WordsBy(y, f)
  BY <1>2, OneFrameMore DEF F
<1>5. TreesBy(y, mProg) \o StackBy(y, calls) = << >>
  BY <1>1, <1>3, <1>4, NoTrees, NoFrames, ConcatEmptySeq, EmptySeq
<1>6. SubSeq(tokens, 1, mIndex) = << >>
  BY <1>1, SubSeqEmpty
<1> QED
  BY <1>5, <1>6, ConsumedIs DEF y

LEMMA YieldStep ==
    ASSUME ParserTypeOK, ParserTypeOK', status = "running", YieldIsConsumed, ParserStep
    PROVE  YieldIsConsumed'
<1>1. CASE ParseLoop
  BY <1>1, ParseLoopSpells
<1>2. ASSUME UNCHANGED mIndex, NEW place, NEW callee, Call(place, callee),
             \/ Top.at = "if.expr" /\ place = "if.scope" /\ callee = "scope"
             \/ Top.at = "if.scope" /\ place = "if.pred" /\ callee = "pred"
             \/ Top.at = "while.expr" /\ place = "while.scope" /\ callee = "scope"
             \/ Top.at = "elif.expr" /\ place = "elif.scope" /\ callee = "scope"
             \/ Top.at = "elif.scope" /\ place = "elif.pred" /\ callee = "pred"
             \/ Top.at = "expr" /\ place = "expr.term" /\ callee = "term"
      PROVE  YieldIsConsumed'
  <2>1. place \in Places /\ callee \in Entries
    BY <1>2 DEF Places, StmtPlaces, PredPlaces, Entries
  <2>2. Terminals(place) = Terminals(Top.at)
    BY <1>2 DEF Terminals
  <2> QED
    BY <1>2, <2>1, <2>2, CallAtOnce
<1>3. CASE ParseStatement
  <2>1. CASE IfScope
    BY <1>2, <2>1 DEF IfScope, At
  <2>2. CASE IfPredicate
    BY <1>2, <2>2 DEF IfPredicate, At
  <2>3. CASE WhileScope
    BY <1>2, <2>3 DEF WhileScope, At
  <2>4. CASE IfEnd
    BY <2>4, PredicateEndSpells DEF IfEnd, At, StmtIfNode
  <2>5. CASE BlockEnd
    BY <2>5, PassSpells DEF BlockEnd, At
  <2> QED
    BY <1>3, <2>1, <2>2, <2>3, <2>4, <2>5, StatementSpells, ExitEndSpells, AssignEndSpells,
       WhileEndSpells DEF ParseStatement
<1>4. CASE ParseExpression
  <2>1. CASE Expression
    BY <1>2, <2>1 DEF Expression, At
  <2>2. CASE ExpressionEnd
    BY <2>2, PassSpells, FailSpells DEF ExpressionEnd, At
  <2> QED
    BY <1>4, <2>1, <2>2 DEF ParseExpression
<1>5. CASE ParseScope
  BY <1>5, ScopeSpells, ScopeLoopSpells DEF ParseScope
<1>6. CASE ParseIfPred
  <2>1. CASE ElifScope
    BY <1>2, <2>1 DEF ElifScope, At
  <2>2. CASE ElifPredicate
    BY <1>2, <2>2 DEF ElifPredicate, At
  <2>3. CASE ElifEnd
    BY <2>3, PredicateEndSpells DEF ElifEnd, At, IfPredElifNode
  <2> QED
    BY <1>6, <2>1, <2>2, <2>3, IfPredSpells, ElseEndSpells DEF ParseIfPred
<1>7. CASE ParseTerm
  BY <1>7, TermSpells, ParenEndSpells DEF ParseTerm
<1> QED
  BY <1>1, <1>3, <1>4, <1>5, <1>6, <1>7 DEF ParserStep

LEMMA YieldStays == YieldIsConsumed /\ UNCHANGED pvars => YieldIsConsumed'
<1> SUFFICES ASSUME YieldIsConsumed, UNCHANGED pvars PROVE YieldIsConsumed'
  OBVIOUS
<1>1. /\ tokens' = tokens /\ mIndex' = mIndex /\ calls' = calls /\ status' = status
      /\ mProg' = mProg /\ Yield' = Yield
  BY DEF pvars, Yield
<1>2. CASE status = "failed"
  BY <1>1, <1>2 DEF YieldIsConsumed
<1>3. CASE status # "failed"
  BY <1>1, <1>3, ConsumedIs, ConsumedIsNext
<1> QED
  BY <1>2, <1>3

\* For every token sequence and at every moment, the finished statements followed by
\* what each suspended function has taken, outermost first, spell exactly the tokens
\* up to mIndex: the parser drops, invents, repeats and reorders nothing
\* (parser.cpp:22, 405, 437, 481), and a program that is accepted is spelled by its
\* tree.
THEOREM YieldTheorem == ParserSpec => []YieldIsConsumed
<1>1. ParserInit => YieldIsConsumed
  BY YieldInit
<1>2. ParserTypeOK /\ ParserTypeOK' /\ YieldIsConsumed /\ [ParserNext]_pvars => YieldIsConsumed'
  <2> SUFFICES ASSUME ParserTypeOK, ParserTypeOK', YieldIsConsumed, [ParserNext]_pvars
               PROVE  YieldIsConsumed'
    OBVIOUS
  <2>1. CASE ParserStep
    BY <2>1, YieldStep, ParserRuns
  <2>2. CASE UNCHANGED pvars
    BY <2>2, YieldStays
  <2> QED
    BY <2>1, <2>2 DEF ParserNext, ParserStopped
<1> QED
  BY <1>1, <1>2, ParserTypeTheorem, PTL DEF ParserSpec

-----------------------------------------------------------------------------
(* The end of parse().                                                      *)

\* The tokens are the lexer's, and parse() ends behind the last.
ReadInv ==
    /\ tokens \in TokenLists
    /\ YieldIsConsumed
    /\ status = "done" => mIndex = Len(tokens)

\* Only the loop of parse() ends it.
LEMMA StepKeeps == ParserStep => UNCHANGED tokens /\ (ParseLoop \/ status' \in {status, "failed"})
<1>1. ParseLoop => UNCHANGED tokens
  BY DEF ParseLoop
<1>2. ParseStatement => UNCHANGED tokens /\ status' \in {status, "failed"}
  BY DEF ParseStatement, Statement, ExitEnd, AssignEnd, IfScope, IfPredicate, IfEnd, WhileScope,
         WhileEnd, BlockEnd, TryConsume, Mismatch, Fail, Call, Return
<1>3. ParseExpression => UNCHANGED tokens /\ status' \in {status, "failed"}
  BY DEF ParseExpression, Expression, ExpressionEnd, Fail, Call
<1>4. ParseScope => UNCHANGED tokens /\ status' \in {status, "failed"}
  BY DEF ParseScope, Scope, ScopeLoop, TryConsume, Mismatch, Fail, Call, Return
<1>5. ParseIfPred => UNCHANGED tokens /\ status' \in {status, "failed"}
  BY DEF ParseIfPred, IfPred, ElifScope, ElifPredicate, ElifEnd, ElseEnd, ReturnNothing,
         TryConsume, Mismatch, Fail, Call, Return
<1>6. ParseTerm => UNCHANGED tokens /\ status' \in {status, "failed"}
  BY DEF ParseTerm, Term, ParenEnd, TryConsume, Mismatch, Fail, Call, Return
<1> QED
  BY <1>1, <1>2, <1>3, <1>4, <1>5, <1>6 DEF ParserStep

LEMMA ReadStep ==
    ASSUME ParserTypeOK, ParserTypeOK', ReadInv, ParserStep
    PROVE  ReadInv'
<1>1. status = "running" /\ YieldIsConsumed /\ tokens \in TokenLists
  BY ParserRuns DEF ReadInv
<1>2. YieldIsConsumed' /\ tokens' = tokens
  BY <1>1, YieldStep, StepKeeps
<1>3. ASSUME status' = "done" PROVE mIndex' = Len(tokens')
  <2>1. ParseLoop
    BY <1>1, <1>3, StepKeeps
  <2>2. Ahead(1) = NoToken /\ mIndex' = mIndex
    BY <1>1, <1>3, <2>1 DEF ParseLoop
  <2>3. mIndex \in Nat /\ Len(tokens) \in Nat /\ mIndex <= Len(tokens)
        /\ DOMAIN tokens = 1 .. Len(tokens)
    BY LenProperties DEF ParserTypeOK
  <2>4. ASSUME mIndex + 1 <= Len(tokens) PROVE FALSE
    <3>1. Ahead(1) = tokens[mIndex + 1] /\ mIndex + 1 \in DOMAIN tokens
      BY <2>3, <2>4 DEF Ahead
    <3> QED
      BY <1>1, <2>2, <3>1, NoTokenAssumption
  <2>5. PICK m, l : m = mIndex /\ l = Len(tokens)
    OBVIOUS
  <2>6. m \in Nat /\ l \in Nat /\ m <= l /\ ~(m + 1 <= l)
    BY <2>3, <2>4, <2>5
  <2>7. m = l
    BY <2>6
  <2> QED
    BY <1>2, <2>2, <2>5, <2>7, Zenon
<1> QED
  BY <1>1, <1>2, <1>3 DEF ReadInv

LEMMA ReadStays == ReadInv /\ UNCHANGED pvars => ReadInv'
<1> SUFFICES ASSUME ReadInv, UNCHANGED pvars PROVE ReadInv'
  OBVIOUS
<1>1. YieldIsConsumed'
  BY YieldStays DEF ReadInv
<1>2. tokens' = tokens /\ mIndex' = mIndex /\ status' = status
  BY DEF pvars
<1> QED
  BY <1>1, <1>2 DEF ReadInv

LEMMA ReadInit == ParserInit => ReadInv
<1> SUFFICES ASSUME ParserInit PROVE ReadInv
  OBVIOUS
<1>1. tokens \in TokenLists /\ status = "running" /\ YieldIsConsumed
  BY YieldInit DEF ParserInit
<1> QED
  BY <1>1 DEF ReadInv

\* The whole of the tokens is in the tree.
LEMMA AcceptedIs ==
    ASSUME ParserTypeOK, ReadInv, status = "done"
    PROVE  YieldOf(mProg) = tokens
<1>1. /\ tokens \in Seq(STRING) /\ mIndex = Len(tokens) /\ calls = << >>
      /\ TreesBy(Yield, mProg) \o StackBy(Yield, calls) = SubSeq(tokens, 1, mIndex)
  BY ConsumedIs DEF ParserTypeOK, ReadInv
<1>2. SubSeq(tokens, 1, mIndex) = tokens
  BY <1>1
<1>3. StackBy(Yield, calls) = << >>
  BY <1>1, NoFrames
<1>4. TreesBy(Yield, mProg) \in Seq(Types)
  <2>1. PICK m, y, p : m = Len(nodes) /\ y = Yield /\ p = mProg
    OBVIOUS
  <2>2. m \in Nat /\ Spells(y, m) /\ p \in Seq(1 .. m)
    BY <2>1, HeapFacts, StateFacts
  <2>3. TreesBy(y, p) \in Seq(Types)
    BY <2>2, YieldsType
  <2> QED
    BY <2>1, <2>3
<1>5. TreesBy(Yield, mProg) = tokens
  BY <1>1, <1>2, <1>3, <1>4, ConcatEmptySeq
<1> QED
  BY <1>5 DEF TreesBy, YieldsBy, YieldOf

\* The loop of parse() ends behind the last token and nowhere before it, whatever the
\* statements are: the tree of an accepted program spells all of its tokens
\* (parser.cpp:20-39, 402-416).
THEOREM AcceptedTheorem == ParserSpec => [](status = "done" => YieldOf(mProg) = tokens)
<1>1. ParserInit => ReadInv
  BY ReadInit
<1>2. ParserTypeOK /\ ParserTypeOK' /\ ReadInv /\ [ParserNext]_pvars => ReadInv'
  BY ReadStep, ReadStays DEF ParserNext, ParserStopped
<1>3. ParserTypeOK /\ ReadInv => (status = "done" => YieldOf(mProg) = tokens)
  BY AcceptedIs
<1> QED
  BY <1>1, <1>2, <1>3, ParserTypeTheorem, PTL DEF ParserSpec
=============================================================================
