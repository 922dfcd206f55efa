---------------------------- MODULE CompilerProofs ---------------------------
(***************************************************************************)
(* Proofs about Compiler, for token sequences of every length: the heap    *)
(* that the parser ends with is one that the generator is proved for, so   *)
(* what is proved of both holds of the two together.                       *)
(***************************************************************************)
EXTENDS Compiler, YieldProofs, GeneratorProofs

\* Until the parser has ended the generator is as it was constructed; from then on
\* its own invariant holds, of the parser's tree.
CompilerInv ==
    /\ ParserTypeOK
    /\ status # "done" => Constructed
    /\ status = "done" => Inv

\* The parser's heap is the generator's, and nothing moves it any more.
LEMMA ParsedHeap == ParserTypeOK => HeapOK
  BY DEF ParserTypeOK, HeapOK

LEMMA WalkLeavesTree == GeneratorStep => UNCHANGED <<nodes, mProg>>
  BY DEF GeneratorStep, Generate, GenProgram, GenStatements, GenStatement, GenExit, GenBlockEnd,
         GenIfTest, GenIfEnd, GenIfPredEnd, GenWhileTest, GenWhileEnd, GenScopes, GenScope,
         GenEndScope, GenIfpreds, GenIfpred, GenElifTest, GenElifEnd, GenExpressions,
         GenExpression, GenBinRight, GenOperation, ScopesStay

LEMMA ParserStays ==
    ASSUME ParserTypeOK, UNCHANGED <<tokens, mIndex, calls, status, nodes, mProg>>
    PROVE  ParserTypeOK'
  BY DEF ParserTypeOK, FrameOK, WellFormedAst, WellFormedNode

LEMMA InitCompilerInv == CompilerInit => CompilerInv
<1> SUFFICES ASSUME CompilerInit PROVE CompilerInv
  OBVIOUS
<1>1. ParserTypeOK /\ status = "running" /\ Constructed
  BY ParserInitOK DEF CompilerInit, ParserInit
<1> QED
  BY <1>1 DEF CompilerInv

LEMMA ParseProgramStep == CompilerInv /\ ParseProgram => CompilerInv'
<1> SUFFICES ASSUME CompilerInv, ParseProgram PROVE CompilerInv'
  OBVIOUS
<1>1. status = "running" /\ ParserTypeOK /\ Constructed
  BY ParserRuns DEF ParseProgram, CompilerInv
<1>2. ParserTypeOK'
  BY <1>1, ParserStepOK DEF ParseProgram
<1>3. Constructed'
  BY <1>1 DEF ParseProgram, generatorOnly, Constructed
<1>4. HeapOK'
  BY <1>2, ParsedHeap, PTL
<1>5. Inv'
  BY <1>3, <1>4, ConstructedInv, PTL
<1> QED
  BY <1>2, <1>3, <1>5 DEF CompilerInv

LEMMA GenerateProgramStep == CompilerInv /\ GenerateProgram => CompilerInv'
<1> SUFFICES ASSUME CompilerInv, GenerateProgram PROVE CompilerInv'
  OBVIOUS
<1>1. /\ status = "done" /\ GeneratorStep /\ ParserTypeOK /\ Inv
      /\ UNCHANGED <<tokens, mIndex, calls, status>>
  BY DEF GenerateProgram, parserOnly, CompilerInv
<1>2. ParserTypeOK'
  BY <1>1, WalkLeavesTree, ParserStays
<1>3. Inv'
  BY <1>1, StepInv DEF GeneratorNext
<1> QED
  BY <1>1, <1>2, <1>3 DEF CompilerInv

LEMMA IdleCompilerStep == CompilerInv /\ UNCHANGED cvars => CompilerInv'
<1> SUFFICES ASSUME CompilerInv, UNCHANGED cvars PROVE CompilerInv'
  OBVIOUS
<1>1. UNCHANGED pvars /\ UNCHANGED gvars
  BY DEF cvars
<1>2. ParserTypeOK'
  BY <1>1, ParserStays DEF pvars, CompilerInv
<1>3. status # "done" => Constructed'
  BY <1>1 DEF gvars, CompilerInv, Constructed
<1>4. status = "done" => Inv'
  BY <1>1, StepInv DEF CompilerInv
<1>5. status' = status
  BY <1>1 DEF pvars
<1> QED
  BY <1>2, <1>3, <1>4, <1>5 DEF CompilerInv

LEMMA CompilerInvHolds == CompilerSpec => []CompilerInv
<1>1. CompilerInv /\ [CompilerNext]_cvars => CompilerInv'
  BY ParseProgramStep, GenerateProgramStep, IdleCompilerStep DEF CompilerNext, CompilerStopped
<1> QED
  BY InitCompilerInv, <1>1, PTL DEF CompilerSpec

-----------------------------------------------------------------------------

\* Whatever tokens the lexer delivers, the tree that the parser makes of them is one
\* the generator can walk, and the parser's own invariant outlives the walk
\* (parser.cpp:22-491, generator.cpp:9-22).
THEOREM HandOverTheorem == CompilerSpec => [](ParserTypeOK /\ (status = "done" => GenTypeOK))
<1>1. Inv => GenTypeOK
  BY DEF Inv, GenInv, HeapOK, OutputOK, ScopesOK, FramesOK, GenTypeOK, Lines
<1>2. CompilerInv => ParserTypeOK /\ (status = "done" => GenTypeOK)
  BY <1>1 DEF CompilerInv
<1> QED
  BY <1>2, CompilerInvHolds, PTL

\* For token sequences of every length: what is compiled assembles, each label written
\* once and each jump with its label, and what does not parse writes nothing
\* (parser.cpp:22-491, generator.cpp:9-416).
THEOREM AssemblesTheorem == CompilerSpec => []OutputAssembles
<1>1. CompilerInv => OutputAssembles
  <2> SUFFICES ASSUME CompilerInv PROVE OutputAssembles
    OBVIOUS
  <2>1. CASE status = "done"
    <3>1. Inv
      BY <2>1 DEF CompilerInv
    <3>2. \A n \in DOMAIN frames : WalkOK(frames[n])
      BY <3>1 DEF Inv, GenInv, FramesOK
    <3> QED
      BY <2>1, <3>1, <3>2, JumpsAreLanded DEF OutputAssembles, Inv, LabelInv
  <2>2. CASE status # "done"
    <3>1. HeapOK /\ Constructed
      BY <2>2, ParsedHeap DEF CompilerInv
    <3>2. Inv
      BY <3>1, ConstructedInv
    <3>3. mOutput = << >>
      BY <3>1 DEF Constructed
    <3>4. \A n \in DOMAIN frames : WalkOK(frames[n])
      BY <3>2 DEF Inv, GenInv, FramesOK
    <3> QED
      BY <3>2, <3>3, <3>4, JumpsAreLanded DEF OutputAssembles, Inv, LabelInv
  <2> QED
    BY <2>1, <2>2
<1> QED
  BY <1>1, CompilerInvHolds, PTL
-----------------------------------------------------------------------------
(* What a function c from elements to sequences makes of a sequence.        *)

Maps(c, T, U) == c \in [T -> Seq(U)]
Mapped(c, s) == [i \in DOMAIN s |-> c[s[i]]]
Through(c, s) == FlattenSeq(Mapped(c, s))

LEMMA MappedSeq ==
    ASSUME NEW T, NEW U, NEW c, Maps(c, T, U), NEW s \in Seq(T)
    PROVE  /\ Mapped(c, s) \in Seq(Seq(U)) /\ Len(Mapped(c, s)) = Len(s)
           /\ Through(c, s) \in Seq(U)
<1>1. Len(s) \in Nat /\ DOMAIN s = 1 .. Len(s) /\ \A i \in 1 .. Len(s) : s[i] \in T
  BY LenProperties, ElementOfSeq
<1>2. Mapped(c, s) \in [1 .. Len(s) -> Seq(U)]
  BY <1>1 DEF Mapped, Maps
<1>3. Mapped(c, s) \in Seq(Seq(U)) /\ Len(Mapped(c, s)) = Len(s)
  BY <1>1, <1>2, FunIsSeq
<1> QED
  BY <1>3, FlattenInSeq DEF Through

LEMMA ThroughEmpty == \A c : Through(c, << >>) = << >>
<1> SUFFICES ASSUME NEW c PROVE Through(c, << >>) = << >>
  OBVIOUS
<1>1. Mapped(c, << >>) = << >>
  BY DEF Mapped
<1> QED
  BY <1>1, FlattenEmpty DEF Through

LEMMA ThroughMore ==
    ASSUME NEW T, NEW U, NEW c, Maps(c, T, U), NEW s \in Seq(T), NEW x \in T
    PROVE  Through(c, Append(s, x)) = Through(c, s) \o c[x]
<1> DEFINE more == Append(s, x)
           a == Mapped(c, s)
           b == Mapped(c, more)
           l == Len(s)
<1>1. /\ l \in Nat /\ DOMAIN s = 1 .. l /\ DOMAIN more = 1 .. l + 1 /\ more \in Seq(T)
      /\ more[l + 1] = x /\ \A i \in 1 .. l : more[i] = s[i]
  BY LenProperties, AppendProperties
<1>2. /\ a \in Seq(Seq(U)) /\ Len(a) = l /\ b \in Seq(Seq(U)) /\ Len(b) = l + 1
      /\ c[x] \in Seq(U)
  <2>1. Len(more) = l + 1 /\ c[x] \in Seq(U)
    BY AppendProperties DEF Maps
  <2>2. a \in Seq(Seq(U)) /\ Len(a) = l
    BY MappedSeq
  <2> HIDE DEF more
  <2>3. b \in Seq(Seq(U)) /\ Len(b) = l + 1
    BY <1>1, <2>1, MappedSeq
  <2> QED
    BY <2>1, <2>2, <2>3
<1>3. b[l + 1] = c[x] /\ \A i \in 1 .. l : b[i] = a[i]
  BY <1>1 DEF Mapped
<1> HIDE DEF more, a, b, l
<1>4. b = Append(a, c[x])
  <2>1. /\ Append(a, c[x]) \in Seq(Seq(U)) /\ Len(Append(a, c[x])) = l + 1
        /\ Append(a, c[x])[l + 1] = c[x]
        /\ \A i \in 1 .. l : Append(a, c[x])[i] = a[i]
    BY <1>2, AppendProperties
  <2>2. \A i \in 1 .. l + 1 : i \in 1 .. l \/ i = l + 1
    BY <1>1
  <2>3. \A i \in 1 .. l + 1 : b[i] = Append(a, c[x])[i]
    BY <1>3, <2>1, <2>2
  <2> QED
    BY <1>2, <2>1, <2>3, SeqEqual
<1>5. FlattenSeq(Append(a, c[x])) = FlattenSeq(a) \o c[x]
  BY <1>2, FlattenAppend
<1> QED
  BY <1>4, <1>5 DEF Through, a, b, more

LEMMA ThroughOne ==
    ASSUME NEW T, NEW U, NEW c, Maps(c, T, U), NEW x \in T
    PROVE  Through(c, <<x>>) = c[x]
<1>1. << >> \in Seq(T) /\ Append(<< >>, x) = <<x>> /\ c[x] \in Seq(U)
  BY EmptySeq DEF Maps
<1>2. Through(c, Append(<< >>, x)) = << >> \o c[x]
  <2> DEFINE e == << >>
  <2>1. e \in Seq(T) /\ Through(c, e) = << >>
    BY <1>1, ThroughEmpty
  <2> HIDE DEF e
  <2>2. Through(c, Append(e, x)) = Through(c, e) \o c[x]
    BY <2>1, ThroughMore
  <2> QED
    BY <2>1, <2>2 DEF e
<1> QED
  BY <1>1, <1>2, ConcatEmptySeq

\* A sequence is empty, or it is its front and its last element.
LEMMA FrontAndLast ==
    ASSUME NEW T, NEW s \in Seq(T), NEW n \in Nat, Len(s) = n + 1,
           NEW front, front = SubSeq(s, 1, n)
    PROVE  front \in Seq(T) /\ Len(front) = n /\ s[n + 1] \in T /\ s = Append(front, s[n + 1])
<1>1. s # << >> /\ Len(s) - 1 = n
  BY EmptySeq
<1> QED
  BY <1>1, LastOf

LEMMA Associative ==
    ASSUME NEW S, NEW p, NEW q, NEW r, p \in Seq(S), q \in Seq(S), r \in Seq(S)
    PROVE  (p \o q) \o r = p \o (q \o r)
  BY ConcatAssociative, SMTT(60)

LEMMA ThroughConcat ==
    ASSUME NEW T, NEW U, NEW c, Maps(c, T, U), NEW s \in Seq(T), NEW t \in Seq(T)
    PROVE  Through(c, s \o t) = Through(c, s) \o Through(c, t)
<1> DEFINE Both(r) == Through(c, s \o r) = Through(c, s) \o Through(c, r)
           S == {n \in Nat : \A r \in Seq(T) : Len(r) = n => Both(r)}
<1>1. 0 \in S
  <2> SUFFICES ASSUME NEW r \in Seq(T), Len(r) = 0 PROVE Both(r)
    OBVIOUS
  <2>1. r = << >>
    BY EmptySeq
  <2>2. s \o r = s /\ Through(c, s) \in Seq(U) /\ Through(c, r) = << >>
    BY <2>1, ConcatEmptySeq, MappedSeq, ThroughEmpty
  <2> QED
    BY <2>2, ConcatEmptySeq
<1>2. ASSUME NEW n \in Nat, n \in S PROVE n + 1 \in S
  <2> SUFFICES ASSUME NEW r \in Seq(T), Len(r) = n + 1 PROVE Both(r)
    OBVIOUS
  <2>0. PICK front, x : front = SubSeq(r, 1, n) /\ x = r[n + 1]
    OBVIOUS
  <2>1. front \in Seq(T) /\ x \in T /\ Len(front) = n /\ r = Append(front, x)
    BY <2>0, FrontAndLast
  <2>2. Both(front)
    BY <1>2, <2>1
  <2>3. s \o r = Append(s \o front, x) /\ s \o front \in Seq(T)
    BY <2>1
  <2>4. /\ Through(c, s \o r) = Through(c, s \o front) \o c[x]
        /\ Through(c, r) = Through(c, front) \o c[x]
    <3> DEFINE sf == s \o front
    <3>1. sf \in Seq(T) /\ s \o r = Append(sf, x)
      BY <2>3
    <3> HIDE DEF sf
    <3>2. Through(c, Append(sf, x)) = Through(c, sf) \o c[x]
      BY <2>1, <3>1, ThroughMore
    <3>3. Through(c, Append(front, x)) = Through(c, front) \o c[x]
      BY <2>1, ThroughMore
    <3> QED
      BY <2>1, <3>1, <3>2, <3>3 DEF sf
  <2>5. Through(c, s) \in Seq(U) /\ Through(c, front) \in Seq(U) /\ c[x] \in Seq(U)
    BY <2>1, MappedSeq DEF Maps
  <2>6. (Through(c, s) \o Through(c, front)) \o c[x] = Through(c, s) \o (Through(c, front) \o c[x])
    <3>1. PICK p, q, e : p = Through(c, s) /\ q = Through(c, front) /\ e = c[x]
      OBVIOUS
    <3>2. p \in Seq(U) /\ q \in Seq(U) /\ e \in Seq(U)
      BY <2>5, <3>1
    <3>3. (p \o q) \o e = p \o (q \o e)
      BY <3>2, Associative, SMTT(60)
    <3> QED
      BY <3>1, <3>3
  <2> QED
    BY <2>2, <2>4, <2>6
<1> HIDE DEF S
<1>3. Nat \subseteq S
  BY <1>1, <1>2, SetInduction
<1>4. Len(t) \in Nat
  BY LenProperties
<1> QED
  BY <1>3, <1>4 DEF S

\* What c makes of what y makes of a sequence.
LEMMA ThroughBoth ==
    ASSUME NEW T, NEW U, NEW V, NEW y, Maps(y, T, U), NEW c, Maps(c, U, V),
           NEW d, Maps(d, T, V), \A x \in T : d[x] = Through(c, y[x]), NEW s \in Seq(T)
    PROVE  Through(c, Through(y, s)) = Through(d, s)
<1> DEFINE Both(r) == Through(c, Through(y, r)) = Through(d, r)
           S == {n \in Nat : \A r \in Seq(T) : Len(r) = n => Both(r)}
<1>1. 0 \in S
  <2> SUFFICES ASSUME NEW r \in Seq(T), Len(r) = 0 PROVE Both(r)
    OBVIOUS
  <2>1. r = << >>
    BY EmptySeq
  <2> QED
    BY <2>1, ThroughEmpty
<1>2. ASSUME NEW n \in Nat, n \in S PROVE n + 1 \in S
  <2> SUFFICES ASSUME NEW r \in Seq(T), Len(r) = n + 1 PROVE Both(r)
    OBVIOUS
  <2>0. PICK front, x : front = SubSeq(r, 1, n) /\ x = r[n + 1]
    OBVIOUS
  <2>1. front \in Seq(T) /\ x \in T /\ Len(front) = n /\ r = Append(front, x)
    BY <2>0, FrontAndLast
  <2>2. Both(front)
    BY <1>2, <2>1
  <2>3. Through(y, r) = Through(y, front) \o y[x]
    BY <2>1, ThroughMore
  <2>6. Through(d, r) = Through(d, front) \o d[x]
    BY <2>1, ThroughMore
  <2>4. Through(y, front) \in Seq(U) /\ y[x] \in Seq(U)
    BY <2>1, MappedSeq DEF Maps
  <2>5. Through(c, Through(y, front) \o y[x])
            = Through(c, Through(y, front)) \o Through(c, y[x])
    <3>1. PICK w, v : w = Through(y, front) /\ v = y[x]
      OBVIOUS
    <3>2. w \in Seq(U) /\ v \in Seq(U)
      BY <2>4, <3>1
    <3>3. Through(c, w \o v) = Through(c, w) \o Through(c, v)
      BY <3>2, ThroughConcat
    <3> QED
      BY <3>1, <3>3
  <2> QED
    BY <2>1, <2>2, <2>3, <2>5, <2>6
<1> HIDE DEF S
<1>3. Nat \subseteq S
  BY <1>1, <1>2, SetInduction
<1>4. Len(s) \in Nat
  BY LenProperties
<1> QED
  BY <1>3, <1>4 DEF S

\* Elements of which nothing is made.
LEMMA ThroughSilent ==
    ASSUME NEW T, NEW U, NEW c, Maps(c, T, U), NEW R, R \subseteq T,
           \A x \in R : c[x] = << >>, NEW s \in Seq(R)
    PROVE  Through(c, s) = << >>
<1> DEFINE S == {n \in Nat : \A r \in Seq(R) : Len(r) = n => Through(c, r) = << >>}
<1>1. 0 \in S
  <2> SUFFICES ASSUME NEW r \in Seq(R), Len(r) = 0 PROVE Through(c, r) = << >>
    OBVIOUS
  <2>1. r = << >>
    BY EmptySeq
  <2> QED
    BY <2>1, ThroughEmpty
<1>2. ASSUME NEW n \in Nat, n \in S PROVE n + 1 \in S
  <2> SUFFICES ASSUME NEW r \in Seq(R), Len(r) = n + 1 PROVE Through(c, r) = << >>
    OBVIOUS
  <2>0. PICK front, x : front = SubSeq(r, 1, n) /\ x = r[n + 1]
    OBVIOUS
  <2>1. front \in Seq(R) /\ x \in R /\ Len(front) = n /\ r = Append(front, x)
    BY <2>0, FrontAndLast
  <2>2. Through(c, front) = << >> /\ c[x] = << >> /\ front \in Seq(T) /\ x \in T
    BY <1>2, <2>1
  <2>3. Through(c, r) = << >> \o << >>
    BY <2>1, <2>2, ThroughMore
  <2> QED
    BY <2>3, EmptySeq, ConcatEmptySeq
<1> HIDE DEF S
<1>3. Nat \subseteq S
  BY <1>1, <1>2, SetInduction
<1>4. Len(s) \in Nat
  BY LenProperties
<1> QED
  BY <1>3, <1>4 DEF S

LEMMA NothingLeft ==
    ASSUME NEW T, NEW s \in Seq(T), NEW k \in Nat, k > Len(s)
    PROVE  SubSeq(s, k, Len(s)) = << >>
<1>1. Len(s) \in Nat
  BY LenProperties
<1> QED
  BY <1>1, SubSeqEmpty

-----------------------------------------------------------------------------
(* What a stack owes, its top first, by a function o that has it of each.   *)

Owing(o, fs) == [i \in DOMAIN fs |-> o[fs[Len(fs) + 1 - i]]]
StackOwes(o, fs) == FlattenSeq(Owing(o, fs))

LEMMA OwesType ==
    ASSUME NEW F, NEW U, NEW o, Maps(o, F, U), NEW fs \in Seq(F)
    PROVE  /\ Owing(o, fs) \in Seq(Seq(U)) /\ Len(Owing(o, fs)) = Len(fs)
           /\ StackOwes(o, fs) \in Seq(U)
<1> DEFINE a == [i \in DOMAIN fs |-> o[fs[Len(fs) + 1 - i]]]
<1>1. Len(fs) \in Nat /\ DOMAIN fs = 1 .. Len(fs) /\ \A i \in 1 .. Len(fs) : fs[i] \in F
  BY LenProperties, ElementOfSeq
<1>2. \A i \in 1 .. Len(fs) : Len(fs) + 1 - i \in 1 .. Len(fs)
  BY <1>1
<1>3. a \in [1 .. Len(fs) -> Seq(U)]
  BY <1>1, <1>2 DEF Maps
<1> HIDE DEF a
<1>4. a \in Seq(Seq(U)) /\ Len(a) = Len(fs)
  BY <1>1, <1>3, FunIsSeq
<1>5. FlattenSeq(a) \in Seq(U)
  BY <1>4, FlattenInSeq
<1> QED
  BY <1>4, <1>5 DEF a, Owing, StackOwes

LEMMA NoStack == \A o : StackOwes(o, << >>) = << >>
<1> SUFFICES ASSUME NEW o PROVE StackOwes(o, << >>) = << >>
  OBVIOUS
<1>1. Owing(o, << >>) = << >>
  BY DEF Owing
<1> QED
  BY <1>1, FlattenEmpty DEF StackOwes

LEMMA OneMoreOwes ==
    ASSUME NEW F, NEW U, NEW o, Maps(o, F, U), NEW fs \in Seq(F), NEW f \in F
    PROVE  StackOwes(o, Append(fs, f)) = o[f] \o StackOwes(o, fs)
<1> DEFINE more == Append(fs, f)
           l == Len(fs)
           a == Owing(o, fs)
           b == Owing(o, more)
           id == [s \in Seq(U) |-> s]
           x == o[f]
<1>1. /\ l \in Nat /\ DOMAIN fs = 1 .. l /\ DOMAIN more = 1 .. l + 1 /\ Len(more) = l + 1
      /\ more \in Seq(F) /\ more[l + 1] = f /\ \A i \in 1 .. l : more[i] = fs[i]
  BY LenProperties, AppendProperties
<1>2. /\ a \in Seq(Seq(U)) /\ Len(a) = l /\ b \in Seq(Seq(U)) /\ Len(b) = l + 1
      /\ x \in Seq(U)
  <2>1. a \in Seq(Seq(U)) /\ Len(a) = l
    BY OwesType
  <2> HIDE DEF more
  <2>2. b \in Seq(Seq(U)) /\ Len(b) = l + 1
    BY <1>1, OwesType
  <2>3. x \in Seq(U)
    BY DEF Maps
  <2> QED
    BY <2>1, <2>2, <2>3
<1>3. b[1] = x /\ \A i \in 1 .. l : b[i + 1] = a[i]
  <2>1. 1 \in 1 .. l + 1 /\ l + 1 + 1 - 1 = l + 1
    BY <1>1
  <2>2. \A i \in 1 .. l : /\ i + 1 \in 1 .. l + 1 /\ l + 1 + 1 - (i + 1) = l + 1 - i
                          /\ l + 1 - i \in 1 .. l
    BY <1>1
  <2> HIDE DEF more, l
  <2>3. b[1] = x
    BY <1>1, <2>1 DEF Owing
  <2>4. ASSUME NEW i \in 1 .. l PROVE b[i + 1] = a[i]
    <3>1. b[i + 1] = o[more[l + 1 - i]] /\ a[i] = o[fs[l + 1 - i]]
      BY <1>1, <2>2 DEF l, Owing
    <3> QED
      BY <1>1, <2>2, <3>1
  <2> QED
    BY <2>3, <2>4
<1>4. FlattenSeq(a) = StackOwes(o, fs) /\ FlattenSeq(b) = StackOwes(o, more)
  BY DEF StackOwes
<1>5. Maps(id, Seq(U), U) /\ id[x] = x /\ \A s \in Seq(Seq(U)) : Mapped(id, s) = s
  <2>1. Maps(id, Seq(U), U) /\ id[x] = x
    BY <1>2 DEF Maps
  <2>2. ASSUME NEW s \in Seq(Seq(U)) PROVE Mapped(id, s) = s
    <3>1. Len(s) \in Nat /\ DOMAIN s = 1 .. Len(s) /\ \A i \in 1 .. Len(s) : s[i] \in Seq(U)
      BY LenProperties, ElementOfSeq
    <3>2. /\ Mapped(id, s) \in Seq(Seq(U)) /\ Len(Mapped(id, s)) = Len(s)
          /\ \A i \in 1 .. Len(s) : Mapped(id, s)[i] = s[i]
      <4>1. Mapped(id, s) \in Seq(Seq(U)) /\ Len(Mapped(id, s)) = Len(s)
        BY <2>1, MappedSeq DEF Maps
      <4> QED
        BY <3>1, <4>1 DEF Mapped
    <3> QED
      BY <3>2, SeqEqual
  <2> QED
    BY <2>1, <2>2
<1> HIDE DEF more, l, a, b, id, x
<1>6. b = <<x>> \o a
  <2>1. <<x>> \in Seq(Seq(U)) /\ Len(<<x>>) = 1 /\ <<x>>[1] = x
    BY <1>2
  <2>2. /\ <<x>> \o a \in Seq(Seq(U)) /\ Len(<<x>> \o a) = 1 + l
        /\ \A i \in 1 .. 1 + l : (<<x>> \o a)[i] = IF i <= 1 THEN x ELSE a[i - 1]
    BY <1>2, <2>1, ConcatProperties
  <2>3. ASSUME NEW i \in 1 .. l + 1 PROVE b[i] = (<<x>> \o a)[i]
    <3>1. CASE i = 1
      BY <1>1, <1>3, <2>2, <3>1
    <3>2. CASE i # 1
      <4>1. i - 1 \in 1 .. l /\ (i - 1) + 1 = i /\ ~(i <= 1)
        BY <1>1, <3>2
      <4>2. b[i] = a[i - 1]
        BY <1>3, <4>1
      <4> QED
        BY <1>1, <2>2, <4>1, <4>2
    <3> QED
      BY <3>1, <3>2
  <2>4. Len(b) = Len(<<x>> \o a)
    BY <1>1, <1>2, <2>2
  <2> DEFINE xa == <<x>> \o a
  <2>5. xa \in Seq(Seq(U)) /\ Len(b) = Len(xa) /\ \A i \in 1 .. Len(b) : b[i] = xa[i]
    BY <1>2, <2>2, <2>3, <2>4
  <2> HIDE DEF xa
  <2>6. b = xa
    BY <1>2, <2>5, SeqEqual
  <2> QED
    BY <2>6 DEF xa
<1>7. Through(id, <<x>> \o a) = Through(id, <<x>>) \o Through(id, a)
  <2>1. <<x>> \in Seq(Seq(U))
    BY <1>2
  <2> DEFINE xs == <<x>>
  <2>2. xs \in Seq(Seq(U))
    BY <2>1
  <2> HIDE DEF xs
  <2>3. Through(id, xs \o a) = Through(id, xs) \o Through(id, a)
    BY <1>2, <1>5, <2>2, ThroughConcat
  <2> QED
    BY <2>3 DEF xs
<1>8. Through(id, <<x>>) = x /\ Through(id, a) = FlattenSeq(a) /\ Through(id, b) = FlattenSeq(b)
  <2>1. Through(id, <<x>>) = x
    BY <1>2, <1>5, ThroughOne
  <2> QED
    BY <1>2, <1>5, <2>1 DEF Through
<1> QED
  BY <1>4, <1>6, <1>7, <1>8 DEF more, x

-----------------------------------------------------------------------------
(* What tokens, lines and trees ask for or say.                             *)

Ops == {"test rax, rax", "syscall"}

Code == [type \in Types |-> CodeFor(type)]
Kept == [ins \in Lines |-> Command(ins)]
Due  == [n \in DOMAIN nodes |-> Asked(Yield[n])]

LEMMA OpsSeqs ==
    << >> \in Seq(Ops) /\ <<"test rax, rax">> \in Seq(Ops) /\ <<"syscall">> \in Seq(Ops)
  BY EmptySeq DEF Ops

LEMMA CodeMaps == Maps(Code, Types, Ops)
  BY OpsSeqs DEF Maps, Code, CodeFor

LEMMA KeptMaps == Maps(Kept, Lines, Ops)
<1> SUFFICES ASSUME NEW ins \in Lines PROVE Command(ins) \in Seq(Ops)
  BY DEF Maps, Kept
<1>1. ins.op = "test rax, rax" \/ ins.op = "syscall" => <<ins.op>> \in Seq(Ops)
  BY OpsSeqs
<1> QED
  BY <1>1, OpsSeqs DEF Command

LEMMA AskedIs ==
    ASSUME NEW types \in Seq(Types)
    PROVE  Asked(types) = Through(Code, types) /\ Asked(types) \in Seq(Ops)
<1>1. \A k \in DOMAIN types : types[k] \in Types
  BY LenProperties, ElementOfSeq
<1>2. [k \in DOMAIN types |-> CodeFor(types[k])] = Mapped(Code, types)
  BY <1>1 DEF Mapped, Code
<1>3. Through(Code, types) \in Seq(Ops)
  BY CodeMaps, MappedSeq
<1> QED
  BY <1>2, <1>3 DEF Asked, Through

LEMMA CommandsIs ==
    ASSUME mOutput \in Seq(Lines)
    PROVE  Commands = Through(Kept, mOutput) /\ Commands \in Seq(Ops)
<1>1. \A k \in DOMAIN mOutput : mOutput[k] \in Lines
  BY LenProperties, ElementOfSeq
<1>2. [k \in DOMAIN mOutput |-> Command(mOutput[k])] = Mapped(Kept, mOutput)
  BY <1>1 DEF Mapped, Kept
<1>3. Through(Kept, mOutput) \in Seq(Ops)
  BY KeptMaps, MappedSeq
<1> QED
  BY <1>2, <1>3 DEF Commands, Through

LEMMA YieldMaps == ParserTypeOK => Maps(Yield, DOMAIN nodes, Types)
<1> SUFFICES ASSUME ParserTypeOK PROVE Maps(Yield, DOMAIN nodes, Types)
  OBVIOUS
<1>1. /\ DOMAIN nodes = 1 .. Len(nodes) /\ Reads(nodes, Len(nodes), Yield)
      /\ Spells(Yield, Len(nodes))
  BY HeapFacts
<1>2. DOMAIN Yield = DOMAIN nodes /\ Yield = [n \in DOMAIN Yield |-> Yield[n]]
  BY <1>1 DEF Reads
<1> QED
  BY <1>1, <1>2 DEF Spells, Maps

LEMMA DueMaps ==
    ASSUME ParserTypeOK
    PROVE  /\ Maps(Due, DOMAIN nodes, Ops)
           /\ \A n \in DOMAIN nodes : Due[n] = Through(Code, Yield[n]) /\ Due[n] \in Seq(Ops)
<1>1. \A n \in DOMAIN nodes : Yield[n] \in Seq(Types)
  BY YieldMaps DEF Maps
<1>2. \A n \in DOMAIN nodes : Asked(Yield[n]) = Through(Code, Yield[n]) /\ Asked(Yield[n]) \in Seq(Ops)
  BY <1>1, AskedIs
<1> QED
  BY <1>2 DEF Due, Maps

LEMMA YieldAsks ==
    ASSUME ParserTypeOK, NEW ids \in Seq(DOMAIN nodes)
    PROVE  /\ YieldOf(ids) = Through(Yield, ids) /\ YieldOf(ids) \in Seq(Types)
           /\ Asked(YieldOf(ids)) = Through(Due, ids) /\ Asked(YieldOf(ids)) \in Seq(Ops)
<1>1. YieldOf(ids) = Through(Yield, ids)
  BY DEF YieldOf, Through, Mapped
<1>2. Maps(Yield, DOMAIN nodes, Types)
  BY YieldMaps
<1>3. Through(Yield, ids) \in Seq(Types)
  BY <1>2, MappedSeq
<1>4. Asked(YieldOf(ids)) = Through(Code, Through(Yield, ids)) /\ Asked(YieldOf(ids)) \in Seq(Ops)
  BY <1>1, <1>3, AskedIs
<1>5. Through(Code, Through(Yield, ids)) = Through(Due, ids)
  <2>1. Maps(Due, DOMAIN nodes, Ops) /\ \A n \in DOMAIN nodes : Due[n] = Through(Code, Yield[n])
    BY DueMaps
  <2> DEFINE T == DOMAIN nodes
             y == Yield
             d == Due
  <2>2. /\ Maps(y, T, Types) /\ Maps(d, T, Ops) /\ ids \in Seq(T)
        /\ \A n \in T : d[n] = Through(Code, y[n])
    BY <1>2, <2>1
  <2> HIDE DEF T, y, d
  <2>3. Through(Code, Through(y, ids)) = Through(d, ids)
    BY <2>2, CodeMaps, ThroughBoth
  <2> QED
    BY <2>3 DEF y, d
<1> QED
  BY <1>1, <1>3, <1>4, <1>5

\* What a node asks for of its own, before its children do.
CommandOf(kind) ==
    CASE kind \in {"if", "elif", "while"} -> <<"test rax, rax">>
      [] kind = "exit" -> <<"syscall">>
      [] OTHER -> << >>

LEMMA CommandOfType == \A kind : CommandOf(kind) \in Seq(Ops)
  BY OpsSeqs DEF CommandOf

LEMMA TwoTypes == \A t, u \in Written : <<t>> \o <<u>> = <<t, u>>
<1> SUFFICES ASSUME NEW t \in Written, NEW u \in Written PROVE <<t>> \o <<u>> = <<t, u>>
  OBVIOUS
<1> DEFINE a == <<t>>
           b == <<u>>
           ab == a \o b
           tu == <<t, u>>
<1>1. /\ a \in Seq(Written) /\ b \in Seq(Written)
      /\ Len(a) = 1 /\ Len(b) = 1 /\ a[1] = t /\ b[1] = u
  OBVIOUS
<1>2. tu \in Seq(Written) /\ Len(tu) = 2 /\ tu[1] = t /\ tu[2] = u
  OBVIOUS
<1> HIDE DEF a, b, tu
<1>3. /\ ab \in Seq(Written) /\ Len(ab) = Len(a) + Len(b)
      /\ \A i \in 1 .. Len(a) + Len(b) : ab[i] = IF i <= Len(a) THEN a[i] ELSE b[i - Len(a)]
  BY <1>1, ConcatProperties
<1> HIDE DEF ab
<1>4. Len(ab) = 2 /\ ab[1] = t /\ ab[2] = u
  BY <1>1, <1>3
<1>5. \A i \in 1 .. Len(ab) : ab[i] = tu[i]
  BY <1>2, <1>4
<1>6. ab = tu
  BY <1>2, <1>3, <1>4, <1>5, SeqEqual
<1> QED
  BY <1>6 DEF a, b, ab, tu

LEMMA SpellingAsks ==
    ASSUME NEW kind, NEW w \in Seq(Types), kind = "ident" => w = << >>
    PROVE  Through(Code, Spelling(kind, w)) = CommandOf(kind) \o Through(Code, w)
<1> DEFINE C(s) == Through(Code, s)
<1>1. ASSUME NEW a \in Seq(Types), NEW b \in Seq(Types)
      PROVE  C(a \o b) = C(a) \o C(b) /\ C(a) \in Seq(Ops) /\ a \o b \in Seq(Types)
  BY CodeMaps, ThroughConcat, MappedSeq, ConcatProperties
<1>2. ASSUME NEW type \in Written
      PROVE  <<type>> \in Seq(Types) /\ C(<<type>>) = CodeFor(type)
  <2>1. type \in Types /\ Code[type] = CodeFor(type)
    BY DEF Types, Code
  <2> QED
    BY <2>1, CodeMaps, ThroughOne
<1>3. ASSUME NEW t \in Written, NEW u \in Written
      PROVE  <<t, u>> \in Seq(Types) /\ C(<<t, u>>) = CodeFor(t) \o CodeFor(u)
  <2>1. PICK a, b : a = <<t>> /\ b = <<u>>
    OBVIOUS
  <2>2. a \in Seq(Types) /\ b \in Seq(Types) /\ C(a) = CodeFor(t) /\ C(b) = CodeFor(u)
    BY <1>2, <2>1
  <2>3. C(a \o b) = C(a) \o C(b)
    BY <1>1, <2>2
  <2>4. a \o b = <<t, u>>
    BY <2>1, TwoTypes
  <2>5. <<t, u>> \in Seq(Types)
    BY WrittenSeqs
  <2> QED
    BY <2>2, <2>3, <2>4, <2>5
<1>4. C(w) \in Seq(Ops) /\ << >> \o C(w) = C(w) /\ C(w) \o << >> = C(w)
  <2>1. C(w) \in Seq(Ops)
    BY <1>1
  <2> QED
    BY <2>1, ConcatEmptySeq
<1>5. /\ C(<<"IDENT">>) = << >> /\ C(<<"LEFT_PAREN">>) = << >> /\ C(<<"RIGHT_PAREN">>) = << >>
      /\ C(<<"SEMI">>) = << >> /\ C(<<"LEFT_CURLY">>) = << >> /\ C(<<"RIGHT_CURLY">>) = << >>
      /\ C(<<"ELSE">>) = << >> /\ C(<<"IF">>) = <<"test rax, rax">>
      /\ C(<<"WHILE">>) = <<"test rax, rax">> /\ C(<<"ELIF">>) = <<"test rax, rax">>
  BY <1>2 DEF CodeFor, Written
<1>6. C(<<"EXIT", "LEFT_PAREN">>) = <<"syscall">> /\ C(<<"RIGHT_PAREN", "SEMI">>) = << >>
  <2>1. C(<<"EXIT", "LEFT_PAREN">>) = CodeFor("EXIT") \o CodeFor("LEFT_PAREN")
    BY <1>3 DEF Written
  <2>2. C(<<"RIGHT_PAREN", "SEMI">>) = CodeFor("RIGHT_PAREN") \o CodeFor("SEMI")
    BY <1>3 DEF Written
  <2>3. /\ CodeFor("EXIT") = <<"syscall">> /\ CodeFor("LEFT_PAREN") = << >>
        /\ CodeFor("RIGHT_PAREN") = << >> /\ CodeFor("SEMI") = << >>
    BY DEF CodeFor
  <2> QED
    BY <2>1, <2>2, <2>3, OpsSeqs, ConcatEmptySeq
<1>7. /\ <<"IDENT">> \in Seq(Types) /\ <<"LEFT_PAREN">> \in Seq(Types)
      /\ <<"RIGHT_PAREN">> \in Seq(Types) /\ <<"SEMI">> \in Seq(Types)
      /\ <<"LEFT_CURLY">> \in Seq(Types) /\ <<"RIGHT_CURLY">> \in Seq(Types)
      /\ <<"ELSE">> \in Seq(Types) /\ <<"IF">> \in Seq(Types) /\ <<"WHILE">> \in Seq(Types)
      /\ <<"ELIF">> \in Seq(Types) /\ <<"EXIT", "LEFT_PAREN">> \in Seq(Types)
      /\ <<"RIGHT_PAREN", "SEMI">> \in Seq(Types)
  BY WrittenSeqs DEF Written
<1> HIDE DEF C
<1>8. ASSUME NEW a \in Seq(Types), NEW b \in Seq(Types), C(b) = << >>
      PROVE  C(a \o w) = C(a) \o C(w) /\ C((a \o w) \o b) = C(a) \o C(w)
  <2>1. C(a \o w) = C(a) \o C(w) /\ a \o w \in Seq(Types) /\ C(a) \in Seq(Ops)
    BY <1>1
  <2>2. PICK v : v = a \o w
    OBVIOUS
  <2>3. C(v \o b) = C(v) \o C(b) /\ C(v) \in Seq(Ops)
    BY <1>1, <2>1, <2>2
  <2>4. C(v) \o << >> = C(v)
    BY <2>3, ConcatEmptySeq
  <2> QED
    BY <1>8, <2>1, <2>2, <2>3, <2>4
<1>9. << >> \in Seq(Types)
  BY EmptySeq
<1>10. C(Spelling(kind, w)) = CommandOf(kind) \o C(w)
  <2>1. CASE kind = "paren"
    <3>1. PICK a, b : a = <<"LEFT_PAREN">> /\ b = <<"RIGHT_PAREN">>
      OBVIOUS
    <3>2. Spelling(kind, w) = (a \o w) \o b /\ CommandOf(kind) = C(a)
      BY <1>5, <1>6, <2>1, <3>1 DEF Spelling, CommandOf
    <3>3. C((a \o w) \o b) = C(a) \o C(w)
      BY <1>5, <1>6, <1>7, <1>8, <3>1
    <3> QED
      BY <3>2, <3>3
  <2>2. CASE kind = "exit"
    <3>1. PICK a, b : a = <<"EXIT", "LEFT_PAREN">> /\ b = <<"RIGHT_PAREN", "SEMI">>
      OBVIOUS
    <3>2. Spelling(kind, w) = (a \o w) \o b /\ CommandOf(kind) = C(a)
      BY <1>5, <1>6, <2>2, <3>1 DEF Spelling, CommandOf
    <3>3. C((a \o w) \o b) = C(a) \o C(w)
      BY <1>5, <1>6, <1>7, <1>8, <3>1
    <3> QED
      BY <3>2, <3>3
  <2>3. CASE kind = "assign"
    <3>1. PICK a, b : a = <<"IDENT">> /\ b = <<"SEMI">>
      OBVIOUS
    <3>2. Spelling(kind, w) = (a \o w) \o b /\ CommandOf(kind) = C(a)
      BY <1>5, <1>6, <2>3, <3>1 DEF Spelling, CommandOf
    <3>3. C((a \o w) \o b) = C(a) \o C(w)
      BY <1>5, <1>6, <1>7, <1>8, <3>1
    <3> QED
      BY <3>2, <3>3
  <2>4. CASE kind = "scope"
    <3>1. PICK a, b : a = <<"LEFT_CURLY">> /\ b = <<"RIGHT_CURLY">>
      OBVIOUS
    <3>2. Spelling(kind, w) = (a \o w) \o b /\ CommandOf(kind) = C(a)
      BY <1>5, <1>6, <2>4, <3>1 DEF Spelling, CommandOf
    <3>3. C((a \o w) \o b) = C(a) \o C(w)
      BY <1>5, <1>6, <1>7, <1>8, <3>1
    <3> QED
      BY <3>2, <3>3
  <2>5. CASE kind = "if"
    <3>1. PICK a : a = <<"IF">>
      OBVIOUS
    <3>2. Spelling(kind, w) = a \o w /\ CommandOf(kind) = C(a)
      BY <1>5, <2>5, <3>1 DEF Spelling, CommandOf
    <3>3. C(a \o w) = C(a) \o C(w)
      BY <1>1, <1>7, <3>1
    <3> QED
      BY <3>2, <3>3
  <2>6. CASE kind = "elif"
    <3>1. PICK a : a = <<"ELIF">>
      OBVIOUS
    <3>2. Spelling(kind, w) = a \o w /\ CommandOf(kind) = C(a)
      BY <1>5, <2>6, <3>1 DEF Spelling, CommandOf
    <3>3. C(a \o w) = C(a) \o C(w)
      BY <1>1, <1>7, <3>1
    <3> QED
      BY <3>2, <3>3
  <2>7. CASE kind = "while"
    <3>1. PICK a : a = <<"WHILE">>
      OBVIOUS
    <3>2. Spelling(kind, w) = a \o w /\ CommandOf(kind) = C(a)
      BY <1>5, <2>7, <3>1 DEF Spelling, CommandOf
    <3>3. C(a \o w) = C(a) \o C(w)
      BY <1>1, <1>7, <3>1
    <3> QED
      BY <3>2, <3>3
  <2>8. CASE kind = "else"
    <3>1. PICK a : a = <<"ELSE">>
      OBVIOUS
    <3>2. Spelling(kind, w) = a \o w /\ CommandOf(kind) = C(a)
      BY <1>5, <2>8, <3>1 DEF Spelling, CommandOf
    <3>3. C(a \o w) = C(a) \o C(w)
      BY <1>1, <1>7, <3>1
    <3> QED
      BY <3>2, <3>3
  <2>9. CASE kind = "ident"
    <3>1. Spelling(kind, w) = <<"IDENT">> /\ CommandOf(kind) = << >>
      BY <2>9 DEF Spelling, CommandOf
    <3>2. C(w) = << >> /\ << >> \o << >> = << >>
      BY <2>9, ThroughEmpty, EmptySeq, ConcatEmptySeq DEF C
    <3> QED
      BY <1>5, <3>1, <3>2
  <2>10. CASE kind \notin {"paren", "exit", "assign", "scope", "if", "elif", "while", "else", "ident"}
    <3>1. Spelling(kind, w) = w /\ CommandOf(kind) = << >>
      BY <2>10 DEF Spelling, CommandOf
    <3> QED
      BY <1>4, <3>1 DEF C
  <2> QED
    BY <2>1, <2>2, <2>3, <2>4, <2>5, <2>6, <2>7, <2>8, <2>9, <2>10
<1> QED
  BY <1>10 DEF C

\* What a tree asks for: its root, then its subtrees.
LEMMA NodeDue ==
    ASSUME ParserTypeOK, NEW n \in DOMAIN nodes
    PROVE  /\ nodes[n].kids \in Seq(DOMAIN nodes)
           /\ Due[n] = CommandOf(nodes[n].kind) \o Through(Due, nodes[n].kids)
<1> DEFINE kids == nodes[n].kids
           kind == nodes[n].kind
           T == DOMAIN nodes
<1>1. /\ Len(nodes) \in Nat /\ DOMAIN nodes = 1 .. Len(nodes)
      /\ Reads(nodes, Len(nodes), Yield)
  BY HeapFacts
<1>2. WellFormedNode(n)
  BY DEF ParserTypeOK, WellFormedAst
<1>3. kids \in Seq(T)
  <2>1. kids \in Seq(Nat) /\ \A i \in DOMAIN kids : kids[i] \in T
    BY <1>1, <1>2 DEF WellFormedNode
  <2> HIDE DEF kids, T
  <2> QED
    BY <2>1, NarrowSeq
<1>4. Yield[n] = Spelling(kind, Through(Yield, kids))
  <2>1. Yield[n] = Spelling(nodes[n].kind, FlattenSeq(YieldsBy(Yield, nodes[n].kids)))
    BY <1>1, ReadsAt
  <2> QED
    BY <2>1 DEF Through, Mapped, YieldsBy
<1>5. Through(Yield, kids) \in Seq(Types) /\ Through(Code, Through(Yield, kids)) = Through(Due, kids)
  <2> HIDE DEF kids
  <2>1. /\ YieldOf(kids) = Through(Yield, kids) /\ YieldOf(kids) \in Seq(Types)
        /\ Asked(YieldOf(kids)) = Through(Due, kids)
    BY <1>3, YieldAsks DEF T
  <2> QED
    BY <2>1, AskedIs
<1>6. kind = "ident" => Through(Yield, kids) = << >>
  <2> SUFFICES ASSUME kind = "ident" PROVE Through(Yield, kids) = << >>
    OBVIOUS
  <2>1. KidCounts("ident") = {0}
    BY DEF KidCounts, BinExprKinds
  <2>2. Len(kids) = 0
    BY <1>2, <2>1 DEF WellFormedNode
  <2>3. kids = << >>
    BY <1>3, <2>2, EmptySeq
  <2> QED
    BY <2>3, ThroughEmpty
<1>7. Due[n] = Through(Code, Yield[n])
  BY DueMaps
<1> HIDE DEF kids, kind
<1>8. Through(Code, Spelling(kind, Through(Yield, kids)))
          = CommandOf(kind) \o Through(Code, Through(Yield, kids))
  BY <1>5, <1>6, SpellingAsks
<1> QED
  BY <1>3, <1>4, <1>5, <1>7, <1>8 DEF kids, kind, T

\* Expressions ask for nothing.
LEMMA ExprSilent ==
    ASSUME ParserTypeOK, NEW n \in DOMAIN nodes, nodes[n].kind \in ExprKinds
    PROVE  Due[n] = << >>
<1> DEFINE T == DOMAIN nodes
           Mute(k) == nodes[k].kind \in ExprKinds => Due[k] = << >>
           S == {m \in Nat : \A k \in T : k <= m => Mute(k)}
<1>1. T = 1 .. Len(nodes) /\ Len(nodes) \in Nat
  BY HeapFacts
<1>2. 0 \in S
  BY <1>1
<1>3. ASSUME NEW m \in Nat, m \in S PROVE m + 1 \in S
  <2> SUFFICES ASSUME m + 1 \in T, nodes[m + 1].kind \in ExprKinds PROVE Due[m + 1] = << >>
    <3>1. \A k \in T : k <= m + 1 => k <= m \/ k = m + 1
      BY <1>1
    <3> QED
      BY <1>3, <3>1
  <2> DEFINE kids == nodes[m + 1].kids
             R == {k \in T : k <= m /\ nodes[k].kind \in ExprKinds}
             d == Due
  <2>1. WellFormedNode(m + 1) /\ kids \in Seq(T)
    BY NodeDue DEF ParserTypeOK, WellFormedAst
  <2>2. \A i \in DOMAIN kids : kids[i] \in R
    <3> SUFFICES ASSUME NEW i \in DOMAIN kids PROVE kids[i] \in R
      OBVIOUS
    <3>1. kids[i] \in 1 .. (m + 1) - 1 /\ nodes[kids[i]].kind \in KidKinds(nodes[m + 1].kind, i)
      BY <2>1 DEF WellFormedNode
    <3>2. kids[i] \in T /\ kids[i] <= m
      BY <1>1, <3>1
    <3>3. KidKinds(nodes[m + 1].kind, i) \subseteq ExprKinds
      BY DEF ExprKinds, TermKinds, BinExprKinds, KidKinds
    <3> QED
      BY <3>1, <3>2, <3>3
  <2>3. CommandOf(nodes[m + 1].kind) = << >>
    BY DEF CommandOf, ExprKinds, TermKinds, BinExprKinds
  <2>4. Due[m + 1] = << >> \o Through(Due, kids)
    BY <2>3, NodeDue
  <2>5. R \subseteq T /\ \A k \in R : d[k] = << >>
    BY <1>3
  <2>6. Maps(d, T, Ops)
    BY DueMaps
  <2> HIDE DEF kids, R, T, d, S
  <2>7. kids \in Seq(R)
    BY <2>1, <2>2, NarrowSeq
  <2>8. Through(d, kids) = << >>
    BY <2>5, <2>6, <2>7, ThroughSilent
  <2> QED
    BY <2>4, <2>8, EmptySeq, ConcatEmptySeq DEF d
<1> HIDE DEF S
<1>4. Nat \subseteq S
  BY <1>2, <1>3, SetInduction
<1>5. n \in Nat
  BY <1>1
<1> QED
  BY <1>4, <1>5 DEF S

-----------------------------------------------------------------------------
(* What the functions of the walk owe.                                      *)

Walkers == {f \in GenFrames : WalkOK(f)}
OwedBy  == [f \in Walkers |-> Owed(f)]

KidsOf(f) == nodes[f.node].kids

LEMMA RestSeq ==
    ASSUME NEW T, NEW s \in Seq(T), NEW k \in Nat \ {0}
    PROVE  SubSeq(s, k, Len(s)) \in Seq(T)
<1>1. Len(s) \in Int /\ k \in Int /\ \A i \in k .. Len(s) : s[i] \in T
  BY LenProperties, ElementOfSeq
<1> QED
  BY <1>1, SubSeqProperties

LEMMA WalkerFacts ==
    ASSUME ParserTypeOK, NEW f \in Walkers
    PROVE  /\ mProg \in Seq(DOMAIN nodes) /\ f.i \in Nat
           /\ f.at \notin {"generate", "program"} =>
                 f.node \in DOMAIN nodes /\ KidsOf(f) \in Seq(DOMAIN nodes)
<1>1. mProg \in Seq(DOMAIN nodes) /\ f.i \in Nat /\ WalkOK(f)
  BY StateFacts, HeapFacts DEF Walkers, GenFrames
<1>2. f.at \notin {"generate", "program"} => f.node \in DOMAIN nodes
  BY <1>1 DEF WalkOK
<1> QED
  BY <1>1, <1>2, NodeDue DEF KidsOf

LEMMA OwedTable ==
    ASSUME ParserTypeOK, NEW f \in Walkers
    PROVE  /\ Owed(f) \in Seq(Ops)
           /\ f.at \in {"generate", "program"} =>
                 Owed(f) = Through(Due, SubSeq(mProg, f.i + 1, Len(mProg)))
           /\ f.at \in {"stmt", "pred"} => Owed(f) = Due[f.node]
           /\ f.at \in {"scope", "scope.stmt"} =>
                 Owed(f) = Through(Due, SubSeq(KidsOf(f), f.i + 1, Len(KidsOf(f))))
           /\ f.at \in {"if.expr", "elif.expr", "while.expr"} =>
                 Owed(f) = <<"test rax, rax">> \o Through(Due, SubSeq(KidsOf(f), 2, Len(KidsOf(f))))
           /\ f.at \in {"if.scope", "elif.scope"} =>
                 Owed(f) = Through(Due, SubSeq(KidsOf(f), 3, Len(KidsOf(f))))
           /\ f.at = "exit" => Owed(f) = <<"syscall">>
           /\ f.at \in {"block", "if.pred", "while.scope", "expr", "bin.right", "bin.left"} =>
                 Owed(f) = << >>
<1> DEFINE T == DOMAIN nodes
           ids == TreesLeft(f)
           rest == Through(Due, ids)
<1>1. mProg \in Seq(T) /\ f.i + 1 \in Nat \ {0}
      /\ (f.at \notin {"generate", "program"} => f.node \in T /\ KidsOf(f) \in Seq(T))
  BY WalkerFacts
<1>2. /\ f.at \in {"generate", "program"} => ids = SubSeq(mProg, f.i + 1, Len(mProg))
      /\ f.at \in {"stmt", "pred"} => ids = <<f.node>>
      /\ f.at \in {"scope", "scope.stmt"} => ids = SubSeq(KidsOf(f), f.i + 1, Len(KidsOf(f)))
      /\ f.at \in {"if.expr", "elif.expr", "while.expr"}
            => ids = SubSeq(KidsOf(f), 2, Len(KidsOf(f)))
      /\ f.at \in {"if.scope", "elif.scope"} => ids = SubSeq(KidsOf(f), 3, Len(KidsOf(f)))
      /\ f.at \notin {"generate", "program", "stmt", "pred", "scope", "scope.stmt", "if.expr",
                      "elif.expr", "while.expr", "if.scope", "elif.scope"} => ids = << >>
  BY DEF TreesLeft, KidsOf
<1>3. ids \in Seq(T)
  <2> HIDE DEF ids, T
  <2>1. CASE f.at \in {"generate", "program"}
    BY <1>1, <1>2, <2>1, RestSeq
  <2>2. CASE f.at \in {"stmt", "pred"}
    <3>1. f.node \in T /\ ids = <<f.node>>
      BY <1>1, <1>2, <2>2
    <3> QED
      BY <3>1, ShortSeqs
  <2>3. CASE f.at \in {"scope", "scope.stmt"}
    BY <1>1, <1>2, <2>3, RestSeq
  <2>4. CASE f.at \in {"if.expr", "elif.expr", "while.expr"}
    <3>1. KidsOf(f) \in Seq(T) /\ ids = SubSeq(KidsOf(f), 2, Len(KidsOf(f)))
      BY <1>1, <1>2, <2>4
    <3>2. 2 \in Nat \ {0}
      OBVIOUS
    <3> QED
      BY <3>1, <3>2, RestSeq
  <2>5. CASE f.at \in {"if.scope", "elif.scope"}
    <3>1. KidsOf(f) \in Seq(T) /\ ids = SubSeq(KidsOf(f), 3, Len(KidsOf(f)))
      BY <1>1, <1>2, <2>5
    <3>2. 3 \in Nat \ {0}
      OBVIOUS
    <3> QED
      BY <3>1, <3>2, RestSeq
  <2>6. CASE f.at \notin {"generate", "program", "stmt", "pred", "scope", "scope.stmt", "if.expr",
                          "elif.expr", "while.expr", "if.scope", "elif.scope"}
    BY <1>2, <2>6, EmptySeq
  <2> QED
    BY <2>1, <2>2, <2>3, <2>4, <2>5, <2>6
<1>4. CommandLeft(f.at) \in Seq(Ops)
  BY OpsSeqs DEF CommandLeft
<1>5. rest \in Seq(Ops) /\ Owed(f) = CommandLeft(f.at) \o rest /\ Maps(Due, T, Ops)
  <2> HIDE DEF ids
  <2>1. Asked(YieldOf(ids)) = rest /\ rest \in Seq(Ops)
    BY <1>3, YieldAsks
  <2> QED
    BY <2>1, DueMaps DEF Owed, ids
<1>6. /\ f.at \notin {"if.expr", "elif.expr", "while.expr", "exit"} => CommandLeft(f.at) = << >>
      /\ f.at \in {"if.expr", "elif.expr", "while.expr"} => CommandLeft(f.at) = <<"test rax, rax">>
      /\ f.at = "exit" => CommandLeft(f.at) = <<"syscall">>
  BY DEF CommandLeft
<1>7. f.at \in {"stmt", "pred"} => rest = Due[f.node]
  BY <1>1, <1>2, <1>5, ThroughOne
<1>8. ids = << >> => rest = << >>
  BY ThroughEmpty
<1>9. << >> \o rest = rest /\ <<"syscall">> \o << >> = <<"syscall">>
  BY <1>5, OpsSeqs, ConcatEmptySeq
<1> HIDE DEF rest
<1>10. Owed(f) \in Seq(Ops)
  BY <1>4, <1>5, ConcatProperties
<1>11. f.at \notin {"if.expr", "elif.expr", "while.expr", "exit"} => Owed(f) = rest
  BY <1>5, <1>6, <1>9
<1>12. f.at \in {"if.expr", "elif.expr", "while.expr"} => Owed(f) = <<"test rax, rax">> \o rest
  BY <1>5, <1>6
<1>13. f.at = "exit" => Owed(f) = <<"syscall">>
  BY <1>2, <1>5, <1>6, <1>8, <1>9
<1>14. f.at \in {"block", "if.pred", "while.scope", "expr", "bin.right", "bin.left"} => Owed(f) = << >>
  BY <1>2, <1>8, <1>11
<1> HIDE DEF ids
<1> QED
  BY <1>2, <1>7, <1>10, <1>11, <1>12, <1>13, <1>14 DEF rest

-----------------------------------------------------------------------------
(* The stack, and what a step makes of what it owes.                        *)

LEMMA OwedByMaps ==
    ASSUME ParserTypeOK
    PROVE  Maps(OwedBy, Walkers, Ops) /\ \A f \in Walkers : OwedBy[f] = Owed(f)
<1>1. \A f \in Walkers : Owed(f) \in Seq(Ops)
  BY OwedTable
<1> QED
  BY <1>1 DEF OwedBy, Maps

LEMMA FramesWalk == Inv => frames \in Seq(Walkers)
<1> SUFFICES ASSUME Inv PROVE frames \in Seq(Walkers)
  OBVIOUS
<1>1. frames \in Seq(GenFrames) /\ \A n \in DOMAIN frames : WalkOK(frames[n])
  BY DEF Inv, GenInv, FramesOK
<1>2. \A n \in DOMAIN frames : frames[n] \in Walkers
  <2>1. \A n \in DOMAIN frames : frames[n] \in GenFrames
    BY <1>1, LenProperties, ElementOfSeq
  <2> QED
    BY <1>1, <2>1 DEF Walkers
<1> QED
  BY <1>1, <1>2, NarrowSeq

LEMMA StackParts ==
    ASSUME Inv, frames # << >>
    PROVE  /\ Popped(frames) \in Seq(Walkers) /\ Walking \in Walkers
           /\ frames = Append(Popped(frames), Walking)
           /\ Len(frames) \in Nat \ {0} /\ Len(Popped(frames)) = Len(frames) - 1
<1>1. frames \in Seq(Walkers)
  BY FramesWalk
<1>2. Len(frames) \in Nat \ {0}
  BY <1>1, EmptySeq, LenProperties
<1>3. Len(frames) - 1 \in Nat /\ Len(frames) = (Len(frames) - 1) + 1
  BY <1>2
<1>4. /\ Popped(frames) \in Seq(Walkers) /\ Len(Popped(frames)) = Len(frames) - 1
      /\ frames[Len(frames)] \in Walkers
      /\ frames = Append(Popped(frames), frames[Len(frames)])
  BY <1>1, <1>3, FrontAndLast DEF Popped
<1> QED
  BY <1>2, <1>4 DEF Walking

\* The top of a stack, replaced.
LEMMA ToppedAppend ==
    ASSUME NEW S, NEW s \in Seq(S), NEW x \in S, NEW c \in S
    PROVE  Topped(Append(s, x), c) = Append(s, c)
<1> DEFINE a == Append(s, x)
           b == Append(s, c)
           t == Topped(a, c)
           l == Len(s)
<1>1. /\ l \in Nat /\ a \in Seq(S) /\ Len(a) = l + 1 /\ b \in Seq(S) /\ Len(b) = l + 1
      /\ b[l + 1] = c /\ \A i \in 1 .. l : a[i] = s[i] /\ b[i] = s[i]
  BY LenProperties, AppendProperties
<1> HIDE DEF a, b, l
<1>2. a # << >>
  BY <1>1, EmptySeq
<1> HIDE DEF t
<1>3. /\ t \in Seq(S) /\ Len(t) = Len(a) /\ t[Len(a)] = c
      /\ \A m \in 1 .. Len(a) - 1 : t[m] = a[m]
  <2>1. /\ Topped(a, c) \in Seq(S) /\ Len(Topped(a, c)) = Len(a)
        /\ Topped(a, c)[Len(a)] = c
        /\ \A m \in 1 .. Len(a) - 1 : Topped(a, c)[m] = a[m]
    <3>1. a \in Seq(S)
      BY <1>1
    <3> QED
      BY <1>2, <3>1, ToppedIs
  <2> QED
    BY <2>1 DEF t
<1>4. \A i \in 1 .. l + 1 : i \in 1 .. l \/ i = l + 1
  BY <1>1
<1>5. Len(a) - 1 = l
  BY <1>1
<1>6. \A i \in 1 .. Len(t) : t[i] = b[i]
  BY <1>1, <1>3, <1>4, <1>5
<1>7. t = b
  BY <1>1, <1>3, <1>6, SeqEqual
<1> QED
  BY <1>7 DEF t, a, b

LEMMA WalkersStay ==
    ASSUME UNCHANGED <<nodes, mProg>>, Inv'
    PROVE  frames' \in Seq(GenFrames) /\ \A n \in DOMAIN frames' : frames'[n] \in Walkers
<1>1. FramesOK'
  BY DEF Inv, GenInv
<1>2. frames' \in Seq(GenFrames) /\ \A n \in DOMAIN frames' : WalkOK(frames[n])'
  BY <1>1 DEF FramesOK
<1>3. \A n \in DOMAIN frames' : frames'[n] \in GenFrames
  BY <1>2, LenProperties, ElementOfSeq
<1>4. \A n \in DOMAIN frames' : WalkOK(frames'[n])
  BY <1>2 DEF WalkOK
<1> QED
  BY <1>2, <1>3, <1>4 DEF Walkers

\* The three shapes of a step.
LEMMA DescendStack ==
    ASSUME Inv, frames # << >>, Inv', UNCHANGED <<nodes, mProg>>, NEW w, NEW c, Descend(w, c)
    PROVE  /\ w \in Walkers /\ c \in Walkers
           /\ frames' = Append(Append(Popped(frames), w), c)
<1> DEFINE V == Walkers \cup {w, c}
<1>1. frames \in Seq(V) /\ w \in V /\ c \in V
  <2>1. frames \in Seq(Walkers)
    BY FramesWalk
  <2>2. \A n \in DOMAIN frames : frames[n] \in V
    BY <2>1, LenProperties, ElementOfSeq
  <2> HIDE DEF V
  <2>3. frames \in Seq(V)
    BY <2>1, <2>2, NarrowSeq
  <2> QED
    BY <2>3 DEF V
<1>2. frames' = Pushed(frames, w, c)
  BY DEF Descend, Pushed, Topped
<1>3. Len(frames) \in Nat \ {0}
  BY StackParts
<1> HIDE DEF V
<1>4. /\ DOMAIN Pushed(frames, w, c) = 1 .. Len(frames) + 1
      /\ Pushed(frames, w, c)[Len(frames) + 1] = c /\ Pushed(frames, w, c)[Len(frames)] = w
  BY <1>1, PushedIs
<1>5. /\ Len(frames) \in DOMAIN frames' /\ Len(frames) + 1 \in DOMAIN frames'
      /\ frames'[Len(frames)] = w /\ frames'[Len(frames) + 1] = c
  <2>1. Len(frames) \in 1 .. Len(frames) + 1 /\ Len(frames) + 1 \in 1 .. Len(frames) + 1
    BY <1>3
  <2> QED
    BY <1>2, <1>4, <2>1, Zenon
<1>6. w \in Walkers /\ c \in Walkers
  BY <1>5, WalkersStay
<1>7. Topped(Append(Popped(frames), Walking), w) = Append(Popped(frames), w)
  BY <1>6, StackParts, ToppedAppend
<1>8. frames = Append(Popped(frames), Walking)
  BY StackParts
<1> QED
  BY <1>2, <1>6, <1>7, <1>8, Zenon DEF Pushed

LEMMA TakeOverStack ==
    ASSUME Inv, frames # << >>, Inv', UNCHANGED <<nodes, mProg>>, NEW c, TakeOver(c)
    PROVE  c \in Walkers /\ frames' = Append(Popped(frames), c)
<1> DEFINE V == Walkers \cup {c}
<1>1. frames \in Seq(V) /\ c \in V
  <2>1. frames \in Seq(Walkers)
    BY FramesWalk
  <2>2. \A n \in DOMAIN frames : frames[n] \in V
    BY <2>1, LenProperties, ElementOfSeq
  <2> HIDE DEF V
  <2>3. frames \in Seq(V)
    BY <2>1, <2>2, NarrowSeq
  <2> QED
    BY <2>3 DEF V
<1>2. frames' = Topped(frames, c)
  BY DEF TakeOver, Topped
<1>3. Len(frames) \in Nat \ {0}
  BY StackParts
<1> HIDE DEF V
<1>4. DOMAIN Topped(frames, c) = 1 .. Len(frames) /\ Topped(frames, c)[Len(frames)] = c
  BY <1>1, ToppedIs
<1>5. Len(frames) \in DOMAIN frames' /\ frames'[Len(frames)] = c
  <2>1. Len(frames) \in 1 .. Len(frames)
    BY <1>3
  <2> QED
    BY <1>2, <1>4, <2>1, Zenon
<1>6. c \in Walkers
  BY <1>5, WalkersStay
<1>7. Topped(Append(Popped(frames), Walking), c) = Append(Popped(frames), c)
  BY <1>6, StackParts, ToppedAppend
<1>8. frames = Append(Popped(frames), Walking)
  BY StackParts
<1> QED
  BY <1>2, <1>6, <1>7, <1>8, Zenon

\* What is written, and then what the stack owes, is after the step what it was before.
Balanced == Commands' \o StackOwes(OwedBy, frames') = Commands \o StackOwes(OwedBy, frames)

LEMMA WithOneMore ==
    ASSUME ParserTypeOK, NEW fs, fs \in Seq(Walkers), NEW f, f \in Walkers
    PROVE  /\ StackOwes(OwedBy, Append(fs, f)) = Owed(f) \o StackOwes(OwedBy, fs)
           /\ StackOwes(OwedBy, fs) \in Seq(Ops)
<1> DEFINE o == OwedBy
           F == Walkers
           U == Ops
<1>1. Maps(o, F, U) /\ o[f] = Owed(f) /\ fs \in Seq(F) /\ f \in F
  BY OwedByMaps
<1> HIDE DEF o, F, U
<1>2. StackOwes(o, Append(fs, f)) = o[f] \o StackOwes(o, fs)
  <2>1. PICK b, G, V : b = o /\ G = F /\ V = U
    OBVIOUS
  <2>2. Maps(b, G, V) /\ fs \in Seq(G) /\ f \in G
    BY <1>1, <2>1
  <2>3. StackOwes(b, Append(fs, f)) = b[f] \o StackOwes(b, fs)
    BY <2>2, OneMoreOwes
  <2> QED
    BY <2>1, <2>3
<1>3. StackOwes(o, fs) \in Seq(U)
  BY <1>1, OwesType
<1> QED
  BY <1>1, <1>2, <1>3 DEF o, U

LEMMA TopOwes ==
    ASSUME ParserTypeOK, Inv, frames # << >>
    PROVE  /\ StackOwes(OwedBy, frames) = Owed(Walking) \o StackOwes(OwedBy, Popped(frames))
           /\ StackOwes(OwedBy, Popped(frames)) \in Seq(Ops)
           /\ Owed(Walking) \in Seq(Ops) /\ Commands \in Seq(Ops)
<1>1. PICK fs, f : fs = Popped(frames) /\ f = Walking
  OBVIOUS
<1>2. Owed(Walking) \in Seq(Ops)
  BY StackParts, OwedTable
<1>3. fs \in Seq(Walkers) /\ f \in Walkers
  BY <1>1, StackParts
<1>4. /\ StackOwes(OwedBy, Append(fs, f)) = Owed(f) \o StackOwes(OwedBy, fs)
      /\ StackOwes(OwedBy, fs) \in Seq(Ops)
  BY <1>3, WithOneMore
<1>5. Commands \in Seq(Ops)
  BY CommandsIs DEF Inv, GenInv, OutputOK
<1>6. frames = Append(Popped(frames), Walking)
  BY StackParts
<1> QED
  BY <1>1, <1>2, <1>4, <1>5, <1>6, Zenon

LEMMA LeaveBalances ==
    ASSUME ParserTypeOK, Inv, frames # << >>, Leave, Commands' = Commands \o Owed(Walking)
    PROVE  Balanced
<1>1. PICK p, q, r : p = Commands /\ q = Owed(Walking) /\ r = StackOwes(OwedBy, Popped(frames))
  OBVIOUS
<1>2. p \in Seq(Ops) /\ q \in Seq(Ops) /\ r \in Seq(Ops)
  BY <1>1, TopOwes
<1>3. (p \o q) \o r = p \o (q \o r)
  BY <1>2, Associative, SMTT(60)
<1>4. frames' = Popped(frames)
  BY DEF Leave, Popped
<1>5. Commands' \o StackOwes(OwedBy, frames') = (p \o q) \o r
  BY <1>1, <1>4
<1>6. Commands \o StackOwes(OwedBy, frames) = p \o (q \o r)
  BY <1>1, TopOwes
<1> QED
  BY <1>3, <1>5, <1>6 DEF Balanced

LEMMA TakeOverBalances ==
    ASSUME ParserTypeOK, Inv, frames # << >>, Inv', UNCHANGED <<nodes, mProg>>,
           NEW c, TakeOver(c), NEW said \in Seq(Ops), Commands' = Commands \o said,
           Owed(Walking) = said \o Owed(c)
    PROVE  Balanced
<1>0. c \in Walkers /\ frames' = Append(Popped(frames), c) /\ Owed(c) \in Seq(Ops)
  BY TakeOverStack, OwedTable
<1>1. PICK p, q, r : p = Commands /\ q = Owed(c) /\ r = StackOwes(OwedBy, Popped(frames))
  OBVIOUS
<1>2. p \in Seq(Ops) /\ q \in Seq(Ops) /\ r \in Seq(Ops) /\ q \o r \in Seq(Ops)
  BY <1>0, <1>1, TopOwes, ConcatProperties
<1>3. (p \o said) \o (q \o r) = p \o (said \o (q \o r))
  <2>1. PICK qr : qr = q \o r
    OBVIOUS
  <2>2. (p \o said) \o qr = p \o (said \o qr)
    BY <1>2, <2>1, Associative, SMTT(60)
  <2> QED
    BY <2>1, <2>2
<1>4. (said \o q) \o r = said \o (q \o r)
  BY <1>2, Associative, SMTT(60)
<1>5. StackOwes(OwedBy, frames') = q \o r
  <2>1. PICK fs : fs = Popped(frames)
    OBVIOUS
  <2>2. fs \in Seq(Walkers)
    BY <2>1, StackParts
  <2>3. StackOwes(OwedBy, Append(fs, c)) = Owed(c) \o StackOwes(OwedBy, fs)
    BY <1>0, <2>2, WithOneMore
  <2> QED
    BY <1>0, <1>1, <2>1, <2>3, Zenon
<1>6. Commands' \o StackOwes(OwedBy, frames') = (p \o said) \o (q \o r)
  BY <1>1, <1>5
<1>7. Commands \o StackOwes(OwedBy, frames) = p \o ((said \o q) \o r)
  BY <1>1, TopOwes
<1> QED
  BY <1>3, <1>4, <1>6, <1>7 DEF Balanced

LEMMA DescendBalances ==
    ASSUME ParserTypeOK, Inv, frames # << >>, Inv', UNCHANGED <<nodes, mProg>>,
           NEW w, NEW c, Descend(w, c), NEW said \in Seq(Ops), Commands' = Commands \o said,
           Owed(Walking) = said \o (Owed(c) \o Owed(w))
    PROVE  Balanced
<1>0. /\ w \in Walkers /\ c \in Walkers /\ frames' = Append(Append(Popped(frames), w), c)
      /\ Owed(w) \in Seq(Ops) /\ Owed(c) \in Seq(Ops)
  BY DescendStack, OwedTable
<1>1. PICK p, q, m, r : /\ p = Commands /\ q = Owed(c) /\ m = Owed(w)
                        /\ r = StackOwes(OwedBy, Popped(frames))
  OBVIOUS
<1>2. /\ p \in Seq(Ops) /\ q \in Seq(Ops) /\ m \in Seq(Ops) /\ r \in Seq(Ops)
      /\ q \o m \in Seq(Ops) /\ m \o r \in Seq(Ops) /\ q \o (m \o r) \in Seq(Ops)
  <2>1. p \in Seq(Ops) /\ q \in Seq(Ops) /\ m \in Seq(Ops) /\ r \in Seq(Ops)
    BY <1>0, <1>1, TopOwes
  <2>2. q \o m \in Seq(Ops) /\ m \o r \in Seq(Ops)
    BY <2>1, ConcatProperties
  <2> QED
    BY <2>1, <2>2, ConcatProperties
<1>3. (p \o said) \o (q \o (m \o r)) = p \o (said \o (q \o (m \o r)))
  <2>1. PICK x : x = q \o (m \o r)
    OBVIOUS
  <2>2. (p \o said) \o x = p \o (said \o x)
    BY <1>2, <2>1, Associative, SMTT(60)
  <2> QED
    BY <2>1, <2>2
<1>4. (said \o (q \o m)) \o r = said \o ((q \o m) \o r)
  <2>1. PICK x : x = q \o m
    OBVIOUS
  <2>2. (said \o x) \o r = said \o (x \o r)
    BY <1>2, <2>1, Associative, SMTT(60)
  <2> QED
    BY <2>1, <2>2
<1>5. (q \o m) \o r = q \o (m \o r)
  BY <1>2, Associative, SMTT(60)
<1>6. StackOwes(OwedBy, frames') = q \o (m \o r)
  <2>1. PICK bs, fs : bs = Popped(frames) /\ fs = Append(bs, w)
    OBVIOUS
  <2>2. bs \in Seq(Walkers)
    BY <2>1, StackParts
  <2>3. fs \in Seq(Walkers)
    BY <1>0, <2>1, <2>2, AppendProperties
  <2>4. StackOwes(OwedBy, Append(bs, w)) = Owed(w) \o StackOwes(OwedBy, bs)
    BY <1>0, <2>2, WithOneMore
  <2>5. StackOwes(OwedBy, Append(fs, c)) = Owed(c) \o StackOwes(OwedBy, fs)
    BY <1>0, <2>3, WithOneMore
  <2>6. frames' = Append(fs, c)
    BY <1>0, <2>1, Zenon
  <2> QED
    BY <1>1, <2>1, <2>4, <2>5, <2>6, Zenon
<1>7. Commands' \o StackOwes(OwedBy, frames') = (p \o said) \o (q \o (m \o r))
  BY <1>1, <1>6
<1>8. Commands \o StackOwes(OwedBy, frames) = p \o ((said \o (q \o m)) \o r)
  BY <1>1, TopOwes
<1> QED
  BY <1>3, <1>4, <1>5, <1>7, <1>8 DEF Balanced

-----------------------------------------------------------------------------
(* What the code of an action says.                                         *)

LEMMA CommandsAre ==
    ASSUME NEW lines \in Seq(Lines)
    PROVE  FlattenSeq([k \in DOMAIN lines |-> Command(lines[k])]) = Through(Kept, lines)
<1>1. \A k \in DOMAIN lines : lines[k] \in Lines
  BY LenProperties, ElementOfSeq
<1>2. [k \in DOMAIN lines |-> Command(lines[k])] = Mapped(Kept, lines)
  BY <1>1 DEF Mapped, Kept
<1> QED
  BY <1>2 DEF Through

LEMMA Says ==
    ASSUME OutputOK, NEW code, code \in Seq(Lines), mOutput' = mOutput \o code
    PROVE  Commands' = Commands \o Through(Kept, code) /\ Through(Kept, code) \in Seq(Ops)
<1>1. PICK a, b : a = mOutput /\ b = mOutput'
  OBVIOUS
<1>2. a \in Seq(Lines) /\ b = a \o code /\ b \in Seq(Lines)
  <2>1. a \in Seq(Lines) /\ b = a \o code
    BY <1>1 DEF OutputOK
  <2> QED
    BY <2>1, ConcatProperties
<1>3. FlattenSeq([k \in DOMAIN a |-> Command(a[k])]) = Through(Kept, a)
  BY <1>2, CommandsAre
<1>4. FlattenSeq([k \in DOMAIN b |-> Command(b[k])]) = Through(Kept, b)
  BY <1>2, CommandsAre
<1>5. Through(Kept, a \o code) = Through(Kept, a) \o Through(Kept, code)
  BY <1>2, KeptMaps, ThroughConcat
<1>6. Commands = Through(Kept, a) /\ Commands' = Through(Kept, b)
  BY <1>1, <1>3, <1>4 DEF Commands
<1>7. Through(Kept, code) \in Seq(Ops)
  BY KeptMaps, MappedSeq
<1> QED
  BY <1>2, <1>5, <1>6, <1>7

\* Lines that are no command.
Quiet == {l \in Lines : l.op \notin Ops}

LEMMA SaysNothing ==
    ASSUME OutputOK, NEW code, code \in Seq(Quiet), mOutput' = mOutput \o code
    PROVE  Commands' = Commands \o << >>
<1>1. code \in Seq(Lines)
  <2>1. \A k \in DOMAIN code : code[k] \in Lines
    BY LenProperties, ElementOfSeq DEF Quiet
  <2> QED
    BY <2>1, NarrowSeq
<1>2. Quiet \subseteq Lines /\ \A l \in Quiet : Kept[l] = << >>
  BY DEF Quiet, Kept, Command, Ops
<1>3. Through(Kept, code) = << >>
  BY <1>2, KeptMaps, ThroughSilent
<1> QED
  BY <1>1, <1>3, Says

LEMMA NothingSaid == EmitNothing /\ OutputOK => Commands' = Commands \o << >>
<1> SUFFICES ASSUME EmitNothing, OutputOK PROVE Commands' = Commands \o << >>
  OBVIOUS
<1>1. mOutput' = mOutput
  BY DEF EmitNothing
<1>2. Commands' = Commands /\ Commands \in Seq(Ops)
  BY <1>1, CommandsIs DEF Commands, OutputOK
<1> QED
  BY <1>2, ConcatEmptySeq

LEMMA QuietLines ==
    ASSUME Walking.node \in Nat
    PROVE  /\ \A op \in Plain : op \notin Ops => Op(op) \in Quiet
           /\ \A op \in Jumps : \A l \in Nat : Jump(op, l) \in Quiet
           /\ \A l \in Nat : Label(l) \in Quiet
<1>1. ASSUME NEW op \in Plain, op \notin Ops PROVE Op(op) \in Quiet
  <2>1. Op(op) \in Lines /\ Op(op).op = op
    BY OpLine DEF Op, Instr
  <2> QED
    BY <1>1, <2>1 DEF Quiet
<1>2. ASSUME NEW op \in Jumps, NEW l \in Nat PROVE Jump(op, l) \in Quiet
  <2>1. Jump(op, l) \in Lines /\ Jump(op, l).op = op
    BY JumpLine DEF Jump, Instr
  <2>2. op \notin Ops
    BY DEF Jumps, Ops
  <2> QED
    BY <2>1, <2>2 DEF Quiet
<1>3. ASSUME NEW l \in Nat PROVE Label(l) \in Quiet
  <2>1. Label(l) \in Lines /\ Label(l).op = "label"
    BY LabelLine
  <2>2. "label" \notin Ops
    BY DEF Ops
  <2> QED
    BY <2>1, <2>2 DEF Quiet
<1> QED
  BY <1>1, <1>2, <1>3

LEMMA ThreeLines ==
    ASSUME NEW a \in Lines, NEW b \in Lines, NEW c \in Lines
    PROVE  /\ <<a, b, c>> \in Seq(Lines)
           /\ Through(Kept, <<a, b, c>>) = (Command(a) \o Command(b)) \o Command(c)
<1>1. PICK k, L, U : k = Kept /\ L = Lines /\ U = Ops
  OBVIOUS
<1>2. /\ Maps(k, L, U) /\ k[a] = Command(a) /\ k[b] = Command(b) /\ k[c] = Command(c)
      /\ a \in L /\ b \in L /\ c \in L
  BY <1>1, KeptMaps DEF Kept
<1>3. PICK x, y, z, xy : x = <<a>> /\ y = <<b>> /\ z = <<c>> /\ xy = <<a, b>>
  OBVIOUS
<1>4. x \in Seq(L) /\ y \in Seq(L) /\ z \in Seq(L) /\ xy \in Seq(L)
  BY <1>2, <1>3
<1>5. Through(k, x) = k[a] /\ Through(k, y) = k[b] /\ Through(k, z) = k[c]
  <2>1. ASSUME NEW l \in L PROVE Through(k, <<l>>) = k[l]
    BY <1>2, ThroughOne
  <2> QED
    BY <1>2, <1>3, <2>1, Zenon
<1>6. ASSUME NEW s \in Seq(L), NEW t \in Seq(L)
      PROVE  Through(k, s \o t) = Through(k, s) \o Through(k, t)
  BY <1>2, ThroughConcat
<1>7. xy = x \o y
  BY <1>3, Pair
<1>8. <<a, b, c>> = xy \o z
  <2>1. <<a, b, c>> = <<a, b>> \o <<c>>
    OBVIOUS
  <2> QED
    BY <1>3, <2>1, Zenon
<1>9. /\ Through(k, xy) = Through(k, x) \o Through(k, y)
      /\ Through(k, xy \o z) = Through(k, xy) \o Through(k, z)
  BY <1>4, <1>6, <1>7, Zenon
<1>10. <<a, b, c>> \in Seq(Lines)
  OBVIOUS
<1>11. Through(k, <<a, b, c>>) = (Command(a) \o Command(b)) \o Command(c)
  <2>1. Through(k, <<a, b, c>>) = (k[a] \o k[b]) \o k[c]
    BY <1>5, <1>8, <1>9, Zenon
  <2> QED
    BY <1>2, <2>1, Zenon
<1> QED
  BY <1>1, <1>10, <1>11, Zenon

LEMMA ExitSays ==
    ASSUME OutputOK, Walking.node \in Nat,
           mOutput' = mOutput \o <<Op("mov rax, 60"), Op("pop rdi"), Op("syscall")>>
    PROVE  Commands' = Commands \o <<"syscall">>
<1>1. PICK a, b, c : a = Op("mov rax, 60") /\ b = Op("pop rdi") /\ c = Op("syscall")
  OBVIOUS
<1>2. a \in Lines /\ b \in Lines /\ c \in Lines
  BY <1>1, PlainOps, OpLine
<1>3. Command(a) = << >> /\ Command(b) = << >> /\ Command(c) = <<"syscall">>
  BY <1>1 DEF Op, Instr, Command
<1>4. Through(Kept, <<a, b, c>>) = <<"syscall">>
  <2>0. Through(Kept, <<a, b, c>>) = (Command(a) \o Command(b)) \o Command(c)
    BY <1>2, ThreeLines
  <2>1. Through(Kept, <<a, b, c>>) = (<< >> \o << >>) \o <<"syscall">>
    BY <1>3, <2>0, Zenon
  <2> QED
    BY <2>1, OpsSeqs, ConcatEmptySeq
<1>5. <<a, b, c>> \in Seq(Lines) /\ mOutput' = mOutput \o <<a, b, c>>
  BY <1>1, <1>2, ThreeLines
<1> DEFINE code == <<a, b, c>>
<1> HIDE DEF code
<1>6. code \in Seq(Lines) /\ mOutput' = mOutput \o code
  BY <1>5 DEF code
<1>7. Commands' = Commands \o Through(Kept, code)
  BY <1>6, Says
<1> QED
  BY <1>4, <1>7 DEF code

LEMMA TestSays ==
    ASSUME OutputOK, Walking.node \in Nat, NEW l \in Nat,
           mOutput' = mOutput \o <<Op("pop rax"), Op("test rax, rax"), Jump("jz", l)>>
    PROVE  Commands' = Commands \o <<"test rax, rax">>
<1>1. PICK a, b, c : a = Op("pop rax") /\ b = Op("test rax, rax") /\ c = Jump("jz", l)
  OBVIOUS
<1>2. a \in Lines /\ b \in Lines /\ c \in Lines
  BY <1>1, PlainOps, JumpOps, OpLine, JumpLine
<1>3. Command(a) = << >> /\ Command(b) = <<"test rax, rax">> /\ Command(c) = << >>
  BY <1>1 DEF Op, Jump, Instr, Command
<1>4. Through(Kept, <<a, b, c>>) = <<"test rax, rax">>
  <2>0. Through(Kept, <<a, b, c>>) = (Command(a) \o Command(b)) \o Command(c)
    BY <1>2, ThreeLines
  <2>1. Through(Kept, <<a, b, c>>) = (<< >> \o <<"test rax, rax">>) \o << >>
    BY <1>3, <2>0, Zenon
  <2> QED
    BY <2>1, OpsSeqs, ConcatEmptySeq
<1>5. <<a, b, c>> \in Seq(Lines) /\ mOutput' = mOutput \o <<a, b, c>>
  BY <1>1, <1>2, ThreeLines
<1> DEFINE code == <<a, b, c>>
<1> HIDE DEF code
<1>6. code \in Seq(Lines) /\ mOutput' = mOutput \o code
  BY <1>5 DEF code
<1>7. Commands' = Commands \o Through(Kept, code)
  BY <1>6, Says
<1> QED
  BY <1>4, <1>7 DEF code

LEMMA OneOf == \A S : \A a \in S : <<a>> \in Seq(S)
  OBVIOUS

LEMMA TwoAndThree == 2 + 1 = 3 /\ \A l \in {2, 3} : 2 \in 1 .. l
  OBVIOUS

LEMMA OneAndTwo == 1 + 1 = 2 /\ 1 \in 1 .. 1 /\ \A l \in {2, 3} : 1 \in 1 .. l
  OBVIOUS

LEMMA TuplesOf ==
    ASSUME NEW S
    PROVE  /\ \A a, b \in S : <<a, b>> \in Seq(S)
           /\ \A a, b, c, d, e, f, g, h \in S : <<a, b, c, d, e, f, g, h>> \in Seq(S)
           /\ \A a, b, c, d, e, f, g, h, i, j, k, l, m \in S :
                 <<a, b, c, d, e, f, g, h, i, j, k, l, m>> \in Seq(S)
<1>1. \A a, b \in S : <<a, b>> \in Seq(S)
  OBVIOUS
<1>2. \A a, b, c, d, e, f, g, h \in S : <<a, b, c, d, e, f, g, h>> \in Seq(S)
  OBVIOUS
<1>3. \A a, b, c, d, e, f, g, h, i, j, k, l, m \in S :
         <<a, b, c, d, e, f, g, h, i, j, k, l, m>> \in Seq(S)
  OBVIOUS
<1> QED
  BY <1>1, <1>2, <1>3

\* An operation neither tests nor exits.
LEMMA OperationQuiet ==
    ASSUME Walking.node \in Nat, sLabelCount \in Nat, NEW kind \in BinExprKinds
    PROVE  OperationCode(kind) \in Seq(Quiet)
<1> DEFINE s == sLabelCount
<1>1. /\ Op("pop rax") \in Quiet /\ Op("mov rbx, rax") \in Quiet /\ Op("pop rcx") \in Quiet
      /\ Op("sub rcx, 1") \in Quiet /\ Op("mul rbx") \in Quiet /\ Op("div rbx") \in Quiet
      /\ Op("mov rax, 1") \in Quiet /\ Op("mov rax, 0") \in Quiet /\ Op("push rax") \in Quiet
      /\ Op("push rdx") \in Quiet /\ Op("pop rbx") \in Quiet /\ Op("cmp rax, rbx") \in Quiet
      /\ Op("add rax, rbx") \in Quiet /\ Op("sub rax, rbx") \in Quiet
  <2>1. /\ "pop rax" \notin Ops /\ "mov rbx, rax" \notin Ops /\ "pop rcx" \notin Ops
        /\ "sub rcx, 1" \notin Ops /\ "mul rbx" \notin Ops /\ "div rbx" \notin Ops
        /\ "mov rax, 1" \notin Ops /\ "mov rax, 0" \notin Ops /\ "push rax" \notin Ops
        /\ "push rdx" \notin Ops /\ "pop rbx" \notin Ops /\ "cmp rax, rbx" \notin Ops
        /\ "add rax, rbx" \notin Ops /\ "sub rax, rbx" \notin Ops
    BY DEF Ops
  <2> QED
    BY <2>1, PlainOps, QuietLines
<1>2. /\ Jump("jc", s + 1) \in Quiet /\ Jump("jz", s + 2) \in Quiet /\ Jump("jmp", s) \in Quiet
      /\ Jump("jmp", s + 1) \in Quiet /\ Jump("jl", s) \in Quiet /\ Jump("jg", s) \in Quiet
      /\ Label(s) \in Quiet /\ Label(s + 1) \in Quiet /\ Label(s + 2) \in Quiet
  <2>1. s \in Nat /\ s + 1 \in Nat /\ s + 2 \in Nat
    OBVIOUS
  <2> QED
    BY <2>1, JumpOps, QuietLines
<1>3. Operands \in Seq(Quiet)
  BY <1>1, TuplesOf, Zenon DEF Operands
<1>4. ASSUME NEW x \in Quiet, NEW y \in Quiet PROVE Operands \o <<x, y>> \in Seq(Quiet)
  <2>1. <<x, y>> \in Seq(Quiet)
    OBVIOUS
  <2> QED
    BY <1>3, <2>1, ConcatProperties
<1>5. ASSUME NEW jump \in {"jl", "jg"} PROVE Comparison(jump) \in Seq(Quiet)
  <2>1. PICK rest : rest = <<Op("cmp rax, rbx"), Jump(jump, s), Op("mov rax, 0"),
                             Jump("jmp", s + 1), Label(s), Op("mov rax, 1"), Label(s + 1),
                             Op("push rax")>>
    OBVIOUS
  <2>2. rest \in Seq(Quiet)
    <3>1. Jump(jump, s) \in Quiet
      BY <1>2
    <3> QED
      BY <1>1, <1>2, <2>1, <3>1, TuplesOf, Zenon
  <2>3. Operands \o rest \in Seq(Quiet)
    BY <1>3, <2>2, ConcatProperties
  <2> QED
    BY <2>1, <2>3 DEF Comparison
<1>6. Power \in Seq(Quiet)
  BY <1>1, <1>2, TuplesOf, Zenon DEF Power
<1>7. \/ OperationCode(kind) = Power
      \/ \E x, y \in Quiet : OperationCode(kind) = Operands \o <<x, y>>
      \/ \E jump \in {"jl", "jg"} : OperationCode(kind) = Comparison(jump)
  <2>1. CASE kind = "mod"
    BY <1>1, <2>1 DEF OperationCode
  <2>2. CASE kind = "mul"
    BY <1>1, <2>2 DEF OperationCode
  <2>3. CASE kind = "div"
    BY <1>1, <2>3 DEF OperationCode
  <2>4. CASE kind = "plus"
    BY <1>1, <2>4 DEF OperationCode
  <2>5. CASE kind = "minus"
    BY <1>1, <2>5 DEF OperationCode
  <2>6. CASE kind = "less"
    BY <2>6 DEF OperationCode
  <2>7. CASE kind = "greater"
    BY <2>7 DEF OperationCode
  <2>8. CASE kind = "power"
    BY <2>8 DEF OperationCode
  <2> QED
    BY <2>1, <2>2, <2>3, <2>4, <2>5, <2>6, <2>7, <2>8 DEF BinExprKinds
<1> QED
  BY <1>4, <1>5, <1>6, <1>7

-----------------------------------------------------------------------------
(* What the walking function owes, node by node.                            *)

\* What the trees ask for, from the i-th on.
DueFrom(ids, i) == Through(Due, SubSeq(ids, i, Len(ids)))

LEMMA DueFromTable ==
    ASSUME ParserTypeOK, NEW ids, ids \in Seq(DOMAIN nodes), NEW i, i \in Nat \ {0}
    PROVE  /\ DueFrom(ids, i) \in Seq(Ops)
           /\ i <= Len(ids) => /\ ids[i] \in DOMAIN nodes
                               /\ DueFrom(ids, i) = Due[ids[i]] \o DueFrom(ids, i + 1)
           /\ i > Len(ids) => DueFrom(ids, i) = << >>
<1>1. PICK d, T, U : d = Due /\ T = DOMAIN nodes /\ U = Ops
  OBVIOUS
<1>2. Maps(d, T, U) /\ ids \in Seq(T) /\ Len(ids) \in Nat
  BY <1>1, DueMaps, LenProperties
<1>3. SubSeq(ids, i, Len(ids)) \in Seq(T)
  BY <1>2, RestSeq
<1>4. Through(d, SubSeq(ids, i, Len(ids))) \in Seq(U)
  <2>1. PICK r : r = SubSeq(ids, i, Len(ids))
    OBVIOUS
  <2>2. Through(d, r) \in Seq(U)
    BY <1>2, <1>3, <2>1, MappedSeq
  <2> QED
    BY <2>1, <2>2
<1>5. ASSUME i <= Len(ids)
      PROVE  /\ ids[i] \in T
             /\ Through(d, SubSeq(ids, i, Len(ids)))
                   = d[ids[i]] \o Through(d, SubSeq(ids, i + 1, Len(ids)))
  <2>1. i \in 1 .. Len(ids) /\ ids[i] \in T /\ Len(ids) \in i .. Len(ids)
    BY <1>2, <1>5, ElementOfSeq
  <2>2. PICK x, rest : x = <<ids[i]>> /\ rest = SubSeq(ids, i + 1, Len(ids))
    OBVIOUS
  <2>3. SubSeq(ids, i, Len(ids)) = x \o rest
    BY <1>2, <2>1, <2>2, SubSeqRecursiveFirst
  <2>4. x \in Seq(T) /\ rest \in Seq(T)
    <3>1. x \in Seq(T)
      BY <2>1, <2>2
    <3>2. i + 1 \in Nat \ {0}
      OBVIOUS
    <3>3. SubSeq(ids, i + 1, Len(ids)) \in Seq(T)
      BY <1>2, <3>2, RestSeq
    <3> QED
      BY <2>2, <3>1, <3>3
  <2>5. Through(d, x \o rest) = Through(d, x) \o Through(d, rest)
    BY <1>2, <2>4, ThroughConcat
  <2>6. Through(d, x) = d[ids[i]]
    BY <1>2, <2>1, <2>2, ThroughOne
  <2> QED
    BY <2>1, <2>2, <2>3, <2>5, <2>6
<1>6. ASSUME i > Len(ids) PROVE Through(d, SubSeq(ids, i, Len(ids))) = << >>
  <2>1. SubSeq(ids, i, Len(ids)) = << >>
    BY <1>2, <1>6, NothingLeft
  <2> QED
    BY <2>1, ThroughEmpty
<1> QED
  BY <1>1, <1>4, <1>5, <1>6 DEF DueFrom

LEMMA Blank == << >> \in Seq(Ops) /\ \A s \in Seq(Ops) : << >> \o s = s /\ s \o << >> = s
  BY EmptySeq, ConcatEmptySeq

LEMMA NodeDueFrom ==
    ASSUME ParserTypeOK, NEW n, n \in DOMAIN nodes
    PROVE  /\ Due[n] = CommandOf(nodes[n].kind) \o DueFrom(nodes[n].kids, 1)
           /\ nodes[n].kids \in Seq(DOMAIN nodes) /\ Due[n] \in Seq(Ops)
           /\ nodes[n].kind = "scope" => Due[n] = DueFrom(nodes[n].kids, 1)
<1>1. PICK ids, T : ids = nodes[n].kids /\ T = DOMAIN nodes
  OBVIOUS
<1>2. /\ ids \in Seq(T) /\ Due[n] = CommandOf(nodes[n].kind) \o Through(Due, ids)
      /\ Due[n] \in Seq(Ops)
  BY <1>1, NodeDue, DueMaps
<1>3. SubSeq(ids, 1, Len(ids)) = ids
  BY <1>2
<1>4. Through(Due, ids) = DueFrom(ids, 1)
  BY <1>3 DEF DueFrom
<1>5. DueFrom(ids, 1) \in Seq(Ops)
  <2>1. 1 \in Nat \ {0}
    OBVIOUS
  <2> QED
    BY <1>1, <1>2, <2>1, DueFromTable
<1>6. nodes[n].kind = "scope" => CommandOf(nodes[n].kind) = << >>
  BY DEF CommandOf
<1> QED
  BY <1>1, <1>2, <1>4, <1>5, <1>6, Blank

LEMMA OwedIs ==
    ASSUME ParserTypeOK, NEW f, f \in Walkers
    PROVE  /\ Owed(f) \in Seq(Ops)
           /\ f.at \in {"generate", "program"} => Owed(f) = DueFrom(mProg, f.i + 1)
           /\ f.at \in {"stmt", "pred"} => Owed(f) = Due[f.node]
           /\ f.at \in {"scope", "scope.stmt"} => Owed(f) = DueFrom(nodes[f.node].kids, f.i + 1)
           /\ f.at \in {"if.expr", "elif.expr", "while.expr"} =>
                 Owed(f) = <<"test rax, rax">> \o DueFrom(nodes[f.node].kids, 2)
           /\ f.at \in {"if.scope", "elif.scope"} => Owed(f) = DueFrom(nodes[f.node].kids, 3)
           /\ f.at = "exit" => Owed(f) = <<"syscall">>
           /\ f.at \in {"block", "if.pred", "while.scope", "expr", "bin.right", "bin.left"} =>
                 Owed(f) = << >>
  BY OwedTable DEF DueFrom, KidsOf

\* The walking function and its node.
LEMMA AtNode ==
    ASSUME ParserTypeOK, Inv, frames # << >>, Walking.at \notin {"generate", "program"}
    PROVE  /\ Walking \in Walkers /\ Walking \in GenFrames /\ Walking.node \in DOMAIN nodes
           /\ Walking.node \in Nat /\ OutputOK /\ sLabelCount \in Nat
           /\ Walking.label \in Nat /\ Walking.end \in Nat /\ Walking.i \in Nat
           /\ Kids \in Seq(DOMAIN nodes) /\ Len(Kids) \in Nat /\ Len(Kids) \in KidCounts(Kind)
           /\ Kind \in KindsIn(Walking.at)
           /\ Due[Walking.node] = CommandOf(Kind) \o DueFrom(Kids, 1)
<1>1. /\ HeapOK /\ FramesOK /\ OutputOK /\ sLabelCount \in Nat /\ Walking \in GenFrames
      /\ Walking.node \in Nat /\ Walking.label \in Nat /\ Walking.end \in Nat
      /\ Walking.i \in Nat
  BY Parts
<1>2. /\ Walking.node \in DOMAIN nodes /\ Kind \in KindsIn(Walking.at)
      /\ Len(Kids) \in Nat /\ Len(Kids) \in KidCounts(Kind)
  BY <1>1, NodeFacts
<1>3. /\ nodes[Walking.node].kids \in Seq(DOMAIN nodes)
      /\ Due[Walking.node]
            = CommandOf(nodes[Walking.node].kind) \o DueFrom(nodes[Walking.node].kids, 1)
  BY <1>2, NodeDueFrom
<1>4. Walking \in Walkers
  BY StackParts
<1> QED
  BY <1>1, <1>2, <1>3, <1>4 DEF Kids, Kind

LEMMA KidDue ==
    ASSUME ParserTypeOK, Inv, frames # << >>, Walking.at \notin {"generate", "program"},
           NEW i, i \in 1 .. Len(Kids)
    PROVE  /\ Kids[i] \in DOMAIN nodes /\ nodes[Kids[i]].kind \in KidKinds(Kind, i)
           /\ Due[Kids[i]] \in Seq(Ops) /\ DueFrom(Kids, i + 1) \in Seq(Ops)
           /\ DueFrom(Kids, i) = Due[Kids[i]] \o DueFrom(Kids, i + 1)
           /\ KidKinds(Kind, i) = ExprKinds => DueFrom(Kids, i) = DueFrom(Kids, i + 1)
           /\ i = Len(Kids) => DueFrom(Kids, i) = Due[Kids[i]] /\ DueFrom(Kids, i + 1) = << >>
<1>1. Kids[i] \in DOMAIN nodes /\ nodes[Kids[i]].kind \in KidKinds(Kind, i)
  BY Parts, NodeFacts
<1>2. PICK ids : ids = Kids
  OBVIOUS
<1>3. ids \in Seq(DOMAIN nodes) /\ Len(ids) \in Nat /\ i \in 1 .. Len(ids)
  BY <1>2, AtNode
<1>4. i \in Nat \ {0} /\ i + 1 \in Nat \ {0} /\ i <= Len(ids) /\ (i = Len(ids) => i + 1 > Len(ids))
  BY <1>3
<1>5. DueFrom(ids, i) = Due[ids[i]] \o DueFrom(ids, i + 1)
  BY <1>3, <1>4, DueFromTable
<1>6. DueFrom(ids, i + 1) \in Seq(Ops) /\ (i = Len(ids) => DueFrom(ids, i + 1) = << >>)
  <2>1. PICK j : j = i + 1
    OBVIOUS
  <2>2. DueFrom(ids, j) \in Seq(Ops) /\ (j > Len(ids) => DueFrom(ids, j) = << >>)
    BY <1>3, <1>4, <2>1, DueFromTable
  <2> QED
    BY <1>4, <2>1, <2>2
<1>7. Due[ids[i]] \in Seq(Ops)
  BY <1>1, <1>2, NodeDueFrom
<1>8. KidKinds(Kind, i) = ExprKinds => Due[ids[i]] = << >>
  BY <1>1, <1>2, ExprSilent
<1> QED
  BY <1>1, <1>2, <1>5, <1>6, <1>7, <1>8, Blank

-----------------------------------------------------------------------------
(* Each action of the walk keeps the balance.                               *)

\* What a function owes as it is called.
LEMMA CalleeOwes ==
    ASSUME ParserTypeOK, NEW n, n \in DOMAIN nodes, NEW end, NEW p, NEW c,
           c = GenFrame(p, n, end), c \in Walkers
    PROVE  /\ p \in {"stmt", "pred"} => Owed(c) = Due[n]
           /\ p = "scope" /\ nodes[n].kind = "scope" => Owed(c) = Due[n]
           /\ p = "expr" => Owed(c) = << >>
<1>1. c.at = p /\ c.node = n /\ c.i = 0 /\ c.i + 1 = 1
  BY DEF GenFrame
<1>2. /\ c.at \in {"stmt", "pred"} => Owed(c) = Due[c.node]
      /\ c.at \in {"scope", "scope.stmt"} => Owed(c) = DueFrom(nodes[c.node].kids, c.i + 1)
      /\ c.at = "expr" => Owed(c) = << >>
  BY OwedIs
<1>3. nodes[n].kind = "scope" => Due[n] = DueFrom(nodes[n].kids, 1)
  BY NodeDueFrom
<1> QED
  BY <1>1, <1>2, <1>3

LEMMA GenerateBalances ==
    ASSUME ParserTypeOK, Inv, Inv', Generate
    PROVE  Balanced
<1>1. PICK c : c = [Walking EXCEPT !.at = "program"]
  OBVIOUS
<1>2. /\ frames # << >> /\ Walking.at = "generate" /\ TakeOver(c) /\ UNCHANGED <<nodes, mProg>>
      /\ mOutput' = mOutput \o <<Instr("_start:", 0, 0)>>
  BY <1>1 DEF Generate, GenAt, TakeOver, ScopesStay, Emit, EmitCounting
<1>3. c.at = "program" /\ c.i = Walking.i /\ Walking \in Walkers /\ c \in Walkers /\ OutputOK
  <2>1. Walking \in GenFrames /\ OutputOK
    BY <1>2, Parts
  <2>2. Walking \in Walkers /\ c \in Walkers
    BY <1>2, StackParts, TakeOverStack
  <2> QED
    BY <1>1, <2>1, <2>2 DEF GenFrames
<1>4. Owed(Walking) = Owed(c) /\ Owed(c) \in Seq(Ops)
  <2>1. Owed(Walking) = DueFrom(mProg, Walking.i + 1)
    BY <1>2, <1>3, OwedIs
  <2>2. Owed(c) = DueFrom(mProg, c.i + 1) /\ Owed(c) \in Seq(Ops)
    BY <1>3, OwedIs
  <2> QED
    BY <1>3, <2>1, <2>2
<1>5. Commands' = Commands \o << >>
  <2>1. PICK l, code : l = Instr("_start:", 0, 0) /\ code = <<l>>
    OBVIOUS
  <2>2. l \in Quiet
    BY <2>1, PlainOps DEF Instr, Lines, Quiet, Ops
  <2>3. code \in Seq(Quiet) /\ mOutput' = mOutput \o code
    BY <1>2, <2>1, <2>2
  <2> QED
    BY <1>3, <2>3, SaysNothing
<1>6. Owed(Walking) = << >> \o Owed(c)
  BY <1>4, Blank
<1> QED
  BY <1>2, <1>5, <1>6, Blank, TakeOverBalances

LEMMA GenProgramBalances ==
    ASSUME ParserTypeOK, Inv, Inv', GenProgram
    PROVE  Balanced
<1>1. /\ frames # << >> /\ Walking.at = "program" /\ UNCHANGED <<nodes, mProg>> /\ EmitNothing
      /\ Walking \in Walkers /\ Walking \in GenFrames /\ Walking.i \in Nat
      /\ mProg \in Seq(DOMAIN nodes) /\ Len(mProg) \in Nat
  <2>1. frames # << >> /\ Walking.at = "program" /\ UNCHANGED <<nodes, mProg>> /\ EmitNothing
    BY DEF GenProgram, GenAt, ScopesStay
  <2>2. Walking \in Walkers /\ Walking \in GenFrames /\ Walking.i \in Nat
    BY <2>1, StackParts, Parts
  <2>3. mProg \in Seq(DOMAIN nodes)
    BY <2>2, WalkerFacts
  <2> QED
    BY <2>1, <2>2, <2>3, LenProperties
<1>2. Commands' = Commands \o << >>
  BY <1>1, Parts, NothingSaid
<1>3. Owed(Walking) = DueFrom(mProg, Walking.i + 1)
  BY <1>1, OwedIs
<1>4. CASE /\ Walking.i < Len(mProg)
           /\ Descend([Walking EXCEPT !.i = @ + 1], StmtOf(mProg[Walking.i + 1]))
  <2>1. PICK j : j = Walking.i + 1
    OBVIOUS
  <2>2. j \in Nat \ {0} /\ j <= Len(mProg) /\ mProg[j] \in DOMAIN nodes
        /\ DueFrom(mProg, j) = Due[mProg[j]] \o DueFrom(mProg, j + 1)
    <3>1. j \in Nat \ {0} /\ j <= Len(mProg)
      BY <1>1, <1>4, <2>1
    <3> QED
      BY <1>1, <3>1, DueFromTable
  <2>3. PICK w, c, n : /\ w = [Walking EXCEPT !.i = j] /\ n = mProg[j]
                       /\ c = GenFrame("stmt", n, 0)
    OBVIOUS
  <2>4. Descend(w, c)
    BY <1>4, <2>1, <2>3 DEF Descend, StmtOf
  <2>5. w \in Walkers /\ c \in Walkers /\ w.at = "program" /\ w.i = j
    <3>1. w \in Walkers /\ c \in Walkers
      BY <1>1, <2>4, DescendStack
    <3> QED
      BY <1>1, <2>3, <3>1 DEF GenFrames
  <2>6. Owed(c) = Due[n]
    BY <2>2, <2>3, <2>5, CalleeOwes
  <2>7. Owed(w) = DueFrom(mProg, j + 1) /\ Owed(w) \in Seq(Ops)
    BY <2>5, OwedIs
  <2>8. Owed(c) \in Seq(Ops)
    BY <2>5, OwedIs
  <2>9. Owed(Walking) = << >> \o (Owed(c) \o Owed(w))
    <3>1. Owed(Walking) = Owed(c) \o Owed(w)
      BY <1>3, <2>1, <2>2, <2>3, <2>6, <2>7, Zenon
    <3>2. Owed(Walking) \in Seq(Ops)
      BY <1>1, OwedIs
    <3> QED
      BY <3>1, <3>2, Blank
  <2> QED
    BY <1>1, <1>2, <2>4, <2>9, Blank, DescendBalances
<1>5. CASE Walking.i = Len(mProg) /\ Leave
  <2>1. DueFrom(mProg, Walking.i + 1) = << >>
    <3>1. PICK j : j = Walking.i + 1
      OBVIOUS
    <3>2. j \in Nat \ {0} /\ j > Len(mProg)
      BY <1>1, <1>5, <3>1
    <3>3. DueFrom(mProg, j) = << >>
      BY <1>1, <3>2, DueFromTable
    <3> QED
      BY <3>1, <3>3
  <2> QED
    BY <1>1, <1>2, <1>3, <1>5, <2>1, LeaveBalances
<1> QED
  BY <1>4, <1>5 DEF GenProgram

LEMMA GenExitBalances ==
    ASSUME ParserTypeOK, Inv, GenExit
    PROVE  Balanced
<1>1. /\ frames # << >> /\ Walking.at = "exit" /\ Leave
      /\ mOutput' = mOutput \o <<Op("mov rax, 60"), Op("pop rdi"), Op("syscall")>>
  BY DEF GenExit, GenAt, EmitCounting
<1>2. Walking \in Walkers /\ OutputOK /\ Walking.node \in Nat
  BY <1>1, AtNode
<1>3. Commands' = Commands \o <<"syscall">>
  BY <1>1, <1>2, ExitSays
<1>4. Owed(Walking) = <<"syscall">>
  BY <1>1, <1>2, OwedIs
<1> QED
  BY <1>1, <1>3, <1>4, LeaveBalances

\* A function that writes lines that are no command, and returns, and owed nothing.
LEMMA QuietEnd ==
    ASSUME ParserTypeOK, Inv, frames # << >>, Leave, Commands' = Commands \o << >>,
           Walking.at \in {"block", "if.pred", "while.scope", "expr", "bin.left"}
    PROVE  Balanced
<1>1. Walking \in Walkers
  BY StackParts
<1>2. Owed(Walking) = << >>
  BY <1>1, OwedIs
<1> QED
  BY <1>2, LeaveBalances

LEMMA GenBlockEndBalances ==
    ASSUME ParserTypeOK, Inv, GenBlockEnd
    PROVE  Balanced
<1>1. /\ frames # << >> /\ Walking.at = "block" /\ Leave
      /\ mOutput' = mOutput \o <<Op(";; /scope")>>
  BY DEF GenBlockEnd, GenAt, Emit, EmitCounting
<1>2. OutputOK /\ Walking.node \in Nat
  BY <1>1, AtNode
<1>3. PICK l, code : l = Op(";; /scope") /\ code = <<l>>
  OBVIOUS
<1>4. l \in Quiet
  <2>1. ";; /scope" \notin Ops
    BY DEF Ops
  <2> QED
    BY <1>2, <1>3, <2>1, PlainOps, QuietLines
<1>5. code \in Seq(Quiet)
  BY <1>3, <1>4, OneOf, Zenon
<1>6. mOutput' = mOutput \o code
  BY <1>1, <1>3, Zenon
<1>7. Commands' = Commands \o << >>
  BY <1>2, <1>5, <1>6, SaysNothing
<1> QED
  BY <1>1, <1>7, QuietEnd

\* A jump and a label are no command.
LEMMA JumpLabelQuiet ==
    ASSUME OutputOK, Walking.node \in Nat, NEW j, j \in Nat, NEW l, l \in Nat,
           mOutput' = mOutput \o <<Jump("jmp", j), Label(l)>>
    PROVE  Commands' = Commands \o << >>
<1>1. PICK a, b, code : a = Jump("jmp", j) /\ b = Label(l) /\ code = <<a, b>>
  OBVIOUS
<1>2. a \in Quiet /\ b \in Quiet
  BY <1>1, JumpOps, QuietLines
<1>3. code \in Seq(Quiet) /\ mOutput' = mOutput \o code
  BY <1>1, <1>2
<1> QED
  BY <1>3, SaysNothing

LEMMA LabelQuiet ==
    ASSUME OutputOK, Walking.node \in Nat, NEW l, l \in Nat, mOutput' = mOutput \o <<Label(l)>>
    PROVE  Commands' = Commands \o << >>
<1>1. PICK a, code : a = Label(l) /\ code = <<a>>
  OBVIOUS
<1>2. a \in Quiet
  BY <1>1, QuietLines
<1>3. code \in Seq(Quiet)
  BY <1>1, <1>2, OneOf, Zenon
<1>4. mOutput' = mOutput \o code
  BY <1>1, Zenon
<1> QED
  BY <1>3, <1>4, SaysNothing

LEMMA GenIfPredEndBalances ==
    ASSUME ParserTypeOK, Inv, GenIfPredEnd
    PROVE  Balanced
<1>1. /\ frames # << >> /\ Walking.at = "if.pred" /\ Leave
      /\ mOutput' = mOutput \o <<Label(Walking.end)>>
  BY DEF GenIfPredEnd, GenAt, Emit, EmitCounting
<1>2. OutputOK /\ Walking.node \in Nat /\ Walking.end \in Nat
  BY <1>1, AtNode
<1>3. PICK l : l = Walking.end
  OBVIOUS
<1>4. l \in Nat /\ mOutput' = mOutput \o <<Label(l)>>
  BY <1>1, <1>2, <1>3
<1>5. Commands' = Commands \o << >>
  BY <1>2, <1>4, LabelQuiet
<1> QED
  BY <1>1, <1>5, QuietEnd

LEMMA GenWhileEndBalances ==
    ASSUME ParserTypeOK, Inv, GenWhileEnd
    PROVE  Balanced
<1>1. /\ frames # << >> /\ Walking.at = "while.scope" /\ Leave
      /\ mOutput' = mOutput \o <<Jump("jmp", Walking.label), Label(Walking.end)>>
  BY DEF GenWhileEnd, GenAt, Emit, EmitCounting
<1>2. OutputOK /\ Walking.node \in Nat /\ Walking.end \in Nat /\ Walking.label \in Nat
  BY <1>1, AtNode
<1>3. PICK j, l : j = Walking.label /\ l = Walking.end
  OBVIOUS
<1>4. j \in Nat /\ l \in Nat /\ mOutput' = mOutput \o <<Jump("jmp", j), Label(l)>>
  BY <1>1, <1>2, <1>3
<1>5. Commands' = Commands \o << >>
  BY <1>2, <1>4, JumpLabelQuiet
<1> QED
  BY <1>1, <1>5, QuietEnd

LEMMA GenOperationBalances ==
    ASSUME ParserTypeOK, Inv, GenOperation
    PROVE  Balanced
<1>1. /\ frames # << >> /\ Walking.at = "bin.left" /\ Leave
      /\ mOutput' = mOutput \o OperationCode(Kind)
  BY DEF GenOperation, GenAt, EmitCounting
<1>2. OutputOK /\ Walking.node \in Nat /\ sLabelCount \in Nat /\ Kind \in KindsIn(Walking.at)
  BY <1>1, AtNode
<1>3. Kind \in BinExprKinds
  BY <1>1, <1>2, KindsTable
<1>4. PICK code : code = OperationCode(Kind)
  OBVIOUS
<1>5. code \in Seq(Quiet) /\ mOutput' = mOutput \o code
  BY <1>1, <1>2, <1>3, <1>4, OperationQuiet
<1>6. Commands' = Commands \o << >>
  BY <1>2, <1>5, SaysNothing
<1> QED
  BY <1>1, <1>6, QuietEnd

\* Expressions: nothing is owed before or after.
LEMMA ExprCall ==
    ASSUME ParserTypeOK, Inv, Inv', frames # << >>, UNCHANGED <<nodes, mProg>>, EmitNothing,
           Walking.at \in {"expr", "bin.right"}, NEW p, p \in {"bin.right", "bin.left"},
           NEW n, n \in DOMAIN nodes, Descend([Walking EXCEPT !.at = p], ExprOf(n))
    PROVE  Balanced
<1>1. PICK w, c : w = [Walking EXCEPT !.at = p] /\ c = GenFrame("expr", n, 0)
  OBVIOUS
<1>2. Descend(w, c)
  BY <1>1 DEF Descend, ExprOf
<1>3. w \in Walkers /\ c \in Walkers
  BY <1>2, DescendStack
<1>4. Walking \in Walkers /\ Walking \in GenFrames /\ OutputOK
  BY AtNode
<1>5. w.at = p
  BY <1>1, <1>4 DEF GenFrames
<1>6. Owed(w) = << >>
  BY <1>3, <1>5, OwedIs
<1>7. Owed(c) = << >>
  BY <1>1, <1>3, CalleeOwes
<1>8. Owed(Walking) = << >>
  BY <1>4, OwedIs
<1>9. Owed(Walking) = << >> \o (Owed(c) \o Owed(w))
  BY <1>6, <1>7, <1>8, Blank
<1>10. Commands' = Commands \o << >>
  BY <1>4, NothingSaid
<1> QED
  BY <1>2, <1>9, <1>10, Blank, DescendBalances

LEMMA GenBinRightBalances ==
    ASSUME ParserTypeOK, Inv, Inv', GenBinRight
    PROVE  Balanced
<1>1. /\ frames # << >> /\ Walking.at = "bin.right" /\ UNCHANGED <<nodes, mProg>> /\ EmitNothing
      /\ Walking.at \notin {"generate", "program"}
      /\ Descend([Walking EXCEPT !.at = "bin.left"], ExprOf(Kids[1]))
  BY DEF GenBinRight, GenAt, ScopesStay
<1>2. Kind \in KindsIn(Walking.at) /\ Len(Kids) \in KidCounts(Kind)
  BY <1>1, AtNode
<1>3. 1 \in 1 .. Len(Kids)
  <2>1. Kind \in BinExprKinds
    BY <1>1, <1>2, KindsTable
  <2>2. KidCounts(Kind) = {2}
    BY <2>1, KidsTable
  <2> QED
    BY <1>2, <2>2
<1>4. Kids[1] \in DOMAIN nodes
  BY <1>1, <1>3, KidDue
<1>5. PICK n : n = Kids[1]
  OBVIOUS
<1> QED
  BY <1>1, <1>4, <1>5, ExprCall

LEMMA GenExpressionBalances ==
    ASSUME ParserTypeOK, Inv, Inv', GenExpression
    PROVE  Balanced
<1>1. /\ frames # << >> /\ Walking.at = "expr" /\ UNCHANGED <<nodes, mProg>> /\ EmitNothing
      /\ Walking.at \notin {"generate", "program"}
  BY DEF GenExpression, GenAt, ScopesStay
<1>2. Walking \in Walkers /\ Len(Kids) \in KidCounts(Kind) /\ OutputOK
  BY <1>1, AtNode
<1>3. Commands' = Commands \o << >>
  BY <1>1, <1>2, NothingSaid
<1>4. CASE Leave
  BY <1>1, <1>3, <1>4, QuietEnd
<1>5. CASE Kind = "paren" /\ TakeOver(ExprOf(Kids[1]))
  <2>1. 1 \in 1 .. Len(Kids)
    <3>1. KidCounts(Kind) = {1}
      BY <1>5, KidsTable
    <3> QED
      BY <1>2, <3>1
  <2>2. PICK n, c : n = Kids[1] /\ c = GenFrame("expr", n, 0)
    OBVIOUS
  <2>3. n \in DOMAIN nodes
    BY <1>1, <2>1, <2>2, KidDue
  <2>4. TakeOver(c)
    BY <1>5, <2>2 DEF TakeOver, ExprOf
  <2>5. c \in Walkers
    BY <1>1, <2>4, TakeOverStack
  <2>6. Owed(c) = << >>
    BY <2>2, <2>3, <2>5, CalleeOwes
  <2>7. Owed(Walking) = << >>
    BY <1>1, <1>2, OwedIs
  <2>8. Owed(Walking) = << >> \o Owed(c)
    BY <2>6, <2>7, Blank
  <2> QED
    BY <1>1, <1>3, <2>4, <2>8, Blank, TakeOverBalances
<1>6. CASE /\ Kind \in BinExprKinds
           /\ Descend([Walking EXCEPT !.at = "bin.right"], ExprOf(Kids[2]))
  <2>1. 2 \in 1 .. Len(Kids)
    <3>1. KidCounts(Kind) = {2}
      BY <1>6, KidsTable
    <3> QED
      BY <1>2, <3>1
  <2>2. Kids[2] \in DOMAIN nodes
    BY <1>1, <2>1, KidDue
  <2> QED
    BY <1>1, <1>6, <2>2, ExprCall
<1> QED
  BY <1>4, <1>5, <1>6 DEF GenExpression
\* A condition, at its test: the scope behind it is called.
LEMMA TestBalances ==
    ASSUME ParserTypeOK, Inv, Inv', frames # << >>, UNCHANGED <<nodes, mProg>>,
           Walking.at \in {"if.expr", "elif.expr", "while.expr"},
           NEW l, l \in Nat,
           mOutput' = mOutput \o <<Op("pop rax"), Op("test rax, rax"), Jump("jz", l)>>,
           NEW w, w.node = Walking.node,
           \/ Walking.at \in {"if.expr", "elif.expr"} /\ w.at \in {"if.scope", "elif.scope"}
           \/ Walking.at = "while.expr" /\ w.at = "while.scope",
           Descend(w, ScopeOf(Kids[2]))
    PROVE  Balanced
<1>1. PICK n, c : n = Kids[2] /\ c = GenFrame("scope", n, 0)
  OBVIOUS
<1>2. Descend(w, c)
  BY <1>1 DEF Descend, ScopeOf
<1>3. w \in Walkers /\ c \in Walkers
  BY <1>2, DescendStack
<1>4. /\ Walking \in Walkers /\ OutputOK /\ Walking.node \in Nat /\ Len(Kids) \in Nat
      /\ Kind \in KindsIn(Walking.at) /\ Len(Kids) \in KidCounts(Kind)
      /\ Walking.at \notin {"generate", "program"}
  BY AtNode
<1>5. /\ Len(Kids) \in {2, 3} /\ KidKinds(Kind, 2) = {"scope"}
      /\ Walking.at = "while.expr" => Len(Kids) = 2
  <2>1. CASE Walking.at = "while.expr"
    <3>1. Kind \in KindsIn("while.expr") /\ KindsIn("while.expr") = {"while"}
      BY <1>4, <2>1, KindsTable
    <3>2. Kind = "while"
      BY <3>1
    <3>3. KidCounts(Kind) = {2} /\ KidKinds(Kind, 2) = {"scope"}
      BY <3>2, KidsTable
    <3> QED
      BY <1>4, <3>3
  <2>2. CASE Walking.at # "while.expr"
    <3>1. Kind \in {"if", "elif"}
      <4>1. CASE Walking.at = "if.expr"
        BY <1>4, <4>1, KindsTable
      <4>2. CASE Walking.at = "elif.expr"
        BY <1>4, <4>2, KindsTable
      <4> QED
        BY <2>2, <4>1, <4>2
    <3>2. KidCounts(Kind) = {2, 3} /\ KidKinds(Kind, 2) = {"scope"}
      BY <3>1, KidsTable
    <3> QED
      BY <1>4, <2>2, <3>2
  <2> QED
    BY <2>1, <2>2
<1>6. /\ n \in DOMAIN nodes /\ nodes[n].kind = "scope"
      /\ DueFrom(Kids, 2) = Due[n] \o DueFrom(Kids, 3)
      /\ Walking.at = "while.expr" => DueFrom(Kids, 3) = << >>
  <2>1. PICK i, j : i = 2 /\ j = 3
    OBVIOUS
  <2>2. i \in 1 .. Len(Kids) /\ i + 1 = j /\ (Walking.at = "while.expr" => i = Len(Kids))
    BY <1>5, <2>1, TwoAndThree, Zenon
  <2>3. /\ Kids[i] \in DOMAIN nodes /\ nodes[Kids[i]].kind \in KidKinds(Kind, i)
        /\ DueFrom(Kids, i) = Due[Kids[i]] \o DueFrom(Kids, i + 1)
        /\ i = Len(Kids) => DueFrom(Kids, i + 1) = << >>
    BY <1>4, <2>2, KidDue
  <2>4. /\ DueFrom(Kids, i) = Due[Kids[i]] \o DueFrom(Kids, j)
        /\ i = Len(Kids) => DueFrom(Kids, j) = << >>
    BY <2>2, <2>3, Zenon
  <2>5. nodes[n].kind \in {"scope"}
    BY <1>1, <1>5, <2>1, <2>3, Zenon
  <2>6. nodes[n].kind = "scope"
    BY <2>5
  <2> QED
    BY <1>1, <2>1, <2>2, <2>3, <2>4, <2>6, Zenon
<1>7. Owed(c) = Due[n]
  <2>1. PICK p, end : p = "scope" /\ end = 0
    OBVIOUS
  <2>2. c = GenFrame(p, n, end)
    BY <1>1, <2>1, Zenon
  <2>3. p = "scope" /\ nodes[n].kind = "scope" => Owed(c) = Due[n]
    BY <1>3, <1>6, <2>2, CalleeOwes
  <2> QED
    BY <1>6, <2>1, <2>3, Zenon
<1>8. Owed(w) = DueFrom(Kids, 3)
  <2>1. /\ w.at \in {"if.scope", "elif.scope"} => Owed(w) = DueFrom(nodes[w.node].kids, 3)
        /\ w.at = "while.scope" => Owed(w) = << >>
    BY <1>3, OwedIs
  <2>2. nodes[w.node].kids = Kids
    BY DEF Kids
  <2> QED
    BY <1>6, <2>1, <2>2
<1>9. Owed(Walking) = <<"test rax, rax">> \o (Owed(c) \o Owed(w))
  <2>1. Owed(Walking) = <<"test rax, rax">> \o DueFrom(nodes[Walking.node].kids, 2)
    BY <1>4, OwedIs
  <2>2. Owed(Walking) = <<"test rax, rax">> \o DueFrom(Kids, 2)
    BY <2>1 DEF Kids
  <2> QED
    BY <1>6, <1>7, <1>8, <2>2, Zenon
<1>10. Commands' = Commands \o <<"test rax, rax">>
  BY <1>4, TestSays
<1>11. PICK said : said = <<"test rax, rax">>
  OBVIOUS
<1>12. said \in Seq(Ops) /\ Commands' = Commands \o said /\ Owed(Walking) = said \o (Owed(c) \o Owed(w))
  BY <1>9, <1>10, <1>11, OpsSeqs
<1> QED
  BY <1>2, <1>12, DescendBalances

LEMMA GenIfTestBalances ==
    ASSUME ParserTypeOK, Inv, Inv', GenIfTest
    PROVE  Balanced
<1>1. PICK w, l : w = [Walking EXCEPT !.at = "if.scope", !.label = sLabelCount] /\ l = sLabelCount
  OBVIOUS
<1>2. /\ frames # << >> /\ Walking.at = "if.expr" /\ UNCHANGED <<nodes, mProg>>
      /\ Walking.at \notin {"generate", "program"}
      /\ mOutput' = mOutput \o <<Op("pop rax"), Op("test rax, rax"), Jump("jz", l)>>
      /\ Descend(w, ScopeOf(Kids[2]))
  BY <1>1 DEF GenIfTest, GenAt, ScopesStay, EmitCounting, Descend
<1>3. Walking \in GenFrames /\ l \in Nat
  BY <1>1, <1>2, AtNode
<1>4. w.at = "if.scope" /\ w.node = Walking.node
  BY <1>1, <1>3 DEF GenFrames
<1> QED
  BY <1>2, <1>3, <1>4, TestBalances

LEMMA GenElifTestBalances ==
    ASSUME ParserTypeOK, Inv, Inv', GenElifTest
    PROVE  Balanced
<1>1. PICK w, l : w = [Walking EXCEPT !.at = "elif.scope", !.label = sLabelCount] /\ l = sLabelCount
  OBVIOUS
<1>2. /\ frames # << >> /\ Walking.at = "elif.expr" /\ UNCHANGED <<nodes, mProg>>
      /\ Walking.at \notin {"generate", "program"}
      /\ mOutput' = mOutput \o <<Op("pop rax"), Op("test rax, rax"), Jump("jz", l)>>
      /\ Descend(w, ScopeOf(Kids[2]))
  BY <1>1 DEF GenElifTest, GenAt, ScopesStay, EmitCounting, Descend
<1>3. Walking \in GenFrames /\ l \in Nat
  BY <1>1, <1>2, AtNode
<1>4. w.at = "elif.scope" /\ w.node = Walking.node
  BY <1>1, <1>3 DEF GenFrames
<1> QED
  BY <1>2, <1>3, <1>4, TestBalances

LEMMA GenWhileTestBalances ==
    ASSUME ParserTypeOK, Inv, Inv', GenWhileTest
    PROVE  Balanced
<1>1. PICK w, l : w = [Walking EXCEPT !.at = "while.scope"] /\ l = Walking.end
  OBVIOUS
<1>2. /\ frames # << >> /\ Walking.at = "while.expr" /\ UNCHANGED <<nodes, mProg>>
      /\ Walking.at \notin {"generate", "program"}
      /\ mOutput' = mOutput \o <<Op("pop rax"), Op("test rax, rax"), Jump("jz", l)>>
      /\ Descend(w, ScopeOf(Kids[2]))
  BY <1>1 DEF GenWhileTest, GenAt, ScopesStay, EmitCounting, Descend
<1>3. Walking \in GenFrames /\ l \in Nat
  BY <1>1, <1>2, AtNode
<1>4. w.at = "while.scope" /\ w.node = Walking.node
  BY <1>1, <1>3 DEF GenFrames
<1> QED
  BY <1>2, <1>3, <1>4, TestBalances

\* What is owed behind the scope of an if or an elif: the third child, if there is one.
LEMMA PredDue ==
    ASSUME ParserTypeOK, Inv, frames # << >>, Walking.at \in {"if.scope", "elif.scope"}
    PROVE  /\ Len(Kids) = 2 => Owed(Walking) = << >>
           /\ Len(Kids) = 3 => Kids[3] \in DOMAIN nodes /\ Owed(Walking) = Due[Kids[3]]
<1>1. Walking \in Walkers /\ Kids \in Seq(DOMAIN nodes) /\ Walking.at \notin {"generate", "program"}
  BY AtNode
<1>2. Owed(Walking) = DueFrom(Kids, 3)
  <2>1. Owed(Walking) = DueFrom(nodes[Walking.node].kids, 3)
    BY <1>1, OwedIs
  <2> QED
    BY <2>1 DEF Kids
<1>3. PICK i, ids : i = 3 /\ ids = Kids
  OBVIOUS
<1>4. ASSUME Len(Kids) = 2 PROVE DueFrom(Kids, 3) = << >>
  <2>1. i \in Nat \ {0} /\ i > Len(ids) /\ ids \in Seq(DOMAIN nodes)
    BY <1>1, <1>3, <1>4
  <2>2. DueFrom(ids, i) = << >>
    BY <2>1, DueFromTable
  <2> QED
    BY <1>3, <2>2
<1>5. ASSUME Len(Kids) = 3 PROVE Kids[3] \in DOMAIN nodes /\ DueFrom(Kids, 3) = Due[Kids[3]]
  <2>1. i \in 1 .. Len(Kids) /\ i = Len(Kids)
    BY <1>3, <1>5
  <2>2. Kids[i] \in DOMAIN nodes /\ DueFrom(Kids, i) = Due[Kids[i]]
    BY <1>1, <2>1, KidDue
  <2> QED
    BY <1>3, <2>2
<1> QED
  BY <1>2, <1>4, <1>5

LEMMA GenIfEndBalances ==
    ASSUME ParserTypeOK, Inv, Inv', GenIfEnd
    PROVE  Balanced
<1>1. /\ frames # << >> /\ Walking.at = "if.scope" /\ UNCHANGED <<nodes, mProg>>
      /\ Walking.at \notin {"generate", "program"}
  BY DEF GenIfEnd, GenAt, ScopesStay
<1>2. /\ OutputOK /\ Walking.node \in Nat /\ Walking.label \in Nat /\ sLabelCount \in Nat
      /\ Walking \in GenFrames
  BY <1>1, AtNode
<1>3. PICK l, s : l = Walking.label /\ s = sLabelCount
  OBVIOUS
<1>4. CASE Len(Kids) = 2 /\ Emit(<<Label(Walking.label)>>) /\ Leave
  <2>1. l \in Nat /\ mOutput' = mOutput \o <<Label(l)>>
    BY <1>2, <1>3, <1>4 DEF Emit, EmitCounting
  <2>2. Commands' = Commands \o << >>
    BY <1>2, <2>1, LabelQuiet
  <2>3. Owed(Walking) = << >>
    BY <1>1, <1>4, PredDue
  <2> QED
    BY <1>1, <1>4, <2>2, <2>3, LeaveBalances
<1>5. CASE /\ Len(Kids) = 3
           /\ Emit(<<Jump("jmp", sLabelCount), Label(Walking.label)>>)
           /\ Descend([Walking EXCEPT !.at = "if.pred", !.end = sLabelCount],
                      GenFrame("pred", Kids[3], sLabelCount))
  <2>1. l \in Nat /\ s \in Nat /\ mOutput' = mOutput \o <<Jump("jmp", s), Label(l)>>
    BY <1>2, <1>3, <1>5 DEF Emit, EmitCounting
  <2>2. Commands' = Commands \o << >>
    BY <1>2, <2>1, JumpLabelQuiet
  <2>3. PICK w, c, n : /\ w = [Walking EXCEPT !.at = "if.pred", !.end = s] /\ n = Kids[3]
                       /\ c = GenFrame("pred", n, s)
    OBVIOUS
  <2>4. Descend(w, c)
    BY <1>3, <1>5, <2>3 DEF Descend
  <2>5. w \in Walkers /\ c \in Walkers
    BY <1>1, <2>4, DescendStack
  <2>6. n \in DOMAIN nodes /\ Owed(Walking) = Due[n]
    BY <1>1, <1>5, <2>3, PredDue
  <2>7. Owed(c) = Due[n]
    BY <2>3, <2>5, <2>6, CalleeOwes
  <2>8. Owed(w) = << >>
    <3>1. w.at = "if.pred"
      BY <1>2, <2>3 DEF GenFrames
    <3> QED
      BY <2>5, <3>1, OwedIs
  <2>9. Owed(c) \in Seq(Ops)
    BY <2>5, OwedIs
  <2>10. Owed(Walking) = << >> \o (Owed(c) \o Owed(w))
    BY <2>6, <2>7, <2>8, <2>9, Blank
  <2> QED
    BY <1>1, <2>2, <2>4, <2>10, Blank, DescendBalances
<1> QED
  BY <1>4, <1>5 DEF GenIfEnd

LEMMA GenElifEndBalances ==
    ASSUME ParserTypeOK, Inv, Inv', GenElifEnd
    PROVE  Balanced
<1>1. /\ frames # << >> /\ Walking.at = "elif.scope" /\ UNCHANGED <<nodes, mProg>>
      /\ Walking.at \notin {"generate", "program"}
      /\ mOutput' = mOutput \o <<Jump("jmp", Walking.end), Label(Walking.label)>>
  BY DEF GenElifEnd, GenAt, ScopesStay, Emit, EmitCounting
<1>2. /\ OutputOK /\ Walking.node \in Nat /\ Walking.label \in Nat /\ Walking.end \in Nat
  BY <1>1, AtNode
<1>3. PICK l, s : l = Walking.label /\ s = Walking.end
  OBVIOUS
<1>4. l \in Nat /\ s \in Nat /\ mOutput' = mOutput \o <<Jump("jmp", s), Label(l)>>
  BY <1>1, <1>2, <1>3
<1>5. Commands' = Commands \o << >>
  BY <1>2, <1>4, JumpLabelQuiet
<1>6. CASE Len(Kids) = 3 /\ TakeOver(GenFrame("pred", Kids[3], Walking.end))
  <2>1. PICK c, n : n = Kids[3] /\ c = GenFrame("pred", n, s)
    OBVIOUS
  <2>2. TakeOver(c)
    BY <1>3, <1>6, <2>1 DEF TakeOver
  <2>3. c \in Walkers
    BY <1>1, <2>2, TakeOverStack
  <2>4. n \in DOMAIN nodes /\ Owed(Walking) = Due[n]
    BY <1>1, <1>6, <2>1, PredDue
  <2>5. Owed(c) = Due[n]
    BY <2>1, <2>3, <2>4, CalleeOwes
  <2>6. Owed(c) \in Seq(Ops)
    BY <2>3, OwedIs
  <2>7. Owed(Walking) = << >> \o Owed(c)
    BY <2>4, <2>5, <2>6, Blank
  <2> QED
    BY <1>1, <1>5, <2>2, <2>7, Blank, TakeOverBalances
<1>7. CASE Len(Kids) = 2 /\ Leave
  <2>1. Owed(Walking) = << >>
    BY <1>1, <1>7, PredDue
  <2> QED
    BY <1>1, <1>5, <1>7, <2>1, LeaveBalances
<1> QED
  BY <1>6, <1>7 DEF GenElifEnd

\* A statement, or an elif or else, that is begun with: what its node asks for.
LEMMA BegunOwes ==
    ASSUME ParserTypeOK, Inv, frames # << >>, Walking.at \in {"stmt", "pred"}
    PROVE  /\ Owed(Walking) = Due[Walking.node]
           /\ Kind = "exit" => Kids[1] \in DOMAIN nodes /\ Owed(Walking) = <<"syscall">>
           /\ Kind \in {"let", "assign"} => Owed(Walking) = << >>
           /\ Kind \in {"if", "elif", "while"} =>
                 Kids[1] \in DOMAIN nodes /\ Owed(Walking) = <<"test rax, rax">> \o DueFrom(Kids, 2)
           /\ Kind = "else" => /\ Kids[1] \in DOMAIN nodes /\ nodes[Kids[1]].kind = "scope"
                               /\ Owed(Walking) = Due[Kids[1]]
<1>1. /\ Walking \in Walkers /\ Walking.at \notin {"generate", "program"} /\ Len(Kids) \in Nat
      /\ Len(Kids) \in KidCounts(Kind)
      /\ Due[Walking.node] = CommandOf(Kind) \o DueFrom(Kids, 1)
  BY AtNode
<1>2. Owed(Walking) = Due[Walking.node]
  BY <1>1, OwedIs
<1>3. PICK i, j, owed, from, rest :
          /\ i = 1 /\ j = 2 /\ owed = Owed(Walking) /\ from = DueFrom(Kids, 1)
          /\ rest = DueFrom(Kids, 2)
  OBVIOUS
<1>4. owed = CommandOf(Kind) \o from
  BY <1>1, <1>2, <1>3, Zenon
<1>5. ASSUME i \in 1 .. Len(Kids)
      PROVE  /\ Kids[i] \in DOMAIN nodes /\ nodes[Kids[i]].kind \in KidKinds(Kind, i)
             /\ KidKinds(Kind, i) = ExprKinds => from = rest
             /\ i = Len(Kids) => from = Due[Kids[i]] /\ rest = << >>
             /\ from \in Seq(Ops) /\ rest \in Seq(Ops)
  <2>1. /\ Kids[i] \in DOMAIN nodes /\ nodes[Kids[i]].kind \in KidKinds(Kind, i)
        /\ Due[Kids[i]] \in Seq(Ops) /\ DueFrom(Kids, i + 1) \in Seq(Ops)
        /\ DueFrom(Kids, i) = Due[Kids[i]] \o DueFrom(Kids, i + 1)
        /\ KidKinds(Kind, i) = ExprKinds => DueFrom(Kids, i) = DueFrom(Kids, i + 1)
        /\ i = Len(Kids) => DueFrom(Kids, i) = Due[Kids[i]] /\ DueFrom(Kids, i + 1) = << >>
    BY <1>1, <1>5, KidDue
  <2>2. i + 1 = j
    BY <1>3, OneAndTwo, Zenon
  <2>3. from = DueFrom(Kids, i) /\ rest = DueFrom(Kids, i + 1)
    BY <1>3, <2>2, Zenon
  <2>4. from \in Seq(Ops) /\ rest \in Seq(Ops)
    BY <2>1, <2>3, ConcatProperties
  <2> QED
    BY <2>1, <2>3, <2>4, Zenon
<1>6. CASE Kind = "exit"
  <2>1. KidCounts(Kind) = {1} /\ KidKinds(Kind, 1) = ExprKinds /\ CommandOf(Kind) = <<"syscall">>
    BY <1>6, KidsTable DEF CommandOf
  <2>2. Len(Kids) = 1
    BY <1>1, <2>1
  <2>3. i \in 1 .. Len(Kids) /\ i = Len(Kids) /\ KidKinds(Kind, i) = ExprKinds
    BY <1>3, <2>1, <2>2, OneAndTwo, Zenon
  <2>4. Kids[i] \in DOMAIN nodes /\ from = << >>
    BY <1>5, <2>3
  <2>5. owed = <<"syscall">>
    BY <1>4, <2>1, <2>4, OpsSeqs, Blank
  <2> QED
    BY <1>2, <1>3, <1>6, <2>4, <2>5
<1>7. CASE Kind \in {"let", "assign"}
  <2>1. KidCounts(Kind) = {1} /\ KidKinds(Kind, 1) = ExprKinds /\ CommandOf(Kind) = << >>
    BY <1>7 DEF KidCounts, KidKinds, CommandOf, BinExprKinds
  <2>2. Len(Kids) = 1
    BY <1>1, <2>1
  <2>3. i \in 1 .. Len(Kids) /\ i = Len(Kids) /\ KidKinds(Kind, i) = ExprKinds
    BY <1>3, <2>1, <2>2, OneAndTwo, Zenon
  <2>4. from = << >>
    BY <1>5, <2>3
  <2>5. owed = << >>
    BY <1>4, <2>1, <2>4, Blank
  <2> QED
    BY <1>2, <1>3, <1>7, <2>5
<1>8. CASE Kind \in {"if", "elif", "while"}
  <2>1. CommandOf(Kind) = <<"test rax, rax">>
    BY <1>8 DEF CommandOf
  <2>2. KidCounts(Kind) \subseteq {2, 3} /\ KidKinds(Kind, 1) = ExprKinds
    <3>1. CASE Kind = "while"
      BY <3>1, KidsTable
    <3>2. CASE Kind \in {"if", "elif"}
      BY <3>2, KidsTable
    <3> QED
      BY <1>8, <3>1, <3>2
  <2>3. Len(Kids) \in {2, 3}
    BY <1>1, <2>2
  <2>4. i \in 1 .. Len(Kids) /\ KidKinds(Kind, i) = ExprKinds
    BY <1>3, <2>2, <2>3, OneAndTwo, Zenon
  <2>5. Kids[i] \in DOMAIN nodes /\ from = rest
    BY <1>5, <2>4
  <2>6. owed = <<"test rax, rax">> \o rest
    BY <1>4, <2>1, <2>5, Zenon
  <2> QED
    BY <1>2, <1>3, <1>8, <2>5, <2>6
<1>9. CASE Kind = "else"
  <2>1. KidCounts(Kind) = {1} /\ KidKinds(Kind, 1) = {"scope"} /\ CommandOf(Kind) = << >>
    BY <1>9, KidsTable DEF CommandOf
  <2>2. Len(Kids) = 1
    BY <1>1, <2>1
  <2>3. i \in 1 .. Len(Kids) /\ i = Len(Kids) /\ KidKinds(Kind, i) = {"scope"}
    BY <1>3, <2>1, <2>2, OneAndTwo, Zenon
  <2>4. /\ Kids[i] \in DOMAIN nodes /\ nodes[Kids[i]].kind = "scope" /\ from = Due[Kids[i]]
        /\ from \in Seq(Ops)
    BY <1>5, <2>3
  <2>5. owed = Due[Kids[i]]
    BY <1>4, <2>1, <2>4, Blank
  <2> QED
    BY <1>2, <1>3, <1>9, <2>4, <2>5
<1> QED
  BY <1>2, <1>6, <1>7, <1>8, <1>9

\* The condition of an if, an elif or a while is called.
LEMMA ConditionCalled ==
    ASSUME ParserTypeOK, Inv, Inv', frames # << >>, UNCHANGED <<nodes, mProg>>,
           Commands' = Commands \o << >>, Walking.at \in {"stmt", "pred"},
           Kind \in {"if", "elif", "while"},
           NEW w, w.node = Walking.node, w.at \in {"if.expr", "elif.expr", "while.expr"},
           Descend(w, ExprOf(Kids[1]))
    PROVE  Balanced
<1>1. PICK n, e, p, c : n = Kids[1] /\ e = 0 /\ p = "expr" /\ c = GenFrame(p, n, e)
  OBVIOUS
<1>2. Descend(w, c)
  BY <1>1 DEF Descend, ExprOf
<1>3. w \in Walkers /\ c \in Walkers
  BY <1>2, DescendStack
<1>4. Kids[1] \in DOMAIN nodes /\ Owed(Walking) = <<"test rax, rax">> \o DueFrom(Kids, 2)
  BY BegunOwes
<1>5. Owed(c) = << >>
  <2>1. c = GenFrame(p, n, e) /\ p = "expr" /\ n = Kids[1] /\ c \in Walkers
    BY <1>1, <1>3
  <2>2. n \in DOMAIN nodes
    BY <1>4, <2>1
  <2>3. p = "expr" => Owed(c) = << >>
    BY <2>1, <2>2, CalleeOwes
  <2> QED
    BY <2>1, <2>3
<1>6. Owed(w) = <<"test rax, rax">> \o DueFrom(Kids, 2) /\ Owed(w) \in Seq(Ops)
  <2>1. Owed(w) = <<"test rax, rax">> \o DueFrom(nodes[w.node].kids, 2) /\ Owed(w) \in Seq(Ops)
    BY <1>3, OwedIs
  <2> QED
    BY <2>1 DEF Kids
<1>7. Owed(Walking) = Owed(w)
  BY <1>4, <1>6, Zenon
<1>8. Owed(Walking) = << >> \o (Owed(c) \o Owed(w))
  BY <1>5, <1>6, <1>7, Blank
<1> QED
  BY <1>2, <1>8, Blank, DescendBalances

LEMMA GenStatementBalances ==
    ASSUME ParserTypeOK, Inv, Inv', GenStatement
    PROVE  Balanced
<1>1. /\ frames # << >> /\ Walking.at = "stmt" /\ UNCHANGED <<nodes, mProg>>
      /\ Walking.at \notin {"generate", "program"}
  BY DEF GenStatement, GenAt, ScopesStay
<1>2. /\ Walking \in Walkers /\ Walking \in GenFrames /\ OutputOK /\ Walking.node \in Nat
      /\ Walking.node \in DOMAIN nodes /\ sLabelCount \in Nat
  BY <1>1, AtNode
<1>3. EmitNothing => Commands' = Commands \o << >>
  BY <1>2, NothingSaid
<1>4. CASE /\ Kind = "exit" /\ EmitNothing
           /\ Descend([Walking EXCEPT !.at = "exit"], ExprOf(Kids[1]))
  <2>1. PICK w, n, e, p, c : /\ w = [Walking EXCEPT !.at = "exit"]
                             /\ n = Kids[1] /\ e = 0 /\ p = "expr" /\ c = GenFrame(p, n, e)
    OBVIOUS
  <2>2. Descend(w, c)
    BY <1>4, <2>1 DEF Descend, ExprOf
  <2>3. w \in Walkers /\ c \in Walkers /\ w.at = "exit"
    <3>1. w \in Walkers /\ c \in Walkers
      BY <1>1, <2>2, DescendStack
    <3> QED
      BY <1>2, <2>1, <3>1 DEF GenFrames
  <2>4. n \in DOMAIN nodes /\ Owed(Walking) = <<"syscall">>
    BY <1>1, <1>4, <2>1, BegunOwes
  <2>5. Owed(c) = << >>
    <3>1. c = GenFrame(p, n, e) /\ p = "expr"
      BY <2>1
    <3> QED
      BY <2>3, <2>4, <3>1, CalleeOwes
  <2>6. Owed(w) = <<"syscall">>
    BY <2>3, OwedIs
  <2>7. Owed(Walking) = << >> \o (Owed(c) \o Owed(w))
    BY <2>4, <2>5, <2>6, OpsSeqs, Blank
  <2> QED
    BY <1>1, <1>3, <1>4, <2>2, <2>7, Blank, DescendBalances
<1>5. CASE Kind \in {"let", "assign"} /\ Leave /\ EmitNothing
  <2>1. Owed(Walking) = << >>
    BY <1>1, <1>5, BegunOwes
  <2> QED
    BY <1>1, <1>3, <1>5, <2>1, LeaveBalances
<1>6. CASE /\ Kind = "scope" /\ Emit(<<Op(";; scope")>>)
           /\ Descend([Walking EXCEPT !.at = "block"], ScopeOf(Walking.node))
  <2>1. PICK l, code : l = Op(";; scope") /\ code = <<l>>
    OBVIOUS
  <2>2. l \in Quiet
    <3>1. ";; scope" \notin Ops
      BY DEF Ops
    <3> QED
      BY <1>2, <2>1, <3>1, PlainOps, QuietLines
  <2>3. code \in Seq(Quiet)
    BY <2>1, <2>2, OneOf, Zenon
  <2>4. mOutput' = mOutput \o code
    BY <1>6, <2>1, Zenon DEF Emit, EmitCounting
  <2>5. Commands' = Commands \o << >>
    BY <1>2, <2>3, <2>4, SaysNothing
  <2>6. PICK w, n, e, p, c : /\ w = [Walking EXCEPT !.at = "block"]
                             /\ n = Walking.node /\ e = 0 /\ p = "scope" /\ c = GenFrame(p, n, e)
    OBVIOUS
  <2>7. Descend(w, c)
    BY <1>6, <2>6 DEF Descend, ScopeOf
  <2>8. w \in Walkers /\ c \in Walkers /\ w.at = "block"
    <3>1. w \in Walkers /\ c \in Walkers
      BY <1>1, <2>7, DescendStack
    <3> QED
      BY <1>2, <2>6, <3>1 DEF GenFrames
  <2>9. n \in DOMAIN nodes /\ nodes[n].kind = "scope" /\ Owed(Walking) = Due[n]
    <3>1. Owed(Walking) = Due[Walking.node]
      BY <1>1, BegunOwes
    <3> QED
      BY <1>2, <1>6, <2>6, <3>1 DEF Kind
  <2>10. Owed(c) = Due[n]
    <3>1. c = GenFrame(p, n, e) /\ p = "scope"
      BY <2>6
    <3> QED
      BY <2>8, <2>9, <3>1, CalleeOwes
  <2>11. Owed(w) = << >> /\ Owed(c) \in Seq(Ops)
    BY <2>8, OwedIs
  <2>12. Owed(Walking) = << >> \o (Owed(c) \o Owed(w))
    BY <2>9, <2>10, <2>11, Blank
  <2> QED
    BY <1>1, <2>5, <2>7, <2>12, Blank, DescendBalances
<1>7. CASE /\ Kind = "if" /\ EmitNothing
           /\ Descend([Walking EXCEPT !.at = "if.expr"], ExprOf(Kids[1]))
  <2>1. PICK w : w = [Walking EXCEPT !.at = "if.expr"]
    OBVIOUS
  <2>2. w.at = "if.expr" /\ w.node = Walking.node
    BY <1>2, <2>1 DEF GenFrames
  <2>3. Descend(w, ExprOf(Kids[1]))
    BY <1>7, <2>1 DEF Descend
  <2> QED
    BY <1>1, <1>3, <1>7, <2>2, <2>3, ConditionCalled
<1>8. CASE /\ Kind = "while" /\ Emit(<<Label(sLabelCount)>>)
           /\ Descend([Walking EXCEPT !.at = "while.expr", !.label = sLabelCount,
                                      !.end = sLabelCount + 1], ExprOf(Kids[1]))
  <2>1. PICK l, w : /\ l = sLabelCount
                    /\ w = [Walking EXCEPT !.at = "while.expr", !.label = sLabelCount,
                                           !.end = sLabelCount + 1]
    OBVIOUS
  <2>2. w.at = "while.expr" /\ w.node = Walking.node
    BY <1>2, <2>1 DEF GenFrames
  <2>3. Descend(w, ExprOf(Kids[1]))
    BY <1>8, <2>1 DEF Descend
  <2>4. l \in Nat /\ mOutput' = mOutput \o <<Label(l)>>
    BY <1>2, <1>8, <2>1 DEF Emit, EmitCounting
  <2>5. Commands' = Commands \o << >>
    BY <1>2, <2>4, LabelQuiet
  <2> QED
    BY <1>1, <1>8, <2>2, <2>3, <2>5, ConditionCalled
<1> QED
  BY <1>4, <1>5, <1>6, <1>7, <1>8 DEF GenStatement

LEMMA GenScopeBalances ==
    ASSUME ParserTypeOK, Inv, Inv', GenScope
    PROVE  Balanced
<1>1. /\ frames # << >> /\ Walking.at = "scope" /\ UNCHANGED <<nodes, mProg>> /\ EmitNothing
      /\ Walking.at \notin {"generate", "program"}
  BY DEF GenScope, GenAt
<1>2. /\ Walking \in Walkers /\ Walking \in GenFrames /\ Walking.i \in Nat /\ OutputOK
      /\ Kids \in Seq(DOMAIN nodes) /\ Len(Kids) \in Nat
  BY <1>1, AtNode
<1>3. Commands' = Commands \o << >>
  BY <1>1, <1>2, NothingSaid
<1>4. PICK j, ids : j = Walking.i + 1 /\ ids = Kids
  OBVIOUS
<1>5. j \in Nat \ {0} /\ ids \in Seq(DOMAIN nodes) /\ Len(ids) \in Nat
  BY <1>2, <1>4
<1>6. /\ j <= Len(ids) => ids[j] \in DOMAIN nodes /\ DueFrom(ids, j) = Due[ids[j]] \o DueFrom(ids, j + 1)
      /\ j > Len(ids) => DueFrom(ids, j) = << >>
  BY <1>5, DueFromTable
<1>7. Owed(Walking) = DueFrom(ids, j)
  <2>1. Owed(Walking) = DueFrom(nodes[Walking.node].kids, Walking.i + 1)
    BY <1>1, <1>2, OwedIs
  <2> QED
    BY <1>4, <2>1, Zenon DEF Kids
<1>8. CASE /\ Walking.i < Len(Kids)
           /\ Descend([Walking EXCEPT !.at = "scope.stmt", !.i = @ + 1], StmtOf(Kids[Walking.i + 1]))
  <2>1. j <= Len(ids)
    BY <1>2, <1>4, <1>8
  <2>2. ids[j] \in DOMAIN nodes /\ DueFrom(ids, j) = Due[ids[j]] \o DueFrom(ids, j + 1)
    BY <1>6, <2>1
  <2>3. PICK w, n, e, p, c : /\ w = [Walking EXCEPT !.at = "scope.stmt", !.i = j] /\ n = ids[j]
                             /\ e = 0 /\ p = "stmt" /\ c = GenFrame(p, n, e)
    OBVIOUS
  <2>4. Descend(w, c)
    BY <1>4, <1>8, <2>3 DEF Descend, StmtOf
  <2>5. w \in Walkers /\ c \in Walkers /\ w.at = "scope.stmt" /\ w.i = j /\ w.node = Walking.node
    <3>1. w \in Walkers /\ c \in Walkers
      BY <1>1, <2>4, DescendStack
    <3> QED
      BY <1>2, <2>3, <3>1 DEF GenFrames
  <2>6. Owed(c) = Due[n]
    <3>1. c = GenFrame(p, n, e) /\ p = "stmt" /\ n \in DOMAIN nodes
      BY <2>2, <2>3
    <3> QED
      BY <2>5, <3>1, CalleeOwes
  <2>7. Owed(w) = DueFrom(ids, j + 1)
    <3>1. Owed(w) = DueFrom(nodes[w.node].kids, w.i + 1)
      BY <2>5, OwedIs
    <3>2. nodes[w.node].kids = ids
      BY <1>4, <2>5 DEF Kids
    <3> QED
      BY <2>5, <3>1, <3>2, Zenon
  <2>8. Owed(Walking) = << >> \o (Owed(c) \o Owed(w))
    <3>1. Owed(Walking) = Owed(c) \o Owed(w)
      BY <1>7, <2>2, <2>3, <2>6, <2>7, Zenon
    <3>2. Owed(Walking) \in Seq(Ops)
      BY <1>2, OwedIs
    <3> QED
      BY <3>1, <3>2, Blank
  <2> QED
    BY <1>1, <1>3, <2>4, <2>8, Blank, DescendBalances
<1>9. CASE Walking.i = Len(Kids) /\ Leave
  <2>1. j > Len(ids)
    BY <1>2, <1>4, <1>9
  <2>2. Owed(Walking) = << >>
    BY <1>6, <1>7, <2>1
  <2> QED
    BY <1>1, <1>3, <1>9, <2>2, LeaveBalances
<1> QED
  BY <1>8, <1>9 DEF GenScope

LEMMA GenEndScopeBalances ==
    ASSUME ParserTypeOK, Inv, Inv', GenEndScope
    PROVE  Balanced
<1>1. PICK c : c = [Walking EXCEPT !.at = "scope"]
  OBVIOUS
<1>2. PICK l, code : l = Op("add rsp") /\ (code = <<l>> \/ code = << >>) /\ mOutput' = mOutput \o code
  <2>1. \/ mOutput' = mOutput \o <<Op("add rsp")>>
        \/ mOutput' = mOutput \o << >>
    BY DEF GenEndScope, EmitCounting
  <2> QED
    BY <2>1
<1>3. /\ frames # << >> /\ Walking.at = "scope.stmt" /\ UNCHANGED <<nodes, mProg>> /\ TakeOver(c)
      /\ Walking.at \notin {"generate", "program"}
  BY <1>1 DEF GenEndScope, GenAt, TakeOver
<1>4. Walking \in Walkers /\ Walking \in GenFrames /\ OutputOK /\ Walking.node \in Nat
  BY <1>3, AtNode
<1>5. c \in Walkers /\ c.at = "scope" /\ c.node = Walking.node /\ c.i = Walking.i
  <2>1. c \in Walkers
    BY <1>3, TakeOverStack
  <2> QED
    BY <1>1, <1>4, <2>1 DEF GenFrames
<1>6. Owed(Walking) = Owed(c) /\ Owed(c) \in Seq(Ops)
  <2>1. Owed(Walking) = DueFrom(nodes[Walking.node].kids, Walking.i + 1)
    BY <1>3, <1>4, OwedIs
  <2>2. Owed(c) = DueFrom(nodes[c.node].kids, c.i + 1) /\ Owed(c) \in Seq(Ops)
    BY <1>5, OwedIs
  <2> QED
    BY <1>5, <2>1, <2>2, Zenon
<1>7. l \in Quiet
  <2>1. "add rsp" \notin Ops
    BY DEF Ops
  <2> QED
    BY <1>2, <1>4, <2>1, PlainOps, QuietLines
<1>8. code \in Seq(Quiet)
  BY <1>2, <1>7, OneOf, EmptySeq, Zenon
<1>9. Commands' = Commands \o << >>
  BY <1>2, <1>4, <1>8, SaysNothing
<1>10. Owed(Walking) = << >> \o Owed(c)
  BY <1>6, Blank
<1> QED
  BY <1>3, <1>9, <1>10, Blank, TakeOverBalances

LEMMA GenIfpredBalances ==
    ASSUME ParserTypeOK, Inv, Inv', GenIfpred
    PROVE  Balanced
<1>1. /\ frames # << >> /\ Walking.at = "pred" /\ UNCHANGED <<nodes, mProg>> /\ EmitNothing
      /\ Walking.at \notin {"generate", "program"}
  BY DEF GenIfpred, GenAt, ScopesStay
<1>2. Walking \in GenFrames /\ OutputOK
  BY <1>1, AtNode
<1>3. Commands' = Commands \o << >>
  BY <1>1, <1>2, NothingSaid
<1>4. CASE Kind = "elif" /\ Descend([Walking EXCEPT !.at = "elif.expr"], ExprOf(Kids[1]))
  <2>1. PICK w : w = [Walking EXCEPT !.at = "elif.expr"]
    OBVIOUS
  <2>2. w.at = "elif.expr" /\ w.node = Walking.node
    BY <1>2, <2>1 DEF GenFrames
  <2>3. Descend(w, ExprOf(Kids[1]))
    BY <1>4, <2>1 DEF Descend
  <2> QED
    BY <1>1, <1>3, <1>4, <2>2, <2>3, ConditionCalled
<1>5. CASE Kind = "else" /\ TakeOver(ScopeOf(Kids[1]))
  <2>1. PICK n, e, p, c : n = Kids[1] /\ e = 0 /\ p = "scope" /\ c = GenFrame(p, n, e)
    OBVIOUS
  <2>2. TakeOver(c)
    BY <1>5, <2>1 DEF TakeOver, ScopeOf
  <2>3. c \in Walkers
    BY <1>1, <2>2, TakeOverStack
  <2>4. n \in DOMAIN nodes /\ nodes[n].kind = "scope" /\ Owed(Walking) = Due[n]
    BY <1>1, <1>5, <2>1, BegunOwes
  <2>5. Owed(c) = Due[n]
    <3>1. c = GenFrame(p, n, e) /\ p = "scope"
      BY <2>1
    <3> QED
      BY <2>3, <2>4, <3>1, CalleeOwes
  <2>6. Owed(c) \in Seq(Ops)
    BY <2>3, OwedIs
  <2>7. Owed(Walking) = << >> \o Owed(c)
    BY <2>4, <2>5, <2>6, Blank
  <2> QED
    BY <1>1, <1>3, <2>2, <2>7, Blank, TakeOverBalances
<1> QED
  BY <1>4, <1>5 DEF GenIfpred

LEMMA StepBalances ==
    ASSUME ParserTypeOK, Inv, Inv', GeneratorStep
    PROVE  Balanced
<1>1. GenStatements => Balanced
  BY GenStatementBalances, GenExitBalances, GenBlockEndBalances, GenIfTestBalances,
     GenIfEndBalances, GenIfPredEndBalances, GenWhileTestBalances, GenWhileEndBalances
     DEF GenStatements
<1>2. GenScopes => Balanced
  BY GenScopeBalances, GenEndScopeBalances DEF GenScopes
<1>3. GenIfpreds => Balanced
  BY GenIfpredBalances, GenElifTestBalances, GenElifEndBalances DEF GenIfpreds
<1>4. GenExpressions => Balanced
  BY GenExpressionBalances, GenBinRightBalances, GenOperationBalances DEF GenExpressions
<1>5. Generate \/ GenProgram => Balanced
  BY GenerateBalances, GenProgramBalances
<1> QED
  BY <1>1, <1>2, <1>3, <1>4, <1>5 DEF GeneratorStep

-----------------------------------------------------------------------------
(* The balance, from the hand-over to the end.                              *)

\* What is owed is read off the tree and the stack alone.
LEMMA OwedByStays == UNCHANGED <<nodes, mProg>> => OwedBy' = OwedBy
<1> SUFFICES ASSUME UNCHANGED <<nodes, mProg>> PROVE OwedBy' = OwedBy
  OBVIOUS
<1>1. Walkers' = Walkers
  BY DEF Walkers, WalkOK
<1>2. Yield' = Yield
  BY DEF Yield
<1>3. ASSUME NEW f PROVE Owed(f)' = Owed(f)
  BY <1>2 DEF Owed, TreesLeft, YieldOf
<1> QED
  BY <1>1, <1>3 DEF OwedBy

LEMMA OrderIs ==
    ParserTypeOK /\ Inv =>
        (OwedInOrder <=> (status = "done" =>
                              Commands \o StackOwes(OwedBy, frames) = Asked(tokens)))
<1> SUFFICES ASSUME ParserTypeOK, Inv
             PROVE  FlattenSeq([i \in DOMAIN frames |-> Owed(frames[Len(frames) + 1 - i])])
                        = StackOwes(OwedBy, frames)
  BY DEF OwedInOrder
<1>1. frames \in Seq(Walkers) /\ Len(frames) \in Nat /\ DOMAIN frames = 1 .. Len(frames)
  BY FramesWalk, LenProperties
<1>2. \A i \in DOMAIN frames : Len(frames) + 1 - i \in 1 .. Len(frames)
  BY <1>1
<1>3. \A i \in DOMAIN frames : frames[Len(frames) + 1 - i] \in Walkers
  BY <1>1, <1>2, ElementOfSeq
<1>4. \A f \in Walkers : OwedBy[f] = Owed(f)
  BY OwedByMaps
<1>5. [i \in DOMAIN frames |-> Owed(frames[Len(frames) + 1 - i])] = Owing(OwedBy, frames)
  BY <1>3, <1>4 DEF Owing
<1> QED
  BY <1>5 DEF StackOwes

\* At the hand-over nothing is written, and generate() owes what the tokens ask for.
LEMMA HandedOver ==
    ASSUME ParserTypeOK, ReadInv, Constructed, status = "done"
    PROVE  OwedInOrder
<1>1. Inv
  BY ParsedHeap, ConstructedInv
<1>2. PICK f, e : f = GenFrame("generate", 0, 0) /\ e = << >>
  OBVIOUS
<1>3. frames = Append(e, f) /\ f.at = "generate" /\ f.i = 0 /\ mOutput = << >>
  BY <1>2 DEF Constructed, GenFrame
<1>4. frames # << >> /\ Walking = f
  BY <1>2, <1>3 DEF Walking
<1>5. f \in Walkers /\ e \in Seq(Walkers)
  BY <1>1, <1>2, <1>4, StackParts, EmptySeq
<1>6. StackOwes(OwedBy, Append(e, f)) = Owed(f) \o StackOwes(OwedBy, e)
  BY <1>5, WithOneMore
<1>7. StackOwes(OwedBy, frames) = Owed(f) \o << >> /\ Owed(f) \in Seq(Ops)
  BY <1>2, <1>3, <1>5, <1>6, NoStack, OwedIs
<1>8. Owed(f) = Asked(tokens)
  <2>1. f.i + 1 = 1
    BY <1>3
  <2>2. Owed(f) = DueFrom(mProg, 1)
    BY <1>3, <1>5, <2>1, OwedIs
  <2>3. mProg \in Seq(DOMAIN nodes)
    BY <1>5, WalkerFacts
  <2>4. SubSeq(mProg, 1, Len(mProg)) = mProg
    BY <2>3
  <2>5. DueFrom(mProg, 1) = Asked(YieldOf(mProg))
    BY <2>3, <2>4, YieldAsks DEF DueFrom
  <2> QED
    BY <2>2, <2>5, AcceptedIs
<1>9. Commands = << >>
  BY <1>3, FlattenEmpty DEF Commands
<1>10. Commands \o StackOwes(OwedBy, frames) = Asked(tokens)
  BY <1>7, <1>8, <1>9, Blank
<1> QED
  BY <1>1, <1>10, OrderIs

OrderInv == ReadInv /\ OwedInOrder

LEMMA OrderInit == CompilerInit => OrderInv
<1> SUFFICES ASSUME CompilerInit PROVE OrderInv
  OBVIOUS
<1>1. ReadInv /\ status = "running"
  BY ReadInit DEF CompilerInit, ParserInit
<1> QED
  BY <1>1 DEF OrderInv, OwedInOrder

LEMMA ParseProgramOrder ==
    ASSUME CompilerInv, CompilerInv', OrderInv, ParseProgram
    PROVE  OrderInv'
<1>1. ParserTypeOK /\ ParserTypeOK' /\ ReadInv /\ ParserStep /\ Constructed
  BY ParserRuns DEF CompilerInv, OrderInv, ParseProgram
<1>2. ReadInv'
  BY <1>1, ReadStep
<1>3. Constructed'
  BY <1>1 DEF ParseProgram, generatorOnly, Constructed
<1>4. (ParserTypeOK /\ ReadInv /\ Constructed /\ status = "done" => OwedInOrder)'
  BY HandedOver, PTL
<1>5. status' # "done" => OwedInOrder'
  BY DEF OwedInOrder
<1> QED
  BY <1>1, <1>2, <1>3, <1>4, <1>5 DEF OrderInv

\* Whatever leaves the tokens and the tree, and keeps the balance, keeps the order.
LEMMA BalanceKeepsOrder ==
    ASSUME CompilerInv, CompilerInv', OrderInv, UNCHANGED pvars, status = "done", Balanced
    PROVE  OrderInv'
<1>1. ParserTypeOK /\ Inv /\ ReadInv /\ OwedInOrder
  BY DEF CompilerInv, OrderInv
<1>2. tokens' = tokens /\ status' = status /\ UNCHANGED <<nodes, mProg>>
  BY DEF pvars
<1>3. ReadInv'
  BY <1>1, ReadStays
<1>4. ParserTypeOK' /\ Inv'
  BY <1>2 DEF CompilerInv
<1>5. Commands \o StackOwes(OwedBy, frames) = Asked(tokens)
  BY <1>1, OrderIs
<1>6. Asked(tokens)' = Asked(tokens)
  BY <1>2 DEF Asked
<1>7. OwedBy' = OwedBy
  BY <1>2, OwedByStays
<1>8. (OwedInOrder <=> (status = "done" =>
                            Commands \o StackOwes(OwedBy, frames) = Asked(tokens)))'
  BY <1>4, OrderIs, PTL
<1>9. StackOwes(OwedBy, frames)' = StackOwes(OwedBy, frames')
  BY <1>7 DEF StackOwes, Owing
<1>10. (Commands \o StackOwes(OwedBy, frames) = Asked(tokens))'
  BY <1>5, <1>6, <1>9 DEF Balanced
<1> QED
  BY <1>3, <1>8, <1>10 DEF OrderInv

LEMMA GenerateProgramOrder ==
    ASSUME CompilerInv, CompilerInv', OrderInv, GenerateProgram
    PROVE  OrderInv'
<1>1. status = "done" /\ GeneratorStep /\ UNCHANGED <<nodes, mProg>>
  BY WalkLeavesTree DEF GenerateProgram
<1>2. UNCHANGED pvars /\ status' = "done"
  BY <1>1 DEF GenerateProgram, parserOnly, pvars
<1>3. Balanced
  BY <1>1, <1>2, StepBalances DEF CompilerInv
<1> QED
  BY <1>1, <1>2, <1>3, BalanceKeepsOrder

LEMMA IdleOrder ==
    ASSUME CompilerInv, CompilerInv', OrderInv, UNCHANGED cvars
    PROVE  OrderInv'
<1>1. UNCHANGED pvars /\ mOutput' = mOutput /\ frames' = frames
  BY DEF cvars, gvars
<1>2. CASE status = "done"
  <2>1. Balanced
    BY <1>1 DEF Balanced, Commands
  <2> QED
    BY <1>1, <1>2, <2>1, BalanceKeepsOrder
<1>3. CASE status # "done"
  <2>1. ReadInv' /\ status' # "done"
    BY <1>1, <1>3, ReadStays DEF OrderInv, pvars
  <2> QED
    BY <2>1 DEF OrderInv, OwedInOrder
<1> QED
  BY <1>2, <1>3

LEMMA OrderHolds == CompilerSpec => [](CompilerInv /\ OrderInv)
<1>1. CompilerInv /\ CompilerInv' /\ OrderInv /\ [CompilerNext]_cvars => OrderInv'
  BY ParseProgramOrder, GenerateProgramOrder, IdleOrder DEF CompilerNext, CompilerStopped
<1> QED
  BY OrderInit, <1>1, CompilerInvHolds, PTL DEF CompilerSpec

\* Whatever the tokens are, and at every moment of the walk: the tests and exits that
\* are written, followed by those that each running function has still to write,
\* innermost first, are those of the tokens, in their order.  No function of the walk
\* forgets a subtree, visits one twice or takes its children in another order
\* (generator.cpp:24-192).
THEOREM OwedTheorem == CompilerSpec => []OwedInOrder
  BY OrderHolds, PTL DEF OrderInv

\* Whatever tokens the lexer delivers, once the program is written every condition and
\* every exit of the source is in it, once and in the order of the source, and no other
\* is: between the tokens and the output neither the parser nor the generator loses,
\* repeats or reorders one (parser.cpp:78-491, generator.cpp:24-192).
THEOREM InOrderTheorem == CompilerSpec => []CompiledInOrder
<1>1. CompilerInv /\ OrderInv => CompiledInOrder
  <2> SUFFICES ASSUME CompilerInv, OrderInv, status = "done", frames = << >>
               PROVE  Commands = Asked(tokens)
    BY DEF CompiledInOrder
  <2>1. ParserTypeOK /\ Inv
    BY DEF CompilerInv
  <2>2. Commands \o StackOwes(OwedBy, frames) = Asked(tokens)
    BY <2>1, OrderIs DEF OrderInv
  <2>3. StackOwes(OwedBy, frames) = << >>
    BY NoStack
  <2>4. Commands \in Seq(Ops)
    BY <2>1, CommandsIs DEF Inv, GenInv, OutputOK
  <2> QED
    BY <2>2, <2>3, <2>4, Blank
<1> QED
  BY <1>1, OrderHolds, PTL
=============================================================================
