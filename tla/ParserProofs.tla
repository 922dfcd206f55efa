----------------------------- MODULE ParserProofs ----------------------------
(***************************************************************************)
(* Proofs about Parser, for token sequences of every length.  ParserTypeOK *)
(* is inductive: it says of each suspended function what it waits for and  *)
(* holds, and how deep it may lie.  The step lemmas are one for a call,    *)
(* one for a return and one for the steps that leave the stack alone; each *)
(* action of parser.cpp is an instance of them.                            *)
(***************************************************************************)
EXTENDS Parser, SequenceTheorems, TLAPS

NodeSet == [kind : AllKinds, token : Nat, kids : Seq(Nat)]

-----------------------------------------------------------------------------
(* The tables                                                               *)

\* What a call returns is of the kinds the caller expects next, and completes it.
LEMMA Expected ==
    ASSUME NEW place \in Places, Callee(place) # NoToken
    PROVE  /\ place \notin Entries
           /\ Held(place) \in 0 .. 2
           /\ Held(place) + 1 \in Complete(place)
           /\ KindsAt(place, Held(place) + 1) = Returns(Callee(place))
           /\ place \in {"parse", "scope.loop"} =>
                  \A j \in Nat : KindsAt(place, j) = Returns(Callee(place))
<1>1. place \notin Entries
  BY DEF Places, StmtPlaces, PredPlaces, Callee, NoToken, Entries
<1>2. Held(place) \in 0 .. 2
  BY DEF Held
<1>3. Held(place) + 1 \in Complete(place)
  BY <1>1, <1>2 DEF Complete
<1>4. KindsAt(place, Held(place) + 1) = Returns(Callee(place))
  <2>1. CASE place \in {"if.scope", "while.scope", "elif.scope"}
    BY <2>1 DEF KindsAt, Held, Callee, Returns
  <2>2. CASE place \in {"if.pred", "elif.pred"}
    BY <2>2 DEF KindsAt, Held
  <2>3. CASE place \notin {"if.scope", "while.scope", "elif.scope", "if.pred", "elif.pred"}
    BY <2>3 DEF KindsAt
  <2>4. QED
    BY <2>1, <2>2, <2>3
<1>5. place \in {"parse", "scope.loop"} =>
          \A j \in Nat : KindsAt(place, j) = Returns(Callee(place))
  BY DEF KindsAt
<1>6. QED
  BY <1>1, <1>2, <1>3, <1>4, <1>5

LEMMA EntryFacts ==
    ASSUME NEW place \in Entries
    PROVE  /\ place \in Places
           /\ Function(place) = place
           /\ place # "parse"
           /\ place # "scope.loop"
           /\ Complete(place) = {0}
           /\ Taken(place) = 0
           /\ Callee(place) = NoToken
  BY DEF Entries, Places, StmtPlaces, PredPlaces, Function, Complete, Taken, Callee, NoToken

LEMMA Numbers ==
    ASSUME NEW place \in Places
    PROVE  /\ Taken(place) \in 0 .. 1
           /\ Slack(Function(place)) \in 1 .. 3
  BY DEF Places, StmtPlaces, PredPlaces, Taken, Slack, Function, Entries

LEMMA Deeper ==
    ASSUME NEW n \in Nat, NEW s \in Nat, NEW k \in Nat, NEW m \in Nat, NEW c \in Nat,
           n <= 2 * s + k, 2 * s + k + 1 <= 2 * m + c
    PROVE  n + 1 <= 2 * m + c
  OBVIOUS

LEMMA NotBehind ==
    ASSUME NEW s, NEW t, NEW m \in Int, s = m, t = 0
    PROVE  s + t <= m
  OBVIOUS

\* The frame of the running function.
LEMMA TopFrame ==
    ASSUME ParserTypeOK, status = "running"
    PROVE  /\ Len(calls) \in Nat \ {0}
           /\ calls \in Seq(Frames)
           /\ Top \in Frames
           /\ FrameOK(Len(calls))
           /\ Top.at \in Places
           /\ Top.kids \in Seq(Nat)
           /\ Top.start \in Nat
           /\ Top.start + Taken(Top.at) <= mIndex
           /\ Len(calls) <= 2 * Top.start + Slack(Function(Top.at))
           /\ Top.at # "scope.loop" => Len(Top.kids) \in Complete(Top.at)
           /\ \A j \in DOMAIN Top.kids : /\ Top.kids[j] \in DOMAIN nodes
                                         /\ nodes[Top.kids[j]].kind \in KindsAt(Top.at, j)
           /\ Top.at = "parse" <=> Len(calls) = 1
<1>1. calls \in Seq(Frames) /\ calls # << >>
  BY DEF ParserTypeOK
<1>2. Len(calls) \in Nat \ {0} /\ Len(calls) \in DOMAIN calls
  BY <1>1, EmptySeq, LenProperties
<1>3. Top \in Frames /\ FrameOK(Len(calls))
  BY <1>1, <1>2, ElementOfSeq DEF Top, ParserTypeOK
<1>4. QED
  BY <1>1, <1>2, <1>3 DEF Top, FrameOK, Frames

-----------------------------------------------------------------------------
(* A call                                                                   *)

LEMMA CallStep ==
    ASSUME ParserTypeOK, status = "running",
           NEW place \in Places, NEW callee \in Entries,
           Function(place) = Function(Top.at), Callee(place) = callee,
           place # "parse", Top.at # "parse",
           place = "scope.loop" \/ Len(Top.kids) = Held(place),
           \A j \in DOMAIN Top.kids : nodes[Top.kids[j]].kind \in KindsAt(place, j),
           mIndex' \in mIndex .. Len(tokens),
           Top.start + Taken(place) <= mIndex',
           2 * Top.start + Slack(Function(place)) + 1 <= 2 * mIndex' + Slack(callee),
           Call(place, callee)
    PROVE  ParserTypeOK'
<1> DEFINE n == Len(calls)
           f == [Top EXCEPT !.at = place]
           g == Frame(callee, mIndex')
           moved == [calls EXCEPT ![n] = f]
<1>1. /\ n \in Nat \ {0} /\ n \in 1 .. Len(calls)
      /\ mIndex \in Nat /\ mIndex' \in Nat /\ Len(tokens) \in Nat
  BY TopFrame, LenProperties DEF ParserTypeOK
<1>2. /\ f \in Frames /\ f.at = place /\ f.kids = Top.kids /\ f.start = Top.start
      /\ g \in Frames /\ g.at = callee /\ g.kids = << >> /\ g.start = mIndex'
  <2>1. callee \in Places
    BY EntryFacts
  <2>2. Top \in Frames
    BY TopFrame
  <2>3. f \in Frames /\ f.at = place /\ f.kids = Top.kids /\ f.start = Top.start
    BY <2>2 DEF Frames
  <2>4. g.at = callee /\ g.kids = << >> /\ g.start = mIndex'
    BY DEF Frame
  <2>5. << >> \in Seq(Nat)
    BY EmptySeq
  <2>6. g \in Frames
    BY <1>1, <2>1, <2>5 DEF Frames, Frame
  <2>7. QED
    BY <2>3, <2>4, <2>6
<1>3. /\ moved \in Seq(Frames)
      /\ Len(moved) = n
      /\ \A j \in 1 .. n : moved[j] = IF j = n THEN f ELSE calls[j]
  BY <1>1, <1>2, TopFrame, ExceptSeq
<1>4. calls' = Append(moved, g)
  BY DEF Call, Top
<1> HIDE DEF f, g, moved
<1>5. /\ calls' \in Seq(Frames)
      /\ Len(calls') = n + 1
      /\ \A j \in 1 .. n - 1 : calls'[j] = calls[j]
      /\ calls'[n] = f
      /\ calls'[n + 1] = g
      /\ DOMAIN calls' = 1 .. n + 1
  <2>1. /\ Append(moved, g) \in Seq(Frames)
        /\ Len(Append(moved, g)) = Len(moved) + 1
        /\ \A i \in 1 .. Len(moved) : Append(moved, g)[i] = moved[i]
        /\ Append(moved, g)[Len(moved) + 1] = g
    BY <1>2, <1>3, AppendProperties
  <2>2. QED
    BY <1>1, <1>3, <1>4, <2>1, LenProperties
<1>6. nodes' = nodes /\ mProg' = mProg /\ tokens' = tokens /\ status' = status
  BY DEF Call
<1>7. ASSUME NEW i \in 1 .. n - 1 PROVE FrameOK(i)'
  <2>1. FrameOK(i) /\ i \in DOMAIN calls /\ calls[i] \in Frames
    BY <1>1, TopFrame, LenProperties, ElementOfSeq DEF ParserTypeOK
  <2>2. i + 1 \in 1 .. n /\ i < Len(calls) /\ i < Len(calls')
    BY <1>1, <1>5
  <2>3. /\ Function(calls'[i + 1].at) = Function(calls[i + 1].at)
        /\ calls'[i + 1].at \in Places
        /\ calls'[i + 1].start = calls[i + 1].start
    <3>1. CASE i + 1 = n
      BY <3>1, <1>2, <1>5 DEF Top
    <3>2. CASE i + 1 # n
      <4>1. i + 1 \in 1 .. n - 1
        BY <1>1, <3>2
      <4>2. QED
        BY <4>1, <1>5, <2>1, <2>2 DEF FrameOK
    <3>3. QED
      BY <3>1, <3>2
  <2>4. QED
    BY <1>5, <1>6, <2>1, <2>2, <2>3 DEF FrameOK
<1>8. ASSUME NEW i \in Nat, i = n PROVE FrameOK(i)'
  <2>1. i < Len(calls') /\ calls'[i] = f /\ calls'[i + 1] = g
    BY <1>1, <1>5, <1>8
  <2>2. \A j \in DOMAIN f.kids : /\ f.kids[j] \in DOMAIN nodes
                                 /\ nodes[f.kids[j]].kind \in KindsAt(f.at, j)
    BY <1>2, TopFrame
  <2>3. Function(g.at) = Callee(f.at) /\ g.at \in Places
    BY <1>2, EntryFacts
  <2>4. i <= 2 * f.start + Slack(Function(f.at)) /\ f.at # "parse" /\ i # 1
    BY <1>2, <1>8, TopFrame
  <2>5. f.at # "scope.loop" => Len(f.kids) \in {Held(f.at)}
    BY <1>2
  <2>6. f.start + Taken(f.at) <= g.start
    BY <1>2
  <2>7. QED
    BY <1>6, <2>1, <2>2, <2>3, <2>4, <2>5, <2>6 DEF FrameOK
<1>9. ASSUME NEW i \in Nat, i = n + 1 PROVE FrameOK(i)'
  <2>1. g.at # "parse" /\ i # 1 /\ Len(g.kids) \in Complete(g.at) /\ DOMAIN g.kids = {}
        /\ Taken(g.at) = 0 /\ Function(g.at) = callee
    BY <1>1, <1>2, <1>9, EntryFacts
  <2>2. i <= 2 * g.start + Slack(Function(g.at))
    <3>1. n <= 2 * Top.start + Slack(Function(Top.at)) /\ Top.start \in Nat
      BY TopFrame
    <3>2. Slack(Function(place)) \in Nat /\ Slack(callee) \in Nat /\ n \in Nat
      BY <1>1, Numbers, EntryFacts
    <3>3. n <= 2 * Top.start + Slack(Function(place))
      BY <3>1
    <3>4. n + 1 <= 2 * mIndex' + Slack(callee)
      BY <1>1, <3>1, <3>2, <3>3, Deeper, SMTT(30)
    <3>5. g.start = mIndex' /\ Function(g.at) = callee
      BY <1>2, <2>1
    <3>6. QED
      BY <1>9, <3>4, <3>5
  <2>3. g.start + Taken(g.at) <= mIndex'
    <3>1. g.start = mIndex' /\ Taken(g.at) = 0
      BY <1>2, <2>1
    <3>2. mIndex' \in Int
      BY <1>1
    <3>3. QED
      BY <3>1, <3>2, NotBehind, Zenon
  <2>4. ~(i < Len(calls')) /\ calls'[i] = g
    BY <1>1, <1>5, <1>9
  <2>5. QED
    BY <1>6, <2>1, <2>2, <2>3, <2>4 DEF FrameOK
<1>10. ASSUME NEW i \in DOMAIN calls' PROVE FrameOK(i)'
  <2>1. i \in 1 .. n - 1 \/ (i \in Nat /\ i = n) \/ (i \in Nat /\ i = n + 1)
    BY <1>1, <1>5
  <2>2. QED
    BY <2>1, <1>7, <1>8, <1>9
<1>11. WellFormedAst'
  BY <1>6 DEF ParserTypeOK, WellFormedAst, WellFormedNode
<1>12. calls' # << >>
  BY <1>1, <1>5
<1>13. mIndex' \in 0 .. Len(tokens')
  BY <1>1, <1>6
<1>14. QED
  BY <1>5, <1>6, <1>10, <1>11, <1>12, <1>13 DEF ParserTypeOK

-----------------------------------------------------------------------------
(* A return                                                                 *)

LEMMA FrontOf ==
    ASSUME NEW S, NEW s \in Seq(S), NEW m \in Nat, m < Len(s)
    PROVE  /\ SubSeq(s, 1, m) \in Seq(S)
           /\ Len(SubSeq(s, 1, m)) = m
           /\ \A j \in 1 .. m : SubSeq(s, 1, m)[j] = s[j]
<1>1. \A i \in 1 .. m : s[i] \in S
  BY ElementOfSeq
<1>2. 1 \in Int /\ m \in Int
  OBVIOUS
<1>3. /\ SubSeq(s, 1, m) \in Seq(S)
      /\ Len(SubSeq(s, 1, m)) = IF 1 <= m THEN m - 1 + 1 ELSE 0
      /\ \A i \in 1 .. m - 1 + 1 : SubSeq(s, 1, m)[i] = s[1 + i - 1]
  BY <1>1, <1>2, SubSeqProperties
<1>4. QED
  BY <1>3

\* What a function that may return is called by.
LEMMA CallerFrame ==
    ASSUME ParserTypeOK, status = "running", Top.at # "parse", NEW m, m = Len(calls) - 1
    PROVE  /\ m \in Nat \ {0} /\ m < Len(calls) /\ m \in DOMAIN calls
           /\ calls[m] \in Frames
           /\ FrameOK(m)
           /\ Callee(calls[m].at) = Function(Top.at)
           /\ Callee(calls[m].at) # NoToken
           /\ calls[m].at # "scope.loop" => Len(calls[m].kids) = Held(calls[m].at)
           /\ calls[m].start + Taken(calls[m].at) <= mIndex
<1>1. Len(calls) \in Nat \ {0} /\ Len(calls) # 1 /\ calls \in Seq(Frames)
  BY TopFrame
<1>2. m \in Nat \ {0} /\ m < Len(calls) /\ m \in 1 .. Len(calls) /\ m + 1 = Len(calls)
  BY <1>1
<1>3. m \in DOMAIN calls /\ calls[m] \in Frames
  BY <1>1, <1>2, LenProperties, ElementOfSeq
<1>4. FrameOK(m)
  BY <1>3 DEF ParserTypeOK
<1>5. Callee(calls[m].at) = Function(Top.at)
  BY <1>2, <1>4 DEF FrameOK, Top
<1>6. Function(Top.at) # NoToken
  BY TopFrame DEF Function, NoToken
<1>7. calls[m].at # "scope.loop" => Len(calls[m].kids) = Held(calls[m].at)
  BY <1>2, <1>4 DEF FrameOK
<1>8. calls[m].start + Taken(calls[m].at) <= Top.start
  BY <1>2, <1>4 DEF FrameOK, Top
<1>9. Top.start <= mIndex /\ Top.start \in Nat /\ mIndex \in Nat
  <2>1. mIndex \in Nat
    BY DEF ParserTypeOK
  <2>2. Top.start \in Nat /\ Top.at \in Places /\ Top.start + Taken(Top.at) <= mIndex
    BY TopFrame
  <2>3. Taken(Top.at) \in 0 .. 1
    BY <2>2, Numbers
  <2>4. QED
    BY <2>1, <2>2, <2>3
<1>10. calls[m].start \in Nat /\ Taken(calls[m].at) \in Nat
  <2>1. calls[m].start \in Nat /\ calls[m].at \in Places
    BY <1>3 DEF Frames
  <2>2. QED
    BY <2>1, Numbers
<1>11. calls[m].start + Taken(calls[m].at) <= mIndex
  BY <1>8, <1>9, <1>10
<1>12. QED
  BY <1>2, <1>3, <1>4, <1>5, <1>6, <1>7, <1>11

\* The frame above goes, the caller's may have one more node.
LEMMA PopStep ==
    ASSUME ParserTypeOK, status = "running", Top.at # "parse", NEW m, m = Len(calls) - 1,
           nodes' \in Seq(NodeSet), WellFormedAst',
           \A d \in DOMAIN nodes : d \in DOMAIN nodes' /\ nodes'[d] = nodes[d],
           mIndex' \in mIndex .. Len(tokens),
           UNCHANGED <<tokens, status, mProg>>,
           calls' \in Seq(Frames), Len(calls') = m,
           \A j \in 1 .. m - 1 : calls'[j] = calls[j],
           calls'[m].at = calls[m].at, calls'[m].start = calls[m].start,
           \A j \in DOMAIN calls'[m].kids :
              /\ calls'[m].kids[j] \in DOMAIN nodes'
              /\ nodes'[calls'[m].kids[j]].kind \in KindsAt(calls[m].at, j),
           calls[m].at # "scope.loop" => Len(calls'[m].kids) \in Complete(calls[m].at)
    PROVE  ParserTypeOK'
<1>1. m \in Nat \ {0} /\ m < Len(calls) /\ FrameOK(m) /\ m \in DOMAIN calls
  BY CallerFrame
<1>2. ASSUME NEW i \in 1 .. m - 1 PROVE FrameOK(i)'
  <2>1. FrameOK(i) /\ i < Len(calls) /\ i < Len(calls') /\ calls'[i] = calls[i]
    <3>1. i \in 1 .. Len(calls) /\ i < Len(calls) /\ i < m
      BY <1>1, TopFrame, SMTT(60)
    <3>2. i \in DOMAIN calls
      BY <3>1, TopFrame, LenProperties
    <3>3. QED
      BY <3>1, <3>2 DEF ParserTypeOK
  <2>2. calls'[i + 1].at = calls[i + 1].at /\ calls'[i + 1].start = calls[i + 1].start
    <3>1. CASE i + 1 = m
      BY <3>1
    <3>2. CASE i + 1 # m
      <4>1. i + 1 \in 1 .. m - 1
        BY <1>1, <3>2
      <4>2. QED
        BY <4>1
    <3>3. QED
      BY <3>1, <3>2
  <2>3. QED
    BY <2>1, <2>2 DEF FrameOK
<1>3. ASSUME NEW i \in Nat, i = m PROVE FrameOK(i)'
  <2>1. ~(i < Len(calls'))
    BY <1>1, <1>3
  <2>2. calls'[i].start + Taken(calls'[i].at) <= mIndex'
    <3>1. calls[m].start + Taken(calls[m].at) <= mIndex
      BY CallerFrame
    <3>2. calls[m].start \in Nat /\ Taken(calls[m].at) \in Nat /\ mIndex \in Nat
          /\ mIndex' \in Nat /\ mIndex <= mIndex'
      <4>1. calls[m].start \in Nat /\ calls[m].at \in Places
        BY CallerFrame DEF Frames
      <4>2. Taken(calls[m].at) \in Nat
        BY <4>1, Numbers, SMTT(60)
      <4>3. mIndex \in 0 .. Len(tokens)
        BY DEF ParserTypeOK
      <4>4. QED
        BY <4>1, <4>2, <4>3
    <3>3. calls'[i].start = calls[m].start /\ calls'[i].at = calls[m].at
      BY <1>3
    <3>4. calls[m].start + Taken(calls[m].at) <= mIndex'
      BY <3>1, <3>2, SMTT(60)
    <3>5. QED
      BY <3>3, <3>4
  <2>3. i <= 2 * calls'[i].start + Slack(Function(calls'[i].at))
    BY <1>1, <1>3 DEF FrameOK
  <2>4. calls'[i].at = "parse" <=> i = 1
    BY <1>1, <1>3 DEF FrameOK
  <2>5. QED
    BY <1>3, <2>1, <2>2, <2>3, <2>4 DEF FrameOK
<1>4. \A i \in DOMAIN calls' : FrameOK(i)'
  <2> SUFFICES ASSUME NEW i \in DOMAIN calls' PROVE FrameOK(i)'
    OBVIOUS
  <2>1. i \in 1 .. m - 1 \/ (i \in Nat /\ i = m)
    BY <1>1, LenProperties, SMTT(60)
  <2>2. QED
    BY <2>1, <1>2, <1>3
<1>5. calls' # << >>
  BY <1>1
<1>6. mIndex' \in 0 .. Len(tokens')
  BY DEF ParserTypeOK
<1>7. QED
  BY <1>4, <1>5, <1>6 DEF ParserTypeOK, NodeSet

\* Handing the caller a node, new or an existing one that is passed on.
LEMMA HandBack ==
    ASSUME ParserTypeOK, status = "running", Top.at # "parse",
           nodes' \in Seq(NodeSet), WellFormedAst',
           \A d \in DOMAIN nodes : d \in DOMAIN nodes' /\ nodes'[d] = nodes[d],
           NEW id \in Nat, id \in DOMAIN nodes', nodes'[id].kind \in Returns(Function(Top.at)),
           mIndex' \in mIndex .. Len(tokens),
           UNCHANGED <<tokens, status, mProg>>,
           calls' = [Callers EXCEPT ![Len(Callers)].kids = Append(@, id)]
    PROVE  ParserTypeOK'
<1> DEFINE m == Len(calls) - 1
           c == calls[m]
           f == [c EXCEPT !.kids = Append(c.kids, id)]
<1>1. /\ m \in Nat \ {0} /\ c \in Frames /\ FrameOK(m)
      /\ Callee(c.at) = Function(Top.at) /\ Callee(c.at) # NoToken
      /\ c.at # "scope.loop" => Len(c.kids) = Held(c.at)
      /\ calls \in Seq(Frames) /\ m < Len(calls) /\ Len(calls) \in Nat
  BY CallerFrame, TopFrame
<1>2. /\ Callers \in Seq(Frames)
      /\ Len(Callers) = m
      /\ \A j \in 1 .. m : Callers[j] = calls[j]
  <2>1. Callers = SubSeq(calls, 1, m)
    BY DEF Callers
  <2>2. QED
    BY <1>1, <2>1, FrontOf
<1>3. /\ f \in Frames /\ f.at = c.at /\ f.start = c.start
      /\ f.kids = Append(c.kids, id)
      /\ c.kids \in Seq(Nat) /\ c.at \in Places
  <2>1. c.kids \in Seq(Nat) /\ c.at \in Places
    BY <1>1 DEF Frames
  <2>2. Append(c.kids, id) \in Seq(Nat)
    BY <2>1, AppendProperties
  <2>3. QED
    BY <1>1, <2>1, <2>2 DEF Frames
<1>4. calls' = [Callers EXCEPT ![m] = f]
  <2>1. m = Len(Callers) /\ Callers[m] = c
    BY <1>1, <1>2, SMTT(60)
  <2> HIDE DEF m, c
  <2>2. f = [Callers[m] EXCEPT !.kids = Append(Callers[m].kids, id)]
    BY <2>1
  <2>3. QED
    BY <2>1, <2>2
<1> HIDE DEF f, m, c
<1>5. /\ calls' \in Seq(Frames)
      /\ Len(calls') = m
      /\ \A j \in 1 .. m : calls'[j] = IF j = m THEN f ELSE Callers[j]
  <2>1. m \in 1 .. Len(Callers)
    BY <1>1, <1>2
  <2>2. /\ [Callers EXCEPT ![m] = f] \in Seq(Frames)
        /\ Len([Callers EXCEPT ![m] = f]) = Len(Callers)
        /\ \A j \in 1 .. Len(Callers) :
              [Callers EXCEPT ![m] = f][j] = IF j = m THEN f ELSE Callers[j]
    BY <1>2, <1>3, <2>1, ExceptSeq
  <2>3. QED
    BY <1>2, <1>4, <2>2
<1>6. /\ Len(f.kids) = Len(c.kids) + 1
      /\ Len(c.kids) \in Nat
      /\ DOMAIN f.kids = 1 .. Len(c.kids) + 1
      /\ DOMAIN c.kids = 1 .. Len(c.kids)
      /\ \A j \in 1 .. Len(c.kids) : f.kids[j] = c.kids[j]
      /\ f.kids[Len(c.kids) + 1] = id
  BY <1>3, AppendProperties, LenProperties
<1>7. ASSUME NEW j \in DOMAIN f.kids
      PROVE  f.kids[j] \in DOMAIN nodes' /\ nodes'[f.kids[j]].kind \in KindsAt(c.at, j)
  <2>1. CASE j \in 1 .. Len(c.kids)
    <3>1. c.kids[j] \in DOMAIN nodes /\ nodes[c.kids[j]].kind \in KindsAt(c.at, j)
      BY <2>1, <1>1, <1>6 DEF FrameOK, c
    <3>2. QED
      BY <2>1, <3>1, <1>6
  <2>2. CASE j = Len(c.kids) + 1
    <3>1. KindsAt(c.at, j) = Returns(Callee(c.at))
      <4>1. CASE c.at = "scope.loop"
        <5>1. j \in Nat /\ c.at \in {"parse", "scope.loop"}
          BY <4>1, <1>6, <2>2
        <5>2. QED
          BY <5>1, <1>1, <1>3, Expected
      <4>2. CASE c.at # "scope.loop"
        <5>1. j = Held(c.at) + 1
          BY <4>2, <1>1, <2>2
        <5>2. QED
          BY <5>1, <1>1, <1>3, Expected
      <4>3. QED
        BY <4>1, <4>2
    <3>2. QED
      BY <1>1, <1>6, <2>2, <3>1
  <2>3. j \in 1 .. Len(c.kids) + 1
    BY <1>6, <1>7
  <2>4. QED
    BY <1>6, <2>1, <2>2, <2>3, SMTT(60)
<1>8. c.at # "scope.loop" => Len(f.kids) \in Complete(c.at)
  <2>1. Held(c.at) + 1 \in Complete(c.at)
    BY <1>1, <1>3, Expected
  <2>2. QED
    BY <1>1, <1>6, <2>1
<1>9. calls'[m] = f /\ \A j \in 1 .. m - 1 : calls'[j] = calls[j]
  BY <1>1, <1>2, <1>5
<1>10. /\ calls'[m].at = calls[m].at /\ calls'[m].start = calls[m].start
       /\ \A j \in DOMAIN calls'[m].kids :
              /\ calls'[m].kids[j] \in DOMAIN nodes'
              /\ nodes'[calls'[m].kids[j]].kind \in KindsAt(calls[m].at, j)
       /\ calls[m].at # "scope.loop" => Len(calls'[m].kids) \in Complete(calls[m].at)
  BY <1>3, <1>7, <1>8, <1>9 DEF c
<1>11. m = Len(calls) - 1
  BY DEF m
<1>12. QED
  BY <1>5, <1>9, <1>10, <1>11, PopStep

LEMMA ReturnStep ==
    ASSUME ParserTypeOK, status = "running", Top.at # "parse",
           NEW node \in NodeSet, node.kind \in Returns(Function(Top.at)),
           Len(node.kids) \in KidCounts(node.kind),
           \A i \in DOMAIN node.kids : /\ node.kids[i] \in DOMAIN nodes
                                       /\ nodes[node.kids[i]].kind \in KidKinds(node.kind, i),
           mIndex' \in mIndex .. Len(tokens),
           Return(node)
    PROVE  ParserTypeOK'
<1> DEFINE id == Len(nodes) + 1
<1>1. nodes \in Seq(NodeSet) /\ Len(nodes) \in Nat /\ DOMAIN nodes = 1 .. Len(nodes)
  BY LenProperties DEF ParserTypeOK, NodeSet
<1>2. nodes' = Append(nodes, node) /\ UNCHANGED <<tokens, status, mProg>>
  BY DEF Return
<1>3. calls' = [Callers EXCEPT ![Len(Callers)].kids = Append(@, id)]
  BY DEF Return
<1>4. /\ nodes' \in Seq(NodeSet)
      /\ DOMAIN nodes' = 1 .. id
      /\ nodes'[id] = node
      /\ \A d \in 1 .. Len(nodes) : nodes'[d] = nodes[d]
  BY <1>1, <1>2, AppendProperties, LenProperties
<1>5. \A d \in DOMAIN nodes : d \in DOMAIN nodes' /\ nodes'[d] = nodes[d]
  BY <1>1, <1>4
<1>6. ASSUME NEW d \in DOMAIN nodes' PROVE WellFormedNode(d)'
  <2>1. CASE d \in DOMAIN nodes
    <3>1. WellFormedNode(d) /\ nodes'[d] = nodes[d]
      BY <2>1, <1>5 DEF ParserTypeOK, WellFormedAst
    <3>2. \A i \in DOMAIN nodes[d].kids : nodes[d].kids[i] \in DOMAIN nodes
      BY <1>1, <2>1, <3>1 DEF WellFormedNode
    <3>3. \A i \in DOMAIN nodes[d].kids : nodes'[nodes[d].kids[i]] = nodes[nodes[d].kids[i]]
      BY <3>2, <1>5
    <3>4. QED
      BY <3>1, <3>3 DEF WellFormedNode
  <2>2. CASE d = id
    <3>1. nodes'[d] = node /\ node.kind \in AllKinds /\ node.token \in Nat /\ node.kids \in Seq(Nat)
      BY <1>4, <2>2 DEF NodeSet
    <3>2. \A i \in DOMAIN node.kids : /\ node.kids[i] \in 1 .. d - 1
                                      /\ nodes'[node.kids[i]] = nodes[node.kids[i]]
      BY <1>1, <1>5, <2>2
    <3>3. QED
      BY <3>1, <3>2 DEF WellFormedNode
  <2>3. QED
    BY <1>1, <1>4, <1>6, <2>1, <2>2
<1>7. WellFormedAst'
  BY <1>2, <1>5, <1>6 DEF ParserTypeOK, WellFormedAst
<1>8. id \in Nat /\ id \in DOMAIN nodes' /\ nodes'[id].kind \in Returns(Function(Top.at))
  BY <1>1, <1>4
<1> HIDE DEF id
<1>9. QED
  BY <1>2, <1>3, <1>4, <1>5, <1>7, <1>8, HandBack

\* Passing on the one node the running function holds.
LEMMA PassStep ==
    ASSUME ParserTypeOK, status = "running", Top.at \in {"block", "expr.term"},
           UNCHANGED <<tokens, mIndex, status, nodes, mProg>>,
           calls' = [Callers EXCEPT ![Len(Callers)].kids = Append(@, Top.kids[1])]
    PROVE  ParserTypeOK'
<1>1. Len(Top.kids) = 1
  <2>1. Complete(Top.at) = {1}
    BY DEF Complete, Entries, Held
  <2>2. QED
    BY <2>1, TopFrame
<1>2. 1 \in DOMAIN Top.kids
  BY <1>1, TopFrame, LenProperties
<1>3. /\ Top.kids[1] \in DOMAIN nodes
      /\ nodes[Top.kids[1]].kind \in KindsAt(Top.at, 1)
  BY <1>2, TopFrame
<1>4. KindsAt(Top.at, 1) \subseteq Returns(Function(Top.at))
  BY DEF KindsAt, Returns, Function, Callee, StmtPlaces, PredPlaces, StmtKinds
<1>5. nodes \in Seq(NodeSet) /\ DOMAIN nodes = 1 .. Len(nodes) /\ Len(nodes) \in Nat
  BY LenProperties DEF ParserTypeOK, NodeSet
<1>6. WellFormedAst'
  BY DEF ParserTypeOK, WellFormedAst, WellFormedNode
<1>7. mIndex' \in mIndex .. Len(tokens)
  BY DEF ParserTypeOK
<1>8. Top.kids[1] \in Nat /\ nodes[Top.kids[1]].kind \in Returns(Function(Top.at)) /\ Top.at # "parse"
  BY <1>3, <1>4, <1>5
<1>9. QED
  BY <1>3, <1>5, <1>6, <1>7, <1>8, HandBack

LEMMA ReturnNothingStep ==
    ASSUME ParserTypeOK, status = "running", Top.at = "pred", UNCHANGED mIndex, ReturnNothing
    PROVE  ParserTypeOK'
<1> DEFINE m == Len(calls) - 1
<1>1. /\ m \in Nat \ {0} /\ m < Len(calls) /\ FrameOK(m) /\ calls[m] \in Frames
      /\ Callee(calls[m].at) = Function(Top.at)
      /\ calls[m].at # "scope.loop" => Len(calls[m].kids) = Held(calls[m].at)
      /\ calls \in Seq(Frames)
  BY CallerFrame, TopFrame
<1>2. calls' = SubSeq(calls, 1, m) /\ UNCHANGED <<tokens, status, error, nodes, mProg>>
  BY DEF ReturnNothing, Callers
<1>3. /\ calls' \in Seq(Frames)
      /\ Len(calls') = m
      /\ \A j \in 1 .. m : calls'[j] = calls[j]
  BY <1>1, <1>2, FrontOf
<1>4. calls[m].at \in {"if.pred", "elif.pred"}
  BY <1>1 DEF Callee, Function, StmtPlaces, PredPlaces, NoToken, Frames, Places
<1>5. Held(calls[m].at) \in Complete(calls[m].at)
  BY <1>4 DEF Complete, Held, Entries
<1>6. nodes \in Seq(NodeSet) /\ WellFormedAst'
  BY <1>2 DEF ParserTypeOK, NodeSet, WellFormedAst, WellFormedNode
<1>7. mIndex' \in mIndex .. Len(tokens)
  BY DEF ParserTypeOK
<1>8. \A j \in DOMAIN calls[m].kids : /\ calls[m].kids[j] \in DOMAIN nodes
                                      /\ nodes[calls[m].kids[j]].kind \in KindsAt(calls[m].at, j)
  BY <1>1 DEF FrameOK
<1>9. calls'[m] = calls[m]
  BY <1>1, <1>3
<1> HIDE DEF m
<1>10. m = Len(calls) - 1
  BY DEF m
<1>11. QED
  BY <1>1, <1>2, <1>3, <1>5, <1>6, <1>7, <1>8, <1>9, <1>10, PopStep, SMTT(60)

-----------------------------------------------------------------------------
(* Tokens                                                                   *)

LEMMA Present ==
    ASSUME ParserTypeOK, NEW k \in Nat, Ahead(k) # NoToken
    PROVE  mIndex + k \in mIndex .. Len(tokens)
  BY LenProperties DEF ParserTypeOK, Ahead

LEMMA FailStep ==
    ASSUME ParserTypeOK, status = "running", NEW what, Fail(what),
           mIndex' \in mIndex .. Len(tokens)
    PROVE  ParserTypeOK'
<1>1. UNCHANGED <<tokens, calls, nodes, mProg>> /\ status' = "failed"
  BY DEF Fail
<1>2. mIndex \in Nat /\ mIndex' \in Nat /\ mIndex <= mIndex'
  BY DEF ParserTypeOK
<1>3. ASSUME NEW i \in DOMAIN calls PROVE FrameOK(i)'
  <2>1. FrameOK(i) /\ calls[i] \in Frames
    BY <1>3, LenProperties, ElementOfSeq DEF ParserTypeOK
  <2>2. calls[i].start \in Nat /\ Taken(calls[i].at) \in Nat
    BY <2>1, Numbers DEF Frames
  <2>3. ~(i < Len(calls)) => calls[i].start + Taken(calls[i].at) <= mIndex'
    BY <1>2, <2>1, <2>2 DEF FrameOK
  <2>4. QED
    BY <1>1, <2>1, <2>3 DEF FrameOK
<1>4. WellFormedAst'
  BY <1>1 DEF ParserTypeOK, WellFormedAst, WellFormedNode
<1>5. calls # << >> /\ mIndex' \in 0 .. Len(tokens)
  BY <1>2 DEF ParserTypeOK
<1>6. QED
  BY <1>1, <1>3, <1>4, <1>5 DEF ParserTypeOK

LEMMA MismatchStep ==
    ASSUME ParserTypeOK, status = "running", NEW T, NoToken \notin T, NEW types \in Seq(T), Mismatch(types)
    PROVE  ParserTypeOK'
<1>1. PICK k \in DOMAIN types :
        /\ \A j \in 1 .. k - 1 : Ahead(j) = types[j]
        /\ mIndex' = IF Ahead(k) = NoToken THEN mIndex + k - 1 ELSE mIndex + k
        /\ Fail(IF Ahead(k) = NoToken THEN "eof" ELSE "mismatch")
  BY DEF Mismatch
<1>2. k \in 1 .. Len(types) /\ Len(types) \in Nat /\ mIndex \in Nat /\ Len(tokens) \in Nat
      /\ mIndex <= Len(tokens)
  BY LenProperties DEF ParserTypeOK
<1>3. mIndex + k - 1 \in mIndex .. Len(tokens)
  <2>1. CASE k = 1
    BY <1>2, <2>1
  <2>2. CASE k # 1
    <3>1. k - 1 \in 1 .. k - 1 /\ k - 1 \in Nat /\ k - 1 \in 1 .. Len(types)
      BY <1>2, <2>2
    <3>2. Ahead(k - 1) # NoToken
      BY <1>1, <3>1, ElementOfSeq
    <3>3. mIndex + (k - 1) \in mIndex .. Len(tokens)
      BY <3>1, <3>2, Present
    <3>4. QED
      BY <1>2, <3>3
  <2>3. QED
    BY <2>1, <2>2
<1>4. Ahead(k) # NoToken => mIndex + k \in mIndex .. Len(tokens)
  BY <1>2, Present
<1>5. mIndex' \in mIndex .. Len(tokens)
  BY <1>1, <1>3, <1>4
<1>6. QED
  BY <1>1, <1>5, FailStep

LEMMA MatchBound ==
    ASSUME ParserTypeOK, NEW T, NoToken \notin T, NEW types \in Seq(T), types # << >>, Matches(types)
    PROVE  mIndex + Len(types) \in mIndex .. Len(tokens)
<1>1. Len(types) \in Nat \ {0} /\ Len(types) \in DOMAIN types
  BY EmptySeq, LenProperties
<1>2. types[Len(types)] # NoToken
  BY <1>1, ElementOfSeq
<1>3. Ahead(Len(types)) # NoToken
  BY <1>1, <1>2 DEF Matches
<1>4. QED
  BY <1>1, <1>3, Present

\* The nodes the running function holds when it goes on after a call.
LEMMA HeldKids ==
    ASSUME ParserTypeOK, status = "running",
           Top.at \notin Entries \cup {"parse", "scope.loop", "if.pred", "elif.pred"}
    PROVE  /\ Len(Top.kids) = Held(Top.at) + 1
           /\ DOMAIN Top.kids = 1 .. Held(Top.at) + 1
           /\ \A j \in 1 .. Held(Top.at) + 1 :
                 /\ Top.kids[j] \in Nat
                 /\ Top.kids[j] \in DOMAIN nodes
                 /\ nodes[Top.kids[j]].kind \in KindsAt(Top.at, j)
<1>1. Complete(Top.at) = {Held(Top.at) + 1}
  BY DEF Complete
<1>2. Len(Top.kids) = Held(Top.at) + 1
  BY <1>1, TopFrame
<1>3. Top.kids \in Seq(Nat) /\ DOMAIN Top.kids = 1 .. Held(Top.at) + 1
  BY <1>2, TopFrame, LenProperties
<1>4. QED
  BY <1>2, <1>3, TopFrame, ElementOfSeq

-----------------------------------------------------------------------------
(* The actions                                                              *)

\* A function goes on to its next call without taking a token.
LEMMA NextCallStep ==
    ASSUME ParserTypeOK, status = "running", UNCHANGED mIndex,
           NEW place, NEW callee,
           \/ Top.at = "if.expr" /\ place = "if.scope" /\ callee = "scope"
           \/ Top.at = "if.scope" /\ place = "if.pred" /\ callee = "pred"
           \/ Top.at = "while.expr" /\ place = "while.scope" /\ callee = "scope"
           \/ Top.at = "elif.expr" /\ place = "elif.scope" /\ callee = "scope"
           \/ Top.at = "elif.scope" /\ place = "elif.pred" /\ callee = "pred",
           Call(place, callee)
    PROVE  ParserTypeOK'
<1>1. /\ place \in Places /\ callee \in Entries /\ Callee(place) = callee
      /\ place # "parse" /\ Top.at # "parse"
  BY DEF Places, Entries, StmtPlaces, PredPlaces, Callee
<1>2. Function(place) = Function(Top.at) /\ Taken(Top.at) = 1 /\ Taken(place) = 1
  BY DEF Function, StmtPlaces, PredPlaces, Taken, Entries
<1>3. Top.at \notin Entries \cup {"parse", "scope.loop", "if.pred", "elif.pred"}
  BY DEF Entries
<1>4. Held(place) = Held(Top.at) + 1 /\ Held(Top.at) \in 0 .. 1
  BY DEF Held
<1>5. Len(Top.kids) = Held(place) /\ DOMAIN Top.kids = 1 .. Held(place)
  BY <1>3, <1>4, HeldKids
<1>6. \A j \in 1 .. Held(place) : KindsAt(place, j) = KindsAt(Top.at, j)
  <2>1. CASE Top.at \in {"if.expr", "while.expr", "elif.expr"}
    BY <2>1, <1>4 DEF Held, KindsAt, Returns, Callee
  <2>2. CASE Top.at \in {"if.scope", "elif.scope"}
    BY <2>2, <1>4 DEF Held, KindsAt, Returns, Callee
  <2>3. QED
    BY <2>1, <2>2
<1>7. \A j \in DOMAIN Top.kids : nodes[Top.kids[j]].kind \in KindsAt(place, j)
  BY <1>5, <1>6, TopFrame
<1>8. mIndex' = mIndex /\ mIndex \in Nat /\ mIndex' \in mIndex .. Len(tokens)
  BY DEF ParserTypeOK
<1>9. Top.start \in Nat /\ Top.start + 1 <= mIndex'
  BY <1>2, <1>8, TopFrame
<1>10. Slack(Function(place)) \in 1 .. 2 /\ Slack(callee) \in 1 .. 3
  BY DEF Slack, Function, StmtPlaces, PredPlaces
<1>11. 2 * Top.start + Slack(Function(place)) + 1 <= 2 * mIndex' + Slack(callee)
  BY <1>8, <1>9, <1>10, SMTT(60)
<1>12. QED
  BY <1>1, <1>2, <1>5, <1>7, <1>8, <1>9, <1>11, CallStep

\* A function calls another before it holds any node.
LEMMA FirstCallStep ==
    ASSUME ParserTypeOK, status = "running", Top.at \in Entries,
           NEW place \in Places, NEW callee \in Entries,
           Function(place) = Top.at, Callee(place) = callee, Held(place) = 0, place # "parse",
           NEW k \in Nat, mIndex' = mIndex + k, mIndex' <= Len(tokens), Taken(place) <= k,
           Slack(Top.at) + 1 <= 2 * k + Slack(callee),
           Call(place, callee)
    PROVE  ParserTypeOK'
<1>1. Function(Top.at) = Top.at /\ Top.at # "parse" /\ Complete(Top.at) = {0} /\ Taken(Top.at) = 0
      /\ Top.at # "scope.loop"
  BY EntryFacts
<1>2. Len(Top.kids) = Held(place) /\ DOMAIN Top.kids = {}
  BY <1>1, TopFrame, LenProperties
<1>3. mIndex \in Nat /\ Top.start \in Nat /\ Top.start <= mIndex /\ Taken(place) \in Nat
  <2>1. mIndex \in Nat
    BY DEF ParserTypeOK
  <2>2. Top.start \in Nat /\ Top.start + 0 <= mIndex
    BY <1>1, TopFrame
  <2>3. Taken(place) \in Nat
    BY Numbers
  <2>4. QED
    BY <2>1, <2>2, <2>3
<1>4. mIndex' \in mIndex .. Len(tokens)
  BY <1>3 DEF ParserTypeOK
<1>5. Top.start + Taken(place) <= mIndex'
  BY <1>3
<1>6. Slack(Function(place)) \in Nat /\ Slack(callee) \in Nat
  BY Numbers, EntryFacts
<1>7. 2 * Top.start + Slack(Function(place)) + 1 <= 2 * mIndex' + Slack(callee)
  BY <1>3, <1>6, SMTT(60)
<1>8. QED
  BY <1>1, <1>2, <1>4, <1>5, <1>7, CallStep

LEMMA ProgramFacts ==
    ASSUME NEW place, place = "parse", NEW function, function = "stmt"
    PROVE  /\ Callee(place) = function /\ Taken(place) = 0 /\ Held(place) = 0
           /\ Slack(Function(place)) = 1
           /\ function \in Entries /\ Slack(function) = 2
<1>1. Callee(place) = function /\ Held(place) = 0 /\ Taken(place) = 0
  <2>1. Callee(place) = function
    BY DEF Callee
  <2>2. Held(place) = 0
    BY DEF Held
  <2>3. Taken(place) = 0
    BY DEF Taken, Entries
  <2>4. QED
    BY <2>1, <2>2, <2>3
<1>2. \A p : p = "parse" => Function(p) = "parse"
  BY DEF Function, StmtPlaces, PredPlaces
<1>3. \A f : f = "parse" => Slack(f) = 1
  BY DEF Slack
<1>4. function \in Entries /\ Slack(function) = 2
  BY DEF Slack, Entries
<1>5. QED
  BY <1>1, <1>2, <1>3, <1>4

LEMMA ParseLoopStep ==
    ASSUME ParserTypeOK, status = "running", ParseLoop PROVE ParserTypeOK'
<1>1. /\ Top.at = "parse" /\ Len(calls) = 1 /\ Top.kids \in Seq(Nat)
      /\ mProg' = mProg \o Top.kids /\ mProg' \in Seq(Nat)
      /\ UNCHANGED <<tokens, mIndex, error, nodes>>
  BY TopFrame, ConcatProperties DEF ParseLoop, At, ParserTypeOK
<1>2. \A j \in DOMAIN Top.kids : /\ Top.kids[j] \in DOMAIN nodes
                                 /\ nodes[Top.kids[j]].kind \in StmtKinds
  <2>1. \A j \in DOMAIN Top.kids : KindsAt(Top.at, j) = StmtKinds
    BY <1>1 DEF KindsAt, Callee, Returns
  <2>2. QED
    BY <2>1, TopFrame
<1>3. WellFormedAst'
  <2>1. ASSUME NEW i \in DOMAIN mProg'
        PROVE  mProg'[i] \in DOMAIN nodes /\ nodes[mProg'[i]].kind \in StmtKinds
    <3>1. mProg \in Seq(Nat)
      BY DEF ParserTypeOK
    <3>2. /\ DOMAIN mProg = 1 .. Len(mProg) /\ DOMAIN Top.kids = 1 .. Len(Top.kids)
          /\ Len(mProg) \in Nat /\ Len(Top.kids) \in Nat
          /\ DOMAIN mProg' = 1 .. Len(mProg')
      BY <1>1, <3>1, LenProperties
    <3>3. /\ Len(mProg') = Len(mProg) + Len(Top.kids)
          /\ mProg'[i] = IF i <= Len(mProg) THEN mProg[i] ELSE Top.kids[i - Len(mProg)]
      BY <1>1, <2>1, <3>1, <3>2, ConcatProperties
    <3>4. CASE i <= Len(mProg)
      BY <2>1, <3>2, <3>3, <3>4, SMTT(60) DEF ParserTypeOK, WellFormedAst
    <3>5. CASE ~(i <= Len(mProg))
      <4>1. i - Len(mProg) \in DOMAIN Top.kids
        BY <2>1, <3>2, <3>3, <3>5
      <4>2. QED
        BY <3>3, <3>5, <4>1, <1>2
    <3>6. QED
      BY <3>4, <3>5
  <2>2. QED
    BY <1>1, <2>1 DEF ParserTypeOK, WellFormedAst, WellFormedNode
<1>4. mIndex \in Nat /\ mIndex \in 0 .. Len(tokens)
  BY DEF ParserTypeOK
<1>5. CASE calls' = << >> /\ status' = "done"
  BY <1>1, <1>3, <1>4, <1>5, EmptySeq DEF ParserTypeOK
<1>6. CASE calls' = <<Frame("parse", 0), Frame("stmt", mIndex)>> /\ UNCHANGED status
  <2>1. /\ Frame("parse", 0) \in Frames /\ Frame("stmt", mIndex) \in Frames
        /\ Frame("parse", 0).kids = << >> /\ Frame("stmt", mIndex).kids = << >>
    BY <1>4, EmptySeq DEF Frame, Frames, Places, StmtPlaces
  <2>2. /\ calls' \in Seq(Frames) /\ Len(calls') = 2 /\ DOMAIN calls' = {1, 2} /\ calls' # << >>
        /\ calls'[1] = Frame("parse", 0) /\ calls'[2] = Frame("stmt", mIndex)
    BY <1>6, <2>1
  <2>3. FrameOK(1)'
    <3>1. Function("stmt") = Callee("parse") /\ Taken("parse") = 0 /\ Held("parse") = 0
          /\ "stmt" \in Places
      BY ProgramFacts, EntryFacts
    <3>2. Slack(Function("parse")) = 1
      BY ProgramFacts
    <3>3. calls'[1].at = "parse" /\ calls'[1].kids = << >> /\ calls'[1].start = 0
          /\ calls'[2].at = "stmt" /\ calls'[2].start = mIndex
      BY <2>2 DEF Frame
    <3>4. Len(calls'[1].kids) = 0 /\ DOMAIN calls'[1].kids = {}
      BY <3>3
    <3>5. QED
      BY <1>4, <2>2, <3>1, <3>2, <3>3, <3>4 DEF FrameOK
  <2>4. FrameOK(2)'
    <3>1. Complete("stmt") = {0} /\ Taken("stmt") = 0
      BY ProgramFacts, EntryFacts
    <3>2. Slack(Function("stmt")) = 2
      BY ProgramFacts, EntryFacts
    <3>3. calls'[2].at = "stmt" /\ calls'[2].kids = << >> /\ calls'[2].start = mIndex
      BY <2>2 DEF Frame
    <3>4. Len(calls'[2].kids) = 0 /\ DOMAIN calls'[2].kids = {}
      BY <3>3
    <3>5. QED
      BY <1>1, <1>4, <2>2, <3>1, <3>2, <3>3, <3>4 DEF FrameOK
  <2>5. QED
    BY <1>1, <1>3, <1>4, <1>6, <2>2, <2>3, <2>4 DEF ParserTypeOK
<1>7. QED
  BY <1>5, <1>6 DEF ParseLoop

\* tryConsume() for one or two types, and a first call.
LEMMA ConsumeCallStep ==
    ASSUME ParserTypeOK, status = "running", Top.at \in Entries,
           NEW place \in Places, NEW callee \in Entries,
           Function(place) = Top.at, Callee(place) = callee, Held(place) = 0, place # "parse",
           Top.at # "scope", NEW T, NoToken \notin T, NEW types \in Seq(T), NEW w \in 1 .. 2, Len(types) = w,
           \/ Matches(types) /\ mIndex' = mIndex + w /\ Call(place, callee)
           \/ Mismatch(types)
    PROVE  ParserTypeOK'
<1>1. CASE Mismatch(types)
  BY <1>1, MismatchStep
<1>2. CASE Matches(types) /\ mIndex' = mIndex + w /\ Call(place, callee)
  <2>1. types # << >>
    BY EmptySeq
  <2>2. mIndex + w \in mIndex .. Len(tokens) /\ mIndex \in Nat /\ Len(tokens) \in Nat
    BY <1>2, <2>1, MatchBound, LenProperties DEF ParserTypeOK
  <2>3. mIndex' <= Len(tokens)
    BY <1>2, <2>2
  <2>4. Taken(place) \in 0 .. 1
    BY Numbers
  <2>5. Taken(place) <= w
    BY <2>4
  <2>6. Slack(Top.at) \in 1 .. 3 /\ Slack(callee) \in 1 .. 3
    BY Numbers, EntryFacts
  <2>7. Slack(Top.at) + 1 <= 2 * w + Slack(callee)
    <3>1. Slack(callee) = 1 \/ Slack(callee) = 2 \/ Slack(callee) = 3
      BY <2>6
    <3>2. \A f \in Entries : f # "scope" => Slack(f) \in 1 .. 2
      BY DEF Slack, Entries
    <3>3. QED
      BY <2>6, <3>1, <3>2
  <2>8. QED
    BY <1>2, <2>3, <2>5, <2>7, FirstCallStep
<1>3. QED
  BY <1>1, <1>2

\* Where the functions stand during their first call.
LEMMA FirstPlaces ==
    ASSUME NEW function, NEW place, NEW callee,
           \/ function = "stmt" /\ place \in {"exit", "assign", "if.expr", "while.expr"}
                                /\ callee = "expr"
           \/ function = "stmt" /\ place = "block" /\ callee = "scope"
           \/ function = "pred" /\ place = "elif.expr" /\ callee = "expr"
           \/ function = "pred" /\ place = "else" /\ callee = "scope"
           \/ function = "expr" /\ place = "expr.term" /\ callee = "term"
           \/ function = "term" /\ place = "paren" /\ callee = "expr"
    PROVE  /\ place \in Places /\ callee \in Entries /\ function \in Entries
           /\ Function(place) = function /\ Callee(place) = callee /\ Held(place) = 0
           /\ place # "parse" /\ function # "scope"
<1>1. place \in Places /\ callee \in Entries /\ function \in Entries
  BY DEF Places, StmtPlaces, PredPlaces, Entries
<1>2. Function(place) = function
  BY DEF Function, StmtPlaces, PredPlaces
<1>3. Callee(place) = callee
  BY DEF Callee
<1>4. Held(place) = 0
  BY DEF Held
<1>5. QED
  BY <1>1, <1>2, <1>3, <1>4

LEMMA StatementStep ==
    ASSUME ParserTypeOK, status = "running", Statement PROVE ParserTypeOK'
<1>1. Top.at = "stmt"
  BY DEF Statement, At
<1>2. CASE TryConsume(<<"EXIT", "LEFT_PAREN">>, Call("exit", "expr"))
  <2>1. <<"EXIT", "LEFT_PAREN">> \in Seq({"EXIT", "LEFT_PAREN"}) /\ Len(<<"EXIT", "LEFT_PAREN">>) = 2 /\ 2 \in 1 .. 2
        /\ NoToken \notin {"EXIT", "LEFT_PAREN"}
    BY DEF NoToken
  <2>2. /\ "exit" \in Places /\ "expr" \in Entries /\ "exit" # "parse" /\ Top.at # "scope"
        /\ Function("exit") = Top.at /\ Callee("exit") = "expr" /\ Held("exit") = 0
        /\ Top.at \in Entries
    BY <1>1, FirstPlaces
  <2>3. \/ Matches(<<"EXIT", "LEFT_PAREN">>) /\ mIndex' = mIndex + 2 /\ Call("exit", "expr")
        \/ Mismatch(<<"EXIT", "LEFT_PAREN">>)
    BY <1>2, <2>1 DEF TryConsume
  <2>4. QED
    BY <2>1, <2>2, <2>3, ConsumeCallStep
<1>3. CASE TryConsume(<<"IDENT">>, Call("assign", "expr"))
  <2>1. <<"IDENT">> \in Seq({"IDENT"}) /\ Len(<<"IDENT">>) = 1 /\ 1 \in 1 .. 2
        /\ NoToken \notin {"IDENT"}
    BY DEF NoToken
  <2>2. /\ "assign" \in Places /\ "expr" \in Entries /\ "assign" # "parse" /\ Top.at # "scope"
        /\ Function("assign") = Top.at /\ Callee("assign") = "expr" /\ Held("assign") = 0
        /\ Top.at \in Entries
    BY <1>1, FirstPlaces
  <2>3. \/ Matches(<<"IDENT">>) /\ mIndex' = mIndex + 1 /\ Call("assign", "expr")
        \/ Mismatch(<<"IDENT">>)
    BY <1>3, <2>1 DEF TryConsume
  <2>4. QED
    BY <2>1, <2>2, <2>3, ConsumeCallStep
<1>4. CASE TryConsume(<<"IF">>, Call("if.expr", "expr"))
  <2>1. <<"IF">> \in Seq({"IF"}) /\ Len(<<"IF">>) = 1 /\ 1 \in 1 .. 2
        /\ NoToken \notin {"IF"}
    BY DEF NoToken
  <2>2. /\ "if.expr" \in Places /\ "expr" \in Entries /\ "if.expr" # "parse" /\ Top.at # "scope"
        /\ Function("if.expr") = Top.at /\ Callee("if.expr") = "expr" /\ Held("if.expr") = 0
        /\ Top.at \in Entries
    BY <1>1, FirstPlaces
  <2>3. \/ Matches(<<"IF">>) /\ mIndex' = mIndex + 1 /\ Call("if.expr", "expr")
        \/ Mismatch(<<"IF">>)
    BY <1>4, <2>1 DEF TryConsume
  <2>4. QED
    BY <2>1, <2>2, <2>3, ConsumeCallStep
<1>5. CASE TryConsume(<<"WHILE">>, Call("while.expr", "expr"))
  <2>1. <<"WHILE">> \in Seq({"WHILE"}) /\ Len(<<"WHILE">>) = 1 /\ 1 \in 1 .. 2
        /\ NoToken \notin {"WHILE"}
    BY DEF NoToken
  <2>2. /\ "while.expr" \in Places /\ "expr" \in Entries /\ "while.expr" # "parse" /\ Top.at # "scope"
        /\ Function("while.expr") = Top.at /\ Callee("while.expr") = "expr" /\ Held("while.expr") = 0
        /\ Top.at \in Entries
    BY <1>1, FirstPlaces
  <2>3. \/ Matches(<<"WHILE">>) /\ mIndex' = mIndex + 1 /\ Call("while.expr", "expr")
        \/ Mismatch(<<"WHILE">>)
    BY <1>5, <2>1 DEF TryConsume
  <2>4. QED
    BY <2>1, <2>2, <2>3, ConsumeCallStep
<1>6. CASE UNCHANGED mIndex /\ Call("block", "scope")
  <2>1. Slack(Top.at) + 1 <= 2 * 0 + Slack("scope")
    <3>1. \A f : (f = "stmt" => Slack(f) = 2) /\ (f = "scope" => Slack(f) = 3)
      BY DEF Slack
    <3>2. QED
      BY <1>1, <3>1
  <2>2. Taken("block") <= 0
    <3>1. \A p : p = "block" => Taken(p) = 0
      BY DEF Taken
    <3>2. QED
      BY <3>1
  <2>3. mIndex \in Nat /\ mIndex' = mIndex + 0 /\ mIndex' <= Len(tokens)
    BY <1>6, LenProperties DEF ParserTypeOK
  <2>4. QED
    BY <1>1, <1>6, <2>1, <2>2, <2>3, FirstPlaces, FirstCallStep, SMTT(60)
<1>7. CASE UNCHANGED mIndex /\ Fail("statement")
  <2>1. mIndex' \in mIndex .. Len(tokens)
    BY <1>7, LenProperties DEF ParserTypeOK
  <2>2. QED
    BY <1>7, <2>1, FailStep
<1>8. QED
  BY <1>2, <1>3, <1>4, <1>5, <1>6, <1>7 DEF Statement

LEMMA IfPredStep ==
    ASSUME ParserTypeOK, status = "running", IfPred PROVE ParserTypeOK'
<1>1. Top.at = "pred"
  BY DEF IfPred, At
<1>2. CASE TryConsume(<<"ELIF">>, Call("elif.expr", "expr"))
  <2>1. <<"ELIF">> \in Seq({"ELIF"}) /\ Len(<<"ELIF">>) = 1 /\ 1 \in 1 .. 2
        /\ NoToken \notin {"ELIF"}
    BY DEF NoToken
  <2>2. /\ "elif.expr" \in Places /\ "expr" \in Entries /\ "elif.expr" # "parse" /\ Top.at # "scope"
        /\ Function("elif.expr") = Top.at /\ Callee("elif.expr") = "expr" /\ Held("elif.expr") = 0
        /\ Top.at \in Entries
    BY <1>1, FirstPlaces
  <2>3. \/ Matches(<<"ELIF">>) /\ mIndex' = mIndex + 1 /\ Call("elif.expr", "expr")
        \/ Mismatch(<<"ELIF">>)
    BY <1>2, <2>1 DEF TryConsume
  <2>4. QED
    BY <2>1, <2>2, <2>3, ConsumeCallStep
<1>3. CASE TryConsume(<<"ELSE">>, Call("else", "scope"))
  <2>1. <<"ELSE">> \in Seq({"ELSE"}) /\ Len(<<"ELSE">>) = 1 /\ 1 \in 1 .. 2
        /\ NoToken \notin {"ELSE"}
    BY DEF NoToken
  <2>2. /\ "else" \in Places /\ "scope" \in Entries /\ "else" # "parse" /\ Top.at # "scope"
        /\ Function("else") = Top.at /\ Callee("else") = "scope" /\ Held("else") = 0
        /\ Top.at \in Entries
    BY <1>1, FirstPlaces
  <2>3. \/ Matches(<<"ELSE">>) /\ mIndex' = mIndex + 1 /\ Call("else", "scope")
        \/ Mismatch(<<"ELSE">>)
    BY <1>3, <2>1 DEF TryConsume
  <2>4. QED
    BY <2>1, <2>2, <2>3, ConsumeCallStep
<1>4. CASE UNCHANGED mIndex /\ ReturnNothing
  BY <1>1, <1>4, ReturnNothingStep
<1>5. QED
  BY <1>2, <1>3, <1>4 DEF IfPred

LEMMA ExpressionStep ==
    ASSUME ParserTypeOK, status = "running", Expression PROVE ParserTypeOK'
<1>1. Top.at = "expr" /\ UNCHANGED mIndex /\ Call("expr.term", "term")
  BY DEF Expression, At
<1>2. Slack(Top.at) + 1 <= 2 * 0 + Slack("term")
  <2>1. \A f : (f = "expr" => Slack(f) = 1) /\ (f = "term" => Slack(f) = 2)
    BY DEF Slack
  <2>2. QED
    BY <1>1, <2>1
<1>3. Taken("expr.term") <= 0
  <2>1. \A p : p = "expr.term" => Taken(p) = 0
    BY DEF Taken
  <2>2. QED
    BY <2>1
<1>4. mIndex \in Nat /\ mIndex' = mIndex + 0 /\ mIndex' <= Len(tokens)
  BY <1>1, LenProperties DEF ParserTypeOK
<1>5. /\ "expr.term" \in Places /\ "term" \in Entries /\ "expr.term" # "parse"
      /\ Function("expr.term") = Top.at /\ Callee("expr.term") = "term" /\ Held("expr.term") = 0
      /\ Top.at \in Entries
  BY <1>1, FirstPlaces
<1>6. QED
  BY <1>1, <1>2, <1>3, <1>4, <1>5, FirstCallStep

LEMMA ExpressionEndStep ==
    ASSUME ParserTypeOK, status = "running", ExpressionEnd PROVE ParserTypeOK'
<1>1. Top.at = "expr.term" /\ UNCHANGED mIndex
  BY DEF ExpressionEnd, At
<1>2. CASE /\ calls' = [Callers EXCEPT ![Len(Callers)].kids = Append(@, Top.kids[1])]
           /\ UNCHANGED <<tokens, status, error, nodes, mProg>>
  BY <1>1, <1>2, PassStep
<1>3. CASE Fail("expression")
  <2>1. mIndex' \in mIndex .. Len(tokens)
    BY <1>1, LenProperties DEF ParserTypeOK
  <2>2. QED
    BY <1>3, <2>1, FailStep
<1>4. QED
  BY <1>2, <1>3 DEF ExpressionEnd

LEMMA BlockEndStep ==
    ASSUME ParserTypeOK, status = "running", BlockEnd PROVE ParserTypeOK'
  BY PassStep DEF BlockEnd, At

\* A return that tokens precede.
LEMMA ConsumeReturnStep ==
    ASSUME ParserTypeOK, status = "running", Top.at # "parse",
           NEW T, NoToken \notin T, NEW types \in Seq(T), types # << >>,
           NEW node \in NodeSet, node.kind \in Returns(Function(Top.at)),
           Len(node.kids) \in KidCounts(node.kind),
           \A i \in DOMAIN node.kids : /\ node.kids[i] \in DOMAIN nodes
                                       /\ nodes[node.kids[i]].kind \in KidKinds(node.kind, i),
           \/ Matches(types) /\ mIndex' = mIndex + Len(types) /\ Return(node)
           \/ Mismatch(types)
    PROVE  ParserTypeOK'
<1>1. CASE Mismatch(types)
  BY <1>1, MismatchStep
<1>2. CASE Matches(types) /\ mIndex' = mIndex + Len(types) /\ Return(node)
  <2>1. mIndex' \in mIndex .. Len(tokens)
    BY <1>2, MatchBound
  <2>2. QED
    BY <1>2, <2>1, ReturnStep
<1>3. QED
  BY <1>1, <1>2

\* A node of one child, which is what the running function holds.
LEMMA OneKid ==
    ASSUME ParserTypeOK, status = "running", NEW kind, NEW token \in Nat,
           \/ Top.at = "exit" /\ kind = "exit"
           \/ Top.at = "assign" /\ kind = "assign"
           \/ Top.at = "else" /\ kind = "else"
           \/ Top.at = "paren" /\ kind = "paren",
           NEW node, node = Node(kind, token, <<Top.kids[1]>>)
    PROVE  /\ node \in NodeSet /\ node.kind \in Returns(Function(Top.at))
           /\ Len(node.kids) \in KidCounts(node.kind)
           /\ \A i \in DOMAIN node.kids :
                 /\ node.kids[i] \in DOMAIN nodes
                 /\ nodes[node.kids[i]].kind \in KidKinds(node.kind, i)
<1>1. Top.at \notin Entries \cup {"parse", "scope.loop", "if.pred", "elif.pred"}
  BY DEF Entries
<1>2. Held(Top.at) = 0
  BY DEF Held
<1>3. /\ Top.kids[1] \in Nat /\ Top.kids[1] \in DOMAIN nodes
      /\ nodes[Top.kids[1]].kind \in KindsAt(Top.at, 1)
  BY <1>1, <1>2, HeldKids
<1>4. KindsAt(Top.at, 1) = IF kind = "else" THEN {"scope"} ELSE TermKinds
  BY DEF KindsAt, Callee, Returns
<1>5. KidKinds(kind, 1) = IF kind = "else" THEN {"scope"} ELSE ExprKinds
  BY DEF KidKinds, BinExprKinds
<1>6. KidCounts(kind) = {1} /\ kind \in AllKinds
  <2>1. KidCounts(kind) = {1}
    BY DEF KidCounts, BinExprKinds
  <2>2. kind \in AllKinds
    BY DEF AllKinds, ExprKinds, TermKinds, IfPredKinds, StmtKinds
  <2>3. QED
    BY <2>1, <2>2
<1>7. kind \in Returns(Function(Top.at))
  <2>1. Function(Top.at) = CASE kind \in {"exit", "assign"} -> "stmt" [] kind = "else" -> "pred"
                             [] OTHER -> "term"
    BY DEF Function, StmtPlaces, PredPlaces
  <2>2. QED
    BY <2>1 DEF Returns, StmtKinds, IfPredKinds, TermKinds
<1>8. /\ node.kind = kind /\ node.token = token /\ node.kids = <<Top.kids[1]>>
      /\ node \in NodeSet
  BY <1>3, <1>6 DEF Node, NodeSet
<1>9. Len(node.kids) = 1 /\ DOMAIN node.kids = {1} /\ node.kids[1] = Top.kids[1]
  BY <1>8
<1>10. nodes[Top.kids[1]].kind \in KidKinds(kind, 1)
  BY <1>3, <1>4, <1>5 DEF ExprKinds
<1>11. QED
  BY <1>3, <1>6, <1>7, <1>8, <1>9, <1>10

LEMMA ExitEndStep ==
    ASSUME ParserTypeOK, status = "running", ExitEnd PROVE ParserTypeOK'
<1> DEFINE node == Node("exit", 0, <<Top.kids[1]>>)
<1>1. Top.at = "exit" /\ Top.at # "parse"
  BY DEF ExitEnd, At
<1>2. TryConsume(<<"RIGHT_PAREN", "SEMI">>, Return(node))
  BY DEF ExitEnd, StmtExitNode
<1>3. /\ node \in NodeSet /\ node.kind \in Returns(Function(Top.at))
      /\ Len(node.kids) \in KidCounts(node.kind)
      /\ \A i \in DOMAIN node.kids : /\ node.kids[i] \in DOMAIN nodes
                                     /\ nodes[node.kids[i]].kind \in KidKinds(node.kind, i)
  BY <1>1, OneKid
<1> HIDE DEF node
<1>4. /\ <<"RIGHT_PAREN", "SEMI">> \in Seq({"RIGHT_PAREN", "SEMI"}) /\ <<"RIGHT_PAREN", "SEMI">> # << >>
      /\ NoToken \notin {"RIGHT_PAREN", "SEMI"}
  BY DEF NoToken
<1>5. \/ Matches(<<"RIGHT_PAREN", "SEMI">>) /\ mIndex' = mIndex + Len(<<"RIGHT_PAREN", "SEMI">>) /\ Return(node)
      \/ Mismatch(<<"RIGHT_PAREN", "SEMI">>)
  BY <1>2 DEF TryConsume
<1>6. QED
  BY <1>1, <1>3, <1>4, <1>5, ConsumeReturnStep

LEMMA AssignEndStep ==
    ASSUME ParserTypeOK, status = "running", AssignEnd PROVE ParserTypeOK'
<1> DEFINE node == Node("assign", Top.start + 1, <<Top.kids[1]>>)
<1>1. Top.at = "assign" /\ Top.at # "parse" /\ Top.start + 1 \in Nat
  BY TopFrame DEF AssignEnd, At
<1>2. TryConsume(<<"SEMI">>, Return(node))
  BY DEF AssignEnd, StmtAssignNode
<1>3. /\ node \in NodeSet /\ node.kind \in Returns(Function(Top.at))
      /\ Len(node.kids) \in KidCounts(node.kind)
      /\ \A i \in DOMAIN node.kids : /\ node.kids[i] \in DOMAIN nodes
                                     /\ nodes[node.kids[i]].kind \in KidKinds(node.kind, i)
  BY <1>1, OneKid
<1> HIDE DEF node
<1>4. /\ <<"SEMI">> \in Seq({"SEMI"}) /\ <<"SEMI">> # << >> /\ NoToken \notin {"SEMI"}
  BY DEF NoToken
<1>5. \/ Matches(<<"SEMI">>) /\ mIndex' = mIndex + Len(<<"SEMI">>) /\ Return(node)
      \/ Mismatch(<<"SEMI">>)
  BY <1>2 DEF TryConsume
<1>6. QED
  BY <1>1, <1>3, <1>4, <1>5, ConsumeReturnStep

LEMMA ParenEndStep ==
    ASSUME ParserTypeOK, status = "running", ParenEnd PROVE ParserTypeOK'
<1> DEFINE node == Node("paren", 0, <<Top.kids[1]>>)
<1>1. Top.at = "paren" /\ Top.at # "parse"
  BY DEF ParenEnd, At
<1>2. TryConsume(<<"RIGHT_PAREN">>, Return(node))
  BY DEF ParenEnd, TermExprNode
<1>3. /\ node \in NodeSet /\ node.kind \in Returns(Function(Top.at))
      /\ Len(node.kids) \in KidCounts(node.kind)
      /\ \A i \in DOMAIN node.kids : /\ node.kids[i] \in DOMAIN nodes
                                     /\ nodes[node.kids[i]].kind \in KidKinds(node.kind, i)
  BY <1>1, OneKid
<1> HIDE DEF node
<1>4. /\ <<"RIGHT_PAREN">> \in Seq({"RIGHT_PAREN"}) /\ <<"RIGHT_PAREN">> # << >>
      /\ NoToken \notin {"RIGHT_PAREN"}
  BY DEF NoToken
<1>5. \/ Matches(<<"RIGHT_PAREN">>) /\ mIndex' = mIndex + Len(<<"RIGHT_PAREN">>) /\ Return(node)
      \/ Mismatch(<<"RIGHT_PAREN">>)
  BY <1>2 DEF TryConsume
<1>6. QED
  BY <1>1, <1>3, <1>4, <1>5, ConsumeReturnStep

LEMMA ElseEndStep ==
    ASSUME ParserTypeOK, status = "running", ElseEnd PROVE ParserTypeOK'
<1> DEFINE node == Node("else", 0, <<Top.kids[1]>>)
<1>1. Top.at = "else" /\ Top.at # "parse" /\ UNCHANGED mIndex /\ Return(node)
  BY DEF ElseEnd, At, IfPredElseNode
<1>2. /\ node \in NodeSet /\ node.kind \in Returns(Function(Top.at))
      /\ Len(node.kids) \in KidCounts(node.kind)
      /\ \A i \in DOMAIN node.kids : /\ node.kids[i] \in DOMAIN nodes
                                     /\ nodes[node.kids[i]].kind \in KidKinds(node.kind, i)
  BY <1>1, OneKid
<1> HIDE DEF node
<1>3. mIndex' \in mIndex .. Len(tokens)
  BY <1>1, LenProperties DEF ParserTypeOK
<1>4. QED
  BY <1>1, <1>2, <1>3, ReturnStep

\* Two nodes and the optional third are the nodes held.
LEMMA Rebuilt ==
    ASSUME NEW s \in Seq(Nat), NEW l \in Nat, Len(s) = l, l = 2 \/ l = 3
    PROVE  <<s[1], s[2]>> \o SubSeq(s, 3, l) = s
<1> DEFINE front == <<s[1], s[2]>>
           back == SubSeq(s, 3, l)
<1>1. 1 \in 1 .. l /\ 2 \in 1 .. l
  OBVIOUS
<1>2. s[1] \in Nat /\ s[2] \in Nat
  BY <1>1, ElementOfSeq
<1>3. front \in Seq(Nat) /\ Len(front) = 2 /\ front[1] = s[1] /\ front[2] = s[2]
  BY <1>2
<1>4. /\ back \in Seq(Nat)
      /\ Len(back) = l - 2
      /\ \A i \in 1 .. l - 2 : back[i] = s[2 + i]
  <2>1. \A i \in 3 .. l : s[i] \in Nat
    BY ElementOfSeq
  <2>2. 3 \in Int /\ l \in Int
    OBVIOUS
  <2>3. /\ SubSeq(s, 3, l) \in Seq(Nat)
        /\ Len(SubSeq(s, 3, l)) = IF 3 <= l THEN l - 3 + 1 ELSE 0
        /\ \A i \in 1 .. l - 3 + 1 : SubSeq(s, 3, l)[i] = s[3 + i - 1]
    BY <2>1, <2>2, SubSeqProperties
  <2> HIDE DEF back
  <2>4. /\ back \in Seq(Nat)
        /\ Len(back) = IF 3 <= l THEN l - 3 + 1 ELSE 0
        /\ \A i \in 1 .. l - 3 + 1 : back[i] = s[3 + i - 1]
    BY <2>3 DEF back
  <2>5. QED
    BY <2>4
<1> HIDE DEF front, back
<1>5. /\ front \o back \in Seq(Nat)
      /\ Len(front \o back) = Len(front) + Len(back)
      /\ \A j \in 1 .. Len(front) + Len(back) :
            (front \o back)[j] = IF j <= Len(front) THEN front[j] ELSE back[j - Len(front)]
  BY <1>3, <1>4, ConcatProperties
<1>6. Len(front \o back) = l /\ Len(front) + Len(back) = l /\ Len(front) = 2
  BY <1>1, <1>3, <1>4, <1>5
<1>7. \A j \in 1 .. l : (front \o back)[j] = s[j]
  <2> SUFFICES ASSUME NEW j \in 1 .. l PROVE (front \o back)[j] = s[j]
    OBVIOUS
  <2>1. CASE j = 1 \/ j = 2
    BY <2>1, <1>3, <1>5, <1>6
  <2>2. CASE j = 3
    <3>1. back[1] = s[3]
      BY <1>1, <1>4, <2>2
    <3>2. QED
      BY <3>1, <2>2, <1>3, <1>4, <1>5
  <2>3. j = 1 \/ j = 2 \/ j = 3
    <3>1. CASE l = 2
      BY <3>1
    <3>2. CASE l = 3
      BY <3>2
    <3>3. QED
      BY <3>1, <3>2
  <2>4. QED
    BY <2>1, <2>2, <2>3
<1>8. front \o back = s
  BY <1>5, <1>6, <1>7, SeqEqual
<1>9. QED
  BY <1>8 DEF front, back

\* A node of all the nodes that the running function holds.
LEMMA AllKids ==
    ASSUME ParserTypeOK, status = "running", NEW kind,
           \/ Top.at = "while.scope" /\ kind = "while"
           \/ Top.at = "if.pred" /\ kind = "if"
           \/ Top.at = "elif.pred" /\ kind = "elif"
           \/ Top.at = "scope.loop" /\ kind = "scope",
           NEW node, node = Node(kind, 0, Top.kids)
    PROVE  /\ node \in NodeSet /\ node.kind \in Returns(Function(Top.at))
           /\ Len(node.kids) \in KidCounts(node.kind)
           /\ \A i \in DOMAIN node.kids :
                 /\ node.kids[i] \in DOMAIN nodes
                 /\ nodes[node.kids[i]].kind \in KidKinds(node.kind, i)
<1>1. Top.kids \in Seq(Nat) /\ DOMAIN Top.kids = 1 .. Len(Top.kids) /\ Len(Top.kids) \in Nat
  BY TopFrame, LenProperties
<1>2. kind \in AllKinds
  BY DEF AllKinds, StmtKinds, IfPredKinds
<1>3. /\ node.kind = kind /\ node.kids = Top.kids
      /\ node \in NodeSet
  BY <1>1, <1>2 DEF Node, NodeSet
<1>4. kind \in Returns(Function(Top.at))
  <2>1. CASE Top.at = "while.scope" \/ Top.at = "if.pred"
    <3>1. Function(Top.at) = "stmt" /\ kind \in StmtKinds
      BY <2>1 DEF Function, StmtPlaces, PredPlaces, StmtKinds
    <3>2. QED
      BY <3>1 DEF Returns
  <2>2. CASE Top.at = "elif.pred"
    <3>1. Function(Top.at) = "pred" /\ kind \in IfPredKinds
      BY <2>2 DEF Function, StmtPlaces, PredPlaces, IfPredKinds
    <3>2. QED
      BY <3>1 DEF Returns
  <2>3. CASE Top.at = "scope.loop"
    <3>1. Function(Top.at) = "scope" /\ kind = "scope"
      BY <2>3 DEF Function, StmtPlaces, PredPlaces
    <3>2. QED
      BY <3>1 DEF Returns
  <2>4. QED
    BY <2>1, <2>2, <2>3
<1>5. /\ Top.at = "while.scope" => Len(Top.kids) = 2
      /\ Top.at \in {"if.pred", "elif.pred"} => Len(Top.kids) = 2 \/ Len(Top.kids) = 3
  <2>1. Top.at = "while.scope" => Complete(Top.at) = {2}
    BY DEF Complete, Held, Entries
  <2>2. Top.at \in {"if.pred", "elif.pred"} => Complete(Top.at) = {2, 3}
    BY DEF Complete, Held, Entries
  <2>3. QED
    BY <2>1, <2>2, TopFrame
<1>6. Len(Top.kids) \in KidCounts(kind)
  <2>1. /\ kind = "while" => KidCounts(kind) = {2}
        /\ kind \in {"if", "elif"} => KidCounts(kind) = {2, 3}
        /\ kind = "scope" => KidCounts(kind) = Nat
    BY DEF KidCounts, BinExprKinds
  <2>2. QED
    BY <1>1, <1>5, <2>1
<1>7. \A j \in 1 .. Len(Top.kids) : KindsAt(Top.at, j) \subseteq KidKinds(kind, j)
  <2> SUFFICES ASSUME NEW j \in 1 .. Len(Top.kids)
               PROVE  KindsAt(Top.at, j) \subseteq KidKinds(kind, j)
    OBVIOUS
  <2>1. CASE Top.at = "scope.loop"
    <3>1. KindsAt(Top.at, j) = StmtKinds
      BY <2>1 DEF KindsAt, Callee, Returns
    <3>2. KidKinds(kind, j) = StmtKinds
      BY <2>1 DEF KidKinds, BinExprKinds
    <3>3. QED
      BY <3>1, <3>2
  <2>2. CASE Top.at # "scope.loop"
    <3>1. kind \in {"if", "elif", "while"} /\ j \in 1 .. 3 /\ (Top.at = "while.scope" => j \in 1 .. 2)
      <4>1. CASE Len(Top.kids) = 2
        BY <4>1, <2>2
      <4>2. CASE Len(Top.kids) = 3 /\ Top.at # "while.scope"
        BY <4>2, <2>2
      <4>3. QED
        BY <4>1, <4>2, <1>5, <2>2
    <3>2. KidKinds(kind, j) = IF j = 1 THEN ExprKinds ELSE IF j = 2 THEN {"scope"} ELSE IfPredKinds
      BY <3>1 DEF KidKinds, BinExprKinds
    <3>3. KindsAt(Top.at, j) = IF j = 1 THEN TermKinds ELSE IF j = 2 THEN {"scope"} ELSE IfPredKinds
      <4>1. j < 3 => KindsAt(Top.at, j) = IF j = 1 THEN TermKinds ELSE {"scope"}
        BY <2>2, <3>1 DEF KindsAt
      <4>2. j = 3 => KindsAt(Top.at, j) = IfPredKinds
        <5>1. j = 3 => Top.at \in {"if.pred", "elif.pred"}
          BY <2>2, <3>1
        <5>2. Top.at \in {"if.pred", "elif.pred"} => Callee(Top.at) = "pred"
          BY DEF Callee
        <5>3. j = 3 => KindsAt(Top.at, j) = Returns(Callee(Top.at))
          BY DEF KindsAt
        <5>4. \A f : f = "pred" => Returns(f) = IfPredKinds
          BY DEF Returns
        <5>5. QED
          BY <5>1, <5>2, <5>3, <5>4
      <4>3. QED
        BY <3>1, <4>1, <4>2
    <3>4. QED
      BY <3>2, <3>3 DEF ExprKinds
  <2>3. QED
    BY <2>1, <2>2
<1>8. QED
  BY <1>1, <1>3, <1>4, <1>6, <1>7, TopFrame

LEMMA WhileEndStep ==
    ASSUME ParserTypeOK, status = "running", WhileEnd PROVE ParserTypeOK'
<1> DEFINE node == Node("while", 0, Top.kids)
<1>1. Top.at = "while.scope" /\ Top.at # "parse" /\ UNCHANGED mIndex
      /\ Return(Node("while", 0, <<Top.kids[1], Top.kids[2]>>))
  BY DEF WhileEnd, At, StmtWhileNode
<1>2. Top.kids = <<Top.kids[1], Top.kids[2]>>
  <2>1. Held(Top.at) = 1 /\ Top.at \notin Entries \cup {"parse", "scope.loop", "if.pred", "elif.pred"}
    BY <1>1 DEF Held, Entries
  <2>2. Len(Top.kids) = 2 /\ Top.kids \in Seq(Nat)
    BY <2>1, HeldKids, TopFrame
  <2>3. QED
    BY <2>2
<1>3. /\ node \in NodeSet /\ node.kind \in Returns(Function(Top.at))
      /\ Len(node.kids) \in KidCounts(node.kind)
      /\ \A i \in DOMAIN node.kids : /\ node.kids[i] \in DOMAIN nodes
                                     /\ nodes[node.kids[i]].kind \in KidKinds(node.kind, i)
  BY <1>1, AllKids
<1>4. Return(node)
  BY <1>1, <1>2
<1> HIDE DEF node
<1>5. mIndex' \in mIndex .. Len(tokens)
  BY <1>1, LenProperties DEF ParserTypeOK
<1>6. QED
  BY <1>1, <1>3, <1>4, <1>5, ReturnStep

\* The ends of an if and of an elif.
LEMMA PredicateEndStep ==
    ASSUME ParserTypeOK, status = "running", UNCHANGED mIndex, NEW kind,
           \/ Top.at = "if.pred" /\ kind = "if"
           \/ Top.at = "elif.pred" /\ kind = "elif",
           Return(Node(kind, 0, <<Top.kids[1], Top.kids[2]>> \o SubSeq(Top.kids, 3, Len(Top.kids))))
    PROVE  ParserTypeOK'
<1> DEFINE node == Node(kind, 0, Top.kids)
<1>1. Complete(Top.at) = {2, 3}
  BY DEF Complete, Held, Entries
<1>2. (Len(Top.kids) = 2 \/ Len(Top.kids) = 3) /\ Top.kids \in Seq(Nat) /\ Top.at # "parse"
  BY <1>1, TopFrame
<1>3. Return(node)
  BY <1>2, Rebuilt
<1>4. /\ node \in NodeSet /\ node.kind \in Returns(Function(Top.at))
      /\ Len(node.kids) \in KidCounts(node.kind)
      /\ \A i \in DOMAIN node.kids : /\ node.kids[i] \in DOMAIN nodes
                                     /\ nodes[node.kids[i]].kind \in KidKinds(node.kind, i)
  BY AllKids
<1> HIDE DEF node
<1>5. mIndex' \in mIndex .. Len(tokens)
  BY LenProperties DEF ParserTypeOK
<1>6. QED
  BY <1>2, <1>3, <1>4, <1>5, ReturnStep

LEMMA TermStep ==
    ASSUME ParserTypeOK, status = "running", Term PROVE ParserTypeOK'
<1> DEFINE node == Node("ident", mIndex + 1, << >>)
<1>1. Top.at = "term" /\ Top.at # "parse" /\ mIndex \in Nat /\ mIndex <= Len(tokens)
  BY LenProperties DEF Term, At, ParserTypeOK
<1>2. mIndex' = IF Ahead(1) = NoToken THEN mIndex ELSE mIndex + 1
  BY DEF Term
<1>3. mIndex' \in mIndex .. Len(tokens)
  <2>1. Ahead(1) # NoToken => mIndex + 1 \in mIndex .. Len(tokens)
    BY Present
  <2>2. mIndex \in mIndex .. Len(tokens)
    BY <1>1, LenProperties DEF ParserTypeOK
  <2>3. QED
    BY <1>2, <2>1, <2>2
<1>4. CASE Return(node)
  <2>1. node.kind \in Returns(Function(Top.at))
    <3>1. Function(Top.at) = "term"
      BY <1>1 DEF Function, StmtPlaces, PredPlaces
    <3>2. \A f : f = "term" => Returns(f) = TermKinds
      BY DEF Returns
    <3>3. node.kind = "ident"
      BY DEF Node
    <3>4. QED
      BY <3>1, <3>2, <3>3 DEF TermKinds
  <2>2. Len(node.kids) = 0 /\ DOMAIN node.kids = {} /\ node \in NodeSet
    BY <1>1, EmptySeq DEF Node, NodeSet, AllKinds, ExprKinds, TermKinds
  <2>3. Len(node.kids) \in KidCounts(node.kind)
    <3>1. \A kind : kind = "ident" => KidCounts(kind) = {0}
      BY DEF KidCounts, BinExprKinds
    <3>2. node.kind = "ident"
      BY DEF Node
    <3>3. QED
      BY <2>2, <3>1, <3>2
  <2> HIDE DEF node
  <2>4. QED
    BY <1>1, <1>3, <1>4, <2>1, <2>2, <2>3, ReturnStep
<1>5. CASE Ahead(1) = "LEFT_PAREN" /\ Call("paren", "expr")
  <2>1. mIndex' = mIndex + 1 /\ mIndex' <= Len(tokens)
    BY <1>1, <1>2, <1>3, <1>5, LenProperties DEF NoToken, ParserTypeOK
  <2>2. /\ "paren" \in Places /\ "expr" \in Entries /\ "paren" # "parse"
        /\ Function("paren") = Top.at /\ Callee("paren") = "expr" /\ Held("paren") = 0
        /\ Top.at \in Entries
    BY <1>1, FirstPlaces
  <2>3. Taken("paren") <= 1
    BY <2>2, Numbers
  <2>4. Slack(Top.at) + 1 <= 2 * 1 + Slack("expr")
    <3>1. \A f : (f = "term" => Slack(f) = 2) /\ (f = "expr" => Slack(f) = 1)
      BY DEF Slack
    <3>2. QED
      BY <1>1, <3>1
  <2>5. QED
    BY <1>5, <2>1, <2>2, <2>3, <2>4, FirstCallStep
<1>6. CASE Fail("term")
  BY <1>3, <1>6, FailStep
<1>7. QED
  BY <1>4, <1>5, <1>6 DEF Term, TermIdentNode

LEMMA ScopeLoopStep ==
    ASSUME ParserTypeOK, status = "running", ScopeLoop PROVE ParserTypeOK'
<1>1. Top.at = "scope.loop" /\ Top.at # "parse"
  BY DEF ScopeLoop, At
<1>2. CASE UNCHANGED mIndex /\ Call("scope.loop", "stmt")
  <2>1. /\ "scope.loop" \in Places /\ "stmt" \in Entries /\ Callee("scope.loop") = "stmt"
        /\ \A j \in Nat : KindsAt("scope.loop", j) = KindsAt(Top.at, j)
    <3>1. \A p : p = "scope.loop" => Callee(p) = "stmt"
      BY DEF Callee
    <3>2. QED
      BY <1>1, <3>1 DEF Places, Entries
  <2>2. \A j \in DOMAIN Top.kids : nodes[Top.kids[j]].kind \in KindsAt("scope.loop", j)
    BY <1>1, TopFrame
  <2>3. mIndex' \in mIndex .. Len(tokens) /\ mIndex' = mIndex /\ mIndex \in Nat
    BY <1>2, LenProperties DEF ParserTypeOK
  <2>4. Taken(Top.at) = 1 /\ Slack(Function(Top.at)) = 3
    <3>1. Function(Top.at) = "scope"
      BY <1>1 DEF Function, StmtPlaces, PredPlaces
    <3>2. \A f : f = "scope" => Slack(f) = 3
      BY DEF Slack
    <3>3. Taken(Top.at) = 1
      BY <1>1 DEF Taken, Entries
    <3>4. QED
      BY <3>1, <3>2, <3>3
  <2>5. Slack("stmt") = 2
    <3>1. \A f : f = "stmt" => Slack(f) = 2
      BY DEF Slack
    <3>2. QED
      BY <3>1
  <2>6. Top.start + Taken("scope.loop") <= mIndex'
    BY <1>1, <2>3, TopFrame
  <2>7. 2 * Top.start + Slack(Function("scope.loop")) + 1 <= 2 * mIndex' + Slack("stmt")
    <3>1. Top.start \in Nat /\ Top.start + 1 <= mIndex
      BY <2>4, TopFrame
    <3>2. 2 * Top.start + 3 + 1 <= 2 * mIndex + 2
      BY <2>3, <3>1
    <3>3. QED
      BY <1>1, <2>3, <2>4, <2>5, <3>2
  <2>8. Function("scope.loop") = Function(Top.at)
    BY <1>1
  <2>9. QED
    BY <1>1, <1>2, <2>1, <2>2, <2>3, <2>6, <2>7, <2>8, CallStep
<1>3. CASE TryConsume(<<"RIGHT_CURLY">>, Return(ScopeNode(Top.kids)))
  <2> DEFINE node == Node("scope", 0, Top.kids)
  <2>1. TryConsume(<<"RIGHT_CURLY">>, Return(node))
    BY <1>3 DEF ScopeNode
  <2>2. /\ node \in NodeSet /\ node.kind \in Returns(Function(Top.at))
        /\ Len(node.kids) \in KidCounts(node.kind)
        /\ \A i \in DOMAIN node.kids : /\ node.kids[i] \in DOMAIN nodes
                                       /\ nodes[node.kids[i]].kind \in KidKinds(node.kind, i)
    BY <1>1, AllKids
  <2> HIDE DEF node
  <2>3. /\ <<"RIGHT_CURLY">> \in Seq({"RIGHT_CURLY"}) /\ <<"RIGHT_CURLY">> # << >>
        /\ NoToken \notin {"RIGHT_CURLY"}
    BY DEF NoToken
  <2>4. \/ Matches(<<"RIGHT_CURLY">>) /\ mIndex' = mIndex + Len(<<"RIGHT_CURLY">>) /\ Return(node)
        \/ Mismatch(<<"RIGHT_CURLY">>)
    BY <2>1 DEF TryConsume
  <2>5. QED
    BY <1>1, <2>2, <2>3, <2>4, ConsumeReturnStep
<1>4. QED
  BY <1>2, <1>3 DEF ScopeLoop

\* parseScope() takes its brace and comes to the loop.
LEMMA ScopeStep ==
    ASSUME ParserTypeOK, status = "running", Scope PROVE ParserTypeOK'
<1> DEFINE n == Len(calls)
           f == [Top EXCEPT !.at = "scope.loop"]
<1>1. Top.at = "scope"
  BY DEF Scope, At
<1>2. <<"LEFT_CURLY">> \in Seq({"LEFT_CURLY"}) /\ <<"LEFT_CURLY">> # << >>
      /\ Len(<<"LEFT_CURLY">>) = 1 /\ NoToken \notin {"LEFT_CURLY"}
  BY DEF NoToken
<1>3. CASE Mismatch(<<"LEFT_CURLY">>)
  BY <1>2, <1>3, MismatchStep
<1>4. CASE /\ Matches(<<"LEFT_CURLY">>) /\ mIndex' = mIndex + Len(<<"LEFT_CURLY">>)
           /\ calls' = [calls EXCEPT ![n].at = "scope.loop"]
           /\ UNCHANGED <<tokens, status, error, nodes, mProg>>
  <2>1. mIndex' = mIndex + 1 /\ mIndex' \in mIndex .. Len(tokens) /\ mIndex \in Nat
    <3>1. mIndex + Len(<<"LEFT_CURLY">>) \in mIndex .. Len(tokens)
      BY <1>2, <1>4, MatchBound
    <3>2. mIndex \in Nat
      BY DEF ParserTypeOK
    <3>3. QED
      BY <1>2, <1>4, <3>1, <3>2
  <2>2. /\ n \in Nat \ {0} /\ n # 1 /\ n \in 1 .. Len(calls) /\ calls \in Seq(Frames)
        /\ Top \in Frames /\ Top.start \in Nat /\ Top.start <= mIndex
        /\ Len(Top.kids) = 0 /\ DOMAIN Top.kids = {}
    <3>1. Top.at \in Entries
      BY <1>1 DEF Entries
    <3>2. Complete(Top.at) = {0} /\ Taken(Top.at) = 0 /\ Top.at # "parse" /\ Top.at # "scope.loop"
      BY <3>1, EntryFacts
    <3>3. Top.start \in Nat /\ Top.start + 0 <= mIndex
      BY <3>2, TopFrame
    <3>4. Top.start <= mIndex
      BY <2>1, <3>3
    <3>5. Len(Top.kids) = 0 /\ DOMAIN Top.kids = {}
      BY <3>2, TopFrame, LenProperties
    <3>6. QED
      BY <3>2, <3>3, <3>4, <3>5, TopFrame, LenProperties
  <2>3. f \in Frames /\ f.at = "scope.loop" /\ f.kids = Top.kids /\ f.start = Top.start
    BY <2>2 DEF Frames, Places
  <2>4. calls' = [calls EXCEPT ![n] = f]
    BY <1>4 DEF Top
  <2> HIDE DEF f
  <2>5. /\ calls' \in Seq(Frames)
        /\ Len(calls') = n
        /\ \A j \in 1 .. n : calls'[j] = IF j = n THEN f ELSE calls[j]
    <3>1. /\ [calls EXCEPT ![n] = f] \in Seq(Frames)
          /\ Len([calls EXCEPT ![n] = f]) = Len(calls)
          /\ \A j \in 1 .. Len(calls) : [calls EXCEPT ![n] = f][j] = IF j = n THEN f ELSE calls[j]
      BY <2>2, <2>3, ExceptSeq
    <3>2. QED
      BY <2>4, <3>1
  <2> HIDE DEF n
  <2>6. Len(calls) = n
    BY DEF n
  <2>7. Function(f.at) = "scope" /\ Function(Top.at) = "scope"
    <3>1. \A p : p \in {"scope", "scope.loop"} => Function(p) = "scope"
      BY DEF Function, StmtPlaces, PredPlaces
    <3>2. QED
      BY <1>1, <2>3, <3>1
  <2>8. ASSUME NEW i \in 1 .. n - 1 PROVE FrameOK(i)'
    <3>1. i \in 1 .. n /\ i < n /\ i + 1 \in 1 .. n
      BY <2>2
    <3>2. FrameOK(i) /\ i < Len(calls) /\ i < Len(calls') /\ calls'[i] = calls[i]
      <4>1. i \in DOMAIN calls
        BY <2>2, <2>6, <3>1, LenProperties
      <4>2. QED
        <5>1. FrameOK(i)
          BY <4>1 DEF ParserTypeOK
        <5>2. i # n
          BY <2>2, <3>1
        <5>3. QED
          BY <2>5, <2>6, <3>1, <5>1, <5>2
    <3>3. /\ Function(calls'[i + 1].at) = Function(calls[i + 1].at)
          /\ calls'[i + 1].at \in Places
          /\ calls'[i + 1].start = calls[i + 1].start
      <4>1. CASE i + 1 = n
        BY <4>1, <2>3, <2>5, <2>6, <2>7, <3>1 DEF Top, Frames
      <4>2. CASE i + 1 # n
        BY <4>2, <2>5, <3>1, <3>2 DEF FrameOK
      <4>3. QED
        BY <4>1, <4>2
    <3>4. QED
      BY <1>4, <3>2, <3>3 DEF FrameOK
  <2>9. ASSUME NEW i \in Nat, i = n PROVE FrameOK(i)'
    <3>1. ~(i < Len(calls')) /\ calls'[i] = f
      BY <2>2, <2>5, <2>9
    <3>2. i <= 2 * f.start + Slack(Function(f.at))
      BY <2>3, <2>6, <2>7, <2>9, TopFrame
    <3>3. Taken(f.at) = 1
      BY <2>3 DEF Taken, Entries
    <3>4. f.start + Taken(f.at) <= mIndex'
      BY <2>1, <2>2, <2>3, <3>3
    <3>5. f.at # "parse" /\ i # 1
      BY <2>2, <2>3, <2>9
    <3>6. DOMAIN f.kids = {} /\ f.at = "scope.loop"
      BY <2>2, <2>3
    <3>7. QED
      BY <3>1, <3>2, <3>4, <3>5, <3>6 DEF FrameOK
  <2>10. \A i \in DOMAIN calls' : FrameOK(i)'
    <3> SUFFICES ASSUME NEW i \in DOMAIN calls' PROVE FrameOK(i)'
      OBVIOUS
    <3>1. i \in 1 .. n - 1 \/ (i \in Nat /\ i = n)
      BY <2>2, <2>5, LenProperties
    <3>2. QED
      BY <3>1, <2>8, <2>9
  <2>11. WellFormedAst'
    BY <1>4 DEF ParserTypeOK, WellFormedAst, WellFormedNode
  <2>12. calls' # << >> /\ mIndex' \in 0 .. Len(tokens')
    BY <1>4, <2>1, <2>2, <2>5, LenProperties DEF ParserTypeOK
  <2>13. QED
    BY <1>4, <2>5, <2>10, <2>11, <2>12 DEF ParserTypeOK
<1>5. QED
  BY <1>3, <1>4 DEF Scope, TryConsume

-----------------------------------------------------------------------------
(* The theorems                                                             *)

LEMMA ParserInitOK == ParserInit => ParserTypeOK
<1> SUFFICES ASSUME ParserInit PROVE ParserTypeOK
  OBVIOUS
<1>1. tokens \in Seq(STRING) /\ mIndex = 0 /\ Len(tokens) \in Nat
  BY TokenAssumption, LenProperties DEF ParserInit
<1>2. /\ Frame("parse", 0) \in Frames /\ Frame("parse", 0).at = "parse"
      /\ Frame("parse", 0).kids = << >> /\ Frame("parse", 0).start = 0
  BY EmptySeq DEF Frame, Frames, Places
<1>3. /\ calls = <<Frame("parse", 0)>> /\ calls \in Seq(Frames) /\ Len(calls) = 1
      /\ DOMAIN calls = {1} /\ calls[1] = Frame("parse", 0) /\ calls # << >>
  BY <1>2 DEF ParserInit
<1>4. FrameOK(1)
  <2>1. Callee("parse") = "stmt" /\ Taken("parse") = 0 /\ Held("parse") = 0
        /\ Slack(Function("parse")) = 1
    BY ProgramFacts
  <2>2. 0 \in Complete("parse")
    <3>1. \A p : p = "parse" => Complete(p) = {Held(p), Held(p) + 1}
      BY DEF Complete, Entries
    <3>2. QED
      BY <2>1, <3>1
  <2>3. Len(calls[1].kids) = 0 /\ DOMAIN calls[1].kids = {}
    BY <1>2, <1>3
  <2>4. QED
    BY <1>1, <1>2, <1>3, <2>1, <2>2, <2>3 DEF FrameOK
<1>5. nodes = << >> /\ mProg = << >> /\ status = "running"
  BY DEF ParserInit
<1>6. WellFormedAst
  BY <1>5 DEF WellFormedAst
<1>7. QED
  BY <1>1, <1>3, <1>4, <1>5, <1>6, EmptySeq DEF ParserTypeOK

LEMMA ParserStepOK ==
    ASSUME ParserTypeOK, status = "running", ParserStep PROVE ParserTypeOK'
<1>1. CASE ParseLoop
  BY <1>1, ParseLoopStep
<1>2. CASE ParseStatement
  <2>1. CASE IfScope
    BY <2>1, NextCallStep DEF IfScope, At
  <2>2. CASE IfPredicate
    BY <2>2, NextCallStep DEF IfPredicate, At
  <2>3. CASE WhileScope
    BY <2>3, NextCallStep DEF WhileScope, At
  <2>4. CASE IfEnd
    <3>1. Top.at = "if.pred" /\ UNCHANGED mIndex
      BY <2>4 DEF IfEnd, At
    <3>2. Return(Node("if", 0, <<Top.kids[1], Top.kids[2]>> \o SubSeq(Top.kids, 3, Len(Top.kids))))
      BY <2>4 DEF IfEnd, StmtIfNode
    <3>3. QED
      BY <3>1, <3>2, PredicateEndStep
  <2>5. QED
    BY <1>2, <2>1, <2>2, <2>3, <2>4, StatementStep, ExitEndStep, AssignEndStep, WhileEndStep,
       BlockEndStep DEF ParseStatement
<1>3. CASE ParseExpression
  BY <1>3, ExpressionStep, ExpressionEndStep DEF ParseExpression
<1>4. CASE ParseScope
  BY <1>4, ScopeStep, ScopeLoopStep DEF ParseScope
<1>5. CASE ParseIfPred
  <2>1. CASE ElifScope
    BY <2>1, NextCallStep DEF ElifScope, At
  <2>2. CASE ElifPredicate
    BY <2>2, NextCallStep DEF ElifPredicate, At
  <2>3. CASE ElifEnd
    <3>1. Top.at = "elif.pred" /\ UNCHANGED mIndex
      BY <2>3 DEF ElifEnd, At
    <3>2. Return(Node("elif", 0, <<Top.kids[1], Top.kids[2]>> \o SubSeq(Top.kids, 3, Len(Top.kids))))
      BY <2>3 DEF ElifEnd, IfPredElifNode
    <3>3. QED
      BY <3>1, <3>2, PredicateEndStep
  <2>4. QED
    BY <1>5, <2>1, <2>2, <2>3, IfPredStep, ElseEndStep DEF ParseIfPred
<1>6. CASE ParseTerm
  BY <1>6, TermStep, ParenEndStep DEF ParseTerm
<1>7. QED
  BY <1>1, <1>2, <1>3, <1>4, <1>5, <1>6 DEF ParserStep

LEMMA ParserRuns == ParserStep => status = "running"
  BY DEF ParserStep, ParseLoop, ParseStatement, ParseExpression, ParseScope, ParseIfPred, ParseTerm,
         Statement, ExitEnd, AssignEnd, IfScope, IfPredicate, IfEnd, WhileScope, WhileEnd, BlockEnd,
         Expression, ExpressionEnd, Scope, ScopeLoop, IfPred, ElifScope, ElifPredicate, ElifEnd,
         ElseEnd, Term, ParenEnd, At

\* Whatever tokens the lexer delivers, every function of the parser is called
\* from where the caller's code waits for it, and returns nodes of the types the
\* constructors in ast.hpp take; the heap is always a forest they admit.
THEOREM ParserTypeTheorem == ParserSpec => []ParserTypeOK
<1>1. ASSUME ParserTypeOK, [ParserNext]_pvars PROVE ParserTypeOK'
  <2>1. CASE ParserStep
    BY <1>1, <2>1, ParserStepOK, ParserRuns
  <2>2. CASE UNCHANGED pvars
    BY <1>1, <2>2 DEF pvars, ParserTypeOK, FrameOK, WellFormedAst, WellFormedNode
  <2>3. QED
    BY <1>1, <2>1, <2>2 DEF ParserNext, ParserStopped
<1>2. QED
  BY ParserInitOK, <1>1, PTL DEF ParserSpec

LEMMA ParserTypeOKBoundsDepth == ParserTypeOK => DepthBounded
<1> SUFFICES ASSUME ParserTypeOK PROVE DepthBounded
  OBVIOUS
<1>1. calls \in Seq(Frames) /\ mIndex \in Nat
  BY DEF ParserTypeOK
<1>2. CASE calls = << >>
  BY <1>1, <1>2 DEF DepthBounded
<1>3. CASE calls # << >>
  <2>1. Len(calls) \in Nat \ {0} /\ Len(calls) \in DOMAIN calls
    BY <1>1, <1>3, EmptySeq, LenProperties
  <2>2. FrameOK(Len(calls)) /\ Top \in Frames
    BY <1>1, <2>1, ElementOfSeq DEF Top, ParserTypeOK
  <2>3. /\ Top.start + Taken(Top.at) <= mIndex /\ Top.start \in Nat
        /\ Len(calls) <= 2 * Top.start + Slack(Function(Top.at))
    BY <2>1, <2>2 DEF Top, FrameOK, Frames
  <2>4. Slack(Function(Top.at)) \in 1 .. 3 /\ Taken(Top.at) \in 0 .. 1
    BY <2>2, Numbers DEF Frames
  <2>5. Len(calls) <= 2 * mIndex + 3
    BY <1>1, <2>1, <2>3, <2>4
  <2>6. QED
    BY <2>5 DEF DepthBounded
<1>4. QED
  BY <1>2, <1>3

\* For every token sequence, the recursion that nothing in the code limits
\* (parser.cpp:402, 481) is no deeper than twice the tokens consumed, and three.
THEOREM DepthTheorem == ParserSpec => []DepthBounded
  BY ParserTypeTheorem, ParserTypeOKBoundsDepth, PTL
=============================================================================
