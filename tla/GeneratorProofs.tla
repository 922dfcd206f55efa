--------------------------- MODULE GeneratorProofs ---------------------------
(***************************************************************************)
(* Proofs about Generator, for every set of trees: its types, that scopes  *)
(* nest, and that labels are defined once and jumps land.                  *)
(*                                                                         *)
(* An action is one of three shapes: the running function calls another    *)
(* (Descend), hands its frame over (TakeOver), or returns (Leave); and it  *)
(* writes some code, of which only its labels and its jumps matter.        *)
(***************************************************************************)
EXTENDS Generator, FiniteSetTheorems, SequenceTheorems, TLAPS

Lines == [op : Plain \cup Jumps \cup {"label"}, label : Nat, node : Nat]

\* Code defines the labels D, each once, and jumps to labels in T.
Shows(code, D, T) ==
    /\ code \in Seq(Lines)
    /\ \A k \in DOMAIN code : code[k].op = "label" => code[k].label \in D
    /\ \A d \in D : \E k \in DOMAIN code : code[k].op = "label" /\ code[k].label = d
    /\ \A j, k \in DOMAIN code :
          code[j].op = "label" /\ code[k].op = "label" /\ code[j].label = code[k].label => j = k
    /\ \A k \in DOMAIN code : code[k].op \in Jumps => code[k].label \in T

LEMMA OpLine ==
    ASSUME NEW op \in Plain, Walking.node \in Nat
    PROVE  Op(op) \in Lines /\ Op(op).op # "label" /\ Op(op).op \notin Jumps
<1>1. Op(op) \in Lines /\ Op(op).op = op
  BY DEF Op, Instr, Lines
<1>2. op # "label" /\ op \notin Jumps
  BY DEF Plain, Jumps
<1> QED
  BY <1>1, <1>2

LEMMA JumpLine ==
    ASSUME NEW op \in Jumps, NEW l \in Nat, Walking.node \in Nat
    PROVE  Jump(op, l) \in Lines /\ Jump(op, l).op # "label" /\ Jump(op, l).label = l
<1>1. Jump(op, l) \in Lines /\ Jump(op, l).op = op /\ Jump(op, l).label = l
  BY DEF Jump, Instr, Lines
<1>2. op # "label"
  BY DEF Jumps
<1> QED
  BY <1>1, <1>2

LEMMA LabelLine ==
    ASSUME NEW l \in Nat, Walking.node \in Nat
    PROVE  /\ Label(l) \in Lines /\ Label(l).op = "label" /\ Label(l).label = l
           /\ Label(l).op \notin Jumps
<1>1. Label(l) \in Lines /\ Label(l).op = "label" /\ Label(l).label = l
  BY DEF Label, Instr, Lines
<1>2. "label" \notin Jumps
  BY DEF Jumps
<1> QED
  BY <1>1, <1>2

LEMMA One ==
    ASSUME NEW S, NEW a \in S
    PROVE  <<a>> \in Seq(S) /\ DOMAIN <<a>> = {1} /\ <<a>>[1] = a
  OBVIOUS

\* Code of lines that are shown one by one.
LEMMA ConcatShows ==
    ASSUME NEW a, NEW b, NEW D, NEW E, NEW F, NEW T,
           Shows(a, D, T), Shows(b, E, T), D \cap E = {}, F = D \cup E
    PROVE  Shows(a \o b, F, T)
<1>1. /\ a \o b \in Seq(Lines) /\ Len(a \o b) = Len(a) + Len(b)
      /\ Len(a) \in Nat /\ Len(b) \in Nat
      /\ DOMAIN a = 1 .. Len(a) /\ DOMAIN b = 1 .. Len(b)
      /\ \A k \in 1 .. Len(a) + Len(b) : (a \o b)[k] = IF k <= Len(a) THEN a[k] ELSE b[k - Len(a)]
  <2>1. a \in Seq(Lines) /\ b \in Seq(Lines)
    BY DEF Shows
  <2>2. /\ a \o b \in Seq(Lines) /\ Len(a \o b) = Len(a) + Len(b)
        /\ \A k \in 1 .. Len(a) + Len(b) : (a \o b)[k] = IF k <= Len(a) THEN a[k] ELSE b[k - Len(a)]
    BY <2>1, ConcatProperties
  <2>3. /\ Len(a) \in Nat /\ Len(b) \in Nat
        /\ DOMAIN a = 1 .. Len(a) /\ DOMAIN b = 1 .. Len(b)
    BY <2>1, LenProperties
  <2>4. QED
    BY <2>2, <2>3
<1> DEFINE c == a \o b
<1>2. DOMAIN c = 1 .. Len(a) + Len(b)
  BY <1>1, LenProperties
<1> HIDE DEF c
<1>3. ASSUME NEW k \in DOMAIN c
      PROVE  \/ k \in DOMAIN a /\ c[k] = a[k]
             \/ k - Len(a) \in DOMAIN b /\ c[k] = b[k - Len(a)]
  <2>1. k \in 1 .. Len(a) + Len(b) /\ c[k] = IF k <= Len(a) THEN a[k] ELSE b[k - Len(a)]
    BY <1>1, <1>2 DEF c
  <2>2. CASE k <= Len(a)
    BY <1>1, <2>1, <2>2
  <2>3. CASE ~(k <= Len(a))
    <3>1. k - Len(a) \in 1 .. Len(b)
      BY <1>1, <2>1, <2>3
    <3>2. QED
      BY <1>1, <2>1, <2>3, <3>1
  <2>4. QED
    BY <2>2, <2>3
<1>4. \A k \in DOMAIN a : k \in DOMAIN c /\ c[k] = a[k]
  BY <1>1, <1>2 DEF c
<1>5. \A k \in DOMAIN b : k + Len(a) \in DOMAIN c /\ c[k + Len(a)] = b[k]
  BY <1>1, <1>2 DEF c
<1>6. \A k \in DOMAIN c : c[k].op = "label" => c[k].label \in F
  BY <1>3 DEF Shows
<1>7. \A d \in F : \E k \in DOMAIN c : c[k].op = "label" /\ c[k].label = d
  BY <1>4, <1>5 DEF Shows
<1>8. \A k \in DOMAIN c : c[k].op \in Jumps => c[k].label \in T
  BY <1>3 DEF Shows
<1>9. ASSUME NEW j \in DOMAIN c, NEW k \in DOMAIN c,
             c[j].op = "label", c[k].op = "label", c[j].label = c[k].label
      PROVE  j = k
  <2>1. j \in Int /\ k \in Int /\ Len(a) \in Int
    BY <1>1, <1>2
  <2>2. CASE j \in DOMAIN a /\ k \in DOMAIN a /\ c[j] = a[j] /\ c[k] = a[k]
    BY <1>9, <2>2 DEF Shows
  <2>3. CASE /\ j - Len(a) \in DOMAIN b /\ k - Len(a) \in DOMAIN b
             /\ c[j] = b[j - Len(a)] /\ c[k] = b[k - Len(a)]
    <3>1. j - Len(a) = k - Len(a)
      BY <1>9, <2>3 DEF Shows
    <3>2. QED
      BY <2>1, <3>1
  <2>4. ASSUME NEW x \in DOMAIN a, NEW y \in DOMAIN b, a[x].op = "label", b[y].op = "label"
        PROVE  a[x].label # b[y].label
    BY <2>4 DEF Shows
  <2>5. QED
    BY <1>3, <1>9, <2>2, <2>3, <2>4
<1> QED
  BY <1>1, <1>6, <1>7, <1>8, <1>9 DEF Shows, c

LEMMA OpShows ==
    ASSUME NEW op \in Plain, NEW T, Walking.node \in Nat
    PROVE  Shows(<<Op(op)>>, {}, T)
<1> DEFINE a == Op(op)
<1>1. a \in Lines /\ a.op # "label" /\ a.op \notin Jumps
  BY OpLine
<1> HIDE DEF a
<1>2. <<a>> \in Seq(Lines) /\ DOMAIN <<a>> = {1} /\ <<a>>[1] = a
  BY <1>1, One
<1>3. Shows(<<a>>, {}, T)
  BY <1>1, <1>2 DEF Shows
<1> QED
  BY <1>3 DEF a

LEMMA JumpShows ==
    ASSUME NEW op \in Jumps, NEW T, NEW l \in T, l \in Nat, Walking.node \in Nat
    PROVE  Shows(<<Jump(op, l)>>, {}, T)
<1> DEFINE a == Jump(op, l)
<1>1. a \in Lines /\ a.op # "label" /\ a.label = l
  BY JumpLine
<1> HIDE DEF a
<1>2. <<a>> \in Seq(Lines) /\ DOMAIN <<a>> = {1} /\ <<a>>[1] = a
  BY <1>1, One
<1>3. Shows(<<a>>, {}, T)
  BY <1>1, <1>2 DEF Shows
<1> QED
  BY <1>3 DEF a

LEMMA LabelShows ==
    ASSUME NEW l \in Nat, NEW T, Walking.node \in Nat
    PROVE  Shows(<<Label(l)>>, {l}, T)
<1> DEFINE a == Label(l)
<1>1. a \in Lines /\ a.op = "label" /\ a.label = l /\ a.op \notin Jumps
  BY LabelLine
<1> HIDE DEF a
<1>2. <<a>> \in Seq(Lines) /\ DOMAIN <<a>> = {1} /\ <<a>>[1] = a
  BY <1>1, One
<1>3. Shows(<<a>>, {l}, T)
  BY <1>1, <1>2 DEF Shows
<1> QED
  BY <1>3 DEF a

LEMMA EmptyShows ==
    ASSUME NEW T
    PROVE  Shows(<< >>, {}, T)
<1>1. << >> \in Seq(Lines) /\ DOMAIN << >> = {}
  BY EmptySeq
<1> QED
  BY <1>1 DEF Shows

\* Code is joined of its parts: <<a, b>> is <<a>> and <<b>>, and so on.
LEMMA Pair ==
    ASSUME NEW a \in Lines, NEW b \in Lines
    PROVE  <<a, b>> = <<a>> \o <<b>>
<1> DEFINE x == <<a>>
           y == <<b>>
           s == x \o y
           t == <<a, b>>
<1>1. /\ x \in Seq(Lines) /\ y \in Seq(Lines)
      /\ Len(x) = 1 /\ Len(y) = 1 /\ x[1] = a /\ y[1] = b
  OBVIOUS
<1>2. t \in Seq(Lines) /\ Len(t) = 2 /\ t[1] = a /\ t[2] = b
  OBVIOUS
<1> HIDE DEF x, y, t
<1>3. /\ s \in Seq(Lines) /\ Len(s) = Len(x) + Len(y)
      /\ \A i \in 1 .. Len(x) + Len(y) : s[i] = IF i <= Len(x) THEN x[i] ELSE y[i - Len(x)]
  BY <1>1, ConcatProperties
<1> HIDE DEF s
<1>4. Len(s) = 2 /\ s[1] = a /\ s[2] = b
  BY <1>1, <1>3
<1>5. \A i \in 1 .. Len(s) : s[i] = t[i]
  BY <1>2, <1>4
<1>6. s = t
  BY <1>2, <1>3, <1>4, <1>5, SeqEqual
<1> QED
  BY <1>6 DEF x, y, s, t

LEMMA TwoShow ==
    ASSUME NEW a \in Lines, NEW b \in Lines,
           NEW D, NEW E, NEW F, NEW T
    PROVE  Shows(<<a>>, D, T) /\ Shows(<<b>>, E, T) /\ D \cap E = {} /\ F = D \cup E
           => Shows(<<a, b>>, F, T)
<1>1. <<a, b>> = <<a>> \o <<b>>
  BY Pair
<1>2. Shows(<<a>>, D, T) /\ Shows(<<b>>, E, T) /\ D \cap E = {} /\ F = D \cup E
      => Shows(<<a>> \o <<b>>, F, T)
  BY ConcatShows
<1> QED
  BY <1>1, <1>2, Zenon

LEMMA ThreeShow ==
    ASSUME NEW a \in Lines, NEW b \in Lines, NEW c \in Lines,
           NEW D, NEW E, NEW F, NEW T
    PROVE  Shows(<<a, b>>, D, T) /\ Shows(<<c>>, E, T) /\ D \cap E = {} /\ F = D \cup E
           => Shows(<<a, b, c>>, F, T)
<1>1. <<a, b, c>> = <<a, b>> \o <<c>>
  OBVIOUS
<1>2. Shows(<<a, b>>, D, T) /\ Shows(<<c>>, E, T) /\ D \cap E = {} /\ F = D \cup E
      => Shows(<<a, b>> \o <<c>>, F, T)
  BY ConcatShows
<1> QED
  BY <1>1, <1>2, Zenon

LEMMA FourShow ==
    ASSUME NEW a \in Lines, NEW b \in Lines, NEW c \in Lines, NEW d \in Lines,
           NEW D, NEW E, NEW F, NEW T
    PROVE  Shows(<<a, b>>, D, T) /\ Shows(<<c, d>>, E, T) /\ D \cap E = {} /\ F = D \cup E
           => Shows(<<a, b, c, d>>, F, T)
<1>1. <<a, b, c, d>> = <<a, b>> \o <<c, d>>
  OBVIOUS
<1>2. Shows(<<a, b>>, D, T) /\ Shows(<<c, d>>, E, T) /\ D \cap E = {} /\ F = D \cup E
      => Shows(<<a, b>> \o <<c, d>>, F, T)
  BY ConcatShows
<1> QED
  BY <1>1, <1>2, Zenon

LEMMA FiveShow ==
    ASSUME NEW a \in Lines, NEW b \in Lines, NEW c \in Lines, NEW d \in Lines, NEW e \in Lines,
           NEW D, NEW E, NEW F, NEW T
    PROVE  Shows(<<a, b>>, D, T) /\ Shows(<<c, d, e>>, E, T) /\ D \cap E = {} /\ F = D \cup E
           => Shows(<<a, b, c, d, e>>, F, T)
<1>1. <<a, b, c, d, e>> = <<a, b>> \o <<c, d, e>>
  OBVIOUS
<1>2. Shows(<<a, b>>, D, T) /\ Shows(<<c, d, e>>, E, T) /\ D \cap E = {} /\ F = D \cup E
      => Shows(<<a, b>> \o <<c, d, e>>, F, T)
  BY ConcatShows
<1> QED
  BY <1>1, <1>2, Zenon

LEMMA EightShow ==
    ASSUME NEW a \in Lines, NEW b \in Lines, NEW c \in Lines, NEW d \in Lines, NEW e \in Lines,
           NEW f \in Lines, NEW g \in Lines, NEW h \in Lines,
           NEW D, NEW E, NEW F, NEW T
    PROVE  Shows(<<a, b, c, d>>, D, T) /\ Shows(<<e, f, g, h>>, E, T) /\ D \cap E = {} /\ F = D \cup E
           => Shows(<<a, b, c, d, e, f, g, h>>, F, T)
<1>1. <<a, b, c, d, e, f, g, h>> = <<a, b, c, d>> \o <<e, f, g, h>>
  OBVIOUS
<1>2. Shows(<<a, b, c, d>>, D, T) /\ Shows(<<e, f, g, h>>, E, T) /\ D \cap E = {} /\ F = D \cup E
      => Shows(<<a, b, c, d>> \o <<e, f, g, h>>, F, T)
  BY ConcatShows
<1> QED
  BY <1>1, <1>2, Zenon

LEMMA ThirteenShow ==
    ASSUME NEW a \in Lines, NEW b \in Lines, NEW c \in Lines, NEW d \in Lines, NEW e \in Lines,
           NEW f \in Lines, NEW g \in Lines, NEW h \in Lines, NEW i \in Lines, NEW j \in Lines,
           NEW k \in Lines, NEW l \in Lines, NEW m \in Lines,
           NEW D, NEW E, NEW F, NEW T
    PROVE  Shows(<<a, b, c, d, e, f, g, h>>, D, T) /\ Shows(<<i, j, k, l, m>>, E, T) /\ D \cap E = {} /\ F = D \cup E
           => Shows(<<a, b, c, d, e, f, g, h, i, j, k, l, m>>, F, T)
<1>1. <<a, b, c, d, e, f, g, h, i, j, k, l, m>> = <<a, b, c, d, e, f, g, h>> \o <<i, j, k, l, m>>
  OBVIOUS
<1>2. Shows(<<a, b, c, d, e, f, g, h>>, D, T) /\ Shows(<<i, j, k, l, m>>, E, T) /\ D \cap E = {} /\ F = D \cup E
      => Shows(<<a, b, c, d, e, f, g, h>> \o <<i, j, k, l, m>>, F, T)
  BY ConcatShows
<1> QED
  BY <1>1, <1>2, Zenon

-----------------------------------------------------------------------------
(* The code of each action.                                                 *)

LEMMA PlainOps ==
    /\ "_start:" \in Plain /\ ";; scope" \in Plain /\ ";; /scope" \in Plain
    /\ "mov rax, 60" \in Plain /\ "pop rdi" \in Plain /\ "syscall" \in Plain
    /\ "pop rax" \in Plain /\ "pop rbx" \in Plain /\ "pop rcx" \in Plain
    /\ "test rax, rax" \in Plain /\ "mov rbx, rax" \in Plain /\ "sub rcx, 1" \in Plain
    /\ "mul rbx" \in Plain /\ "div rbx" \in Plain /\ "add rax, rbx" \in Plain
    /\ "sub rax, rbx" \in Plain /\ "cmp rax, rbx" \in Plain /\ "mov rax, 0" \in Plain
    /\ "mov rax, 1" \in Plain /\ "push rax" \in Plain /\ "push rdx" \in Plain
    /\ "add rsp" \in Plain
  BY DEF Plain

LEMMA JumpOps ==
    /\ "jmp" \in Jumps /\ "jz" \in Jumps /\ "jc" \in Jumps /\ "jl" \in Jumps /\ "jg" \in Jumps
  BY DEF Jumps

LEMMA Unions ==
    ASSUME NEW D, NEW E
    PROVE  /\ {} \cap D = {} /\ D \cap {} = {} /\ D = {} \cup D /\ D = D \cup {}
  OBVIOUS

LEMMA ExitShows ==
    ASSUME Walking.node \in Nat, NEW T
    PROVE  Shows(<<Op("mov rax, 60"), Op("pop rdi"), Op("syscall")>>, {}, T)
<1>1. /\ Op("mov rax, 60") \in Lines /\ Op("pop rdi") \in Lines /\ Op("syscall") \in Lines
      /\ Shows(<<Op("mov rax, 60")>>, {}, T) /\ Shows(<<Op("pop rdi")>>, {}, T)
      /\ Shows(<<Op("syscall")>>, {}, T)
  BY PlainOps, OpLine, OpShows
<1>2. Shows(<<Op("mov rax, 60"), Op("pop rdi")>>, {}, T)
  BY <1>1, TwoShow, Unions
<1> QED
  BY <1>1, <1>2, ThreeShow, Unions

LEMMA TestShows ==
    ASSUME Walking.node \in Nat, NEW T, NEW l \in T, l \in Nat
    PROVE  Shows(<<Op("pop rax"), Op("test rax, rax"), Jump("jz", l)>>, {}, T)
<1>1. /\ Op("pop rax") \in Lines /\ Op("test rax, rax") \in Lines /\ Jump("jz", l) \in Lines
      /\ Shows(<<Op("pop rax")>>, {}, T) /\ Shows(<<Op("test rax, rax")>>, {}, T)
      /\ Shows(<<Jump("jz", l)>>, {}, T)
  BY PlainOps, JumpOps, OpLine, OpShows, JumpLine, JumpShows
<1>2. Shows(<<Op("pop rax"), Op("test rax, rax")>>, {}, T)
  BY <1>1, TwoShow, Unions
<1> QED
  BY <1>1, <1>2, ThreeShow, Unions

LEMMA JumpLabelShows ==
    ASSUME Walking.node \in Nat, NEW T, NEW j \in T, j \in Nat, NEW l \in Nat
    PROVE  Shows(<<Jump("jmp", j), Label(l)>>, {l}, T)
<1>1. /\ Jump("jmp", j) \in Lines /\ Label(l) \in Lines
      /\ Shows(<<Jump("jmp", j)>>, {}, T) /\ Shows(<<Label(l)>>, {l}, T)
  BY JumpOps, JumpLine, JumpShows, LabelLine, LabelShows
<1> QED
  BY <1>1, TwoShow, Unions

LEMMA OperandsShow ==
    ASSUME Walking.node \in Nat, NEW T
    PROVE  Shows(Operands, {}, T)
<1>1. /\ Op("pop rax") \in Lines /\ Op("pop rbx") \in Lines
      /\ Shows(<<Op("pop rax")>>, {}, T) /\ Shows(<<Op("pop rbx")>>, {}, T)
  BY PlainOps, OpLine, OpShows
<1> QED
  BY <1>1, TwoShow, Unions DEF Operands

LEMMA ArithmeticShows ==
    ASSUME Walking.node \in Nat, NEW T, NEW x \in Plain, NEW y \in Plain
    PROVE  Shows(Operands \o <<Op(x), Op(y)>>, {}, T)
<1>1. /\ Op(x) \in Lines /\ Op(y) \in Lines
      /\ Shows(<<Op(x)>>, {}, T) /\ Shows(<<Op(y)>>, {}, T)
  BY OpLine, OpShows
<1>2. Shows(<<Op(x), Op(y)>>, {}, T)
  BY <1>1, TwoShow, Unions
<1> QED
  BY <1>2, OperandsShow, ConcatShows, Unions

LEMMA ComparisonShows ==
    ASSUME Walking.node \in Nat, sLabelCount \in Nat, NEW jump \in Jumps
    PROVE  Shows(Comparison(jump), {sLabelCount, sLabelCount + 1}, {sLabelCount, sLabelCount + 1})
<1> DEFINE s == sLabelCount
           T == {s, s + 1}
<1>1. /\ s \in Nat /\ s + 1 \in Nat /\ s \in T /\ s + 1 \in T
      /\ {s} \cap {s + 1} = {} /\ T = {s} \cup {s + 1}
  OBVIOUS
<1> HIDE DEF T
<1>2. /\ Op("cmp rax, rbx") \in Lines /\ Op("mov rax, 0") \in Lines
      /\ Op("mov rax, 1") \in Lines /\ Op("push rax") \in Lines
      /\ Shows(<<Op("cmp rax, rbx")>>, {}, T) /\ Shows(<<Op("mov rax, 0")>>, {}, T)
      /\ Shows(<<Op("mov rax, 1")>>, {}, T) /\ Shows(<<Op("push rax")>>, {}, T)
  BY PlainOps, OpLine, OpShows
<1>3. /\ Jump(jump, s) \in Lines /\ Jump("jmp", s + 1) \in Lines
      /\ Shows(<<Jump(jump, s)>>, {}, T) /\ Shows(<<Jump("jmp", s + 1)>>, {}, T)
  BY <1>1, JumpOps, JumpLine, JumpShows
<1>4. /\ Label(s) \in Lines /\ Label(s + 1) \in Lines
      /\ Shows(<<Label(s)>>, {s}, T) /\ Shows(<<Label(s + 1)>>, {s + 1}, T)
  BY <1>1, LabelLine, LabelShows
<1>5. Shows(<<Op("cmp rax, rbx"), Jump(jump, s)>>, {}, T)
  BY <1>2, <1>3, TwoShow, Unions
<1>6. Shows(<<Op("mov rax, 0"), Jump("jmp", s + 1)>>, {}, T)
  BY <1>2, <1>3, TwoShow, Unions
<1>7. Shows(<<Label(s), Op("mov rax, 1")>>, {s}, T)
  BY <1>2, <1>4, TwoShow, Unions
<1>8. Shows(<<Label(s + 1), Op("push rax")>>, {s + 1}, T)
  BY <1>2, <1>4, TwoShow, Unions
<1>9. Shows(<<Op("cmp rax, rbx"), Jump(jump, s), Op("mov rax, 0"), Jump("jmp", s + 1)>>, {}, T)
  BY <1>2, <1>3, <1>5, <1>6, FourShow, Unions
<1>10. Shows(<<Label(s), Op("mov rax, 1"), Label(s + 1), Op("push rax")>>, T, T)
  BY <1>1, <1>2, <1>4, <1>7, <1>8, FourShow
<1>11. Shows(<<Op("cmp rax, rbx"), Jump(jump, s), Op("mov rax, 0"), Jump("jmp", s + 1),
               Label(s), Op("mov rax, 1"), Label(s + 1), Op("push rax")>>, T, T)
  BY <1>2, <1>3, <1>4, <1>9, <1>10, EightShow, Unions
<1>12. Shows(Comparison(jump), T, T)
  BY <1>11, OperandsShow, ConcatShows, Unions DEF Comparison
<1> QED
  BY <1>12 DEF T

LEMMA PowerShows ==
    ASSUME Walking.node \in Nat, sLabelCount \in Nat
    PROVE  Shows(Power, {sLabelCount, sLabelCount + 1, sLabelCount + 2},
                 {sLabelCount, sLabelCount + 1, sLabelCount + 2})
<1> DEFINE s == sLabelCount
           D == {s + 1} \cup {s + 2}
           T == {s, s + 1, s + 2}
<1>1. /\ s \in Nat /\ s + 1 \in Nat /\ s + 2 \in Nat
      /\ s \in T /\ s + 1 \in T /\ s + 2 \in T
      /\ {s + 1} \cap {s + 2} = {} /\ {s} \cap D = {} /\ T = {s} \cup D
  OBVIOUS
<1>2. D = {s + 1} \cup {s + 2}
  OBVIOUS
<1> HIDE DEF T, D
<1>3. /\ Op("pop rax") \in Lines /\ Op("mov rbx, rax") \in Lines /\ Op("pop rcx") \in Lines
      /\ Op("sub rcx, 1") \in Lines /\ Op("mul rbx") \in Lines
      /\ Op("mov rax, 1") \in Lines /\ Op("push rax") \in Lines
  BY PlainOps, OpLine
<1>4. /\ Shows(<<Op("pop rax")>>, {}, T) /\ Shows(<<Op("mov rbx, rax")>>, {}, T)
      /\ Shows(<<Op("pop rcx")>>, {}, T) /\ Shows(<<Op("sub rcx, 1")>>, {}, T)
      /\ Shows(<<Op("mul rbx")>>, {}, T) /\ Shows(<<Op("mov rax, 1")>>, {}, T)
      /\ Shows(<<Op("push rax")>>, {}, T)
  BY PlainOps, OpShows
<1>5. /\ Jump("jc", s + 1) \in Lines /\ Jump("jz", s + 2) \in Lines /\ Jump("jmp", s) \in Lines
      /\ Label(s) \in Lines /\ Label(s + 1) \in Lines /\ Label(s + 2) \in Lines
  BY <1>1, JumpOps, JumpLine, LabelLine
<1>6. /\ Shows(<<Jump("jc", s + 1)>>, {}, T) /\ Shows(<<Jump("jz", s + 2)>>, {}, T)
      /\ Shows(<<Jump("jmp", s)>>, {}, T)
  BY <1>1, JumpOps, JumpShows
<1>7. /\ Shows(<<Label(s)>>, {s}, T) /\ Shows(<<Label(s + 1)>>, {s + 1}, T)
      /\ Shows(<<Label(s + 2)>>, {s + 2}, T)
  BY <1>1, LabelShows
<1>8. Shows(<<Op("pop rax"), Op("mov rbx, rax")>>, {}, T)
  BY <1>3, <1>4, TwoShow, Unions
<1>9. Shows(<<Op("pop rcx"), Label(s)>>, {s}, T)
  BY <1>3, <1>4, <1>5, <1>7, TwoShow, Unions
<1>10. Shows(<<Op("pop rax"), Op("mov rbx, rax"), Op("pop rcx"), Label(s)>>, {s}, T)
  BY <1>3, <1>5, <1>8, <1>9, FourShow, Unions
<1>11. Shows(<<Op("sub rcx, 1"), Jump("jc", s + 1)>>, {}, T)
  BY <1>3, <1>4, <1>5, <1>6, TwoShow, Unions
<1>12. Shows(<<Jump("jz", s + 2), Op("mul rbx")>>, {}, T)
  BY <1>3, <1>4, <1>5, <1>6, TwoShow, Unions
<1>13. Shows(<<Op("sub rcx, 1"), Jump("jc", s + 1), Jump("jz", s + 2), Op("mul rbx")>>, {}, T)
  BY <1>3, <1>5, <1>11, <1>12, FourShow, Unions
<1>14. Shows(<<Op("pop rax"), Op("mov rbx, rax"), Op("pop rcx"), Label(s),
               Op("sub rcx, 1"), Jump("jc", s + 1), Jump("jz", s + 2), Op("mul rbx")>>, {s}, T)
  BY <1>3, <1>5, <1>10, <1>13, EightShow, Unions
<1>15. Shows(<<Jump("jmp", s), Label(s + 1)>>, {s + 1}, T)
  BY <1>5, <1>6, <1>7, TwoShow, Unions
<1>16. Shows(<<Op("mov rax, 1"), Label(s + 2)>>, {s + 2}, T)
  BY <1>3, <1>4, <1>5, <1>7, TwoShow, Unions
<1>17. /\ Op("mov rax, 1") \in Lines /\ Label(s + 2) \in Lines /\ Op("push rax") \in Lines
       /\ Shows(<<Op("push rax")>>, {}, T)
       /\ {s + 2} \cap {} = {} /\ {s + 2} = {s + 2} \cup {}
  BY <1>3, <1>4, <1>5
<1>18. Shows(<<Op("mov rax, 1"), Label(s + 2), Op("push rax")>>, {s + 2}, T)
  BY <1>16, <1>17, ThreeShow
<1>19. Shows(<<Jump("jmp", s), Label(s + 1), Op("mov rax, 1"), Label(s + 2), Op("push rax")>>, D, T)
  BY <1>1, <1>2, <1>3, <1>5, <1>15, <1>18, FiveShow
<1>20. Shows(Power, T, T)
  BY <1>1, <1>3, <1>5, <1>14, <1>19, ThirteenShow DEF Power
<1> QED
  BY <1>20 DEF T

\* The labels that an operation creates are the ones its code defines and uses.
LEMMA OperationShows ==
    ASSUME Walking.node \in Nat, sLabelCount \in Nat, NEW kind \in BinExprKinds
    PROVE  /\ LabelsOf(kind) \in Nat
           /\ Shows(OperationCode(kind), sLabelCount .. sLabelCount + LabelsOf(kind) - 1,
                    sLabelCount .. sLabelCount + LabelsOf(kind) - 1)
<1> DEFINE s == sLabelCount
<1>1. /\ 3 \in Nat /\ 2 \in Nat /\ 0 \in Nat
      /\ s .. s + 3 - 1 = {s, s + 1, s + 2}
      /\ s .. s + 2 - 1 = {s, s + 1}
      /\ s .. s + 0 - 1 = {}
  OBVIOUS
<1>2. CASE kind = "power"
  <2>1. LabelsOf(kind) = 3 /\ OperationCode(kind) = Power
    BY <1>2 DEF LabelsOf, OperationCode
  <2>2. Shows(Power, {s, s + 1, s + 2}, {s, s + 1, s + 2})
    BY PowerShows
  <2> QED
    BY <1>1, <2>1, <2>2, Zenon
<1>3. ASSUME NEW jump \in Jumps, LabelsOf(kind) = 2, OperationCode(kind) = Comparison(jump)
      PROVE  /\ LabelsOf(kind) \in Nat
             /\ Shows(OperationCode(kind), s .. s + LabelsOf(kind) - 1,
                      s .. s + LabelsOf(kind) - 1)
  <2>1. Shows(Comparison(jump), {s, s + 1}, {s, s + 1})
    BY ComparisonShows
  <2> QED
    BY <1>1, <1>3, <2>1, Zenon
<1>4. ASSUME NEW x \in Plain, NEW y \in Plain, LabelsOf(kind) = 0,
             OperationCode(kind) = Operands \o <<Op(x), Op(y)>>
      PROVE  /\ LabelsOf(kind) \in Nat
             /\ Shows(OperationCode(kind), s .. s + LabelsOf(kind) - 1,
                      s .. s + LabelsOf(kind) - 1)
  <2>1. Shows(Operands \o <<Op(x), Op(y)>>, {}, {})
    BY ArithmeticShows
  <2> QED
    BY <1>1, <1>4, <2>1, Zenon
<1>5. CASE kind = "mod"
  BY <1>4, <1>5, PlainOps DEF LabelsOf, OperationCode
<1>6. CASE kind = "mul"
  BY <1>4, <1>6, PlainOps DEF LabelsOf, OperationCode
<1>7. CASE kind = "div"
  BY <1>4, <1>7, PlainOps DEF LabelsOf, OperationCode
<1>8. CASE kind = "plus"
  BY <1>4, <1>8, PlainOps DEF LabelsOf, OperationCode
<1>9. CASE kind = "minus"
  BY <1>4, <1>9, PlainOps DEF LabelsOf, OperationCode
<1>10. CASE kind = "less"
  BY <1>3, <1>10, JumpOps DEF LabelsOf, OperationCode
<1>11. CASE kind = "greater"
  BY <1>3, <1>11, JumpOps DEF LabelsOf, OperationCode
<1> QED
  BY <1>2, <1>5, <1>6, <1>7, <1>8, <1>9, <1>10, <1>11 DEF BinExprKinds

LEMMA ModInRange ==
    ASSUME NEW a \in Int
    PROVE  a % SizeMax \in 0 .. SizeMax - 1
  BY SizeAssumption

-----------------------------------------------------------------------------
(* The parts of GenTypeOK, and what a step does to each.                    *)

HeapOK ==
    /\ nodes \in Seq([kind : AllKinds, token : Nat, kids : Seq(Nat)])
    /\ mProg \in Seq(Nat)
    /\ WellFormedAst

OutputOK == mOutput \in Seq(Lines) /\ mStackSize \in 0 .. SizeMax - 1

ScopesOK == mVars = << >> /\ mScopes \in Seq({0})

FramesOK == frames \in Seq(GenFrames) /\ \A n \in DOMAIN frames : WalkOK(frames[n])

\* The functions that are generating a statement of a scope.
InScopes == {n \in DOMAIN frames : frames[n].at = "scope.stmt"}

GenInv == HeapOK /\ OutputOK /\ ScopesOK /\ sLabelCount \in Nat /\ FramesOK /\ ScopesNest

LEMMA HeapStays ==
    ASSUME HeapOK, UNCHANGED <<nodes, mProg>>
    PROVE  HeapOK'
  BY DEF HeapOK, WellFormedAst, WellFormedNode

LEMMA OutputGrows ==
    ASSUME OutputOK, NEW code, NEW D, NEW T, Shows(code, D, T), NEW change \in Int,
           EmitCounting(code, change)
    PROVE  OutputOK'
<1>1. mOutput \in Seq(Lines) /\ code \in Seq(Lines) /\ mStackSize \in Int
  BY SizeAssumption DEF OutputOK, Shows
<1>2. mOutput \o code \in Seq(Lines)
  BY <1>1, ConcatProperties
<1>3. mStackSize + change \in Int
  BY <1>1
<1>4. (mStackSize + change) % SizeMax \in 0 .. SizeMax - 1
  BY <1>3, ModInRange
<1> QED
  BY <1>2, <1>4 DEF EmitCounting, OutputOK

LEMMA OutputStays ==
    ASSUME OutputOK, EmitNothing
    PROVE  OutputOK'
  BY DEF OutputOK, EmitNothing

LEMMA WalkStays ==
    ASSUME UNCHANGED <<nodes, mProg>>, NEW f, WalkOK(f)
    PROVE  WalkOK(f)'
  BY DEF WalkOK

LEMMA TopOK ==
    ASSUME FramesOK, frames # << >>
    PROVE  /\ Len(frames) \in Nat \ {0} /\ DOMAIN frames = 1 .. Len(frames)
           /\ Walking \in GenFrames /\ WalkOK(Walking) /\ Len(frames) \in DOMAIN frames
<1>1. Len(frames) \in Nat \ {0} /\ DOMAIN frames = 1 .. Len(frames)
  BY EmptySeq, LenProperties DEF FramesOK
<1>2. Len(frames) \in DOMAIN frames
  BY <1>1
<1> QED
  BY <1>1, <1>2, ElementOfSeq DEF FramesOK, Walking

LEMMA StackFront ==
    ASSUME NEW S, NEW s \in Seq(S), NEW m \in Nat, m < Len(s), NEW t, t = SubSeq(s, 1, m)
    PROVE  /\ t \in Seq(S) /\ DOMAIN t = 1 .. m
           /\ \A j \in 1 .. m : t[j] = s[j]
<1>1. (\A i \in 1 .. m : s[i] \in S) /\ 1 \in Int /\ m \in Int
  BY ElementOfSeq
<1>2. /\ SubSeq(s, 1, m) \in Seq(S)
      /\ Len(SubSeq(s, 1, m)) = IF 1 <= m THEN m - 1 + 1 ELSE 0
      /\ \A i \in 1 .. m - 1 + 1 : SubSeq(s, 1, m)[i] = s[1 + i - 1]
  BY <1>1, SubSeqProperties
<1>3. t \in Seq(S) /\ Len(t) = m /\ \A j \in 1 .. m : t[j] = s[j]
  BY <1>2
<1> QED
  BY <1>3, LenProperties

\* A stack with another element on top; with one more; with one less.
Topped(s, c)    == [s EXCEPT ![Len(s)] = c]
Pushed(s, c, d) == Append(Topped(s, c), d)
Popped(s)       == SubSeq(s, 1, Len(s) - 1)

LEMMA ToppedIs ==
    ASSUME NEW S, NEW s \in Seq(S), s # << >>, NEW c \in S
    PROVE  /\ Topped(s, c) \in Seq(S) /\ Len(Topped(s, c)) = Len(s)
           /\ DOMAIN Topped(s, c) = 1 .. Len(s)
           /\ Topped(s, c)[Len(s)] = c
           /\ \A m \in 1 .. Len(s) - 1 : Topped(s, c)[m] = s[m]
<1> DEFINE n == Len(s)
           t == Topped(s, c)
<1>1. n \in Nat \ {0}
  BY EmptySeq, LenProperties
<1>2. n \in 1 .. n
  BY <1>1
<1>3. /\ t \in Seq(S) /\ Len(t) = n
      /\ \A j \in 1 .. n : t[j] = IF j = n THEN c ELSE s[j]
  BY <1>2, ExceptSeq DEF Topped
<1> HIDE DEF t
<1>4. DOMAIN t = 1 .. n
  BY <1>3, LenProperties
<1> HIDE DEF n
<1>5. t[n] = c
  BY <1>2, <1>3
<1>6. \A m \in 1 .. n - 1 : m \in 1 .. n /\ m # n
  BY <1>1
<1>7. \A m \in 1 .. n - 1 : t[m] = s[m]
  BY <1>3, <1>6
<1> QED
  BY <1>3, <1>4, <1>5, <1>7 DEF t, n

LEMMA PushedIs ==
    ASSUME NEW S, NEW s \in Seq(S), s # << >>, NEW c \in S, NEW d \in S
    PROVE  /\ Pushed(s, c, d) \in Seq(S)
           /\ DOMAIN Pushed(s, c, d) = 1 .. Len(s) + 1
           /\ Pushed(s, c, d)[Len(s) + 1] = d /\ Pushed(s, c, d)[Len(s)] = c
           /\ \A m \in 1 .. Len(s) - 1 : Pushed(s, c, d)[m] = s[m]
<1> DEFINE n == Len(s)
           g == Topped(s, c)
           t == Append(g, d)
<1>1. n \in Nat \ {0}
  BY EmptySeq, LenProperties
<1>2. g \in Seq(S) /\ Len(g) = n /\ g[n] = c /\ \A m \in 1 .. n - 1 : g[m] = s[m]
  BY ToppedIs
<1> HIDE DEF g
<1>3. /\ t \in Seq(S) /\ Len(t) = n + 1 /\ t[n + 1] = d
      /\ \A m \in 1 .. n : t[m] = g[m]
  BY <1>2, AppendProperties
<1> HIDE DEF t
<1>4. DOMAIN t = 1 .. n + 1
  BY <1>3, LenProperties
<1>5. /\ t \in Seq(S) /\ DOMAIN t = 1 .. n + 1 /\ t[n + 1] = d /\ t[n] = c
      /\ \A m \in 1 .. n - 1 : t[m] = s[m]
  BY <1>1, <1>2, <1>3, <1>4
<1> QED
  BY <1>5 DEF t, g, Pushed

LEMMA PoppedIs ==
    ASSUME NEW S, NEW s \in Seq(S), s # << >>
    PROVE  /\ Popped(s) \in Seq(S) /\ DOMAIN Popped(s) = 1 .. Len(s) - 1
           /\ \A m \in 1 .. Len(s) - 1 : Popped(s)[m] = s[m]
<1>1. Len(s) - 1 \in Nat /\ Len(s) - 1 < Len(s)
  BY EmptySeq, LenProperties
<1> QED
  BY <1>1, StackFront DEF Popped

\* Descend: the frames below stay, the walking one changes, one is added.
LEMMA DescendFrames ==
    ASSUME FramesOK, frames # << >>, NEW w \in GenFrames, NEW c \in GenFrames, Descend(w, c)
    PROVE  /\ frames' \in Seq(GenFrames)
           /\ DOMAIN frames' = 1 .. Len(frames) + 1
           /\ frames'[Len(frames) + 1] = c /\ frames'[Len(frames)] = w
           /\ \A m \in 1 .. Len(frames) - 1 : frames'[m] = frames[m]
<1>1. Len(frames) \in Nat \ {0} /\ frames \in Seq(GenFrames)
  BY TopOK DEF FramesOK
<1>2. frames' = Pushed(frames, w, c)
  BY DEF Descend, Pushed, Topped
<1>3. /\ Pushed(frames, w, c) \in Seq(GenFrames)
      /\ DOMAIN Pushed(frames, w, c) = 1 .. Len(frames) + 1
      /\ Pushed(frames, w, c)[Len(frames) + 1] = c /\ Pushed(frames, w, c)[Len(frames)] = w
      /\ \A m \in 1 .. Len(frames) - 1 : Pushed(frames, w, c)[m] = frames[m]
  BY <1>1, PushedIs
<1> QED
  BY <1>2, <1>3, Zenon

LEMMA TakeOverFrames ==
    ASSUME FramesOK, frames # << >>, NEW c \in GenFrames, TakeOver(c)
    PROVE  /\ frames' \in Seq(GenFrames)
           /\ DOMAIN frames' = 1 .. Len(frames)
           /\ frames'[Len(frames)] = c
           /\ \A m \in 1 .. Len(frames) - 1 : frames'[m] = frames[m]
<1>1. Len(frames) \in Nat \ {0} /\ frames \in Seq(GenFrames)
  BY TopOK DEF FramesOK
<1>2. frames' = Topped(frames, c)
  BY DEF TakeOver, Topped
<1>3. /\ Topped(frames, c) \in Seq(GenFrames) /\ Len(Topped(frames, c)) = Len(frames)
      /\ DOMAIN Topped(frames, c) = 1 .. Len(frames)
      /\ Topped(frames, c)[Len(frames)] = c
      /\ \A m \in 1 .. Len(frames) - 1 : Topped(frames, c)[m] = frames[m]
  BY <1>1, ToppedIs
<1> QED
  BY <1>2, <1>3, Zenon

LEMMA LeaveFrames ==
    ASSUME FramesOK, frames # << >>, Leave
    PROVE  /\ frames' \in Seq(GenFrames)
           /\ DOMAIN frames' = 1 .. Len(frames) - 1
           /\ \A m \in 1 .. Len(frames) - 1 : frames'[m] = frames[m]
<1>1. Len(frames) - 1 \in Nat /\ Len(frames) - 1 < Len(frames) /\ frames \in Seq(GenFrames)
  BY TopOK DEF FramesOK
<1>2. frames' = Popped(frames)
  BY DEF Leave, Popped
<1> QED
  BY <1>1, <1>2, PoppedIs

\* The three shapes keep what holds of each frame.
LEMMA DescendOK ==
    ASSUME FramesOK, frames # << >>, UNCHANGED <<nodes, mProg>>,
           NEW w \in GenFrames, NEW c \in GenFrames, Descend(w, c), WalkOK(w), WalkOK(c)
    PROVE  /\ FramesOK'
           /\ Walking.at # "scope.stmt" /\ w.at # "scope.stmt" /\ c.at # "scope.stmt"
              => InScopes' = InScopes
           /\ Walking.at # "scope.stmt" /\ w.at = "scope.stmt" /\ c.at # "scope.stmt"
              => InScopes' = InScopes \cup {Len(frames)} /\ Len(frames) \notin InScopes
<1>1. Len(frames) \in Nat \ {0} /\ DOMAIN frames = 1 .. Len(frames)
  BY TopOK
<1>2. /\ frames' \in Seq(GenFrames)
      /\ DOMAIN frames' = 1 .. Len(frames) + 1
      /\ frames'[Len(frames) + 1] = c /\ frames'[Len(frames)] = w
      /\ \A m \in 1 .. Len(frames) - 1 : frames'[m] = frames[m]
  BY DescendFrames
<1>3. WalkOK(w)' /\ WalkOK(c)' /\ \A m \in DOMAIN frames : WalkOK(frames[m])
  BY WalkStays DEF FramesOK
<1>4. ASSUME NEW m \in DOMAIN frames'
      PROVE  WalkOK(frames[m])'
  <2>1. m = Len(frames) + 1 \/ m = Len(frames) \/ m \in 1 .. Len(frames) - 1
    BY <1>1, <1>2
  <2>2. CASE m \in 1 .. Len(frames) - 1
    <3>1. frames'[m] = frames[m] /\ WalkOK(frames[m])
      BY <1>1, <1>2, <1>3, <2>2
    <3> QED
      BY <3>1 DEF WalkOK
  <2> QED
    BY <1>2, <1>3, <2>1, <2>2
<1>5. FramesOK'
  BY <1>2, <1>4 DEF FramesOK
<1> QED
  BY <1>1, <1>2, <1>5 DEF InScopes, Walking

LEMMA TakeOverOK ==
    ASSUME FramesOK, frames # << >>, UNCHANGED <<nodes, mProg>>,
           NEW c \in GenFrames, TakeOver(c), WalkOK(c), c.at # "scope.stmt"
    PROVE  /\ FramesOK'
           /\ Walking.at # "scope.stmt" => InScopes' = InScopes
           /\ Walking.at = "scope.stmt"
              => InScopes' = InScopes \ {Len(frames)} /\ Len(frames) \in InScopes
<1>1. Len(frames) \in Nat \ {0} /\ DOMAIN frames = 1 .. Len(frames)
  BY TopOK
<1>2. /\ frames' \in Seq(GenFrames)
      /\ DOMAIN frames' = 1 .. Len(frames)
      /\ frames'[Len(frames)] = c
      /\ \A m \in 1 .. Len(frames) - 1 : frames'[m] = frames[m]
  BY TakeOverFrames
<1>3. WalkOK(c)' /\ \A m \in DOMAIN frames : WalkOK(frames[m])
  BY WalkStays DEF FramesOK
<1>4. ASSUME NEW m \in DOMAIN frames'
      PROVE  WalkOK(frames[m])'
  <2>1. m = Len(frames) \/ m \in 1 .. Len(frames) - 1
    BY <1>1, <1>2
  <2>2. CASE m \in 1 .. Len(frames) - 1
    <3>1. frames'[m] = frames[m] /\ WalkOK(frames[m])
      BY <1>1, <1>2, <1>3, <2>2
    <3> QED
      BY <3>1 DEF WalkOK
  <2> QED
    BY <1>2, <1>3, <2>1, <2>2
<1>5. FramesOK'
  BY <1>2, <1>4 DEF FramesOK
<1> QED
  BY <1>1, <1>2, <1>5 DEF InScopes, Walking

LEMMA LeaveOK ==
    ASSUME FramesOK, frames # << >>, UNCHANGED <<nodes, mProg>>, Leave,
           Walking.at # "scope.stmt"
    PROVE  FramesOK' /\ InScopes' = InScopes
<1>1. Len(frames) \in Nat \ {0} /\ DOMAIN frames = 1 .. Len(frames)
  BY TopOK
<1>2. /\ frames' \in Seq(GenFrames)
      /\ DOMAIN frames' = 1 .. Len(frames) - 1
      /\ \A m \in 1 .. Len(frames) - 1 : frames'[m] = frames[m]
  BY LeaveFrames
<1>3. ASSUME NEW m \in DOMAIN frames'
      PROVE  WalkOK(frames[m])'
  <2>1. frames'[m] = frames[m] /\ WalkOK(frames[m])
    BY <1>1, <1>2 DEF FramesOK
  <2> QED
    BY <2>1 DEF WalkOK
<1>4. FramesOK'
  BY <1>2, <1>3 DEF FramesOK
<1> QED
  BY <1>1, <1>2, <1>4 DEF InScopes, Walking

-----------------------------------------------------------------------------
(* The nodes a function meets.                                              *)

LEMMA KindsTable ==
    ASSUME NEW p
    PROVE  /\ p = "stmt" => KindsIn(p) = StmtKinds
           /\ p = "exit" => KindsIn(p) = {"exit"}
           /\ p \in {"if.expr", "if.scope", "if.pred"} => KindsIn(p) = {"if"}
           /\ p \in {"while.expr", "while.scope"} => KindsIn(p) = {"while"}
           /\ p \in {"elif.expr", "elif.scope"} => KindsIn(p) = {"elif"}
           /\ p \in {"block", "scope", "scope.stmt"} => KindsIn(p) = {"scope"}
           /\ p = "pred" => KindsIn(p) = IfPredKinds
           /\ p = "expr" => KindsIn(p) = ExprKinds
           /\ p \in {"bin.right", "bin.left"} => KindsIn(p) = BinExprKinds
  BY DEF KindsIn

LEMMA KidsTable ==
    ASSUME NEW k
    PROVE  /\ k = "exit" \/ k = "paren" => KidCounts(k) = {1} /\ KidKinds(k, 1) = ExprKinds
           /\ k \in BinExprKinds => /\ KidCounts(k) = {2}
                                    /\ KidKinds(k, 1) = ExprKinds /\ KidKinds(k, 2) = ExprKinds
           /\ k \in {"if", "elif"} => /\ KidCounts(k) = {2, 3}
                                      /\ KidKinds(k, 1) = ExprKinds
                                      /\ KidKinds(k, 2) = {"scope"}
                                      /\ KidKinds(k, 3) = IfPredKinds
           /\ k = "while" => /\ KidCounts(k) = {2}
                             /\ KidKinds(k, 1) = ExprKinds /\ KidKinds(k, 2) = {"scope"}
           /\ k = "else" => KidCounts(k) = {1} /\ KidKinds(k, 1) = {"scope"}
           /\ k = "scope" => \A i : KidKinds(k, i) = StmtKinds
  BY DEF KidCounts, KidKinds, BinExprKinds

\* The node of the running function, and its children.
LEMMA NodeFacts ==
    ASSUME HeapOK, FramesOK, frames # << >>, Walking.at \notin {"generate", "program"}
    PROVE  /\ Walking.node \in DOMAIN nodes /\ Walking.node \in Nat
           /\ Kind \in KindsIn(Walking.at)
           /\ Kids \in Seq(Nat) /\ Len(Kids) \in Nat /\ Len(Kids) \in KidCounts(Kind)
           /\ \A i \in 1 .. Len(Kids) :
                 Kids[i] \in DOMAIN nodes /\ nodes[Kids[i]].kind \in KidKinds(Kind, i)
           /\ Walking.at \in {"scope", "scope.stmt"} => Walking.i <= Len(Kids)
<1>1. WalkOK(Walking) /\ Walking \in GenFrames
  BY TopOK
<1>2. /\ Walking.node \in DOMAIN nodes /\ nodes[Walking.node].kind \in KindsIn(Walking.at)
      /\ Walking.at \in {"scope", "scope.stmt"} => Walking.i <= Len(nodes[Walking.node].kids)
  BY <1>1 DEF WalkOK
<1>3. Walking.node \in Nat
  BY <1>1 DEF GenFrames
<1>4. WellFormedNode(Walking.node) /\ DOMAIN nodes = 1 .. Len(nodes)
  BY <1>2, LenProperties DEF HeapOK, WellFormedAst
<1> DEFINE k == nodes[Walking.node].kids
<1>5. /\ k \in Seq(Nat) /\ Len(k) \in KidCounts(Kind)
      /\ \A i \in DOMAIN k :
            k[i] \in 1 .. Walking.node - 1 /\ nodes[k[i]].kind \in KidKinds(Kind, i)
  BY <1>4 DEF WellFormedNode, Kind
<1>6. DOMAIN k = 1 .. Len(k) /\ Len(k) \in Nat
  BY <1>5, LenProperties
<1> HIDE DEF k
<1>7. Len(nodes) \in Nat /\ Walking.node \in 1 .. Len(nodes)
  BY <1>2, <1>4, LenProperties DEF HeapOK
<1>8. \A i \in 1 .. Len(k) : k[i] \in DOMAIN nodes /\ nodes[k[i]].kind \in KidKinds(Kind, i)
  BY <1>3, <1>4, <1>5, <1>6, <1>7
<1> QED
  BY <1>2, <1>3, <1>5, <1>6, <1>8 DEF k, Kids, Kind

\* The frames a function may be called with.
LEMMA CalleeFrame ==
    ASSUME HeapOK, NEW n \in DOMAIN nodes, NEW end \in Nat,
           NEW p \in {"expr", "scope", "stmt", "pred"}, nodes[n].kind \in KindsIn(p)
    PROVE  /\ GenFrame(p, n, end) \in GenFrames /\ WalkOK(GenFrame(p, n, end))
           /\ GenFrame(p, n, end).at = p /\ GenFrame(p, n, end).end = end
<1> DEFINE f == GenFrame(p, n, end)
<1>1. n \in Nat /\ p \in GenPlaces /\ p \notin {"generate", "program"}
  BY LenProperties DEF HeapOK, GenPlaces
<1>2. f \in GenFrames /\ f.at = p /\ f.node = n /\ f.i = 0 /\ f.end = end
  BY <1>1 DEF GenFrame, GenFrames
<1>3. nodes[n].kids \in Seq(Nat)
  BY DEF HeapOK, WellFormedAst, WellFormedNode
<1>4. 0 <= Len(nodes[n].kids)
  BY <1>3, LenProperties
<1> HIDE DEF f
<1>5. WalkOK(f)
  BY <1>1, <1>2, <1>4 DEF WalkOK
<1> QED
  BY <1>2, <1>5 DEF f

\* The running function at another place, or a callee, on the same node.
LEMMA SameNode ==
    ASSUME HeapOK, FramesOK, frames # << >>, Walking.at \notin {"generate", "program"},
           NEW f \in GenFrames, f.node = Walking.node, Kind \in KindsIn(f.at),
           f.at \notin {"generate", "program", "scope", "scope.stmt"}
    PROVE  WalkOK(f)
  BY NodeFacts DEF WalkOK, Kind

-----------------------------------------------------------------------------
(* Steps that leave the scopes alone.                                       *)

LEMMA DescendInv ==
    ASSUME GenInv, frames # << >>, NEW w \in GenFrames, NEW c \in GenFrames, Descend(w, c),
           WalkOK(w), WalkOK(c), ScopesStay, OutputOK', sLabelCount' \in Nat,
           Walking.at # "scope.stmt", w.at # "scope.stmt", c.at # "scope.stmt"
    PROVE  GenInv'
<1>1. FramesOK' /\ InScopes' = InScopes
  BY DescendOK DEF GenInv, ScopesStay
<1>2. HeapOK'
  BY HeapStays DEF GenInv, ScopesStay
<1> QED
  BY <1>1, <1>2 DEF GenInv, ScopesStay, ScopesOK, ScopesNest, InScopes

LEMMA TakeOverInv ==
    ASSUME GenInv, frames # << >>, NEW c \in GenFrames, TakeOver(c),
           WalkOK(c), ScopesStay, OutputOK', sLabelCount' \in Nat,
           Walking.at # "scope.stmt", c.at # "scope.stmt"
    PROVE  GenInv'
<1>1. FramesOK' /\ InScopes' = InScopes
  BY TakeOverOK DEF GenInv, ScopesStay
<1>2. HeapOK'
  BY HeapStays DEF GenInv, ScopesStay
<1> QED
  BY <1>1, <1>2 DEF GenInv, ScopesStay, ScopesOK, ScopesNest, InScopes

LEMMA LeaveInv ==
    ASSUME GenInv, frames # << >>, Leave, ScopesStay, OutputOK', sLabelCount' \in Nat,
           Walking.at # "scope.stmt"
    PROVE  GenInv'
<1>1. FramesOK' /\ InScopes' = InScopes
  BY LeaveOK DEF GenInv, ScopesStay
<1>2. HeapOK'
  BY HeapStays DEF GenInv, ScopesStay
<1> QED
  BY <1>1, <1>2 DEF GenInv, ScopesStay, ScopesOK, ScopesNest, InScopes

-----------------------------------------------------------------------------
(* Labels: what a step that writes code defining D, jumping to T, and that  *)
(* creates count labels must do with the labels that are pending.           *)

Created(count) == sLabelCount .. sLabelCount + count - 1

\* The frames a step puts in the place of the walking one.
Fresh == {m \in DOMAIN frames' : m >= Len(frames)}

LabelsMove(D, T, count) ==
    /\ \A m \in 1 .. Len(frames) - 1 : m \in DOMAIN frames' /\ frames'[m] = frames[m]
    /\ D \subseteq Pending(Walking) \cup Created(count)
    /\ \A m \in Fresh :
          /\ Pending(frames'[m]) \subseteq (Pending(Walking) \cup Created(count)) \ D
          /\ \A x \in Fresh : m # x => Pending(frames'[m]) \cap Pending(frames'[x]) = {}
          /\ frames'[m].at = "while.scope" \/ frames'[m].at = "while.expr" =>
                 frames'[m].label \in Defined \cup D
          /\ frames'[m].at \in {"pred", "elif.expr", "elif.scope"} =>
                 m > 1 /\ frames'[m - 1].at = "if.pred" /\ frames'[m - 1].end = frames'[m].end
    /\ \A l \in Pending(Walking) : l \in D \/ \E m \in Fresh : l \in Pending(frames'[m])
    /\ \A l \in T : l \in Defined \cup D \/ \E m \in DOMAIN frames' : l \in Pending(frames'[m])

\* What mOutput holds behind a step.
LEMMA Lengthened ==
    ASSUME OutputOK, NEW code, NEW D, NEW T, Shows(code, D, T), mOutput' = mOutput \o code
    PROVE  /\ \A k \in DOMAIN mOutput' :
                 \/ k \in DOMAIN mOutput /\ mOutput'[k] = mOutput[k]
                 \/ k - Len(mOutput) \in DOMAIN code /\ mOutput'[k] = code[k - Len(mOutput)]
           /\ \A k \in DOMAIN mOutput : k \in DOMAIN mOutput' /\ mOutput'[k] = mOutput[k]
           /\ \A k \in DOMAIN code :
                 k + Len(mOutput) \in DOMAIN mOutput' /\ mOutput'[k + Len(mOutput)] = code[k]
           /\ DOMAIN mOutput' \subseteq Int /\ Len(mOutput) \in Nat
<1> DEFINE a == mOutput
           c == a \o code
<1>1. a \in Seq(Lines) /\ code \in Seq(Lines)
  BY DEF OutputOK, Shows
<1>2. /\ c \in Seq(Lines) /\ Len(c) = Len(a) + Len(code)
      /\ \A k \in 1 .. Len(a) + Len(code) :
            c[k] = IF k <= Len(a) THEN a[k] ELSE code[k - Len(a)]
  BY <1>1, ConcatProperties
<1>3. /\ Len(a) \in Nat /\ Len(code) \in Nat
      /\ DOMAIN a = 1 .. Len(a) /\ DOMAIN code = 1 .. Len(code)
  BY <1>1, LenProperties
<1>4. DOMAIN c = 1 .. Len(a) + Len(code)
  BY <1>2, LenProperties
<1>5. mOutput' = c
  OBVIOUS
<1> HIDE DEF c
<1>6. ASSUME NEW k \in DOMAIN c
      PROVE  \/ k \in DOMAIN a /\ c[k] = a[k]
             \/ k - Len(a) \in DOMAIN code /\ c[k] = code[k - Len(a)]
  <2>1. k \in 1 .. Len(a) + Len(code)
    BY <1>4
  <2>2. CASE k <= Len(a)
    BY <1>2, <1>3, <2>1, <2>2
  <2>3. CASE ~(k <= Len(a))
    <3>1. k - Len(a) \in 1 .. Len(code)
      BY <1>3, <2>1, <2>3
    <3> QED
      BY <1>2, <1>3, <2>1, <2>3, <3>1
  <2> QED
    BY <2>2, <2>3
<1>7. \A k \in DOMAIN a : k \in DOMAIN c /\ c[k] = a[k]
  BY <1>2, <1>3, <1>4
<1>8. \A k \in DOMAIN code : k + Len(a) \in DOMAIN c /\ c[k + Len(a)] = code[k]
  BY <1>2, <1>3, <1>4
<1>9. DOMAIN c \subseteq Int
  BY <1>4
<1> QED
  BY <1>3, <1>5, <1>6, <1>7, <1>8, <1>9

LEMMA DefinedGrows ==
    ASSUME OutputOK, NEW code, NEW D, NEW T, Shows(code, D, T), mOutput' = mOutput \o code
    PROVE  Defined' = Defined \cup D
<1>1. ASSUME NEW l \in Defined' PROVE l \in Defined \cup D
  BY Lengthened DEF Defined, Definitions, Shows
<1>2. ASSUME NEW l \in Defined PROVE l \in Defined'
  BY Lengthened DEF Defined, Definitions
<1>3. ASSUME NEW l \in D PROVE l \in Defined'
  <2>1. PICK k \in DOMAIN code : code[k].op = "label" /\ code[k].label = l
    BY DEF Shows
  <2>2. k + Len(mOutput) \in DOMAIN mOutput' /\ mOutput'[k + Len(mOutput)] = code[k]
    BY Lengthened
  <2> QED
    BY <2>1, <2>2 DEF Defined, Definitions
<1> QED
  BY <1>1, <1>2, <1>3

LEMMA PendingInRange ==
    ASSUME LabelInv, FramesOK, NEW n \in DOMAIN frames, NEW l \in Pending(frames[n])
    PROVE  l \in 0 .. sLabelCount - 1 /\ l \notin Defined
  BY DEF LabelInv

LEMMA LabelStep ==
    ASSUME LabelInv, OutputOK, FramesOK, frames # << >>, sLabelCount \in Nat,
           NEW code, NEW D, NEW T, NEW count \in Nat, Shows(code, D, T),
           mOutput' = mOutput \o code, sLabelCount' = sLabelCount + count,
           frames' \in Seq(GenFrames), LabelsMove(D, T, count)
    PROVE  LabelInv'
<1> DEFINE n == Len(frames)
           s == sLabelCount
<1>1. /\ n \in Nat \ {0} /\ n \in DOMAIN frames /\ DOMAIN frames = 1 .. n
      /\ frames[n] = Walking
  BY TopOK DEF Walking
<1>2. DOMAIN frames' \subseteq Int /\ \A m \in DOMAIN frames' : m \in 1 .. n - 1 \/ m \in Fresh
  BY <1>1, LenProperties DEF Fresh
<1>3. \A m \in 1 .. n - 1 : m \in DOMAIN frames /\ m \in DOMAIN frames' /\ frames'[m] = frames[m] /\ m # n
  BY <1>1 DEF LabelsMove
<1>4. Defined' = Defined \cup D
  BY DefinedGrows
<1>5. Defined \subseteq 0 .. s - 1
  BY DEF LabelInv
<1>6. /\ \A l \in Pending(Walking) : l \in 0 .. s - 1 /\ l \notin Defined
      /\ \A l \in Created(count) : l \in Nat /\ l \in 0 .. s + count - 1 /\ l \notin 0 .. s - 1
  BY <1>1, PendingInRange DEF Created
<1>7. \A l \in 0 .. s - 1 : l \in 0 .. s + count - 1
  OBVIOUS
<1> HIDE DEF s, n
<1>8. \A l \in D : l \notin Defined /\ l \in 0 .. s + count - 1
  BY <1>5, <1>6, <1>7 DEF LabelsMove
<1>9. ASSUME NEW m \in 1 .. n - 1, NEW l \in Pending(frames[m])
      PROVE  /\ l \in 0 .. s - 1 /\ l \notin Defined
             /\ l \notin Pending(Walking) /\ l \notin Created(count) /\ l \notin D
  <2>1. l \in 0 .. s - 1 /\ l \notin Defined
    BY <1>3, PendingInRange DEF s
  <2>2. l \notin Pending(Walking)
    BY <1>1, <1>3 DEF LabelInv
  <2> QED
    BY <1>6, <2>1, <2>2 DEF LabelsMove
<1>10. LabelsDefinedOnce'
  <2>1. SUFFICES ASSUME NEW j \in DOMAIN mOutput', NEW k \in DOMAIN mOutput',
                        mOutput'[j].op = "label", mOutput'[k].op = "label",
                        mOutput'[j].label = mOutput'[k].label
                 PROVE  j = k
    BY DEF LabelsDefinedOnce, Definitions
  <2>2. /\ j \in Int /\ k \in Int /\ Len(mOutput) \in Int
        /\ \/ j \in DOMAIN mOutput /\ mOutput'[j] = mOutput[j]
           \/ j - Len(mOutput) \in DOMAIN code /\ mOutput'[j] = code[j - Len(mOutput)]
        /\ \/ k \in DOMAIN mOutput /\ mOutput'[k] = mOutput[k]
           \/ k - Len(mOutput) \in DOMAIN code /\ mOutput'[k] = code[k - Len(mOutput)]
    BY Lengthened
  <2>3. CASE j \in DOMAIN mOutput /\ k \in DOMAIN mOutput /\ mOutput'[j] = mOutput[j]
             /\ mOutput'[k] = mOutput[k]
    BY <2>1, <2>3 DEF LabelInv, LabelsDefinedOnce, Definitions
  <2>4. CASE /\ j - Len(mOutput) \in DOMAIN code /\ mOutput'[j] = code[j - Len(mOutput)]
             /\ k - Len(mOutput) \in DOMAIN code /\ mOutput'[k] = code[k - Len(mOutput)]
    <3>1. j - Len(mOutput) = k - Len(mOutput)
      BY <2>1, <2>4 DEF Shows
    <3> QED
      BY <2>2, <3>1
  <2>5. ASSUME NEW x \in DOMAIN mOutput, NEW y \in DOMAIN code,
               mOutput[x].op = "label", code[y].op = "label"
        PROVE  mOutput[x].label # code[y].label
    <3>1. mOutput[x].label \in Defined
      BY <2>5 DEF Defined, Definitions
    <3>2. code[y].label \in D
      BY <2>5 DEF Shows
    <3> QED
      BY <1>8, <3>1, <3>2
  <2> QED
    BY <2>1, <2>2, <2>3, <2>4, <2>5
<1>11. Defined' \subseteq 0 .. sLabelCount' - 1
  <2>1. sLabelCount' - 1 = s + count - 1
    BY DEF s
  <2> QED
    BY <1>4, <1>5, <1>7, <1>8, <2>1
<1>12. ASSUME NEW m \in DOMAIN frames', NEW l \in Pending(frames'[m])
       PROVE  l \in 0 .. sLabelCount' - 1 /\ l \notin Defined'
  <2>1. sLabelCount' - 1 = s + count - 1
    BY DEF s
  <2>2. CASE m \in 1 .. n - 1
    BY <1>3, <1>4, <1>7, <1>9, <1>12, <2>1, <2>2
  <2>3. CASE m \in Fresh
    <3>1. l \in Pending(Walking) \cup Created(count) /\ l \notin D
      BY <1>12, <2>3 DEF LabelsMove
    <3> QED
      BY <1>4, <1>5, <1>6, <1>7, <2>1, <3>1
  <2> QED
    BY <1>2, <2>2, <2>3
<1>13. ASSUME NEW m \in DOMAIN frames', NEW x \in DOMAIN frames', m # x
       PROVE  Pending(frames'[m]) \cap Pending(frames'[x]) = {}
  <2>1. ASSUME NEW y \in 1 .. n - 1, NEW z \in Fresh
        PROVE  Pending(frames'[y]) \cap Pending(frames'[z]) = {}
    <3>1. Pending(frames'[z]) \subseteq Pending(Walking) \cup Created(count)
      BY DEF LabelsMove
    <3> QED
      BY <1>3, <1>9, <3>1
  <2>2. CASE m \in 1 .. n - 1 /\ x \in 1 .. n - 1
    BY <1>3, <1>13, <2>2 DEF LabelInv
  <2>3. CASE m \in Fresh /\ x \in Fresh
    BY <1>13, <2>3 DEF LabelsMove
  <2> QED
    BY <1>2, <2>1, <2>2, <2>3
<1>14. ASSUME NEW m \in DOMAIN frames',
              frames'[m].at = "while.scope" \/ frames'[m].at = "while.expr"
       PROVE  frames'[m].label \in Defined'
  <2>1. CASE m \in 1 .. n - 1
    BY <1>3, <1>4, <1>14, <2>1 DEF LabelInv
  <2>2. CASE m \in Fresh
    BY <1>4, <1>14, <2>2 DEF LabelsMove
  <2> QED
    BY <1>2, <2>1, <2>2
<1>15. ASSUME NEW m \in DOMAIN frames', frames'[m].at \in {"pred", "elif.expr", "elif.scope"}
       PROVE  m > 1 /\ frames'[m - 1].at = "if.pred" /\ frames'[m - 1].end = frames'[m].end
  <2>1. CASE m \in 1 .. n - 1
    <3>1. m > 1 /\ frames[m - 1].at = "if.pred" /\ frames[m - 1].end = frames[m].end
      BY <1>3, <1>15, <2>1 DEF LabelInv
    <3>2. m - 1 \in 1 .. n - 1
      BY <1>1, <2>1, <3>1
    <3> QED
      BY <1>3, <2>1, <3>1, <3>2
  <2>2. CASE m \in Fresh
    BY <1>15, <2>2 DEF LabelsMove
  <2> QED
    BY <1>2, <2>1, <2>2
<1>16. ASSUME NEW k \in DOMAIN mOutput', mOutput'[k].op \in Jumps
       PROVE  \/ mOutput'[k].label \in Defined'
              \/ \E m \in DOMAIN frames' : mOutput'[k].label \in Pending(frames'[m])
  <2> DEFINE l == mOutput'[k].label
  <2>1. CASE k \in DOMAIN mOutput /\ mOutput'[k] = mOutput[k]
    <3>1. l \in Defined \/ \E m \in DOMAIN frames : l \in Pending(frames[m])
      BY <1>16, <2>1 DEF LabelInv, JumpsOut
    <3>2. CASE \E m \in DOMAIN frames : l \in Pending(frames[m])
      <4>1. PICK m \in DOMAIN frames : l \in Pending(frames[m])
        BY <3>2
      <4>2. m \in 1 .. n - 1 \/ m = n
        BY <1>1
      <4>3. CASE m \in 1 .. n - 1
        BY <1>3, <4>1, <4>3
      <4>4. CASE m = n
        <5>1. l \in Pending(Walking)
          BY <1>1, <4>1, <4>4
        <5> QED
          BY <1>4, <5>1 DEF LabelsMove, Fresh
      <4> QED
        BY <4>2, <4>3, <4>4
    <3> QED
      BY <1>4, <3>1, <3>2
  <2>2. CASE k - Len(mOutput) \in DOMAIN code /\ mOutput'[k] = code[k - Len(mOutput)]
    <3>1. l \in T
      BY <1>16, <2>2 DEF Shows
    <3> QED
      BY <1>4, <3>1 DEF LabelsMove
  <2> QED
    BY <2>1, <2>2, Lengthened
<1> QED
  BY <1>10, <1>11, <1>12, <1>13, <1>14, <1>15, <1>16 DEF LabelInv, JumpsOut

-----------------------------------------------------------------------------
(* Labels: the three shapes of a step.                                      *)

Inv == GenInv /\ LabelInv

IfPredPlaces == {"pred", "elif.expr", "elif.scope"}
WhilePlaces  == {"while.scope", "while.expr"}

\* The walking function goes on as w: what becomes of the labels it had.
GoesOnAs(w, D, T, count) ==
    /\ D \subseteq Pending(Walking) \cup Created(count)
    /\ Pending(w) \subseteq (Pending(Walking) \cup Created(count)) \ D
    /\ Pending(Walking) \subseteq D \cup Pending(w)
    /\ \A l \in T : \/ l \in Defined \/ l \in D \/ l \in Pending(w)
                    \/ \E m \in 1 .. Len(frames) - 1 : l \in Pending(frames[m])
    /\ w.at \in WhilePlaces => w.label \in Defined \cup D
    /\ w.at \in IfPredPlaces => Walking.at \in IfPredPlaces /\ w.end = Walking.end

LEMMA CalledBack ==
    ASSUME LabelInv, FramesOK, frames # << >>, Walking.at \in IfPredPlaces
    PROVE  /\ Len(frames) > 1 /\ Len(frames) - 1 \in 1 .. Len(frames) - 1
           /\ frames[Len(frames) - 1].at = "if.pred"
           /\ frames[Len(frames) - 1].end = Walking.end
<1>1. Len(frames) \in DOMAIN frames /\ Len(frames) \in Nat
  BY TopOK
<1>2. /\ Len(frames) > 1 /\ frames[Len(frames) - 1].at = "if.pred"
      /\ frames[Len(frames) - 1].end = frames[Len(frames)].end
  BY <1>1 DEF LabelInv, IfPredPlaces, Walking
<1> QED
  BY <1>1, <1>2 DEF Walking

LEMMA DescendLabels ==
    ASSUME Inv, frames # << >>, NEW w \in GenFrames, NEW c \in GenFrames, Descend(w, c),
           NEW code, NEW D, NEW T, NEW count \in Nat, Shows(code, D, T),
           mOutput' = mOutput \o code, sLabelCount' = sLabelCount + count,
           GoesOnAs(w, D, T, count),
           Pending(c) = {}, c.at \notin WhilePlaces,
           c.at \in IfPredPlaces => w.at = "if.pred" /\ w.end = c.end
    PROVE  LabelInv'
<1> DEFINE n == Len(frames)
<1>1. OutputOK /\ FramesOK /\ LabelInv /\ sLabelCount \in Nat
  BY DEF Inv, GenInv
<1>2. n \in Nat \ {0}
  BY <1>1, TopOK
<1>3. /\ frames' \in Seq(GenFrames)
      /\ DOMAIN frames' = 1 .. n + 1
      /\ frames'[n + 1] = c /\ frames'[n] = w
      /\ \A m \in 1 .. n - 1 : frames'[m] = frames[m]
  BY <1>1, DescendFrames
<1>4. \A m : m \in Fresh <=> m = n \/ m = n + 1
  BY <1>2, <1>3 DEF Fresh
<1>5. w.at \in IfPredPlaces => n > 1 /\ n - 1 \in 1 .. n - 1 /\ frames[n - 1].at = "if.pred"
                               /\ frames[n - 1].end = w.end
  BY <1>1, CalledBack DEF GoesOnAs
<1> HIDE DEF n
<1>6. \A m \in 1 .. n - 1 : m \in DOMAIN frames' /\ frames'[m] = frames[m]
  BY <1>2, <1>3
<1>7. \A m \in Fresh : Pending(frames'[m]) \subseteq (Pending(Walking) \cup Created(count)) \ D
  BY <1>3, <1>4 DEF GoesOnAs
<1>8. \A m, x \in Fresh : m # x => Pending(frames'[m]) \cap Pending(frames'[x]) = {}
  BY <1>3, <1>4
<1>9. \A m \in Fresh : frames'[m].at = "while.scope" \/ frames'[m].at = "while.expr" =>
                           frames'[m].label \in Defined \cup D
  BY <1>3, <1>4 DEF GoesOnAs, WhilePlaces
<1>10. ASSUME NEW m \in Fresh, frames'[m].at \in IfPredPlaces
       PROVE  m > 1 /\ frames'[m - 1].at = "if.pred" /\ frames'[m - 1].end = frames'[m].end
  <2>1. CASE m = n
    BY <1>3, <1>5, <1>10, <2>1
  <2>2. CASE m = n + 1
    <3>1. m - 1 = n /\ m > 1
      BY <1>2, <2>2
    <3> QED
      BY <1>3, <1>10, <2>2, <3>1
  <2> QED
    BY <1>4, <2>1, <2>2
<1>11. \A l \in Pending(Walking) : l \in D \/ \E m \in Fresh : l \in Pending(frames'[m])
  BY <1>3, <1>4 DEF GoesOnAs
<1>12. \A l \in T : l \in Defined \cup D \/ \E m \in DOMAIN frames' : l \in Pending(frames'[m])
  <2>1. n \in DOMAIN frames'
    BY <1>2, <1>3
  <2> QED
    BY <1>3, <1>6, <2>1 DEF GoesOnAs, n
<1>13. LabelsMove(D, T, count)
  BY <1>6, <1>7, <1>8, <1>9, <1>10, <1>11, <1>12 DEF LabelsMove, GoesOnAs, IfPredPlaces, n
<1> QED
  BY <1>1, <1>3, <1>13, LabelStep

LEMMA TakeOverLabels ==
    ASSUME Inv, frames # << >>, NEW c \in GenFrames, TakeOver(c),
           NEW code, NEW D, NEW T, NEW count \in Nat, Shows(code, D, T),
           mOutput' = mOutput \o code, sLabelCount' = sLabelCount + count,
           GoesOnAs(c, D, T, count)
    PROVE  LabelInv'
<1> DEFINE n == Len(frames)
<1>1. OutputOK /\ FramesOK /\ LabelInv /\ sLabelCount \in Nat
  BY DEF Inv, GenInv
<1>2. n \in Nat \ {0}
  BY <1>1, TopOK
<1>3. /\ frames' \in Seq(GenFrames)
      /\ DOMAIN frames' = 1 .. n
      /\ frames'[n] = c
      /\ \A m \in 1 .. n - 1 : frames'[m] = frames[m]
  BY <1>1, TakeOverFrames
<1>4. \A m : m \in Fresh <=> m = n
  BY <1>2, <1>3 DEF Fresh
<1>5. c.at \in IfPredPlaces => n > 1 /\ n - 1 \in 1 .. n - 1 /\ frames[n - 1].at = "if.pred"
                               /\ frames[n - 1].end = c.end
  BY <1>1, CalledBack DEF GoesOnAs
<1> HIDE DEF n
<1>6. \A m \in 1 .. n - 1 : m \in DOMAIN frames' /\ frames'[m] = frames[m]
  BY <1>2, <1>3
<1>7. \A m \in Fresh : Pending(frames'[m]) \subseteq (Pending(Walking) \cup Created(count)) \ D
  BY <1>3, <1>4 DEF GoesOnAs
<1>8. \A m, x \in Fresh : m # x => Pending(frames'[m]) \cap Pending(frames'[x]) = {}
  BY <1>4
<1>9. \A m \in Fresh : frames'[m].at = "while.scope" \/ frames'[m].at = "while.expr" =>
                           frames'[m].label \in Defined \cup D
  BY <1>3, <1>4 DEF GoesOnAs, WhilePlaces
<1>10. ASSUME NEW m \in Fresh, frames'[m].at \in IfPredPlaces
       PROVE  m > 1 /\ frames'[m - 1].at = "if.pred" /\ frames'[m - 1].end = frames'[m].end
  BY <1>3, <1>4, <1>5, <1>10
<1>11. \A l \in Pending(Walking) : l \in D \/ \E m \in Fresh : l \in Pending(frames'[m])
  BY <1>3, <1>4 DEF GoesOnAs
<1>12. \A l \in T : l \in Defined \cup D \/ \E m \in DOMAIN frames' : l \in Pending(frames'[m])
  <2>1. n \in DOMAIN frames'
    BY <1>2, <1>3
  <2> QED
    BY <1>3, <1>6, <2>1 DEF GoesOnAs, n
<1>13. LabelsMove(D, T, count)
  BY <1>6, <1>7, <1>8, <1>9, <1>10, <1>11, <1>12 DEF LabelsMove, GoesOnAs, IfPredPlaces, n
<1> QED
  BY <1>1, <1>3, <1>13, LabelStep

LEMMA LeaveLabels ==
    ASSUME Inv, frames # << >>, Leave,
           NEW code, NEW D, NEW T, NEW count \in Nat, Shows(code, D, T),
           mOutput' = mOutput \o code, sLabelCount' = sLabelCount + count,
           D \subseteq Pending(Walking) \cup Created(count), Pending(Walking) \subseteq D,
           \A l \in T : \/ l \in Defined \/ l \in D
                        \/ \E m \in 1 .. Len(frames) - 1 : l \in Pending(frames[m])
    PROVE  LabelInv'
<1> DEFINE n == Len(frames)
<1>1. OutputOK /\ FramesOK /\ LabelInv /\ sLabelCount \in Nat
  BY DEF Inv, GenInv
<1>2. n \in Nat \ {0}
  BY <1>1, TopOK
<1>3. /\ frames' \in Seq(GenFrames)
      /\ DOMAIN frames' = 1 .. n - 1
      /\ \A m \in 1 .. n - 1 : frames'[m] = frames[m]
  BY <1>1, LeaveFrames
<1>4. Fresh = {}
  BY <1>2, <1>3 DEF Fresh
<1> HIDE DEF n
<1>5. \A l \in T : l \in Defined \cup D \/ \E m \in DOMAIN frames' : l \in Pending(frames'[m])
  BY <1>3 DEF n
<1>6. LabelsMove(D, T, count)
  BY <1>3, <1>4, <1>5 DEF LabelsMove, n
<1> QED
  BY <1>1, <1>3, <1>6, LabelStep

-----------------------------------------------------------------------------
(* Steps that leave the scopes alone, by what they do to the stack.         *)

LEMMA PendingTable ==
    ASSUME NEW f
    PROVE  /\ f.at \in {"if.scope", "elif.scope"} => Pending(f) = {f.label}
           /\ f.at \in {"if.pred", "while.expr", "while.scope"} => Pending(f) = {f.end}
           /\ f.at \notin {"if.scope", "elif.scope", "if.pred", "while.expr", "while.scope"}
              => Pending(f) = {}
  BY DEF Pending

LEMMA Writes ==
    ASSUME Inv, NEW code, NEW D, NEW T, Shows(code, D, T), NEW change \in Int,
           EmitCounting(code, change)
    PROVE  OutputOK' /\ mOutput' = mOutput \o code
<1>1. OutputOK'
  BY OutputGrows DEF Inv, GenInv
<1> QED
  BY <1>1 DEF EmitCounting

LEMMA Silent ==
    ASSUME Inv, EmitNothing
    PROVE  OutputOK' /\ mOutput' = mOutput \o << >> /\ Shows(<< >>, {}, {})
<1>1. OutputOK'
  BY OutputStays DEF Inv, GenInv
<1>2. mOutput \in Seq(Lines)
  BY DEF Inv, GenInv, OutputOK
<1>3. mOutput \o << >> = mOutput
  BY <1>2, ConcatEmptySeq
<1> QED
  BY <1>1, <1>3, EmptyShows DEF EmitNothing

LEMMA GenCallStep ==
    ASSUME Inv, frames # << >>, NEW w \in GenFrames, NEW c \in GenFrames, Descend(w, c),
           WalkOK(w), WalkOK(c), ScopesStay,
           Walking.at # "scope.stmt", w.at # "scope.stmt", c.at # "scope.stmt",
           NEW code, NEW D, NEW T, NEW count \in Nat, Shows(code, D, T), OutputOK',
           mOutput' = mOutput \o code, sLabelCount' = sLabelCount + count,
           GoesOnAs(w, D, T, count),
           Pending(c) = {}, c.at \notin WhilePlaces,
           c.at \in IfPredPlaces => w.at = "if.pred" /\ w.end = c.end
    PROVE  Inv'
<1>1. LabelInv'
  BY DescendLabels
<1>2. sLabelCount' \in Nat
  BY DEF Inv, GenInv
<1>3. GenInv'
  BY <1>2, DescendInv DEF Inv
<1> QED
  BY <1>1, <1>3 DEF Inv

LEMMA GenLastCallStep ==
    ASSUME Inv, frames # << >>, NEW c \in GenFrames, TakeOver(c), WalkOK(c), ScopesStay,
           Walking.at # "scope.stmt", c.at # "scope.stmt",
           NEW code, NEW D, NEW T, NEW count \in Nat, Shows(code, D, T), OutputOK',
           mOutput' = mOutput \o code, sLabelCount' = sLabelCount + count,
           GoesOnAs(c, D, T, count)
    PROVE  Inv'
<1>1. LabelInv'
  BY TakeOverLabels
<1>2. sLabelCount' \in Nat
  BY DEF Inv, GenInv
<1>3. GenInv'
  BY <1>2, TakeOverInv DEF Inv
<1> QED
  BY <1>1, <1>3 DEF Inv

LEMMA GenReturnStep ==
    ASSUME Inv, frames # << >>, Leave, ScopesStay, Walking.at # "scope.stmt",
           NEW code, NEW D, NEW T, NEW count \in Nat, Shows(code, D, T), OutputOK',
           mOutput' = mOutput \o code, sLabelCount' = sLabelCount + count,
           D \subseteq Pending(Walking) \cup Created(count), Pending(Walking) \subseteq D,
           \A l \in T : \/ l \in Defined \/ l \in D
                        \/ \E m \in 1 .. Len(frames) - 1 : l \in Pending(frames[m])
    PROVE  Inv'
<1>1. LabelInv'
  BY LeaveLabels
<1>2. sLabelCount' \in Nat
  BY DEF Inv, GenInv
<1>3. GenInv'
  BY <1>2, LeaveInv DEF Inv
<1> QED
  BY <1>1, <1>3 DEF Inv

\* A frame that only walks has no label of its own and was given none.
WalkPlaces == {"program", "stmt", "exit", "block", "if.expr", "scope", "expr", "bin.right",
               "bin.left"}

LEMMA WalkPlacesPend ==
    ASSUME NEW f, f.at \in WalkPlaces
    PROVE  /\ Pending(f) = {} /\ f.at \notin WhilePlaces /\ f.at \notin IfPredPlaces
           /\ f.at # "scope.stmt"
<1>1. f.at \notin {"if.scope", "elif.scope", "if.pred", "while.expr", "while.scope"}
  BY DEF WalkPlaces
<1>2. f.at \notin WhilePlaces /\ f.at \notin IfPredPlaces /\ f.at # "scope.stmt"
  BY DEF WalkPlaces, WhilePlaces, IfPredPlaces
<1> QED
  BY <1>1, <1>2, PendingTable

\* A call and nothing else.
LEMMA QuietCall ==
    ASSUME Inv, frames # << >>, NEW w \in GenFrames, NEW c \in GenFrames, Descend(w, c),
           WalkOK(w), WalkOK(c), EmitNothing, NoLabels, ScopesStay,
           Walking.at # "scope.stmt", w.at # "scope.stmt", c.at \in WalkPlaces,
           Pending(w) = {}, Pending(Walking) = {}, w.at \notin WhilePlaces,
           w.at \in IfPredPlaces => Walking.at \in IfPredPlaces /\ w.end = Walking.end
    PROVE  Inv'
<1>1. OutputOK' /\ mOutput' = mOutput \o << >> /\ Shows(<< >>, {}, {})
  BY Silent
<1>2. sLabelCount' = sLabelCount + 0 /\ 0 \in Nat
  BY DEF Inv, GenInv, NoLabels
<1>3. GoesOnAs(w, {}, {}, 0)
  BY DEF GoesOnAs
<1>4. Pending(c) = {} /\ c.at \notin WhilePlaces /\ c.at \notin IfPredPlaces
      /\ c.at # "scope.stmt"
  BY WalkPlacesPend
<1> QED
  BY <1>1, <1>2, <1>3, <1>4, GenCallStep

LEMMA QuietLastCall ==
    ASSUME Inv, frames # << >>, NEW c \in GenFrames, TakeOver(c), WalkOK(c),
           EmitNothing, NoLabels, ScopesStay,
           Walking.at # "scope.stmt", c.at \in WalkPlaces, Pending(Walking) = {}
    PROVE  Inv'
<1>1. OutputOK' /\ mOutput' = mOutput \o << >> /\ Shows(<< >>, {}, {})
  BY Silent
<1>2. sLabelCount' = sLabelCount + 0 /\ 0 \in Nat
  BY DEF Inv, GenInv, NoLabels
<1>3. Pending(c) = {} /\ c.at \notin WhilePlaces /\ c.at \notin IfPredPlaces
      /\ c.at # "scope.stmt"
  BY WalkPlacesPend
<1>4. GoesOnAs(c, {}, {}, 0)
  BY <1>3 DEF GoesOnAs
<1> QED
  BY <1>1, <1>2, <1>3, <1>4, GenLastCallStep

LEMMA QuietReturn ==
    ASSUME Inv, frames # << >>, Leave, EmitNothing, NoLabels, ScopesStay,
           Walking.at # "scope.stmt", Pending(Walking) = {}
    PROVE  Inv'
<1>1. OutputOK' /\ mOutput' = mOutput \o << >> /\ Shows(<< >>, {}, {})
  BY Silent
<1>2. sLabelCount' = sLabelCount + 0 /\ 0 \in Nat
  BY DEF Inv, GenInv, NoLabels
<1> QED
  BY <1>1, <1>2, GenReturnStep

-----------------------------------------------------------------------------
(* The actions that leave the scopes alone.                                 *)

LEMMA Parts ==
    ASSUME Inv, frames # << >>
    PROVE  /\ HeapOK /\ OutputOK /\ FramesOK /\ LabelInv /\ sLabelCount \in Nat
           /\ Walking \in GenFrames /\ WalkOK(Walking) /\ Walking.node \in Nat
           /\ Walking.label \in Nat /\ Walking.end \in Nat /\ Walking.i \in Nat
<1>1. HeapOK /\ OutputOK /\ FramesOK /\ LabelInv /\ sLabelCount \in Nat
  BY DEF Inv, GenInv
<1>2. Walking \in GenFrames /\ WalkOK(Walking)
  BY <1>1, TopOK
<1> QED
  BY <1>1, <1>2 DEF GenFrames

\* The frame of the running function, further on.
LEMMA MovedAt ==
    ASSUME Inv, frames # << >>, NEW p \in GenPlaces, NEW w,
           w = [Walking EXCEPT !.at = p]
    PROVE  /\ w \in GenFrames /\ w.at = p /\ w.node = Walking.node /\ w.i = Walking.i
           /\ w.label = Walking.label /\ w.end = Walking.end
  BY Parts DEF GenFrames

LEMMA StartShows == Shows(<<Instr("_start:", 0, 0)>>, {}, {})
<1> DEFINE a == Instr("_start:", 0, 0)
<1>1. a \in Lines /\ a.op = "_start:"
  BY PlainOps DEF Instr, Lines
<1>2. a.op # "label" /\ a.op \notin Jumps
  BY <1>1 DEF Jumps
<1> HIDE DEF a
<1>3. <<a>> \in Seq(Lines) /\ DOMAIN <<a>> = {1} /\ <<a>>[1] = a
  BY <1>1, One
<1>4. Shows(<<a>>, {}, {})
  BY <1>2, <1>3 DEF Shows
<1> QED
  BY <1>4 DEF a

LEMMA GenerateInv ==
    ASSUME Inv, Generate
    PROVE  Inv'
<1> DEFINE c == [Walking EXCEPT !.at = "program"]
<1>1. frames # << >> /\ Walking.at = "generate" /\ TakeOver(c) /\ ScopesStay
  BY DEF Generate, GenAt
<1>2. OutputOK' /\ mOutput' = mOutput \o <<Instr("_start:", 0, 0)>>
  BY StartShows, Writes DEF Generate, Emit
<1>3. c \in GenFrames /\ c.at = "program" /\ c.i = Walking.i
  <2>1. "program" \in GenPlaces
    BY DEF GenPlaces
  <2> QED
    BY <1>1, <2>1, MovedAt
<1> HIDE DEF c
<1>4. WalkOK(c)
  BY <1>1, <1>3, Parts DEF WalkOK
<1>5. sLabelCount' = sLabelCount + 0 /\ 0 \in Nat
  BY <1>1, Parts DEF Generate, NoLabels
<1>6. Walking.at \in {"generate"} /\ Pending(Walking) = {}
  BY <1>1, PendingTable
<1>7. Pending(c) = {} /\ c.at \notin WhilePlaces /\ c.at \notin IfPredPlaces /\ c.at # "scope.stmt"
  BY <1>3, WalkPlacesPend DEF WalkPlaces
<1>8. GoesOnAs(c, {}, {}, 0)
  BY <1>6, <1>7 DEF GoesOnAs
<1> QED
  BY <1>1, <1>2, <1>3, <1>4, <1>5, <1>7, <1>8, StartShows, GenLastCallStep

LEMMA GenProgramInv ==
    ASSUME Inv, GenProgram
    PROVE  Inv'
<1>1. /\ frames # << >> /\ Walking.at = "program" /\ ScopesStay /\ EmitNothing /\ NoLabels
      /\ Walking.at # "scope.stmt"
  BY DEF GenProgram, GenAt
<1>2. Pending(Walking) = {} /\ Walking.at \notin WhilePlaces /\ Walking.at \notin IfPredPlaces
  BY <1>1, WalkPlacesPend DEF WalkPlaces
<1>3. CASE Walking.i < Len(mProg) /\ Descend([Walking EXCEPT !.i = @ + 1], StmtOf(mProg[Walking.i + 1]))
  <2> DEFINE w == [Walking EXCEPT !.i = @ + 1]
             c == StmtOf(mProg[Walking.i + 1])
  <2>1. mProg \in Seq(Nat) /\ Len(mProg) \in Nat /\ DOMAIN mProg = 1 .. Len(mProg)
    BY <1>1, Parts, LenProperties DEF HeapOK
  <2>2. w \in GenFrames /\ w.at = "program" /\ w.i = Walking.i + 1 /\ Walking.i \in Nat
    BY <1>1, Parts DEF GenFrames
  <2>3. Walking.i + 1 \in DOMAIN mProg
    BY <1>3, <2>1, <2>2
  <2>4. mProg[Walking.i + 1] \in DOMAIN nodes /\ nodes[mProg[Walking.i + 1]].kind \in StmtKinds
    BY <1>1, <2>3, Parts DEF HeapOK, WellFormedAst
  <2>5. c \in GenFrames /\ WalkOK(c) /\ c.at = "stmt"
    BY <1>1, <2>4, Parts, CalleeFrame, KindsTable DEF StmtOf
  <2> HIDE DEF w, c
  <2>6. WalkOK(w)
    BY <1>3, <2>1, <2>2 DEF WalkOK
  <2>7. Pending(w) = {} /\ w.at \notin WhilePlaces /\ w.at \notin IfPredPlaces /\ w.at # "scope.stmt"
    BY <2>2, WalkPlacesPend DEF WalkPlaces
  <2>8. c.at \in WalkPlaces
    BY <2>5 DEF WalkPlaces
  <2>9. Descend(w, c)
    BY <1>3 DEF w, c
  <2> QED
    BY <1>1, <1>2, <2>2, <2>5, <2>6, <2>7, <2>8, <2>9, QuietCall
<1>4. CASE Leave
  BY <1>1, <1>2, <1>4, QuietReturn
<1> QED
  BY <1>3, <1>4 DEF GenProgram

LEMMA GenExitInv ==
    ASSUME Inv, GenExit
    PROVE  Inv'
<1> DEFINE code == <<Op("mov rax, 60"), Op("pop rdi"), Op("syscall")>>
<1>1. /\ frames # << >> /\ Walking.at = "exit" /\ Leave /\ ScopesStay /\ NoLabels
      /\ EmitCounting(code, -1) /\ Walking.at # "scope.stmt"
  BY DEF GenExit, GenAt
<1>2. Shows(code, {}, {})
  BY <1>1, Parts, ExitShows
<1> HIDE DEF code
<1>3. OutputOK' /\ mOutput' = mOutput \o code
  BY <1>1, <1>2, Writes
<1>4. sLabelCount' = sLabelCount + 0 /\ 0 \in Nat
  BY <1>1, Parts DEF NoLabels
<1>5. Pending(Walking) = {}
  BY <1>1, PendingTable
<1> QED
  BY <1>1, <1>2, <1>3, <1>4, <1>5, GenReturnStep

LEMMA GenBlockEndInv ==
    ASSUME Inv, GenBlockEnd
    PROVE  Inv'
<1> DEFINE code == <<Op(";; /scope")>>
<1>1. /\ frames # << >> /\ Walking.at = "block" /\ Leave /\ ScopesStay /\ NoLabels
      /\ EmitCounting(code, 0) /\ Walking.at # "scope.stmt"
  BY DEF GenBlockEnd, GenAt, Emit
<1>2. Shows(code, {}, {})
  BY <1>1, Parts, PlainOps, OpShows
<1> HIDE DEF code
<1>3. OutputOK' /\ mOutput' = mOutput \o code
  BY <1>1, <1>2, Writes
<1>4. sLabelCount' = sLabelCount + 0 /\ 0 \in Nat
  BY <1>1, Parts DEF NoLabels
<1>5. Pending(Walking) = {}
  BY <1>1, PendingTable
<1> QED
  BY <1>1, <1>2, <1>3, <1>4, <1>5, GenReturnStep

LEMMA PlaceNames ==
    /\ "exit" \in GenPlaces /\ "block" \in GenPlaces /\ "if.expr" \in GenPlaces
    /\ "if.scope" \in GenPlaces /\ "if.pred" \in GenPlaces /\ "while.expr" \in GenPlaces
    /\ "while.scope" \in GenPlaces /\ "elif.expr" \in GenPlaces /\ "elif.scope" \in GenPlaces
    /\ "bin.right" \in GenPlaces /\ "bin.left" \in GenPlaces
    /\ "scope" \in GenPlaces /\ "scope.stmt" \in GenPlaces
  BY DEF GenPlaces

LEMMA CreatedIs ==
    ASSUME sLabelCount \in Nat
    PROVE  /\ Created(0) = {} /\ Created(1) = {sLabelCount}
           /\ Created(2) = {sLabelCount, sLabelCount + 1}
  BY DEF Created

\* A frame for a child of the node that the running function works on.
LEMMA KidFrame ==
    ASSUME Inv, frames # << >>, Walking.at \notin {"generate", "program"},
           NEW i \in 1 .. Len(Kids), NEW end \in Nat, NEW q,
           \/ q = "expr" /\ KidKinds(Kind, i) = ExprKinds
           \/ q = "scope" /\ KidKinds(Kind, i) = {"scope"}
           \/ q = "stmt" /\ KidKinds(Kind, i) = StmtKinds
           \/ q = "pred" /\ KidKinds(Kind, i) = IfPredKinds
    PROVE  /\ GenFrame(q, Kids[i], end) \in GenFrames /\ WalkOK(GenFrame(q, Kids[i], end))
           /\ GenFrame(q, Kids[i], end).at = q /\ GenFrame(q, Kids[i], end).end = end
<1>1. Kids[i] \in DOMAIN nodes /\ nodes[Kids[i]].kind \in KidKinds(Kind, i)
  BY Parts, NodeFacts
<1>2. q \in {"expr", "scope", "stmt", "pred"} /\ KidKinds(Kind, i) = KindsIn(q)
  BY KindsTable
<1>3. HeapOK
  BY Parts
<1> QED
  BY <1>1, <1>2, <1>3, CalleeFrame

LEMMA ExprKid ==
    ASSUME Inv, frames # << >>, Walking.at \notin {"generate", "program"},
           NEW i \in 1 .. Len(Kids), KidKinds(Kind, i) = ExprKinds
    PROVE  /\ ExprOf(Kids[i]) \in GenFrames /\ WalkOK(ExprOf(Kids[i]))
           /\ ExprOf(Kids[i]).at = "expr"
<1>1. /\ GenFrame("expr", Kids[i], 0) \in GenFrames /\ WalkOK(GenFrame("expr", Kids[i], 0))
      /\ GenFrame("expr", Kids[i], 0).at = "expr"
  BY KidFrame
<1> QED
  BY <1>1 DEF ExprOf

LEMMA ScopeKid ==
    ASSUME Inv, frames # << >>, Walking.at \notin {"generate", "program"},
           NEW i \in 1 .. Len(Kids), KidKinds(Kind, i) = {"scope"}
    PROVE  /\ ScopeOf(Kids[i]) \in GenFrames /\ WalkOK(ScopeOf(Kids[i]))
           /\ ScopeOf(Kids[i]).at = "scope"
<1>1. /\ GenFrame("scope", Kids[i], 0) \in GenFrames /\ WalkOK(GenFrame("scope", Kids[i], 0))
      /\ GenFrame("scope", Kids[i], 0).at = "scope"
  BY KidFrame
<1> QED
  BY <1>1 DEF ScopeOf

\* The running function, at another place of the same node.
LEMMA SameFunction ==
    ASSUME Inv, frames # << >>, Walking.at \notin {"generate", "program"},
           NEW w \in GenFrames, w.node = Walking.node, Kind \in KindsIn(w.at),
           w.at \notin {"generate", "program", "scope", "scope.stmt"}
    PROVE  WalkOK(w)
  BY Parts, SameNode

LEMMA MoveAndCall ==
    ASSUME Inv, frames # << >>, Walking.at \in WalkPlaces \ {"program"},
           NEW p \in WalkPlaces \ {"program", "scope"}, p \in GenPlaces, Kind \in KindsIn(p),
           NEW i \in 1 .. Len(Kids), KidKinds(Kind, i) = ExprKinds,
           Descend([Walking EXCEPT !.at = p], ExprOf(Kids[i])),
           EmitNothing, NoLabels, ScopesStay
    PROVE  Inv'
<1> DEFINE w == [Walking EXCEPT !.at = p]
           c == ExprOf(Kids[i])
<1>1. w \in GenFrames /\ w.at = p /\ w.node = Walking.node
  BY MovedAt
<1>2. Walking.at \notin {"generate", "program"} /\ Walking.at # "scope.stmt"
  BY DEF WalkPlaces
<1>3. c \in GenFrames /\ WalkOK(c) /\ c.at = "expr"
  BY <1>2, ExprKid
<1> HIDE DEF w, c
<1>4. p \notin {"generate", "program", "scope", "scope.stmt"}
  BY DEF WalkPlaces
<1>5. WalkOK(w)
  BY <1>1, <1>2, <1>4, SameFunction
<1>6. /\ Pending(w) = {} /\ w.at \notin WhilePlaces /\ w.at \notin IfPredPlaces
      /\ w.at # "scope.stmt" /\ Pending(Walking) = {}
  BY <1>1, WalkPlacesPend
<1>7. c.at \in WalkPlaces
  BY <1>3 DEF WalkPlaces
<1>8. Descend(w, c)
  BY DEF w, c
<1> QED
  BY <1>1, <1>2, <1>3, <1>5, <1>6, <1>7, <1>8, QuietCall

LEMMA GenStatementInv ==
    ASSUME Inv, GenStatement
    PROVE  Inv'
<1>1. /\ frames # << >> /\ Walking.at = "stmt" /\ ScopesStay
      /\ Walking.at # "scope.stmt" /\ Walking.at \notin {"generate", "program"}
  BY DEF GenStatement, GenAt
<1>2. /\ Pending(Walking) = {} /\ Walking.at \in WalkPlaces \ {"program"}
      /\ Walking.at \notin WhilePlaces /\ Walking.at \notin IfPredPlaces
  BY <1>1, WalkPlacesPend DEF WalkPlaces
<1>3. Len(Kids) \in KidCounts(Kind) /\ Len(Kids) \in Nat
  BY <1>1, Parts, NodeFacts
<1>4. sLabelCount \in Nat /\ Walking.node \in Nat
  BY <1>1, Parts
<1>5. CASE /\ Kind = "exit" /\ EmitNothing /\ NoLabels
           /\ Descend([Walking EXCEPT !.at = "exit"], ExprOf(Kids[1]))
  <2>1. "exit" \in WalkPlaces \ {"program", "scope"} /\ "exit" \in GenPlaces
    BY PlaceNames DEF WalkPlaces
  <2>2. Kind \in KindsIn("exit") /\ 1 \in 1 .. Len(Kids) /\ KidKinds(Kind, 1) = ExprKinds
    BY <1>3, <1>5, KindsTable, KidsTable
  <2> QED
    BY <1>1, <1>2, <1>5, <2>1, <2>2, MoveAndCall
<1>6. CASE Leave /\ EmitNothing /\ NoLabels
  BY <1>1, <1>2, <1>6, QuietReturn
<1>7. CASE /\ Kind = "scope" /\ Emit(<<Op(";; scope")>>) /\ NoLabels
           /\ Descend([Walking EXCEPT !.at = "block"], ScopeOf(Walking.node))
  <2> DEFINE w == [Walking EXCEPT !.at = "block"]
             c == ScopeOf(Walking.node)
             code == <<Op(";; scope")>>
  <2>1. w \in GenFrames /\ w.at = "block" /\ w.node = Walking.node
    BY <1>1, PlaceNames, MovedAt
  <2>2. Shows(code, {}, {})
    BY <1>4, PlainOps, OpShows
  <2>3. Walking.node \in DOMAIN nodes /\ nodes[Walking.node].kind \in KindsIn("scope")
    <3>1. Walking.node \in DOMAIN nodes
      BY <1>1, Parts, NodeFacts
    <3>2. KindsIn("scope") = {"scope"} /\ nodes[Walking.node].kind = "scope"
      BY <1>7, KindsTable DEF Kind
    <3> QED
      BY <3>1, <3>2
  <2>4. c \in GenFrames /\ WalkOK(c) /\ c.at = "scope"
    BY <1>1, <2>3, Parts, CalleeFrame DEF ScopeOf
  <2>5. Descend(w, c) /\ EmitCounting(code, 0) /\ NoLabels
    BY <1>7 DEF Emit
  <2> HIDE DEF w, c, code
  <2>6. Kind \in KindsIn(w.at)
    <3>1. Kind = "scope" /\ w.at = "block"
      BY <1>7, <2>1
    <3>2. KindsIn("block") = {"scope"}
      BY KindsTable
    <3> QED
      BY <3>1, <3>2
  <2>7. WalkOK(w)
    BY <1>1, <2>1, <2>6, SameFunction
  <2>8. OutputOK' /\ mOutput' = mOutput \o code
    BY <2>2, <2>5, Writes
  <2>9. sLabelCount' = sLabelCount + 0 /\ 0 \in Nat
    BY <1>4, <2>5 DEF NoLabels
  <2>10. /\ Pending(w) = {} /\ w.at \notin WhilePlaces /\ w.at \notin IfPredPlaces
         /\ w.at # "scope.stmt"
         /\ Pending(c) = {} /\ c.at \notin WhilePlaces /\ c.at \notin IfPredPlaces
         /\ c.at # "scope.stmt"
    BY <2>1, <2>4, WalkPlacesPend DEF WalkPlaces
  <2>11. GoesOnAs(w, {}, {}, 0)
    BY <1>2, <2>10 DEF GoesOnAs
  <2> QED
    BY <1>1, <2>1, <2>2, <2>4, <2>5, <2>7, <2>8, <2>9, <2>10, <2>11, GenCallStep
<1>8. CASE /\ Kind = "if" /\ EmitNothing /\ NoLabels
           /\ Descend([Walking EXCEPT !.at = "if.expr"], ExprOf(Kids[1]))
  <2>1. "if.expr" \in WalkPlaces \ {"program", "scope"} /\ "if.expr" \in GenPlaces
    BY PlaceNames DEF WalkPlaces
  <2>2. Kind \in KindsIn("if.expr") /\ 1 \in 1 .. Len(Kids) /\ KidKinds(Kind, 1) = ExprKinds
    BY <1>3, <1>8, KindsTable, KidsTable
  <2> QED
    BY <1>1, <1>2, <1>8, <2>1, <2>2, MoveAndCall
<1>9. CASE /\ Kind = "while" /\ CreateLabels(2) /\ Emit(<<Label(sLabelCount)>>)
           /\ Descend([Walking EXCEPT !.at = "while.expr", !.label = sLabelCount,
                                      !.end = sLabelCount + 1], ExprOf(Kids[1]))
  <2> DEFINE l == sLabelCount
             w == [Walking EXCEPT !.at = "while.expr", !.label = l, !.end = l + 1]
             c == ExprOf(Kids[1])
             code == <<Label(l)>>
  <2>1. l \in Nat /\ l + 1 \in Nat /\ Created(2) = {l, l + 1} /\ l # l + 1
    BY <1>4, CreatedIs
  <2>2. w \in GenFrames /\ w.at = "while.expr" /\ w.node = Walking.node /\ w.label = l
        /\ w.end = l + 1
    <3> HIDE DEF l
    <3>1. "while.expr" \in GenPlaces
      BY PlaceNames
    <3> QED
      BY <1>1, <2>1, <3>1, Parts DEF GenFrames
  <2>3. Shows(code, {l}, {})
    BY <1>4, LabelShows
  <2>4. 1 \in 1 .. Len(Kids) /\ KidKinds(Kind, 1) = ExprKinds
    BY <1>3, <1>9, KidsTable
  <2>5. c \in GenFrames /\ WalkOK(c) /\ c.at = "expr"
    BY <1>1, <2>4, ExprKid
  <2>6. /\ Descend(w, c) /\ EmitCounting(code, 0)
        /\ sLabelCount' = sLabelCount + 2 /\ 2 \in Nat
    BY <1>9 DEF Emit, CreateLabels
  <2> HIDE DEF w, c, code, l
  <2>7. Kind \in KindsIn(w.at)
    BY <1>9, <2>2, KindsTable
  <2>8. WalkOK(w)
    BY <1>1, <2>2, <2>7, SameFunction
  <2>9. OutputOK' /\ mOutput' = mOutput \o code
    BY <2>3, <2>6, Writes
  <2>10. /\ Pending(c) = {} /\ c.at \notin WhilePlaces /\ c.at \notin IfPredPlaces
         /\ c.at # "scope.stmt"
    BY <2>5, WalkPlacesPend DEF WalkPlaces
  <2>11. Pending(w) = {l + 1} /\ w.at \notin IfPredPlaces /\ w.at # "scope.stmt"
    BY <2>2, PendingTable DEF IfPredPlaces
  <2>12. GoesOnAs(w, {l}, {}, 2)
    BY <1>2, <2>1, <2>2, <2>11 DEF GoesOnAs
  <2> QED
    BY <1>1, <2>2, <2>3, <2>5, <2>6, <2>8, <2>9, <2>10, <2>11, <2>12, GenCallStep
<1> QED
  BY <1>5, <1>6, <1>7, <1>8, <1>9 DEF GenStatement

LEMMA MinusOne == -1 \in Int /\ 1 \in Nat
  OBVIOUS

\* The jump over a scope whose condition does not hold, to a label yet to write.
LEMMA TestStep ==
    ASSUME Inv, frames # << >>, Walking.at \in {"if.expr", "elif.expr"},
           NEW p \in {"if.scope", "elif.scope"}, p = "elif.scope" => Walking.at = "elif.expr",
           Kind \in KindsIn(p), 2 \in 1 .. Len(Kids), KidKinds(Kind, 2) = {"scope"},
           CreateLabels(1), ScopesStay,
           EmitCounting(<<Op("pop rax"), Op("test rax, rax"), Jump("jz", sLabelCount)>>, -1),
           Descend([Walking EXCEPT !.at = p, !.label = sLabelCount], ScopeOf(Kids[2]))
    PROVE  Inv'
<1> DEFINE l == sLabelCount
           w == [Walking EXCEPT !.at = p, !.label = l]
           c == ScopeOf(Kids[2])
           code == <<Op("pop rax"), Op("test rax, rax"), Jump("jz", l)>>
<1>1. /\ Walking.at \notin {"generate", "program"} /\ Walking.at # "scope.stmt"
      /\ Walking.at \notin {"if.scope", "elif.scope", "if.pred", "while.expr", "while.scope"}
  OBVIOUS
<1>2. Pending(Walking) = {} /\ Walking.node \in Nat /\ l \in Nat /\ Created(1) = {l}
  BY <1>1, Parts, PendingTable, CreatedIs
<1>3. w \in GenFrames /\ w.at = p /\ w.node = Walking.node /\ w.label = l
      /\ w.end = Walking.end
  <2> HIDE DEF l
  <2>1. p \in GenPlaces
    BY PlaceNames
  <2> QED
    BY <1>2, <2>1, Parts DEF GenFrames
<1>4. c \in GenFrames /\ WalkOK(c) /\ c.at = "scope"
  BY <1>1, ScopeKid
<1>5. Shows(code, {}, {l})
  BY <1>2, TestShows
<1>6. /\ Descend(w, c) /\ EmitCounting(code, -1) /\ -1 \in Int
      /\ sLabelCount' = sLabelCount + 1 /\ 1 \in Nat
  <2>1. Descend(w, c) /\ EmitCounting(code, -1)
    OBVIOUS
  <2>2. sLabelCount' = sLabelCount + 1
    BY DEF CreateLabels
  <2> HIDE DEF w, c, code
  <2> QED
    BY <2>1, <2>2, MinusOne
<1> HIDE DEF w, c, code, l
<1>7. WalkOK(w)
  BY <1>1, <1>3, SameFunction
<1>8. OutputOK' /\ mOutput' = mOutput \o code
  BY <1>5, <1>6, Writes
<1>9. /\ Pending(c) = {} /\ c.at \notin WhilePlaces /\ c.at \notin IfPredPlaces
      /\ c.at # "scope.stmt"
  <2>1. c.at \in WalkPlaces
    BY <1>4 DEF WalkPlaces
  <2> QED
    BY <2>1, WalkPlacesPend
<1>10. /\ Pending(w) = {l} /\ w.at \notin WhilePlaces /\ w.at # "scope.stmt"
       /\ w.at \in IfPredPlaces => w.at = "elif.scope"
  BY <1>3, PendingTable DEF IfPredPlaces, WhilePlaces
<1>11. "elif.expr" \in IfPredPlaces
  BY DEF IfPredPlaces
<1>12. GoesOnAs(w, {}, {l}, 1)
  BY <1>2, <1>3, <1>10, <1>11 DEF GoesOnAs
<1> QED
  BY <1>1, <1>3, <1>4, <1>5, <1>6, <1>7, <1>8, <1>9, <1>10, <1>12, GenCallStep

LEMMA GenIfTestInv ==
    ASSUME Inv, GenIfTest
    PROVE  Inv'
<1>1. frames # << >> /\ Walking.at = "if.expr" /\ Walking.at \notin {"generate", "program"}
  BY DEF GenIfTest, GenAt
<1>2. Kind \in KindsIn(Walking.at) /\ Len(Kids) \in KidCounts(Kind) /\ Len(Kids) \in Nat
  BY <1>1, Parts, NodeFacts
<1>3. Kind = "if"
  BY <1>1, <1>2, KindsTable
<1>4. Kind \in KindsIn("if.scope") /\ 2 \in 1 .. Len(Kids) /\ KidKinds(Kind, 2) = {"scope"}
  BY <1>2, <1>3, KindsTable, KidsTable
<1> QED
  BY <1>1, <1>4, TestStep DEF GenIfTest

LEMMA GenElifTestInv ==
    ASSUME Inv, GenElifTest
    PROVE  Inv'
<1>1. frames # << >> /\ Walking.at = "elif.expr" /\ Walking.at \notin {"generate", "program"}
  BY DEF GenElifTest, GenAt
<1>2. Kind \in KindsIn(Walking.at) /\ Len(Kids) \in KidCounts(Kind) /\ Len(Kids) \in Nat
  BY <1>1, Parts, NodeFacts
<1>3. Kind = "elif"
  BY <1>1, <1>2, KindsTable
<1>4. Kind \in KindsIn("elif.scope") /\ 2 \in 1 .. Len(Kids) /\ KidKinds(Kind, 2) = {"scope"}
  BY <1>2, <1>3, KindsTable, KidsTable
<1> QED
  BY <1>1, <1>4, TestStep DEF GenElifTest

LEMMA GenWhileTestInv ==
    ASSUME Inv, GenWhileTest
    PROVE  Inv'
<1> DEFINE l == Walking.end
           w == [Walking EXCEPT !.at = "while.scope"]
           c == ScopeOf(Kids[2])
           code == <<Op("pop rax"), Op("test rax, rax"), Jump("jz", l)>>
<1>1. /\ frames # << >> /\ Walking.at = "while.expr" /\ Walking.at \notin {"generate", "program"}
      /\ Walking.at # "scope.stmt" /\ ScopesStay /\ NoLabels
      /\ EmitCounting(code, -1) /\ -1 \in Int /\ Descend(w, c)
  <2>1. /\ frames # << >> /\ Walking.at = "while.expr"
        /\ ScopesStay /\ NoLabels /\ EmitCounting(code, -1) /\ Descend(w, c)
    BY DEF GenWhileTest, GenAt
  <2> HIDE DEF w, c, code
  <2>2. -1 \in Int
    OBVIOUS
  <2> QED
    BY <2>1, <2>2
<1>2. Kind \in KindsIn(Walking.at) /\ Len(Kids) \in KidCounts(Kind) /\ Len(Kids) \in Nat
  BY <1>1, Parts, NodeFacts
<1>3. Kind = "while"
  BY <1>1, <1>2, KindsTable
<1>4. Kind \in KindsIn("while.scope") /\ 2 \in 1 .. Len(Kids) /\ KidKinds(Kind, 2) = {"scope"}
  BY <1>2, <1>3, KindsTable, KidsTable
<1>5. w \in GenFrames /\ w.at = "while.scope" /\ w.node = Walking.node
      /\ w.label = Walking.label /\ w.end = l
  <2>1. "while.scope" \in GenPlaces
    BY PlaceNames
  <2> QED
    BY <1>1, <2>1, Parts DEF GenFrames
<1>6. c \in GenFrames /\ WalkOK(c) /\ c.at = "scope"
  BY <1>1, <1>4, ScopeKid
<1>7. Shows(code, {}, {l})
  BY <1>1, Parts, TestShows
<1>8. Pending(Walking) = {l}
  BY <1>1, PendingTable
<1> HIDE DEF w, c, code, l
<1>9. WalkOK(w)
  BY <1>1, <1>4, <1>5, SameFunction
<1>10. OutputOK' /\ mOutput' = mOutput \o code
  BY <1>1, <1>7, Writes
<1>11. sLabelCount' = sLabelCount + 0 /\ 0 \in Nat
  BY <1>1, Parts DEF NoLabels
<1>12. /\ Pending(c) = {} /\ c.at \notin WhilePlaces /\ c.at \notin IfPredPlaces
       /\ c.at # "scope.stmt"
  BY <1>6, WalkPlacesPend DEF WalkPlaces
<1>13. Pending(w) = {l} /\ w.at \notin IfPredPlaces /\ w.at # "scope.stmt"
  BY <1>5, PendingTable DEF IfPredPlaces
<1>14. Walking.label \in Defined
  <2>1. FramesOK /\ LabelInv
    BY <1>1, Parts
  <2>2. Len(frames) \in DOMAIN frames
    BY <1>1, <2>1, TopOK
  <2> QED
    BY <1>1, <2>1, <2>2 DEF LabelInv, Walking
<1>15. GoesOnAs(w, {}, {l}, 0)
  BY <1>5, <1>8, <1>13, <1>14 DEF GoesOnAs
<1> QED
  BY <1>1, <1>5, <1>6, <1>7, <1>9, <1>10, <1>11, <1>12, <1>13, <1>15, GenCallStep

\* A label that was pending, with nothing to jump over, is the last thing written.
LEMMA LastLabel ==
    ASSUME Inv, frames # << >>, Walking.at # "scope.stmt", NEW l \in Nat, Pending(Walking) = {l},
           Emit(<<Label(l)>>), Leave, NoLabels, ScopesStay
    PROVE  Inv'
<1> DEFINE code == <<Label(l)>>
<1>1. Shows(code, {l}, {})
  BY Parts, LabelShows
<1>2. EmitCounting(code, 0)
  BY DEF Emit
<1> HIDE DEF code
<1>3. OutputOK' /\ mOutput' = mOutput \o code
  BY <1>1, <1>2, Writes
<1>4. sLabelCount' = sLabelCount + 0 /\ 0 \in Nat
  BY Parts DEF NoLabels
<1> QED
  BY <1>1, <1>3, <1>4, GenReturnStep

LEMMA GenIfPredEndInv ==
    ASSUME Inv, GenIfPredEnd
    PROVE  Inv'
<1>1. frames # << >> /\ Walking.at = "if.pred" /\ Walking.at # "scope.stmt"
  BY DEF GenIfPredEnd, GenAt
<1>2. Pending(Walking) = {Walking.end} /\ Walking.end \in Nat
  BY <1>1, Parts, PendingTable
<1> QED
  BY <1>1, <1>2, LastLabel DEF GenIfPredEnd

\* A jump to a label that is defined or that a caller has still to write.
LEMMA LastJumpAndLabel ==
    ASSUME Inv, frames # << >>, Walking.at # "scope.stmt",
           NEW j \in Nat, NEW l \in Nat, Pending(Walking) = {l},
           j \in Defined \/ \E m \in 1 .. Len(frames) - 1 : j \in Pending(frames[m]),
           Emit(<<Jump("jmp", j), Label(l)>>), Leave, NoLabels, ScopesStay
    PROVE  Inv'
<1> DEFINE code == <<Jump("jmp", j), Label(l)>>
<1>1. Shows(code, {l}, {j})
  BY Parts, JumpLabelShows
<1>2. EmitCounting(code, 0)
  BY DEF Emit
<1> HIDE DEF code
<1>3. OutputOK' /\ mOutput' = mOutput \o code
  BY <1>1, <1>2, Writes
<1>4. sLabelCount' = sLabelCount + 0 /\ 0 \in Nat
  BY Parts DEF NoLabels
<1>5. /\ {l} \subseteq Pending(Walking) \cup Created(0) /\ Pending(Walking) \subseteq {l}
      /\ \A x \in {j} : \/ x \in Defined \/ x \in {l}
                        \/ \E m \in 1 .. Len(frames) - 1 : x \in Pending(frames[m])
  OBVIOUS
<1> QED
  BY <1>1, <1>3, <1>4, <1>5, GenReturnStep

LEMMA GenWhileEndInv ==
    ASSUME Inv, GenWhileEnd
    PROVE  Inv'
<1>1. frames # << >> /\ Walking.at = "while.scope" /\ Walking.at # "scope.stmt"
  BY DEF GenWhileEnd, GenAt
<1>2. Pending(Walking) = {Walking.end} /\ Walking.end \in Nat /\ Walking.label \in Nat
  BY <1>1, Parts, PendingTable
<1>3. Walking.label \in Defined
  <2>1. FramesOK /\ LabelInv
    BY <1>1, Parts
  <2>2. Len(frames) \in DOMAIN frames
    BY <1>1, <2>1, TopOK
  <2> QED
    BY <1>1, <2>1, <2>2 DEF LabelInv, Walking
<1> QED
  BY <1>1, <1>2, <1>3, LastJumpAndLabel DEF GenWhileEnd

LEMMA GenIfEndInv ==
    ASSUME Inv, GenIfEnd
    PROVE  Inv'
<1>1. /\ frames # << >> /\ Walking.at = "if.scope" /\ Walking.at # "scope.stmt" /\ ScopesStay
      /\ Walking.at \notin {"generate", "program"}
  BY DEF GenIfEnd, GenAt
<1>2. /\ Pending(Walking) = {Walking.label} /\ Walking.label \in Nat
      /\ sLabelCount \in Nat /\ Walking.node \in Nat
  BY <1>1, Parts, PendingTable
<1>3. Kind \in KindsIn(Walking.at) /\ Len(Kids) \in KidCounts(Kind) /\ Len(Kids) \in Nat
  BY <1>1, Parts, NodeFacts
<1>4. Kind = "if"
  BY <1>1, <1>3, KindsTable
<1>5. CASE Emit(<<Label(Walking.label)>>) /\ Leave /\ NoLabels
  BY <1>1, <1>2, <1>5, LastLabel
<1>6. CASE /\ Len(Kids) = 3 /\ CreateLabels(1)
           /\ Emit(<<Jump("jmp", sLabelCount), Label(Walking.label)>>)
           /\ Descend([Walking EXCEPT !.at = "if.pred", !.end = sLabelCount],
                      GenFrame("pred", Kids[3], sLabelCount))
  <2> DEFINE s == sLabelCount
             l == Walking.label
             w == [Walking EXCEPT !.at = "if.pred", !.end = s]
             c == GenFrame("pred", Kids[3], s)
             code == <<Jump("jmp", s), Label(l)>>
  <2>1. l # s /\ Created(1) = {s}
    <3>1. Len(frames) \in DOMAIN frames /\ FramesOK /\ LabelInv
      BY <1>1, Parts, TopOK
    <3>2. l \in Pending(frames[Len(frames)])
      BY <1>2 DEF Walking
    <3>3. l \in 0 .. s - 1
      BY <3>1, <3>2, PendingInRange
    <3>4. l # s
      BY <1>2, <3>3
    <3> QED
      BY <1>2, <3>4, CreatedIs
  <2>2. 3 \in 1 .. Len(Kids) /\ KidKinds(Kind, 3) = IfPredKinds
    BY <1>4, <1>6, KidsTable
  <2>3. c \in GenFrames /\ WalkOK(c) /\ c.at = "pred" /\ c.end = s
    BY <1>1, <1>2, <2>2, KidFrame
  <2>4. Shows(code, {l}, {s})
    BY <1>2, JumpLabelShows
  <2>5. w \in GenFrames /\ w.at = "if.pred" /\ w.node = Walking.node /\ w.end = s
    <3> HIDE DEF s
    <3>1. "if.pred" \in GenPlaces /\ s \in Nat
      BY <1>2, PlaceNames DEF s
    <3> QED
      BY <1>1, <3>1, Parts DEF GenFrames
  <2>6. Descend(w, c) /\ EmitCounting(code, 0)
    BY <1>6 DEF Emit
  <2>7. sLabelCount' = sLabelCount + 1
    BY <1>6 DEF CreateLabels
  <2> HIDE DEF w, c, code, l, s
  <2>8. Kind \in KindsIn(w.at)
    BY <1>4, <2>5, KindsTable
  <2>9. WalkOK(w)
    BY <1>1, <2>5, <2>8, SameFunction
  <2>10. OutputOK' /\ mOutput' = mOutput \o code
    BY <2>4, <2>6, Writes
  <2>11. c.at \notin WhilePlaces /\ c.at # "scope.stmt" /\ Pending(c) = {}
    BY <2>3, PendingTable DEF WhilePlaces
  <2>12. Pending(w) = {s} /\ w.at \notin IfPredPlaces /\ w.at \notin WhilePlaces
         /\ w.at # "scope.stmt"
    BY <2>5, PendingTable DEF IfPredPlaces, WhilePlaces
  <2>13. Pending(Walking) = {l}
    BY <1>2 DEF l
  <2>14. GoesOnAs(w, {l}, {s}, 1)
    BY <2>1, <2>12, <2>13 DEF GoesOnAs
  <2>15. c.at \in IfPredPlaces => w.at = "if.pred" /\ w.end = c.end
    BY <2>3, <2>5
  <2> QED
    BY <1>1, <2>3, <2>4, <2>5, <2>6, <2>7, <2>9, <2>10, <2>11, <2>12, <2>14, <2>15, MinusOne,
       GenCallStep
<1> QED
  BY <1>5, <1>6 DEF GenIfEnd

LEMMA GenIfpredInv ==
    ASSUME Inv, GenIfpred
    PROVE  Inv'
<1>1. /\ frames # << >> /\ Walking.at = "pred" /\ Walking.at # "scope.stmt" /\ ScopesStay
      /\ Walking.at \notin {"generate", "program"} /\ EmitNothing /\ NoLabels
  BY DEF GenIfpred, GenAt
<1>2. Pending(Walking) = {} /\ Walking.at \in IfPredPlaces
  BY <1>1, PendingTable DEF IfPredPlaces
<1>3. Len(Kids) \in KidCounts(Kind) /\ Len(Kids) \in Nat
  BY <1>1, Parts, NodeFacts
<1>4. CASE Kind = "elif" /\ Descend([Walking EXCEPT !.at = "elif.expr"], ExprOf(Kids[1]))
  <2> DEFINE w == [Walking EXCEPT !.at = "elif.expr"]
             c == ExprOf(Kids[1])
  <2>1. 1 \in 1 .. Len(Kids) /\ KidKinds(Kind, 1) = ExprKinds /\ Kind \in KindsIn("elif.expr")
    BY <1>3, <1>4, KidsTable, KindsTable
  <2>2. c \in GenFrames /\ WalkOK(c) /\ c.at = "expr"
    BY <1>1, <2>1, ExprKid
  <2>3. w \in GenFrames /\ w.at = "elif.expr" /\ w.node = Walking.node /\ w.end = Walking.end
    <3>1. "elif.expr" \in GenPlaces
      BY PlaceNames
    <3> QED
      BY <1>1, <3>1, Parts DEF GenFrames
  <2>4. Descend(w, c)
    BY <1>4
  <2> HIDE DEF w, c
  <2>5. WalkOK(w)
    BY <1>1, <2>1, <2>3, SameFunction
  <2>6. Pending(w) = {} /\ w.at \notin WhilePlaces /\ w.at # "scope.stmt"
    BY <2>3, PendingTable DEF WhilePlaces
  <2>7. c.at \in WalkPlaces
    BY <2>2 DEF WalkPlaces
  <2> QED
    BY <1>1, <1>2, <2>2, <2>3, <2>4, <2>5, <2>6, <2>7, QuietCall
<1>5. CASE Kind = "else" /\ TakeOver(ScopeOf(Kids[1]))
  <2>1. 1 \in 1 .. Len(Kids) /\ KidKinds(Kind, 1) = {"scope"}
    BY <1>3, <1>5, KidsTable
  <2>2. /\ ScopeOf(Kids[1]) \in GenFrames /\ WalkOK(ScopeOf(Kids[1]))
        /\ ScopeOf(Kids[1]).at = "scope"
    BY <1>1, <2>1, ScopeKid
  <2>3. ScopeOf(Kids[1]).at \in WalkPlaces
    BY <2>2 DEF WalkPlaces
  <2> QED
    BY <1>1, <1>2, <1>5, <2>2, <2>3, QuietLastCall
<1> QED
  BY <1>1, <1>4, <1>5 DEF GenIfpred

LEMMA GenElifEndInv ==
    ASSUME Inv, GenElifEnd
    PROVE  Inv'
<1> DEFINE l == Walking.label
           e == Walking.end
           code == <<Jump("jmp", e), Label(l)>>
<1>1. /\ frames # << >> /\ Walking.at = "elif.scope" /\ Walking.at # "scope.stmt" /\ ScopesStay
      /\ Walking.at \notin {"generate", "program"} /\ NoLabels /\ Emit(code)
  BY DEF GenElifEnd, GenAt
<1>2. /\ Pending(Walking) = {l} /\ l \in Nat /\ e \in Nat /\ Walking.at \in IfPredPlaces
      /\ FramesOK /\ LabelInv
  BY <1>1, Parts, PendingTable DEF IfPredPlaces
<1>3. Kind \in KindsIn(Walking.at) /\ Len(Kids) \in KidCounts(Kind) /\ Len(Kids) \in Nat
  BY <1>1, Parts, NodeFacts
<1>4. Kind = "elif"
  BY <1>1, <1>3, KindsTable
<1>5. \E m \in 1 .. Len(frames) - 1 : e \in Pending(frames[m])
  <2>1. /\ Len(frames) - 1 \in 1 .. Len(frames) - 1
        /\ frames[Len(frames) - 1].at = "if.pred"
        /\ frames[Len(frames) - 1].end = e
    BY <1>1, <1>2, CalledBack
  <2>2. Pending(frames[Len(frames) - 1]) = {e}
    BY <2>1, PendingTable
  <2> QED
    BY <2>1, <2>2
<1>6. CASE Leave
  BY <1>1, <1>2, <1>5, <1>6, LastJumpAndLabel
<1>7. CASE Len(Kids) = 3 /\ TakeOver(GenFrame("pred", Kids[3], e))
  <2> DEFINE c == GenFrame("pred", Kids[3], e)
  <2>1. 3 \in 1 .. Len(Kids) /\ KidKinds(Kind, 3) = IfPredKinds
    BY <1>4, <1>7, KidsTable
  <2>2. c \in GenFrames /\ WalkOK(c) /\ c.at = "pred" /\ c.end = e
    <3>1. e \in Nat
      BY <1>2
    <3> HIDE DEF e
    <3>2. /\ GenFrame("pred", Kids[3], e) \in GenFrames /\ WalkOK(GenFrame("pred", Kids[3], e))
          /\ GenFrame("pred", Kids[3], e).at = "pred" /\ GenFrame("pred", Kids[3], e).end = e
      BY <1>1, <2>1, <3>1, KidFrame
    <3> QED
      BY <3>2
  <2>3. Shows(code, {l}, {e}) /\ EmitCounting(code, 0)
    BY <1>1, <1>2, Parts, JumpLabelShows DEF Emit
  <2>4. TakeOver(c)
    BY <1>7
  <2> HIDE DEF c, code, l, e
  <2>5. OutputOK' /\ mOutput' = mOutput \o code
    BY <2>3, Writes
  <2>6. sLabelCount' = sLabelCount + 0 /\ 0 \in Nat
    BY <1>1, Parts DEF NoLabels
  <2>7. Pending(c) = {} /\ c.at \notin WhilePlaces /\ c.at # "scope.stmt"
    BY <2>2, PendingTable DEF WhilePlaces
  <2>8. GoesOnAs(c, {l}, {e}, 0)
    BY <1>2, <1>5, <2>2, <2>7 DEF GoesOnAs, e
  <2> QED
    BY <1>1, <2>2, <2>3, <2>4, <2>5, <2>6, <2>7, <2>8, GenLastCallStep
<1> QED
  BY <1>6, <1>7 DEF GenElifEnd

LEMMA GenExpressionInv ==
    ASSUME Inv, GenExpression
    PROVE  Inv'
<1>1. /\ frames # << >> /\ Walking.at = "expr" /\ Walking.at # "scope.stmt" /\ ScopesStay
      /\ Walking.at \notin {"generate", "program"} /\ EmitNothing /\ NoLabels
  BY DEF GenExpression, GenAt
<1>2. Walking.at \in WalkPlaces \ {"program"} /\ Pending(Walking) = {}
  BY <1>1, WalkPlacesPend DEF WalkPlaces
<1>3. Len(Kids) \in KidCounts(Kind) /\ Len(Kids) \in Nat
  BY <1>1, Parts, NodeFacts
<1>4. CASE Leave
  BY <1>1, <1>2, <1>4, QuietReturn
<1>5. CASE Kind = "paren" /\ TakeOver(ExprOf(Kids[1]))
  <2>1. 1 \in 1 .. Len(Kids) /\ KidKinds(Kind, 1) = ExprKinds
    BY <1>3, <1>5, KidsTable
  <2>2. /\ ExprOf(Kids[1]) \in GenFrames /\ WalkOK(ExprOf(Kids[1]))
        /\ ExprOf(Kids[1]).at = "expr"
    BY <1>1, <2>1, ExprKid
  <2>3. ExprOf(Kids[1]).at \in WalkPlaces
    BY <2>2 DEF WalkPlaces
  <2> QED
    BY <1>1, <1>2, <1>5, <2>2, <2>3, QuietLastCall
<1>6. CASE /\ Kind \in BinExprKinds
           /\ Descend([Walking EXCEPT !.at = "bin.right"], ExprOf(Kids[2]))
  <2>1. "bin.right" \in WalkPlaces \ {"program", "scope"} /\ "bin.right" \in GenPlaces
    BY PlaceNames DEF WalkPlaces
  <2>2. KidCounts(Kind) = {2} /\ KidKinds(Kind, 2) = ExprKinds
    BY <1>6, KidsTable
  <2>3. 2 \in 1 .. Len(Kids) /\ Kind \in KindsIn("bin.right")
    BY <1>3, <1>6, <2>2, KindsTable
  <2> QED
    BY <1>1, <1>2, <1>6, <2>1, <2>2, <2>3, MoveAndCall
<1> QED
  BY <1>4, <1>5, <1>6 DEF GenExpression

LEMMA GenBinRightInv ==
    ASSUME Inv, GenBinRight
    PROVE  Inv'
<1>1. /\ frames # << >> /\ Walking.at = "bin.right" /\ ScopesStay
      /\ Walking.at \notin {"generate", "program"} /\ EmitNothing /\ NoLabels
      /\ Descend([Walking EXCEPT !.at = "bin.left"], ExprOf(Kids[1]))
  BY DEF GenBinRight, GenAt
<1>2. Walking.at \in WalkPlaces \ {"program"}
  BY <1>1 DEF WalkPlaces
<1>3. Kind \in KindsIn(Walking.at) /\ Len(Kids) \in KidCounts(Kind) /\ Len(Kids) \in Nat
  BY <1>1, Parts, NodeFacts
<1>4. Kind \in BinExprKinds
  BY <1>1, <1>3, KindsTable
<1>5. "bin.left" \in WalkPlaces \ {"program", "scope"} /\ "bin.left" \in GenPlaces
  BY PlaceNames DEF WalkPlaces
<1>6. KidCounts(Kind) = {2} /\ KidKinds(Kind, 1) = ExprKinds
  BY <1>4, KidsTable
<1>7. 1 \in 1 .. Len(Kids) /\ Kind \in KindsIn("bin.left")
  BY <1>3, <1>4, <1>6, KindsTable
<1> QED
  BY <1>1, <1>2, <1>5, <1>6, <1>7, MoveAndCall

LEMMA GenOperationInv ==
    ASSUME Inv, GenOperation
    PROVE  Inv'
<1> DEFINE code == OperationCode(Kind)
           count == LabelsOf(Kind)
<1>1. /\ frames # << >> /\ Walking.at = "bin.left" /\ Walking.at # "scope.stmt" /\ ScopesStay
      /\ Walking.at \notin {"generate", "program"} /\ Leave
      /\ EmitCounting(code, -1) /\ sLabelCount' = sLabelCount + count
  BY DEF GenOperation, GenAt, CreateLabels
<1>2. Kind \in KindsIn(Walking.at)
  BY <1>1, Parts, NodeFacts
<1>3. Kind \in BinExprKinds
  BY <1>1, <1>2, KindsTable
<1>4. count \in Nat /\ Shows(code, Created(count), Created(count))
  BY <1>1, <1>3, Parts, OperationShows DEF Created
<1>5. Pending(Walking) = {}
  BY <1>1, WalkPlacesPend DEF WalkPlaces
<1> HIDE DEF code, count
<1>6. OutputOK' /\ mOutput' = mOutput \o code
  BY <1>1, <1>4, Writes, MinusOne
<1> QED
  BY <1>1, <1>4, <1>5, <1>6, GenReturnStep

-----------------------------------------------------------------------------
(* The actions that begin and end scopes.                                   *)

LEMMA InScopesFinite ==
    ASSUME FramesOK
    PROVE  IsFiniteSet(InScopes) /\ Cardinality(InScopes) \in Nat
<1>1. DOMAIN frames = 1 .. Len(frames) /\ Len(frames) \in Nat
  BY LenProperties DEF FramesOK
<1>2. IsFiniteSet(1 .. Len(frames))
  BY <1>1, FS_Interval
<1>3. InScopes \subseteq 1 .. Len(frames)
  BY <1>1 DEF InScopes
<1>4. IsFiniteSet(InScopes)
  BY <1>2, <1>3, FS_Subset
<1> QED
  BY <1>4, FS_CardinalityType

LEMMA GenScopeInv ==
    ASSUME Inv, GenScope
    PROVE  Inv'
<1>1. /\ frames # << >> /\ Walking.at = "scope" /\ Walking.at # "scope.stmt"
      /\ Walking.at \notin {"generate", "program"} /\ EmitNothing /\ NoLabels
      /\ UNCHANGED <<mVars, nodes, mProg>>
  BY DEF GenScope, GenAt
<1>2. Walking.at \in WalkPlaces /\ Pending(Walking) = {}
  BY <1>1, WalkPlacesPend DEF WalkPlaces
<1>3. CASE Leave /\ UNCHANGED mScopes
  <2>1. ScopesStay
    BY <1>1, <1>3 DEF ScopesStay
  <2> QED
    BY <1>1, <1>2, <1>3, <2>1, QuietReturn
<1>4. CASE /\ Walking.i < Len(Kids) /\ mScopes' = Append(mScopes, Len(mVars))
           /\ Descend([Walking EXCEPT !.at = "scope.stmt", !.i = @ + 1],
                      StmtOf(Kids[Walking.i + 1]))
  <2> DEFINE w == [Walking EXCEPT !.at = "scope.stmt", !.i = @ + 1]
             c == StmtOf(Kids[Walking.i + 1])
  <2>1. Kind \in KindsIn(Walking.at) /\ Len(Kids) \in Nat /\ Walking.node \in DOMAIN nodes
    BY <1>1, Parts, NodeFacts
  <2>2. Kind = "scope"
    BY <1>1, <2>1, KindsTable
  <2>3. Walking.i + 1 \in 1 .. Len(Kids) /\ KidKinds(Kind, Walking.i + 1) = StmtKinds
    <3>1. Walking.i \in Nat
      BY <1>1, Parts
    <3>2. \A i : KidKinds(Kind, i) = StmtKinds
      BY <2>2, KidsTable
    <3>3. Walking.i + 1 \in 1 .. Len(Kids)
      BY <1>4, <2>1, <3>1
    <3> QED
      BY <3>2, <3>3
  <2>4. c \in GenFrames /\ WalkOK(c) /\ c.at = "stmt"
    <3> DEFINE j == Walking.i + 1
    <3>1. j \in 1 .. Len(Kids) /\ KidKinds(Kind, j) = StmtKinds
      BY <2>3
    <3>2. c = GenFrame("stmt", Kids[j], 0)
      BY DEF StmtOf
    <3> HIDE DEF j, c
    <3>3. /\ GenFrame("stmt", Kids[j], 0) \in GenFrames
          /\ WalkOK(GenFrame("stmt", Kids[j], 0))
          /\ GenFrame("stmt", Kids[j], 0).at = "stmt"
      BY <1>1, <3>1, KidFrame
    <3> QED
      BY <3>2, <3>3
  <2>5. w \in GenFrames /\ w.at = "scope.stmt" /\ w.node = Walking.node /\ w.i = Walking.i + 1
    <3>1. "scope.stmt" \in GenPlaces
      BY PlaceNames
    <3>2. Walking \in GenFrames
      BY <1>1, Parts
    <3> DEFINE j == Walking.i + 1
    <3>3. j \in Nat
      BY <1>1, Parts
    <3>4. w = [Walking EXCEPT !.at = "scope.stmt", !.i = j]
      OBVIOUS
    <3> HIDE DEF w, j
    <3>5. w \in GenFrames /\ w.at = "scope.stmt" /\ w.node = Walking.node /\ w.i = j
      BY <3>1, <3>2, <3>3, <3>4 DEF GenFrames
    <3> QED
      BY <3>5 DEF j
  <2>6. Descend(w, c)
    BY <1>4
  <2> HIDE DEF w, c
  <2>7. w.i <= Len(Kids)
    BY <2>3, <2>5
  <2>8. KindsIn(w.at) = {"scope"}
    BY <2>5, KindsTable
  <2>9. WalkOK(w)
    BY <2>1, <2>2, <2>5, <2>7, <2>8 DEF WalkOK, Kids, Kind
  <2>10. /\ HeapOK /\ OutputOK /\ ScopesOK /\ sLabelCount \in Nat /\ FramesOK /\ ScopesNest
         /\ LabelInv
    BY DEF Inv, GenInv
  <2>11. FramesOK' /\ InScopes' = InScopes \cup {Len(frames)} /\ Len(frames) \notin InScopes
    BY <1>1, <2>4, <2>5, <2>6, <2>9, <2>10, DescendOK
  <2>12. Cardinality(InScopes \cup {Len(frames)}) = Cardinality(InScopes) + 1
    BY <2>10, <2>11, InScopesFinite, FS_AddElement
  <2>13. mScopes' \in Seq({0}) /\ Len(mScopes') = Len(mScopes) + 1
    <3>1. mScopes \in Seq({0}) /\ mScopes' = Append(mScopes, 0) /\ 0 \in {0}
      BY <1>4, <2>10, EmptySeq DEF ScopesOK
    <3> QED
      BY <3>1, AppendProperties
  <2>14. ScopesOK' /\ ScopesNest'
    BY <1>1, <2>10, <2>11, <2>12, <2>13 DEF ScopesOK, ScopesNest, InScopes
  <2>15. HeapOK'
    BY <1>1, <2>10, HeapStays
  <2>16. /\ OutputOK' /\ mOutput' = mOutput \o << >> /\ Shows(<< >>, {}, {})
    BY <1>1, Silent
  <2>17. sLabelCount' = sLabelCount + 0 /\ 0 \in Nat
    BY <1>1, <2>10 DEF NoLabels
  <2>18. Pending(w) = {} /\ w.at \notin WhilePlaces /\ w.at \notin IfPredPlaces
    BY <2>5, PendingTable DEF WhilePlaces, IfPredPlaces
  <2>19. c.at \in WalkPlaces
    BY <2>4 DEF WalkPlaces
  <2>20. Pending(c) = {} /\ c.at \notin WhilePlaces /\ c.at \notin IfPredPlaces
    BY <2>19, WalkPlacesPend
  <2>21. GoesOnAs(w, {}, {}, 0)
    BY <1>2, <2>18 DEF GoesOnAs
  <2>22. LabelInv'
    BY <1>1, <2>4, <2>5, <2>6, <2>16, <2>17, <2>20, <2>21, DescendLabels
  <2> QED
    BY <2>10, <2>11, <2>14, <2>15, <2>16, <2>17, <2>22 DEF Inv, GenInv
<1> QED
  BY <1>3, <1>4 DEF GenScope

LEMMA GenEndScopeInv ==
    ASSUME Inv, GenEndScope
    PROVE  Inv'
<1> DEFINE c == [Walking EXCEPT !.at = "scope"]
           popCount == Len(mVars) - mScopes[Len(mScopes)]
<1>1. /\ frames # << >> /\ Walking.at = "scope.stmt" /\ TakeOver(c)
      /\ Walking.at \notin {"generate", "program"} /\ NoLabels /\ UNCHANGED <<nodes, mProg>>
      /\ EmitCounting(IF popCount # 0 THEN <<Op("add rsp")>> ELSE << >>, -popCount)
      /\ mVars' = SubSeq(mVars, 1, Len(mVars) - popCount)
      /\ mScopes' = SubSeq(mScopes, 1, Len(mScopes) - 1)
  BY DEF GenEndScope, GenAt
<1>2. /\ HeapOK /\ OutputOK /\ ScopesOK /\ sLabelCount \in Nat /\ FramesOK /\ ScopesNest
      /\ LabelInv
  BY DEF Inv, GenInv
<1>3. c \in GenFrames /\ c.at = "scope" /\ c.node = Walking.node /\ c.i = Walking.i
  <2>1. "scope" \in GenPlaces
    BY PlaceNames
  <2> QED
    BY <1>1, <2>1, Parts DEF GenFrames
<1>4. WalkOK(c)
  <2>1. /\ Kind \in KindsIn(Walking.at) /\ Walking.node \in DOMAIN nodes
        /\ Walking.i <= Len(Kids)
    BY <1>1, Parts, NodeFacts
  <2>2. KindsIn(Walking.at) = {"scope"} /\ KindsIn("scope") = {"scope"}
    BY <1>1, KindsTable
  <2> HIDE DEF c
  <2> QED
    BY <1>3, <2>1, <2>2 DEF WalkOK, Kids, Kind
<1> HIDE DEF c
<1>5. FramesOK' /\ InScopes' = InScopes \ {Len(frames)} /\ Len(frames) \in InScopes
  BY <1>1, <1>2, <1>3, <1>4, TakeOverOK
<1>6. IsFiniteSet(InScopes) /\ Cardinality(InScopes) \in Nat
  BY <1>2, InScopesFinite
<1>7. Cardinality(InScopes \ {Len(frames)}) = Cardinality(InScopes) - 1
  BY <1>5, <1>6, FS_RemoveElement
<1>8. IsFiniteSet(InScopes \ {Len(frames)})
  BY <1>6, FS_Subset
<1>9. Cardinality(InScopes \ {Len(frames)}) \in Nat
  BY <1>8, FS_CardinalityType
<1>10. mScopes \in Seq({0}) /\ Len(mScopes) = Cardinality(InScopes) /\ Len(mScopes) - 1 \in Nat
  BY <1>2, <1>6, <1>7, <1>9 DEF ScopesOK, ScopesNest, InScopes
<1>11. mScopes[Len(mScopes)] = 0 /\ Len(mVars) = 0 /\ mVars = << >>
  <2>1. Len(mScopes) \in 1 .. Len(mScopes)
    BY <1>10, LenProperties
  <2>2. mScopes[Len(mScopes)] \in {0}
    BY <1>10, <2>1, ElementOfSeq
  <2> QED
    BY <1>2, <2>2, EmptySeq DEF ScopesOK
<1>12. popCount = 0
  BY <1>11
<1>13. EmitCounting(<< >>, 0) /\ 0 \in Int
  <2>1. (IF popCount # 0 THEN <<Op("add rsp")>> ELSE << >>) = << >>
    BY <1>12
  <2>2. -popCount = 0 /\ 0 \in Int
    BY <1>12
  <2> HIDE DEF popCount
  <2>3. EmitCounting(IF popCount # 0 THEN <<Op("add rsp")>> ELSE << >>, -popCount)
    BY <1>1
  <2> QED
    BY <2>1, <2>2, <2>3, Zenon
<1>14. mVars' = << >>
  BY <1>1, <1>11, <1>12, SubSeqEmpty
<1>15. mScopes' \in Seq({0}) /\ Len(mScopes') = Len(mScopes) - 1
  <2>1. Len(mScopes) - 1 < Len(mScopes) /\ Len(mScopes) - 1 \in Nat
    BY <1>10
  <2>2. mScopes' \in Seq({0}) /\ DOMAIN mScopes' = 1 .. Len(mScopes) - 1
    <3>1. mScopes # << >>
      BY <2>1, EmptySeq
    <3>2. mScopes' = Popped(mScopes)
      BY <1>1 DEF Popped
    <3>3. Popped(mScopes) \in Seq({0}) /\ DOMAIN Popped(mScopes) = 1 .. Len(mScopes) - 1
      BY <1>10, <3>1, PoppedIs
    <3> QED
      BY <3>2, <3>3
  <2> QED
    BY <2>1, <2>2, LenProperties
<1>16. ScopesOK' /\ ScopesNest'
  BY <1>5, <1>7, <1>10, <1>14, <1>15 DEF ScopesOK, ScopesNest, InScopes
<1>17. HeapOK'
  BY <1>1, <1>2, HeapStays
<1>18. Shows(<< >>, {}, {})
  BY EmptyShows
<1>19. OutputOK' /\ mOutput' = mOutput \o << >>
  BY <1>13, <1>18, Writes
<1>20. sLabelCount' = sLabelCount + 0 /\ 0 \in Nat
  <2>1. sLabelCount' = sLabelCount /\ sLabelCount \in Nat
    BY <1>1, <1>2 DEF NoLabels
  <2> QED
    BY <2>1
<1>21. Pending(c) = {} /\ c.at \notin WhilePlaces /\ c.at \notin IfPredPlaces
  BY <1>3, PendingTable DEF WhilePlaces, IfPredPlaces
<1>22. Pending(Walking) = {}
  BY <1>1, PendingTable
<1>23. GoesOnAs(c, {}, {}, 0)
  BY <1>21, <1>22 DEF GoesOnAs
<1>24. LabelInv'
  BY <1>1, <1>3, <1>18, <1>19, <1>20, <1>23, TakeOverLabels
<1> QED
  BY <1>2, <1>5, <1>16, <1>17, <1>19, <1>20, <1>24 DEF Inv, GenInv

-----------------------------------------------------------------------------

\* Whatever well-formed tree the constructor is given, and wherever it comes from.
LEMMA ConstructedInv == HeapOK /\ Constructed => Inv
<1> SUFFICES ASSUME HeapOK, Constructed
             PROVE  Inv
  OBVIOUS
<1>1. /\ mOutput = << >> /\ mStackSize = 0 /\ mVars = << >> /\ mScopes = << >>
      /\ sLabelCount = 0 /\ frames = <<GenFrame("generate", 0, 0)>>
  BY DEF Constructed
<1>2. HeapOK
  OBVIOUS
<1>3. OutputOK
  BY <1>1, SizeAssumption, EmptySeq DEF OutputOK
<1>4. ScopesOK
  BY <1>1, EmptySeq DEF ScopesOK
<1> DEFINE f == GenFrame("generate", 0, 0)
<1>5. f \in GenFrames /\ f.at = "generate" /\ f.i = 0
  <2>1. "generate" \in GenPlaces
    BY DEF GenPlaces
  <2> QED
    BY <2>1 DEF GenFrame, GenFrames
<1>6. frames = <<f>>
  BY <1>1
<1> HIDE DEF f
<1>7. frames \in Seq(GenFrames) /\ DOMAIN frames = {1} /\ frames[1] = f
  BY <1>5, <1>6, One
<1>8. 0 <= Len(mProg)
  BY <1>2, LenProperties DEF HeapOK
<1>9. WalkOK(f)
  BY <1>5, <1>8 DEF WalkOK
<1>10. FramesOK
  BY <1>7, <1>9 DEF FramesOK
<1>11. InScopes = {}
  BY <1>5, <1>7 DEF InScopes
<1>12. ScopesNest
  BY <1>1, <1>11, EmptySeq, FS_EmptySet DEF ScopesNest, InScopes
<1>13. Definitions = {} /\ JumpsOut = {} /\ Defined = {}
  BY <1>1, EmptySeq DEF Definitions, JumpsOut, Defined
<1>14. Pending(f) = {} /\ f.at \notin {"pred", "elif.expr", "elif.scope"}
       /\ f.at # "while.scope" /\ f.at # "while.expr"
  BY <1>5, PendingTable
<1>15. LabelsDefinedOnce
  BY <1>13 DEF LabelsDefinedOnce
<1>16. LabelInv
  BY <1>7, <1>13, <1>14, <1>15 DEF LabelInv
<1> QED
  BY <1>1, <1>2, <1>3, <1>4, <1>10, <1>12, <1>16 DEF Inv, GenInv

LEMMA InitInv == GeneratorInit => Inv
  BY ConstructedInv, TreesAssumption DEF GeneratorInit, HeapOK

LEMMA StepInv == Inv /\ [GeneratorNext]_gvars => Inv'
<1> SUFFICES ASSUME Inv, [GeneratorNext]_gvars
             PROVE  Inv'
  OBVIOUS
<1>1. CASE GenStatements
  BY <1>1, GenStatementInv, GenExitInv, GenBlockEndInv, GenIfTestInv, GenIfEndInv,
     GenIfPredEndInv, GenWhileTestInv, GenWhileEndInv DEF GenStatements
<1>2. CASE GenScopes
  BY <1>2, GenScopeInv, GenEndScopeInv DEF GenScopes
<1>3. CASE GenIfpreds
  BY <1>3, GenIfpredInv, GenElifTestInv, GenElifEndInv DEF GenIfpreds
<1>4. CASE GenExpressions
  BY <1>4, GenExpressionInv, GenBinRightInv, GenOperationInv DEF GenExpressions
<1>5. CASE UNCHANGED gvars
  <2>1. UNCHANGED <<mOutput, mStackSize, mVars, mScopes, sLabelCount, frames, nodes, mProg>>
    BY <1>5 DEF gvars
  <2>2. HeapOK'
    BY <2>1, HeapStays DEF Inv, GenInv
  <2>3. OutputOK' /\ ScopesOK' /\ sLabelCount' \in Nat /\ ScopesNest'
    BY <2>1 DEF Inv, GenInv, OutputOK, ScopesOK, ScopesNest
  <2>4. FramesOK'
    BY <2>1 DEF Inv, GenInv, FramesOK, WalkOK
  <2>5. LabelInv'
    BY <2>1 DEF Inv, LabelInv, LabelsDefinedOnce, Defined, Definitions, JumpsOut
  <2> QED
    BY <2>2, <2>3, <2>4, <2>5 DEF Inv, GenInv
<1> QED
  BY <1>1, <1>2, <1>3, <1>4, <1>5, GenerateInv, GenProgramInv
     DEF GeneratorNext, GeneratorStep, GeneratorStopped

\* In every reachable state Inv holds, whatever trees are given.
LEMMA InvHolds == GeneratorSpec => []Inv
  BY InitInv, StepInv, PTL DEF GeneratorSpec

\* The generator's variables keep their types, and each function on its stack works
\* on a node of the variant it was written for (generator.cpp:24-371).
THEOREM GenTypeTheorem == GeneratorSpec => []GenTypeOK
<1>1. Inv => GenTypeOK
  BY DEF Inv, GenInv, HeapOK, OutputOK, ScopesOK, FramesOK, GenTypeOK, Lines
<1> QED
  BY <1>1, InvHolds, PTL

\* beginScope() and endScope() nest, however deep statements and scopes do
\* (generator.cpp:140-147).
THEOREM ScopesTheorem == GeneratorSpec => []ScopesNest
<1>1. Inv => ScopesNest
  BY DEF Inv, GenInv
<1> QED
  BY <1>1, InvHolds, PTL

\* Every label that createLabel() handed out is written already or is one running
\* function's to write, and a jump out of what is written leads to such a label:
\* genIfpred is given the label of the `if` right below it (generator.cpp:64-99,
\* 149-185, 248-360, 403-410).
THEOREM PendingTheorem == GeneratorSpec => []LabelInv
<1>1. Inv => LabelInv
  BY DEF Inv
<1> QED
  BY <1>1, InvHolds, PTL

\* No two lines of the output define one label (generator.cpp:403-410, generator.hpp:68).
THEOREM LabelsTheorem == GeneratorSpec => []LabelsDefinedOnce
<1>1. Inv => LabelsDefinedOnce
  BY DEF Inv, LabelInv
<1> QED
  BY <1>1, InvHolds, PTL

\* When no function runs, no label is left to be written.
LEMMA JumpsAreLanded == Inv => JumpsLand
<1> SUFFICES ASSUME Inv, frames = << >>, NEW k \in JumpsOut
             PROVE  mOutput[k].label \in Defined
  BY DEF JumpsLand
<1>1. DOMAIN frames = {}
  BY EmptySeq
<1> QED
  BY <1>1 DEF Inv, LabelInv

\* Every jump of the finished output goes to a label that a line of it defines
\* (generator.cpp:64-99, 149-185, 248-360).
THEOREM JumpsTheorem == GeneratorSpec => []JumpsLand
  BY JumpsAreLanded, InvHolds, PTL
=============================================================================
