------------------------- MODULE DeviceMemoryProofs --------------------------
(***************************************************************************)
(* Device memory for every model size, prompt length, number of passes and *)
(* kind of process: the buffer pool stays sound, temporaries of a layer    *)
(* never overlap, and what outlives a pass survives it, unless the pass    *)
(* asks for exactly the size of a pooled long-lived buffer or overruns the *)
(* cache.                                                                  *)
(***************************************************************************)
EXTENDS DeviceMemory, FiniteSetTheorems, SequenceTheorems, WellFoundedInduction, TLAPS

\* A set of natural numbers that is not empty has a least element.
LEMMA NatMin ==
  ASSUME NEW T, T \subseteq Nat, T # {}
  PROVE  \E x \in T : \A y \in T : x <= y
<1>1. IsWellFoundedOn(OpToRel(<, Nat), Nat)
  BY NatLessThanWellFounded
<1>2. PICK x \in T : \A y \in T : ~ (<<y, x>> \in OpToRel(<, Nat))
  BY <1>1, WFMin
<1>3. \A y \in T : y < x => <<y, x>> \in OpToRel(<, Nat)
  BY DEF OpToRel
<1>4. \A y \in T : ~(y < x)
  BY <1>2, <1>3, Zenon
<1> QED
  BY <1>4

\* Induction over the natural numbers, for a set.
LEMMA NatInd ==
  ASSUME NEW T, T \subseteq Nat, 0 \in T, \A n \in T : n + 1 \in T
  PROVE  T = Nat
<1> SUFFICES ASSUME Nat \ T # {} PROVE FALSE
  OBVIOUS
<1>1. PICK x \in Nat \ T : \A y \in Nat \ T : x <= y
  BY NatMin
<1>2. x # 0 /\ x - 1 \in Nat /\ x = (x-1) + 1
  OBVIOUS
<1>3. x - 1 \in T
  BY <1>1, <1>2
<1> QED BY <1>2, <1>3

\* A set of numbers below a bound that is not empty has a greatest element.
LEMMA NatMax ==
  ASSUME NEW n \in Nat, NEW T, T \subseteq 1..n, T # {}
  PROVE  \E x \in T : \A y \in T : y <= x
<1> DEFINE U == {n - y : y \in T}
<1>1. U \subseteq Nat /\ U # {}
  <2>1. \A y \in T : n - y \in Nat
    OBVIOUS
  <2>2. PICK y : y \in T
    OBVIOUS
  <2> QED
    BY <2>1, <2>2
<1>2. PICK u \in U : \A v \in U : u <= v
  BY <1>1, NatMin
<1>3. PICK x \in T : u = n - x
  OBVIOUS
<1>4. ASSUME NEW y \in T PROVE y <= x
  <2>1. n - x <= n - y
    BY <1>2, <1>3
  <2> QED
    BY <2>1
<1> QED
  BY <1>4

-----------------------------------------------------------------------------
(* Joining sequences.                                                      *)

\* The elements of p \o q are those of p, then those of q.
LEMMA Joined ==
  ASSUME NEW S, NEW p \in Seq(S), NEW q \in Seq(S)
  PROVE  /\ p \o q \in Seq(S) /\ Len(p) \in Nat /\ Len(q) \in Nat
         /\ Len(p \o q) = Len(p) + Len(q)
         /\ \A i \in 1..Len(p) : (p \o q)[i] = p[i]
         /\ \A i \in 1..Len(q) : (p \o q)[Len(p) + i] = q[i]
OBVIOUS

\* An index of p \o q is one of p or one of q.
LEMMA JoinedIndex ==
  ASSUME NEW a \in Nat, NEW b \in Nat, NEW i \in 1..(a + b)
  PROVE  i \in 1..a \/ (~(i \in 1..a) /\ i - a \in 1..b /\ i = a + (i - a))
OBVIOUS

\* g[i] is the first i of the sequences ss, joined.
Joins(ss, g, n) ==
  g = [i \in 1..n |-> IF i = 1 THEN ss[i] ELSE g[i - 1] \o ss[i]]

\* The loop of FlattenSeq is well defined.
LEMMA JoinsExist ==
  ASSUME NEW ss, NEW n \in Nat
  PROVE  \E g : Joins(ss, g, n)
<1> DEFINE T == {m \in Nat : \E g : Joins(ss, g, m)}
<1>1. 0 \in T
  <2>1. [i \in 1..0 |-> ss[i]] = [i \in 1..0 |-> IF i = 1 THEN ss[i] ELSE [k \in 1..0 |-> ss[k]][i - 1] \o ss[i]]
    OBVIOUS
  <2>2. Joins(ss, [i \in 1..0 |-> ss[i]], 0)
    BY <2>1 DEF Joins
  <2> QED BY <2>2
<1>2. ASSUME NEW m \in T PROVE m + 1 \in T
  <2>1. PICK g : Joins(ss, g, m)
    OBVIOUS
  <2> DEFINE h == [i \in 1..m + 1 |-> IF i <= m THEN g[i] ELSE IF i = 1 THEN ss[i] ELSE g[m] \o ss[i]]
  <2>2. ASSUME NEW i \in 1..m + 1
        PROVE  h[i] = IF i = 1 THEN ss[i] ELSE h[i - 1] \o ss[i]
    <3>1. CASE i \in 1..m
      <4>1. h[i] = g[i] /\ (i # 1 => h[i - 1] = g[i - 1])
        BY <3>1
      <4>2. g[i] = IF i = 1 THEN ss[i] ELSE g[i - 1] \o ss[i]
        BY <2>1, <3>1 DEF Joins
      <4> QED BY <4>1, <4>2
    <3>2. CASE i = m + 1
      <4>1. h[i] = IF i = 1 THEN ss[i] ELSE g[m] \o ss[i]
        BY <3>2
      <4>2. i # 1 => h[i - 1] = g[m]
        BY <3>2
      <4> QED BY <4>1, <4>2
    <3> QED BY <3>1, <3>2
  <2>3. h = [i \in 1..m + 1 |-> h[i]]
    OBVIOUS
  <2> HIDE DEF h
  <2>4. h = [i \in 1..m + 1 |-> IF i = 1 THEN ss[i] ELSE h[i - 1] \o ss[i]]
    BY <2>2, <2>3
  <2>5. Joins(ss, h, m + 1)
    BY <2>4 DEF Joins
  <2> QED BY <2>5
<1> HIDE DEF T
<1>3. T = Nat
  <2>1. T \subseteq Nat
    BY DEF T
  <2> QED BY <1>1, <1>2, <2>1, NatInd
<1> QED BY <1>3 DEF T

\* FlattenSeq joins them all.
LEMMA FlattenIs ==
  ASSUME NEW ss, Len(ss) \in Nat \ {0}
  PROVE  \E g : Joins(ss, g, Len(ss)) /\ FlattenSeq(ss) = g[Len(ss)]
<1> DEFINE G == CHOOSE g : g = [i \in 1..Len(ss) |-> IF i = 1 THEN ss[i] ELSE g[i - 1] \o ss[i]]
<1>1. FlattenSeq(ss) = G[Len(ss)]
  BY DEF FlattenSeq
<1>2. \E g : Joins(ss, g, Len(ss))
  BY JoinsExist, SMTT(30)
<1>3. Joins(ss, G, Len(ss))
  BY <1>2 DEF Joins
<1> QED
  BY <1>1, <1>3

\* What holds of the first sequence and of each longer join holds of them all.
LEMMA FlattenInd ==
  ASSUME NEW S, NEW ss, Len(ss) \in Nat, \A i \in 1..Len(ss) : ss[i] \in Seq(S),
         Len(ss) = 0 => ss = << >>,
         NEW T, T \subseteq Nat \X Seq(S), <<0, << >>>> \in T,
         \A i \in 1..Len(ss), p \in Seq(S) : <<i - 1, p>> \in T => <<i, p \o ss[i]>> \in T
  PROVE  <<Len(ss), FlattenSeq(ss)>> \in T
<1>1. CASE Len(ss) = 0
  BY <1>1 DEF FlattenSeq
<1>2. CASE Len(ss) # 0
  <2>1. PICK g : Joins(ss, g, Len(ss)) /\ FlattenSeq(ss) = g[Len(ss)]
    BY <1>2, FlattenIs
  <2>2. PICK L \in Nat : L = Len(ss) /\ L # 0
    BY <1>2
  <2> DEFINE U == {m \in Nat : m + 1 \in 1..L => <<m + 1, g[m + 1]>> \in T}
  <2>3. \A i \in 1..L : g[i] = IF i = 1 THEN ss[i] ELSE g[i - 1] \o ss[i]
    BY <2>1, <2>2 DEF Joins
  <2>4. 0 \in U
    <3>1. 1 \in 1..L /\ g[1] = ss[1] /\ ss[1] \in Seq(S) /\ << >> \in Seq(S)
      BY <2>2, <2>3
    <3>2. << >> \o ss[1] = ss[1]
      BY <3>1
    <3>3. <<1 - 1, << >>>> \in T
      OBVIOUS
    <3>4. <<1, << >> \o ss[1]>> \in T
      BY <2>2, <3>1, <3>3
    <3>5. <<1, g[1]>> \in T
      BY <3>1, <3>2, <3>4
    <3>6. 0 + 1 = 1
      OBVIOUS
    <3> QED
      BY <3>5, <3>6
  <2>5. ASSUME NEW m \in U PROVE m + 1 \in U
    <3> SUFFICES ASSUME m + 2 \in 1..L PROVE <<m + 2, g[m + 2]>> \in T
      OBVIOUS
    <3>1. m + 1 \in 1..L /\ m + 2 # 1 /\ m + 2 - 1 = m + 1
      BY <2>2
    <3>2. <<m + 1, g[m + 1]>> \in T
      BY <3>1
    <3>3. g[m + 1] \in Seq(S)
      BY <3>2
    <3>4. PICK k \in 1..L : k = m + 2 /\ k - 1 = m + 1 /\ k # 1
      BY <2>2, <3>1
    <3>5. g[k] = g[k - 1] \o ss[k]
      BY <2>3, <3>4
    <3>6. <<m + 2, g[m + 1] \o ss[m + 2]>> \in T
      <4>1. k \in 1..Len(ss)
        BY <2>2, <3>4
      <4>2. <<k - 1, g[m + 1]>> \in T
        BY <3>2, <3>4
      <4> QED
        BY <3>3, <3>4, <4>1, <4>2
    <3> QED
      BY <3>4, <3>5, <3>6
  <2> HIDE DEF U
  <2>6. U = Nat
    <3>1. U \subseteq Nat
      BY DEF U
    <3> QED
      BY <2>4, <2>5, <3>1, NatInd
  <2>7. L - 1 \in U /\ L - 1 + 1 = L /\ L \in 1..L
    BY <2>2, <2>6
  <2> QED
    BY <2>1, <2>2, <2>7 DEF U
<1> QED
  BY <1>1, <1>2

\* f has the elements of the sequences ss, and no others.
Mixes(f, ss) ==
  /\ \A i \in 1..Len(ss) : \A j \in 1..Len(ss[i]) : \E k \in 1..Len(f) : f[k] = ss[i][j]
  /\ \A k \in 1..Len(f) : \E i \in 1..Len(ss) : \E j \in 1..Len(ss[i]) : f[k] = ss[i][j]

\* Its elements are those of the sequences joined.
LEMMA FlattenRange ==
  ASSUME NEW S, NEW ss, Len(ss) \in Nat, \A i \in 1..Len(ss) : ss[i] \in Seq(S),
         Len(ss) = 0 => ss = << >>
  PROVE  FlattenSeq(ss) \in Seq(S) /\ Mixes(FlattenSeq(ss), ss)
<1> DEFINE In(m, p) ==
             /\ \A i \in 1..m : \A j \in 1..Len(ss[i]) : \E k \in 1..Len(p) : p[k] = ss[i][j]
             /\ \A k \in 1..Len(p) : \E i \in 1..m : \E j \in 1..Len(ss[i]) : p[k] = ss[i][j]
           T == {x \in Nat \X Seq(S) : In(x[1], x[2])}
<1>1. <<0, << >>>> \in T
  <2>1. In(0, << >>)
    OBVIOUS
  <2>2. <<0, << >>>> \in Nat \X Seq(S)
    <3>1. << >> \in Seq(S) /\ 0 \in Nat
      OBVIOUS
    <3> QED
      BY <3>1, Zenon
  <2>3. <<0, << >>>>[1] = 0 /\ <<0, << >>>>[2] = << >>
    OBVIOUS
  <2> HIDE DEF In
  <2> QED
    BY <2>1, <2>2, <2>3
<1>2. ASSUME NEW m \in 1..Len(ss), NEW p \in Seq(S), <<m - 1, p>> \in T
      PROVE  <<m, p \o ss[m]>> \in T
  <2>1. In(m - 1, p)
    BY <1>2
  <2>2. PICK q \in Seq(S) : q = ss[m]
    OBVIOUS
  <2>3. PICK a \in Nat, b \in Nat, r \in Seq(S) :
          /\ a = Len(p) /\ b = Len(q) /\ r = p \o q /\ Len(r) = a + b
          /\ \A i \in 1..a : r[i] = p[i]
          /\ \A i \in 1..b : r[a + i] = q[i]
    <3>1. PICK r \in Seq(S) : r = p \o q
      BY Joined
    <3>2. PICK a \in Nat, b \in Nat : a = Len(p) /\ b = Len(q)
      BY Joined
    <3>3. /\ Len(r) = a + b
          /\ \A i \in 1..a : r[i] = p[i]
          /\ \A i \in 1..b : r[a + i] = q[i]
      BY <3>1, <3>2, Joined
    <3> QED
      BY <3>1, <3>2, <3>3
  <2>4. ASSUME NEW i \in 1..m, NEW j \in 1..Len(ss[i])
        PROVE  \E k \in 1..Len(r) : r[k] = ss[i][j]
    <3>1. CASE i = m
      <4>1. j \in 1..b /\ ss[i][j] = q[j]
        BY <2>2, <2>3, <3>1
      <4>2. a + j \in 1..Len(r) /\ r[a + j] = q[j]
        BY <2>3, <4>1
      <4> QED
        BY <4>1, <4>2
    <3>2. CASE i # m
      <4>1. i \in 1..(m - 1)
        BY <3>2
      <4>2. PICK k \in 1..a : p[k] = ss[i][j]
        BY <2>1, <2>3, <4>1
      <4>3. k \in 1..Len(r) /\ r[k] = p[k]
        BY <2>3
      <4> QED
        BY <4>2, <4>3
    <3> QED
      BY <3>1, <3>2
  <2>5. ASSUME NEW k \in 1..Len(r)
        PROVE  \E i \in 1..m : \E j \in 1..Len(ss[i]) : r[k] = ss[i][j]
    <3>1. CASE k \in 1..a
      <4>1. PICK i \in 1..(m - 1) : \E j \in 1..Len(ss[i]) : p[k] = ss[i][j]
        BY <2>1, <2>3, <3>1
      <4>2. i \in 1..m
        OBVIOUS
      <4>3. r[k] = p[k]
        BY <2>3, <3>1
      <4> QED
        BY <4>1, <4>2, <4>3
    <3>2. CASE ~(k \in 1..a)
      <4>1. PICK j \in 1..b : k = a + j
        <5>1. k \in 1..(a + b)
          BY <2>3
        <5>2. k - a \in 1..b /\ k = a + (k - a)
          BY <3>2, <5>1, JoinedIndex
        <5> QED
          BY <5>2
      <4>2. r[k] = q[j]
        BY <2>3, <4>1
      <4>3. j \in 1..Len(ss[m]) /\ r[k] = ss[m][j] /\ m \in 1..m
        BY <2>2, <2>3, <4>2
      <4> QED
        BY <4>3
    <3> QED
      BY <3>1, <3>2
  <2>6. In(m, r)
    BY <2>4, <2>5
  <2> HIDE DEF In
  <2>7. m \in Nat /\ <<m, r>>[1] = m /\ <<m, r>>[2] = r
    OBVIOUS
  <2> QED
    BY <2>2, <2>3, <2>6, <2>7
<1>3. T \subseteq Nat \X Seq(S)
  OBVIOUS
<1> HIDE DEF T
<1>4. <<Len(ss), FlattenSeq(ss)>> \in T
  BY <1>1, <1>2, <1>3, FlattenInd
<1>5. FlattenSeq(ss) \in Seq(S) /\ In(Len(ss), FlattenSeq(ss))
  BY <1>4 DEF T
<1> QED
  BY <1>5 DEF Mixes

-----------------------------------------------------------------------------
(* The operations of a pass, and the names they may rely on.               *)

\* The names that outlive a layer, and those of a layer or a training step.
Kept == {"tokens", "state", "layerScratch"}
Temps ==
  {"normOut", "q", "k", "v", "attnOut", "gate", "up", "fusedMLPTemp", "kF16", "vF16", "qF16",
   "attnOutF16", "fullK", "fullV", "lastState", "logits", "intermediate", "loraOut", "Residual",
   "NormOut", "V", "Q", "K", "AttnOut", "woOut", "FFNNormOut", "Gate", "Up", "mlpOut", "dAct",
   "dGate", "dUp", "dFFNInput", "tmp", "ffnNormInput", "dFFNNorm", "dAttnOut", "dQ", "dK", "dV",
   "attnWeights", "inter", "dNormOut", "dAttnNorm", "targets", "mask", "dLogits",
   "dFinalNormOut", "dResidual"}
Names == Kept \cup Temps \cup {"tokenBuf"}

\* Where K/V rows go.
Keys == Cached \cup {<<"pool", l>> : l \in LayerIds}

Ops ==
  [op : {"alloc", "arena", "write"}, s : Kept \cup Temps, n : Nat]
  \cup [op : {"bump"}, s : Temps, n : Nat]
  \cup [op : {"permanent", "free"}, s : {"tokenBuf"}, n : Nat]
  \cup [op : {"append", "store"}, s : Keys, n : Nat]
  \cup [op : {"rewind", "commit", "zero", "update"}, s : {""}, n : Nat]

\* A kernel writes to, and Free takes, a name that stands for memory.
Ready(D, o) == o.op \in {"write", "free"} => o.s \in D

Binds(o) == o.op \in {"alloc", "arena", "bump", "permanent"}

\* The names that stand for memory after o, if those in D do before.
After(D, o) ==
  IF Binds(o) THEN D \cup {o.s}
  ELSE IF o.op = "free" THEN D \ {o.s}
  ELSE IF o.op = "rewind" THEN D \cap Kept
  ELSE D

\* From names D on, every operation of p finds its name, and E are left.
Outline(d, D, p, E) ==
  /\ d \in [0..Len(p) -> SUBSET Names]
  /\ d[0] \subseteq D /\ E \subseteq d[Len(p)]
  /\ \A i \in 1..Len(p) : Ready(d[i - 1], p[i]) /\ d[i] \subseteq After(d[i - 1], p[i])
Leads(D, p, E) == \E d : Outline(d, D, p, E)

\* More names do no harm.
LEMMA AfterMono ==
  ASSUME NEW D, NEW E, D \subseteq E, NEW o, Ready(D, o)
  PROVE  Ready(E, o) /\ After(D, o) \subseteq After(E, o)
BY DEF Ready, After

\* An empty sequence.
LEMMA LeadsNone ==
  ASSUME NEW D, D \subseteq Names
  PROVE  Leads(D, << >>, D)
<1> DEFINE d == [i \in 0..0 |-> D]
<1>1. d \in [0..0 -> SUBSET Names] /\ d[0] = D /\ Len(<< >>) = 0 /\ 1..0 = {}
  OBVIOUS
<1>2. Outline(d, D, << >>, D)
  BY <1>1 DEF Outline
<1> QED
  BY <1>2 DEF Leads

\* Names that are not needed may be dropped.
LEMMA LeadsWeaken ==
  ASSUME NEW D, NEW D2, NEW p, NEW E, NEW E2, D \subseteq D2, E2 \subseteq E, Leads(D, p, E)
  PROVE  Leads(D2, p, E2)
<1>1. PICK d : Outline(d, D, p, E)
  BY DEF Leads
<1>2. Outline(d, D2, p, E2)
  BY <1>1 DEF Outline
<1> QED
  BY <1>2 DEF Leads

\* The operation i of p may write to a name of D or to one that p took before.
Known(D, p, i) == p[i].s \in D \/ \E j \in 1..(i - 1) : Binds(p[j]) /\ p[j].s = p[i].s

\* Operations that forget nothing and write to names known before.
LEMMA LeadsFlat ==
  ASSUME NEW D, D \subseteq Names, NEW p \in Seq(Ops),
         \A i \in 1..Len(p) : p[i].op \notin {"free", "rewind"} /\ (p[i].op = "write" => Known(D, p, i))
  PROVE  Leads(D, p, D \cup {p[i].s : i \in {j \in 1..Len(p) : Binds(p[j])}})
<1> DEFINE Got(k) == {p[i].s : i \in {j \in 1..k : Binds(p[j])}}
           d == [k \in 0..Len(p) |-> D \cup Got(k)]
<1>1. Len(p) \in Nat /\ \A i \in 1..Len(p) : p[i] \in Ops
  OBVIOUS
<1>2. ASSUME NEW k \in 0..Len(p) PROVE Got(k) \subseteq Names
  <2>1. ASSUME NEW i \in 1..k, Binds(p[i]) PROVE p[i].s \in Names
    <3>1. p[i] \in Ops
      BY <1>1
    <3> QED
      BY <2>1, <3>1 DEF Ops, Binds, Names
  <2> QED
    BY <2>1
<1>3. d \in [0..Len(p) -> SUBSET Names]
  BY <1>2
<1>4. d[0] = D
  <2>1. Got(0) = {}
    OBVIOUS
  <2> QED
    BY <1>1, <2>1
<1>5. d[Len(p)] = D \cup Got(Len(p))
  BY <1>1
<1>6. ASSUME NEW i \in 1..Len(p)
      PROVE  Ready(d[i - 1], p[i]) /\ d[i] \subseteq After(d[i - 1], p[i])
  <2>1. d[i - 1] = D \cup Got(i - 1) /\ d[i] = D \cup Got(i)
    BY <1>1
  <2>2. Got(i) \subseteq Got(i - 1) \cup (IF Binds(p[i]) THEN {p[i].s} ELSE {})
    <3> SUFFICES ASSUME NEW j \in 1..i, Binds(p[j])
                 PROVE  p[j].s \in Got(i - 1) \cup (IF Binds(p[i]) THEN {p[i].s} ELSE {})
      OBVIOUS
    <3>1. j = i \/ j \in 1..(i - 1)
      OBVIOUS
    <3> QED
      BY <3>1
  <2>3. Ready(d[i - 1], p[i])
    <3>1. p[i].op = "write" => p[i].s \in D \cup Got(i - 1)
      BY DEF Known
    <3> HIDE DEF Got, d
    <3> QED
      BY <2>1, <3>1 DEF Ready
  <2> HIDE DEF Got, d
  <2>4. After(d[i - 1], p[i]) = IF Binds(p[i]) THEN d[i - 1] \cup {p[i].s} ELSE d[i - 1]
    BY DEF After
  <2> QED
    BY <2>1, <2>2, <2>3, <2>4
<1> HIDE DEF Got, d
<1>7. Outline(d, D, p, D \cup Got(Len(p)))
  BY <1>3, <1>4, <1>5, <1>6 DEF Outline
<1> QED
  BY <1>7 DEF Leads, Got

\* One after the other.
LEMMA LeadsJoin ==
  ASSUME NEW D, NEW E, NEW F, NEW p \in Seq(Ops), NEW q \in Seq(Ops),
         Leads(D, p, E), Leads(E, q, F)
  PROVE  Leads(D, p \o q, F)
<1>1. PICK d : Outline(d, D, p, E)
  BY DEF Leads
<1>2. PICK e : Outline(e, E, q, F)
  BY DEF Leads
<1>3. PICK a \in Nat, b \in Nat : a = Len(p) /\ b = Len(q) /\ Len(p \o q) = a + b
  BY Joined
<1>4. /\ \A i \in 1..a : (p \o q)[i] = p[i]
      /\ \A i \in 1..b : (p \o q)[a + i] = q[i]
  BY <1>3, Joined
<1> DEFINE f == [i \in 0..(a + b) |-> IF i <= a THEN d[i] ELSE e[i - a]]
<1>5. /\ d \in [0..a -> SUBSET Names] /\ d[0] \subseteq D /\ E \subseteq d[a]
      /\ \A i \in 1..a : Ready(d[i - 1], p[i]) /\ d[i] \subseteq After(d[i - 1], p[i])
  BY <1>1, <1>3 DEF Outline
<1>6. /\ e \in [0..b -> SUBSET Names] /\ e[0] \subseteq E /\ F \subseteq e[b]
      /\ \A i \in 1..b : Ready(e[i - 1], q[i]) /\ e[i] \subseteq After(e[i - 1], q[i])
  BY <1>2, <1>3 DEF Outline
<1>7. f \in [0..(a + b) -> SUBSET Names]
  <2>1. ASSUME NEW i \in 0..(a + b)
        PROVE  (IF i <= a THEN d[i] ELSE e[i - a]) \in SUBSET Names
    <3>1. CASE i <= a
      <4>1. i \in 0..a
        BY <3>1
      <4> QED
        BY <1>5, <3>1, <4>1
    <3>2. CASE ~(i <= a)
      <4>1. i - a \in 0..b
        BY <3>2
      <4> QED
        BY <1>6, <3>2, <4>1
    <3> QED
      BY <3>1, <3>2
  <2> QED
    BY <2>1
<1>8. f[0] = d[0] /\ F \subseteq f[a + b]
  <2>1. CASE b = 0
    BY <1>5, <1>6, <2>1
  <2>2. CASE b # 0
    <3>1. f[a + b] = e[b] /\ f[0] = d[0]
      BY <2>2
    <3> QED
      BY <1>6, <3>1
  <2> QED
    BY <2>1, <2>2
<1>9. ASSUME NEW i \in 1..(a + b)
      PROVE  Ready(f[i - 1], (p \o q)[i]) /\ f[i] \subseteq After(f[i - 1], (p \o q)[i])
  <2>1. CASE i \in 1..a
    <3>1. i \in 0..(a + b) /\ i <= a /\ i - 1 \in 0..(a + b) /\ i - 1 <= a
      BY <2>1
    <3>2. f[i] = d[i] /\ f[i - 1] = d[i - 1]
      BY <3>1, Zenon
    <3>3. (p \o q)[i] = p[i]
      BY <1>4, <2>1
    <3> HIDE DEF f
    <3> QED
      BY <1>5, <2>1, <3>2, <3>3
  <2>2. CASE ~(i \in 1..a)
    <3>1. PICK j \in 1..b : i = a + j
      <4>1. i - a \in 1..b /\ i = a + (i - a)
        BY <2>2, JoinedIndex
      <4> QED
        BY <4>1
    <3>2. (p \o q)[i] = q[j] /\ f[i] = e[j]
      <4>1. i \in 0..(a + b) /\ ~(i <= a) /\ i - a = j
        BY <3>1
      <4>2. f[i] = e[i - a]
        BY <4>1, Zenon
      <4>3. (p \o q)[i] = q[j]
        BY <1>4, <3>1, Zenon
      <4> QED
        BY <4>1, <4>2, <4>3, Zenon
    <3>3. Ready(e[j - 1], q[j]) /\ e[j] \subseteq After(e[j - 1], q[j])
      BY <1>6
    <3>4. e[j - 1] \subseteq f[i - 1]
      <4>1. CASE j = 1
        <5>1. f[i - 1] = d[a] /\ j - 1 = 0
          BY <3>1, <4>1
        <5> QED
          BY <1>5, <1>6, <5>1
      <4>2. CASE j # 1
        BY <3>1, <4>2
      <4> QED
        BY <4>1, <4>2
    <3> HIDE DEF f
    <3>5. Ready(f[i - 1], q[j]) /\ After(e[j - 1], q[j]) \subseteq After(f[i - 1], q[j])
      <4>1. PICK X, Y, o : X = e[j - 1] /\ Y = f[i - 1] /\ o = q[j]
        OBVIOUS
      <4>2. X \subseteq Y /\ Ready(X, o)
        BY <3>3, <3>4, <4>1
      <4>3. Ready(Y, o) /\ After(X, o) \subseteq After(Y, o)
        BY <4>2, AfterMono
      <4> QED
        BY <4>1, <4>3
    <3> QED
      BY <3>2, <3>3, <3>5
  <2> QED
    BY <2>1, <2>2
<1> HIDE DEF f
<1>10. Outline(f, D, p \o q, F)
  BY <1>3, <1>5, <1>7, <1>8, <1>9 DEF Outline
<1> QED
  BY <1>10 DEF Leads

\* The first operation finds its name; the rest goes on from there.
LEMMA LeadsOn ==
  ASSUME NEW D, NEW E, NEW p \in Seq(Ops), p # << >>, Leads(D, p, E)
  PROVE  Ready(D, p[1]) /\ Leads(After(D, p[1]), Tail(p), E)
<1>1. PICK d : Outline(d, D, p, E)
  BY DEF Leads
<1>2. PICK a \in Nat : Len(p) = a /\ a # 0
  OBVIOUS
<1>3. /\ d \in [0..a -> SUBSET Names] /\ d[0] \subseteq D /\ E \subseteq d[a]
      /\ \A i \in 1..a : Ready(d[i - 1], p[i]) /\ d[i] \subseteq After(d[i - 1], p[i])
  BY <1>1, <1>2 DEF Outline
<1>4. Ready(d[0], p[1]) /\ d[1] \subseteq After(d[0], p[1])
  <2>1. 1 \in 1..a /\ 1 - 1 = 0
    BY <1>2
  <2> QED
    BY <1>3, <2>1
<1>5. Ready(D, p[1]) /\ After(d[0], p[1]) \subseteq After(D, p[1])
  BY <1>3, <1>4, AfterMono
<1> DEFINE f == [i \in 0..(a - 1) |-> d[i + 1]]
<1>6. Tail(p) \in Seq(Ops) /\ Len(Tail(p)) = a - 1 /\ \A i \in 1..(a - 1) : Tail(p)[i] = p[i + 1]
  BY <1>2
<1>7. f \in [0..(a - 1) -> SUBSET Names] /\ f[0] = d[1] /\ f[a - 1] = d[a]
  BY <1>2, <1>3
<1>8. ASSUME NEW i \in 1..(a - 1)
      PROVE  Ready(f[i - 1], Tail(p)[i]) /\ f[i] \subseteq After(f[i - 1], Tail(p)[i])
  <2>1. f[i] = d[i + 1] /\ f[i - 1] = d[i]
    BY <1>2
  <2>2. i + 1 \in 1..a /\ (i + 1) - 1 = i
    BY <1>2
  <2>3. Ready(d[i], p[i + 1]) /\ d[i + 1] \subseteq After(d[i], p[i + 1])
    BY <1>3, <2>2
  <2> QED
    BY <1>6, <2>1, <2>3
<1> HIDE DEF f
<1>9. Outline(f, After(D, p[1]), Tail(p), E)
  BY <1>3, <1>4, <1>5, <1>6, <1>7, <1>8 DEF Outline
<1> QED
  BY <1>5, <1>9 DEF Leads

-----------------------------------------------------------------------------
(* The rows a pass adds to the long-lived buffers, and when it counts them. *)

Adds(o) == o.op \in {"append", "store"}
Fits1(kind, o) ==
  /\ o.op = "append" => kind \in {"f16", "f32"}
  /\ o.op = "store" => kind = "blocks"

\* p adds N rows to each of H, to no buffer another number, and counts none.
Feeds(kind, p, N, H) ==
  /\ \A i \in 1..Len(p) : p[i].op # "commit" /\ Fits1(kind, p[i]) /\ (Adds(p[i]) => p[i].n = N)
  /\ \A h \in H : \E i \in 1..Len(p) : Adds(p[i]) /\ p[i].s = h

\* p neither adds nor counts rows.
Quiet(p) == \A i \in 1..Len(p) : p[i].op # "commit" /\ ~Adds(p[i])

\* p counts N rows after it has added them to each of H, and adds none after that.
Settles(kind, p, N, H) ==
  /\ \A i \in 1..Len(p) : Fits1(kind, p[i])
  /\ \A i \in 1..Len(p) : Adds(p[i]) \/ p[i].op = "commit" => p[i].n = N
  /\ \A i, j \in 1..Len(p) : p[j].op = "commit" /\ (Adds(p[i]) \/ p[i].op = "commit") => i <= j
  /\ \A i \in 1..Len(p) : Adds(p[i]) => \E j \in 1..Len(p) : p[j].op = "commit"
  /\ \A h \in H : \A j \in 1..Len(p) : p[j].op = "commit" =>
       \E i \in 1..j : Adds(p[i]) /\ p[i].s = h

\* Nothing to add and nothing to count.
LEMMA QuietSettles ==
  ASSUME NEW kind, NEW p, Quiet(p), NEW N, NEW H
  PROVE  Settles(kind, p, N, H)
BY DEF Quiet, Settles, Fits1, Adds

\* Fewer buffers to serve.
LEMMA SettlesFewer ==
  ASSUME NEW kind, NEW p, NEW N, NEW H, NEW J, J \subseteq H, Settles(kind, p, N, H)
  PROVE  Settles(kind, p, N, J)
BY DEF Settles

\* The rows are added, then counted.
LEMMA FeedsThenCommit ==
  ASSUME NEW kind, NEW p \in Seq(Ops), NEW N \in Nat, NEW H, Feeds(kind, p, N, H),
         NEW r \in Seq(Ops), r # << >>, r[1].op = "commit", r[1].n = N, Quiet(Tail(r))
  PROVE  Settles(kind, p \o r, N, H)
<1>1. PICK q \in Seq(Ops) : q = p \o r
  BY Joined
<1>2. PICK a \in Nat, b \in Nat : a = Len(p) /\ b = Len(r) /\ b # 0
  BY Joined
<1>3. /\ Len(q) = a + b
      /\ \A i \in 1..a : q[i] = p[i]
      /\ \A i \in 1..b : q[a + i] = r[i]
  BY <1>1, <1>2, Joined
<1>4. \A i \in 1..a : q[i].op # "commit" /\ Fits1(kind, q[i]) /\ (Adds(q[i]) => q[i].n = N)
  BY <1>2, <1>3 DEF Feeds
<1>5. PICK c \in 1..(a + b) : c = a + 1 /\ q[c] = r[1]
  BY <1>2, <1>3
<1>6. ASSUME NEW i \in 1..(a + b), ~(i \in 1..a), i # c
      PROVE  q[i].op # "commit" /\ ~Adds(q[i])
  <2>1. PICK j \in 1..b : i = a + j
    <3>1. i - a \in 1..b /\ i = a + (i - a)
      BY <1>6, JoinedIndex
    <3> QED
      BY <3>1
  <2>2. j - 1 \in 1..(b - 1) /\ (j - 1) + 1 = j
    BY <1>5, <1>6, <2>1
  <2>3. Len(Tail(r)) = b - 1 /\ Tail(r)[j - 1] = r[j]
    BY <1>2, <2>2
  <2>4. q[i] = Tail(r)[j - 1]
    BY <1>3, <2>1, <2>3
  <2> QED
    BY <2>2, <2>3, <2>4 DEF Quiet
<1>7. q[c].op = "commit" /\ q[c].n = N /\ ~Adds(q[c]) /\ Fits1(kind, q[c])
  BY <1>5 DEF Adds, Fits1
<1>8. ASSUME NEW i \in 1..(a + b)
      PROVE  Fits1(kind, q[i]) /\ (Adds(q[i]) \/ q[i].op = "commit" => q[i].n = N)
             /\ (q[i].op = "commit" => i = c) /\ (Adds(q[i]) => i <= c)
  <2>1. CASE i \in 1..a
    BY <1>4, <1>5, <2>1
  <2>2. CASE i = c
    BY <1>7, <2>2
  <2>3. CASE ~(i \in 1..a) /\ i # c
    <3>1. q[i].op # "commit" /\ ~Adds(q[i])
      BY <1>6, <2>3
    <3> QED
      BY <3>1 DEF Fits1, Adds
  <2> QED
    BY <2>1, <2>2, <2>3
<1>9. ASSUME NEW h \in H PROVE \E i \in 1..c : Adds(q[i]) /\ q[i].s = h
  <2>1. PICK i \in 1..a : Adds(p[i]) /\ p[i].s = h
    BY <1>2 DEF Feeds
  <2>2. q[i] = p[i] /\ i \in 1..c
    BY <1>3, <1>5
  <2> QED
    BY <2>1, <2>2
<1>10. Settles(kind, q, N, H)
  BY <1>3, <1>7, <1>8, <1>9 DEF Settles
<1> QED
  BY <1>1, <1>10

\* One operation is done: a buffer it added to needs no more.
LEMMA SettlesOn ==
  ASSUME NEW kind, NEW p \in Seq(Ops), p # << >>, NEW N, NEW H, Settles(kind, p, N, H)
  PROVE  /\ Fits1(kind, p[1])
         /\ Adds(p[1]) => p[1].n = N
         /\ p[1].op = "commit" => p[1].n = N /\ H = {} /\ Quiet(Tail(p))
         /\ Settles(kind, Tail(p), N, H \ (IF Adds(p[1]) THEN {p[1].s} ELSE {}))
<1>1. PICK a \in Nat : Len(p) = a /\ a # 0 /\ 1 \in 1..a
  OBVIOUS
<1>2. PICK t \in Seq(Ops) : t = Tail(p)
  <2>1. Tail(p) \in Seq(Ops)
    OBVIOUS
  <2> QED
    BY <2>1
<1>3. Len(t) = a - 1 /\ \A i \in 1..(a - 1) : t[i] = p[i + 1] /\ i + 1 \in 1..a
  BY <1>1, <1>2
<1>4. Fits1(kind, p[1]) /\ (Adds(p[1]) => p[1].n = N)
  BY <1>1 DEF Settles
<1>5. ASSUME p[1].op = "commit" PROVE p[1].n = N /\ H = {} /\ Quiet(t)
  <2>1. p[1].n = N
    BY <1>1, <1>5 DEF Settles
  <2>2. ASSUME NEW h \in H PROVE FALSE
    <3>1. PICK i \in 1..1 : Adds(p[i]) /\ p[i].s = h
      BY <1>1, <1>5, <2>2 DEF Settles
    <3>2. i = 1
      OBVIOUS
    <3> QED
      BY <1>5, <3>1, <3>2 DEF Adds
  <2>3. ASSUME NEW i \in 1..(a - 1) PROVE t[i].op # "commit" /\ ~Adds(t[i])
    <3>1. t[i] = p[i + 1] /\ i + 1 \in 1..a /\ ~(i + 1 <= 1)
      BY <1>3
    <3> QED
      BY <1>1, <1>5, <3>1 DEF Settles
  <2> QED
    BY <1>3, <2>1, <2>2, <2>3 DEF Quiet
<1> DEFINE J == H \ (IF Adds(p[1]) THEN {p[1].s} ELSE {})
<1>6. \A i \in 1..(a - 1) : Fits1(kind, t[i]) /\ (Adds(t[i]) \/ t[i].op = "commit" => t[i].n = N)
  BY <1>1, <1>3 DEF Settles
<1>7. ASSUME NEW i \in 1..(a - 1), NEW j \in 1..(a - 1), t[j].op = "commit", Adds(t[i]) \/ t[i].op = "commit"
      PROVE  i <= j
  <2>1. i + 1 <= j + 1
    BY <1>1, <1>3, <1>7 DEF Settles
  <2> QED
    BY <2>1
<1>8. ASSUME NEW i \in 1..(a - 1), Adds(t[i])
      PROVE  \E j \in 1..(a - 1) : t[j].op = "commit"
  <2>1. PICK k \in 1..a : p[k].op = "commit"
    BY <1>1, <1>3, <1>8 DEF Settles
  <2>2. k # 1
    BY <1>2, <1>3, <1>5, <1>8, <2>1 DEF Quiet
  <2>3. k - 1 \in 1..(a - 1) /\ (k - 1) + 1 = k
    BY <2>2
  <2>4. t[k - 1] = p[k]
    BY <1>3, <2>3
  <2> QED
    BY <2>1, <2>3, <2>4
<1>9. ASSUME NEW h \in J, NEW j \in 1..(a - 1), t[j].op = "commit"
      PROVE  \E i \in 1..j : Adds(t[i]) /\ t[i].s = h
  <2>1. PICK m \in 1..a : m = j + 1 /\ t[j] = p[m]
    BY <1>3
  <2>2. PICK k \in 1..m : Adds(p[k]) /\ p[k].s = h
    BY <1>1, <1>9, <2>1 DEF Settles
  <2>3. k # 1
    BY <2>2
  <2>4. k - 1 \in 1..j /\ k - 1 \in 1..(a - 1) /\ (k - 1) + 1 = k
    BY <2>1, <2>3
  <2>5. t[k - 1] = p[k]
    BY <1>3, <2>4
  <2> QED
    BY <2>2, <2>4, <2>5
<1> HIDE DEF J
<1>10. Settles(kind, t, N, J)
  BY <1>3, <1>6, <1>7, <1>8, <1>9 DEF Settles
<1> QED
  BY <1>2, <1>4, <1>5, <1>10 DEF J

-----------------------------------------------------------------------------
(* The pieces a pass is made of.                                           *)

\* p runs from names D to names E and adds N rows to each of H.
Piece(kind, D, p, E, N, H) == p \in Seq(Ops) /\ Leads(D, p, E) /\ Feeds(kind, p, N, H)

\* One piece after the other.
LEMMA PieceJoin ==
  ASSUME NEW kind, NEW D, NEW p, NEW E, NEW q, NEW F, NEW N, NEW H, NEW J,
         Piece(kind, D, p, E, N, H), Piece(kind, E, q, F, N, J)
  PROVE  Piece(kind, D, p \o q, F, N, H \cup J)
<1>1. p \in Seq(Ops) /\ q \in Seq(Ops) /\ Leads(D, p, E) /\ Leads(E, q, F)
  BY DEF Piece
<1>2. PICK r \in Seq(Ops) : r = p \o q
  BY <1>1, Joined
<1>3. Leads(D, r, F)
  BY <1>1, <1>2, LeadsJoin
<1>4. PICK a \in Nat, b \in Nat : a = Len(p) /\ b = Len(q)
  BY <1>1, Joined
<1>5. /\ Len(r) = a + b
      /\ \A i \in 1..a : r[i] = p[i]
      /\ \A i \in 1..b : r[a + i] = q[i]
  BY <1>1, <1>2, <1>4, Joined
<1>6. ASSUME NEW i \in 1..(a + b)
      PROVE  r[i].op # "commit" /\ Fits1(kind, r[i]) /\ (Adds(r[i]) => r[i].n = N)
  <2>1. CASE i \in 1..a
    <3>1. r[i] = p[i]
      BY <1>5, <2>1
    <3> QED
      BY <1>4, <2>1, <3>1 DEF Piece, Feeds
  <2>2. CASE ~(i \in 1..a)
    <3>1. PICK j \in 1..b : i = a + j
      <4>1. i - a \in 1..b /\ i = a + (i - a)
        BY <2>2, JoinedIndex
      <4> QED
        BY <4>1
    <3>2. r[i] = q[j]
      BY <1>5, <3>1
    <3> QED
      BY <1>4, <3>2 DEF Piece, Feeds
  <2> QED
    BY <2>1, <2>2
<1>7. ASSUME NEW h \in H \cup J PROVE \E i \in 1..(a + b) : Adds(r[i]) /\ r[i].s = h
  <2>1. CASE h \in H
    <3>1. PICK i \in 1..a : Adds(p[i]) /\ p[i].s = h
      BY <1>4, <2>1 DEF Piece, Feeds
    <3>2. i \in 1..(a + b) /\ r[i] = p[i]
      BY <1>5
    <3> QED
      BY <3>1, <3>2
  <2>2. CASE h \in J
    <3>1. PICK i \in 1..b : Adds(q[i]) /\ q[i].s = h
      BY <1>4, <2>2 DEF Piece, Feeds
    <3>2. a + i \in 1..(a + b) /\ r[a + i] = q[i]
      BY <1>5
    <3> QED
      BY <3>1, <3>2
  <2> QED
    BY <2>1, <2>2
<1>8. Feeds(kind, r, N, H \cup J)
  BY <1>5, <1>6, <1>7 DEF Feeds
<1> QED
  BY <1>2, <1>3, <1>8 DEF Piece

\* A piece that adds no rows keeps what the other adds.
LEMMA PieceThen ==
  ASSUME NEW kind, NEW D, NEW p, NEW E, NEW q, NEW F, NEW N,
         Piece(kind, D, p, E, N, {}), Piece(kind, E, q, F, N, {})
  PROVE  Piece(kind, D, p \o q, F, N, {})
<1>1. {} \cup {} = {}
  OBVIOUS
<1> QED
  BY <1>1, PieceJoin

LEMMA PieceWeaken ==
  ASSUME NEW kind, NEW D, NEW p, NEW E, NEW D2, NEW E2, NEW N, NEW H,
         Piece(kind, D, p, E, N, H), D \subseteq D2, E2 \subseteq E
  PROVE  Piece(kind, D2, p, E2, N, H)
BY LeadsWeaken DEF Piece

LEMMA PieceNone ==
  ASSUME NEW kind, NEW D, D \subseteq Names, NEW N
  PROVE  Piece(kind, D, << >>, D, N, {})
<1>1. << >> \in Seq(Ops) /\ Len(<< >>) = 0
  OBVIOUS
<1> QED
  BY <1>1, LeadsNone DEF Piece, Feeds

\* Operations that neither forget a name nor add rows.
LEMMA PieceFlat ==
  ASSUME NEW kind, NEW D, D \subseteq Names, NEW p \in Seq(Ops), NEW E, NEW N,
         \A i \in 1..Len(p) : /\ p[i].op \in {"alloc", "arena", "bump", "write", "zero", "update"}
                              /\ p[i].op = "write" => Known(D, p, i),
         \A e \in E : e \in D \/ \E i \in 1..Len(p) : Binds(p[i]) /\ p[i].s = e
  PROVE  Piece(kind, D, p, E, N, {}) /\ Quiet(p)
<1> DEFINE F == D \cup {p[i].s : i \in {j \in 1..Len(p) : Binds(p[j])}}
<1>1. Leads(D, p, F)
  BY LeadsFlat
<1>2. E \subseteq F
  OBVIOUS
<1> HIDE DEF F
<1>3. Leads(D, p, E)
  BY <1>1, <1>2, LeadsWeaken
<1>4. Feeds(kind, p, N, {}) /\ Quiet(p)
  BY DEF Feeds, Quiet, Fits1, Adds
<1> QED
  BY <1>3, <1>4 DEF Piece

\* Operations that add rows.
LEMMA PieceAdds ==
  ASSUME NEW kind, NEW D, D \subseteq Names, NEW p \in Seq(Ops), NEW N, NEW H,
         \A i \in 1..Len(p) : p[i].op \in {"append", "store"} /\ Fits1(kind, p[i]) /\ p[i].n = N,
         \A h \in H : \E i \in 1..Len(p) : p[i].s = h
  PROVE  Piece(kind, D, p, D, N, H)
<1> DEFINE F == D \cup {p[i].s : i \in {j \in 1..Len(p) : Binds(p[j])}}
<1>1. Leads(D, p, F)
  BY LeadsFlat
<1>2. D \subseteq F
  OBVIOUS
<1> HIDE DEF F
<1>3. Leads(D, p, D)
  BY <1>1, <1>2, LeadsWeaken
<1>4. Feeds(kind, p, N, H)
  BY DEF Feeds, Adds
<1> QED
  BY <1>3, <1>4 DEF Piece

\* A piece for each layer.
LEMMA PieceLayers ==
  ASSUME NEW kind, NEW D, D \subseteq Names, NEW ss, Len(ss) \in Nat, Len(ss) = 0 => ss = << >>,
         NEW N, NEW HS, \A i \in 1..Len(ss) : Piece(kind, D, ss[i], D, N, HS[i]),
         NEW H, \A h \in H : \E i \in 1..Len(ss) : h \in HS[i]
  PROVE  Piece(kind, D, FlattenSeq(ss), D, N, H)
<1> DEFINE T == {x \in Nat \X Seq(Ops) : Leads(D, x[2], D)}
<1>1. \A i \in 1..Len(ss) : ss[i] \in Seq(Ops) /\ Leads(D, ss[i], D) /\ Feeds(kind, ss[i], N, HS[i])
  BY DEF Piece
<1>2. <<0, << >>>> \in T
  <2>1. << >> \in Seq(Ops) /\ 0 \in Nat
    OBVIOUS
  <2>2. <<0, << >>>> \in Nat \X Seq(Ops)
    BY <2>1, Zenon
  <2>3. Leads(D, << >>, D)
    BY LeadsNone
  <2>4. <<0, << >>>>[2] = << >>
    OBVIOUS
  <2> QED
    BY <2>2, <2>3, <2>4
<1>3. ASSUME NEW i \in 1..Len(ss), NEW p \in Seq(Ops), <<i - 1, p>> \in T
      PROVE  <<i, p \o ss[i]>> \in T
  <2>1. PICK q \in Seq(Ops) : q = ss[i] /\ Leads(D, q, D)
    BY <1>1
  <2>2. Leads(D, p, D)
    BY <1>3
  <2>3. Leads(D, p \o q, D)
    BY <2>1, <2>2, LeadsJoin
  <2>4. PICK r \in Seq(Ops) : r = p \o q
    BY Joined
  <2>5. <<i, r>> \in Nat \X Seq(Ops) /\ <<i, r>>[2] = r
    OBVIOUS
  <2> QED
    BY <2>1, <2>3, <2>4, <2>5
<1>4. T \subseteq Nat \X Seq(Ops)
  OBVIOUS
<1> HIDE DEF T
<1>5. <<Len(ss), FlattenSeq(ss)>> \in T
  BY <1>1, <1>2, <1>3, <1>4, FlattenInd
<1>6. FlattenSeq(ss) \in Seq(Ops) /\ Leads(D, FlattenSeq(ss), D)
  BY <1>5 DEF T
<1>7. PICK f \in Seq(Ops) : f = FlattenSeq(ss)
  BY <1>6
<1>8. /\ \A i \in 1..Len(ss) : \A j \in 1..Len(ss[i]) : \E k \in 1..Len(f) : f[k] = ss[i][j]
      /\ \A k \in 1..Len(f) : \E i \in 1..Len(ss) : \E j \in 1..Len(ss[i]) : f[k] = ss[i][j]
  <2>1. \A i \in 1..Len(ss) : ss[i] \in Seq(Ops)
    BY <1>1
  <2>2. Mixes(FlattenSeq(ss), ss)
    BY <2>1, FlattenRange
  <2> QED
    BY <1>7, <2>2 DEF Mixes
<1>9. ASSUME NEW k \in 1..Len(f)
      PROVE  f[k].op # "commit" /\ Fits1(kind, f[k]) /\ (Adds(f[k]) => f[k].n = N)
  <2>1. PICK i \in 1..Len(ss) : \E j \in 1..Len(ss[i]) : f[k] = ss[i][j]
    BY <1>8
  <2>2. PICK j \in 1..Len(ss[i]) : f[k] = ss[i][j]
    BY <2>1
  <2>3. Feeds(kind, ss[i], N, HS[i])
    BY <1>1
  <2> QED
    BY <2>2, <2>3 DEF Feeds
<1>10. ASSUME NEW i \in 1..Len(ss), NEW h \in HS[i]
       PROVE  \E k \in 1..Len(f) : Adds(f[k]) /\ f[k].s = h
  <2>1. Feeds(kind, ss[i], N, HS[i])
    BY <1>1
  <2>2. PICK j \in 1..Len(ss[i]) : Adds(ss[i][j]) /\ ss[i][j].s = h
    BY <2>1 DEF Feeds
  <2>3. PICK k \in 1..Len(f) : f[k] = ss[i][j]
    BY <1>8
  <2> QED
    BY <2>2, <2>3
<1>11. Feeds(kind, f, N, H)
  BY <1>9, <1>10 DEF Feeds
<1> QED
  BY <1>6, <1>7, <1>11 DEF Piece

\* What follows the count neither adds nor counts.
LEMMA SettlesThenQuiet ==
  ASSUME NEW kind, NEW p \in Seq(Ops), NEW N, NEW H, Settles(kind, p, N, H),
         NEW r \in Seq(Ops), Quiet(r)
  PROVE  Settles(kind, p \o r, N, H)
<1>1. PICK q \in Seq(Ops) : q = p \o r
  BY Joined
<1>2. PICK a \in Nat, b \in Nat : a = Len(p) /\ b = Len(r)
  BY Joined
<1>3. /\ Len(q) = a + b
      /\ \A i \in 1..a : q[i] = p[i]
      /\ \A i \in 1..b : q[a + i] = r[i]
  BY <1>1, <1>2, Joined
<1>4. ASSUME NEW i \in 1..(a + b), ~(i \in 1..a)
      PROVE  q[i].op # "commit" /\ ~Adds(q[i]) /\ Fits1(kind, q[i])
  <2>1. PICK j \in 1..b : i = a + j
    <3>1. i - a \in 1..b /\ i = a + (i - a)
      BY <1>4, JoinedIndex
    <3> QED
      BY <3>1
  <2>2. q[i] = r[j]
    BY <1>3, <2>1
  <2> QED
    BY <1>2, <2>2 DEF Quiet, Fits1, Adds
<1>5. \A i \in 1..a : i \in 1..(a + b)
  OBVIOUS
<1>6. ASSUME NEW i \in 1..(a + b)
      PROVE  Fits1(kind, q[i]) /\ (Adds(q[i]) \/ q[i].op = "commit" => q[i].n = N)
  <2>1. CASE i \in 1..a
    BY <1>2, <1>3, <2>1 DEF Settles
  <2>2. CASE ~(i \in 1..a)
    BY <1>4, <2>2
  <2> QED
    BY <2>1, <2>2
<1>7. ASSUME NEW i \in 1..(a + b), NEW j \in 1..(a + b), q[j].op = "commit",
             Adds(q[i]) \/ q[i].op = "commit"
      PROVE  i <= j
  <2>1. i \in 1..a /\ j \in 1..a
    BY <1>4, <1>7
  <2>2. q[i] = p[i] /\ q[j] = p[j]
    BY <1>3, <2>1
  <2> QED
    BY <1>2, <1>7, <2>1, <2>2 DEF Settles
<1>8. ASSUME NEW i \in 1..(a + b), Adds(q[i])
      PROVE  \E j \in 1..(a + b) : q[j].op = "commit"
  <2>1. i \in 1..a
    BY <1>4, <1>8
  <2>2. PICK j \in 1..a : p[j].op = "commit"
    BY <1>2, <1>3, <1>8, <2>1 DEF Settles
  <2> QED
    BY <1>3, <1>5, <2>2
<1>9. ASSUME NEW h \in H, NEW j \in 1..(a + b), q[j].op = "commit"
      PROVE  \E i \in 1..j : Adds(q[i]) /\ q[i].s = h
  <2>1. j \in 1..a
    BY <1>4, <1>9
  <2>2. PICK i \in 1..j : Adds(p[i]) /\ p[i].s = h
    <3>1. p[j].op = "commit" /\ j \in 1..Len(p)
      BY <1>2, <1>3, <1>9, <2>1
    <3>2. \A g \in H : \A k \in 1..Len(p) : p[k].op = "commit" => \E i \in 1..k : Adds(p[i]) /\ p[i].s = g
      BY Zenon DEF Settles
    <3> QED
      BY <3>1, <3>2, Zenon
  <2>3. q[i] = p[i]
    BY <1>3, <2>1
  <2> QED
    BY <2>2, <2>3
<1>10. Settles(kind, q, N, H)
  BY <1>3, <1>6, <1>7, <1>8, <1>9 DEF Settles
<1> QED
  BY <1>1, <1>10

\* Only the KV caches get rows.
LEMMA FeedsQuiet ==
  ASSUME NEW p, NEW N, NEW H, Feeds("train", p, N, H)
  PROVE  Quiet(p)
BY DEF Feeds, Quiet, Fits1, Adds

-----------------------------------------------------------------------------
(* The plans.                                                              *)

USE DEF Op, Alloc, Bump, Arena, Write

\* The operations of a pass are operations.
LEMMA OpTypes ==
  /\ \A s \in Kept \cup Temps, n \in Nat : Alloc(s, n) \in Ops /\ Arena(s, n) \in Ops /\ Write(s) \in Ops
  /\ \A s \in Temps, n \in Nat : Bump(s, n) \in Ops
  /\ \A n \in Nat : Op("permanent", "tokenBuf", n) \in Ops /\ Op("free", "tokenBuf", n) \in Ops
  /\ \A s \in Keys, n \in Nat : Op("append", s, n) \in Ops /\ Op("store", s, n) \in Ops
  /\ \A n \in Nat : /\ Op("rewind", "", n) \in Ops /\ Op("commit", "", n) \in Ops
                    /\ Op("zero", "", n) \in Ops /\ Op("update", "", n) \in Ops
BY DEF Ops

\* A buffer is allocated, then filled.
LEMMA FillPiece ==
  ASSUME NEW kind, NEW D, D \subseteq Names, NEW s \in Kept \cup Temps, NEW n \in Nat, NEW N
  PROVE  Piece(kind, D, Fill(s, n), D, N, {}) /\ Quiet(Fill(s, n))
<1>1. Alloc(s, n) \in Ops /\ Write(s) \in Ops
  BY OpTypes
<1>2. PICK A \in Ops, W \in Ops : A = Alloc(s, n) /\ W = Write(s)
  BY <1>1
<1>3. PICK p \in Seq(Ops) : p = <<A, W>> /\ Len(p) = 2 /\ p[1] = A /\ p[2] = W
  <2>1. <<A, W>> \in Seq(Ops) /\ Len(<<A, W>>) = 2 /\ <<A, W>>[1] = A /\ <<A, W>>[2] = W
    OBVIOUS
  <2> QED
    BY <2>1
<1>4. A.op = "alloc" /\ A.s = s /\ W.op = "write" /\ W.s = s
  BY <1>2
<1>5. Binds(A)
  BY <1>4 DEF Binds
<1>6. ASSUME NEW i \in 1..Len(p)
      PROVE  /\ p[i].op \in {"alloc", "arena", "bump", "write", "zero", "update"}
             /\ p[i].op = "write" => Known(D, p, i)
  <2>1. CASE i = 1
    BY <1>3, <1>4, <2>1
  <2>2. CASE i = 2
    <3>1. 1 \in 1..(i - 1) /\ Binds(p[1]) /\ p[1].s = p[i].s
      BY <1>3, <1>4, <1>5, <2>2
    <3>2. Known(D, p, i)
      BY <3>1 DEF Known
    <3> QED
      BY <1>3, <1>4, <2>2, <3>2
  <2> QED
    BY <1>3, <2>1, <2>2
<1>7. Piece(kind, D, p, D, N, {}) /\ Quiet(p)
  BY <1>6, PieceFlat
<1> QED
  BY <1>2, <1>3, <1>7 DEF Fill

\* A list of buffers is allocated and filled, one after the other.
LEMMA FillsPiece ==
  ASSUME NEW kind, NEW D, D \subseteq Names, NEW reqs \in Seq((Kept \cup Temps) \X Nat), NEW N
  PROVE  Piece(kind, D, Fills(reqs), D, N, {})
<1> DEFINE ss == [i \in DOMAIN reqs |-> Fill(reqs[i][1], reqs[i][2])]
           HS == [i \in DOMAIN reqs |-> {}]
<1>1. Len(reqs) \in Nat /\ DOMAIN reqs = 1..Len(reqs)
  OBVIOUS
<1>2. Len(ss) = Len(reqs) /\ (Len(ss) = 0 => ss = << >>)
  BY <1>1
<1>3. ASSUME NEW i \in 1..Len(reqs) PROVE Piece(kind, D, ss[i], D, N, HS[i])
  <2>1. PICK s \in Kept \cup Temps, n \in Nat : reqs[i] = <<s, n>>
    OBVIOUS
  <2>2. Piece(kind, D, Fill(s, n), D, N, {})
    BY FillPiece
  <2>3. ss[i] = Fill(s, n) /\ HS[i] = {}
    BY <1>1, <2>1
  <2> QED
    BY <2>2, <2>3
<1>5. Fills(reqs) = FlattenSeq(ss)
  BY DEF Fills
<1> HIDE DEF ss, HS
<1>6. Piece(kind, D, FlattenSeq(ss), D, N, {})
  <2>1. \A i \in 1..Len(ss) : Piece(kind, D, ss[i], D, N, HS[i])
    BY <1>2, <1>3
  <2>2. Len(ss) \in Nat /\ (Len(ss) = 0 => ss = << >>)
    BY <1>1, <1>2
  <2> QED
    BY <2>1, <2>2, PieceLayers
<1> QED
  BY <1>5, <1>6

Request == Temps \X Nat

\* A list of buffers is taken from the pool or from the bump allocator.
LEMMA TakesPiece ==
  ASSUME NEW kind, NEW D, D \subseteq Names, NEW reqs \in Seq(Request), NEW E, NEW N,
         \A e \in E : e \in D \/ \E i \in DOMAIN reqs : reqs[i][1] = e
  PROVE  /\ Piece(kind, D, [i \in DOMAIN reqs |-> Bump(reqs[i][1], reqs[i][2])], E, N, {})
         /\ Piece(kind, D, [i \in DOMAIN reqs |-> Alloc(reqs[i][1], reqs[i][2])], E, N, {})
<1> DEFINE B == [i \in DOMAIN reqs |-> Bump(reqs[i][1], reqs[i][2])]
           A == [i \in DOMAIN reqs |-> Alloc(reqs[i][1], reqs[i][2])]
<1>1. Len(reqs) \in Nat /\ DOMAIN reqs = 1..Len(reqs) /\ Len(A) = Len(reqs) /\ Len(B) = Len(reqs)
  OBVIOUS
<1>2. ASSUME NEW i \in 1..Len(reqs)
      PROVE  /\ A[i] \in Ops /\ B[i] \in Ops /\ A[i].op = "alloc" /\ B[i].op = "bump"
             /\ A[i].s = reqs[i][1] /\ B[i].s = reqs[i][1]
  <2>1. PICK s \in Temps, n \in Nat : reqs[i] = <<s, n>>
    BY DEF Request
  <2>2. A[i] = Alloc(s, n) /\ B[i] = Bump(s, n) /\ reqs[i][1] = s
    BY <1>1, <2>1
  <2>3. Alloc(s, n) \in Ops /\ Bump(s, n) \in Ops
    BY OpTypes
  <2>4. /\ Alloc(s, n).op = "alloc" /\ Bump(s, n).op = "bump"
        /\ Alloc(s, n).s = s /\ Bump(s, n).s = s
    OBVIOUS
  <2> HIDE DEF A, B, Alloc, Bump
  <2> QED
    BY <2>2, <2>3, <2>4
<1>3. A \in Seq(Ops) /\ B \in Seq(Ops)
  <2>1. PICK m \in Nat : m = Len(reqs) /\ DOMAIN A = 1..m /\ DOMAIN B = 1..m
    BY <1>1
  <2>2. A = [i \in 1..m |-> A[i]] /\ B = [i \in 1..m |-> B[i]]
    BY <1>1, <2>1
  <2> HIDE DEF A, B
  <2>3. [i \in 1..m |-> A[i]] \in Seq(Ops) /\ [i \in 1..m |-> B[i]] \in Seq(Ops)
    BY <1>2, <2>1
  <2> QED
    BY <2>2, <2>3
<1> HIDE DEF A, B
<1>4. \A i \in 1..Len(reqs) : Binds(A[i]) /\ Binds(B[i])
  BY <1>2 DEF Binds
<1>5. Piece(kind, D, A, E, N, {})
  <2>1. \A i \in 1..Len(A) : /\ A[i].op \in {"alloc", "arena", "bump", "write", "zero", "update"}
                             /\ A[i].op = "write" => Known(D, A, i)
    BY <1>1, <1>2
  <2>2. \A e \in E : e \in D \/ \E i \in 1..Len(A) : Binds(A[i]) /\ A[i].s = e
    BY <1>1, <1>2, <1>4
  <2> QED
    BY <1>3, <2>1, <2>2, PieceFlat
<1>6. Piece(kind, D, B, E, N, {})
  <2>1. \A i \in 1..Len(B) : /\ B[i].op \in {"alloc", "arena", "bump", "write", "zero", "update"}
                             /\ B[i].op = "write" => Known(D, B, i)
    BY <1>1, <1>2
  <2>2. \A e \in E : e \in D \/ \E i \in 1..Len(B) : Binds(B[i]) /\ B[i].s = e
    BY <1>1, <1>2, <1>4
  <2> QED
    BY <1>3, <2>1, <2>2, PieceFlat
<1> QED
  BY <1>5, <1>6 DEF A, B

\* A kernel fills buffers that are there.
LEMMA WritesPiece ==
  ASSUME NEW kind, NEW D, D \subseteq Names, NEW p \in Seq(Ops), NEW N,
         \A i \in 1..Len(p) : p[i].op = "write" /\ p[i].s \in D
  PROVE  Piece(kind, D, p, D, N, {})
BY PieceFlat DEF Known

LEMMA DimTypes ==
  /\ QDim \in Nat \ {0} /\ KVDim \in Nat \ {0} /\ MaxSeq \in Nat \ {0} /\ Rank \in Nat \ {0}
  /\ Dims.hidden \in Nat \ {0} /\ Dims.heads \in Nat \ {0} /\ Dims.kvHeads \in Nat \ {0}
  /\ Dims.headDim \in Nat \ {0} /\ Dims.inter \in Nat \ {0} /\ Dims.vocab \in Nat \ {0}
<1>1. /\ Dims.hidden \in Nat \ {0} /\ Dims.heads \in Nat \ {0} /\ Dims.kvHeads \in Nat \ {0}
      /\ Dims.headDim \in Nat \ {0} /\ Dims.inter \in Nat \ {0} /\ Dims.vocab \in Nat \ {0}
  BY SizesAssumption
<1>2. \A a \in Nat \ {0}, b \in Nat \ {0} : a * b \in Nat \ {0}
  OBVIOUS
<1> QED
  BY <1>1, <1>2, SizesAssumption DEF QDim, KVDim

\* The names of a layer's intermediates.
Seven == {"normOut", "q", "k", "v", "attnOut", "gate", "up"}
Halves == {"kF16", "vF16", "qF16", "attnOutF16"}

LEMMA IntermediateTypes ==
  ASSUME NEW n \in Nat
  PROVE  /\ Intermediates(n) \in Seq(Request) /\ DOMAIN Intermediates(n) = 1..8
         /\ \A e \in Seven : \E i \in 1..7 : Intermediates(n)[i][1] = e
<1>1. PICK a \in Nat, b \in Nat, c \in Nat, d \in Nat, e \in Nat :
        /\ a = n * Dims.hidden * 4 /\ b = n * QDim * 4 /\ c = n * KVDim * 4
        /\ d = n * Dims.inter * 4 /\ e = n * Dims.inter * 8
  <2>1. /\ n * Dims.hidden \in Nat /\ n * QDim \in Nat /\ n * KVDim \in Nat
        /\ n * Dims.inter \in Nat
    BY DimTypes
  <2>2. \A x \in Nat : x * 4 \in Nat /\ x * 8 \in Nat
    OBVIOUS
  <2> QED
    BY <2>1, <2>2
<1>2. PICK r : r = << <<"normOut", a>>, <<"q", b>>, <<"k", c>>, <<"v", c>>, <<"attnOut", b>>, <<"gate", d>>,
                      <<"up", d>>, <<"fusedMLPTemp", e>> >>
  OBVIOUS
<1>3. Intermediates(n) = r
  BY <1>1, <1>2 DEF Intermediates
<1>4. /\ <<"normOut", a>> \in Request /\ <<"q", b>> \in Request /\ <<"k", c>> \in Request
      /\ <<"v", c>> \in Request /\ <<"attnOut", b>> \in Request /\ <<"gate", d>> \in Request
      /\ <<"up", d>> \in Request /\ <<"fusedMLPTemp", e>> \in Request
  BY DEF Request, Temps
<1>5. r \in Seq(Request) /\ DOMAIN r = 1..8
  BY <1>2, <1>4
<1>6. /\ r[1][1] = "normOut" /\ r[2][1] = "q" /\ r[3][1] = "k" /\ r[4][1] = "v"
      /\ r[5][1] = "attnOut" /\ r[6][1] = "gate" /\ r[7][1] = "up"
  BY <1>2
<1>7. \A e1 \in Seven : \E i \in 1..7 : r[i][1] = e1
  BY <1>6 DEF Seven
<1> QED
  BY <1>3, <1>5, <1>7

\* The four sequences of writes of a layer.
LEMMA LayerWrites ==
  ASSUME NEW kind, NEW D, D \subseteq Names, Seven \subseteq D, NEW N
  PROVE  /\ Piece(kind, D, <<Write("normOut"), Write("q"), Write("k"), Write("v")>>, D, N, {})
         /\ Piece(kind, D, <<Write("attnOut"), Write("gate"), Write("up")>>, D, N, {})
         /\ Halves \subseteq D => Piece(kind, D, <<Write("kF16"), Write("vF16")>>, D, N, {})
<1>1. Seven \subseteq Kept \cup Temps /\ Halves \subseteq Kept \cup Temps
  BY DEF Seven, Halves, Temps
<1>2. \A s \in Seven \cup Halves : Write(s) \in Ops
  BY <1>1, OpTypes
<1>3. \A s \in Seven \cup Halves : Write(s).op = "write" /\ Write(s).s = s
  OBVIOUS
<1> HIDE DEF Write
<1>4. Piece(kind, D, <<Write("normOut"), Write("q"), Write("k"), Write("v")>>, D, N, {})
  <2>1. PICK a \in Ops, b \in Ops, c \in Ops, d \in Ops :
          a = Write("normOut") /\ b = Write("q") /\ c = Write("k") /\ d = Write("v")
    BY <1>2 DEF Seven
  <2>2. /\ a.op = "write" /\ b.op = "write" /\ c.op = "write" /\ d.op = "write"
        /\ a.s \in D /\ b.s \in D /\ c.s \in D /\ d.s \in D
    BY <1>3, <2>1 DEF Seven
  <2>3. <<a, b, c, d>> \in Seq(Ops) /\ Len(<<a, b, c, d>>) = 4
    OBVIOUS
  <2>4. \A i \in 1..4 : <<a, b, c, d>>[i].op = "write" /\ <<a, b, c, d>>[i].s \in D
    BY <2>2
  <2>5. Piece(kind, D, <<a, b, c, d>>, D, N, {})
    BY <2>3, <2>4, WritesPiece
  <2> QED
    BY <2>1, <2>5
<1>5. Piece(kind, D, <<Write("attnOut"), Write("gate"), Write("up")>>, D, N, {})
  <2>1. PICK a \in Ops, b \in Ops, c \in Ops : a = Write("attnOut") /\ b = Write("gate") /\ c = Write("up")
    BY <1>2 DEF Seven
  <2>2. /\ a.op = "write" /\ b.op = "write" /\ c.op = "write"
        /\ a.s \in D /\ b.s \in D /\ c.s \in D
    BY <1>3, <2>1 DEF Seven
  <2>3. <<a, b, c>> \in Seq(Ops) /\ Len(<<a, b, c>>) = 3
    OBVIOUS
  <2>4. \A i \in 1..3 : <<a, b, c>>[i].op = "write" /\ <<a, b, c>>[i].s \in D
    BY <2>2
  <2>5. Piece(kind, D, <<a, b, c>>, D, N, {})
    BY <2>3, <2>4, WritesPiece
  <2> QED
    BY <2>1, <2>5
<1>6. ASSUME Halves \subseteq D
      PROVE  Piece(kind, D, <<Write("kF16"), Write("vF16")>>, D, N, {})
  <2>1. PICK a \in Ops, b \in Ops : a = Write("kF16") /\ b = Write("vF16")
    BY <1>2 DEF Halves
  <2>2. a.op = "write" /\ b.op = "write" /\ a.s \in D /\ b.s \in D
    BY <1>3, <1>6, <2>1 DEF Halves
  <2>3. <<a, b>> \in Seq(Ops) /\ Len(<<a, b>>) = 2
    OBVIOUS
  <2>4. \A i \in 1..2 : <<a, b>>[i].op = "write" /\ <<a, b>>[i].s \in D
    BY <2>2
  <2>5. Piece(kind, D, <<a, b>>, D, N, {})
    BY <2>3, <2>4, WritesPiece
  <2> QED
    BY <2>1, <2>5
<1> QED
  BY <1>4, <1>5, <1>6

\* ScratchReset keeps the names that outlive a layer.
LEMMA RewindPiece ==
  ASSUME NEW kind, NEW N
  PROVE  Piece(kind, Kept, <<Op("rewind", "", 0)>>, Kept, N, {})
<1>1. PICK o \in Ops : o = Op("rewind", "", 0)
  BY OpTypes
<1>2. PICK p \in Seq(Ops) : p = <<o>> /\ Len(p) = 1 /\ p[1] = o
  <2>1. <<o>> \in Seq(Ops) /\ Len(<<o>>) = 1 /\ <<o>>[1] = o
    OBVIOUS
  <2> QED
    BY <2>1
<1> DEFINE d == [i \in 0..1 |-> Kept]
<1>3. d \in [0..1 -> SUBSET Names] /\ d[0] = Kept /\ d[1] = Kept
  BY DEF Names
<1> HIDE DEF d
<1>4. Ready(Kept, o) /\ Kept \subseteq After(Kept, o)
  BY <1>1 DEF Ready, After, Binds
<1>5. ASSUME NEW i \in 1..1 PROVE Ready(d[i - 1], p[i]) /\ d[i] \subseteq After(d[i - 1], p[i])
  <2>1. d[i - 1] = Kept /\ d[i] = Kept /\ p[i] = o
    BY <1>2, <1>3
  <2> QED
    BY <1>4, <2>1
<1>6. Outline(d, Kept, p, Kept)
  BY <1>2, <1>3, <1>5 DEF Outline
<1>7. o.op = "rewind"
  BY <1>1
<1>8. \A i \in 1..1 : p[i].op = "rewind"
  BY <1>2, <1>7
<1>9. Feeds(kind, p, N, {})
  BY <1>2, <1>8 DEF Feeds, Adds, Fits1
<1> QED
  BY <1>1, <1>2, <1>6, <1>9 DEF Piece, Leads

\* A layer on the single GPU KV cache.
LEMMA LayerGPUPiece ==
  ASSUME NEW kind \in {"f16", "f32"}, NEW n \in Nat, NEW l \in LayerIds
  PROVE  Piece(kind, Kept, LayerGPUKV(kind, n, l), Kept, n, {<<"K", l>>, <<"V", l>>})
<1> DEFINE half == kind = "f16" /\ n > 1
           reqs == Intermediates(n)
           D1 == Kept \cup Seven
           D2 == IF half THEN D1 \cup Halves ELSE D1
           p1 == <<Op("rewind", "", 0)>>
           p2 == [i \in DOMAIN reqs |-> Bump(reqs[i][1], reqs[i][2])]
           p3 == IF half
                 THEN <<Alloc("kF16", n * KVDim * 2), Alloc("vF16", n * KVDim * 2),
                        Alloc("qF16", n * QDim * 2), Alloc("attnOutF16", n * QDim * 2)>>
                 ELSE << >>
           p4 == <<Write("normOut"), Write("q"), Write("k"), Write("v")>>
           p5 == IF half THEN <<Write("kF16"), Write("vF16")>> ELSE << >>
           p6 == <<Op("append", <<"K", l>>, n), Op("append", <<"V", l>>, n)>>
           p7 == <<Write("attnOut"), Write("gate"), Write("up")>>
           H == {<<"K", l>>, <<"V", l>>}
<1>1. LayerGPUKV(kind, n, l) = p1 \o p2 \o p3 \o p4 \o p5 \o p6 \o p7
  BY DEF LayerGPUKV
<1>2. /\ Kept \subseteq Names /\ D1 \subseteq Names /\ D2 \subseteq Names /\ D1 \subseteq D2
      /\ Seven \subseteq D2 /\ Kept \subseteq D2 /\ (half => Halves \subseteq D2)
  BY DEF Names, Kept, Seven, Halves, Temps
<1>3. Piece(kind, Kept, p1, Kept, n, {})
  BY RewindPiece
<1>4. Piece(kind, Kept, p2, D1, n, {})
  <2>1. PICK r \in Seq(Request) : r = reqs /\ DOMAIN r = 1..8 /\ \A e \in Seven : \E i \in 1..7 : r[i][1] = e
    BY IntermediateTypes
  <2>2. \A e \in D1 : e \in Kept \/ \E i \in DOMAIN r : r[i][1] = e
    <3>1. \A i \in 1..7 : i \in 1..8
      OBVIOUS
    <3> QED
      BY <2>1, <3>1
  <2>3. Piece(kind, Kept, [i \in DOMAIN r |-> Bump(r[i][1], r[i][2])], D1, n, {})
    BY <1>2, <2>2, TakesPiece
  <2> QED
    BY <2>1, <2>3
<1>5. Piece(kind, D1, p3, D2, n, {})
  <2>1. CASE half
    <3>1. PICK x \in Nat, y \in Nat : x = n * KVDim * 2 /\ y = n * QDim * 2
      <4>1. n * KVDim \in Nat /\ n * QDim \in Nat
        BY DimTypes
      <4>2. \A z \in Nat : z * 2 \in Nat
        OBVIOUS
      <4> QED
        BY <4>1, <4>2
    <3>2. /\ "kF16" \in Temps /\ "vF16" \in Temps /\ "qF16" \in Temps /\ "attnOutF16" \in Temps
      BY DEF Temps
    <3>3. PICK a \in Ops, b \in Ops, c \in Ops, d \in Ops :
            /\ a = Alloc("kF16", x) /\ b = Alloc("vF16", x)
            /\ c = Alloc("qF16", y) /\ d = Alloc("attnOutF16", y)
      BY <3>2, OpTypes
    <3>4. PICK q \in Seq(Ops) : q = <<a, b, c, d>> /\ Len(q) = 4 /\ q[1] = a /\ q[2] = b /\ q[3] = c /\ q[4] = d
      <4>1. /\ <<a, b, c, d>> \in Seq(Ops) /\ Len(<<a, b, c, d>>) = 4
            /\ <<a, b, c, d>>[1] = a /\ <<a, b, c, d>>[2] = b
            /\ <<a, b, c, d>>[3] = c /\ <<a, b, c, d>>[4] = d
        OBVIOUS
      <4> QED
        BY <4>1
    <3>5. /\ a.op = "alloc" /\ b.op = "alloc" /\ c.op = "alloc" /\ d.op = "alloc"
          /\ a.s = "kF16" /\ b.s = "vF16" /\ c.s = "qF16" /\ d.s = "attnOutF16"
      BY <3>3
    <3>6. \A i \in 1..4 : q[i].op = "alloc"
      BY <3>4, <3>5
    <3>7. \A e \in D2 : e \in D1 \/ \E i \in 1..4 : Binds(q[i]) /\ q[i].s = e
      <4>1. \A i \in 1..4 : Binds(q[i])
        BY <3>6 DEF Binds
      <4>2. \A e \in Halves : \E i \in 1..4 : q[i].s = e
        BY <3>4, <3>5 DEF Halves
      <4> QED
        BY <2>1, <4>1, <4>2
    <3>8. Piece(kind, D1, q, D2, n, {})
      <4>1. \A i \in 1..Len(q) : /\ q[i].op \in {"alloc", "arena", "bump", "write", "zero", "update"}
                                 /\ q[i].op = "write" => Known(D1, q, i)
        BY <3>4, <3>6
      <4>2. \A e \in D2 : e \in D1 \/ \E i \in 1..Len(q) : Binds(q[i]) /\ q[i].s = e
        BY <3>4, <3>7
      <4> HIDE DEF D1, D2
      <4> QED
        BY <1>2, <4>1, <4>2, PieceFlat
    <3> QED
      BY <2>1, <3>1, <3>3, <3>4, <3>8
  <2>2. CASE ~half
    <3>1. p3 = << >> /\ D2 = D1
      BY <2>2
    <3> HIDE DEF D1, D2, p3
    <3> QED
      BY <1>2, <3>1, PieceNone
  <2> QED
    BY <2>1, <2>2
<1>6. Piece(kind, D2, p4, D2, n, {}) /\ Piece(kind, D2, p7, D2, n, {})
      /\ (half => Piece(kind, D2, <<Write("kF16"), Write("vF16")>>, D2, n, {}))
  <2> HIDE DEF D2, half
  <2> QED
    BY <1>2, LayerWrites
<1>7. Piece(kind, D2, p5, D2, n, {})
  <2>1. Piece(kind, D2, << >>, D2, n, {})
    <3> HIDE DEF D2
    <3> QED
      BY <1>2, PieceNone
  <2> HIDE DEF D2, half
  <2> QED
    BY <1>6, <2>1
<1>8. Piece(kind, D2, p6, D2, n, H)
  <2>1. <<"K", l>> \in Keys /\ <<"V", l>> \in Keys
    BY DEF Keys, Cached
  <2>2. PICK k \in Keys, v \in Keys : k = <<"K", l>> /\ v = <<"V", l>>
    BY <2>1
  <2>3. PICK a \in Ops, b \in Ops : a = Op("append", k, n) /\ b = Op("append", v, n)
    BY OpTypes
  <2>4. PICK q \in Seq(Ops) : q = <<a, b>> /\ Len(q) = 2 /\ q[1] = a /\ q[2] = b
    <3>1. <<a, b>> \in Seq(Ops) /\ Len(<<a, b>>) = 2 /\ <<a, b>>[1] = a /\ <<a, b>>[2] = b
      OBVIOUS
    <3> QED
      BY <3>1
  <2>5. a.op = "append" /\ b.op = "append" /\ a.n = n /\ b.n = n /\ a.s = k /\ b.s = v
    BY <2>3
  <2>6. \A i \in 1..Len(q) : q[i].op \in {"append", "store"} /\ Fits1(kind, q[i]) /\ q[i].n = n
    BY <2>4, <2>5 DEF Fits1
  <2>7. \A h \in H : \E i \in 1..Len(q) : q[i].s = h
    BY <2>2, <2>4, <2>5
  <2>8. Piece(kind, D2, q, D2, n, H)
    <3> HIDE DEF D2, H
    <3> QED
      BY <1>2, <2>6, <2>7, PieceAdds
  <2> QED
    BY <2>2, <2>3, <2>4, <2>8
<1> HIDE DEF p1, p2, p3, p4, p5, p6, p7, D1, D2, H
<1>9. Piece(kind, Kept, p1 \o p2, D1, n, {})
  BY <1>3, <1>4, PieceThen
<1>10. Piece(kind, Kept, p1 \o p2 \o p3, D2, n, {})
  BY <1>5, <1>9, PieceThen
<1>11. Piece(kind, Kept, p1 \o p2 \o p3 \o p4, D2, n, {})
  BY <1>6, <1>10, PieceThen
<1>12. Piece(kind, Kept, p1 \o p2 \o p3 \o p4 \o p5, D2, n, {})
  BY <1>7, <1>11, PieceThen
<1>13. Piece(kind, Kept, p1 \o p2 \o p3 \o p4 \o p5 \o p6, D2, n, {} \cup H)
  BY <1>8, <1>12, PieceJoin
<1>14. Piece(kind, Kept, p1 \o p2 \o p3 \o p4 \o p5 \o p6 \o p7, D2, n, ({} \cup H) \cup {})
  BY <1>6, <1>13, PieceJoin
<1>15. Piece(kind, Kept, p1 \o p2 \o p3 \o p4 \o p5 \o p6 \o p7, Kept, n, ({} \cup H) \cup {})
  BY <1>2, <1>14, PieceWeaken
<1>16. ({} \cup H) \cup {} = {<<"K", l>>, <<"V", l>>}
  BY DEF H
<1> QED
  BY <1>1, <1>15, <1>16

\* copyTokenKV: a permanent buffer is created and released.
LEMMA PermanentPiece ==
  ASSUME NEW kind, NEW D, D \subseteq Names, "tokenBuf" \notin D, NEW x \in Nat, NEW N
  PROVE  Piece(kind, D, <<Op("permanent", "tokenBuf", x), Op("free", "tokenBuf", 0)>>, D, N, {})
<1>1. PICK A \in Ops, W \in Ops : A = Op("permanent", "tokenBuf", x) /\ W = Op("free", "tokenBuf", 0)
  BY OpTypes
<1>2. A.op = "permanent" /\ A.s = "tokenBuf" /\ W.op = "free" /\ W.s = "tokenBuf"
  BY <1>1
<1>3. PICK p \in Seq(Ops) : p = <<A, W>> /\ Len(p) = 2 /\ p[1] = A /\ p[2] = W
  <2>1. <<A, W>> \in Seq(Ops) /\ Len(<<A, W>>) = 2 /\ <<A, W>>[1] = A /\ <<A, W>>[2] = W
    OBVIOUS
  <2> QED
    BY <2>1
<1>4. PICK F : F = D \cup {"tokenBuf"}
  OBVIOUS
<1>5. F \subseteq Names
  BY <1>4 DEF Names
<1> DEFINE d == [i \in 0..2 |-> IF i = 1 THEN F ELSE D]
<1>6. d \in [0..2 -> SUBSET Names] /\ d[0] = D /\ d[1] = F /\ d[2] = D
  BY <1>5
<1> HIDE DEF d
<1>7. Ready(D, A) /\ Ready(F, W) /\ F \subseteq After(D, A) /\ D \subseteq After(F, W)
  BY <1>2, <1>4 DEF Ready, After, Binds
<1>8. ASSUME NEW i \in 1..2 PROVE Ready(d[i - 1], p[i]) /\ d[i] \subseteq After(d[i - 1], p[i])
  <2>1. CASE i = 1
    <3>1. d[i - 1] = D /\ d[i] = F /\ p[i] = A
      BY <1>3, <1>6, <2>1
    <3> QED
      BY <1>7, <3>1
  <2>2. CASE i = 2
    <3>1. d[i - 1] = F /\ d[i] = D /\ p[i] = W
      BY <1>3, <1>6, <2>2
    <3> QED
      BY <1>7, <3>1
  <2> QED
    BY <2>1, <2>2
<1>9. Outline(d, D, p, D)
  BY <1>3, <1>6, <1>8 DEF Outline
<1>10. Leads(D, p, D)
  BY <1>9 DEF Leads
<1>11. ASSUME NEW i \in 1..2 PROVE p[i].op # "commit" /\ ~Adds(p[i]) /\ Fits1(kind, p[i])
  BY <1>2, <1>3 DEF Adds, Fits1
<1>12. Feeds(kind, p, N, {})
  BY <1>3, <1>11 DEF Feeds
<1> QED
  BY <1>1, <1>3, <1>10, <1>12 DEF Piece

\* A layer on the block pool or on the CPU paged cache.
LEMMA LayerPagedPiece ==
  ASSUME NEW kind \in {"blocks", "cpupaged"}, NEW n \in Nat, NEW l \in LayerIds, seqLen \in Nat
  PROVE  Piece(kind, Kept, LayerPagedKV(kind, n, l), Kept, n, IF kind = "blocks" THEN {<<"pool", l>>} ELSE {})
<1> DEFINE reqs == SubSeq(Intermediates(n), 1, 7)
           D1 == Kept \cup Seven
           p1 == [i \in DOMAIN reqs |-> Alloc(reqs[i][1], reqs[i][2])]
           p2 == <<Write("normOut"), Write("q"), Write("k"), Write("v")>>
           pt == IF n > 1 THEN <<Op("permanent", "tokenBuf", KVDim * 4), Op("free", "tokenBuf", 0)>> ELSE << >>
           ps == <<Op("store", <<"pool", l>>, n)>>
           fs == << <<"fullK", (seqLen + n) * KVDim * 4>>, <<"fullV", (seqLen + n) * KVDim * 4>> >>
           p3 == CASE kind = "blocks" -> pt \o ps [] OTHER -> Fills(fs)
           p4 == <<Write("attnOut"), Write("gate"), Write("up")>>
           H == IF kind = "blocks" THEN {<<"pool", l>>} ELSE {}
<1>1. LayerPagedKV(kind, n, l) = p1 \o p2 \o p3 \o p4
  BY DEF LayerPagedKV
<1>2. /\ Kept \subseteq Names /\ D1 \subseteq Names /\ Kept \subseteq D1 /\ Seven \subseteq D1
      /\ "tokenBuf" \notin D1
  BY DEF Names, Kept, Seven, Temps
<1>3. Piece(kind, Kept, p1, D1, n, {})
  <2>1. PICK r0 \in Seq(Request) : r0 = Intermediates(n) /\ DOMAIN r0 = 1..8 /\ \A e \in Seven : \E i \in 1..7 : r0[i][1] = e
    BY IntermediateTypes
  <2>2. Len(r0) = 8
    BY <2>1
  <2>3. PICK r \in Seq(Request) : r = SubSeq(r0, 1, 7) /\ DOMAIN r = 1..7 /\ \A i \in 1..7 : r[i] = r0[i]
    <3>1. \A i \in 1..7 : r0[i] \in Request
      <4>1. \A i \in 1..Len(r0) : r0[i] \in Request
        OBVIOUS
      <4>2. \A i \in 1..7 : i \in 1..Len(r0)
        BY <2>2
      <4> QED
        BY <4>1, <4>2
    <3>2. PICK r : r = SubSeq(r0, 1, 7)
      OBVIOUS
    <3>3. r \in Seq(Request) /\ Len(r) = 7 /\ \A i \in 1..(7 - 1 + 1) : r[i] = r0[1 + i - 1]
      BY <3>1, <3>2, SubSeqProperties
    <3>4. \A i \in 1..7 : r[i] = r0[i]
      BY <3>3
    <3>5. DOMAIN r = 1..7
      BY <3>3
    <3> QED
      BY <3>2, <3>3, <3>4, <3>5
  <2>4. \A e \in D1 : e \in Kept \/ \E i \in DOMAIN r : r[i][1] = e
    <3>1. ASSUME NEW e \in Seven PROVE \E i \in DOMAIN r : r[i][1] = e
      <4>1. PICK i \in 1..7 : r0[i][1] = e
        BY <2>1
      <4>2. r[i] = r0[i] /\ i \in DOMAIN r
        BY <2>3
      <4> QED
        BY <4>1, <4>2
    <3> QED
      BY <3>1
  <2>5. Piece(kind, Kept, [i \in DOMAIN r |-> Alloc(r[i][1], r[i][2])], D1, n, {})
    <3> HIDE DEF D1
    <3> QED
      BY <1>2, <2>4, TakesPiece
  <2> QED
    BY <2>1, <2>3, <2>5
<1>4. Piece(kind, D1, p2, D1, n, {}) /\ Piece(kind, D1, p4, D1, n, {})
  <2> HIDE DEF D1
  <2> QED
    BY <1>2, LayerWrites
<1>5. Piece(kind, D1, p3, D1, n, H)
  <2>1. CASE kind = "blocks"
    <3>1. Piece(kind, D1, pt, D1, n, {})
      <4>1. KVDim * 4 \in Nat
        BY DimTypes
      <4>2. Piece(kind, D1, <<Op("permanent", "tokenBuf", KVDim * 4), Op("free", "tokenBuf", 0)>>, D1, n, {})
        <5>1. PICK x \in Nat : x = KVDim * 4
          BY <4>1
        <5> HIDE DEF D1
        <5>2. Piece(kind, D1, <<Op("permanent", "tokenBuf", x), Op("free", "tokenBuf", 0)>>, D1, n, {})
          BY <1>2, PermanentPiece
        <5> QED
          BY <5>1, <5>2
      <4>3. Piece(kind, D1, << >>, D1, n, {})
        <5> HIDE DEF D1
        <5> QED
          BY <1>2, PieceNone
      <4> HIDE DEF D1
      <4> QED
        BY <4>2, <4>3
    <3>2. Piece(kind, D1, ps, D1, n, {<<"pool", l>>})
      <4>1. PICK k \in Keys : k = <<"pool", l>>
        BY DEF Keys
      <4>2. PICK a \in Ops : a = Op("store", k, n)
        BY OpTypes
      <4>3. PICK q \in Seq(Ops) : q = <<a>> /\ Len(q) = 1 /\ q[1] = a
        <5>1. <<a>> \in Seq(Ops) /\ Len(<<a>>) = 1 /\ <<a>>[1] = a
          OBVIOUS
        <5> QED
          BY <5>1
      <4>4. a.op = "store" /\ a.n = n /\ a.s = k
        BY <4>2
      <4>5. \A i \in 1..Len(q) : q[i].op \in {"append", "store"} /\ Fits1(kind, q[i]) /\ q[i].n = n
        BY <2>1, <4>3, <4>4 DEF Fits1
      <4>6. \A h \in {k} : \E i \in 1..Len(q) : q[i].s = h
        BY <4>3, <4>4
      <4>7. Piece(kind, D1, q, D1, n, {k})
        <5> HIDE DEF D1
        <5> QED
          BY <1>2, <4>5, <4>6, PieceAdds
      <4> QED
        BY <4>1, <4>2, <4>3, <4>7
    <3> HIDE DEF D1, pt, ps
    <3>3. Piece(kind, D1, pt \o ps, D1, n, {} \cup {<<"pool", l>>})
      BY <3>1, <3>2, PieceJoin
    <3>4. {} \cup {<<"pool", l>>} = H /\ p3 = pt \o ps
      BY <2>1
    <3> QED
      BY <3>3, <3>4
  <2>2. CASE kind # "blocks"
    <3>1. PICK x \in Nat : x = (seqLen + n) * KVDim * 4
      <4>1. PICK y \in Nat : y = seqLen + n
        OBVIOUS
      <4>2. y * KVDim \in Nat
        BY DimTypes
      <4>3. y * KVDim * 4 \in Nat
        BY <4>2
      <4> QED
        BY <4>1, <4>3
    <3>2. <<"fullK", x>> \in (Kept \cup Temps) \X Nat /\ <<"fullV", x>> \in (Kept \cup Temps) \X Nat
      BY DEF Temps
    <3>3. << <<"fullK", x>>, <<"fullV", x>> >> \in Seq((Kept \cup Temps) \X Nat)
      BY <3>2
    <3>4. Piece(kind, D1, Fills(<< <<"fullK", x>>, <<"fullV", x>> >>), D1, n, {})
      <4> HIDE DEF D1
      <4> QED
        BY <1>2, <3>3, FillsPiece
    <3>5. p3 = Fills(fs) /\ H = {}
      BY <2>2
    <3> HIDE DEF D1, H, p3
    <3> QED
      BY <3>1, <3>4, <3>5
  <2> QED
    BY <2>1, <2>2
<1> HIDE DEF p1, p2, p3, p4, D1, H
<1>6. Piece(kind, Kept, p1 \o p2, D1, n, {})
  BY <1>3, <1>4, PieceThen
<1>7. Piece(kind, Kept, p1 \o p2 \o p3, D1, n, {} \cup H)
  BY <1>5, <1>6, PieceJoin
<1>8. Piece(kind, Kept, p1 \o p2 \o p3 \o p4, D1, n, ({} \cup H) \cup {})
  BY <1>4, <1>7, PieceJoin
<1>9. Piece(kind, Kept, p1 \o p2 \o p3 \o p4, Kept, n, ({} \cup H) \cup {})
  BY <1>2, <1>8, PieceWeaken
<1>10. ({} \cup H) \cup {} = H
  OBVIOUS
<1>11. Piece(kind, Kept, LayerPagedKV(kind, n, l), Kept, n, H)
  BY <1>1, <1>9, <1>10
<1> QED
  BY <1>11 DEF H

LEMMA SizeTypes ==
  ASSUME NEW n \in Nat
  PROVE  /\ ScratchBytes(n) \in Nat /\ n * 4 \in Nat /\ n * Dims.hidden * 4 \in Nat
         /\ Dims.vocab * 4 \in Nat /\ Dims.hidden * 4 \in Nat
<1>1. PICK h \in Nat, q \in Nat, kv \in Nat, g \in Nat, v \in Nat :
        h = Dims.hidden /\ q = QDim /\ kv = KVDim /\ g = Dims.inter /\ v = Dims.vocab
  BY DimTypes
<1>2. /\ n * h \in Nat /\ 2 * n * q \in Nat /\ 2 * n * kv \in Nat /\ n * n \in Nat
      /\ 4 * n * g \in Nat /\ n * v \in Nat
  OBVIOUS
<1>3. PICK block \in Nat, logits \in Nat :
        block = n * h + 2 * n * q + 2 * n * kv + n * n + 4 * n * g /\ logits = n * v
  BY <1>2
<1>4. ScratchBytes(n) = 4 * (IF logits > block THEN logits ELSE block)
  BY <1>1, <1>3 DEF ScratchBytes
<1>5. ScratchBytes(n) \in Nat
  BY <1>4
<1>6. n * h * 4 \in Nat /\ v * 4 \in Nat /\ h * 4 \in Nat /\ n * 4 \in Nat
  BY <1>2
<1> QED
  BY <1>1, <1>5, <1>6

\* The sizes that depend on the kind of pass.
LEMMA PassSizes ==
  ASSUME NEW kind, NEW n \in Nat, seqLen \in Nat
  PROVE  LayerScratch(kind, n) \in Nat /\ LogitsRows(kind, n) * Dims.vocab * 4 \in Nat
<1>1. PICK s \in Nat, kv \in Nat, v \in Nat : s = ScratchBytes(n) /\ kv = KVDim /\ v = Dims.vocab
  BY SizeTypes, DimTypes
<1>2. PICK m \in Nat : m = seqLen + n
  OBVIOUS
<1>3. PICK scores \in Nat, context \in Nat : scores = n * n * 4 /\ context = m * kv * 8
  OBVIOUS
<1>4. LayerScratch(kind, n) = s + (IF FirstPaged(kind) THEN scores ELSE 0)
                                + (IF LaterPaged(kind) THEN context ELSE 0)
  BY <1>1, <1>2, <1>3 DEF LayerScratch
<1>5. LayerScratch(kind, n) \in Nat
  BY <1>4
<1>6. PICK r \in Nat : r = LogitsRows(kind, n)
  BY DEF LogitsRows
<1>7. r * v * 4 \in Nat
  OBVIOUS
<1> QED
  BY <1>1, <1>5, <1>6, <1>7

\* A buffer of the arena is taken and filled: the tokens and the state stay for the whole pass.
LEMMA ArenaPieces ==
  ASSUME NEW kind, NEW x \in Nat, NEW y \in Nat, NEW z \in Nat, NEW N
  PROVE  /\ Piece(kind, {}, <<Arena("tokens", x), Write("tokens"), Arena("state", y), Write("state"),
                              Arena("layerScratch", z)>>, Kept, N, {})
         /\ Piece(kind, Kept, <<Arena("logits", z), Write("logits")>>, Kept, N, {})
         /\ Quiet(<<Arena("logits", z), Write("logits")>>)
<1>1. /\ "tokens" \in Kept \cup Temps /\ "state" \in Kept \cup Temps
      /\ "layerScratch" \in Kept \cup Temps /\ "logits" \in Kept \cup Temps
  BY DEF Kept, Temps
<1>2. PICK a \in Ops, b \in Ops, c \in Ops, d \in Ops, e \in Ops :
        /\ a = Arena("tokens", x) /\ b = Write("tokens") /\ c = Arena("state", y)
        /\ d = Write("state") /\ e = Arena("layerScratch", z)
  BY <1>1, OpTypes
<1>3. /\ a.op = "arena" /\ b.op = "write" /\ c.op = "arena" /\ d.op = "write" /\ e.op = "arena"
      /\ a.s = "tokens" /\ b.s = "tokens" /\ c.s = "state" /\ d.s = "state" /\ e.s = "layerScratch"
  BY <1>2
<1>4. Binds(a) /\ Binds(c) /\ Binds(e)
  BY <1>3 DEF Binds
<1>5. PICK p \in Seq(Ops) : /\ p = <<a, b, c, d, e>> /\ Len(p) = 5 /\ p[1] = a /\ p[2] = b /\ p[3] = c
                            /\ p[4] = d /\ p[5] = e
  <2>1. /\ <<a, b, c, d, e>> \in Seq(Ops) /\ Len(<<a, b, c, d, e>>) = 5
        /\ <<a, b, c, d, e>>[1] = a /\ <<a, b, c, d, e>>[2] = b /\ <<a, b, c, d, e>>[3] = c
        /\ <<a, b, c, d, e>>[4] = d /\ <<a, b, c, d, e>>[5] = e
    OBVIOUS
  <2> QED
    BY <2>1
<1>6. Known({}, p, 2) /\ Known({}, p, 4)
  <2>1. 1 \in 1..(2 - 1) /\ 3 \in 1..(4 - 1)
    OBVIOUS
  <2>2. p[1].s = p[2].s /\ p[3].s = p[4].s /\ Binds(p[1]) /\ Binds(p[3])
    BY <1>3, <1>4, <1>5
  <2> QED
    BY <2>1, <2>2 DEF Known
<1>7. ASSUME NEW i \in 1..Len(p)
      PROVE  /\ p[i].op \in {"alloc", "arena", "bump", "write", "zero", "update"}
             /\ p[i].op = "write" => Known({}, p, i)
  <2>1. i = 1 \/ i = 2 \/ i = 3 \/ i = 4 \/ i = 5
    BY <1>5
  <2> QED
    BY <1>3, <1>5, <1>6, <2>1
<1>8. \A k \in Kept : k \in {} \/ \E i \in 1..Len(p) : Binds(p[i]) /\ p[i].s = k
  BY <1>3, <1>4, <1>5 DEF Kept
<1>9. Piece(kind, {}, p, Kept, N, {})
  BY <1>7, <1>8, PieceFlat
<1>10. PICK f \in Ops, g \in Ops : f = Arena("logits", z) /\ g = Write("logits")
  BY <1>1, OpTypes
<1>11. f.op = "arena" /\ g.op = "write" /\ f.s = "logits" /\ g.s = "logits"
  BY <1>10
<1>12. PICK r \in Seq(Ops) : r = <<f, g>> /\ Len(r) = 2 /\ r[1] = f /\ r[2] = g
  <2>1. <<f, g>> \in Seq(Ops) /\ Len(<<f, g>>) = 2 /\ <<f, g>>[1] = f /\ <<f, g>>[2] = g
    OBVIOUS
  <2> QED
    BY <2>1
<1>13. ASSUME NEW i \in 1..Len(r)
       PROVE  /\ r[i].op \in {"alloc", "arena", "bump", "write", "zero", "update"}
              /\ r[i].op = "write" => Known(Kept, r, i)
  <2>1. CASE i = 1
    BY <1>11, <1>12, <2>1
  <2>2. CASE i = 2
    <3>1. 1 \in 1..(i - 1) /\ Binds(r[1]) /\ r[1].s = r[i].s
      BY <1>11, <1>12, <2>2 DEF Binds
    <3>2. Known(Kept, r, i)
      BY <3>1 DEF Known
    <3> QED
      BY <1>11, <1>12, <2>2, <3>2
  <2> QED
    BY <1>12, <2>1, <2>2
<1>14. Piece(kind, Kept, r, Kept, N, {}) /\ Quiet(r)
  <2>1. Kept \subseteq Names
    BY DEF Names
  <2> QED
    BY <1>13, <2>1, PieceFlat
<1> QED
  BY <1>2, <1>5, <1>9, <1>10, <1>12, <1>14

\* A pass of a process that serves.
LEMMA ForwardSound ==
  ASSUME NEW kind \in {"f16", "f32", "blocks", "cpupaged"}, NEW n \in Nat, seqLen \in Nat
  PROVE  /\ ForwardPlan(kind, n) \in Seq(Ops) /\ Leads({}, ForwardPlan(kind, n), {})
         /\ Settles(kind, ForwardPlan(kind, n), n, Holders(kind))
<1> DEFINE p1 == <<Arena("tokens", n * 4), Write("tokens"), Arena("state", n * Dims.hidden * 4), Write("state"),
                   Arena("layerScratch", LayerScratch(kind, n))>>
           gpu == kind \in {"f16", "f32"}
           ss == [i \in 1..NumLayers |->
                    IF gpu THEN LayerGPUKV(kind, n, i - 1) ELSE LayerPagedKV(kind, n, i - 1)]
           p2 == FlattenSeq(ss)
           p3 == <<Op("commit", "", n)>>
           p4 == IF n > LogitsRows(kind, n) THEN Fill("lastState", Dims.hidden * 4) ELSE << >>
           p5 == <<Arena("logits", LogitsRows(kind, n) * Dims.vocab * 4), Write("logits")>>
           HS == [i \in 1..NumLayers |->
                    IF gpu THEN {<<"K", i - 1>>, <<"V", i - 1>>}
                    ELSE IF kind = "blocks" THEN {<<"pool", i - 1>>} ELSE {}]
<1>1. ForwardPlan(kind, n) = p1 \o p2 \o p3 \o p4 \o p5
  BY DEF ForwardPlan, Layers
<1>2. NumLayers \in Nat /\ Len(ss) = NumLayers /\ NumLayers # 0
  BY SizesAssumption
<1>3. ASSUME NEW i \in 1..NumLayers PROVE Piece(kind, Kept, ss[i], Kept, n, HS[i])
  <2>1. PICK l \in LayerIds : l = i - 1
    BY SizesAssumption DEF LayerIds
  <2>2. CASE gpu
    <3>1. ss[i] = LayerGPUKV(kind, n, l) /\ HS[i] = {<<"K", l>>, <<"V", l>>}
      BY <2>1, <2>2
    <3> HIDE DEF ss, HS
    <3> QED
      BY <2>2, <3>1, LayerGPUPiece
  <2>3. CASE ~gpu
    <3>1. ss[i] = LayerPagedKV(kind, n, l) /\ HS[i] = IF kind = "blocks" THEN {<<"pool", l>>} ELSE {}
      BY <2>1, <2>3
    <3>2. kind \in {"blocks", "cpupaged"}
      BY <2>3
    <3> HIDE DEF ss, HS
    <3> QED
      BY <3>1, <3>2, LayerPagedPiece
  <2> QED
    BY <2>2, <2>3
<1>4. ASSUME NEW h \in Holders(kind) PROVE \E i \in 1..Len(ss) : h \in HS[i]
  <2>1. CASE gpu
    <3>1. Holders(kind) = Cached
      BY <2>1 DEF Holders
    <3>2. PICK x \in {"K", "V"}, l \in LayerIds : h = <<x, l>>
      BY <3>1 DEF Cached
    <3>3. PICK i \in 1..NumLayers : i - 1 = l
      BY SizesAssumption DEF LayerIds
    <3>4. HS[i] = {<<"K", l>>, <<"V", l>>}
      BY <2>1, <3>3
    <3> HIDE DEF ss, HS
    <3> QED
      BY <1>2, <3>2, <3>3, <3>4
  <2>2. CASE kind = "blocks"
    <3>1. Holders(kind) = {<<"pool", l>> : l \in LayerIds}
      BY <2>2 DEF Holders
    <3>2. PICK l \in LayerIds : h = <<"pool", l>>
      BY <3>1
    <3>3. PICK i \in 1..NumLayers : i - 1 = l
      BY SizesAssumption DEF LayerIds
    <3>4. HS[i] = {<<"pool", l>>}
      BY <2>2, <3>3
    <3> HIDE DEF ss, HS
    <3> QED
      BY <1>2, <3>2, <3>3, <3>4
  <2>3. CASE kind = "cpupaged"
    BY <2>3 DEF Holders
  <2> QED
    BY <2>1, <2>2, <2>3
<1>5. Kept \subseteq Names
  BY DEF Names
<1>6. Piece(kind, Kept, p2, Kept, n, Holders(kind))
  <2>1. \A i \in 1..Len(ss) : Piece(kind, Kept, ss[i], Kept, n, HS[i])
    BY <1>2, <1>3
  <2>2. Len(ss) \in Nat /\ (Len(ss) = 0 => ss = << >>)
    BY <1>2
  <2> HIDE DEF ss, HS
  <2> QED
    BY <1>4, <1>5, <2>1, <2>2, PieceLayers
<1>7. Piece(kind, {}, p1, Kept, n, {}) /\ Piece(kind, Kept, p5, Kept, n, {}) /\ Quiet(p5)
  <2>1. PICK x \in Nat, y \in Nat, z \in Nat, w \in Nat :
          /\ x = n * 4 /\ y = n * Dims.hidden * 4
          /\ z = LayerScratch(kind, n) /\ w = LogitsRows(kind, n) * Dims.vocab * 4
    BY SizeTypes, PassSizes
  <2>2. Piece(kind, {}, <<Arena("tokens", x), Write("tokens"), Arena("state", y), Write("state"),
                          Arena("layerScratch", z)>>, Kept, n, {})
    BY ArenaPieces
  <2>3. /\ Piece(kind, Kept, <<Arena("logits", w), Write("logits")>>, Kept, n, {})
        /\ Quiet(<<Arena("logits", w), Write("logits")>>)
    BY ArenaPieces
  <2> QED
    BY <2>1, <2>2, <2>3
<1>8. Piece(kind, Kept, p4, Kept, n, {}) /\ Quiet(p4)
  <2>1. PICK x \in Nat : x = Dims.hidden * 4
    BY SizeTypes
  <2>2. "lastState" \in Kept \cup Temps
    BY DEF Temps
  <2>3. Piece(kind, Kept, Fill("lastState", x), Kept, n, {}) /\ Quiet(Fill("lastState", x))
    BY <1>5, <2>2, FillPiece
  <2>4. Piece(kind, Kept, << >>, Kept, n, {}) /\ Quiet(<< >>)
    <3>1. Quiet(<< >>)
      BY DEF Quiet
    <3> QED
      BY <1>5, <3>1, PieceNone
  <2> QED
    BY <2>1, <2>3, <2>4
<1> HIDE DEF p1, p2, p4, p5, ss, HS, gpu
<1>9. Piece(kind, {}, p1 \o p2, Kept, n, {} \cup Holders(kind))
  BY <1>6, <1>7, PieceJoin
<1>10. PICK q \in Seq(Ops) : q = p1 \o p2 /\ Leads({}, q, Kept) /\ Feeds(kind, q, n, Holders(kind))
  <2>1. {} \cup Holders(kind) = Holders(kind)
    OBVIOUS
  <2> QED
    BY <1>9, <2>1 DEF Piece
<1>11. PICK c \in Ops : c = Op("commit", "", n)
  BY OpTypes
<1>12. c.op = "commit" /\ c.n = n
  BY <1>11
<1>13. PICK r \in Seq(Ops) : r = <<c>> /\ r # << >> /\ r[1] = c /\ Len(r) = 1 /\ Tail(r) = << >>
  <2>1. <<c>> \in Seq(Ops) /\ <<c>> # << >> /\ <<c>>[1] = c /\ Len(<<c>>) = 1 /\ Tail(<<c>>) = << >>
    OBVIOUS
  <2> QED
    BY <2>1
<1>14. Quiet(Tail(r))
  BY <1>13 DEF Quiet
<1>15. Settles(kind, q \o r, n, Holders(kind))
  BY <1>10, <1>12, <1>13, <1>14, FeedsThenCommit
<1>16. Leads(Kept, r, Kept)
  <2>1. \A i \in 1..Len(r) : r[i] = c
    BY <1>13
  <2>2. \A i \in 1..Len(r) : /\ r[i].op \notin {"free", "rewind"}
                             /\ (r[i].op = "write" => Known(Kept, r, i))
    BY <1>12, <2>1
  <2>3. PICK F : F = Kept \cup {r[i].s : i \in {j \in 1..Len(r) : Binds(r[j])}}
    OBVIOUS
  <2>4. Leads(Kept, r, F) /\ Kept \subseteq F
    BY <1>5, <2>2, <2>3, LeadsFlat
  <2> QED
    BY <2>4, LeadsWeaken
<1>17. PICK s \in Seq(Ops) : s = q \o r
  BY Joined
<1>18. Leads({}, s, Kept)
  BY <1>10, <1>16, <1>17, LeadsJoin
<1>19. p4 \in Seq(Ops) /\ Leads(Kept, p4, Kept) /\ p5 \in Seq(Ops) /\ Leads(Kept, p5, Kept)
  BY <1>7, <1>8 DEF Piece
<1>20. PICK t \in Seq(Ops) : t = s \o p4
  BY <1>19, Joined
<1>21. Leads({}, t, Kept) /\ Settles(kind, t, n, Holders(kind))
  <2>1. Leads({}, t, Kept)
    BY <1>18, <1>19, <1>20, LeadsJoin
  <2>2. Settles(kind, s, n, Holders(kind))
    BY <1>15, <1>17
  <2> QED
    BY <1>8, <1>19, <1>20, <2>1, <2>2, SettlesThenQuiet
<1>22. PICK u \in Seq(Ops) : u = t \o p5
  BY <1>19, Joined
<1>23. Leads({}, u, Kept) /\ Settles(kind, u, n, Holders(kind))
  <2>1. Leads({}, u, Kept)
    BY <1>19, <1>21, <1>22, LeadsJoin
  <2> QED
    BY <1>7, <1>19, <1>21, <1>22, <2>1, SettlesThenQuiet
<1>24. Leads({}, u, {})
  BY <1>23, LeadsWeaken
<1>25. u = ForwardPlan(kind, n)
  BY <1>1, <1>10, <1>11, <1>13, <1>17, <1>20, <1>22
<1> QED
  BY <1>23, <1>24, <1>25

\* A buffer an operation asks for.
Ask == (Kept \cup Temps) \X Nat

\* The sizes a training step asks for.
LEMMA TrainSizes ==
  ASSUME NEW n \in Nat
  PROVE  /\ n * Dims.hidden * 4 \in Nat /\ n * QDim * 4 \in Nat /\ n * KVDim * 4 \in Nat
         /\ n * Dims.inter * 4 \in Nat /\ n * Rank * 4 \in Nat /\ n * Dims.vocab * 4 \in Nat
         /\ n * 4 \in Nat /\ Dims.heads * n * n * 4 \in Nat
<1>1. \A x \in Nat, y \in Nat : x * y \in Nat /\ x * y * 4 \in Nat
  <2>1. \A x \in Nat, y \in Nat : x * y \in Nat
    OBVIOUS
  <2>2. \A x \in Nat : x * 4 \in Nat
    OBVIOUS
  <2> QED
    BY <2>1, <2>2
<1>2. /\ Dims.hidden \in Nat /\ QDim \in Nat /\ KVDim \in Nat /\ Dims.inter \in Nat /\ Rank \in Nat
      /\ Dims.vocab \in Nat /\ Dims.heads \in Nat
  BY DimTypes
<1>3. Dims.heads * n \in Nat
  BY <1>1, <1>2
<1> QED
  BY <1>1, <1>2, <1>3

\* applyLoRA's two buffers.
LEMMA DeltaAsks ==
  ASSUME NEW n \in Nat, NEW out \in Nat
  PROVE  LoRADelta(n, out) \in Seq(Ask)
<1>1. PICK x \in Nat, y \in Nat : x = n * Rank * 4 /\ y = n * out * 4
  <2>1. n * Rank * 4 \in Nat
    BY TrainSizes
  <2>2. n * out \in Nat
    OBVIOUS
  <2>3. n * out * 4 \in Nat
    BY <2>2
  <2> QED
    BY <2>1, <2>3
<1>2. <<"intermediate", x>> \in Ask /\ <<"loraOut", y>> \in Ask
  BY DEF Ask, Temps
<1>3. << <<"intermediate", x>>, <<"loraOut", y>> >> \in Seq(Ask)
  BY <1>2
<1> QED
  BY <1>1, <1>3 DEF LoRADelta

\* The buffers of one layer of a training step's forward pass.
LEMMA LayerForwardPiece ==
  ASSUME NEW n \in Nat
  PROVE  Piece("train", {}, LayerTrainingForward(n), {}, n, {})
<1>1. PICK h \in Nat, q \in Nat, kv \in Nat, g \in Nat :
        h = n * Dims.hidden * 4 /\ q = n * QDim * 4 /\ kv = n * KVDim * 4 /\ g = n * Dims.inter * 4
  BY TrainSizes
<1> DEFINE a == << <<"Residual", h>>, <<"NormOut", h>>, <<"q", q>>, <<"k", kv>>, <<"v", kv>> >>
           b == LoRADelta(n, QDim)
           c == LoRADelta(n, KVDim)
           d == << <<"V", kv>>, <<"Q", q>>, <<"K", kv>>, <<"attnOut", q>>, <<"AttnOut", q>>, <<"woOut", h>> >>
           e == LoRADelta(n, Dims.hidden)
           f == << <<"FFNNormOut", h>>, <<"gate", g>>, <<"up", g>>, <<"Gate", g>>, <<"Up", g>>, <<"mlpOut", h>> >>
<1>2. a \in Seq(Ask)
  <2>1. /\ <<"Residual", h>> \in Ask /\ <<"NormOut", h>> \in Ask /\ <<"q", q>> \in Ask /\ <<"k", kv>> \in Ask
        /\ <<"v", kv>> \in Ask
    BY DEF Ask, Temps, Kept
  <2> QED
    BY <2>1
<1>3. b \in Seq(Ask) /\ c \in Seq(Ask) /\ e \in Seq(Ask)
  BY DeltaAsks, DimTypes
<1>4. d \in Seq(Ask)
  <2>1. /\ <<"V", kv>> \in Ask /\ <<"Q", q>> \in Ask /\ <<"K", kv>> \in Ask /\ <<"attnOut", q>> \in Ask
        /\ <<"AttnOut", q>> \in Ask /\ <<"woOut", h>> \in Ask
    BY DEF Ask, Temps, Kept
  <2> QED
    BY <2>1
<1>5. f \in Seq(Ask)
  <2>1. /\ <<"FFNNormOut", h>> \in Ask /\ <<"gate", g>> \in Ask /\ <<"up", g>> \in Ask /\ <<"Gate", g>> \in Ask
        /\ <<"Up", g>> \in Ask /\ <<"mlpOut", h>> \in Ask
    BY DEF Ask, Temps, Kept
  <2> QED
    BY <2>1
<1>6. LayerTrainingForward(n) = Fills(a \o b \o c \o c \o d \o e \o f)
  BY <1>1 DEF LayerTrainingForward
<1> HIDE DEF a, b, c, d, e, f
<1>7. PICK r \in Seq(Ask) : r = a \o b \o c \o c \o d \o e \o f
  <2>1. a \o b \in Seq(Ask)
    BY <1>2, <1>3, Joined
  <2>2. a \o b \o c \in Seq(Ask)
    BY <1>3, <2>1, Joined
  <2>3. a \o b \o c \o c \in Seq(Ask)
    BY <1>3, <2>2, Joined
  <2>4. a \o b \o c \o c \o d \in Seq(Ask)
    BY <1>4, <2>3, Joined
  <2>5. a \o b \o c \o c \o d \o e \in Seq(Ask)
    BY <1>3, <2>4, Joined
  <2>6. a \o b \o c \o c \o d \o e \o f \in Seq(Ask)
    BY <1>5, <2>5, Joined
  <2> QED
    BY <2>6
<1>8. Piece("train", {}, Fills(r), {}, n, {})
  <2>1. r \in Seq((Kept \cup Temps) \X Nat)
    BY DEF Ask
  <2> QED
    BY <2>1, FillsPiece
<1> QED
  BY <1>6, <1>7, <1>8

\* The buffers of one layer of the backward pass.
LEMMA LayerBackwardPiece ==
  ASSUME NEW n \in Nat
  PROVE  Piece("train", {}, LayerBackward(n), {}, n, {})
<1>1. PICK h \in Nat, q \in Nat, kv \in Nat, g \in Nat, w \in Nat, x \in Nat :
        /\ h = n * Dims.hidden * 4 /\ q = n * QDim * 4 /\ kv = n * KVDim * 4 /\ g = n * Dims.inter * 4
        /\ w = Dims.heads * n * n * 4 /\ x = n * Rank * 4
  BY TrainSizes
<1> DEFINE a == << <<"dAct", g>>, <<"dGate", g>>, <<"dUp", g>>, <<"dFFNInput", h>>, <<"tmp", h>>, <<"tmp", h>>, <<"ffnNormInput", h>>, <<"dFFNNorm", h>>, <<"dAttnOut", q>>, <<"dQ", q>>, <<"dK", kv>>, <<"dV", kv>>, <<"attnWeights", w>> >>
           b == [i \in 1..8 |-> <<"inter", x>>]
           c == << <<"dNormOut", h>>, <<"tmp", h>>, <<"tmp", h>>, <<"tmp", h>>, <<"dAttnNorm", h>> >>
<1>2. a \in Seq(Ask)
  <2>1. /\ <<"dAct", g>> \in Ask /\ <<"dGate", g>> \in Ask /\ <<"dUp", g>> \in Ask /\ <<"dFFNInput", h>> \in Ask
        /\ <<"tmp", h>> \in Ask /\ <<"ffnNormInput", h>> \in Ask /\ <<"dFFNNorm", h>> \in Ask /\ <<"dAttnOut", q>> \in Ask
        /\ <<"dQ", q>> \in Ask /\ <<"dK", kv>> \in Ask /\ <<"dV", kv>> \in Ask /\ <<"attnWeights", w>> \in Ask
    BY DEF Ask, Temps, Kept
  <2> QED
    BY <2>1
<1>3. b \in Seq(Ask)
  <2>1. <<"inter", x>> \in Ask
    BY DEF Ask, Temps
  <2> QED
    BY <2>1
<1>4. c \in Seq(Ask)
  <2>1. /\ <<"dNormOut", h>> \in Ask /\ <<"tmp", h>> \in Ask /\ <<"dAttnNorm", h>> \in Ask
    BY DEF Ask, Temps, Kept
  <2> QED
    BY <2>1
<1>5. LayerBackward(n) = Fills(a \o b \o c)
  BY <1>1 DEF LayerBackward
<1> HIDE DEF a, b, c
<1>6. PICK r \in Seq(Ask) : r = a \o b \o c
  <2>1. a \o b \in Seq(Ask)
    BY <1>2, <1>3, Joined
  <2>2. a \o b \o c \in Seq(Ask)
    BY <1>4, <2>1, Joined
  <2> QED
    BY <2>2
<1>7. Piece("train", {}, Fills(r), {}, n, {})
  <2>1. r \in Seq((Kept \cup Temps) \X Nat)
    BY DEF Ask
  <2> QED
    BY <2>1, FillsPiece
<1> QED
  BY <1>5, <1>6, <1>7

\* A training step.
LEMMA TrainSound ==
  ASSUME NEW n \in Nat
  PROVE  Piece("train", {}, TrainPlan(n), {}, n, {})
<1>1. PICK h \in Nat, x \in Nat, y \in Nat :
        h = n * Dims.hidden * 4 /\ x = n * 4 /\ y = n * Dims.vocab * 4
  BY TrainSizes
<1> DEFINE a == << <<"tokens", x>>, <<"state", h>> >>
           b == << <<"normOut", h>>, <<"logits", y>>, <<"targets", x>>, <<"mask", x>> >>
           c == << <<"dLogits", y>>, <<"dFinalNormOut", h>>, <<"dResidual", h>> >>
           sf == [i \in 1..NumLayers |-> LayerTrainingForward(n)]
           sb == [i \in 1..NumLayers |-> LayerBackward(n)]
           HS == [i \in 1..NumLayers |-> {}]
           zero == <<Op("zero", "", 0)>>
           update == <<Op("update", "", 0)>>
<1>2. a \in Seq(Ask)
  <2>1. /\ <<"tokens", x>> \in Ask /\ <<"state", h>> \in Ask
    BY DEF Ask, Temps, Kept
  <2> QED
    BY <2>1
<1>3. b \in Seq(Ask)
  <2>1. /\ <<"normOut", h>> \in Ask /\ <<"logits", y>> \in Ask /\ <<"targets", x>> \in Ask /\ <<"mask", x>> \in Ask
    BY DEF Ask, Temps, Kept
  <2> QED
    BY <2>1
<1>4. c \in Seq(Ask)
  <2>1. /\ <<"dLogits", y>> \in Ask /\ <<"dFinalNormOut", h>> \in Ask /\ <<"dResidual", h>> \in Ask
    BY DEF Ask, Temps, Kept
  <2> QED
    BY <2>1
<1>5. TrainPlan(n) = Fills(a) \o FlattenSeq(sf) \o Fills(b) \o zero \o Fills(c) \o FlattenSeq(sb) \o update
  BY <1>1 DEF TrainPlan, Layers
<1>6. {} \subseteq Names
  OBVIOUS
<1>7. /\ Piece("train", {}, Fills(a), {}, n, {}) /\ Piece("train", {}, Fills(b), {}, n, {})
      /\ Piece("train", {}, Fills(c), {}, n, {})
  <2>1. a \in Seq((Kept \cup Temps) \X Nat) /\ b \in Seq((Kept \cup Temps) \X Nat)
        /\ c \in Seq((Kept \cup Temps) \X Nat)
    BY <1>2, <1>3, <1>4 DEF Ask
  <2> HIDE DEF a, b, c
  <2> QED
    BY <1>6, <2>1, FillsPiece
<1>8. Piece("train", {}, FlattenSeq(sf), {}, n, {}) /\ Piece("train", {}, FlattenSeq(sb), {}, n, {})
  <2>1. /\ NumLayers \in Nat \ {0} /\ Len(sf) = NumLayers /\ Len(sb) = NumLayers
    BY SizesAssumption
  <2>2. \A i \in 1..NumLayers : sf[i] = LayerTrainingForward(n) /\ sb[i] = LayerBackward(n) /\ HS[i] = {}
    OBVIOUS
  <2> HIDE DEF sf, sb, HS
  <2>3. /\ \A i \in 1..Len(sf) : Piece("train", {}, sf[i], {}, n, HS[i])
        /\ \A i \in 1..Len(sb) : Piece("train", {}, sb[i], {}, n, HS[i])
    BY <2>1, <2>2, LayerForwardPiece, LayerBackwardPiece
  <2>4. Len(sf) \in Nat /\ Len(sb) \in Nat /\ (Len(sf) = 0 => sf = << >>) /\ (Len(sb) = 0 => sb = << >>)
    BY <2>1
  <2>5. Piece("train", {}, FlattenSeq(sf), {}, n, {})
    BY <1>6, <2>3, <2>4, PieceLayers
  <2>6. Piece("train", {}, FlattenSeq(sb), {}, n, {})
    BY <1>6, <2>3, <2>4, PieceLayers
  <2> QED
    BY <2>5, <2>6
<1>9. Piece("train", {}, zero, {}, n, {}) /\ Piece("train", {}, update, {}, n, {})
  <2>1. PICK z \in Ops, u \in Ops : z = Op("zero", "", 0) /\ u = Op("update", "", 0)
    BY OpTypes
  <2>2. z.op = "zero" /\ u.op = "update"
    BY <2>1
  <2>3. PICK p \in Seq(Ops), r \in Seq(Ops) :
          p = <<z>> /\ r = <<u>> /\ Len(p) = 1 /\ Len(r) = 1 /\ p[1] = z /\ r[1] = u
    <3>1. /\ <<z>> \in Seq(Ops) /\ <<u>> \in Seq(Ops) /\ Len(<<z>>) = 1 /\ Len(<<u>>) = 1
          /\ <<z>>[1] = z /\ <<u>>[1] = u
      OBVIOUS
    <3> QED
      BY <3>1
  <2>4. \A i \in 1..1 : p[i].op = "zero" /\ r[i].op = "update"
    BY <2>2, <2>3
  <2>5. \A i \in 1..Len(p) : /\ p[i].op \in {"alloc", "arena", "bump", "write", "zero", "update"}
                             /\ p[i].op = "write" => Known({}, p, i)
    BY <2>3, <2>4
  <2>6. \A i \in 1..Len(r) : /\ r[i].op \in {"alloc", "arena", "bump", "write", "zero", "update"}
                             /\ r[i].op = "write" => Known({}, r, i)
    BY <2>3, <2>4
  <2>7. Piece("train", {}, p, {}, n, {})
    BY <1>6, <2>5, PieceFlat
  <2>8. Piece("train", {}, r, {}, n, {})
    BY <1>6, <2>6, PieceFlat
  <2> QED
    BY <2>1, <2>3, <2>7, <2>8
<1>10. PICK A, S, B, Z, C, T, U :
         /\ A = Fills(a) /\ S = FlattenSeq(sf) /\ B = Fills(b) /\ Z = zero /\ C = Fills(c)
         /\ T = FlattenSeq(sb) /\ U = update
  OBVIOUS
<1> HIDE DEF a, b, c, sf, sb, zero, update
<1>11. Piece("train", {}, A \o S, {}, n, {})
  BY <1>7, <1>8, <1>10, PieceThen
<1>12. Piece("train", {}, A \o S \o B, {}, n, {})
  BY <1>7, <1>10, <1>11, PieceThen
<1>13. Piece("train", {}, A \o S \o B \o Z, {}, n, {})
  BY <1>9, <1>10, <1>12, PieceThen
<1>14. Piece("train", {}, A \o S \o B \o Z \o C, {}, n, {})
  BY <1>7, <1>10, <1>13, PieceThen
<1>15. Piece("train", {}, A \o S \o B \o Z \o C \o T, {}, n, {})
  BY <1>8, <1>10, <1>14, PieceThen
<1>16. Piece("train", {}, A \o S \o B \o Z \o C \o T \o U, {}, n, {})
  BY <1>9, <1>10, <1>15, PieceThen
<1> QED
  BY <1>5, <1>10, <1>16

\* The plan of every pass: each operation finds its names, rows are added before they are counted.
LEMMA PlanSound ==
  ASSUME NEW kind \in AllUses, NEW n \in Nat, seqLen \in Nat
  PROVE  /\ Plan(kind, n) \in Seq(Ops) /\ Leads({}, Plan(kind, n), {})
         /\ Settles(kind, Plan(kind, n), n, Holders(kind))
<1>1. CASE kind = "train"
  <2>1. Plan(kind, n) = TrainPlan(n)
    BY <1>1 DEF Plan
  <2>2. TrainPlan(n) \in Seq(Ops) /\ Leads({}, TrainPlan(n), {}) /\ Feeds("train", TrainPlan(n), n, {})
    BY TrainSound DEF Piece
  <2>3. Quiet(TrainPlan(n))
    BY <2>2, FeedsQuiet
  <2> QED
    BY <2>1, <2>2, <2>3, QuietSettles
<1>2. CASE kind # "train"
  <2>1. Plan(kind, n) = ForwardPlan(kind, n) /\ kind \in {"f16", "f32", "blocks", "cpupaged"}
    BY <1>2 DEF Plan, AllUses
  <2> QED
    BY <2>1, ForwardSound
<1> QED
  BY <1>1, <1>2

-----------------------------------------------------------------------------
(* The long-lived buffers.                                                 *)

\* The elements of s, each of which occurs once.
Members(s) == {s[i] : i \in 1..Len(s)}
Once(s) == \A i, j \in 1..Len(s) : s[i] = s[j] => i = j

\* Every name of a holder occurs where the constructors allocate.
Lists(s, H) == s \in Seq(H) /\ \A h \in H : \E i \in 1..Len(s) : s[i] = h

\* A loop over the layers, each of which allocates its own.
LEMMA LayersList ==
  ASSUME NEW H, NEW ss, Len(ss) \in Nat \ {0}, \A i \in 1..Len(ss) : ss[i] \in Seq(H),
         \A h \in H : \E i \in 1..Len(ss) : \E j \in 1..Len(ss[i]) : ss[i][j] = h
  PROVE  Lists(FlattenSeq(ss), H)
<1>1. FlattenSeq(ss) \in Seq(H) /\ Mixes(FlattenSeq(ss), ss)
  BY FlattenRange
<1>2. PICK f \in Seq(H) : f = FlattenSeq(ss) /\ Mixes(f, ss)
  BY <1>1
<1>3. ASSUME NEW h \in H PROVE \E k \in 1..Len(f) : f[k] = h
  <2>1. PICK i \in 1..Len(ss) : \E j \in 1..Len(ss[i]) : ss[i][j] = h
    OBVIOUS
  <2>2. PICK j \in 1..Len(ss[i]) : ss[i][j] = h
    BY <2>1
  <2>3. PICK k \in 1..Len(f) : f[k] = ss[i][j]
    BY <1>2 DEF Mixes
  <2> QED
    BY <2>2, <2>3
<1> QED
  BY <1>2, <1>3 DEF Lists

\* AllocGradients and the momentum buffers, for every layer.
LEMMA MatricesList ==
  ASSUME NEW what
  PROVE  Lists(Layers(LAMBDA l : Matrices(what, l)), {what} \X LayerIds \X DOMAIN GradientBytes)
<1> DEFINE H == {what} \X LayerIds \X DOMAIN GradientBytes
           ss == [i \in 1..NumLayers |-> Matrices(what, i - 1)]
           M == <<"QA", "QB", "KA", "KB", "VA", "VB", "OA", "OB">>
<1>1. Layers(LAMBDA l : Matrices(what, l)) = FlattenSeq(ss)
  BY DEF Layers
<1>2. NumLayers \in Nat \ {0} /\ Len(ss) = NumLayers
  BY SizesAssumption
<1>3. DOMAIN GradientBytes = {"QA", "QB", "KA", "KB", "VA", "VB", "OA", "OB"}
  BY DEF GradientBytes
<1>4. /\ \A j \in 1..8 : M[j] \in DOMAIN GradientBytes
      /\ \A m \in DOMAIN GradientBytes : \E j \in 1..8 : M[j] = m
  BY <1>3
<1>5. ASSUME NEW i \in 1..NumLayers
      PROVE  /\ i - 1 \in LayerIds /\ ss[i] \in Seq(H) /\ Len(ss[i]) = 8
             /\ \A j \in 1..8 : ss[i][j] = <<what, i - 1, M[j]>>
  <2>1. i - 1 \in LayerIds
    BY <1>2 DEF LayerIds
  <2>2. ss[i] = [j \in 1..8 |-> <<what, i - 1, M[j]>>]
    BY DEF Matrices
  <2>3. \A j \in 1..8 : <<what, i - 1, M[j]>> \in H
    BY <1>4, <2>1
  <2> HIDE DEF M, H, ss
  <2>4. [j \in 1..8 |-> <<what, i - 1, M[j]>>] \in Seq(H)
    BY <2>3
  <2>5. Len(ss[i]) = 8 /\ \A j \in 1..8 : ss[i][j] = <<what, i - 1, M[j]>>
    BY <2>2
  <2> QED
    BY <2>1, <2>2, <2>4, <2>5
<1>6. ASSUME NEW h \in H PROVE \E i \in 1..Len(ss) : \E j \in 1..Len(ss[i]) : ss[i][j] = h
  <2>1. PICK l \in LayerIds, m \in DOMAIN GradientBytes : h = <<what, l, m>>
    OBVIOUS
  <2>2. PICK j \in 1..8 : M[j] = m
    BY <1>4
  <2>3. PICK i \in 1..NumLayers : i - 1 = l
    BY <1>2 DEF LayerIds
  <2> HIDE DEF M, H, ss
  <2>4. ss[i][j] = h /\ j \in 1..Len(ss[i])
    BY <1>5, <2>1, <2>2, <2>3
  <2> QED
    BY <1>2, <2>4
<1> HIDE DEF M, H, ss
<1>7. Lists(FlattenSeq(ss), H)
  <2>1. Len(ss) \in Nat \ {0} /\ \A i \in 1..Len(ss) : ss[i] \in Seq(H)
    BY <1>2, <1>5
  <2>2. \A h \in H : \E i \in 1..Len(ss) : \E j \in 1..Len(ss[i]) : ss[i][j] = h
    BY <1>6
  <2> QED
    BY <2>1, <2>2, LayersList
<1> QED
  BY <1>1, <1>7 DEF H

LEMMA HoldersListed ==
  ASSUME NEW kind \in AllUses
  PROVE  Lists(HolderSeq(kind), Holders(kind))
<1>0. NumLayers \in Nat \ {0}
  BY SizesAssumption
<1>1. CASE kind \in {"f16", "f32"}
  <2> DEFINE ss == [i \in 1..NumLayers |-> << <<"K", i - 1>>, <<"V", i - 1>> >>]
  <2>1. HolderSeq(kind) = FlattenSeq(ss) /\ Holders(kind) = Cached
    BY <1>1 DEF HolderSeq, Layers, Holders
  <2>2. Len(ss) = NumLayers
    BY <1>0
  <2>3. ASSUME NEW i \in 1..NumLayers
        PROVE  ss[i] \in Seq(Cached) /\ Len(ss[i]) = 2 /\ ss[i][1] = <<"K", i - 1>> /\ ss[i][2] = <<"V", i - 1>>
    <3>1. PICK l \in LayerIds : l = i - 1
      BY <1>0 DEF LayerIds
    <3>2. PICK k \in Cached, v \in Cached : k = <<"K", l>> /\ v = <<"V", l>>
      BY DEF Cached
    <3>3. ss[i] = <<k, v>>
      BY <3>1, <3>2
    <3> HIDE DEF ss
    <3> QED
      BY <3>1, <3>2, <3>3
  <2>4. ASSUME NEW h \in Cached PROVE \E i \in 1..Len(ss) : \E j \in 1..Len(ss[i]) : ss[i][j] = h
    <3>1. PICK x \in {"K", "V"}, l \in LayerIds : h = <<x, l>>
      BY DEF Cached
    <3>2. PICK i \in 1..NumLayers : i - 1 = l
      BY <1>0 DEF LayerIds
    <3> HIDE DEF ss
    <3>3. (x = "K" => ss[i][1] = h) /\ (x = "V" => ss[i][2] = h) /\ Len(ss[i]) = 2
      BY <2>3, <3>1, <3>2
    <3>4. 1 \in 1..Len(ss[i]) /\ 2 \in 1..Len(ss[i])
      BY <3>3
    <3> QED
      BY <2>2, <3>1, <3>3, <3>4
  <2> HIDE DEF ss
  <2>5. Len(ss) \in Nat \ {0} /\ \A i \in 1..Len(ss) : ss[i] \in Seq(Cached)
    BY <1>0, <2>2, <2>3
  <2>6. \A h \in Cached : \E i \in 1..Len(ss) : \E j \in 1..Len(ss[i]) : ss[i][j] = h
    BY <2>4
  <2>7. Lists(FlattenSeq(ss), Cached)
    BY <2>5, <2>6, LayersList
  <2> QED
    BY <2>1, <2>7
<1>2. CASE kind = "blocks"
  <2> DEFINE ss == [i \in 1..NumLayers |-> << <<"pool", i - 1>> >>]
             H == {<<"pool", l>> : l \in LayerIds}
  <2>1. HolderSeq(kind) = FlattenSeq(ss) /\ Holders(kind) = H
    BY <1>2 DEF HolderSeq, Layers, Holders
  <2>2. Len(ss) = NumLayers
    BY <1>0
  <2>3. ASSUME NEW i \in 1..NumLayers
        PROVE  ss[i] \in Seq(H) /\ Len(ss[i]) = 1 /\ ss[i][1] = <<"pool", i - 1>>
    <3>1. PICK l \in LayerIds : l = i - 1
      BY <1>0 DEF LayerIds
    <3>2. PICK k \in H : k = <<"pool", l>>
      OBVIOUS
    <3>3. ss[i] = <<k>>
      BY <3>1, <3>2
    <3> HIDE DEF ss, H
    <3> QED
      BY <3>1, <3>2, <3>3
  <2>4. ASSUME NEW h \in H PROVE \E i \in 1..Len(ss) : \E j \in 1..Len(ss[i]) : ss[i][j] = h
    <3>1. PICK l \in LayerIds : h = <<"pool", l>>
      OBVIOUS
    <3>2. PICK i \in 1..NumLayers : i - 1 = l
      BY <1>0 DEF LayerIds
    <3> HIDE DEF ss
    <3>3. ss[i][1] = h /\ Len(ss[i]) = 1
      BY <2>3, <3>1, <3>2
    <3>4. 1 \in 1..Len(ss[i])
      BY <3>3
    <3> QED
      BY <2>2, <3>3, <3>4
  <2> HIDE DEF ss, H
  <2>5. Len(ss) \in Nat \ {0} /\ \A i \in 1..Len(ss) : ss[i] \in Seq(H)
    BY <1>0, <2>2, <2>3
  <2>6. \A h \in H : \E i \in 1..Len(ss) : \E j \in 1..Len(ss[i]) : ss[i][j] = h
    BY <2>4
  <2>7. Lists(FlattenSeq(ss), H)
    BY <2>5, <2>6, LayersList
  <2> QED
    BY <2>1, <2>7
<1>3. CASE kind = "cpupaged"
  <2>1. HolderSeq(kind) = << >> /\ Holders(kind) = {}
    BY <1>3 DEF HolderSeq, Holders
  <2> QED
    BY <2>1 DEF Lists
<1>4. CASE kind = "train"
  <2> DEFINE G == {"grad"} \X LayerIds \X DOMAIN GradientBytes
             M == {"momentum"} \X LayerIds \X DOMAIN GradientBytes
  <2>1. PICK g, m : /\ g = Layers(LAMBDA l : Matrices("grad", l)) /\ m = Layers(LAMBDA l : Matrices("momentum", l))
                    /\ HolderSeq(kind) = g \o m
    BY <1>4 DEF HolderSeq
  <2>2. Lists(g, G) /\ Lists(m, M)
    BY <2>1, MatricesList
  <2>3. Holders(kind) = G \cup M
    BY <1>4 DEF Holders, Trained
  <2> HIDE DEF G, M
  <2>4. PICK g1 \in Seq(G \cup M), m1 \in Seq(G \cup M) : g1 = g /\ m1 = m
    BY <2>2 DEF Lists
  <2>5. PICK a \in Nat, b \in Nat, r \in Seq(G \cup M) :
          /\ a = Len(g1) /\ b = Len(m1) /\ r = g1 \o m1 /\ Len(r) = a + b
          /\ \A i \in 1..a : r[i] = g1[i]
          /\ \A i \in 1..b : r[a + i] = m1[i]
    <3>1. PICK r \in Seq(G \cup M) : r = g1 \o m1
      BY Joined
    <3>2. PICK a \in Nat, b \in Nat : a = Len(g1) /\ b = Len(m1)
      BY Joined
    <3>3. /\ Len(r) = a + b
          /\ \A i \in 1..a : r[i] = g1[i]
          /\ \A i \in 1..b : r[a + i] = m1[i]
      BY <3>1, <3>2, Joined
    <3> QED
      BY <3>1, <3>2, <3>3
  <2>6. ASSUME NEW h \in G \cup M PROVE \E i \in 1..Len(r) : r[i] = h
    <3>1. CASE h \in G
      <4>1. PICK i \in 1..a : g1[i] = h
        BY <2>2, <2>4, <2>5, <3>1 DEF Lists
      <4>2. i \in 1..Len(r) /\ r[i] = g1[i]
        BY <2>5
      <4> QED
        BY <4>1, <4>2
    <3>2. CASE h \in M
      <4>1. PICK i \in 1..b : m1[i] = h
        BY <2>2, <2>4, <2>5, <3>2 DEF Lists
      <4>2. a + i \in 1..Len(r) /\ r[a + i] = m1[i]
        BY <2>5
      <4> QED
        BY <4>1, <4>2
    <3> QED
      BY <3>1, <3>2
  <2>7. Lists(r, G \cup M)
    BY <2>6 DEF Lists
  <2> QED
    BY <2>1, <2>3, <2>4, <2>5, <2>7
<1> QED
  BY <1>1, <1>2, <1>3, <1>4 DEF AllUses

\* A buffer's size is a number of bytes.
LEMMA HolderByteTypes ==
  ASSUME NEW kind \in AllUses, NEW h \in Holders(kind)
  PROVE  HolderBytes(kind, h) \in Nat
<1>1. \A x \in Nat, y \in Nat : x * y \in Nat
  OBVIOUS
<1>2. CASE kind = "train"
  <2>1. PICK w, l, m : h = <<w, l, m>> /\ m \in DOMAIN GradientBytes
    BY <1>2 DEF Holders, Trained
  <2>2. DOMAIN GradientBytes = {"QA", "QB", "KA", "KB", "VA", "VB", "OA", "OB"}
    BY DEF GradientBytes
  <2>3. /\ Rank * Dims.hidden * 4 \in Nat /\ QDim * Rank * 4 \in Nat /\ KVDim * Rank * 4 \in Nat
        /\ Rank * QDim * 4 \in Nat /\ Dims.hidden * Rank * 4 \in Nat
    BY <1>1, DimTypes
  <2>4. GradientBytes[m] \in Nat
    BY <2>1, <2>2, <2>3 DEF GradientBytes
  <2>5. HolderBytes(kind, h) = GradientBytes[m]
    BY <1>2, <2>1 DEF HolderBytes
  <2> QED
    BY <2>4, <2>5
<1>3. CASE kind # "train"
  <2>1. MaxSeq * KVDim \in Nat /\ 2 * MaxSeq * KVDim \in Nat
    BY <1>1, DimTypes
  <2>2. MaxSeq * KVDim * 2 \in Nat /\ MaxSeq * KVDim * 4 \in Nat /\ 2 * MaxSeq * KVDim * 2 \in Nat
    BY <1>1, <2>1
  <2> QED
    BY <1>3, <2>2 DEF HolderBytes, KVBufferBytes
<1> QED
  BY <1>2, <1>3

-----------------------------------------------------------------------------
(* The inductive invariant.                                                *)

\* Each long-lived buffer is a buffer of its own, never the bump allocator's.
HeldOK ==
  /\ use.kind \in AllUses /\ DOMAIN held = Holders(use.kind)
  /\ \A h \in Holders(use.kind) : held[h] \in 1..Len(size) /\ held[h] # scratch.buf

\* A buffer the pool may own.
Poolable(b) ==
  /\ b \in 1..Len(size) /\ b \notin freed /\ b # scratch.buf
  /\ \A h \in Holders(use.kind) \ Pooled(use.kind) : held[h] # b

\* The pool owns every buffer once, and none that was released or is permanent.
PoolOK ==
  /\ size \in Seq(Nat) /\ freed \subseteq 1..Len(size)
  /\ avail \in Seq(Nat) /\ inUse \in Seq(Nat)
  /\ Once(avail) /\ Once(inUse) /\ Members(avail) \cap Members(inUse) = {}
  /\ \A b \in Members(avail) : Poolable(b)
  /\ \A b \in Members(inUse) : Poolable(b)

\* The bump allocator stays inside its buffer.
ScratchOK ==
  /\ scratch \in [buf : Nat, off : Nat] /\ scratch.buf <= Len(size)
  /\ use.scratch => /\ scratch.buf \in 1..Len(size) /\ scratch.buf \notin freed
                    /\ size[scratch.buf] = ScratchCapacity /\ scratch.off <= ScratchCapacity

\* A temporary is a whole buffer of the pool, a part of the bump allocator's below the pointer, or the
\* permanent buffer of copyTokenKV.
InPool(s) ==
  s # "tokenBuf" /\ slot[s].buf \in Members(inUse) /\ slot[s].off = 0 /\ slot[s].n = size[slot[s].buf]
InScratch(s) ==
  s \in Temps /\ use.scratch /\ slot[s].buf = scratch.buf /\ slot[s].off + slot[s].n <= scratch.off
Lone(s) ==
  /\ s = "tokenBuf" /\ slot[s].buf \in 1..Len(size) /\ slot[s].buf \notin freed
  /\ slot[s].buf \notin Members(avail) /\ slot[s].buf \notin Members(inUse) /\ slot[s].buf # scratch.buf
  /\ slot[s].off = 0 /\ slot[s].n = size[slot[s].buf]

Apart(a, b) == a.buf = b.buf => a.off + a.n <= b.off \/ b.off + b.n <= a.off

SlotsOK ==
  /\ DOMAIN slot \subseteq Names
  /\ \A s \in DOMAIN slot : slot[s] \in [buf : Nat, off : Nat, n : Nat]
  /\ \A s \in DOMAIN slot : InPool(s) \/ InScratch(s) \/ Lone(s)
  /\ \A s, t \in DOMAIN slot : s # t => Apart(slot[s], slot[t])

\* Every operation left finds its names.
PlanOK == plan \in Seq(Ops) /\ Leads(DOMAIN slot, plan, {})

MemInv == HeldOK /\ PoolOK /\ ScratchOK /\ SlotsOK /\ PlanOK

\* The caches that the N rows of the running pass are still to be added to.
Due(N) == {h \in Holders(use.kind) : use.kind # "train" /\ ~(seqLen .. seqLen + N - 1 \subseteq rows[h])}

\* No pass asked for the size of a pooled long-lived buffer: no temporary is one, and the rows are there.
Asks(o) == o.op \in {"alloc", "arena", "bump"}
CleanOK ==
  /\ \A i \in 1..Len(plan) : Asks(plan[i]) => \A h \in Pooled(use.kind) : size[held[h]] # plan[i].n
  /\ \A i \in 1..Len(plan) : plan[i].op = "append" => seqLen + plan[i].n <= MaxSeq
  /\ \A s \in DOMAIN slot \ {"tokenBuf"} : \A h \in Holders(use.kind) : slot[s].buf # held[h]
  /\ Intact
  /\ \E N \in Nat : Settles(use.kind, plan, N, Due(N))

RowsOK == DOMAIN rows = Holders(use.kind) /\ seqLen \in Nat

MemoryInv == MemInv /\ RowsOK /\ (clean => CleanOK)

LEMMA CapacityType == ScratchCapacity \in Nat
<1>1. ScratchBytes(1) \in Nat
  BY SizeTypes
<1> QED
  BY <1>1 DEF ScratchCapacity

\* What is asked of the process at start up.
LEMMA InitMem ==
  ASSUME Init
  PROVE  MemoryInv
<1>1. PICK kind \in Uses, s \in ScratchOn :
        /\ use = [kind |-> kind, scratch |-> s]
        /\ held = [h \in Holders(kind) |-> CHOOSE i \in DOMAIN HolderSeq(kind) : HolderSeq(kind)[i] = h]
        /\ size = [i \in DOMAIN HolderSeq(kind) |-> HolderBytes(kind, HolderSeq(kind)[i])]
                  \o (IF s THEN <<ScratchCapacity>> ELSE << >>)
        /\ inUse = IF Pooled(kind) = {} THEN << >> ELSE [i \in DOMAIN HolderSeq(kind) |-> i]
        /\ scratch = [buf |-> IF s THEN Len(HolderSeq(kind)) + 1 ELSE 0, off |-> 0]
        /\ rows = [h \in Holders(kind) |-> IF kind = "train" THEN {0} ELSE {}]
  BY Zenon DEF Init
<1>2. /\ avail = << >> /\ freed = {} /\ slot = NoSlots /\ plan = << >>
      /\ seqLen = 0
  BY DEF Init
<1>3. kind \in AllUses /\ s \in BOOLEAN
  BY UsesAssumption
<1>4. PICK hs \in Seq(Holders(kind)) : hs = HolderSeq(kind) /\ \A h \in Holders(kind) : \E i \in 1..Len(hs) : hs[i] = h
  BY <1>3, HoldersListed DEF Lists
<1>5. PICK m \in Nat : m = Len(hs) /\ DOMAIN hs = 1..m /\ \A i \in 1..m : hs[i] \in Holders(kind)
  BY <1>4
<1>6. use.kind = kind /\ (use.scratch <=> s)
  BY <1>1
<1>7. ASSUME NEW h \in Holders(kind) PROVE held[h] \in 1..m
  <2>1. held[h] = CHOOSE i \in 1..m : hs[i] = h
    BY <1>1, <1>4, <1>5
  <2>2. \E i \in 1..m : hs[i] = h
    BY <1>4, <1>5
  <2> QED
    BY <2>1, <2>2
<1>8. DOMAIN held = Holders(kind) /\ DOMAIN rows = Holders(kind)
  BY <1>1
<1>9. PICK z \in Seq(Nat) : z = [i \in 1..m |-> HolderBytes(kind, hs[i])] /\ Len(z) = m
  <2>1. \A i \in 1..m : HolderBytes(kind, hs[i]) \in Nat
    BY <1>3, <1>5, HolderByteTypes
  <2>2. [i \in 1..m |-> HolderBytes(kind, hs[i])] \in Seq(Nat) /\ Len([i \in 1..m |-> HolderBytes(kind, hs[i])]) = m
    BY <2>1
  <2> QED
    BY <2>2
<1>10. size = z \o (IF s THEN <<ScratchCapacity>> ELSE << >>)
  BY <1>1, <1>4, <1>5, <1>9
<1>11. PICK c \in Nat : c = ScratchCapacity
  BY CapacityType
<1>12. /\ size \in Seq(Nat)
       /\ s => Len(size) = m + 1 /\ size[m + 1] = c
       /\ ~s => Len(size) = m
  <2>1. CASE s
    <3>1. PICK w \in Seq(Nat) : w = <<c>> /\ Len(w) = 1 /\ w[1] = c
      <4>1. <<c>> \in Seq(Nat) /\ Len(<<c>>) = 1 /\ <<c>>[1] = c
        OBVIOUS
      <4> QED
        BY <4>1
    <3>2. size = z \o w
      BY <1>10, <1>11, <2>1, <3>1
    <3>3. size \in Seq(Nat) /\ Len(size) = m + 1 /\ size[m + 1] = w[1]
      BY <1>9, <3>1, <3>2, Joined
    <3> QED
      BY <2>1, <3>1, <3>3
  <2>2. CASE ~s
    <3>1. size = z
      BY <1>10, <2>2
    <3> QED
      BY <1>9, <2>2, <3>1
  <2> QED
    BY <2>1, <2>2
<1>13. PICK L \in Nat : L = Len(size) /\ m <= L
  BY <1>3, <1>12
<1>14. scratch \in [buf : Nat, off : Nat] /\ scratch.off = 0
  <2>1. Len(HolderSeq(kind)) + 1 \in Nat
    BY <1>4
  <2> QED
    BY <1>1, <1>3, <2>1
<1>15. (s => scratch.buf = m + 1) /\ (~s => scratch.buf = 0)
  BY <1>1, <1>4, <1>5
<1>16. scratch.buf \notin 1..m /\ scratch.buf <= L
  BY <1>3, <1>12, <1>13, <1>15
<1>17. HeldOK
  <2>1. \A h \in Holders(kind) : held[h] \in 1..L /\ held[h] # scratch.buf
    BY <1>7, <1>13, <1>16
  <2> QED
    BY <1>3, <1>6, <1>8, <1>13, <2>1 DEF HeldOK
<1>18. ScratchOK
  <2>1. s => scratch.buf \in 1..L /\ size[scratch.buf] = c
    BY <1>12, <1>13, <1>15
  <2> QED
    BY <1>2, <1>6, <1>11, <1>13, <1>14, <1>16, <2>1 DEF ScratchOK
<1>19. PoolOK
  <2>1. Members(avail) = {} /\ Once(avail) /\ avail \in Seq(Nat)
    BY <1>2 DEF Members, Once
  <2>2. CASE Pooled(kind) = {}
    <3>1. inUse = << >>
      BY <1>1, <2>2
    <3>2. Members(inUse) = {} /\ Once(inUse) /\ inUse \in Seq(Nat)
      BY <3>1 DEF Members, Once
    <3> QED
      BY <1>2, <1>12, <2>1, <3>2 DEF PoolOK
  <2>3. CASE Pooled(kind) # {}
    <3>1. inUse = [i \in 1..m |-> i]
      BY <1>1, <1>4, <1>5, <2>3
    <3>2. inUse \in Seq(Nat) /\ Len(inUse) = m /\ \A i \in 1..m : inUse[i] = i
      BY <3>1
    <3>3. Once(inUse) /\ Members(inUse) \subseteq 1..m
      BY <3>2 DEF Once, Members
    <3>4. Holders(kind) \ Pooled(kind) = {}
      BY <2>3 DEF Pooled
    <3>5. \A b \in Members(inUse) : Poolable(b)
      BY <1>2, <1>6, <1>13, <1>16, <3>3, <3>4 DEF Poolable
    <3> QED
      BY <1>2, <1>12, <2>1, <3>2, <3>3, <3>5 DEF PoolOK
  <2> QED
    BY <2>2, <2>3
<1>20. DOMAIN slot = {}
  BY <1>2 DEF NoSlots
<1>21. SlotsOK
  BY <1>20 DEF SlotsOK
<1>22. PlanOK
  <2>1. Leads({}, << >>, {}) /\ << >> \in Seq(Ops)
    BY LeadsNone
  <2> QED
    BY <1>2, <1>20, <2>1 DEF PlanOK
<1>23. CleanOK
  <2>1. Len(plan) = 0
    BY <1>2
  <2>2. Quiet(plan)
    BY <2>1 DEF Quiet
  <2>3. \E N \in Nat : Settles(use.kind, plan, N, Due(N))
    <3>1. Settles(use.kind, plan, 0, Due(0))
      BY <2>2, QuietSettles
    <3> QED
      BY <3>1
  <2>4. Intact
    <3>1. 0 .. seqLen - 1 = {}
      BY <1>2
    <3>2. kind = "train" => \A h \in DOMAIN rows : rows[h] = {0}
      BY <1>1
    <3> QED
      BY <1>6, <3>1, <3>2 DEF Intact
  <2> QED
    BY <1>20, <2>1, <2>3, <2>4 DEF CleanOK
<1> QED
  BY <1>2, <1>6, <1>8, <1>17, <1>18, <1>19, <1>21, <1>22, <1>23 DEF MemoryInv, MemInv, RowsOK

-----------------------------------------------------------------------------
(* Taking a buffer from the pool.                                          *)

\* RemoveAt drops one element of a sequence without repetitions.
LEMMA Dropped ==
  ASSUME NEW S, NEW s \in Seq(S), NEW i \in 1..Len(s), Once(s)
  PROVE  /\ RemoveAt(s, i) \in Seq(S) /\ Once(RemoveAt(s, i))
         /\ Members(RemoveAt(s, i)) \subseteq Members(s) /\ s[i] \notin Members(RemoveAt(s, i))
<1>1. PICK m \in Nat : m = Len(s) /\ \A k \in 1..m : s[k] \in S
  OBVIOUS
<1>2. PICK p, q : p = SubSeq(s, 1, i - 1) /\ q = SubSeq(s, i + 1, m)
  OBVIOUS
<1>3. p \in Seq(S) /\ Len(p) = i - 1 /\ \A k \in 1..(i - 1) : p[k] = s[k]
  <2>1. 1 \in Int /\ i - 1 \in Int /\ \A k \in 1..(i - 1) : s[k] \in S
    BY <1>1
  <2>2. /\ p \in Seq(S) /\ Len(p) = IF 1 <= i - 1 THEN (i - 1) - 1 + 1 ELSE 0
        /\ \A k \in 1..((i - 1) - 1 + 1) : p[k] = s[1 + k - 1]
    BY <1>2, <2>1, SubSeqProperties
  <2> QED
    BY <2>2
<1>4. q \in Seq(S) /\ Len(q) = m - i /\ \A k \in 1..(m - i) : q[k] = s[i + k]
  <2>1. i + 1 \in Int /\ m \in Int /\ \A k \in (i + 1)..m : s[k] \in S
    BY <1>1
  <2>2. /\ q \in Seq(S) /\ Len(q) = IF i + 1 <= m THEN m - (i + 1) + 1 ELSE 0
        /\ \A k \in 1..(m - (i + 1) + 1) : q[k] = s[(i + 1) + k - 1]
    BY <1>2, <2>1, SubSeqProperties
  <2>3. m - (i + 1) + 1 = m - i /\ \A k \in 1..(m - i) : (i + 1) + k - 1 = i + k
    BY <1>1
  <2> QED
    BY <1>1, <2>2, <2>3
<1>5. PICK r \in Seq(S) : r = p \o q
  BY <1>3, <1>4, Joined
<1>6. RemoveAt(s, i) = r
  BY <1>1, <1>2, <1>5 DEF RemoveAt
<1>7. PICK a \in Nat, b \in Nat : a = i - 1 /\ b = m - i /\ a = Len(p) /\ b = Len(q)
  <2>1. i - 1 \in Nat /\ m - i \in Nat
    BY <1>1
  <2> QED
    BY <1>3, <1>4, <2>1
<1>8. /\ Len(r) = a + b
      /\ \A k \in 1..a : r[k] = p[k]
      /\ \A k \in 1..b : r[a + k] = q[k]
  <2>1. p \in Seq(S) /\ q \in Seq(S)
    BY <1>3, <1>4
  <2>2. /\ Len(p \o q) = Len(p) + Len(q)
        /\ \A k \in 1..Len(p) : (p \o q)[k] = p[k]
        /\ \A k \in 1..Len(q) : (p \o q)[Len(p) + k] = q[k]
    BY <2>1, Joined
  <2> QED
    BY <1>5, <1>7, <2>2
<1>9. ASSUME NEW k \in 1..(a + b)
      PROVE  \E j \in 1..m : j # i /\ r[k] = s[j] /\ j = IF k <= a THEN k ELSE k + 1
  <2>1. CASE k \in 1..a
    <3>1. r[k] = s[k] /\ k \in 1..m /\ k # i
      BY <1>1, <1>3, <1>7, <1>8, <2>1
    <3> QED
      BY <2>1, <3>1
  <2>2. CASE ~(k \in 1..a)
    <3>1. PICK j \in 1..b : k = a + j
      <4>1. k - a \in 1..b /\ k = a + (k - a)
        BY <2>2, JoinedIndex
      <4> QED
        BY <4>1
    <3>2. r[k] = s[i + j]
      <4>1. r[k] = q[j]
        BY <1>8, <3>1
      <4>2. q[j] = s[i + j]
        BY <1>4, <1>7
      <4> QED
        BY <4>1, <4>2
    <3>3. i + j \in 1..m /\ i + j # i /\ i + j = k + 1 /\ ~(k <= a)
      <4>1. i \in Nat /\ m \in Nat /\ i + b = m /\ i = a + 1 /\ 1 <= i
        BY <1>1, <1>7
      <4>2. j \in Nat /\ 1 <= j /\ j <= b
        OBVIOUS
      <4> QED
        BY <3>1, <4>1, <4>2
    <3> QED
      BY <3>2, <3>3
  <2> QED
    BY <2>1, <2>2
<1>10. ASSUME NEW k \in 1..(a + b), NEW l \in 1..(a + b), r[k] = r[l] PROVE k = l
  <2>1. PICK x \in 1..m : x # i /\ r[k] = s[x] /\ x = IF k <= a THEN k ELSE k + 1
    BY <1>9
  <2>2. PICK y \in 1..m : y # i /\ r[l] = s[y] /\ y = IF l <= a THEN l ELSE l + 1
    BY <1>9
  <2>3. x = y
    BY <1>1, <1>10, <2>1, <2>2 DEF Once
  <2> QED
    BY <1>7, <2>1, <2>2, <2>3
<1>11. Once(r)
  BY <1>8, <1>10 DEF Once
<1>12. Members(r) \subseteq Members(s) /\ s[i] \notin Members(r)
  <2>1. ASSUME NEW k \in 1..(a + b) PROVE r[k] \in Members(s) /\ r[k] # s[i]
    <3>1. PICK x \in 1..m : x # i /\ r[k] = s[x]
      BY <1>9
    <3> QED
      BY <1>1, <3>1 DEF Members, Once
  <2> QED
    BY <1>8, <2>1 DEF Members
<1> QED
  BY <1>6, <1>11, <1>12

\* Append adds one element.
LEMMA Added ==
  ASSUME NEW S, NEW s \in Seq(S), NEW e \in S
  PROVE  /\ Append(s, e) \in Seq(S) /\ Members(Append(s, e)) = Members(s) \cup {e}
         /\ Once(s) /\ e \notin Members(s) => Once(Append(s, e))
<1>1. PICK m \in Nat, r \in Seq(S) : m = Len(s) /\ r = Append(s, e) /\ Len(r) = m + 1
  <2>1. Append(s, e) \in Seq(S) /\ Len(Append(s, e)) = Len(s) + 1 /\ Len(s) \in Nat
    OBVIOUS
  <2> QED
    BY <2>1
<1>2. (\A i \in 1..m : r[i] = s[i]) /\ r[m + 1] = e
  BY <1>1
<1>3. \A i \in 1..(m + 1) : i \in 1..m \/ i = m + 1
  OBVIOUS
<1>4. Members(r) = Members(s) \cup {e}
  <2>1. \A i \in 1..(m + 1) : r[i] \in Members(s) \cup {e}
    BY <1>1, <1>2, <1>3 DEF Members
  <2>2. \A i \in 1..m : s[i] \in Members(r)
    <3>1. \A i \in 1..m : i \in 1..(m + 1)
      OBVIOUS
    <3> QED
      BY <1>1, <1>2, <3>1 DEF Members
  <2>3. e \in Members(r)
    <3>1. m + 1 \in 1..(m + 1)
      OBVIOUS
    <3> QED
      BY <1>1, <1>2, <3>1 DEF Members
  <2>4. Members(r) = {r[i] : i \in 1..(m + 1)} /\ Members(s) = {s[i] : i \in 1..m}
    BY <1>1 DEF Members
  <2> QED
    BY <2>1, <2>2, <2>3, <2>4
<1>5. ASSUME Once(s), e \notin Members(s) PROVE Once(r)
  <2>1. \A i \in 1..m : s[i] # e
    BY <1>1, <1>5 DEF Members
  <2>2. \A i, j \in 1..(m + 1) : r[i] = r[j] => i = j
    BY <1>1, <1>2, <1>3, <1>5, <2>1 DEF Once
  <2> QED
    BY <1>1, <2>2 DEF Once
<1> QED
  BY <1>1, <1>4, <1>5

\* Alloc took buffer b, of n bytes: one that was available, or a new one.
Took(b, n) ==
  /\ size' \in Seq(Nat) /\ Len(size) <= Len(size') /\ \A x \in 1..Len(size) : size'[x] = size[x]
  /\ b \in 1..Len(size') /\ size'[b] = n /\ (b \in Members(avail) \/ b = Len(size) + 1)
  /\ avail' \in Seq(Nat) /\ Once(avail') /\ Members(avail') \subseteq Members(avail) /\ b \notin Members(avail')
  /\ inUse' \in Seq(Nat) /\ Once(inUse') /\ Members(inUse') = Members(inUse) \cup {b} /\ b \notin Members(inUse)

LEMMA Takes ==
  ASSUME PoolOK, NEW s, NEW n \in Nat, TakeBuffer(s, n)
  PROVE  \E b \in Nat : Took(b, n) /\ Bind(s, b, 0, n)
<1>1. PICK L \in Nat, A \in Nat : L = Len(size) /\ A = Len(avail)
  BY DEF PoolOK
<1>2. /\ size \in Seq(Nat) /\ avail \in Seq(Nat) /\ inUse \in Seq(Nat) /\ Once(avail) /\ Once(inUse)
      /\ Members(avail) \cap Members(inUse) = {}
      /\ \A b \in Members(avail) : b \in 1..L
      /\ \A b \in Members(inUse) : b \in 1..L
  BY <1>1 DEF PoolOK, Poolable
<1>3. CASE Reusable(n) # {}
  <2>1. Reusable(n) \subseteq 1..A
    BY <1>1, <1>2 DEF Reusable
  <2>2. \E x \in Reusable(n) : \A y \in Reusable(n) : y <= x
    BY <1>3, <2>1, NatMax
  <2>3. PICK i \in Reusable(n) :
          /\ avail' = RemoveAt(avail, i) /\ inUse' = Append(inUse, avail[i])
          /\ Bind(s, avail[i], 0, n) /\ size' = size
    <3>1. PICK i : i = CHOOSE x \in Reusable(n) : \A y \in Reusable(n) : y <= x
      OBVIOUS
    <3>2. i \in Reusable(n)
      BY <2>2, <3>1
    <3> QED
      BY <1>3, <3>1, <3>2 DEF TakeBuffer
  <2>4. i \in 1..A /\ size[avail[i]] = n
    BY <2>1 DEF Reusable
  <2>5. PICK b \in Nat : b = avail[i] /\ b \in Members(avail) /\ b \in 1..L
    BY <1>1, <1>2, <2>4 DEF Members
  <2>6. b \notin Members(inUse)
    BY <1>2, <2>5
  <2>7. /\ avail' \in Seq(Nat) /\ Once(avail') /\ Members(avail') \subseteq Members(avail)
        /\ b \notin Members(avail')
    BY <1>1, <1>2, <2>3, <2>4, <2>5, Dropped
  <2>8. inUse' \in Seq(Nat) /\ Once(inUse') /\ Members(inUse') = Members(inUse) \cup {b}
    <3>1. inUse' = Append(inUse, b)
      BY <2>3, <2>5
    <3> QED
      BY <1>2, <2>6, <3>1, Added
  <2>9. Took(b, n)
    BY <1>1, <1>2, <2>3, <2>4, <2>5, <2>6, <2>7, <2>8 DEF Took
  <2> QED
    BY <2>3, <2>5, <2>9
<1>4. CASE Reusable(n) = {}
  <2>1. /\ size' = Append(size, n) /\ inUse' = Append(inUse, Len(size) + 1)
        /\ Bind(s, Len(size) + 1, 0, n) /\ avail' = avail
    BY <1>4 DEF TakeBuffer
  <2>2. PICK b \in Nat : b = L + 1 /\ b = Len(size) + 1
    BY <1>1
  <2>3. b \notin Members(inUse) /\ b \notin Members(avail)
    BY <1>2, <2>2
  <2>4. inUse' \in Seq(Nat) /\ Once(inUse') /\ Members(inUse') = Members(inUse) \cup {b}
    <3>1. inUse' = Append(inUse, b)
      BY <2>1, <2>2
    <3> QED
      BY <1>2, <2>3, <3>1, Added
  <2>5. size' \in Seq(Nat) /\ Len(size') = L + 1 /\ (\A x \in 1..L : size'[x] = size[x]) /\ size'[L + 1] = n
    BY <1>1, <1>2, <2>1
  <2>6. b \in 1..Len(size') /\ size'[b] = n /\ Len(size) <= Len(size')
    BY <1>1, <2>2, <2>5
  <2>7. Took(b, n)
    BY <1>1, <1>2, <2>1, <2>2, <2>3, <2>4, <2>5, <2>6 DEF Took
  <2> QED
    BY <2>1, <2>2, <2>7
<1> QED
  BY <1>3, <1>4

-----------------------------------------------------------------------------
(* The steps: memory.                                                      *)

\* What name the next operation has.
LEMMA NextOp ==
  ASSUME PlanOK, plan # << >>
  PROVE  /\ plan[1] \in Ops /\ plan[1].n \in Nat /\ Tail(plan) \in Seq(Ops)
         /\ Asks(plan[1]) => plan[1].s \in Kept \cup Temps /\ plan[1].s \in Names /\ plan[1].s # "tokenBuf"
         /\ plan[1].op = "bump" => plan[1].s \in Temps
         /\ plan[1].op \in {"permanent", "free"} => plan[1].s = "tokenBuf"
         /\ plan[1].op = "write" => plan[1].s # "tokenBuf"
         /\ Ready(DOMAIN slot, plan[1]) /\ Leads(After(DOMAIN slot, plan[1]), Tail(plan), {})
<1>1. plan \in Seq(Ops) /\ Leads(DOMAIN slot, plan, {})
  BY DEF PlanOK
<1>2. PICK p \in Seq(Ops) : p = plan /\ p # << >>
  BY <1>1
<1>3. p[1] \in Ops /\ Tail(p) \in Seq(Ops)
  BY <1>2
<1>4. PICK o \in Ops : o = plan[1]
  BY <1>2, <1>3
<1>5. o.n \in Nat
  BY DEF Ops
<1>6. Kept \cup Temps \subseteq Names /\ "tokenBuf" \notin Kept \cup Temps
  BY DEF Names, Kept, Temps
<1>7. /\ Asks(o) => o.s \in Kept \cup Temps
      /\ o.op = "bump" => o.s \in Temps
      /\ o.op \in {"permanent", "free"} => o.s = "tokenBuf"
      /\ o.op = "write" => o.s \in Kept \cup Temps
  BY DEF Ops, Asks
<1>8. Ready(DOMAIN slot, p[1]) /\ Leads(After(DOMAIN slot, p[1]), Tail(p), {})
  BY <1>1, <1>2, LeadsOn
<1> QED
  BY <1>2, <1>3, <1>4, <1>5, <1>6, <1>7, <1>8

\* What Bind makes of the names.
LEMMA Bound ==
  ASSUME NEW s, NEW b, NEW off, NEW n, Bind(s, b, off, n)
  PROVE  /\ DOMAIN slot' = DOMAIN slot \cup {s}
         /\ slot'[s] = [buf |-> b, off |-> off, n |-> n]
         /\ slot'[s].buf = b /\ slot'[s].off = off /\ slot'[s].n = n
         /\ \A t \in DOMAIN slot : t # s => slot'[t] = slot[t]
BY DEF Bind

\* Alloc, Arena.Alloc, or ScratchAlloc that falls back to the pool.
LEMMA TakeMem ==
  ASSUME MemInv, plan # << >>, Asks(plan[1]), NEW b \in Nat, Took(b, plan[1].n),
         Bind(plan[1].s, b, 0, plan[1].n), Advance, UNCHANGED <<use, freed, held, scratch>>
  PROVE  MemInv'
<1>0. HeldOK /\ PoolOK /\ ScratchOK /\ SlotsOK /\ PlanOK
  BY DEF MemInv
<1>1. PICK s \in Names, n \in Nat : /\ s = plan[1].s /\ n = plan[1].n /\ s \in Kept \cup Temps /\ s # "tokenBuf"
  BY <1>0, NextOp
<1>2. Took(b, n) /\ Bind(s, b, 0, n)
  BY <1>1
<1>3. /\ DOMAIN slot' = DOMAIN slot \cup {s}
      /\ slot'[s] = [buf |-> b, off |-> 0, n |-> n]
      /\ slot'[s].buf = b /\ slot'[s].off = 0 /\ slot'[s].n = n
      /\ \A t \in DOMAIN slot : t # s => slot'[t] = slot[t]
  BY <1>2, Bound
<1>4. PICK L \in Nat, M \in Nat : /\ L = Len(size) /\ M = Len(size') /\ L <= M /\ size' \in Seq(Nat)
                                  /\ \A x \in 1..L : size'[x] = size[x]
  BY <1>0, <1>2 DEF PoolOK, Took
<1>5. /\ b \in 1..M /\ size'[b] = n /\ (b \in Members(avail) \/ b = L + 1)
      /\ avail' \in Seq(Nat) /\ Once(avail') /\ Members(avail') \subseteq Members(avail) /\ b \notin Members(avail')
      /\ inUse' \in Seq(Nat) /\ Once(inUse') /\ Members(inUse') = Members(inUse) \cup {b} /\ b \notin Members(inUse)
  BY <1>2, <1>4 DEF Took
<1>6. /\ use' = use /\ freed' = freed /\ held' = held /\ scratch' = scratch
  OBVIOUS
<1>7. \A x \in 1..L : x \in 1..M
  BY <1>4
<1>8. HeldOK'
  <2>1. \A h \in Holders(use.kind) : held[h] \in 1..M /\ held[h] # scratch.buf
    BY <1>0, <1>4, <1>7 DEF HeldOK
  <2> QED
    BY <1>0, <1>4, <1>6, <2>1 DEF HeldOK
<1>9. ScratchOK'
  <2>1. scratch.buf \in Nat
    BY <1>0 DEF ScratchOK
  <2>2. scratch.buf <= M
    BY <1>0, <1>4, <2>1 DEF ScratchOK
  <2>3. use.scratch => scratch.buf \in 1..L /\ size'[scratch.buf] = size[scratch.buf]
    BY <1>0, <1>4 DEF ScratchOK
  <2> QED
    BY <1>0, <1>4, <1>6, <1>7, <2>2, <2>3 DEF ScratchOK
<1>10. \A x : Poolable(x) => Poolable(x)'
  BY <1>4, <1>6, <1>7 DEF Poolable
<1>11. Poolable(b)'
  <2>1. CASE b \in Members(avail)
    BY <1>0, <1>10, <2>1 DEF PoolOK
  <2>2. CASE b = L + 1
    <3>1. b \notin freed
      BY <1>0, <1>4, <2>2 DEF PoolOK
    <3>2. b # scratch.buf
      BY <1>0, <1>4, <2>2 DEF ScratchOK
    <3>3. \A h \in Holders(use.kind) : held[h] # b
      BY <1>0, <1>4, <2>2 DEF HeldOK
    <3> QED
      BY <1>4, <1>5, <1>6, <3>1, <3>2, <3>3 DEF Poolable
  <2> QED
    BY <1>5, <2>1, <2>2
<1>12. PoolOK'
  <2>1. freed \subseteq 1..M
    BY <1>0, <1>4, <1>7 DEF PoolOK
  <2>2. Members(avail') \cap Members(inUse') = {}
    BY <1>0, <1>5 DEF PoolOK
  <2>3. \A x \in Members(avail') : Poolable(x)'
    BY <1>0, <1>5, <1>10 DEF PoolOK
  <2>4. \A x \in Members(inUse') : Poolable(x)'
    BY <1>0, <1>5, <1>10, <1>11 DEF PoolOK
  <2> QED
    BY <1>4, <1>5, <1>6, <2>1, <2>2, <2>3, <2>4 DEF PoolOK, Once, Members
<1>13. ASSUME NEW t \in DOMAIN slot, t # s PROVE slot[t].buf # b /\ (InPool(t)' \/ InScratch(t)' \/ Lone(t)')
  <2>1. slot'[t] = slot[t]
    BY <1>3, <1>13
  <2>2. CASE InPool(t)
    <3>1. slot[t].buf \in Members(inUse) /\ slot[t].buf \in 1..L
      BY <1>0, <1>4, <2>2 DEF InPool, PoolOK, Poolable
    <3> QED
      BY <1>4, <1>5, <2>1, <2>2, <3>1 DEF InPool
  <2>3. CASE InScratch(t)
    <3>1. b # scratch.buf
      BY <1>6, <1>11 DEF Poolable
    <3> QED
      BY <1>6, <2>1, <2>3, <3>1 DEF InScratch
  <2>4. CASE Lone(t)
    <3>1. slot[t].buf \in 1..L /\ slot[t].buf \notin Members(avail)
      BY <1>4, <2>4 DEF Lone
    <3>2. slot[t].buf # b
      BY <1>5, <3>1
    <3>3. slot[t].buf \in 1..M /\ size'[slot[t].buf] = size[slot[t].buf]
      BY <1>4, <1>7, <3>1
    <3>4. slot[t].buf \notin Members(avail') /\ slot[t].buf \notin Members(inUse')
      BY <1>5, <2>4, <3>2 DEF Lone
    <3> QED
      BY <1>4, <1>6, <2>1, <2>4, <3>2, <3>3, <3>4 DEF Lone
  <2> QED
    BY <1>0, <2>2, <2>3, <2>4 DEF SlotsOK
<1>14. InPool(s)'
  BY <1>1, <1>3, <1>5 DEF InPool
<1>15. SlotsOK'
  <2>1. DOMAIN slot' \subseteq Names
    BY <1>0, <1>1, <1>3 DEF SlotsOK
  <2>2. \A t \in DOMAIN slot' : slot'[t] \in [buf : Nat, off : Nat, n : Nat]
    BY <1>0, <1>3 DEF SlotsOK
  <2>3. \A t \in DOMAIN slot' : InPool(t)' \/ InScratch(t)' \/ Lone(t)'
    BY <1>3, <1>13, <1>14
  <2>4. ASSUME NEW t \in DOMAIN slot', NEW u \in DOMAIN slot', t # u PROVE Apart(slot'[t], slot'[u])
    <3>1. CASE t = s
      <4>1. slot'[u] = slot[u] /\ slot[u].buf # b
        BY <1>3, <1>13, <2>4, <3>1
      <4> QED
        BY <1>3, <3>1, <4>1 DEF Apart
    <3>2. CASE u = s
      <4>1. slot'[t] = slot[t] /\ slot[t].buf # b
        BY <1>3, <1>13, <2>4, <3>2
      <4> QED
        BY <1>3, <3>2, <4>1 DEF Apart
    <3>3. CASE t # s /\ u # s
      <4>1. slot'[t] = slot[t] /\ slot'[u] = slot[u] /\ t \in DOMAIN slot /\ u \in DOMAIN slot
        BY <1>3, <3>3
      <4> QED
        BY <1>0, <2>4, <4>1 DEF SlotsOK
    <3> QED
      BY <3>1, <3>2, <3>3
  <2> QED
    BY <2>1, <2>2, <2>3, <2>4 DEF SlotsOK
<1>16. PlanOK'
  <2>1. After(DOMAIN slot, plan[1]) = DOMAIN slot'
    BY <1>1, <1>3 DEF After, Binds, Asks
  <2>2. plan' = Tail(plan)
    BY DEF Advance
  <2> QED
    BY <1>0, <2>1, <2>2, NextOp DEF PlanOK
<1> QED
  BY <1>8, <1>9, <1>12, <1>15, <1>16 DEF MemInv

\* The bump pointer is rounded up.
LEMMA AlignedUp ==
  ASSUME NEW off \in Nat
  PROVE  Aligned(off) \in Nat /\ off <= Aligned(off)
<1>1. (off + 255) \div 256 \in Nat /\ off <= ((off + 255) \div 256) * 256
  OBVIOUS
<1> QED
  BY <1>1 DEF Aligned

\* A step that leaves the pool alone.
LEMMA SamePool ==
  ASSUME HeldOK, PoolOK, size' = size, avail' = avail, inUse' = inUse, freed' = freed,
         use' = use, held' = held, scratch'.buf = scratch.buf
  PROVE  HeldOK' /\ PoolOK'
<1>1. HeldOK'
  BY DEF HeldOK
<1>2. \A b : Poolable(b) => Poolable(b)'
  BY DEF Poolable
<1>3. Members(avail)' = Members(avail) /\ Members(inUse)' = Members(inUse)
  BY DEF Members
<1>4. Once(avail)' /\ Once(inUse)'
  BY DEF PoolOK, Once
<1>5. (\A b \in Members(avail) : Poolable(b)') /\ (\A b \in Members(inUse) : Poolable(b)')
  BY <1>2 DEF PoolOK
<1> QED
  BY <1>1, <1>3, <1>4, <1>5 DEF PoolOK

\* ScratchAlloc from the bump allocator.
LEMMA BumpMem ==
  ASSUME MemInv, DoBump
  PROVE  MemInv'
<1>0. HeldOK /\ PoolOK /\ ScratchOK /\ SlotsOK /\ PlanOK
  BY DEF MemInv
<1>1. /\ plan # << >> /\ plan[1].op = "bump" /\ Fits(plan[1].n)
      /\ Bind(plan[1].s, scratch.buf, Aligned(scratch.off), plan[1].n)
      /\ scratch' = [scratch EXCEPT !.off = Bumped(scratch.off, plan[1].n)]
      /\ plan' = Tail(plan)
      /\ size' = size /\ avail' = avail /\ inUse' = inUse /\ freed' = freed
      /\ use' = use /\ held' = held
  BY DEF DoBump, Running, Next1, Advance, pool
<1>2. PICK s \in Temps, n \in Nat : s = plan[1].s /\ n = plan[1].n /\ s \in Names
  BY <1>0, <1>1, NextOp DEF Asks
<1>3. PICK B \in Nat, o \in Nat, a \in Nat, e \in Nat :
        B = scratch.buf /\ o = scratch.off /\ a = Aligned(o) /\ o <= a /\ e = a + n
  <2>1. scratch.buf \in Nat /\ scratch.off \in Nat
    BY <1>0 DEF ScratchOK
  <2>2. PICK B \in Nat, o \in Nat : B = scratch.buf /\ o = scratch.off
    BY <2>1
  <2>3. PICK a \in Nat : a = Aligned(o) /\ o <= a
    BY AlignedUp
  <2>4. a + n \in Nat
    OBVIOUS
  <2> QED
    BY <2>2, <2>3, <2>4
<1>4. Bind(s, B, a, n)
  BY <1>1, <1>2, <1>3
<1>5. /\ DOMAIN slot' = DOMAIN slot \cup {s}
      /\ slot'[s] = [buf |-> B, off |-> a, n |-> n]
      /\ slot'[s].buf = B /\ slot'[s].off = a /\ slot'[s].n = n
      /\ \A t \in DOMAIN slot : t # s => slot'[t] = slot[t]
  BY <1>4, Bound
<1>6. scratch' = [buf |-> B, off |-> e]
  <2>1. Bumped(scratch.off, plan[1].n) = e
    BY <1>2, <1>3 DEF Bumped
  <2>2. scratch \in [buf : Nat, off : Nat]
    BY <1>0 DEF ScratchOK
  <2> QED
    BY <1>1, <1>3, <2>1, <2>2
<1>7. scratch'.buf = B /\ scratch'.off = e /\ scratch' \in [buf : Nat, off : Nat]
  BY <1>6
<1>8. use.scratch /\ e <= ScratchCapacity
  BY <1>1, <1>2, <1>3 DEF Fits
<1>9. HeldOK' /\ PoolOK'
  BY <1>0, <1>1, <1>3, <1>7, SamePool
<1>10. ScratchOK'
  BY <1>0, <1>1, <1>3, <1>7, <1>8 DEF ScratchOK
<1>11. ASSUME NEW t \in DOMAIN slot, t # s
       PROVE  /\ InPool(t)' \/ InScratch(t)' \/ Lone(t)'
              /\ slot[t].buf = B => slot[t].off + slot[t].n <= a
  <2>1. slot'[t] = slot[t]
    BY <1>5, <1>11
  <2>2. PICK x \in Nat, y \in Nat : x = slot[t].off /\ y = slot[t].n
    BY <1>0 DEF SlotsOK
  <2>3. CASE InPool(t)
    <3>1. slot[t].buf # B
      BY <1>0, <1>3, <2>3 DEF InPool, PoolOK, Poolable
    <3> QED
      BY <1>1, <2>1, <2>3, <3>1 DEF InPool
  <2>4. CASE InScratch(t)
    <3>1. x + y <= o
      BY <1>3, <2>2, <2>4 DEF InScratch
    <3>2. x + y <= a /\ x + y <= e
      BY <1>3, <3>1
    <3>3. InScratch(t)'
      BY <1>1, <1>3, <1>7, <2>1, <2>2, <2>4, <3>2 DEF InScratch
    <3> QED
      BY <2>2, <3>2, <3>3
  <2>5. CASE Lone(t)
    BY <1>1, <1>3, <1>7, <2>1, <2>5 DEF Lone
  <2> QED
    BY <1>0, <2>3, <2>4, <2>5 DEF SlotsOK
<1>12. InScratch(s)'
  BY <1>1, <1>3, <1>5, <1>7, <1>8 DEF InScratch
<1>13. SlotsOK'
  <2>1. DOMAIN slot' \subseteq Names
    BY <1>0, <1>2, <1>5 DEF SlotsOK
  <2>2. \A t \in DOMAIN slot' : slot'[t] \in [buf : Nat, off : Nat, n : Nat]
    BY <1>0, <1>5 DEF SlotsOK
  <2>3. \A t \in DOMAIN slot' : InPool(t)' \/ InScratch(t)' \/ Lone(t)'
    BY <1>5, <1>11, <1>12
  <2>4. ASSUME NEW t \in DOMAIN slot', NEW u \in DOMAIN slot', t # u PROVE Apart(slot'[t], slot'[u])
    <3>1. CASE t = s
      <4>1. slot'[u] = slot[u] /\ (slot[u].buf = B => slot[u].off + slot[u].n <= a)
        BY <1>5, <1>11, <2>4, <3>1
      <4> QED
        BY <1>5, <3>1, <4>1 DEF Apart
    <3>2. CASE u = s
      <4>1. slot'[t] = slot[t] /\ (slot[t].buf = B => slot[t].off + slot[t].n <= a)
        BY <1>5, <1>11, <2>4, <3>2
      <4> QED
        BY <1>5, <3>2, <4>1 DEF Apart
    <3>3. CASE t # s /\ u # s
      <4>1. slot'[t] = slot[t] /\ slot'[u] = slot[u] /\ t \in DOMAIN slot /\ u \in DOMAIN slot
        BY <1>5, <3>3
      <4> QED
        BY <1>0, <2>4, <4>1 DEF SlotsOK
    <3> QED
      BY <3>1, <3>2, <3>3
  <2> QED
    BY <2>1, <2>2, <2>3, <2>4 DEF SlotsOK
<1>14. PlanOK'
  <2>1. After(DOMAIN slot, plan[1]) = DOMAIN slot'
    BY <1>1, <1>2, <1>5 DEF After, Binds
  <2> QED
    BY <1>0, <1>1, <2>1, NextOp DEF PlanOK
<1> QED
  BY <1>9, <1>10, <1>13, <1>14 DEF MemInv

\* A subset of the temporaries, and nothing else changed but the bump pointer when none is left above it.
LEMMA FewerSlots ==
  ASSUME SlotsOK, NEW D, D \subseteq DOMAIN slot, slot' = [s \in D |-> slot[s]],
         \A t \in D : InPool(t)' \/ InScratch(t)' \/ Lone(t)'
  PROVE  SlotsOK'
BY DEF SlotsOK

\* ScratchReset.
LEMMA RewindMem ==
  ASSUME MemInv, Rewind
  PROVE  MemInv'
<1>0. HeldOK /\ PoolOK /\ ScratchOK /\ SlotsOK /\ PlanOK
  BY DEF MemInv
<1>1. /\ plan # << >> /\ plan[1].op = "rewind" /\ plan' = Tail(plan)
      /\ scratch' = [scratch EXCEPT !.off = 0]
      /\ slot' = [s \in DOMAIN slot \cap Kept |-> slot[s]]
      /\ size' = size /\ avail' = avail /\ inUse' = inUse /\ freed' = freed
      /\ use' = use /\ held' = held
  BY DEF Rewind, Running, Next1, Advance, pool, Kept
<1>2. scratch'.buf = scratch.buf /\ scratch'.off = 0 /\ scratch' \in [buf : Nat, off : Nat]
  BY <1>0, <1>1 DEF ScratchOK
<1>3. HeldOK' /\ PoolOK'
  BY <1>0, <1>1, <1>2, SamePool
<1>4. ScratchOK'
  BY <1>0, <1>1, <1>2, CapacityType DEF ScratchOK
<1>5. PICK D : D = DOMAIN slot \cap Kept
  OBVIOUS
<1>6. D \subseteq DOMAIN slot /\ slot' = [s \in D |-> slot[s]] /\ DOMAIN slot' = D
  BY <1>1, <1>5
<1>7. ASSUME NEW t \in D PROVE InPool(t)' \/ InScratch(t)' \/ Lone(t)'
  <2>1. slot'[t] = slot[t] /\ t \notin Temps /\ t # "tokenBuf"
    BY <1>5, <1>6 DEF Kept, Temps
  <2>2. InPool(t)
    BY <1>0, <1>6, <2>1 DEF SlotsOK, InScratch, Lone
  <2> QED
    BY <1>1, <2>1, <2>2 DEF InPool
<1>8. SlotsOK'
  BY <1>0, <1>6, <1>7, FewerSlots
<1>9. PlanOK'
  <2>1. After(DOMAIN slot, plan[1]) = DOMAIN slot'
    BY <1>1, <1>5, <1>6 DEF After, Binds
  <2> QED
    BY <1>0, <1>1, <2>1, NextOp DEF PlanOK
<1> QED
  BY <1>3, <1>4, <1>8, <1>9 DEF MemInv

\* AllocPermanent.
LEMMA PermanentMem ==
  ASSUME MemInv, DoPermanent
  PROVE  MemInv'
<1>0. HeldOK /\ PoolOK /\ ScratchOK /\ SlotsOK /\ PlanOK
  BY DEF MemInv
<1>1. /\ plan # << >> /\ plan[1].op = "permanent" /\ plan' = Tail(plan)
      /\ size' = Append(size, plan[1].n)
      /\ Bind(plan[1].s, Len(size) + 1, 0, plan[1].n)
      /\ avail' = avail /\ inUse' = inUse /\ freed' = freed
      /\ use' = use /\ held' = held /\ scratch' = scratch
  BY DEF DoPermanent, Running, Next1, Advance
<1>2. PICK s \in Names, n \in Nat : s = plan[1].s /\ n = plan[1].n /\ s = "tokenBuf"
  <2>1. "tokenBuf" \in Names
    BY DEF Names
  <2> QED
    BY <1>0, <1>1, <2>1, NextOp
<1>3. PICK L \in Nat, b \in Nat : L = Len(size) /\ b = L + 1 /\ b = Len(size) + 1
  BY <1>0 DEF PoolOK
<1>4. /\ size' \in Seq(Nat) /\ Len(size') = L + 1 /\ (\A x \in 1..L : size'[x] = size[x]) /\ size'[b] = n
  BY <1>0, <1>1, <1>2, <1>3 DEF PoolOK
<1>5. Bind(s, b, 0, n)
  BY <1>1, <1>2, <1>3
<1>6. /\ DOMAIN slot' = DOMAIN slot \cup {s}
      /\ slot'[s] = [buf |-> b, off |-> 0, n |-> n]
      /\ slot'[s].buf = b /\ slot'[s].off = 0 /\ slot'[s].n = n
      /\ \A t \in DOMAIN slot : t # s => slot'[t] = slot[t]
  BY <1>5, Bound
<1>7. \A x \in 1..L : x \in 1..(L + 1) /\ x # b
  BY <1>3
<1>8. HeldOK'
  <2>1. \A h \in Holders(use.kind) : held[h] \in 1..(L + 1) /\ held[h] # scratch.buf
    BY <1>0, <1>3, <1>7 DEF HeldOK
  <2> QED
    BY <1>0, <1>1, <1>4, <2>1 DEF HeldOK
<1>9. ScratchOK'
  <2>1. scratch.buf \in Nat
    BY <1>0 DEF ScratchOK
  <2>2. scratch.buf <= L + 1
    BY <1>0, <1>3, <2>1 DEF ScratchOK
  <2>3. use.scratch => scratch.buf \in 1..L /\ size'[scratch.buf] = size[scratch.buf]
    BY <1>0, <1>3, <1>4 DEF ScratchOK
  <2> QED
    BY <1>0, <1>1, <1>4, <1>7, <2>2, <2>3 DEF ScratchOK
<1>10. \A x : Poolable(x) => Poolable(x)' /\ x \in 1..L
  BY <1>1, <1>3, <1>4, <1>7 DEF Poolable
<1>11. PoolOK'
  <2>1. Members(avail)' = Members(avail) /\ Members(inUse)' = Members(inUse)
    BY <1>1 DEF Members
  <2>2. Once(avail)' /\ Once(inUse)'
    BY <1>0, <1>1 DEF PoolOK, Once
  <2>3. (\A x \in Members(avail) : Poolable(x)') /\ (\A x \in Members(inUse) : Poolable(x)')
    BY <1>0, <1>10 DEF PoolOK
  <2>4. freed \subseteq 1..(L + 1)
    BY <1>0, <1>3, <1>7 DEF PoolOK
  <2> QED
    BY <1>0, <1>1, <1>4, <2>1, <2>2, <2>3, <2>4 DEF PoolOK
<1>12. b \notin freed /\ b \notin Members(avail) /\ b \notin Members(inUse) /\ b # scratch.buf
  <2>1. b \notin freed
    BY <1>0, <1>3, <1>7 DEF PoolOK
  <2>2. b \notin Members(avail) /\ b \notin Members(inUse)
    BY <1>0, <1>7, <1>10 DEF PoolOK
  <2>3. b # scratch.buf
    BY <1>0, <1>3 DEF ScratchOK
  <2> QED
    BY <2>1, <2>2, <2>3
<1>13. Lone(s)'
  <2>1. b \in 1..(L + 1)
    BY <1>3
  <2> QED
    BY <1>1, <1>2, <1>4, <1>6, <1>12, <2>1 DEF Lone
<1>14. ASSUME NEW t \in DOMAIN slot, t # s PROVE slot[t].buf # b /\ (InPool(t)' \/ InScratch(t)' \/ Lone(t)')
  <2>1. slot'[t] = slot[t]
    BY <1>6, <1>14
  <2>2. CASE InPool(t)
    <3>1. slot[t].buf \in Members(inUse) /\ slot[t].buf \in 1..L
      BY <1>0, <1>10, <2>2 DEF InPool, PoolOK
    <3> QED
      BY <1>1, <1>4, <1>7, <2>1, <2>2, <3>1 DEF InPool
  <2>3. CASE InScratch(t)
    BY <1>1, <1>12, <2>1, <2>3 DEF InScratch
  <2>4. CASE Lone(t)
    BY <1>2, <1>14, <2>4 DEF Lone
  <2> QED
    BY <1>0, <2>2, <2>3, <2>4 DEF SlotsOK
<1>15. SlotsOK'
  <2>1. DOMAIN slot' \subseteq Names
    BY <1>0, <1>2, <1>6 DEF SlotsOK
  <2>2. \A t \in DOMAIN slot' : slot'[t] \in [buf : Nat, off : Nat, n : Nat]
    BY <1>0, <1>6 DEF SlotsOK
  <2>3. \A t \in DOMAIN slot' : InPool(t)' \/ InScratch(t)' \/ Lone(t)'
    BY <1>6, <1>13, <1>14
  <2>4. ASSUME NEW t \in DOMAIN slot', NEW u \in DOMAIN slot', t # u PROVE Apart(slot'[t], slot'[u])
    <3>1. CASE t = s
      <4>1. slot'[u] = slot[u] /\ slot[u].buf # b
        BY <1>6, <1>14, <2>4, <3>1
      <4> QED
        BY <1>6, <3>1, <4>1 DEF Apart
    <3>2. CASE u = s
      <4>1. slot'[t] = slot[t] /\ slot[t].buf # b
        BY <1>6, <1>14, <2>4, <3>2
      <4> QED
        BY <1>6, <3>2, <4>1 DEF Apart
    <3>3. CASE t # s /\ u # s
      <4>1. slot'[t] = slot[t] /\ slot'[u] = slot[u] /\ t \in DOMAIN slot /\ u \in DOMAIN slot
        BY <1>6, <3>3
      <4> QED
        BY <1>0, <2>4, <4>1 DEF SlotsOK
    <3> QED
      BY <3>1, <3>2, <3>3
  <2> QED
    BY <2>1, <2>2, <2>3, <2>4 DEF SlotsOK
<1>16. PlanOK'
  <2>1. After(DOMAIN slot, plan[1]) = DOMAIN slot'
    BY <1>1, <1>2, <1>6 DEF After, Binds
  <2> QED
    BY <1>0, <1>1, <2>1, NextOp DEF PlanOK
<1> QED
  BY <1>8, <1>9, <1>11, <1>15, <1>16 DEF MemInv

\* Free, of the permanent buffer.
LEMMA FreeMem ==
  ASSUME MemInv, DoFree
  PROVE  MemInv' /\ inUse' = inUse
<1>0. HeldOK /\ PoolOK /\ ScratchOK /\ SlotsOK /\ PlanOK
  BY DEF MemInv
<1>1. plan # << >> /\ plan[1].op = "free" /\ plan[1].s = "tokenBuf" /\ "tokenBuf" \in DOMAIN slot
  <2>1. plan # << >> /\ plan[1].op = "free"
    BY DEF DoFree, Running, Next1
  <2> QED
    BY <1>0, <2>1, NextOp DEF Ready
<1>2. PICK b : b = slot["tokenBuf"].buf
  OBVIOUS
<1>3. Lone("tokenBuf")
  <2>1. "tokenBuf" \notin Temps
    BY DEF Temps
  <2> QED
    BY <1>0, <1>1, <2>1 DEF SlotsOK, InPool, InScratch
<1>4. /\ b \in 1..Len(size) /\ b \notin Members(avail) /\ b \notin Members(inUse) /\ b # scratch.buf
  BY <1>2, <1>3 DEF Lone
<1>5. {i \in DOMAIN inUse : inUse[i] = b} = {}
  BY <1>0, <1>4 DEF PoolOK, Members
<1>6. /\ freed' = freed \cup {b} /\ inUse' = inUse
  BY <1>1, <1>2, <1>5 DEF DoFree, Next1
<1>7. /\ slot' = [s \in DOMAIN slot \ {"tokenBuf"} |-> slot[s]] /\ plan' = Tail(plan)
      /\ use' = use /\ size' = size /\ avail' = avail /\ held' = held /\ scratch' = scratch
  BY <1>1 DEF DoFree, Next1, Advance
<1>8. HeldOK'
  BY <1>0, <1>7 DEF HeldOK
<1>9. ScratchOK'
  BY <1>0, <1>4, <1>6, <1>7 DEF ScratchOK
<1>10. \A x : Poolable(x) /\ x # b => Poolable(x)'
  BY <1>6, <1>7 DEF Poolable
<1>11. PoolOK'
  <2>1. Members(avail)' = Members(avail) /\ Members(inUse)' = Members(inUse)
    BY <1>6, <1>7 DEF Members
  <2>2. Once(avail)' /\ Once(inUse)'
    BY <1>0, <1>6, <1>7 DEF PoolOK, Once
  <2>3. (\A x \in Members(avail) : Poolable(x)') /\ (\A x \in Members(inUse) : Poolable(x)')
    BY <1>0, <1>4, <1>10 DEF PoolOK
  <2>4. freed' \subseteq 1..Len(size)
    BY <1>0, <1>4, <1>6 DEF PoolOK
  <2> QED
    BY <1>0, <1>6, <1>7, <2>1, <2>2, <2>3, <2>4 DEF PoolOK
<1>12. PICK D : D = DOMAIN slot \ {"tokenBuf"}
  OBVIOUS
<1>13. D \subseteq DOMAIN slot /\ slot' = [s \in D |-> slot[s]] /\ DOMAIN slot' = D
  BY <1>7, <1>12
<1>14. ASSUME NEW t \in D PROVE InPool(t)' \/ InScratch(t)' \/ Lone(t)'
  <2>1. slot'[t] = slot[t] /\ t # "tokenBuf"
    BY <1>12, <1>13
  <2>2. CASE InPool(t)
    BY <1>6, <1>7, <2>1, <2>2 DEF InPool
  <2>3. CASE InScratch(t)
    BY <1>7, <2>1, <2>3 DEF InScratch
  <2> QED
    BY <1>0, <1>13, <2>1, <2>2, <2>3 DEF SlotsOK, Lone
<1>15. SlotsOK'
  BY <1>0, <1>13, <1>14, FewerSlots
<1>16. PlanOK'
  <2>1. After(DOMAIN slot, plan[1]) = DOMAIN slot'
    BY <1>1, <1>12, <1>13 DEF After, Binds
  <2> QED
    BY <1>0, <1>1, <1>7, <2>1, NextOp DEF PlanOK
<1> QED
  BY <1>6, <1>8, <1>9, <1>11, <1>15, <1>16 DEF MemInv

\* A step that changes no memory, and goes on with the plan or drops it.
LEMMA PlanMem ==
  ASSUME MemInv, size' = size, avail' = avail, inUse' = inUse, freed' = freed, use' = use, held' = held,
         scratch' = scratch, slot' = slot,
         \/ plan' = plan
         \/ plan' = << >>
         \/ /\ plan # << >> /\ plan' = Tail(plan)
            /\ plan[1].op \in {"write", "append", "store", "commit", "zero", "update"}
  PROVE  MemInv'
<1>0. HeldOK /\ PoolOK /\ ScratchOK /\ SlotsOK /\ PlanOK
  BY DEF MemInv
<1>1. HeldOK' /\ PoolOK'
  BY <1>0, SamePool
<1>2. ScratchOK'
  BY <1>0 DEF ScratchOK
<1>3. SlotsOK'
  <2>1. ASSUME NEW s \in DOMAIN slot PROVE InPool(s)' \/ InScratch(s)' \/ Lone(s)'
    <3>1. Members(avail)' = Members(avail) /\ Members(inUse)' = Members(inUse)
      BY DEF Members
    <3>2. CASE InPool(s)
      BY <3>1, <3>2 DEF InPool
    <3>3. CASE InScratch(s)
      BY <3>3 DEF InScratch
    <3>4. CASE Lone(s)
      BY <3>1, <3>4 DEF Lone
    <3> QED
      BY <1>0, <3>2, <3>3, <3>4 DEF SlotsOK
  <2> QED
    BY <1>0, <2>1 DEF SlotsOK
<1>4. PlanOK'
  <2>1. CASE plan' = plan
    BY <1>0, <2>1 DEF PlanOK
  <2>2. CASE plan' = << >>
    <3>1. Leads(DOMAIN slot, << >>, DOMAIN slot)
      BY <1>0, LeadsNone DEF SlotsOK
    <3>2. Leads(DOMAIN slot, << >>, {})
      BY <3>1, LeadsWeaken
    <3>3. << >> \in Seq(Ops)
      OBVIOUS
    <3> QED
      BY <2>2, <3>2, <3>3 DEF PlanOK
  <2>3. CASE plan # << >> /\ plan' = Tail(plan) /\ plan[1].op \in {"write", "append", "store", "commit", "zero", "update"}
    <3>1. After(DOMAIN slot, plan[1]) = DOMAIN slot
      BY <2>3 DEF After, Binds
    <3> QED
      BY <1>0, <2>3, <3>1, NextOp DEF PlanOK
  <2> QED
    BY <2>1, <2>2, <2>3
<1> QED
  BY <1>1, <1>2, <1>3, <1>4 DEF MemInv

\* Two sequences without a common element, joined.
LEMMA JoinedOnce ==
  ASSUME NEW S, NEW p \in Seq(S), NEW q \in Seq(S), Once(p), Once(q), Members(p) \cap Members(q) = {}
  PROVE  Once(p \o q) /\ Members(p \o q) = Members(p) \cup Members(q)
<1>1. PICK r \in Seq(S) : r = p \o q
  BY Joined
<1>2. PICK a \in Nat, b \in Nat : a = Len(p) /\ b = Len(q)
  BY Joined
<1>3. /\ Len(r) = a + b
      /\ \A i \in 1..a : r[i] = p[i]
      /\ \A i \in 1..b : r[a + i] = q[i]
  BY <1>1, <1>2, Joined
<1>4. ASSUME NEW k \in 1..(a + b)
      PROVE  \/ k \in 1..a /\ r[k] = p[k]
             \/ \E j \in 1..b : k = a + j /\ r[k] = q[j]
  <2>1. CASE k \in 1..a
    BY <1>3, <2>1
  <2>2. CASE ~(k \in 1..a)
    <3>1. k - a \in 1..b /\ k = a + (k - a)
      BY <2>2, JoinedIndex
    <3>2. PICK j \in 1..b : k = a + j
      BY <3>1
    <3> QED
      BY <1>3, <3>2
  <2> QED
    BY <2>1, <2>2
<1>5. /\ \A i \in 1..a : p[i] \in Members(p)
      /\ \A i \in 1..b : q[i] \in Members(q)
      /\ \A i, j \in 1..a : p[i] = p[j] => i = j
      /\ \A i, j \in 1..b : q[i] = q[j] => i = j
  BY <1>2 DEF Members, Once
<1>6. ASSUME NEW k \in 1..(a + b), NEW l \in 1..(a + b), r[k] = r[l] PROVE k = l
  <2>1. CASE k \in 1..a /\ r[k] = p[k]
    <3>1. CASE l \in 1..a /\ r[l] = p[l]
      BY <1>5, <1>6, <2>1, <3>1
    <3>2. CASE \E j \in 1..b : l = a + j /\ r[l] = q[j]
      BY <1>5, <1>6, <2>1, <3>2
    <3> QED
      BY <1>4, <3>1, <3>2
  <2>2. CASE \E j \in 1..b : k = a + j /\ r[k] = q[j]
    <3>1. PICK i \in 1..b : k = a + i /\ r[k] = q[i]
      BY <2>2
    <3>2. CASE l \in 1..a /\ r[l] = p[l]
      BY <1>5, <1>6, <3>1, <3>2
    <3>3. CASE \E j \in 1..b : l = a + j /\ r[l] = q[j]
      <4>1. PICK j \in 1..b : l = a + j /\ r[l] = q[j]
        BY <3>3
      <4>2. i = j
        BY <1>5, <1>6, <3>1, <4>1
      <4> QED
        BY <3>1, <4>1, <4>2
    <3> QED
      BY <1>4, <3>2, <3>3
  <2> QED
    BY <1>4, <2>1, <2>2
<1>7. Once(r)
  BY <1>3, <1>6 DEF Once
<1>8. Members(r) = Members(p) \cup Members(q)
  <2>1. Members(r) = {r[k] : k \in 1..(a + b)} /\ Members(p) = {p[k] : k \in 1..a} /\ Members(q) = {q[k] : k \in 1..b}
    BY <1>2, <1>3 DEF Members
  <2>2. \A k \in 1..(a + b) : r[k] \in Members(p) \cup Members(q)
    BY <1>4, <1>5
  <2>3. \A k \in 1..a : p[k] \in Members(r)
    <3>1. \A k \in 1..a : k \in 1..(a + b) /\ r[k] = p[k]
      BY <1>3
    <3> QED
      BY <2>1, <3>1
  <2>4. \A k \in 1..b : q[k] \in Members(r)
    <3>1. \A k \in 1..b : a + k \in 1..(a + b) /\ r[a + k] = q[k]
      BY <1>3
    <3> QED
      BY <2>1, <3>1
  <2> QED
    BY <2>1, <2>2, <2>3, <2>4
<1> QED
  BY <1>1, <1>7, <1>8

\* A pass begins.
LEMMA BeginMem ==
  ASSUME MemInv, seqLen \in Nat, NEW n \in Lengths, BeginPass(n)
  PROVE  MemInv'
<1>0. HeldOK /\ PoolOK /\ ScratchOK /\ SlotsOK /\ PlanOK
  BY DEF MemInv
<1>1. /\ avail' = avail \o inUse /\ inUse' = << >> /\ plan' = Plan(use.kind, n) /\ slot' = NoSlots
      /\ use' = use /\ size' = size /\ freed' = freed /\ held' = held /\ scratch' = scratch
  BY DEF BeginPass, ResetPool
<1>2. HeldOK' /\ ScratchOK'
  BY <1>0, <1>1 DEF HeldOK, ScratchOK
<1>3. PICK r \in Seq(Nat) : r = avail \o inUse /\ Once(r) /\ Members(r) = Members(avail) \cup Members(inUse)
  <2>1. avail \o inUse \in Seq(Nat)
    BY <1>0, Joined DEF PoolOK
  <2>2. Once(avail \o inUse) /\ Members(avail \o inUse) = Members(avail) \cup Members(inUse)
    BY <1>0, JoinedOnce DEF PoolOK
  <2> QED
    BY <2>1, <2>2
<1>4. \A x : Poolable(x) => Poolable(x)'
  BY <1>1 DEF Poolable
<1>5. PoolOK'
  <2>1. Members(avail)' = Members(r) /\ Members(inUse)' = {} /\ Once(avail)' /\ Once(inUse)'
    BY <1>1, <1>3 DEF Members, Once
  <2>2. \A x \in Members(r) : Poolable(x)'
    BY <1>0, <1>3, <1>4 DEF PoolOK
  <2>3. avail' \in Seq(Nat) /\ inUse' \in Seq(Nat)
    BY <1>1, <1>3
  <2> QED
    BY <1>0, <1>1, <2>1, <2>2, <2>3 DEF PoolOK
<1>6. DOMAIN slot' = {}
  BY <1>1 DEF NoSlots
<1>7. SlotsOK'
  BY <1>6 DEF SlotsOK
<1>8. PlanOK'
  <2>1. n \in Nat /\ use.kind \in AllUses
    BY <1>0, SizesAssumption DEF HeldOK
  <2>2. PICK k \in AllUses : k = use.kind
    BY <2>1
  <2>3. Plan(k, n) \in Seq(Ops) /\ Leads({}, Plan(k, n), {})
    BY <2>1, PlanSound
  <2> QED
    BY <1>1, <1>6, <2>2, <2>3 DEF PlanOK
<1> QED
  BY <1>2, <1>5, <1>7, <1>8 DEF MemInv

-----------------------------------------------------------------------------
(* The steps: what outlives a pass.                                        *)

\* What remains of the plan asks for no more than before.
LEMMA CleanTail ==
  ASSUME PlanOK, CleanOK, plan # << >>, plan' = Tail(plan), use' = use, held' = held, seqLen' = seqLen,
         \A h \in Pooled(use.kind) : size'[held[h]] = size[held[h]]
  PROVE  /\ \A i \in 1..Len(plan') : Asks(plan'[i]) => \A h \in Pooled(use'.kind) : size'[held'[h]] # plan'[i].n
         /\ \A i \in 1..Len(plan') : plan'[i].op = "append" => seqLen' + plan'[i].n <= MaxSeq
<1>1. PICK a \in Nat : a = Len(plan) /\ Len(Tail(plan)) = a - 1 /\ \A i \in 1..(a - 1) : Tail(plan)[i] = plan[i + 1]
  BY DEF PlanOK
<1>2. ASSUME NEW i \in 1..(a - 1)
      PROVE  /\ Asks(plan'[i]) => \A h \in Pooled(use'.kind) : size'[held'[h]] # plan'[i].n
             /\ plan'[i].op = "append" => seqLen' + plan'[i].n <= MaxSeq
  <2>1. PICK j \in 1..a : plan'[i] = plan[j]
    <3>1. i + 1 \in 1..a /\ plan'[i] = plan[i + 1]
      BY <1>1
    <3> QED
      BY <3>1
  <2> QED
    BY <1>1, <2>1 DEF CleanOK
<1> QED
  BY <1>1, <1>2

\* A step that keeps the rows, or adds those of the running pass.
LEMMA CleanSettles ==
  ASSUME PlanOK, NEW N \in Nat, Settles(use.kind, plan, N, Due(N)), plan # << >>, plan' = Tail(plan), use' = use,
         Due(N)' \subseteq Due(N) \ (IF Adds(plan[1]) THEN {plan[1].s} ELSE {})
  PROVE  \E M \in Nat : Settles(use.kind, plan, M, Due(M))'
<1>1. PICK p \in Seq(Ops) : p = plan /\ p # << >>
  BY DEF PlanOK
<1>2. PICK J, K : J = Due(N) \ (IF Adds(p[1]) THEN {p[1].s} ELSE {}) /\ K = Due(N)' /\ K \subseteq J
  BY <1>1
<1>3. Settles(use.kind, Tail(p), N, J)
  BY <1>1, <1>2, SettlesOn
<1>4. Settles(use.kind, Tail(p), N, K)
  BY <1>2, <1>3, SettlesFewer
<1>5. Settles(use.kind, plan, N, Due(N))'
  BY <1>1, <1>2, <1>4
<1> QED
  BY <1>5

\* Rows that stay, or grow.
LEMMA RowsStay ==
  ASSUME Intact, RowsOK, NEW N \in Nat, use' = use, seqLen' = seqLen, DOMAIN rows' = DOMAIN rows,
         \A h \in DOMAIN rows : use.kind # "train" => \A x \in Nat : x \in rows[h] => x \in rows'[h],
         \A h \in DOMAIN rows : use.kind = "train" /\ h[1] = "momentum" => rows'[h] = rows[h]
  PROVE  Intact' /\ RowsOK' /\ Due(N)' \subseteq Due(N)
<1>1. seqLen \in Nat /\ DOMAIN rows = Holders(use.kind)
  BY DEF RowsOK
<1>2. RowsOK'
  BY <1>1 DEF RowsOK
<1>3. \A h \in DOMAIN rows : use.kind # "train" => 0 .. seqLen - 1 \subseteq rows'[h]
  <2>1. \A x \in 0 .. seqLen - 1 : x \in Nat
    BY <1>1
  <2> QED
    BY <2>1 DEF Intact
<1>4. Intact'
  BY <1>3 DEF Intact
<1>5. Due(N)' \subseteq Due(N)
  <2>1. \A x \in seqLen .. seqLen + N - 1 : x \in Nat
    BY <1>1
  <2>2. ASSUME NEW h \in Holders(use.kind), use.kind # "train", seqLen .. seqLen + N - 1 \subseteq rows[h]
        PROVE  seqLen .. seqLen + N - 1 \subseteq rows'[h]
    BY <1>1, <2>1, <2>2
  <2>3. Due(N)' = {h \in Holders(use.kind) : use.kind # "train" /\ ~(seqLen .. seqLen + N - 1 \subseteq rows'[h])}
    BY DEF Due
  <2> QED
    BY <2>2, <2>3 DEF Due
<1> QED
  BY <1>2, <1>4, <1>5

\* An operation that adds and counts no rows, and puts no temporary where a long-lived buffer is.
LEMMA CleanPlain ==
  ASSUME PlanOK, RowsOK, CleanOK, plan # << >>, plan' = Tail(plan), use' = use, held' = held, seqLen' = seqLen,
         \A h \in Pooled(use.kind) : size'[held[h]] = size[held[h]],
         ~Adds(plan[1]), DOMAIN rows' = DOMAIN rows,
         \A h \in DOMAIN rows : use.kind # "train" => \A x \in Nat : x \in rows[h] => x \in rows'[h],
         \A h \in DOMAIN rows : use.kind = "train" /\ h[1] = "momentum" => rows'[h] = rows[h],
         \A s \in DOMAIN slot' \ {"tokenBuf"} : \A h \in Holders(use.kind) : slot'[s].buf # held[h]
  PROVE  CleanOK' /\ RowsOK'
<1>1. PICK N \in Nat : Settles(use.kind, plan, N, Due(N))
  BY DEF CleanOK
<1>2. Intact
  BY DEF CleanOK
<1>3. Intact' /\ RowsOK' /\ Due(N)' \subseteq Due(N)
  BY <1>2, RowsStay
<1>4. Due(N)' \subseteq Due(N) \ (IF Adds(plan[1]) THEN {plan[1].s} ELSE {})
  BY <1>3
<1>5. \E M \in Nat : Settles(use.kind, plan, M, Due(M))'
  BY <1>1, <1>4, CleanSettles
<1>6. /\ \A i \in 1..Len(plan') : Asks(plan'[i]) => \A h \in Pooled(use'.kind) : size'[held'[h]] # plan'[i].n
      /\ \A i \in 1..Len(plan') : plan'[i].op = "append" => seqLen' + plan'[i].n <= MaxSeq
  BY CleanTail
<1>7. \A s \in DOMAIN slot' \ {"tokenBuf"} : \A h \in Holders(use'.kind) : slot'[s].buf # held'[h]
  OBVIOUS
<1> QED
  BY <1>3, <1>5, <1>6, <1>7 DEF CleanOK

\* The pass ends early.
LEMMA CleanDropped ==
  ASSUME CleanOK, RowsOK, plan' = << >>, UNCHANGED <<use, held, rows, seqLen, slot>>
  PROVE  CleanOK' /\ RowsOK'
<1>1. Len(plan') = 0
  OBVIOUS
<1>2. Quiet(plan')
  BY <1>1 DEF Quiet
<1>3. Settles(use.kind', plan', 0, Due(0)')
  BY <1>2, QuietSettles
<1>4. Intact'
  BY DEF CleanOK, Intact
<1>5. RowsOK'
  BY DEF RowsOK
<1>6. \A s \in DOMAIN slot' \ {"tokenBuf"} : \A h \in Holders(use'.kind) : slot'[s].buf # held'[h]
  BY DEF CleanOK
<1>7. \E M \in Nat : Settles(use.kind, plan, M, Due(M))'
  BY <1>3
<1> QED
  BY <1>1, <1>4, <1>5, <1>6, <1>7 DEF CleanOK

-----------------------------------------------------------------------------
(* The steps.                                                              *)

LEMMA InvParts ==
  ASSUME MemoryInv
  PROVE  MemInv /\ RowsOK /\ HeldOK /\ PoolOK /\ ScratchOK /\ SlotsOK /\ PlanOK /\ (clean => CleanOK)
BY DEF MemoryInv, MemInv

LEMMA TakeStep ==
  ASSUME MemoryInv, plan # << >>, Asks(plan[1]), TakeBuffer(plan[1].s, plan[1].n), Advance,
         UNCHANGED <<use, freed, held, rows, scratch, seqLen, clean>>
  PROVE  MemoryInv'
<1>0. MemInv /\ RowsOK /\ HeldOK /\ PoolOK /\ PlanOK
  BY InvParts
<1>1. PICK s \in Names, n \in Nat : s = plan[1].s /\ n = plan[1].n
  BY <1>0, NextOp
<1>2. PICK b \in Nat : Took(b, n) /\ Bind(s, b, 0, n)
  BY <1>0, <1>1, Takes
<1>3. MemInv'
  BY <1>0, <1>1, <1>2, TakeMem
<1>4. RowsOK'
  BY <1>0 DEF RowsOK
<1>5. ASSUME CleanOK PROVE CleanOK'
  <2>1. PICK L \in Nat : L = Len(size)
    BY <1>0 DEF PoolOK
  <2>2. /\ \A x \in 1..L : size'[x] = size[x]
        /\ size'[b] = n /\ (b \in Members(avail) \/ b = L + 1)
    BY <1>2, <2>1 DEF Took
  <2>3. \A h \in Holders(use.kind) : held[h] \in 1..L
    BY <1>0, <2>1 DEF HeldOK
  <2>4. Pooled(use.kind) \subseteq Holders(use.kind)
    BY DEF Pooled
  <2>5. \A h \in Pooled(use.kind) : size'[held[h]] = size[held[h]]
    BY <2>2, <2>3, <2>4
  <2>6. \A h \in Pooled(use.kind) : size[held[h]] # n
    <3>1. 1 \in 1..Len(plan)
      BY <1>0 DEF PlanOK
    <3> QED
      BY <1>1, <1>5, <3>1 DEF CleanOK
  <2>7. ASSUME NEW h \in Holders(use.kind) PROVE held[h] # b
    <3>1. CASE b \in Members(avail)
      <4>1. Poolable(b) /\ b \in 1..L
        BY <1>0, <2>1, <3>1 DEF PoolOK, Poolable
      <4>2. size[b] = n
        BY <2>2, <4>1
      <4> QED
        BY <2>6, <4>1, <4>2 DEF Poolable
    <3>2. CASE b = L + 1
      BY <2>3, <3>2
    <3> QED
      BY <2>2, <3>1, <3>2
  <2>8. /\ DOMAIN slot' = DOMAIN slot \cup {s} /\ slot'[s].buf = b
        /\ \A t \in DOMAIN slot : t # s => slot'[t] = slot[t]
    BY <1>2, Bound
  <2>9. \A t \in DOMAIN slot' \ {"tokenBuf"} : \A h \in Holders(use.kind) : slot'[t].buf # held[h]
    BY <1>5, <2>7, <2>8 DEF CleanOK
  <2>10. ~Adds(plan[1])
    BY DEF Adds, Asks
  <2>11. plan' = Tail(plan)
    BY DEF Advance
  <2> QED
    BY <1>0, <1>5, <2>5, <2>9, <2>10, <2>11, CleanPlain
<1>6. (clean => CleanOK)'
  BY <1>5, InvParts
<1> QED
  BY <1>3, <1>4, <1>6 DEF MemoryInv

LEMMA BumpStep ==
  ASSUME MemoryInv, DoBump
  PROVE  MemoryInv'
<1>0. MemInv /\ RowsOK /\ HeldOK /\ PoolOK /\ ScratchOK /\ PlanOK
  BY InvParts
<1>1. /\ plan # << >> /\ plan[1].op = "bump" /\ plan' = Tail(plan)
      /\ Bind(plan[1].s, scratch.buf, Aligned(scratch.off), plan[1].n)
      /\ size' = size /\ use' = use /\ held' = held /\ rows' = rows /\ seqLen' = seqLen /\ clean' = clean
  BY DEF DoBump, Running, Next1, Advance, pool
<1>2. MemInv'
  BY <1>0, BumpMem
<1>3. RowsOK'
  BY <1>0, <1>1 DEF RowsOK
<1>4. ASSUME CleanOK PROVE CleanOK'
  <2>1. PICK s : s = plan[1].s
    OBVIOUS
  <2>2. /\ DOMAIN slot' = DOMAIN slot \cup {s} /\ slot'[s].buf = scratch.buf
        /\ \A t \in DOMAIN slot : t # s => slot'[t] = slot[t]
    <3>1. PICK b, a, n : b = scratch.buf /\ a = Aligned(scratch.off) /\ n = plan[1].n
      OBVIOUS
    <3>2. Bind(s, b, a, n)
      BY <1>1, <2>1, <3>1
    <3>3. /\ DOMAIN slot' = DOMAIN slot \cup {s} /\ slot'[s].buf = b
          /\ \A t \in DOMAIN slot : t # s => slot'[t] = slot[t]
      BY <3>2, Bound
    <3> QED
      BY <3>1, <3>3
  <2>3. \A t \in DOMAIN slot' \ {"tokenBuf"} : \A h \in Holders(use.kind) : slot'[t].buf # held[h]
    BY <1>0, <1>4, <2>2 DEF CleanOK, HeldOK
  <2>4. ~Adds(plan[1])
    BY <1>1 DEF Adds
  <2> QED
    BY <1>0, <1>1, <1>4, <2>3, <2>4, CleanPlain
<1>5. (clean => CleanOK)'
  BY <1>1, <1>4, InvParts
<1> QED
  BY <1>2, <1>3, <1>5 DEF MemoryInv

\* The name of a temporary is dropped, or the operation changes nothing.
LEMMA ForgetStep ==
  ASSUME MemoryInv, Rewind \/ DoFree \/ DoUpdate
  PROVE  MemoryInv'
<1>0. MemInv /\ RowsOK /\ HeldOK /\ PoolOK /\ PlanOK
  BY InvParts
<1>1. /\ plan # << >> /\ plan[1].op \in {"rewind", "free", "update"} /\ plan' = Tail(plan)
      /\ size' = size /\ use' = use /\ held' = held /\ rows' = rows /\ seqLen' = seqLen /\ clean' = clean
  BY DEF Rewind, DoFree, DoUpdate, Running, Next1, Advance, pool
<1>2. DOMAIN slot' \subseteq DOMAIN slot /\ \A s \in DOMAIN slot' : slot'[s] = slot[s]
  BY DEF Rewind, DoFree, DoUpdate
<1>3. MemInv'
  <2>1. CASE Rewind
    BY <1>0, <2>1, RewindMem
  <2>2. CASE DoFree
    BY <1>0, <2>2, FreeMem
  <2>3. CASE DoUpdate
    <3>1. /\ size' = size /\ avail' = avail /\ inUse' = inUse /\ freed' = freed /\ use' = use /\ held' = held
          /\ scratch' = scratch /\ slot' = slot /\ plan[1].op = "update"
      BY <2>3 DEF DoUpdate, pool, Running, Next1
    <3> QED
      BY <1>0, <1>1, <3>1, PlanMem
  <2> QED
    BY <2>1, <2>2, <2>3
<1>4. RowsOK'
  BY <1>0, <1>1 DEF RowsOK
<1>5. ASSUME CleanOK PROVE CleanOK'
  <2>1. \A t \in DOMAIN slot' \ {"tokenBuf"} : \A h \in Holders(use.kind) : slot'[t].buf # held[h]
    BY <1>2, <1>5 DEF CleanOK
  <2>2. ~Adds(plan[1])
    BY <1>1 DEF Adds
  <2> QED
    BY <1>0, <1>1, <1>5, <2>1, <2>2, CleanPlain
<1>6. (clean => CleanOK)'
  BY <1>1, <1>5, InvParts
<1> QED
  BY <1>3, <1>4, <1>6 DEF MemoryInv

LEMMA PermanentStep ==
  ASSUME MemoryInv, DoPermanent
  PROVE  MemoryInv'
<1>0. MemInv /\ RowsOK /\ HeldOK /\ PoolOK /\ PlanOK
  BY InvParts
<1>1. /\ plan # << >> /\ plan[1].op = "permanent" /\ plan' = Tail(plan)
      /\ size' = Append(size, plan[1].n) /\ Bind(plan[1].s, Len(size) + 1, 0, plan[1].n)
      /\ use' = use /\ held' = held /\ rows' = rows /\ seqLen' = seqLen /\ clean' = clean
  BY DEF DoPermanent, Running, Next1, Advance
<1>2. MemInv'
  BY <1>0, PermanentMem
<1>3. RowsOK'
  BY <1>0, <1>1 DEF RowsOK
<1>4. ASSUME CleanOK PROVE CleanOK'
  <2>1. PICK n \in Nat : plan[1].s = "tokenBuf" /\ n = plan[1].n
    BY <1>0, <1>1, NextOp
  <2>2. /\ DOMAIN slot' = DOMAIN slot \cup {"tokenBuf"}
        /\ \A t \in DOMAIN slot : t # "tokenBuf" => slot'[t] = slot[t]
    <3>1. PICK b, s : b = Len(size) + 1 /\ s = "tokenBuf"
      OBVIOUS
    <3>2. Bind(s, b, 0, n)
      BY <1>1, <2>1, <3>1
    <3> QED
      BY <3>1, <3>2, Bound
  <2>3. \A t \in DOMAIN slot' \ {"tokenBuf"} : \A h \in Holders(use.kind) : slot'[t].buf # held[h]
    BY <1>4, <2>2 DEF CleanOK
  <2>4. ~Adds(plan[1])
    BY <1>1 DEF Adds
  <2>5. \A x \in 1..Len(size) : size'[x] = size[x]
    BY <1>0, <1>1, <2>1 DEF PoolOK
  <2>6. \A h \in Pooled(use.kind) : size'[held[h]] = size[held[h]]
    BY <1>0, <2>5 DEF HeldOK, Pooled
  <2> QED
    BY <1>0, <1>1, <1>4, <2>3, <2>4, <2>6, CleanPlain
<1>5. (clean => CleanOK)'
  BY <1>1, <1>4, InvParts
<1> QED
  BY <1>2, <1>3, <1>5 DEF MemoryInv

\* A kernel writes, or ZeroGradients.
LEMMA WriteStep ==
  ASSUME MemoryInv, DoWrite \/ DoZero
  PROVE  MemoryInv'
<1>0. MemInv /\ RowsOK /\ HeldOK /\ PoolOK /\ PlanOK
  BY InvParts
<1>1. /\ plan # << >> /\ plan[1].op \in {"write", "zero"} /\ plan' = Tail(plan)
      /\ size' = size /\ avail' = avail /\ inUse' = inUse /\ freed' = freed /\ use' = use /\ held' = held
      /\ scratch' = scratch /\ slot' = slot /\ seqLen' = seqLen /\ clean' = clean
  BY DEF DoWrite, DoZero, Running, Next1, Advance, pool
<1>2. MemInv'
  BY <1>0, <1>1, PlanMem
<1>3. DOMAIN rows' = DOMAIN rows
  BY DEF DoWrite, DoZero
<1>4. RowsOK'
  BY <1>0, <1>1, <1>3 DEF RowsOK
<1>5. ASSUME CleanOK PROVE CleanOK'
  <2>1. ~Adds(plan[1])
    BY <1>1 DEF Adds
  <2>2. /\ \A h \in DOMAIN rows : use.kind # "train" => \A x \in Nat : x \in rows[h] => x \in rows'[h]
        /\ \A h \in DOMAIN rows : use.kind = "train" /\ h[1] = "momentum" => rows'[h] = rows[h]
    <3>1. CASE DoWrite
      <4>1. plan[1].op = "write"
        BY <3>1 DEF DoWrite, Running, Next1
      <4>2. PICK s \in DOMAIN slot \ {"tokenBuf"} : s = plan[1].s
        BY <1>0, <1>1, <4>1, NextOp DEF Ready
      <4>3. \A h \in DOMAIN rows : held[h] # slot[s].buf
        BY <1>0, <1>5, <4>2 DEF CleanOK, RowsOK
      <4>4. \A h \in DOMAIN rows : rows'[h] = rows[h]
        BY <3>1, <4>2, <4>3 DEF DoWrite, Next1
      <4> QED
        BY <4>4
    <3>2. CASE DoZero
      <4>1. rows' = [h \in DOMAIN rows |-> IF h[1] = "grad" THEN {0} ELSE rows[h]]
        BY <3>2 DEF DoZero
      <4>2. \A h \in DOMAIN rows : h[1] # "grad" => rows'[h] = rows[h]
        BY <4>1
      <4>3. ASSUME NEW h \in DOMAIN rows, use.kind # "train" PROVE h[1] # "grad"
        <5>1. h \in Cached \/ h \in {<<"pool", l>> : l \in LayerIds}
          BY <1>0, <4>3 DEF RowsOK, HeldOK, AllUses, Holders
        <5> QED
          BY <5>1 DEF Cached
      <4> QED
        BY <4>2, <4>3
    <3> QED
      BY <3>1, <3>2
  <2>3. \A t \in DOMAIN slot' \ {"tokenBuf"} : \A h \in Holders(use.kind) : slot'[t].buf # held[h]
    BY <1>1, <1>5 DEF CleanOK
  <2> QED
    BY <1>0, <1>1, <1>3, <1>5, <2>1, <2>2, <2>3, CleanPlain
<1>6. (clean => CleanOK)'
  BY <1>1, <1>5, InvParts
<1> QED
  BY <1>2, <1>4, <1>6 DEF MemoryInv

\* AppendKV and StoreKV.
LEMMA AddStep ==
  ASSUME MemoryInv, DoAppend \/ DoStore
  PROVE  MemoryInv'
<1>0. MemInv /\ RowsOK /\ HeldOK /\ PoolOK /\ PlanOK
  BY InvParts
<1>1. /\ plan # << >> /\ plan[1].op \in {"append", "store"} /\ plan' = Tail(plan)
      /\ size' = size /\ avail' = avail /\ inUse' = inUse /\ freed' = freed /\ use' = use /\ held' = held
      /\ scratch' = scratch /\ slot' = slot /\ seqLen' = seqLen /\ clean' = clean
  BY DEF DoAppend, DoStore, Running, Next1, Advance, pool
<1>2. MemInv'
  BY <1>0, <1>1, PlanMem
<1>3. DOMAIN rows' = DOMAIN rows
  BY DEF DoAppend, DoStore
<1>4. RowsOK'
  BY <1>0, <1>1, <1>3 DEF RowsOK
<1>5. ASSUME CleanOK PROVE CleanOK'
  <2>1. PICK N \in Nat : Settles(use.kind, plan, N, Due(N))
    BY <1>5 DEF CleanOK
  <2>2. Adds(plan[1])
    BY <1>1 DEF Adds
  <2>3. plan[1].n = N /\ Fits1(use.kind, plan[1])
    <3>1. PICK p \in Seq(Ops) : p = plan
      BY <1>0 DEF PlanOK
    <3> QED
      BY <1>1, <2>1, <2>2, <3>1, SettlesOn
  <2>4. use.kind # "train"
    BY <1>1, <2>3 DEF Fits1
  <2> DEFINE s == plan[1].s
  <2>5. PICK c \in Nat, m \in Nat \ {0} : c = seqLen /\ m = MaxSeq
    BY <1>0, SizesAssumption DEF RowsOK
  <2>6. /\ \A h \in DOMAIN rows : \A x \in Nat : x \in rows[h] => x \in rows'[h]
        /\ s \in DOMAIN rows => c .. c + N - 1 \subseteq rows'[s]
    <3>1. CASE DoAppend
      <4>1. plan[1].op = "append" /\ rows' = [rows EXCEPT ![s] = Landed(s, N)]
        BY <2>3, <2>5, <3>1 DEF DoAppend, Running, Next1
      <4>2. c + N <= m
        <5>1. 1 \in 1..Len(plan)
          BY <1>0, <1>1 DEF PlanOK
        <5> QED
          BY <1>5, <2>3, <2>5, <4>1, <5>1 DEF CleanOK
      <4>3. \A p \in c .. c + N - 1 : p < m /\ ~(p - m \in Nat)
        BY <4>2
      <4>4. (c .. c + N - 1 \subseteq Landed(s, N)) /\ \A x \in Nat : x \in rows[s] => x \in Landed(s, N)
        BY <2>5, <4>3 DEF Landed
      <4>5. \A h \in DOMAIN rows : rows'[h] = IF h = s THEN Landed(s, N) ELSE rows[h]
        BY <4>1
      <4> QED
        BY <4>4, <4>5
    <3>2. CASE DoStore
      <4>1. rows' = [rows EXCEPT ![s] = rows[s] \cup (c .. c + N - 1)]
        BY <2>3, <2>5, <3>2 DEF DoStore, Next1
      <4>2. \A h \in DOMAIN rows : rows'[h] = IF h = s THEN rows[s] \cup (c .. c + N - 1) ELSE rows[h]
        BY <4>1
      <4> QED
        BY <4>2
    <3> QED
      BY <3>1, <3>2
  <2>7. Intact' /\ Due(N)' \subseteq Due(N)
    <3>1. Intact
      BY <1>5 DEF CleanOK
    <3>2. /\ \A h \in DOMAIN rows : use.kind # "train" => \A x \in Nat : x \in rows[h] => x \in rows'[h]
          /\ \A h \in DOMAIN rows : use.kind = "train" /\ h[1] = "momentum" => rows'[h] = rows[h]
      BY <2>4, <2>6
    <3> QED
      BY <1>0, <1>1, <1>3, <3>1, <3>2, RowsStay
  <2>8. s \notin Due(N)'
    <3>1. Due(N)' = {h \in Holders(use.kind) : use.kind # "train" /\ ~(seqLen .. seqLen + N - 1 \subseteq rows'[h])}
      BY <1>1 DEF Due
    <3> QED
      BY <1>0, <2>5, <2>6, <3>1 DEF RowsOK
  <2>9. Due(N)' \subseteq Due(N) \ (IF Adds(plan[1]) THEN {plan[1].s} ELSE {})
    BY <2>2, <2>5, <2>7, <2>8
  <2>10. \E M \in Nat : Settles(use.kind, plan, M, Due(M))'
    BY <1>0, <1>1, <2>1, <2>9, CleanSettles
  <2>11. /\ \A i \in 1..Len(plan') : Asks(plan'[i]) => \A h \in Pooled(use'.kind) : size'[held'[h]] # plan'[i].n
         /\ \A i \in 1..Len(plan') : plan'[i].op = "append" => seqLen' + plan'[i].n <= MaxSeq
    BY <1>0, <1>1, <1>5, CleanTail
  <2>12. \A t \in DOMAIN slot' \ {"tokenBuf"} : \A h \in Holders(use'.kind) : slot'[t].buf # held'[h]
    BY <1>1, <1>5 DEF CleanOK
  <2> QED
    BY <2>7, <2>10, <2>11, <2>12 DEF CleanOK
<1>6. (clean => CleanOK)'
  BY <1>1, <1>5, InvParts
<1> QED
  BY <1>2, <1>4, <1>6 DEF MemoryInv

\* The cache counts the rows of the pass.
LEMMA CommitStep ==
  ASSUME MemoryInv, DoCommit
  PROVE  MemoryInv'
<1>0. MemInv /\ RowsOK /\ HeldOK /\ PoolOK /\ PlanOK
  BY InvParts
<1>1. /\ plan # << >> /\ plan[1].op = "commit" /\ plan' = Tail(plan)
      /\ size' = size /\ avail' = avail /\ inUse' = inUse /\ freed' = freed /\ use' = use /\ held' = held
      /\ scratch' = scratch /\ slot' = slot /\ seqLen' = seqLen + plan[1].n /\ clean' = clean /\ rows' = rows
  BY DEF DoCommit, Running, Next1, Advance, pool
<1>2. MemInv'
  BY <1>0, <1>1, PlanMem
<1>3. PICK n \in Nat, c \in Nat : n = plan[1].n /\ c = seqLen /\ seqLen' = c + n
  BY <1>0, <1>1, NextOp DEF RowsOK
<1>4. RowsOK'
  BY <1>0, <1>1, <1>3 DEF RowsOK
<1>5. ASSUME CleanOK PROVE CleanOK'
  <2>1. PICK N \in Nat : Settles(use.kind, plan, N, Due(N))
    BY <1>5 DEF CleanOK
  <2>2. n = N /\ Due(N) = {} /\ Quiet(plan')
    <3>1. PICK p \in Seq(Ops) : p = plan
      BY <1>0 DEF PlanOK
    <3> QED
      BY <1>1, <1>3, <2>1, <3>1, SettlesOn
  <2>3. \A h \in DOMAIN rows : use.kind # "train" => c .. c + n - 1 \subseteq rows[h]
    BY <1>0, <1>3, <2>2 DEF Due, RowsOK
  <2>4. Intact'
    <3>1. \A h \in DOMAIN rows : use.kind # "train" => 0 .. c - 1 \subseteq rows[h]
      BY <1>3, <1>5 DEF CleanOK, Intact
    <3>2. \A x \in 0 .. c + n - 1 : x \in 0 .. c - 1 \/ x \in c .. c + n - 1
      OBVIOUS
    <3>3. \A h \in DOMAIN rows : use.kind # "train" => 0 .. c + n - 1 \subseteq rows[h]
      BY <2>3, <3>1, <3>2
    <3>4. \A h \in DOMAIN rows : use.kind = "train" /\ h[1] = "momentum" => rows[h] = {0}
      BY <1>5 DEF CleanOK, Intact
    <3> QED
      BY <1>1, <1>3, <3>3, <3>4 DEF Intact
  <2>5. \E M \in Nat : Settles(use.kind, plan, M, Due(M))'
    <3>1. Settles(use.kind', plan', 0, Due(0)')
      BY <2>2, QuietSettles
    <3> QED
      BY <3>1
  <2>6. \A i \in 1..Len(plan') : plan'[i].op # "append"
    BY <2>2 DEF Quiet, Adds
  <2>7. \A i \in 1..Len(plan') : Asks(plan'[i]) => \A h \in Pooled(use.kind) : size[held[h]] # plan'[i].n
    <3>1. PICK a \in Nat : a = Len(plan) /\ Len(Tail(plan)) = a - 1 /\ \A i \in 1..(a - 1) : Tail(plan)[i] = plan[i + 1]
      BY <1>0, <1>1 DEF PlanOK
    <3>2. ASSUME NEW i \in 1..(a - 1), Asks(plan'[i]) PROVE \A h \in Pooled(use.kind) : size[held[h]] # plan'[i].n
      <4>1. i + 1 \in 1..a /\ plan'[i] = plan[i + 1]
        BY <1>1, <3>1
      <4> QED
        BY <1>5, <3>1, <3>2, <4>1 DEF CleanOK
    <3> QED
      BY <1>1, <3>1, <3>2
  <2>8. \A t \in DOMAIN slot' \ {"tokenBuf"} : \A h \in Holders(use'.kind) : slot'[t].buf # held'[h]
    BY <1>1, <1>5 DEF CleanOK
  <2> QED
    BY <1>1, <2>4, <2>5, <2>6, <2>7, <2>8 DEF CleanOK
<1>6. (clean => CleanOK)'
  BY <1>1, <1>5, InvParts
<1> QED
  BY <1>2, <1>4, <1>6 DEF MemoryInv

\* The arena or the blocks are exhausted.
LEMMA DropStep ==
  ASSUME MemoryInv, ArenaOOM \/ StoreFails
  PROVE  MemoryInv'
<1>0. MemInv /\ RowsOK
  BY InvParts
<1>1. /\ size' = size /\ avail' = avail /\ inUse' = inUse /\ freed' = freed /\ use' = use /\ held' = held
      /\ scratch' = scratch /\ slot' = slot /\ seqLen' = seqLen /\ clean' = clean /\ rows' = rows
      /\ plan' = << >>
  BY DEF ArenaOOM, StoreFails, pool
<1>2. MemInv'
  BY <1>0, <1>1, PlanMem
<1>3. RowsOK'
  BY <1>0, <1>1 DEF RowsOK
<1>4. CleanOK => CleanOK'
  BY <1>0, <1>1, CleanDropped
<1>5. (clean => CleanOK)'
  BY <1>1, <1>4, InvParts
<1> QED
  BY <1>2, <1>3, <1>5 DEF MemoryInv

\* A new request.
LEMMA NewSequenceStep ==
  ASSUME MemoryInv, NewSequence
  PROVE  MemoryInv'
<1>0. MemInv /\ RowsOK
  BY InvParts
<1>1. /\ size' = size /\ avail' = avail /\ inUse' = inUse /\ freed' = freed /\ use' = use /\ held' = held
      /\ scratch' = scratch /\ slot' = slot /\ seqLen' = 0 /\ clean' = clean
      /\ plan = << >> /\ plan' = << >> /\ use.kind # "train" /\ DOMAIN rows' = DOMAIN rows
  BY DEF NewSequence
<1>2. MemInv'
  BY <1>0, <1>1, PlanMem
<1>3. RowsOK'
  BY <1>0, <1>1 DEF RowsOK
<1>4. ASSUME CleanOK PROVE CleanOK'
  <2>1. Len(plan') = 0 /\ Quiet(plan')
    BY <1>1 DEF Quiet
  <2>2. \E M \in Nat : Settles(use.kind, plan, M, Due(M))'
    <3>1. Settles(use.kind', plan', 0, Due(0)')
      BY <2>1, QuietSettles
    <3> QED
      BY <3>1
  <2>3. Intact'
    <3>1. 0 .. seqLen' - 1 = {}
      BY <1>1
    <3> QED
      BY <1>1, <3>1 DEF Intact
  <2>4. \A t \in DOMAIN slot' \ {"tokenBuf"} : \A h \in Holders(use'.kind) : slot'[t].buf # held'[h]
    BY <1>1, <1>4 DEF CleanOK
  <2> QED
    BY <2>1, <2>2, <2>3, <2>4 DEF CleanOK
<1>5. (clean => CleanOK)'
  BY <1>1, <1>4, InvParts
<1> QED
  BY <1>2, <1>3, <1>5 DEF MemoryInv

\* A pass begins: if the process stays clean, it asks for nothing of a long-lived buffer's size.
LEMMA BeginStep ==
  ASSUME MemoryInv, NEW n \in Lengths, BeginPass(n)
  PROVE  MemoryInv'
<1>0. MemInv /\ RowsOK /\ HeldOK
  BY InvParts
<1>1. /\ plan' = Plan(use.kind, n) /\ slot' = NoSlots
      /\ use' = use /\ size' = size /\ held' = held /\ rows' = rows /\ seqLen' = seqLen
  BY DEF BeginPass
<1>2. /\ clean' => clean
      /\ clean' => (use.kind \in {"f16", "f32"} => seqLen + n <= MaxSeq)
      /\ clean' => \A i \in DOMAIN plan' : plan'[i].op \in {"alloc", "arena", "bump"} =>
                     \A h \in Pooled(use.kind) : size[held[h]] # plan'[i].n
  BY Zenon DEF BeginPass
<1>3. MemInv'
  BY <1>0, BeginMem DEF RowsOK
<1>4. RowsOK'
  BY <1>0, <1>1 DEF RowsOK
<1>5. ASSUME clean' PROVE CleanOK'
  <2>1. CleanOK
    BY <1>2, <1>5, InvParts
  <2>2. PICK k \in AllUses, m \in Nat : k = use.kind /\ m = n
    BY <1>0, SizesAssumption DEF HeldOK
  <2>3. plan' \in Seq(Ops) /\ Settles(k, plan', m, Holders(k))
    BY <1>0, <1>1, <2>2, PlanSound DEF RowsOK
  <2>4. Due(m)' \subseteq Holders(k)
    BY <1>1, <2>2 DEF Due
  <2>5. \E M \in Nat : Settles(use.kind, plan, M, Due(M))'
    <3>1. PICK D : D = Due(m)' /\ D \subseteq Holders(k)
      BY <2>4
    <3>2. Settles(k, plan', m, D)
      BY <2>3, <3>1, SettlesFewer
    <3>3. Settles(use.kind, plan, m, Due(m))'
      BY <1>1, <2>2, <3>1, <3>2
    <3> QED
      BY <3>3
  <2>6. DOMAIN plan' = 1..Len(plan')
    BY <2>3
  <2>7. \A i \in 1..Len(plan') : Asks(plan'[i]) => \A h \in Pooled(use.kind) : size[held[h]] # plan'[i].n
    BY <1>2, <1>5, <2>6 DEF Asks
  <2>8. \A i \in 1..Len(plan') : plan'[i].op = "append" => seqLen + plan'[i].n <= MaxSeq
    <3>1. use.kind \in {"f16", "f32"} => seqLen + m <= MaxSeq
      BY <1>2, <1>5, <2>2
    <3>2. \A i \in 1..Len(plan') : plan'[i].op = "append" => k \in {"f16", "f32"} /\ plan'[i].n = m
      BY <2>3 DEF Settles, Fits1, Adds
    <3> QED
      BY <2>2, <3>1, <3>2
  <2>9. DOMAIN slot' = {}
    BY <1>1 DEF NoSlots
  <2>10. Intact'
    BY <1>1, <2>1 DEF CleanOK, Intact
  <2> QED
    BY <1>1, <2>5, <2>7, <2>8, <2>9, <2>10 DEF CleanOK
<1> QED
  BY <1>3, <1>4, <1>5 DEF MemoryInv

\* Every operation of a pass, and the requests between passes, keep the invariant.
LEMMA NextStep ==
  ASSUME MemoryInv, [Next]_vars
  PROVE  MemoryInv'
<1>1. ASSUME NEW n \in Lengths, BeginPass(n) PROVE MemoryInv'
  BY <1>1, BeginStep
<1>2. CASE NewSequence
  BY <1>2, NewSequenceStep
<1>3. CASE DoAlloc \/ DoArena \/ BumpFallback
  <2>1. plan # << >> /\ Asks(plan[1]) /\ TakeBuffer(plan[1].s, plan[1].n) /\ Advance
    BY <1>3 DEF DoAlloc, DoArena, BumpFallback, Running, Next1, Asks
  <2>2. UNCHANGED <<use, freed, held, rows, scratch, seqLen, clean>>
    BY <1>3 DEF DoAlloc, DoArena, BumpFallback
  <2> QED
    BY <2>1, <2>2, TakeStep
<1>4. CASE ArenaOOM \/ StoreFails
  BY <1>4, DropStep
<1>5. CASE DoBump
  BY <1>5, BumpStep
<1>6. CASE Rewind \/ DoFree \/ DoUpdate
  BY <1>6, ForgetStep
<1>7. CASE DoPermanent
  BY <1>7, PermanentStep
<1>8. CASE DoWrite \/ DoZero
  BY <1>8, WriteStep
<1>9. CASE DoAppend \/ DoStore
  BY <1>9, AddStep
<1>10. CASE DoCommit
  BY <1>10, CommitStep
<1>11. CASE UNCHANGED vars
  <2>1. /\ size' = size /\ avail' = avail /\ inUse' = inUse /\ freed' = freed /\ use' = use /\ held' = held
        /\ scratch' = scratch /\ slot' = slot /\ plan' = plan /\ rows' = rows /\ seqLen' = seqLen /\ clean' = clean
    BY <1>11 DEF vars
  <2>2. MemInv /\ RowsOK /\ (clean => CleanOK)
    BY InvParts
  <2>3. MemInv'
    BY <2>1, <2>2, PlanMem
  <2>4. RowsOK'
    BY <2>1, <2>2 DEF RowsOK
  <2>5. ASSUME CleanOK PROVE CleanOK'
    <3>1. Intact'
      BY <2>1, <2>5 DEF CleanOK, Intact
    <3>2. \A N \in Nat : Due(N)' = Due(N)
      BY <2>1 DEF Due
    <3>3. \E N \in Nat : Settles(use.kind, plan, N, Due(N))'
      BY <2>1, <2>5, <3>2 DEF CleanOK
    <3> QED
      BY <2>1, <2>5, <3>1, <3>3 DEF CleanOK, Asks
  <2>6. (clean => CleanOK)'
    BY <2>1, <2>2, <2>5
  <2> QED
    BY <2>3, <2>4, <2>6 DEF MemoryInv
<1>12. Next \/ UNCHANGED vars
  OBVIOUS
<1> QED
  BY <1>1, <1>2, <1>3, <1>4, <1>5, <1>6, <1>7, <1>8, <1>9, <1>10, <1>11, <1>12 DEF Next

-----------------------------------------------------------------------------
(* What the invariant says.                                                *)

\* A sequence without repetitions has as many members as entries.
LEMMA OnceCounts ==
  ASSUME NEW S, NEW s \in Seq(S), Once(s)
  PROVE  Cardinality(Members(s)) = Len(s)
<1>1. PICK n \in Nat : n = Len(s) /\ DOMAIN s = 1..n
  OBVIOUS
<1>2. s \in [1..n -> Members(s)]
  BY <1>1 DEF Members
<1>3. \A i, j \in 1..n : s[i] = s[j] => i = j
  BY <1>1 DEF Once
<1>4. \A b \in Members(s) : \E i \in 1..n : s[i] = b
  BY <1>1 DEF Members
<1>5. s \in Bijection(1..n, Members(s))
  BY <1>2, <1>3, <1>4 DEF Bijection, Injection, Surjection, IsInjective
<1>6. ExistsBijection(1..n, Members(s))
  BY <1>5 DEF ExistsBijection
<1> QED
  BY <1>1, <1>6, FS_CountingElements

LEMMA InvPool ==
  ASSUME MemoryInv
  PROVE  PoolSound
<1>0. HeldOK /\ PoolOK
  BY InvParts
<1>1. PICK p \in Seq(Nat) : p = Pool /\ Once(p) /\ Members(p) = Members(avail) \cup Members(inUse)
  <2>1. avail \in Seq(Nat) /\ inUse \in Seq(Nat) /\ Once(avail) /\ Once(inUse) /\ Members(avail) \cap Members(inUse) = {}
    BY <1>0 DEF PoolOK
  <2>2. Once(avail \o inUse) /\ Members(avail \o inUse) = Members(avail) \cup Members(inUse)
    BY <2>1, JoinedOnce
  <2>3. avail \o inUse \in Seq(Nat)
    BY <2>1
  <2> QED
    BY <2>2, <2>3 DEF Pool
<1>2. Range(p) = Members(p)
  <2>1. DOMAIN p = 1..Len(p)
    OBVIOUS
  <2> QED
    BY <2>1 DEF Range, Members
<1>3. Cardinality(Range(Pool)) = Len(Pool)
  BY <1>1, <1>2, OnceCounts
<1>4. ASSUME NEW b \in Range(Pool)
      PROVE  /\ b \in 1..Len(size) /\ b \notin freed /\ b # scratch.buf
             /\ \A h \in DOMAIN held \ Pooled(use.kind) : held[h] # b
  <2>1. Poolable(b)
    BY <1>0, <1>1, <1>2 DEF PoolOK
  <2> QED
    BY <1>0, <2>1 DEF Poolable, HeldOK
<1>5. DOMAIN size = 1..Len(size)
  BY <1>0 DEF PoolOK
<1>6. Range(Pool) \subseteq DOMAIN size \ (freed \cup ({scratch.buf} \cup {held[h] : h \in DOMAIN held \ Pooled(use.kind)}))
  BY <1>4, <1>5
<1> QED
  BY <1>3, <1>6 DEF PoolSound

LEMMA InvTemps ==
  ASSUME MemoryInv
  PROVE  TempsDisjoint
<1>0. PoolOK /\ ScratchOK /\ SlotsOK
  BY InvParts
<1>1. DOMAIN size = 1..Len(size)
  BY <1>0 DEF PoolOK
<1>2. ASSUME NEW s \in DOMAIN slot, NEW t \in DOMAIN slot, s # t PROVE ~Overlap(slot[s], slot[t])
  <2>1. PICK a \in [buf : Nat, off : Nat, n : Nat], b \in [buf : Nat, off : Nat, n : Nat] :
          a = slot[s] /\ b = slot[t] /\ Apart(a, b)
    BY <1>0, <1>2 DEF SlotsOK
  <2>2. a.off \in Nat /\ a.n \in Nat /\ b.off \in Nat /\ b.n \in Nat
    OBVIOUS
  <2>3. ~Overlap(a, b)
    BY <2>1, <2>2 DEF Apart, Overlap
  <2> QED
    BY <2>1, <2>3
<1>3. ASSUME NEW s \in DOMAIN slot
      PROVE  slot[s].buf \in DOMAIN size \ freed /\ slot[s].off + slot[s].n <= size[slot[s].buf]
  <2>1. PICK o \in Nat, n \in Nat, b \in Nat : o = slot[s].off /\ n = slot[s].n /\ b = slot[s].buf
    BY <1>0 DEF SlotsOK
  <2>2. InPool(s) \/ InScratch(s) \/ Lone(s)
    BY <1>0 DEF SlotsOK
  <2>3. CASE InPool(s)
    <3>1. b \in Members(inUse) /\ o = 0 /\ n = size[b]
      BY <2>1, <2>3 DEF InPool
    <3>2. b \in 1..Len(size) /\ b \notin freed
      BY <1>0, <3>1 DEF PoolOK, Poolable
    <3>3. o + n <= size[b]
      BY <3>1
    <3> QED
      BY <1>1, <2>1, <3>2, <3>3
  <2>4. CASE InScratch(s)
    <3>1. use.scratch /\ b = scratch.buf /\ o + n <= scratch.off
      BY <2>1, <2>4 DEF InScratch
    <3>2. b \in 1..Len(size) /\ b \notin freed /\ size[b] = ScratchCapacity /\ scratch.off <= ScratchCapacity
      BY <1>0, <3>1 DEF ScratchOK
    <3>3. scratch.off \in Nat /\ ScratchCapacity \in Nat
      BY <1>0, CapacityType DEF ScratchOK
    <3>4. o + n <= size[b]
      BY <3>1, <3>2, <3>3
    <3> QED
      BY <1>1, <2>1, <3>2, <3>4
  <2>5. CASE Lone(s)
    <3>1. b \in 1..Len(size) /\ b \notin freed /\ o = 0 /\ n = size[b]
      BY <2>1, <2>5 DEF Lone
    <3>2. o + n <= size[b]
      BY <3>1
    <3> QED
      BY <1>1, <2>1, <3>1, <3>2
  <2> QED
    BY <2>2, <2>3, <2>4, <2>5
<1> QED
  BY <1>2, <1>3 DEF TempsDisjoint

LEMMA InvRows ==
  ASSUME MemoryInv
  PROVE  SurvivesPasses
BY InvParts DEF SurvivesPasses, CleanOK

\* The invariant holds of every reachable state, for any model dimensions, number of layers, adapter rank,
\* cache length and request lengths, with the bump allocator on or off.
THEOREM MemoryInvariance == Spec => []MemoryInv
<1>1. Init => MemoryInv
  BY InitMem
<1>2. MemoryInv /\ [Next]_vars => MemoryInv'
  BY NextStep
<1> QED
  BY <1>1, <1>2, PTL DEF Spec

\* PoolSound: Alloc, Free and ResetPool move every pooled buffer between available and inUse; the pool never
\* lists one twice, nor one given to metal_release, nor a permanent one.
THEOREM PoolIsSound == Spec => []PoolSound
<1>1. MemoryInv => PoolSound
  BY InvPool
<1> QED
  BY <1>1, MemoryInvariance, PTL

\* TempsDisjoint: the temporaries of a layer never share bytes and stay inside buffers that are not released,
\* whatever mixture of the pool and the aligned bump allocator they come from.
THEOREM TemporariesDisjoint == Spec => []TempsDisjoint
<1>1. MemoryInv => TempsDisjoint
  BY InvTemps
<1> QED
  BY <1>1, MemoryInvariance, PTL

\* SurvivesPasses: as long as no pass asks the pool for exactly the size of a pooled long-lived buffer and the
\* context fits the cache, ResetPool and the passes after it leave every retained KV row and momentum intact.
THEOREM RetainedRows == Spec => []SurvivesPasses
<1>1. MemoryInv => SurvivesPasses
  BY InvRows
<1> QED
  BY <1>1, MemoryInvariance, PTL
=============================================================================
