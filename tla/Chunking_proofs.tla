-------------------------- MODULE Chunking_proofs --------------------------
(***************************************************************************)
(* Every chunk of every strategy is proved by its evidence.                *)
(*                                                                         *)
(* ChunksFollow says so of all blocks that a chunker can be handed;        *)
(* ChunksOfCleanedFollow says it of whatever a parser made and a plan of   *)
(* cleaning was replayed over.  The argument follows the code: the script  *)
(* of difflib leads from a block's range of the stream to its text, so a   *)
(* component has that text; components that are joined and cut resolve to  *)
(* the text of the chunk; and each strategy makes chunks of blocks, of     *)
(* sentences in blocks, or of windows that lie in a run of blocks.         *)
(*                                                                         *)
(* What the folds and the recursive functions of the model compute is      *)
(* reached without induction over an operator: the functions that satisfy  *)
(* the equations exist and are unique, because a least counterexample      *)
(* would have a smaller one.                                               *)
(***************************************************************************)
EXTENDS Chunking, FiniteSetTheorems, SequenceTheorems, TLAPS

\* What the chunker needs of its blocks: texts in the characters C, ranges of the stream, and numbers
\* of their own.
Chunkable(stream, blocks, C) ==
  /\ stream \in Seq(C) /\ {" ", "nl"} \subseteq C /\ "EvidenceError" \notin C
  /\ blocks \in Seq(ToSet(blocks))
  /\ \A b \in ToSet(blocks) : BlockText(b) \in Seq(C) /\ b.start \in Nat /\ b.end \in b.start..Len(stream)
  /\ \A i, j \in DOMAIN blocks : blocks[i].index = blocks[j].index => i = j
-----------------------------------------------------------------------------
(* Recursive functions and folds *)

\* What holds of 0 and of every number after one that it holds of holds up to n.
LEMMA Upward ==
  ASSUME NEW n \in Nat, NEW T, 0 \in T, \A i \in 1..n : (i - 1) \in T => i \in T
  PROVE  \A i \in 0..n : i \in T
<1> DEFINE B == {i \in 0..n : i \notin T}
<1>1. ASSUME B # {} PROVE FALSE
  <2>1. PICK x \in B : \A y \in B : ~ (<<y, x>> \in {ss \in Nat \X Nat : ss[1] < ss[2]})
    <3> B \subseteq Nat
      OBVIOUS
    <3> HIDE DEF B
    <3> QED BY <1>1, NatLessThanWellFounded, WFMin DEF OpToRel
  <2>2. x \in 1..n /\ (x - 1) \in 0..n
    OBVIOUS
  <2>3. (x - 1) \notin B
    <3>1. <<x - 1, x>> \in {ss \in Nat \X Nat : ss[1] < ss[2]}
      BY <2>2
    <3> HIDE DEF B
    <3> QED BY <2>1, <3>1
  <2> QED BY <2>2, <2>3
<1> QED BY <1>1

\* Steps of a function from base exist.
Stepped(step, base, n, g) ==
  g = [i \in 0..n |-> IF i = 0 THEN base ELSE step[<<i, g[i - 1]>>]]

\* There is one for every step and every base.
LEMMA StepsExist ==
  ASSUME NEW n \in Nat, NEW step, NEW base
  PROVE  \E g : Stepped(step, base, n, g)
<1> DEFINE T == {m \in 0..n : \E g : Stepped(step, base, m, g)}
<1>1. 0 \in T
  <2>1. Stepped(step, base, 0, [i \in 0..0 |-> base])
    BY DEF Stepped
  <2> QED BY <2>1
<1>2. ASSUME NEW m \in 1..n, (m - 1) \in T PROVE m \in T
  <2>1. PICK g : Stepped(step, base, m - 1, g)
    BY <1>2
  <2> DEFINE h == [i \in 0..m |-> IF i = m THEN step[<<m, g[m - 1]>>] ELSE g[i]]
  <2>2. ASSUME NEW i \in 0..m PROVE h[i] = IF i = 0 THEN base ELSE step[<<i, h[i - 1]>>]
    <3>1. CASE i = m
      <4>1. h[i - 1] = g[m - 1] /\ h[i] = step[<<m, g[m - 1]>>]
        BY <3>1
      <4> HIDE DEF h
      <4> QED BY <3>1, <4>1
    <3>2. CASE i # m
      <4>1. i \in 0..(m - 1) /\ h[i] = g[i] /\ (i # 0 => h[i - 1] = g[i - 1])
        BY <3>2
      <4> HIDE DEF h
      <4> QED BY <2>1, <4>1 DEF Stepped
    <3> QED BY <3>1, <3>2
  <2>3. h = [i \in 0..m |-> IF i = 0 THEN base ELSE step[<<i, h[i - 1]>>]]
    <3>1. h = [i \in 0..m |-> h[i]]
      OBVIOUS
    <3> HIDE DEF h
    <3> QED BY <2>2, <3>1
  <2>4. Stepped(step, base, m, h)
    BY <2>3 DEF Stepped
  <2> HIDE DEF h
  <2> QED BY <2>4
<1> HIDE DEF T
<1>3. n \in T
  BY <1>1, <1>2, Upward
<1> QED BY <1>3 DEF T

\* The elements of s at some positions are elements of s.
LEMMA ThoseOf ==
  ASSUME NEW S, NEW s \in Seq(S), NEW P
  PROVE  Those(s, P) \in Seq({s[i] : i \in P \cap DOMAIN s})
<1> DEFINE n == Len(s)
           V == Seq({s[i] : i \in P \cap DOMAIN s})
           op(i, v) == IF i \in P THEN Append(v, s[i]) ELSE v
           step == [p \in (1..n) \X V |-> op(p[1], p[2])]
           F(f) == [i \in 0..n |-> IF i = 0 THEN <<>> ELSE op(i, f[i - 1])]
           kept == CHOOSE f : f = F(f)
           g == CHOOSE f : Stepped(step, <<>>, n, f)
<1>1. Those(s, P) = kept[n]
  BY DEF Those
<1>2. n \in Nat /\ <<>> \in V /\ \A i \in 1..n, v \in V : op(i, v) \in V /\ step[<<i, v>>] = op(i, v)
  <2>1. \A i \in 1..n, v \in V : op(i, v) \in V
    OBVIOUS
  <2> HIDE DEF V, op
  <2>2. \A i \in 1..n, v \in V : step[<<i, v>>] = op(i, v)
    OBVIOUS
  <2>3. n \in Nat /\ <<>> \in V
    BY DEF V
  <2> QED BY <2>1, <2>2, <2>3
<1>3. Stepped(step, <<>>, n, g)
  BY <1>2, StepsExist
<1> HIDE DEF n, V, op, step, g
<1>4. \A i \in 0..n : g[i] \in V
  <2> DEFINE T == {i \in 0..n : g[i] \in V}
  <2>1. 0 \in T
    BY <1>2, <1>3 DEF Stepped
  <2>2. ASSUME NEW i \in 1..n, (i - 1) \in T PROVE i \in T
    BY <1>2, <1>3, <2>2 DEF Stepped
  <2> HIDE DEF T
  <2>3. \A i \in 0..n : i \in T
    BY <1>2, <2>1, <2>2, Upward
  <2> QED BY <2>3 DEF T
<1>5. g = F(g)
  <2>1. \A i \in 0..n : i # 0 => (i - 1) \in 0..n /\ i \in 1..n /\ step[<<i, g[i - 1]>>] = op(i, g[i - 1])
    BY <1>2, <1>4
  <2> QED BY <1>3, <2>1 DEF Stepped
<1>6. kept = F(kept)
  BY <1>5
<1> HIDE DEF kept
<1>7. \A i \in 0..n : kept[i] \in V
  <2> DEFINE T == {i \in 0..n : kept[i] \in V}
  <2>1. 0 \in T
    BY <1>2, <1>6
  <2>2. ASSUME NEW i \in 1..n, (i - 1) \in T PROVE i \in T
    <3>1. i \in 0..n /\ i # 0 /\ kept[i - 1] \in V
      BY <1>2, <2>2
    <3>2. kept[i] = op(i, kept[i - 1])
      BY <1>6, <3>1
    <3> QED BY <1>2, <3>1, <3>2
  <2> HIDE DEF T
  <2>3. \A i \in 0..n : i \in T
    BY <1>2, <2>1, <2>2, Upward
  <2> QED BY <2>3 DEF T
<1> QED BY <1>1, <1>2, <1>7 DEF V

\* The parts one after another, one more at every step.
Concatenated(parts, S, f) ==
  /\ f \in [0..Len(parts) -> Seq(S)] /\ f[0] = <<>>
  /\ \A i \in 1..Len(parts) : f[i] = f[i - 1] \o parts[i]

\* Concat is the last of such steps.
LEMMA ConcatSteps ==
  ASSUME NEW S, NEW parts \in Seq(Seq(S))
  PROVE  \E f : Concatenated(parts, S, f) /\ Concat(parts) = f[Len(parts)]
<1> DEFINE n == Len(parts)
           V == Seq(S)
           op(i, v) == IF i = 1 THEN parts[i] ELSE v \o parts[i]
           step == [p \in (1..n) \X V |-> op(p[1], p[2])]
           F(f) == [i \in 1..n |-> IF i = 1 THEN parts[i] ELSE f[i - 1] \o parts[i]]
           flatten == CHOOSE f : f = F(f)
           g == CHOOSE f : Stepped(step, <<>>, n, f)
<1>1. Concat(parts) = IF n = 0 THEN parts ELSE flatten[n]
  <2>1. <<>> \o parts = parts
    OBVIOUS
  <2> QED BY <2>1 DEF Concat, FlattenSeq
<1>2. n \in Nat /\ <<>> \in V /\ \A i \in 1..n : parts[i] \in V /\ \A v \in V : op(i, v) \in V /\ step[<<i, v>>] = op(i, v)
  <2>1. \A i \in 1..n : parts[i] \in V /\ \A v \in V : op(i, v) \in V
    OBVIOUS
  <2>2. n \in Nat /\ <<>> \in V
    OBVIOUS
  <2> HIDE DEF V, op
  <2>3. \A i \in 1..n, v \in V : step[<<i, v>>] = op(i, v)
    OBVIOUS
  <2> QED BY <2>1, <2>2, <2>3
<1>3. Stepped(step, <<>>, n, g)
  BY <1>2, StepsExist
<1>4. n = 0 => parts = <<>>
  OBVIOUS
<1> HIDE DEF n, V, step, g
<1>5. \A i \in 0..n : g[i] \in V
  <2> DEFINE T == {i \in 0..n : g[i] \in V}
  <2>1. 0 \in T
    BY <1>2, <1>3 DEF Stepped
  <2>2. ASSUME NEW i \in 1..n, (i - 1) \in T PROVE i \in T
    <3> HIDE DEF op
    <3> QED BY <1>2, <1>3, <2>2 DEF Stepped
  <2> HIDE DEF T
  <2>3. \A i \in 0..n : i \in T
    BY <1>2, <2>1, <2>2, Upward
  <2> QED BY <2>3 DEF T
<1> DEFINE h == [i \in 1..n |-> g[i]]
<1>6. h = F(h)
  <2>1. ASSUME NEW i \in 1..n PROVE h[i] = IF i = 1 THEN parts[i] ELSE h[i - 1] \o parts[i]
    <3>1. i \in 0..n /\ i # 0 /\ (i - 1) \in 0..n /\ g[i] = op(i, g[i - 1])
      <4>1. i \in 0..n /\ i # 0 /\ (i - 1) \in 0..n
        BY <1>2
      <4>2. g[i] = step[<<i, g[i - 1]>>]
        BY <1>3, <4>1 DEF Stepped
      <4> QED BY <1>2, <1>5, <4>1, <4>2
    <3> QED BY <3>1
  <2> QED BY <2>1
<1> HIDE DEF h
<1>7. flatten = F(flatten)
  BY <1>6
<1> HIDE DEF flatten
<1>8. \A i \in 1..n : flatten[i] = IF i = 1 THEN parts[i] ELSE flatten[i - 1] \o parts[i]
  BY <1>7
<1>9. \A i \in 0..n : i = 0 \/ flatten[i] \in V
  <2> DEFINE T == {i \in 0..n : i = 0 \/ flatten[i] \in V}
  <2>1. 0 \in T
    BY <1>2
  <2>2. ASSUME NEW i \in 1..n, (i - 1) \in T PROVE i \in T
    <3>1. CASE i = 1
      BY <1>2, <1>8, <3>1
    <3>2. CASE i # 1
      <4>0. (i - 1) \in 1..n /\ i \in 0..n /\ i - 1 # 0
        BY <1>2, <3>2
      <4>1. flatten[i - 1] \in V /\ flatten[i] = flatten[i - 1] \o parts[i]
        <5>1. flatten[i - 1] \in V
          BY <2>2, <4>0
        <5>2. flatten[i] = flatten[i - 1] \o parts[i]
          BY <1>8, <3>2
        <5> QED BY <5>1, <5>2
      <4>2. flatten[i - 1] \o parts[i] \in V
        BY <1>2, <4>1 DEF V
      <4> QED BY <4>0, <4>1, <4>2
    <3> QED BY <3>1, <3>2
  <2> HIDE DEF T
  <2>3. \A i \in 0..n : i \in T
    BY <1>2, <2>1, <2>2, Upward
  <2> QED BY <2>3 DEF T
<1> DEFINE f == [i \in 0..n |-> IF i = 0 THEN <<>> ELSE flatten[i]]
<1>10. f \in [0..n -> V] /\ f[0] = <<>>
  BY <1>2, <1>9
<1>11. ASSUME NEW i \in 1..n PROVE f[i] = f[i - 1] \o parts[i]
  <2>0. i \in 0..n /\ i # 0 /\ (i - 1) \in 0..n
    BY <1>2
  <2>1. f[i] = flatten[i] /\ f[i - 1] = IF i - 1 = 0 THEN <<>> ELSE flatten[i - 1]
    BY <2>0
  <2> HIDE DEF f
  <2>2. CASE i = 1
    <3>1. flatten[i] = parts[i] /\ i - 1 = 0
      BY <1>8, <2>2
    <3>2. <<>> \o parts[i] = parts[i]
      BY <1>2 DEF V
    <3> QED BY <2>1, <3>1, <3>2
  <2>3. CASE i # 1
    <3>1. i - 1 # 0
      BY <2>0, <2>3
    <3>2. flatten[i] = flatten[i - 1] \o parts[i]
      BY <1>8, <2>3
    <3> QED BY <2>1, <3>1, <3>2
  <2> QED BY <2>2, <2>3
<1>12. f[n] = Concat(parts)
  BY <1>1, <1>2, <1>4
<1> HIDE DEF f
<1> QED BY <1>10, <1>11, <1>12 DEF Concatenated, n, V

\* Of the subsets of a finite set that are in B, one has no smaller one.
LEMMA Smallest ==
  ASSUME NEW S, IsFiniteSet(S), NEW B \in SUBSET (SUBSET S), B # {}
  PROVE  \E T \in B : \A U \in SUBSET T : U # T => U \notin B
<1>1. PICK T \in B : \A U \in B : ~ (<<U, T>> \in StrictSubsetOrdering(S))
  BY FS_StrictSubsetOrderingWellFounded, FS_FiniteSubsetsOfFinite, WFMin
<1> QED BY <1>1 DEF StrictSubsetOrdering

\* The greatest of a finite set of numbers is one of them.
LEMMA Most ==
  ASSUME NEW S \in SUBSET Nat, IsFiniteSet(S), S # {}
  PROVE  Max(S) \in S /\ \A y \in S : y <= Max(S)
<1> DEFINE HasMost(T) == \E x \in T : \A y \in T : y <= x
           B == {T \in SUBSET S : T # {} /\ ~HasMost(T)}
<1>1. ASSUME B # {} PROVE FALSE
  <2>0. B \in SUBSET (SUBSET S)
    OBVIOUS
  <2> HIDE DEF B
  <2>1. PICK T \in B : \A U \in SUBSET T : U # T => U \notin B
    BY <1>1, <2>0, Smallest
  <2> USE DEF B
  <2>2. PICK a \in T : TRUE
    BY <2>1
  <2>3. T \ {a} = {} \/ HasMost(T \ {a})
    BY <2>1, <2>2
  <2>4. CASE T \ {a} = {}
    BY <2>1, <2>2, <2>4
  <2>5. CASE HasMost(T \ {a})
    <3>1. PICK x \in T \ {a} : \A y \in T \ {a} : y <= x
      BY <2>5
    <3>2. a \in Nat /\ x \in Nat /\ T \subseteq Nat
      BY <2>1, <2>2, <3>1
    <3>3. HasMost(T)
      BY <2>2, <3>1, <3>2
    <3> QED BY <2>1, <3>3
  <2> QED BY <2>3, <2>4, <2>5
<1>2. HasMost(S)
  BY <1>1
<1> QED BY <1>2 DEF Max

\* So it is in all of its subsets.
LEMMA EachMost ==
  ASSUME NEW S \in SUBSET Nat, IsFiniteSet(S)
  PROVE  \A T \in SUBSET S : T # {} => Max(T) \in T
<1> SUFFICES ASSUME NEW T \in SUBSET S, T # {} PROVE Max(T) \in T
  OBVIOUS
<1>1. IsFiniteSet(T)
  BY FS_Subset
<1> QED BY <1>1, Most

\* What a fold over the indices S makes of base: the greatest comes last.
Turns(step, base, S, it) ==
  it = [s \in SUBSET S |-> IF s = {} THEN base ELSE step[<<Max(s), it[s \ {Max(s)}]>>]]

\* Two folds agree on the indices that both of them have.
LEMMA TurnsUnique ==
  ASSUME NEW S \in SUBSET Nat, IsFiniteSet(S), NEW step,
         NEW base, NEW A \in SUBSET S, NEW B \in SUBSET S, NEW f, NEW g,
         Turns(step, base, A, f), Turns(step, base, B, g)
  PROVE  \A s \in SUBSET (A \cap B) : f[s] = g[s]
<1> DEFINE Bad == {s \in SUBSET (A \cap B) : f[s] # g[s]}
<1>1. ASSUME Bad # {} PROVE FALSE
  <2>1. Bad \in SUBSET (SUBSET S)
    OBVIOUS
  <2> HIDE DEF Bad
  <2>2. PICK s \in Bad : \A u \in SUBSET s : u # s => u \notin Bad
    BY <1>1, <2>1, Smallest
  <2> USE DEF Bad
  <2>3. s \in SUBSET A /\ s \in SUBSET B /\ s \in SUBSET S /\ f[s] # g[s]
    BY <2>2
  <2> DEFINE rest == s \ {Max(s)}
  <2>4. /\ f[s] = IF s = {} THEN base ELSE step[<<Max(s), f[rest]>>]
        /\ g[s] = IF s = {} THEN base ELSE step[<<Max(s), g[rest]>>]
    BY <2>3 DEF Turns
  <2>5. s # {} => f[rest] = g[rest]
    <3>1. s # {} => rest \in SUBSET s /\ rest # s
      BY <2>3, EachMost
    <3> QED BY <2>2, <2>3, <3>1
  <2> QED BY <2>3, <2>4, <2>5
<1> QED BY <1>1

\* There is such a fold for every finite set of indices.
LEMMA TurnsExist ==
  ASSUME NEW S \in SUBSET Nat, IsFiniteSet(S), NEW step, NEW base
  PROVE  \E it : Turns(step, base, S, it)
<1> DEFINE Has(s) == \E it : Turns(step, base, s, it)
           Bad == {s \in SUBSET S : ~Has(s)}
<1>1. ASSUME Bad # {} PROVE FALSE
  <2>1. Bad \in SUBSET (SUBSET S)
    OBVIOUS
  <2> HIDE DEF Bad
  <2>2. PICK A \in Bad : \A u \in SUBSET A : u # A => u \notin Bad
    BY <1>1, <2>1, Smallest
  <2>3. A \in SUBSET S /\ ~Has(A) /\ \A u \in SUBSET A : u # A => Has(u)
    BY <2>1, <2>2 DEF Bad
  <2> DEFINE h(u) == CHOOSE it : Turns(step, base, u, it)
             rest(s) == s \ {Max(s)}
             g == [s \in SUBSET A |-> IF s = {} THEN base ELSE step[<<Max(s), h(rest(s))[rest(s)]>>]]
  <2>4. \A u \in SUBSET A : u # A => Turns(step, base, u, h(u))
    BY <2>3
  <2>5. \A s \in SUBSET A : s # {} => rest(s) \in SUBSET A /\ rest(s) # A /\ rest(s) \in SUBSET S
    BY <2>3, EachMost
  <2> HIDE DEF h, Has
  <2>6. ASSUME NEW s \in SUBSET A, s # {} PROVE g[rest(s)] = h(rest(s))[rest(s)]
    <3> DEFINE u == rest(s)
    <3>1. u \in SUBSET A /\ u # A /\ u \in SUBSET S /\ Turns(step, base, u, h(u))
      BY <2>4, <2>5, <2>6
    <3> HIDE DEF u
    <3>2. CASE u = {}
      <4>1. h(u)[u] = base
        BY <3>1, <3>2 DEF Turns
      <4> QED BY <3>1, <3>2, <4>1 DEF u
    <3>3. CASE u # {}
      <4>1. rest(u) \in SUBSET A /\ rest(u) # A /\ rest(u) \in SUBSET S /\ Turns(step, base, rest(u), h(rest(u)))
        BY <2>4, <2>5, <3>1, <3>3
      <4>2. rest(u) \in SUBSET (u \cap rest(u))
        OBVIOUS
      <4>3. h(u)[rest(u)] = h(rest(u))[rest(u)]
        <5> DEFINE v == rest(u)
                   f == h(u)
                   k == h(v)
        <5>1. u \in SUBSET S /\ v \in SUBSET S /\ Turns(step, base, u, f) /\ Turns(step, base, v, k) /\ v \in SUBSET (u \cap v)
          BY <3>1, <4>1, <4>2
        <5> HIDE DEF v, f, k
        <5>2. f[v] = k[v]
          BY <5>1, TurnsUnique
        <5> QED BY <5>2 DEF v, f, k
      <4>4. h(u)[u] = step[<<Max(u), h(u)[rest(u)]>>]
        BY <3>1, <3>3 DEF Turns
      <4>5. g[u] = step[<<Max(u), h(rest(u))[rest(u)]>>]
        BY <3>1, <3>3
      <4> QED BY <4>3, <4>4, <4>5 DEF u
    <3> QED BY <3>2, <3>3
  <2>7. Turns(step, base, A, g)
    <3>1. g = [s \in SUBSET A |-> IF s = {} THEN base ELSE step[<<Max(s), g[rest(s)]>>]]
      BY <2>6
    <3> QED BY <3>1 DEF Turns
  <2> QED BY <2>3, <2>7 DEF Has
<1>2. Has(S)
  BY <1>1
<1> QED BY <1>2

\* A step that stays in V has a fold over 1..n that stays in V.
LEMMA FoldExists ==
  ASSUME NEW n \in Nat, NEW V, NEW base \in V, NEW step, \A i \in 1..n, v \in V : step[<<i, v>>] \in V
  PROVE  \E it : Turns(step, base, 1..n, it) /\ \A s \in SUBSET (1..n) : it[s] \in V
<1> DEFINE S == 1..n
<1>1. S \in SUBSET Nat /\ IsFiniteSet(S)
  BY FS_Interval
<1> HIDE DEF S
<1>2. PICK it : Turns(step, base, S, it)
  BY <1>1, TurnsExist
<1>3. \A s \in SUBSET S : it[s] \in V
  <2> DEFINE B == {s \in SUBSET S : it[s] \notin V}
  <2>1. ASSUME B # {} PROVE FALSE
    <3>0. B \in SUBSET (SUBSET S)
      OBVIOUS
    <3> HIDE DEF B
    <3>1. PICK s \in B : \A u \in SUBSET s : u # s => u \notin B
      BY <1>1, <2>1, <3>0, Smallest
    <3>2. s \in SUBSET S /\ it[s] \notin V
      BY <3>1 DEF B
    <3>3. it[s] = IF s = {} THEN base ELSE step[<<Max(s), it[s \ {Max(s)}]>>]
      BY <1>2, <3>2 DEF Turns
    <3>4. s # {}
      BY <3>2, <3>3
    <3>5. Max(s) \in s
      BY <1>1, <3>2, <3>4, EachMost
    <3>6. it[s \ {Max(s)}] \in V
      BY <3>1, <3>2, <3>5 DEF B
    <3>7. Max(s) \in 1..n
      BY <3>2, <3>5 DEF S
    <3> QED BY <3>2, <3>3, <3>4, <3>6, <3>7
  <2> QED BY <2>1
<1> QED BY <1>2, <1>3 DEF S

\* What is so at the start of a fold and stays so at every index is so at its end.
LEMMA FoldStays ==
  ASSUME NEW n \in Nat, NEW V, NEW iter, iter[{}] \in V,
         \A i \in 1..n : iter[1..(i - 1)] \in V => iter[1..i] \in V
  PROVE  iter[1..n] \in V
<1> DEFINE T == {i \in 0..n : iter[1..i] \in V}
<1>1. 0 \in T
  <2>1. 1..0 = {}
    OBVIOUS
  <2> QED BY <2>1
<1>2. \A i \in 1..n : (i - 1) \in T => i \in T
  OBVIOUS
<1> HIDE DEF T
<1>3. n \in T
  BY <1>1, <1>2, Upward
<1> QED BY <1>3 DEF T

\* The index that a fold over 1..i takes last, and what it leaves.
LEMMA LastOfPrefix ==
  ASSUME NEW i \in Nat \ {0}
  PROVE  Max(1..i) = i /\ (1..i) \ {i} = 1..(i - 1) /\ 1..i # {}
<1>1. Max(1..i) \in 1..i /\ \A y \in 1..i : y <= Max(1..i)
  <2>1. IsFiniteSet(1..i) /\ 1..i \in SUBSET Nat /\ 1..i # {}
    <3>1. 1..i \in SUBSET Nat /\ 1 \in 1..i
      OBVIOUS
    <3>2. IsFiniteSet(1..i)
      BY FS_Interval
    <3> QED BY <3>1, <3>2
  <2> QED BY <2>1, Most
<1> QED BY <1>1

\* The greatest of a set of indices is one of them.
LEMMA IndexMost ==
  ASSUME NEW n \in Nat
  PROVE  \A s \in SUBSET (1..n) : s # {} => Max(s) \in s
<1>1. 1..n \in SUBSET Nat /\ IsFiniteSet(1..n)
  BY FS_Interval
<1> QED BY <1>1, EachMost

\* One more element makes a sequence that is not empty.
LEMMA Appended ==
  ASSUME NEW S, NEW s \in Seq(S), NEW x \in S
  PROVE  Append(s, x) \in Seq(S) \ {<<>>}
<1>1. Append(s, x) \in Seq(S) /\ Len(Append(s, x)) = Len(s) + 1 /\ Len(s) \in Nat
  OBVIOUS
<1> QED BY <1>1

-----------------------------------------------------------------------------
(* What the strategies gather *)

\* chunk_paragraph puts every block into a group: a fold that stays among sequences of groups.
LEMMA GatheredOf ==
  ASSUME NEW B, NEW blocks \in Seq(B), NEW size
  PROVE  Gathered(blocks, size) \in Seq(Seq(B)) \ {<<>>}
<1> DEFINE n == Len(blocks)
           V == Seq(Seq(B)) \ {<<>>}
           ids == [i \in DOMAIN blocks |-> i]
           full(groups, i) == /\ Last(groups) # <<>> /\ BlockText(blocks[i]) # <<>>
                              /\ Len(Flatten(Append(Last(groups), blocks[i]))) > size
           op(groups, i) == IF full(groups, i) THEN Append(groups, <<blocks[i]>>)
                            ELSE Append(Front(groups), Append(Last(groups), blocks[i]))
           base == <<<<>>>>
           step == [p \in (1..n) \X V |-> op(p[2], p[1])]
           F(f) == [s \in SUBSET (1..n) |-> IF s = {} THEN base ELSE op(f[s \ {Max(s)}], Max(s))]
           iter == CHOOSE f : f = F(f)
           it == CHOOSE f : Turns(step, base, 1..n, f) /\ \A s \in SUBSET (1..n) : f[s] \in V
<1>1. Gathered(blocks, size) = iter[1..n]
  <2> DEFINE G(f) == [s \in SUBSET DOMAIN ids |-> IF s = {} THEN base ELSE op(f[s \ {Max(s)}], ids[Max(s)])]
  <2>1. Gathered(blocks, size) = (CHOOSE f : f = G(f))[DOMAIN ids]
    BY DEF Gathered, FoldLeftDomain, FoldLeft, MapThenFoldSet
  <2>2. DOMAIN ids = 1..n
    OBVIOUS
  <2>3. \A s \in SUBSET (1..n) : s # {} => ids[Max(s)] = Max(s)
    <3>1. \A s \in SUBSET (1..n) : s # {} => Max(s) \in 1..n
      <4>1. n \in Nat
        OBVIOUS
      <4> QED BY <4>1, IndexMost
    <3> QED BY <3>1
  <2> HIDE DEF op
  <2>4. ASSUME NEW f PROVE G(f) = F(f)
    <3> HIDE DEF ids, n
    <3> QED BY <2>2, <2>3
  <2> HIDE DEF G, F, ids
  <2> QED BY <2>1, <2>2, <2>4
<1>2. n \in Nat /\ base \in V /\ \A i \in 1..n, v \in V : op(v, i) \in V /\ step[<<i, v>>] = op(v, i)
  <2>1. ASSUME NEW i \in 1..n, NEW v \in V PROVE op(v, i) \in V
    <3>1. blocks[i] \in B /\ Last(v) \in Seq(B) /\ Front(v) \in Seq(Seq(B)) /\ v \in Seq(Seq(B))
      BY DEF Last, Front
    <3>2. Append(v, <<blocks[i]>>) \in V
      <4>1. <<blocks[i]>> \in Seq(B)
        BY <3>1
      <4> QED BY <3>1, <4>1, Appended
    <3>3. Append(Front(v), Append(Last(v), blocks[i])) \in V
      <4>1. Append(Last(v), blocks[i]) \in Seq(B)
        BY <3>1
      <4> QED BY <3>1, <4>1, Appended
    <3> QED BY <3>2, <3>3
  <2>2. n \in Nat /\ base \in V
    OBVIOUS
  <2> HIDE DEF V, op
  <2>3. \A i \in 1..n, v \in V : step[<<i, v>>] = op(v, i)
    OBVIOUS
  <2> QED BY <2>1, <2>2, <2>3
<1> HIDE DEF n, V, op, base, step
<1>3. Turns(step, base, 1..n, it) /\ \A s \in SUBSET (1..n) : it[s] \in V
  <2>1. \E f : Turns(step, base, 1..n, f) /\ \A s \in SUBSET (1..n) : f[s] \in V
    BY <1>2, FoldExists
  <2> QED BY <2>1
<1> HIDE DEF it
<1>4. it = F(it)
  <2>1. ASSUME NEW s \in SUBSET (1..n), s # {} PROVE step[<<Max(s), it[s \ {Max(s)}]>>] = op(it[s \ {Max(s)}], Max(s))
    <3>1. Max(s) \in 1..n
      BY <1>2, <2>1, IndexMost
    <3> QED BY <1>2, <1>3, <3>1
  <2> QED BY <1>3, <2>1 DEF Turns
<1>5. iter = F(iter)
  BY <1>4
<1> HIDE DEF iter
<1>6. iter[{}] \in V
  BY <1>2, <1>5
<1>7. ASSUME NEW i \in 1..n, iter[1..(i - 1)] \in V PROVE iter[1..i] \in V
  <2>1. i \in Nat \ {0} /\ 1..i \in SUBSET (1..n)
    BY <1>2
  <2>2. iter[1..i] = op(iter[1..(i - 1)], i)
    BY <1>5, <2>1, LastOfPrefix
  <2> QED BY <1>2, <1>7, <2>2
<1>8. iter[1..n] \in V
  BY <1>2, <1>6, <1>7, FoldStays
<1> QED BY <1>1, <1>8 DEF V

\* chunk_structure puts every block into a section.
LEMMA SectionsOf ==
  ASSUME NEW B, NEW blocks \in Seq(B)
  PROVE  Sections(blocks) \in Seq(Seq(B)) \ {<<>>}
<1> DEFINE n == Len(blocks)
           V == Seq(Seq(B)) \ {<<>>}
           op(sections, i) == IF blocks[i].kind = "heading" /\ Last(sections) # <<>>
                                THEN Append(sections, <<blocks[i]>>)
                                ELSE Append(Front(sections), Append(Last(sections), blocks[i]))
           base == <<<<>>>>
           step == [p \in (1..n) \X V |-> op(p[2], p[1])]
           F(f) == [s \in SUBSET (1..n) |-> IF s = {} THEN base ELSE op(f[s \ {Max(s)}], Max(s))]
           iter == CHOOSE f : f = F(f)
           it == CHOOSE f : Turns(step, base, 1..n, f) /\ \A s \in SUBSET (1..n) : f[s] \in V
<1>1. Sections(blocks) = iter[1..n]
  <2> DEFINE G(f) == [s \in SUBSET DOMAIN blocks |-> IF s = {} THEN base ELSE op(f[s \ {Max(s)}], Max(s))]
  <2>1. Sections(blocks) = (CHOOSE f : f = G(f))[DOMAIN blocks]
    BY DEF Sections, FoldLeft, MapThenFoldSet
  <2>2. DOMAIN blocks = 1..n
    OBVIOUS
  <2> HIDE DEF op
  <2>4. ASSUME NEW f PROVE G(f) = F(f)
    <3> HIDE DEF n
    <3> QED BY <2>2
  <2> HIDE DEF G, F
  <2> QED BY <2>1, <2>2, <2>4
<1>2. n \in Nat /\ base \in V /\ \A i \in 1..n, v \in V : op(v, i) \in V /\ step[<<i, v>>] = op(v, i)
  <2>1. ASSUME NEW i \in 1..n, NEW v \in V PROVE op(v, i) \in V
    <3>1. blocks[i] \in B /\ Last(v) \in Seq(B) /\ Front(v) \in Seq(Seq(B)) /\ v \in Seq(Seq(B))
      BY DEF Last, Front
    <3>2. Append(v, <<blocks[i]>>) \in V
      <4>1. <<blocks[i]>> \in Seq(B)
        BY <3>1
      <4> QED BY <3>1, <4>1, Appended
    <3>3. Append(Front(v), Append(Last(v), blocks[i])) \in V
      <4>1. Append(Last(v), blocks[i]) \in Seq(B)
        BY <3>1
      <4> QED BY <3>1, <4>1, Appended
    <3> QED BY <3>2, <3>3
  <2>2. n \in Nat /\ base \in V
    OBVIOUS
  <2> HIDE DEF V, op
  <2>3. \A i \in 1..n, v \in V : step[<<i, v>>] = op(v, i)
    OBVIOUS
  <2> QED BY <2>1, <2>2, <2>3
<1> HIDE DEF n, V, op, base, step
<1>3. Turns(step, base, 1..n, it) /\ \A s \in SUBSET (1..n) : it[s] \in V
  <2>1. \E f : Turns(step, base, 1..n, f) /\ \A s \in SUBSET (1..n) : f[s] \in V
    BY <1>2, FoldExists
  <2> QED BY <2>1
<1> HIDE DEF it
<1>4. it = F(it)
  <2>1. ASSUME NEW s \in SUBSET (1..n), s # {} PROVE step[<<Max(s), it[s \ {Max(s)}]>>] = op(it[s \ {Max(s)}], Max(s))
    <3>1. Max(s) \in 1..n
      BY <1>2, <2>1, IndexMost
    <3> QED BY <1>2, <1>3, <3>1
  <2> QED BY <1>3, <2>1 DEF Turns
<1>5. iter = F(iter)
  BY <1>4
<1> HIDE DEF iter
<1>6. iter[{}] \in V
  BY <1>2, <1>5
<1>7. ASSUME NEW i \in 1..n, iter[1..(i - 1)] \in V PROVE iter[1..i] \in V
  <2>1. i \in Nat \ {0} /\ 1..i \in SUBSET (1..n)
    BY <1>2
  <2>2. iter[1..i] = op(iter[1..(i - 1)], i)
    BY <1>5, <2>1, LastOfPrefix
  <2> QED BY <1>2, <1>7, <2>2
<1>8. iter[1..n] \in V
  BY <1>2, <1>6, <1>7, FoldStays
<1> QED BY <1>1, <1>8 DEF V, n

\* chunk_sentence puts every sentence into a buffer.
LEMMA BufferedOf ==
  ASSUME NEW B, NEW sentences \in Seq(B), NEW size
  PROVE  Buffered(sentences, size) \in Seq(Seq(B)) \ {<<>>}
<1> DEFINE n == Len(sentences)
           V == Seq(Seq(B)) \ {<<>>}
           text(buffer) == Joined([k \in DOMAIN buffer |-> buffer[k].text], Space)
           op(buffers, i) == IF Last(buffers) # <<>> /\ Len(text(Append(Last(buffers), sentences[i]))) > size
                               THEN Append(buffers, <<sentences[i]>>)
                               ELSE Append(Front(buffers), Append(Last(buffers), sentences[i]))
           base == <<<<>>>>
           step == [p \in (1..n) \X V |-> op(p[2], p[1])]
           F(f) == [s \in SUBSET (1..n) |-> IF s = {} THEN base ELSE op(f[s \ {Max(s)}], Max(s))]
           iter == CHOOSE f : f = F(f)
           it == CHOOSE f : Turns(step, base, 1..n, f) /\ \A s \in SUBSET (1..n) : f[s] \in V
<1>1. Buffered(sentences, size) = iter[1..n]
  <2> DEFINE G(f) == [s \in SUBSET DOMAIN sentences |-> IF s = {} THEN base ELSE op(f[s \ {Max(s)}], Max(s))]
  <2>1. Buffered(sentences, size) = (CHOOSE f : f = G(f))[DOMAIN sentences]
    BY DEF Buffered, FoldLeft, MapThenFoldSet
  <2>2. DOMAIN sentences = 1..n
    OBVIOUS
  <2> HIDE DEF op
  <2>4. ASSUME NEW f PROVE G(f) = F(f)
    <3> HIDE DEF n
    <3> QED BY <2>2
  <2> HIDE DEF G, F
  <2> QED BY <2>1, <2>2, <2>4
<1>2. n \in Nat /\ base \in V /\ \A i \in 1..n, v \in V : op(v, i) \in V /\ step[<<i, v>>] = op(v, i)
  <2>1. ASSUME NEW i \in 1..n, NEW v \in V PROVE op(v, i) \in V
    <3>1. sentences[i] \in B /\ Last(v) \in Seq(B) /\ Front(v) \in Seq(Seq(B)) /\ v \in Seq(Seq(B))
      BY DEF Last, Front
    <3>2. Append(v, <<sentences[i]>>) \in V
      <4>1. <<sentences[i]>> \in Seq(B)
        BY <3>1
      <4> QED BY <3>1, <4>1, Appended
    <3>3. Append(Front(v), Append(Last(v), sentences[i])) \in V
      <4>1. Append(Last(v), sentences[i]) \in Seq(B)
        BY <3>1
      <4> QED BY <3>1, <4>1, Appended
    <3> QED BY <3>2, <3>3
  <2>2. n \in Nat /\ base \in V
    OBVIOUS
  <2> HIDE DEF V, op
  <2>3. \A i \in 1..n, v \in V : step[<<i, v>>] = op(v, i)
    OBVIOUS
  <2> QED BY <2>1, <2>2, <2>3
<1> HIDE DEF n, V, op, base, step
<1>3. Turns(step, base, 1..n, it) /\ \A s \in SUBSET (1..n) : it[s] \in V
  <2>1. \E f : Turns(step, base, 1..n, f) /\ \A s \in SUBSET (1..n) : f[s] \in V
    BY <1>2, FoldExists
  <2> QED BY <2>1
<1> HIDE DEF it
<1>4. it = F(it)
  <2>1. ASSUME NEW s \in SUBSET (1..n), s # {} PROVE step[<<Max(s), it[s \ {Max(s)}]>>] = op(it[s \ {Max(s)}], Max(s))
    <3>1. Max(s) \in 1..n
      BY <1>2, <2>1, IndexMost
    <3> QED BY <1>2, <1>3, <3>1
  <2> QED BY <1>3, <2>1 DEF Turns
<1>5. iter = F(iter)
  BY <1>4
<1> HIDE DEF iter
<1>6. iter[{}] \in V
  BY <1>2, <1>5
<1>7. ASSUME NEW i \in 1..n, iter[1..(i - 1)] \in V PROVE iter[1..i] \in V
  <2>1. i \in Nat \ {0} /\ 1..i \in SUBSET (1..n)
    BY <1>2
  <2>2. iter[1..i] = op(iter[1..(i - 1)], i)
    BY <1>5, <2>1, LastOfPrefix
  <2> QED BY <1>2, <1>7, <2>2
<1>8. iter[1..n] \in V
  BY <1>2, <1>6, <1>7, FoldStays
<1> QED BY <1>1, <1>8 DEF V, n

\* The least of a set of numbers is one of them.
LEMMA LeastOf ==
  ASSUME NEW S \in SUBSET Nat, S # {}
  PROVE  Min(S) \in S /\ \A y \in S : Min(S) <= y
<1>1. PICK x \in S : \A y \in S : ~ (<<y, x>> \in {ss \in Nat \X Nat : ss[1] < ss[2]})
  BY NatLessThanWellFounded, WFMin DEF OpToRel
<1>2. ASSUME NEW y \in S PROVE x <= y
  <2> SUFFICES ASSUME y < x PROVE FALSE
    OBVIOUS
  <2>1. <<y, x>> \in Nat \X Nat /\ <<y, x>>[1] < <<y, x>>[2]
    OBVIOUS
  <2> QED BY <1>1, <2>1, Zenon
<1> QED BY <1>2 DEF Min

\* Where the next character that is not blank stands is a position.
LEMMA InkPlace ==
  ASSUME NEW C, NEW text \in Seq(C), NEW i \in Nat
  PROVE  FirstInk(text, i) \in Nat
<1> DEFINE ink == {j \in (i + 1)..Len(text) : ~Blank(text[j])}
<1>1. ink \in SUBSET Nat /\ \A j \in ink : j > 0
  OBVIOUS
<1>2. FirstInk(text, i) = IF ink = {} THEN Len(text) ELSE Min(ink) - 1
  BY DEF FirstInk
<1> HIDE DEF ink
<1>3. ASSUME ink # {} PROVE Min(ink) - 1 \in Nat
  <2>1. Min(ink) \in ink
    BY <1>1, <1>3, LeastOf
  <2>2. Min(ink) \in Nat /\ Min(ink) > 0
    BY <1>1, <2>1
  <2> QED BY <2>2
<1> QED BY <1>2, <1>3

\* The cuts of _sentence_spans are ranges that end in the text.
LEMMA CutsOf ==
  ASSUME NEW C, NEW text \in Seq(C)
  PROVE  SentenceCuts(text) \in [start : Nat, spans : Seq([start : Nat, end : 0..Len(text)])]
<1> DEFINE n == Len(text)
           V == [start : Nat, spans : Seq([start : Nat, end : 0..n])]
           ids == [i \in DOMAIN text |-> i]
           goesOn(state, i) == \/ ~Break(text, i)
                               \/ \E a \in Abbreviations : IsSuffix(a, Slice(text, state.start, i))
                               \/ ~Opens(text[FirstInk(text, i) + 1])
           op(state, i) ==
             IF goesOn(state, i) THEN state
             ELSE [start |-> FirstInk(text, i),
                   spans |-> Append(state.spans, [start |-> state.start, end |-> i])]
           base == [start |-> 0, spans |-> <<>>]
           step == [p \in (1..n) \X V |-> op(p[2], p[1])]
           F(f) == [s \in SUBSET (1..n) |-> IF s = {} THEN base ELSE op(f[s \ {Max(s)}], Max(s))]
           iter == CHOOSE f : f = F(f)
           it == CHOOSE f : Turns(step, base, 1..n, f) /\ \A s \in SUBSET (1..n) : f[s] \in V
<1>1. SentenceCuts(text) = iter[1..n]
  <2> DEFINE G(f) == [s \in SUBSET DOMAIN ids |-> IF s = {} THEN base ELSE op(f[s \ {Max(s)}], ids[Max(s)])]
  <2>1. SentenceCuts(text) = (CHOOSE f : f = G(f))[DOMAIN ids]
    BY DEF SentenceCuts, FoldLeftDomain, FoldLeft, MapThenFoldSet
  <2>2. DOMAIN ids = 1..n
    OBVIOUS
  <2>3. \A s \in SUBSET (1..n) : s # {} => ids[Max(s)] = Max(s)
    <3>1. \A s \in SUBSET (1..n) : s # {} => Max(s) \in 1..n
      <4>1. n \in Nat
        OBVIOUS
      <4> QED BY <4>1, IndexMost
    <3> QED BY <3>1
  <2> HIDE DEF op
  <2>4. ASSUME NEW f PROVE G(f) = F(f)
    <3> HIDE DEF ids, n
    <3> QED BY <2>2, <2>3
  <2> HIDE DEF G, F, ids
  <2> QED BY <2>1, <2>2, <2>4
<1>2. n \in Nat /\ base \in V /\ \A i \in 1..n, v \in V : op(v, i) \in V /\ step[<<i, v>>] = op(v, i)
  <2>1. ASSUME NEW i \in 1..n, NEW v \in V PROVE op(v, i) \in V
    <3>1. FirstInk(text, i) \in Nat
      BY InkPlace
    <3>2. [start |-> v.start, end |-> i] \in [start : Nat, end : 0..n]
      OBVIOUS
    <3> HIDE DEF goesOn
    <3> QED BY <3>1, <3>2
  <2>2. n \in Nat /\ base \in V
    OBVIOUS
  <2> HIDE DEF V, op
  <2>3. \A i \in 1..n, v \in V : step[<<i, v>>] = op(v, i)
    OBVIOUS
  <2> QED BY <2>1, <2>2, <2>3
<1> HIDE DEF n, V, op, base, step
<1>3. Turns(step, base, 1..n, it) /\ \A s \in SUBSET (1..n) : it[s] \in V
  <2>1. \E f : Turns(step, base, 1..n, f) /\ \A s \in SUBSET (1..n) : f[s] \in V
    BY <1>2, FoldExists
  <2> QED BY <2>1
<1> HIDE DEF it
<1>4. it = F(it)
  <2>1. ASSUME NEW s \in SUBSET (1..n), s # {} PROVE step[<<Max(s), it[s \ {Max(s)}]>>] = op(it[s \ {Max(s)}], Max(s))
    <3>1. Max(s) \in 1..n
      BY <1>2, <2>1, IndexMost
    <3> QED BY <1>2, <1>3, <3>1
  <2> QED BY <1>3, <2>1 DEF Turns
<1>5. iter = F(iter)
  BY <1>4
<1> HIDE DEF iter
<1>6. iter[{}] \in V
  BY <1>2, <1>5
<1>7. ASSUME NEW i \in 1..n, iter[1..(i - 1)] \in V PROVE iter[1..i] \in V
  <2>1. i \in Nat \ {0} /\ 1..i \in SUBSET (1..n)
    BY <1>2
  <2>2. iter[1..i] = op(iter[1..(i - 1)], i)
    BY <1>5, <2>1, LastOfPrefix
  <2> QED BY <1>2, <1>7, <2>2
<1>8. iter[1..n] \in V
  BY <1>2, <1>6, <1>7, FoldStays
<1> QED BY <1>1, <1>8 DEF V, n

\* The text after each of the steps.
Replayable(text, steps, at) ==
  at[0] = text /\ \A i \in 1..Len(steps) : at[i] = IF at[i - 1] = Refused THEN at[i - 1] ELSE ApplyStep(at[i - 1], steps[i])

\* replay_derivations goes through a text for every step.
LEMMA ReplaySteps ==
  ASSUME NEW B, NEW steps \in Seq(B), NEW text
  PROVE  \E at : Replayable(text, steps, at) /\ Replay(text, steps) = at[Len(steps)]
<1> DEFINE n == Len(steps)
           V == {text, Refused} \cup {steps[i].output : i \in 1..n}
           op(t, i) == IF t = Refused THEN t ELSE ApplyStep(t, steps[i])
           base == text
           step == [p \in (1..n) \X V |-> op(p[2], p[1])]
           F(f) == [s \in SUBSET (1..n) |-> IF s = {} THEN base ELSE op(f[s \ {Max(s)}], Max(s))]
           iter == CHOOSE f : f = F(f)
           it == CHOOSE f : Turns(step, base, 1..n, f) /\ \A s \in SUBSET (1..n) : f[s] \in V
<1>1. Replay(text, steps) = iter[1..n]
  <2> DEFINE G(f) == [s \in SUBSET DOMAIN steps |-> IF s = {} THEN base ELSE op(f[s \ {Max(s)}], Max(s))]
  <2>1. Replay(text, steps) = (CHOOSE f : f = G(f))[DOMAIN steps]
    BY DEF Replay, FoldLeft, MapThenFoldSet
  <2>2. DOMAIN steps = 1..n
    OBVIOUS
  <2> HIDE DEF op
  <2>4. ASSUME NEW f PROVE G(f) = F(f)
    <3> HIDE DEF n
    <3> QED BY <2>2
  <2> HIDE DEF G, F
  <2> QED BY <2>1, <2>2, <2>4
<1>2. n \in Nat /\ base \in V /\ \A i \in 1..n, v \in V : op(v, i) \in V /\ step[<<i, v>>] = op(v, i)
  <2>1. ASSUME NEW i \in 1..n, NEW v \in V PROVE op(v, i) \in V
    BY DEF ApplyStep
  <2>2. n \in Nat /\ base \in V
    OBVIOUS
  <2> HIDE DEF V, op
  <2>3. \A i \in 1..n, v \in V : step[<<i, v>>] = op(v, i)
    OBVIOUS
  <2> QED BY <2>1, <2>2, <2>3
<1> HIDE DEF n, V, op, base, step
<1>3. Turns(step, base, 1..n, it) /\ \A s \in SUBSET (1..n) : it[s] \in V
  <2>1. \E f : Turns(step, base, 1..n, f) /\ \A s \in SUBSET (1..n) : f[s] \in V
    BY <1>2, FoldExists
  <2> QED BY <2>1
<1> HIDE DEF it
<1>4. it = F(it)
  <2>1. ASSUME NEW s \in SUBSET (1..n), s # {} PROVE step[<<Max(s), it[s \ {Max(s)}]>>] = op(it[s \ {Max(s)}], Max(s))
    <3>1. Max(s) \in 1..n
      BY <1>2, <2>1, IndexMost
    <3> QED BY <1>2, <1>3, <3>1
  <2> QED BY <1>3, <2>1 DEF Turns
<1>5. iter = F(iter)
  BY <1>4
<1> HIDE DEF iter
<1>6. ASSUME NEW i \in 1..n PROVE iter[1..i] = op(iter[1..(i - 1)], i)
  <2>1. i \in Nat \ {0} /\ 1..i \in SUBSET (1..n)
    BY <1>2
  <2> QED BY <1>5, <2>1, LastOfPrefix
<1> DEFINE at == [i \in 0..n |-> iter[1..i]]
<1>7. at[0] = text
  <2>1. 1..0 = {}
    OBVIOUS
  <2>2. iter[{}] = base
    BY <1>5
  <2> QED BY <1>2, <2>1, <2>2 DEF base
<1>8. \A i \in 1..n : at[i] = op(at[i - 1], i)
  BY <1>2, <1>6
<1>9. Replay(text, steps) = at[n]
  BY <1>1, <1>2
<1> HIDE DEF at
<1> QED BY <1>7, <1>8, <1>9 DEF n, op, Replayable

-----------------------------------------------------------------------------
(* Replay of steps, ranges and joined texts *)

\* Without steps a replay is the text it began with.
LEMMA ReplayNone ==
  ASSUME NEW text
  PROVE  Replay(text, <<>>) = text
<1>1. <<>> \in Seq({}) /\ Len(<<>>) = 0
  OBVIOUS
<1>2. PICK at : Replayable(text, <<>>, at) /\ Replay(text, <<>>) = at[Len(<<>>)]
  BY <1>1, ReplaySteps
<1> QED BY <1>1, <1>2 DEF Replayable

\* A last step applies to what the others made, unless they were refused.
LEMMA ReplayAppend ==
  ASSUME NEW B, NEW steps \in Seq(B), NEW s \in B, NEW text
  PROVE  Replay(text, Append(steps, s))
           = IF Replay(text, steps) = Refused THEN Refused ELSE ApplyStep(Replay(text, steps), s)
<1> DEFINE n == Len(steps)
           more == Append(steps, s)
<1>1. more \in Seq(B) /\ Len(more) = n + 1 /\ n \in Nat /\ more[n + 1] = s /\ \A i \in 1..n : more[i] = steps[i]
  OBVIOUS
<1> HIDE DEF more
<1>2. PICK a : Replayable(text, steps, a) /\ Replay(text, steps) = a[n]
  BY ReplaySteps
<1>3. PICK b : Replayable(text, more, b) /\ Replay(text, more) = b[n + 1]
  BY <1>1, ReplaySteps
<1> HIDE DEF n
<1> DEFINE T == {i \in 0..n : a[i] = b[i]}
<1>4. 0 \in T
  BY <1>1, <1>2, <1>3 DEF Replayable
<1>5. ASSUME NEW i \in 1..n, (i - 1) \in T PROVE i \in T
  <2>1. i \in 1..Len(steps) /\ i \in 1..Len(more) /\ i \in 0..n
    BY <1>1 DEF n
  <2>2. a[i] = IF a[i - 1] = Refused THEN a[i - 1] ELSE ApplyStep(a[i - 1], steps[i])
    BY <1>2, <2>1 DEF Replayable
  <2>3. b[i] = IF b[i - 1] = Refused THEN b[i - 1] ELSE ApplyStep(b[i - 1], more[i])
    BY <1>3, <2>1 DEF Replayable
  <2>4. a[i - 1] = b[i - 1] /\ more[i] = steps[i]
    BY <1>1, <1>5
  <2> QED BY <2>1, <2>2, <2>3, <2>4
<1> HIDE DEF T
<1>6. n \in T
  <2>1. \A i \in 0..n : i \in T
    BY <1>1, <1>4, <1>5, Upward
  <2> QED BY <1>1, <2>1
<1>7. a[n] = b[n]
  BY <1>6 DEF T
<1>8. b[n + 1] = IF b[n] = Refused THEN b[n] ELSE ApplyStep(b[n], s)
  <2>1. (n + 1) \in 1..Len(more) /\ (n + 1) - 1 = n
    BY <1>1
  <2>2. b[n + 1] = IF b[(n + 1) - 1] = Refused THEN b[(n + 1) - 1] ELSE ApplyStep(b[(n + 1) - 1], more[n + 1])
    BY <1>3, <2>1 DEF Replayable
  <2> QED BY <1>1, <2>1, <2>2
<1> QED BY <1>2, <1>3, <1>7, <1>8 DEF more

\* A replay of one step is that step.
LEMMA ReplayOne ==
  ASSUME NEW text, text # Refused, NEW s
  PROVE  Replay(text, <<s>>) = ApplyStep(text, s)
<1>1. <<>> \in Seq({s}) /\ Append(<<>>, s) = <<s>>
  OBVIOUS
<1>2. Replay(text, Append(<<>>, s)) = IF Replay(text, <<>>) = Refused THEN Refused ELSE ApplyStep(Replay(text, <<>>), s)
  BY <1>1, ReplayAppend
<1> QED BY <1>1, <1>2, ReplayNone

\* The lesser of two numbers.
LEMMA PairMin ==
  ASSUME NEW a \in Int, NEW b \in Int
  PROVE  Min({a, b}) = IF a <= b THEN a ELSE b
BY DEF Min

\* A slice of a text is a text; inside the text it has the characters of its range.
LEMMA SliceOf ==
  ASSUME NEW C, NEW text \in Seq(C), NEW a \in Nat, NEW b \in Nat
  PROVE  /\ Slice(text, a, b) \in Seq(C)
         /\ a <= b /\ b <= Len(text) => Len(Slice(text, a, b)) = b - a /\ \A i \in 1..(b - a) : Slice(text, a, b)[i] = text[a + i]
<1>1. Min({b, Len(text)}) = IF b <= Len(text) THEN b ELSE Len(text)
  BY PairMin
<1>2. Slice(text, a, b) = SubSeq(text, a + 1, IF b <= Len(text) THEN b ELSE Len(text))
  BY <1>1 DEF Slice
<1> QED BY <1>2

\* The same for a range inside the text.
LEMMA SliceRange ==
  ASSUME NEW C, NEW text \in Seq(C), NEW a \in Nat, NEW b \in Nat, a <= b, b <= Len(text)
  PROVE  /\ Slice(text, a, b) \in Seq(C) /\ Len(Slice(text, a, b)) = b - a
         /\ \A i \in 1..(b - a) : Slice(text, a, b)[i] = text[a + i]
BY SliceOf

\* Joined texts are a text; one text joined is itself.
LEMMA JoinedOf ==
  ASSUME NEW C, NEW parts \in Seq(Seq(C)), NEW separator \in Seq(C)
  PROVE  /\ Joined(parts, separator) \in Seq(C)
         /\ Len(parts) = 1 => Joined(parts, separator) = parts[1]
<1> DEFINE all == [i \in DOMAIN parts |-> IF i = 1 THEN parts[i] ELSE separator \o parts[i]]
<1>1. all \in Seq(Seq(C)) /\ Len(all) = Len(parts) /\ Len(parts) \in Nat
  <2>1. \A i \in 1..Len(parts) : parts[i] \in Seq(C) /\ separator \o parts[i] \in Seq(C)
    OBVIOUS
  <2>2. \A i \in 1..Len(parts) : all[i] \in Seq(C)
    BY <2>1
  <2>3. all = [i \in 1..Len(parts) |-> all[i]] /\ Len(parts) \in Nat
    OBVIOUS
  <2> HIDE DEF all
  <2> QED BY <2>2, <2>3
<1>2. Joined(parts, separator) = Concat(all)
  BY DEF Joined
<1>3. Len(parts) = 1 => all[1] = parts[1]
  OBVIOUS
<1> HIDE DEF all
<1>4. PICK f : Concatenated(all, C, f) /\ Concat(all) = f[Len(all)]
  BY <1>1, ConcatSteps
<1>5. f[Len(all)] \in Seq(C)
  BY <1>1, <1>4 DEF Concatenated
<1>6. Len(parts) = 1 => f[1] = <<>> \o all[1]
  <2>1. \A i \in 1..Len(all) : f[i] = f[i - 1] \o all[i]
    BY <1>4 DEF Concatenated
  <2>2. f[0] = <<>> /\ 1 - 1 = 0
    BY <1>4 DEF Concatenated
  <2>3. ASSUME Len(parts) = 1 PROVE f[1] = <<>> \o all[1]
    <3>1. 1 \in 1..Len(all)
      BY <1>1, <2>3
    <3>2. f[1] = f[1 - 1] \o all[1]
      BY <2>1, <3>1
    <3> QED BY <2>2, <3>2
  <2> QED BY <2>3
<1>7. Len(parts) = 1 => <<>> \o all[1] = all[1]
  <2>1. ASSUME Len(parts) = 1 PROVE all[1] \in Seq(C)
    <3>1. 1 \in 1..Len(all)
      BY <1>1, <2>1
    <3> QED BY <1>1, <3>1
  <2> QED BY <2>1
<1> QED BY <1>1, <1>2, <1>3, <1>4, <1>5, <1>6, <1>7

-----------------------------------------------------------------------------
(* Evidence resolves to its text *)

\* No text is the mark of a refusal.
LEMMA NoText ==
  ASSUME NEW C, "EvidenceError" \notin C
  PROVE  \A s \in Seq(C) : s # Refused
<1> SUFFICES ASSUME NEW s \in Seq(C), s = Refused PROVE FALSE
  OBVIOUS
<1>1. Len(s) = 1 /\ s[1] = "EvidenceError"
  BY DEF Refused
<1>2. s[1] \in C
  BY <1>1
<1> QED BY <1>1, <1>2

\* Components of one region whose values are texts, joined, and perhaps cut.
Supported(C, stream, components, separator, values, tail, output) ==
  /\ "EvidenceError" \notin C /\ components \in Seq(ToSet(components)) /\ components # <<>> /\ separator \in Seq(C)
  /\ \A i, j \in DOMAIN components : components[i].range.region = components[j].range.region
  /\ \A i \in DOMAIN components :
       /\ Slice(stream, components[i].range.start, components[i].range.end) = components[i].range.digest
       /\ ComponentValue(stream, components[i]) \in Seq(C)
  /\ values = [i \in DOMAIN components |-> ComponentValue(stream, components[i])]
  /\ \/ tail = <<>> /\ output = Joined(values, separator)
     \/ \E a, b \in Nat : /\ a <= b /\ b <= Len(Joined(values, separator))
                          /\ tail = <<SliceStep(Joined(values, separator), a, b)>>
                          /\ output = Slice(Joined(values, separator), a, b)

\* Resolving the evidence finds its text: resolve_evidence refuses nothing on the way.
LEMMA ResolvesTo ==
  ASSUME NEW C, NEW stream, NEW components, NEW separator, NEW values, NEW tail, NEW output,
         Supported(C, stream, components, separator, values, tail, output)
  PROVE  Resolve(Evidence(components, IF Len(values) > 1 THEN JoinStep(values, separator) ELSE NoJoin, tail, output),
                 stream) = output
<1> USE DEF Supported
<1> DEFINE n == Len(components)
           join == IF Len(values) > 1 THEN JoinStep(values, separator) ELSE NoJoin
           whole == Joined(values, separator)
           e == Evidence(components, join, tail, output)
<1>1. n \in Nat \ {0} /\ DOMAIN components = 1..n
  OBVIOUS
<1>2. values \in Seq(Seq(C)) /\ Len(values) = n /\ DOMAIN values = 1..n
  <2>1. DOMAIN values = 1..n /\ \A i \in 1..n : values[i] \in Seq(C)
    BY <1>1
  <2>2. values = [i \in 1..n |-> values[i]]
    BY <1>1
  <2> QED BY <1>1, <2>1, <2>2
<1>3. whole \in Seq(C) /\ (n = 1 => whole = values[1])
  BY <1>2, JoinedOf
<1>4. \A s \in Seq(C) : s # Refused
  BY NoText
<1>5. Refused \notin ToSet(values)
  BY <1>2, <1>4 DEF ToSet
<1>6. e.components = components /\ e.join = join /\ e.tail = tail /\ e.output = output
  BY DEF Evidence
<1>7. (n = 1) = (join = NoJoin)
  <2>1. ASSUME n > 1 PROVE join # NoJoin
    <3>1. join.lengths = [i \in 1..n |-> Len(values[i])]
      BY <1>1, <1>2, <2>1 DEF JoinStep
    <3>2. NoJoin.lengths = <<>>
      BY DEF NoJoin
    <3>3. DOMAIN join.lengths = 1..n /\ 1 \in 1..n
      BY <2>1, <3>1
    <3> QED BY <3>2, <3>3
  <2> QED BY <1>1, <1>2, <2>1
<1>8. join # NoJoin => /\ join.lengths = [i \in DOMAIN values |-> Len(values[i])] /\ join.input = Concat(values)
                       /\ join.output = whole /\ join.separator = separator /\ Len(join.lengths) = n
  <2>1. [i \in 1..n |-> Len(values[i])] \in Seq(Nat) /\ Len([i \in 1..n |-> Len(values[i])]) = n
    BY <1>1, <1>2
  <2> QED BY <1>2, <2>1 DEF JoinStep
<1>9. WellFormed(e)
  <2>1. \A c, d \in ToSet(components) : c.range.region = d.range.region
    BY DEF ToSet
  <2> HIDE DEF e, join, n
  <2> QED BY <1>1, <1>6, <1>7, <1>8, <2>1 DEF WellFormed, n
<1> DEFINE found(i) == Slice(stream, e.components[i].range.start, e.components[i].range.end)
           again == [i \in DOMAIN e.components |-> IF found(i) = e.components[i].range.digest
                                                   THEN Replay(found(i), e.components[i].steps) ELSE Refused]
<1>10. again = values
  BY <1>6 DEF ComponentValue
<1> DEFINE made == CASE e.join = NoJoin -> again[1]
                     [] e.join # NoJoin ->
                          IF /\ e.join.lengths = [i \in DOMAIN again |-> Len(again[i])]
                             /\ e.join.input = Concat(again)
                             /\ e.join.output = Joined(again, e.join.separator)
                            THEN e.join.output ELSE Refused
<1>11. Resolve(e, stream) = IF WellFormed(e) /\ Refused \notin ToSet(again) /\ Replay(made, e.tail) = e.output
                              THEN Replay(made, e.tail) ELSE Refused
  <2> HIDE DEF e
  <2> QED BY DEF Resolve
<1> HIDE DEF again, e, join, whole
<1>12. made = whole
  BY <1>3, <1>6, <1>7, <1>8, <1>10 DEF whole
<1> HIDE DEF made
<1>13. Replay(whole, tail) = output
  <2>1. CASE tail = <<>> /\ output = whole
    BY <2>1, ReplayNone
  <2>2. ASSUME NEW a \in Nat, NEW b \in Nat, a <= b, b <= Len(whole), tail = <<SliceStep(whole, a, b)>>, output = Slice(whole, a, b)
        PROVE  Replay(whole, tail) = output
    <3>1. Replay(whole, tail) = ApplyStep(whole, SliceStep(whole, a, b))
      BY <1>3, <1>4, <2>2, ReplayOne
    <3>2. ApplyStep(whole, SliceStep(whole, a, b)) = Slice(whole, a, b)
      BY <2>2 DEF ApplyStep, SliceStep
    <3> QED BY <2>2, <3>1, <3>2
  <2> QED BY <2>1, <2>2 DEF whole
<1>14. Resolve(e, stream) = output
  BY <1>5, <1>6, <1>9, <1>10, <1>11, <1>12, <1>13
<1> QED BY <1>14 DEF e, join

\* The one edit of a script is applied as it stands.
LEMMA FoldRightOne ==
  ASSUME NEW e, NEW text
  PROVE  ApplyEdits(text, <<e>>) = Slice(text, 0, e.start) \o e.by \o Slice(text, e.end, Len(text))
<1> DEFINE op(x, t) == Slice(t, 0, x.start) \o x.by \o Slice(t, x.end, Len(t))
           seq == <<e>>
           G(f) == [s \in SUBSET DOMAIN seq |-> IF s = {} THEN text ELSE op(seq[Min(s)], f[s \ {Min(s)}])]
           iter == CHOOSE f : f = G(f)
           it == [s \in SUBSET {1} |-> IF s = {} THEN text ELSE op(e, text)]
<1>1. ApplyEdits(text, seq) = iter[DOMAIN seq]
  BY DEF ApplyEdits, FoldRight, MapThenFoldSet
<1>2. DOMAIN seq = {1} /\ seq[1] = e
  OBVIOUS
<1>3. \A s \in SUBSET {1} : s # {} => s = {1}
  OBVIOUS
<1>4. Min({1}) = 1
  BY DEF Min
<1>5. it = G(it)
  <2>1. it[{}] = text
    OBVIOUS
  <2> HIDE DEF op
  <2>2. \A s \in SUBSET {1} : s # {} => op(seq[Min(s)], it[s \ {Min(s)}]) = op(e, text)
    <3>1. {1} \ {1} = {}
      OBVIOUS
    <3> HIDE DEF it, seq
    <3> QED BY <1>2, <1>3, <1>4, <2>1, <3>1
  <2>3. G(it) = [s \in SUBSET {1} |-> IF s = {} THEN text ELSE op(e, text)]
    <3> HIDE DEF it, seq
    <3> QED BY <1>2, <2>2
  <2> QED BY <2>3
<1>6. iter = G(iter)
  <2> HIDE DEF it, G
  <2> QED BY <1>5
<1> HIDE DEF iter
<1>7. iter[{}] = text
  BY <1>6
<1>8. iter[{1}] = op(e, text)
  <2>1. {1} \in SUBSET DOMAIN seq /\ {1} # {} /\ {1} \ {1} = {}
    BY <1>2
  <2> HIDE DEF op
  <2>2. iter[{1}] = op(seq[Min({1})], iter[{1} \ {Min({1})}])
    BY <1>6, <2>1
  <2> QED BY <1>2, <1>4, <1>7, <2>1, <2>2
<1> QED BY <1>1, <1>2, <1>8

\* The greatest of the numbers up to n that are in a set.
LEMMA MostOf ==
  ASSUME NEW n \in Nat, NEW S \in SUBSET (0..n), S # {}
  PROVE  Max(S) \in S /\ \A y \in S : y <= Max(S)
<1>1. S \in SUBSET Nat /\ IsFiniteSet(S)
  <2>1. IsFiniteSet(0..n)
    BY FS_Interval
  <2>2. IsFiniteSet(S)
    BY <2>1, FS_Subset
  <2> QED BY <2>2
<1> QED BY <1>1, Most

\* The script of difflib leads from the one text to the other.
LEMMA DiffLeads ==
  ASSUME NEW C, NEW before \in Seq(C), NEW after \in Seq(C), before # after
  PROVE  \E e : /\ DiffEdits(before, after) = <<e>> /\ ApplyEdits(before, <<e>>) = after
                /\ e.start \in Nat /\ e.end \in Nat /\ e.start <= e.end /\ e.end <= Len(before)
                /\ Slice(before, e.start, e.end) = e.expected
<1> DEFINE same(n) == \A i \in 1..n : before[i] = after[i]
           shorter == Min({Len(before), Len(after)})
           Heads == {n \in 0..shorter : same(n)}
           head == Max(Heads)
           Tails == {n \in 0..(shorter - head) :
                       \A i \in 0..(n - 1) : before[Len(before) - i] = after[Len(after) - i]}
           tail == Max(Tails)
           e == [start |-> head, end |-> Len(before) - tail,
                 expected |-> Slice(before, head, Len(before) - tail),
                 by |-> Slice(after, head, Len(after) - tail)]
<1>1. DiffEdits(before, after) = <<e>>
  BY DEF DiffEdits
<1>2. shorter \in Nat /\ shorter <= Len(before) /\ shorter <= Len(after) /\ Len(before) \in Nat /\ Len(after) \in Nat
  BY PairMin
<1> HIDE DEF shorter
<1>3. head \in Heads
  <2>1. Heads \in SUBSET (0..shorter) /\ 0 \in Heads
    BY <1>2
  <2> HIDE DEF Heads
  <2> QED BY <1>2, <2>1, MostOf
<1>4. head \in 0..shorter /\ \A i \in 1..head : before[i] = after[i]
  BY <1>3
<1> HIDE DEF head
<1>5. tail \in Tails
  <2>1. Tails \in SUBSET (0..(shorter - head)) /\ 0 \in Tails /\ shorter - head \in Nat
    BY <1>2, <1>4
  <2> HIDE DEF Tails
  <2> QED BY <2>1, MostOf
<1>6. tail \in 0..(shorter - head) /\ \A i \in 0..(tail - 1) : before[Len(before) - i] = after[Len(after) - i]
  BY <1>5
<1> HIDE DEF tail
<1>7. e.start = head /\ e.end = Len(before) - tail /\ e.expected = Slice(before, head, Len(before) - tail)
      /\ e.by = Slice(after, head, Len(after) - tail)
  OBVIOUS
<1> HIDE DEF e
<1>8. /\ head \in Nat /\ tail \in Nat /\ Len(before) - tail \in Nat /\ Len(after) - tail \in Nat
      /\ head <= Len(before) - tail /\ head <= Len(after) - tail
  BY <1>2, <1>4, <1>6
<1> DEFINE a == Slice(before, 0, head)
           b == Slice(after, head, Len(after) - tail)
           c == Slice(before, Len(before) - tail, Len(before))
<1> DEFINE p == Len(after) - tail
           q == Len(before) - tail
           l == Len(before)
<1>9. /\ a \in Seq(C) /\ Len(a) = head /\ \A i \in 1..head : a[i] = before[i]
      /\ b \in Seq(C) /\ Len(b) = p - head /\ \A i \in 1..(p - head) : b[i] = after[head + i]
      /\ c \in Seq(C) /\ Len(c) = tail /\ \A i \in 1..tail : c[i] = before[q + i]
  <2>0. 0 \in Nat /\ head \in Nat /\ p \in Nat /\ q \in Nat /\ l \in Nat /\ 0 <= head /\ head <= Len(before)
        /\ head <= p /\ p <= Len(after) /\ q <= l /\ l <= Len(before) /\ l - q = tail
    BY <1>2, <1>8
  <2> HIDE DEF p, q, l
  <2>1. Slice(before, 0, head) \in Seq(C) /\ Len(Slice(before, 0, head)) = head - 0
        /\ \A i \in 1..(head - 0) : Slice(before, 0, head)[i] = before[0 + i]
    BY <2>0, SliceRange
  <2>2. Slice(after, head, p) \in Seq(C) /\ Len(Slice(after, head, p)) = p - head
        /\ \A i \in 1..(p - head) : Slice(after, head, p)[i] = after[head + i]
    BY <2>0, SliceRange
  <2>3. Slice(before, q, l) \in Seq(C) /\ Len(Slice(before, q, l)) = l - q
        /\ \A i \in 1..(l - q) : Slice(before, q, l)[i] = before[q + i]
    BY <2>0, SliceRange
  <2>4. a = Slice(before, 0, head) /\ b = Slice(after, head, p) /\ c = Slice(before, q, l)
    BY DEF p, q, l
  <2> HIDE DEF a, b, c
  <2>5. \A i \in 1..head : 0 + i = i
    OBVIOUS
  <2>6. head - 0 = head
    BY <2>0
  <2> QED BY <2>0, <2>1, <2>2, <2>3, <2>4, <2>5, <2>6
<1>90. /\ p \in Nat /\ q \in Nat /\ head <= p /\ p = Len(after) - tail /\ q = Len(before) - tail
  BY <1>8
<1> HIDE DEF a, b, c, p, q, l
<1>10. a \o b \o c = after
  <2>1. a \o b \o c \in Seq(C) /\ Len(a \o b \o c) = Len(after)
    BY <1>2, <1>8, <1>9, <1>90
  <2>2. ASSUME NEW i \in 1..Len(after) PROVE (a \o b \o c)[i] = after[i]
    <3>0. /\ i \in Nat /\ head \in Nat /\ p \in Nat /\ tail \in Nat /\ Len(after) = p + tail /\ Len(a) = head
          /\ Len(b) = p - head /\ Len(c) = tail /\ head <= p /\ Len(a \o b) = p
      BY <1>2, <1>8, <1>9, <1>90
    <3>1. CASE i <= head
      <4>1. i \in 1..head
        BY <3>1
      <4>2. (a \o b \o c)[i] = a[i]
        BY <1>9, <3>0, <4>1
      <4> QED BY <1>4, <1>9, <4>1, <4>2
    <3>2. CASE i > head /\ i <= p
      <4>1. i - head \in 1..(p - head) /\ head + (i - head) = i
        BY <3>0, <3>2
      <4>2. (a \o b \o c)[i] = b[i - head]
        BY <1>9, <3>0, <3>2
      <4> QED BY <1>9, <4>1, <4>2
    <3>3. CASE i > p
      <4> DEFINE k == i - p
                 m == Len(after) - i
      <4>1. k \in 1..tail /\ m \in 0..(tail - 1) /\ q + k = Len(before) - m /\ Len(after) - m = i
        BY <1>2, <1>8, <1>90, <3>0, <3>3
      <4>2. (a \o b \o c)[i] = c[k]
        <5>1. /\ a \o b \in Seq(C) /\ c \in Seq(C) /\ Len(a \o b) = p /\ Len(c) = tail
              /\ p \in Nat /\ tail \in Nat /\ i \in (p + 1)..(p + tail)
          BY <1>9, <3>0, <3>3
        <5> HIDE DEF k
        <5>2. ((a \o b) \o c)[i] = c[i - p]
          BY <5>1
        <5>3. k = i - p
          BY DEF k
        <5> QED BY <5>2, <5>3
      <4> HIDE DEF k, m
      <4>3. c[k] = before[Len(before) - m] /\ before[Len(before) - m] = after[Len(after) - m]
        BY <1>6, <1>9, <4>1
      <4> QED BY <4>1, <4>2, <4>3
    <3> QED BY <3>0, <3>1, <3>2, <3>3
  <2> HIDE DEF p
  <2>3. a \o b \o c = [i \in 1..Len(after) |-> (a \o b \o c)[i]]
    <3> DEFINE x == a \o b \o c
    <3>1. x \in Seq(C) /\ Len(x) = Len(after)
      BY <2>1
    <3> HIDE DEF x
    <3>2. x = [i \in 1..Len(after) |-> x[i]]
      BY <3>1
    <3> QED BY <3>2 DEF x
  <2>4. after = [i \in 1..Len(after) |-> after[i]]
    OBVIOUS
  <2> QED BY <2>2, <2>3, <2>4
<1>11. ApplyEdits(before, <<e>>) = a \o b \o c
  BY <1>7, FoldRightOne DEF a, b, c
<1>12. Slice(before, e.start, e.end) = e.expected
  BY <1>7
<1>13. e.start \in Nat /\ e.end \in Nat /\ e.start <= e.end /\ e.end <= Len(before)
  BY <1>2, <1>7, <1>8
<1> QED BY <1>1, <1>10, <1>11, <1>12, <1>13

-----------------------------------------------------------------------------
(* Blocks and groups of blocks *)

\* A block has the text that its derivation makes of its range of the stream.
LEMMA BlockValue ==
  ASSUME NEW C, NEW stream, NEW blocks, Chunkable(stream, blocks, C), NEW b \in ToSet(blocks)
  PROVE  LET c == Component(stream, BlockDerivations(stream, blocks), b)
         IN  /\ c.range = SourceRange(stream, b) /\ c.range.region = b.region
             /\ Slice(stream, c.range.start, c.range.end) = c.range.digest
             /\ ComponentValue(stream, c) = BlockText(b) /\ BlockText(b) \in Seq(C)
             /\ c.steps = <<>> \/ \E s : c.steps = <<s>>
<1> DEFINE c == Component(stream, BlockDerivations(stream, blocks), b)
           original == Slice(stream, b.start, b.end)
           edits == DiffEdits(original, BlockText(b))
           chosen == CHOOSE x \in ToSet(blocks) : x.index = b.index
<1>1. /\ stream \in Seq(C) /\ "EvidenceError" \notin C /\ blocks \in Seq(ToSet(blocks))
      /\ BlockText(b) \in Seq(C) /\ b.start \in Nat /\ b.end \in Nat /\ b.start <= b.end /\ b.end <= Len(stream)
      /\ \A i, j \in DOMAIN blocks : blocks[i].index = blocks[j].index => i = j
  <2>1. b.start \in Nat /\ b.end \in b.start..Len(stream) /\ Len(stream) \in Nat
    <3>1. b.start \in Nat /\ b.end \in b.start..Len(stream)
      BY DEF Chunkable
    <3>2. stream \in Seq(C)
      BY DEF Chunkable
    <3> QED BY <3>1, <3>2
  <2>2. b.end \in Nat /\ b.start <= b.end /\ b.end <= Len(stream)
    BY <2>1
  <2> QED BY <2>1, <2>2 DEF Chunkable
<1>2. \A x \in ToSet(blocks) : x.index = b.index => x = b
  BY <1>1 DEF ToSet
<1>3. chosen = b
  <2>1. chosen \in ToSet(blocks) /\ chosen.index = b.index
    OBVIOUS
  <2> HIDE DEF chosen
  <2> QED BY <1>2, <2>1
<1>4. BlockDerivations(stream, blocks)[b.index] = IF edits = <<>> THEN <<>> ELSE <<EditsStep(original, edits)>>
  <2>1. b.index \in {x.index : x \in ToSet(blocks)}
    OBVIOUS
  <2>2. BlockDerivations(stream, blocks)[b.index]
          = LET o == Slice(stream, chosen.start, chosen.end)
                e == DiffEdits(o, BlockText(chosen))
            IN  IF e = <<>> THEN <<>> ELSE <<EditsStep(o, e)>>
    BY <2>1 DEF BlockDerivations
  <2> HIDE DEF chosen
  <2> QED BY <1>3, <2>2
<1>5. c.range = SourceRange(stream, b) /\ c.steps = IF edits = <<>> THEN <<>> ELSE <<EditsStep(original, edits)>>
  BY <1>4 DEF Component
<1>6. /\ c.range.start = b.start /\ c.range.end = b.end /\ c.range.region = b.region /\ c.range.digest = original
      /\ Slice(stream, c.range.start, c.range.end) = original
  BY <1>5 DEF SourceRange
<1> HIDE DEF c
<1>7. original \in Seq(C) /\ original # Refused /\ BlockText(b) # Refused
  <2>1. original \in Seq(C)
    BY <1>1, SliceRange
  <2> HIDE DEF original
  <2> QED BY <1>1, <2>1, NoText
<1>8. ComponentValue(stream, c) = Replay(original, c.steps)
  BY <1>6 DEF ComponentValue
<1> HIDE DEF original, edits
<1>9. CASE original = BlockText(b)
  <2>1. edits = <<>>
    BY <1>9 DEF DiffEdits, edits
  <2>2. c.steps = <<>>
    BY <1>5, <2>1
  <2> QED BY <1>1, <1>5, <1>6, <1>8, <1>9, <2>2, ReplayNone DEF c, original
<1>10. CASE original # BlockText(b)
  <2>1. PICK e : /\ edits = <<e>> /\ ApplyEdits(original, <<e>>) = BlockText(b)
                 /\ e.start \in Nat /\ e.end \in Nat /\ e.start <= e.end /\ e.end <= Len(original)
                 /\ Slice(original, e.start, e.end) = e.expected
    BY <1>1, <1>7, <1>10, DiffLeads DEF edits
  <2>2. c.steps = <<EditsStep(original, edits)>>
    <3>1. <<e>> # <<>>
      OBVIOUS
    <3> QED BY <1>5, <2>1, <3>1
  <2> DEFINE s == EditsStep(original, edits)
  <2>3. s.kind = "edits" /\ s.input = original /\ s.output = BlockText(b) /\ s.edits = <<e>>
    BY <2>1 DEF EditsStep
  <2>4. EditsApply(original, <<e>>) /\ ExpectedFound(original, <<e>>)
    BY <2>1 DEF EditsApply, ExpectedFound
  <2> HIDE DEF s
  <2>5. ApplyStep(original, s) = BlockText(b)
    BY <2>1, <2>3, <2>4 DEF ApplyStep
  <2>6. Replay(original, <<s>>) = ApplyStep(original, s)
    BY <1>7, ReplayOne
  <2>7. ComponentValue(stream, c) = BlockText(b)
    BY <1>8, <2>2, <2>5, <2>6 DEF s
  <2> QED BY <1>1, <1>5, <1>6, <2>2, <2>7 DEF c, original
<1> QED BY <1>9, <1>10

\* The evidence proves the text from the stream.
Proves(stream, e, text) ==
  /\ Resolve(e, stream) = text /\ e.output = text
  /\ Slice(stream, e.components[1].range.start, e.components[1].range.end) = e.components[1].range.digest

\* Whole blocks of a region, or a window of them, prove their text.
LEMMA BlocksProve ==
  ASSUME NEW C, NEW stream, NEW blocks, Chunkable(stream, blocks, C), NEW region,
         NEW group \in Seq({b \in ToSet(blocks) : b.region = region}), group # <<>>,
         NEW window,
         \/ window = <<>>
         \/ \E a, b \in Nat : window = <<a, b>> /\ a <= b /\ b <= Len(Flatten(group))
  PROVE  Proves(stream, BlockEvidence(stream, BlockDerivations(stream, blocks), group, window),
                IF window = <<>> THEN Flatten(group) ELSE Slice(Flatten(group), window[1], window[2]))
<1> DEFINE D == BlockDerivations(stream, blocks)
           n == Len(group)
           components == [i \in DOMAIN group |-> Component(stream, D, group[i])]
           values == [i \in DOMAIN group |-> ComponentValue(stream, components[i])]
           joined == Joined(values, BlockBreak)
           tail == IF window = <<>> THEN <<>> ELSE <<SliceStep(joined, window[1], window[2])>>
           output == IF window = <<>> THEN joined ELSE Slice(joined, window[1], window[2])
           e == BlockEvidence(stream, D, group, window)
<1>1. n \in Nat \ {0} /\ DOMAIN group = 1..n /\ \A i \in 1..n : group[i] \in ToSet(blocks) /\ group[i].region = region
  OBVIOUS
<1>2. \A i \in 1..n : LET c == components[i]
                      IN  /\ c.range.region = region
                          /\ Slice(stream, c.range.start, c.range.end) = c.range.digest
                          /\ ComponentValue(stream, c) = BlockText(group[i]) /\ BlockText(group[i]) \in Seq(C)
  <2> SUFFICES ASSUME NEW i \in 1..n
               PROVE  LET c == components[i]
                      IN  /\ c.range.region = region
                          /\ Slice(stream, c.range.start, c.range.end) = c.range.digest
                          /\ ComponentValue(stream, c) = BlockText(group[i]) /\ BlockText(group[i]) \in Seq(C)
    OBVIOUS
  <2>1. components[i] = Component(stream, D, group[i]) /\ group[i] \in ToSet(blocks) /\ group[i].region = region
    BY <1>1
  <2> HIDE DEF components
  <2> QED BY <2>1, BlockValue
<1>3. components \in Seq({components[i] : i \in 1..n}) /\ components # <<>> /\ DOMAIN components = 1..n
  BY <1>1
<1>4. e = Evidence(components, IF Len(values) > 1 THEN JoinStep(values, BlockBreak) ELSE NoJoin, tail, output)
  BY DEF BlockEvidence
<1> HIDE DEF components, e
<1>5. values = [i \in DOMAIN components |-> ComponentValue(stream, components[i])] /\ values = Texts(group)
  BY <1>1, <1>2, <1>3 DEF Texts
<1>6. joined = Flatten(group)
  BY <1>5 DEF Flatten
<1>7. BlockBreak \in Seq(C) /\ "EvidenceError" \notin C
  <2>1. "nl" \in C /\ "EvidenceError" \notin C
    BY DEF Chunkable
  <2> QED BY <2>1 DEF BlockBreak
<1> HIDE DEF values, D
<1>8. \/ tail = <<>> /\ output = joined
      \/ \E a, b \in Nat : a <= b /\ b <= Len(joined) /\ tail = <<SliceStep(joined, a, b)>> /\ output = Slice(joined, a, b)
  <2>1. CASE window = <<>>
    BY <2>1
  <2>2. ASSUME NEW a \in Nat, NEW b \in Nat, window = <<a, b>>, a <= b, b <= Len(Flatten(group))
        PROVE  a <= b /\ b <= Len(joined) /\ tail = <<SliceStep(joined, a, b)>> /\ output = Slice(joined, a, b)
    BY <1>6, <2>2
  <2> QED BY <2>1, <2>2
<1> HIDE DEF tail, output
<1>9. \A i, j \in DOMAIN components : components[i].range.region = components[j].range.region
  BY <1>2, <1>3
<1>10. \A i \in DOMAIN components :
           /\ Slice(stream, components[i].range.start, components[i].range.end) = components[i].range.digest
           /\ ComponentValue(stream, components[i]) \in Seq(C)
  BY <1>2, <1>3
<1>11. Resolve(e, stream) = output
  <2>1. components \in Seq(ToSet(components))
    BY <1>3 DEF ToSet
  <2>2. Supported(C, stream, components, BlockBreak, values, tail, output)
    BY <1>3, <1>5, <1>7, <1>8, <1>9, <1>10, <2>1 DEF Supported
  <2> QED BY <1>4, <2>2, ResolvesTo
<1>12. e.output = output /\ e.components = components
  BY <1>4 DEF Evidence
<1>13. Slice(stream, components[1].range.start, components[1].range.end) = components[1].range.digest
  BY <1>1, <1>2
<1>14. output = IF window = <<>> THEN Flatten(group) ELSE Slice(Flatten(group), window[1], window[2])
  BY <1>6 DEF output
<1> QED BY <1>11, <1>12, <1>13, <1>14 DEF Proves, e, D

\* What a chunk has to be: its text follows from its evidence, and an exact span is where it stands.
Holds(stream, c) ==
  Resolve(c.evidence, stream) = c.text /\ (c.span # <<>> => Slice(stream, c.span[1], c.span[2]) = c.text)

\* make_chunk with evidence that proves its text makes such a chunk.
LEMMA ChunkHolds ==
  ASSUME NEW stream, NEW e, NEW text, NEW sequence, NEW blocks, NEW heading, Proves(stream, e, text)
  PROVE  Holds(stream, Chunk(sequence, blocks, text, heading, e))
<1> DEFINE c == Chunk(sequence, blocks, text, heading, e)
<1>1. c.evidence = e /\ c.text = text /\ c.span = ExactSpan(e)
  BY DEF Chunk
<1>2. ExactSpan(e) # <<>> =>
        /\ ExactSpan(e) = <<e.components[1].range.start, e.components[1].range.end>>
        /\ e.components[1].range.digest = text
  BY DEF ExactSpan, Proves
<1> HIDE DEF c
<1>3. c.span # <<>> => c.span[1] = e.components[1].range.start /\ c.span[2] = e.components[1].range.end
  BY <1>1, <1>2
<1> QED BY <1>1, <1>2, <1>3 DEF Holds, Proves, c

\* All chunks are what a chunk has to be.
AllHold(stream, chunks) == chunks \in Seq({c \in ToSet(chunks) : Holds(stream, c)})

\* A region has those of the blocks that are in it.
LEMMA RegionOf ==
  ASSUME NEW B, NEW blocks \in Seq(B), NEW region
  PROVE  Region(blocks, region) \in Seq({b \in ToSet(blocks) : b.region = region})
<1> DEFINE P == {i \in DOMAIN blocks : blocks[i].region = region}
           X == {blocks[i] : i \in P \cap DOMAIN blocks}
<1>1. Region(blocks, region) \in Seq(X)
  BY ThoseOf DEF Region
<1>2. X \subseteq {b \in ToSet(blocks) : b.region = region}
  BY DEF ToSet
<1> HIDE DEF X
<1> QED BY <1>1, <1>2

\* No blocks make no text.
LEMMA FlattenNone == Flatten(<<>>) = <<>>
<1>1. Concat(<<>>) = <<>>
  <2>1. <<>> \o <<>> = <<>> /\ Len(<<>>) = 0
    OBVIOUS
  <2> QED BY <2>1 DEF Concat, FlattenSeq
<1>2. Texts(<<>>) = <<>>
  BY DEF Texts
<1> QED BY <1>1, <1>2 DEF Flatten, Joined

\* Every group that is kept has a block.
LEMMA GroupsOf ==
  ASSUME NEW B, NEW blocks \in Seq(B), NEW size
  PROVE  Groups(blocks, size) \in Seq(Seq(B) \ {<<>>})
<1> DEFINE gathered == Gathered(blocks, size)
           P == {n \in DOMAIN gathered : Flatten(gathered[n]) # <<>>}
           X == {gathered[n] : n \in P \cap DOMAIN gathered}
<1>1. gathered \in Seq(Seq(B))
  BY GatheredOf
<1>2. Groups(blocks, size) = Those(gathered, P)
  BY DEF Groups
<1> HIDE DEF gathered
<1>3. Those(gathered, P) \in Seq(X)
  BY <1>1, ThoseOf
<1>4. X \subseteq Seq(B) \ {<<>>}
  BY <1>1, FlattenNone
<1> HIDE DEF X, P
<1> QED BY <1>2, <1>3, <1>4

\* The chunks of groups of blocks of a region.
LEMMA GroupsHold ==
  ASSUME NEW C, NEW stream, NEW blocks, Chunkable(stream, blocks, C), NEW region, NEW within,
         NEW groups \in Seq(Seq({b \in ToSet(blocks) : b.region = region}) \ {<<>>})
  PROVE  AllHold(stream, GroupChunks(stream, BlockDerivations(stream, blocks), within, groups))
<1> DEFINE D == BlockDerivations(stream, blocks)
           made == GroupChunks(stream, D, within, groups)
           e(n) == BlockEvidence(stream, D, groups[n], <<>>)
           heading(n) == PathOf(within, groups[n][1].index)
<1>1. /\ DOMAIN made = 1..Len(groups) /\ Len(groups) \in Nat /\ made = [n \in 1..Len(groups) |-> made[n]]
      /\ \A n \in 1..Len(groups) : made[n] = Chunk(n, groups[n], Flatten(groups[n]), heading(n), e(n))
  BY DEF GroupChunks
<1> HIDE DEF made, heading
<1>2. ASSUME NEW n \in 1..Len(groups) PROVE Holds(stream, made[n])
  <2>1. groups[n] \in Seq({b \in ToSet(blocks) : b.region = region}) /\ groups[n] # <<>>
    OBVIOUS
  <2>2. Proves(stream, e(n), Flatten(groups[n]))
    BY <2>1, BlocksProve
  <2> HIDE DEF e
  <2> QED BY <1>1, <2>2, ChunkHolds
<1>3. \A n \in 1..Len(groups) : made[n] \in {c \in ToSet(made) : Holds(stream, c)}
  BY <1>1, <1>2 DEF ToSet
<1> QED BY <1>1, <1>3 DEF AllHold, made

\* chunk_paragraph: its groups are blocks of the region.
LEMMA ParagraphsHold ==
  ASSUME NEW C, NEW stream, NEW blocks, Chunkable(stream, blocks, C), NEW region, NEW settings
  PROVE  AllHold(stream, ParagraphChunks(stream, BlockDerivations(stream, blocks), Region(blocks, region), settings))
<1> DEFINE B == {b \in ToSet(blocks) : b.region = region}
           within == Region(blocks, region)
<1>1. within \in Seq(B)
  BY RegionOf DEF Chunkable
<1> HIDE DEF within
<1>2. Groups(within, settings.size) \in Seq(Seq(B) \ {<<>>})
  BY <1>1, GroupsOf
<1> QED BY <1>2, GroupsHold DEF ParagraphChunks, within

\* chunk_structure: its sections are blocks of the region.
LEMMA StructuresHold ==
  ASSUME NEW C, NEW stream, NEW blocks, Chunkable(stream, blocks, C), NEW region, NEW settings
  PROVE  AllHold(stream, StructureChunks(stream, BlockDerivations(stream, blocks), Region(blocks, region), settings))
<1> DEFINE B == {b \in ToSet(blocks) : b.region = region}
           within == Region(blocks, region)
           sections == Sections(within)
           parts == [s \in DOMAIN sections |-> Groups(sections[s], settings.size)]
           groups == Concat(parts)
<1>1. within \in Seq(B)
  BY RegionOf DEF Chunkable
<1> HIDE DEF within
<1>2. sections \in Seq(Seq(B))
  BY <1>1, SectionsOf
<1>3. StructureChunks(stream, BlockDerivations(stream, blocks), within, settings)
        = GroupChunks(stream, BlockDerivations(stream, blocks), within, groups)
  BY DEF StructureChunks
<1> HIDE DEF sections
<1>4. parts \in Seq(Seq(Seq(B) \ {<<>>}))
  <2>1. DOMAIN sections = 1..Len(sections) /\ Len(sections) \in Nat /\ \A s \in DOMAIN sections : sections[s] \in Seq(B)
    BY <1>2
  <2>2. \A s \in DOMAIN sections : Groups(sections[s], settings.size) \in Seq(Seq(B) \ {<<>>})
    BY <2>1, GroupsOf
  <2> QED BY <2>1, <2>2
<1> HIDE DEF parts
<1>5. groups \in Seq(Seq(B) \ {<<>>})
  <2> DEFINE S == Seq(B) \ {<<>>}
  <2> HIDE DEF S
  <2>1. parts \in Seq(Seq(S))
    BY <1>4 DEF S
  <2>2. PICK f : Concatenated(parts, S, f) /\ Concat(parts) = f[Len(parts)]
    BY <2>1, ConcatSteps
  <2>3. f[Len(parts)] \in Seq(S)
    BY <2>1, <2>2 DEF Concatenated
  <2> QED BY <2>2, <2>3 DEF S
<1> HIDE DEF groups
<1> QED BY <1>3, <1>5, GroupsHold DEF within

-----------------------------------------------------------------------------
(* Sentences *)

\* The ranges of a text.
Spans(text) == {s \in [start : Nat, end : Nat] : s.start <= s.end /\ s.end <= Len(text)}

\* What is left of a range without its blanks is a range of the text.
LEMMA TrimOf ==
  ASSUME NEW C, NEW text \in Seq(C), NEW span \in [start : Nat, end : 0..Len(text)]
  PROVE  TrimSpan(text, span) \in Seq(Spans(text))
<1> DEFINE ink == {j \in (span.start + 1)..span.end : ~Blank(text[j])}
           s == [start |-> Min(ink) - 1, end |-> Max(ink)]
<1>1. TrimSpan(text, span) = IF ink = {} THEN <<>> ELSE <<s>>
  BY DEF TrimSpan
<1>2. span.start \in Nat /\ span.end \in Nat /\ span.end <= Len(text) /\ Len(text) \in Nat
  OBVIOUS
<1>3. ink \in SUBSET (0..Len(text)) /\ ink \in SUBSET Nat /\ \A j \in ink : j >= 1
  BY <1>2
<1>4. ASSUME ink # {} PROVE s \in Spans(text)
  <2> HIDE DEF ink
  <2>1. Min(ink) \in ink
    BY <1>3, <1>4, LeastOf
  <2>2. Max(ink) \in ink /\ \A y \in ink : y <= Max(ink)
    BY <1>2, <1>3, <1>4, MostOf
  <2>3. Min(ink) - 1 \in Nat /\ Max(ink) \in Nat /\ Min(ink) - 1 <= Max(ink) /\ Max(ink) <= Len(text)
    <3>1. Min(ink) \in Nat /\ Min(ink) >= 1 /\ Max(ink) \in 0..Len(text) /\ Min(ink) <= Max(ink)
      BY <1>3, <2>1, <2>2
    <3> QED BY <1>2, <3>1
  <2> QED BY <2>3 DEF Spans
<1> HIDE DEF ink, s
<1> QED BY <1>1, <1>4

\* The sentences of a text are ranges of it.
LEMMA SpansOf ==
  ASSUME NEW C, NEW text \in Seq(C)
  PROVE  SentenceSpans(text) \in Seq(Spans(text))
<1> DEFINE cut == SentenceCuts(text)
           spans == Append(cut.spans, [start |-> cut.start, end |-> Len(text)])
           parts == [n \in DOMAIN spans |-> TrimSpan(text, spans[n])]
           A == [start : Nat, end : 0..Len(text)]
           S == Spans(text)
<1>1. cut.start \in Nat /\ cut.spans \in Seq(A)
  <2>1. cut \in [start : Nat, spans : Seq(A)]
    BY CutsOf
  <2> HIDE DEF cut
  <2> QED BY <2>1
<1>2. SentenceSpans(text) = Concat(parts)
  BY DEF SentenceSpans
<1> HIDE DEF cut
<1>3. spans \in Seq(A)
  <2>1. [start |-> cut.start, end |-> Len(text)] \in A
    BY <1>1
  <2> HIDE DEF A
  <2> QED BY <1>1, <2>1
<1> HIDE DEF spans
<1>4. parts \in Seq(Seq(S))
  <2>1. DOMAIN spans = 1..Len(spans) /\ Len(spans) \in Nat /\ \A n \in DOMAIN spans : spans[n] \in A
    <3> HIDE DEF A
    <3> QED BY <1>3
  <2>2. \A n \in DOMAIN spans : TrimSpan(text, spans[n]) \in Seq(S)
    BY <2>1, TrimOf
  <2> HIDE DEF S
  <2> QED BY <2>1, <2>2
<1> HIDE DEF parts, S
<1>5. PICK f : Concatenated(parts, S, f) /\ Concat(parts) = f[Len(parts)]
  BY <1>4, ConcatSteps
<1>6. f[Len(parts)] \in Seq(S)
  BY <1>4, <1>5 DEF Concatenated
<1> QED BY <1>2, <1>5, <1>6 DEF S

\* A sentence of one of the blocks.
Sentenced(B) ==
  {s \in [block : B, span : [start : Nat, end : Nat], text : {Slice(BlockText(b), i, j) : b \in B, i \in Nat, j \in Nat}] :
     s.span \in Spans(BlockText(s.block)) /\ s.text = Slice(BlockText(s.block), s.span.start, s.span.end)}

\* Every sentence is a range of one of the blocks.
LEMMA SentencesOf ==
  ASSUME NEW C, NEW B, NEW blocks \in Seq(B), \A b \in B : BlockText(b) \in Seq(C)
  PROVE  Sentences(blocks) \in Seq(Sentenced(B))
<1> DEFINE spans(i) == SentenceSpans(BlockText(blocks[i]))
           one(i, n) == [block |-> blocks[i], span |-> spans(i)[n],
                         text |-> Slice(BlockText(blocks[i]), spans(i)[n].start, spans(i)[n].end)]
           parts == [i \in DOMAIN blocks |-> [n \in DOMAIN spans(i) |-> one(i, n)]]
           S == Sentenced(B)
<1>1. Sentences(blocks) = Concat(parts)
  BY DEF Sentences
<1>2. DOMAIN blocks = 1..Len(blocks) /\ Len(blocks) \in Nat /\ \A i \in DOMAIN blocks : blocks[i] \in B
  OBVIOUS
<1>3. ASSUME NEW i \in DOMAIN blocks PROVE [n \in DOMAIN spans(i) |-> one(i, n)] \in Seq(S)
  <2>1. spans(i) \in Seq(Spans(BlockText(blocks[i])))
    BY <1>2, SpansOf
  <2> HIDE DEF spans
  <2>2. DOMAIN spans(i) = 1..Len(spans(i)) /\ Len(spans(i)) \in Nat
        /\ \A n \in DOMAIN spans(i) : spans(i)[n] \in Spans(BlockText(blocks[i]))
    BY <2>1
  <2>3. ASSUME NEW n \in DOMAIN spans(i) PROVE one(i, n) \in S
    <3>1. spans(i)[n] \in Spans(BlockText(blocks[i])) /\ blocks[i] \in B
      BY <1>2, <2>2
    <3>2. spans(i)[n] \in [start : Nat, end : Nat]
      BY <3>1 DEF Spans
    <3> QED BY <3>1, <3>2 DEF Sentenced
  <2> HIDE DEF S, one
  <2> QED BY <2>2, <2>3
<1>4. parts \in Seq(Seq(S))
  <2> HIDE DEF S, one, spans
  <2> QED BY <1>2, <1>3
<1> HIDE DEF parts, S
<1>5. PICK f : Concatenated(parts, S, f) /\ Concat(parts) = f[Len(parts)]
  BY <1>4, ConcatSteps
<1>6. f[Len(parts)] \in Seq(S)
  BY <1>4, <1>5 DEF Concatenated
<1> QED BY <1>1, <1>5, <1>6 DEF S

\* Every buffer that is kept has a sentence.
LEMMA BuffersOf ==
  ASSUME NEW C, NEW B, NEW blocks \in Seq(B), \A b \in B : BlockText(b) \in Seq(C), NEW size
  PROVE  Buffers(blocks, size) \in Seq(Seq(Sentenced(B)) \ {<<>>})
<1> DEFINE buffered == Buffered(Sentences(blocks), size)
           P == {n \in DOMAIN buffered : buffered[n] # <<>>}
           X == {buffered[n] : n \in P \cap DOMAIN buffered}
           S == Sentenced(B)
<1>1. buffered \in Seq(Seq(S))
  BY SentencesOf, BufferedOf
<1>2. Buffers(blocks, size) = Those(buffered, P)
  BY DEF Buffers
<1> HIDE DEF buffered, S
<1>3. Those(buffered, P) \in Seq(X)
  BY <1>1, ThoseOf
<1>4. X \subseteq Seq(S) \ {<<>>}
  BY <1>1
<1> HIDE DEF X, P
<1> QED BY <1>2, <1>3, <1>4 DEF S

\* _sentence_component: one more step cuts the sentence out of its block.
SentencePart(stream, D, s) ==
  LET whole == Component(stream, D, s.block)
  IN  [whole EXCEPT !.steps = Append(@, SliceStep(ComponentValue(stream, whole), s.span.start, s.span.end))]

\* The sentences of a region.
SentencesIn(blocks, region) == Sentenced({b \in ToSet(blocks) : b.region = region})

\* A character is a text.
LEMMA SingleText ==
  ASSUME NEW C, NEW x \in C
  PROVE  <<x>> \in Seq(C)
OBVIOUS

\* The part of a sentence has the sentence's text, in a region and from a digest that agrees.
LEMMA SentenceValue ==
  ASSUME NEW C, NEW stream, NEW blocks, Chunkable(stream, blocks, C), NEW region,
         NEW s \in SentencesIn(blocks, region)
  PROVE  LET c == SentencePart(stream, BlockDerivations(stream, blocks), s)
         IN  /\ c.range.region = region
             /\ Slice(stream, c.range.start, c.range.end) = c.range.digest
             /\ ComponentValue(stream, c) = s.text /\ s.text \in Seq(C)
<1> DEFINE D == BlockDerivations(stream, blocks)
           b == s.block
           whole == Component(stream, D, b)
           step == SliceStep(ComponentValue(stream, whole), s.span.start, s.span.end)
           c == SentencePart(stream, D, s)
<1>1. /\ b \in ToSet(blocks) /\ b.region = region /\ s.span.start \in Nat /\ s.span.end \in Nat
      /\ s.span.start <= s.span.end /\ s.span.end <= Len(BlockText(b)) /\ s.text = Slice(BlockText(b), s.span.start, s.span.end)
  BY DEF SentencesIn, Sentenced, Spans
<1> HIDE DEF b
<1>2. /\ whole.range = SourceRange(stream, b) /\ whole.range.region = region
      /\ Slice(stream, whole.range.start, whole.range.end) = whole.range.digest
      /\ ComponentValue(stream, whole) = BlockText(b) /\ BlockText(b) \in Seq(C)
      /\ whole.steps = <<>> \/ \E x : whole.steps = <<x>>
  BY <1>1, BlockValue
<1>3. whole = [range |-> whole.range, steps |-> whole.steps]
  BY DEF Component
<1> HIDE DEF whole
<1>4. c = [whole EXCEPT !.steps = Append(@, step)]
  BY DEF SentencePart, whole, b
<1>5. c.range = whole.range /\ c.steps = Append(whole.steps, step)
  BY <1>3, <1>4
<1> HIDE DEF c
<1>6. ApplyStep(BlockText(b), step) = s.text
  BY <1>1, <1>2 DEF ApplyStep, SliceStep
<1>7. s.text \in Seq(C)
  BY <1>1, <1>2, SliceRange
<1> DEFINE found == Slice(stream, whole.range.start, whole.range.end)
<1>8. Replay(found, whole.steps) = BlockText(b)
  BY <1>2 DEF ComponentValue
<1>9. \E X : whole.steps \in Seq(X) /\ step \in X
  <2>1. CASE whole.steps = <<>>
    <3>1. whole.steps \in Seq({step}) /\ step \in {step}
      BY <2>1
    <3> QED BY <3>1
  <2>2. ASSUME NEW x, whole.steps = <<x>> PROVE \E X : whole.steps \in Seq(X) /\ step \in X
    <3> HIDE DEF step
    <3>1. whole.steps \in Seq({x, step}) /\ step \in {x, step}
      BY <2>2
    <3> QED BY <3>1
  <2> QED BY <1>2, <2>1, <2>2
<1> HIDE DEF step
<1>10. Replay(found, Append(whole.steps, step)) = s.text
  <2>1. PICK X : whole.steps \in Seq(X) /\ step \in X
    BY <1>9
  <2>2. Replay(found, Append(whole.steps, step))
          = IF Replay(found, whole.steps) = Refused THEN Refused ELSE ApplyStep(Replay(found, whole.steps), step)
    BY <2>1, ReplayAppend
  <2>3. BlockText(b) # Refused
    BY <1>2, NoText DEF Chunkable
  <2> QED BY <1>6, <1>8, <2>2, <2>3
<1>11. ComponentValue(stream, c) = s.text
  BY <1>5, <1>10 DEF ComponentValue
<1> QED BY <1>2, <1>5, <1>7, <1>11 DEF c, D

\* _sentence_evidence: sentences joined by a space prove the text of their chunk.
LEMMA SentencesProve ==
  ASSUME NEW C, NEW stream, NEW blocks, Chunkable(stream, blocks, C), NEW region,
         NEW buffer \in Seq(SentencesIn(blocks, region)), buffer # <<>>
  PROVE  Proves(stream, SentenceEvidence(stream, BlockDerivations(stream, blocks), buffer),
                Joined([k \in DOMAIN buffer |-> buffer[k].text], Space))
<1> DEFINE D == BlockDerivations(stream, blocks)
           n == Len(buffer)
           components == [i \in DOMAIN buffer |-> SentencePart(stream, D, buffer[i])]
           values == [i \in DOMAIN buffer |-> ComponentValue(stream, components[i])]
           output == Joined(values, Space)
           e == SentenceEvidence(stream, D, buffer)
           S == SentencesIn(blocks, region)
<1>0. buffer \in Seq(S)
  OBVIOUS
<1> HIDE DEF S
<1>1. n \in Nat \ {0} /\ DOMAIN buffer = 1..n /\ \A i \in 1..n : buffer[i] \in S
  BY <1>0
<1>2. \A i \in 1..n : LET c == components[i]
                      IN  /\ c.range.region = region
                          /\ Slice(stream, c.range.start, c.range.end) = c.range.digest
                          /\ ComponentValue(stream, c) = buffer[i].text /\ buffer[i].text \in Seq(C)
  <2> SUFFICES ASSUME NEW i \in 1..n
               PROVE  LET c == components[i]
                      IN  /\ c.range.region = region
                          /\ Slice(stream, c.range.start, c.range.end) = c.range.digest
                          /\ ComponentValue(stream, c) = buffer[i].text /\ buffer[i].text \in Seq(C)
    OBVIOUS
  <2>1. components[i] = SentencePart(stream, D, buffer[i]) /\ buffer[i] \in S
    BY <1>1
  <2> HIDE DEF components
  <2> DEFINE s == buffer[i]
             c == SentencePart(stream, D, s)
  <2>2. s \in SentencesIn(blocks, region)
    BY <2>1 DEF S
  <2> HIDE DEF s
  <2>3. /\ c.range.region = region /\ Slice(stream, c.range.start, c.range.end) = c.range.digest
        /\ ComponentValue(stream, c) = s.text /\ s.text \in Seq(C)
    BY <2>2, SentenceValue
  <2> QED BY <2>1, <2>3 DEF s
<1>3. components \in Seq(ToSet(components)) /\ components # <<>> /\ DOMAIN components = 1..n
  BY <1>1 DEF ToSet
<1>4. e = Evidence(components, IF Len(values) > 1 THEN JoinStep(values, Space) ELSE NoJoin, <<>>, output)
  BY DEF SentenceEvidence, SentencePart
<1> HIDE DEF components, e
<1>5. values = [i \in DOMAIN components |-> ComponentValue(stream, components[i])]
      /\ values = [k \in DOMAIN buffer |-> buffer[k].text]
  BY <1>1, <1>2, <1>3
<1> HIDE DEF values, D
<1>6. Supported(C, stream, components, Space, values, <<>>, output)
  <2>1. "EvidenceError" \notin C /\ Space \in Seq(C)
    <3>1. "EvidenceError" \notin C /\ " " \in C
      BY DEF Chunkable
    <3>2. Space \in Seq(C)
      BY <3>1, SingleText, Zenon DEF Space
    <3> QED BY <3>1, <3>2
  <2>2. \A i, j \in DOMAIN components : components[i].range.region = components[j].range.region
    BY <1>2, <1>3
  <2>3. \A i \in DOMAIN components :
           /\ Slice(stream, components[i].range.start, components[i].range.end) = components[i].range.digest
           /\ ComponentValue(stream, components[i]) \in Seq(C)
    BY <1>2, <1>3
  <2> QED BY <1>3, <1>5, <2>1, <2>2, <2>3 DEF Supported
<1>7. Resolve(e, stream) = output
  BY <1>4, <1>6, ResolvesTo
<1>8. e.output = output /\ e.components = components
  BY <1>4 DEF Evidence
<1>9. Slice(stream, components[1].range.start, components[1].range.end) = components[1].range.digest
  BY <1>1, <1>2
<1> QED BY <1>5, <1>7, <1>8, <1>9 DEF Proves, e, D

\* chunk_sentence: every chunk is a buffer of sentences.
LEMMA SentencesHold ==
  ASSUME NEW C, NEW stream, NEW blocks, Chunkable(stream, blocks, C), NEW region, NEW settings
  PROVE  AllHold(stream, SentenceChunks(stream, BlockDerivations(stream, blocks), Region(blocks, region), settings))
<1> DEFINE D == BlockDerivations(stream, blocks)
           B == {b \in ToSet(blocks) : b.region = region}
           within == Region(blocks, region)
           buffers == Buffers(within, settings.size)
           made == SentenceChunks(stream, D, within, settings)
           text(n) == Joined([k \in DOMAIN buffers[n] |-> buffers[n][k].text], Space)
<1>1. within \in Seq(B)
  BY RegionOf DEF Chunkable
<1> HIDE DEF within
<1>2. \A b \in B : BlockText(b) \in Seq(C)
  BY DEF Chunkable
<1>3. buffers \in Seq(Seq(Sentenced(B)) \ {<<>>})
  BY <1>1, <1>2, BuffersOf
<1> DEFINE heading(n) == PathOf(within, buffers[n][1].block.index)
<1>4. made = [n \in DOMAIN buffers |-> Chunk(n, BlocksOf(buffers[n]), text(n), heading(n), SentenceEvidence(stream, D, buffers[n]))]
  BY DEF SentenceChunks, SentenceChunk
<1> HIDE DEF buffers, B
<1>5. DOMAIN buffers = 1..Len(buffers) /\ Len(buffers) \in Nat
      /\ \A n \in DOMAIN buffers : buffers[n] \in Seq(Sentenced(B)) /\ buffers[n] # <<>>
  BY <1>3
<1> HIDE DEF made, heading
<1>6. ASSUME NEW n \in DOMAIN buffers PROVE Holds(stream, made[n])
  <2>1. Proves(stream, SentenceEvidence(stream, D, buffers[n]), text(n))
    <3>1. buffers[n] \in Seq(SentencesIn(blocks, region)) /\ buffers[n] # <<>>
      BY <1>5 DEF B, SentencesIn
    <3> QED BY <3>1, SentencesProve
  <2>2. made[n] = Chunk(n, BlocksOf(buffers[n]), text(n), heading(n), SentenceEvidence(stream, D, buffers[n]))
    BY <1>4
  <2> HIDE DEF text
  <2> QED BY <2>1, <2>2, ChunkHolds
<1>7. made = [n \in 1..Len(buffers) |-> made[n]]
  BY <1>4, <1>5
<1>8. \A n \in 1..Len(buffers) : made[n] \in {c \in ToSet(made) : Holds(stream, c)}
  BY <1>5, <1>6, <1>7 DEF ToSet
<1> QED BY <1>5, <1>7, <1>8 DEF AllHold, made, within

-----------------------------------------------------------------------------
(* The stream of blocks *)

\* A function on 1..n with values in S is a sequence.
LEMMA Listed ==
  ASSUME NEW S, NEW n \in Nat, NEW f, f = [i \in 1..n |-> f[i]], \A i \in 1..n : f[i] \in S
  PROVE  f \in Seq(S) /\ Len(f) = n /\ DOMAIN f = 1..n
OBVIOUS

\* One more part goes to the end.
LEMMA ConcatAppend ==
  ASSUME NEW S, NEW parts \in Seq(Seq(S)), NEW p \in Seq(S)
  PROVE  Concat(Append(parts, p)) = Concat(parts) \o p /\ Concat(parts) \in Seq(S)
<1> DEFINE n == Len(parts)
           more == Append(parts, p)
<1>1. more \in Seq(Seq(S)) /\ Len(more) = n + 1 /\ n \in Nat /\ more[n + 1] = p /\ \A i \in 1..n : more[i] = parts[i]
  OBVIOUS
<1> HIDE DEF more
<1>2. PICK a : Concatenated(parts, S, a) /\ Concat(parts) = a[n]
  BY ConcatSteps
<1>3. PICK b : Concatenated(more, S, b) /\ Concat(more) = b[n + 1]
  BY <1>1, ConcatSteps
<1>4. n = Len(parts)
  OBVIOUS
<1> HIDE DEF n
<1> DEFINE T == {i \in 0..n : a[i] = b[i]}
<1>5. 0 \in T
  BY <1>1, <1>2, <1>3 DEF Concatenated
<1>6. ASSUME NEW i \in 1..n, (i - 1) \in T PROVE i \in T
  <2>1. i \in 1..Len(parts) /\ i \in 1..Len(more) /\ i \in 0..n
    BY <1>1, <1>4
  <2>2. a[i] = a[i - 1] \o parts[i]
    BY <1>2, <2>1 DEF Concatenated
  <2>3. b[i] = b[i - 1] \o more[i]
    BY <1>3, <2>1 DEF Concatenated
  <2>4. a[i - 1] = b[i - 1] /\ more[i] = parts[i]
    BY <1>1, <1>6
  <2> QED BY <2>1, <2>2, <2>3, <2>4
<1> HIDE DEF T
<1>7. n \in T
  <2>1. \A i \in 0..n : i \in T
    BY <1>1, <1>5, <1>6, Upward
  <2> QED BY <1>1, <2>1
<1>8. a[n] = b[n]
  BY <1>7 DEF T
<1>9. b[n + 1] = b[n] \o p
  <2>1. (n + 1) \in 1..Len(more) /\ (n + 1) - 1 = n
    BY <1>1
  <2>2. b[n + 1] = b[(n + 1) - 1] \o more[n + 1]
    BY <1>3, <2>1 DEF Concatenated
  <2> QED BY <1>1, <2>1, <2>2
<1>10. a[n] \in Seq(S)
  BY <1>1, <1>2, <1>4 DEF Concatenated
<1> QED BY <1>2, <1>3, <1>8, <1>9, <1>10 DEF more

\* No parts make no text.
LEMMA ConcatNone == Concat(<<>>) = <<>>
<1>1. <<>> \o <<>> = <<>> /\ Len(<<>>) = 0
  OBVIOUS
<1> QED BY <1>1 DEF Concat, FlattenSeq

\* One more part goes behind a separator.
LEMMA JoinedAppend ==
  ASSUME NEW C, NEW parts \in Seq(Seq(C)), parts # <<>>, NEW p \in Seq(C), NEW separator \in Seq(C)
  PROVE  Joined(Append(parts, p), separator) = Joined(parts, separator) \o (separator \o p)
<1> DEFINE n == Len(parts)
           more == Append(parts, p)
           one == [i \in DOMAIN parts |-> IF i = 1 THEN parts[i] ELSE separator \o parts[i]]
           two == [i \in DOMAIN more |-> IF i = 1 THEN more[i] ELSE separator \o more[i]]
<1>1. /\ more \in Seq(Seq(C)) /\ Len(more) = n + 1 /\ n \in Nat \ {0} /\ more[n + 1] = p
      /\ \A i \in 1..n : more[i] = parts[i] /\ parts[i] \in Seq(C)
      /\ DOMAIN parts = 1..n /\ DOMAIN more = 1..(n + 1)
  OBVIOUS
<1> HIDE DEF more, n
<1>2. \A i \in 1..n : one[i] = (IF i = 1 THEN parts[i] ELSE separator \o parts[i]) /\ one[i] \in Seq(C)
  <2>1. \A i \in 1..n : separator \o parts[i] \in Seq(C)
    BY <1>1
  <2>2. \A i \in 1..n : one[i] = IF i = 1 THEN parts[i] ELSE separator \o parts[i]
    BY <1>1
  <2> HIDE DEF one
  <2>3. \A i \in 1..n : one[i] \in Seq(C)
    <3> TAKE i \in 1..n
    <3>1. CASE i = 1
      BY <1>1, <2>2, <3>1
    <3>2. CASE i # 1
      BY <2>1, <2>2, <3>2
    <3> QED BY <3>1, <3>2
  <2> QED BY <2>2, <2>3
<1>3. one \in Seq(Seq(C)) /\ Len(one) = n
  <2>1. one = [i \in 1..n |-> one[i]]
    BY <1>1
  <2>2. \A i \in 1..n : one[i] \in Seq(C)
    BY <1>2
  <2>3. n \in Nat
    BY <1>1
  <2> HIDE DEF one
  <2> QED BY <2>1, <2>2, <2>3, Listed
<1>4. separator \o p \in Seq(C)
  OBVIOUS
<1>5. two = Append(one, separator \o p)
  <2> DEFINE x == Append(one, separator \o p)
  <2>1. Len(x) = n + 1 /\ x \in Seq(Seq(C)) /\ x[n + 1] = separator \o p /\ \A i \in 1..n : x[i] = one[i]
    <3> HIDE DEF one
    <3> QED BY <1>1, <1>3, <1>4
  <2>2. \A i \in 1..(n + 1) : two[i] = IF i = 1 THEN more[i] ELSE separator \o more[i]
    BY <1>1
  <2>3. \A i \in 1..(n + 1) : two[i] = x[i]
    <3>1. ASSUME NEW i \in 1..n PROVE two[i] = x[i]
      <4>1. i \in 1..(n + 1) /\ more[i] = parts[i]
        BY <1>1
      <4> HIDE DEF two, x, one
      <4>2. two[i] = IF i = 1 THEN parts[i] ELSE separator \o parts[i]
        BY <2>2, <4>1
      <4>3. x[i] = IF i = 1 THEN parts[i] ELSE separator \o parts[i]
        BY <1>2, <2>1
      <4> QED BY <4>2, <4>3
    <3>2. two[n + 1] = x[n + 1]
      <4>1. n + 1 \in 1..(n + 1) /\ n + 1 # 1
        BY <1>1
      <4> HIDE DEF two, x
      <4> QED BY <1>1, <2>1, <2>2, <4>1
    <3> HIDE DEF two, x
    <3> QED BY <1>1, <3>1, <3>2
  <2>4. two = [i \in 1..(n + 1) |-> two[i]]
    BY <1>1
  <2> HIDE DEF x, two
  <2>5. x = [i \in 1..(n + 1) |-> x[i]]
    BY <1>1, <2>1
  <2> QED BY <2>3, <2>4, <2>5 DEF x
<1>6. Joined(parts, separator) = Concat(one) /\ Joined(more, separator) = Concat(two)
  BY DEF Joined
<1> HIDE DEF one, two
<1> QED BY <1>3, <1>4, <1>5, <1>6, ConcatAppend DEF more

\* The stream of blocks with texts: one more block goes behind a break.
LEMMA BreakIsText ==
  ASSUME NEW C, "nl" \in C
  PROVE  BlockBreak \in Seq(C) /\ Len(BlockBreak) = 2
BY DEF BlockBreak

\* The blocks B have texts in the characters C.
Textual(B, C) == "nl" \in C /\ \A b \in B : BlockText(b) \in Seq(C)

\* The texts of blocks are texts.
LEMMA TextsOf ==
  ASSUME NEW C, NEW B, Textual(B, C), NEW blocks \in Seq(B)
  PROVE  /\ Texts(blocks) \in Seq(Seq(C)) /\ Len(Texts(blocks)) = Len(blocks)
         /\ \A i \in 1..Len(blocks) : Texts(blocks)[i] = BlockText(blocks[i])
<1>1. \A i \in 1..Len(blocks) : blocks[i] \in B
  OBVIOUS
<1>2. Texts(blocks) = [i \in 1..Len(blocks) |-> BlockText(blocks[i])] /\ Len(blocks) \in Nat
  BY DEF Texts
<1>3. \A i \in 1..Len(blocks) : Texts(blocks)[i] = BlockText(blocks[i]) /\ Texts(blocks)[i] \in Seq(C)
  BY <1>1, <1>2 DEF Textual
<1>4. Texts(blocks) = [i \in 1..Len(blocks) |-> Texts(blocks)[i]]
  BY <1>2
<1> QED BY <1>2, <1>3, <1>4, Listed

\* One more block goes behind a break.
LEMMA FlattenMore ==
  ASSUME NEW C, NEW B, Textual(B, C), NEW blocks \in Seq(B), NEW b \in B
  PROVE  /\ Flatten(blocks) \in Seq(C)
         /\ blocks = <<>> => Flatten(Append(blocks, b)) = BlockText(b)
         /\ blocks # <<>> => Flatten(Append(blocks, b)) = Flatten(blocks) \o (BlockBreak \o BlockText(b))
<1> DEFINE more == Append(blocks, b)
           n == Len(blocks)
<1>1. /\ more \in Seq(B) /\ Len(more) = n + 1 /\ n \in Nat /\ more[n + 1] = b
      /\ \A i \in 1..n : more[i] = blocks[i] /\ i \in 1..(n + 1)
      /\ (blocks = <<>>) = (n = 0)
  OBVIOUS
<1> HIDE DEF more
<1>2. /\ Texts(more) \in Seq(Seq(C)) /\ Len(Texts(more)) = n + 1
      /\ \A i \in 1..(n + 1) : Texts(more)[i] = BlockText(more[i])
  BY <1>1, TextsOf
<1>3. /\ Texts(blocks) \in Seq(Seq(C)) /\ Len(Texts(blocks)) = n
      /\ \A i \in 1..n : Texts(blocks)[i] = BlockText(blocks[i])
  BY TextsOf
<1>4. BlockText(b) \in Seq(C) /\ BlockBreak \in Seq(C)
  BY BreakIsText DEF Textual
<1> HIDE DEF n
<1>5. Texts(more) = Append(Texts(blocks), BlockText(b))
  <2> DEFINE x == Append(Texts(blocks), BlockText(b))
  <2>1. x \in Seq(Seq(C)) /\ Len(x) = n + 1 /\ x[n + 1] = BlockText(b) /\ \A i \in 1..n : x[i] = Texts(blocks)[i]
    BY <1>1, <1>3, <1>4
  <2> HIDE DEF x
  <2>2. \A i \in 1..(n + 1) : x[i] = Texts(more)[i]
    <3>1. \A i \in 1..n : x[i] = Texts(more)[i]
      BY <1>1, <1>2, <1>3, <2>1
    <3>2. x[n + 1] = Texts(more)[n + 1]
      BY <1>1, <1>2, <2>1
    <3> QED BY <1>1, <3>1, <3>2
  <2>3. x = Texts(more)
    BY <1>1, <1>2, <2>1, <2>2
  <2> QED BY <2>3 DEF x
<1>6. Flatten(blocks) \in Seq(C)
  BY <1>3, <1>4, JoinedOf DEF Flatten
<1>7. ASSUME blocks = <<>> PROVE Flatten(more) = BlockText(b)
  <2>1. Len(Texts(more)) = 1 /\ Texts(more)[1] = BlockText(b)
    BY <1>1, <1>2, <1>7
  <2> QED BY <1>2, <1>4, <2>1, JoinedOf DEF Flatten
<1>8. ASSUME blocks # <<>> PROVE Flatten(more) = Flatten(blocks) \o (BlockBreak \o BlockText(b))
  <2>1. Texts(blocks) # <<>>
    BY <1>1, <1>3, <1>8
  <2> DEFINE parts == Texts(blocks)
             p == BlockText(b)
  <2>2. parts \in Seq(Seq(C)) /\ parts # <<>> /\ p \in Seq(C)
    BY <1>3, <1>4, <2>1
  <2>3. Flatten(blocks) = Joined(parts, BlockBreak) /\ Flatten(more) = Joined(Append(parts, p), BlockBreak)
    BY <1>5 DEF Flatten
  <2> HIDE DEF parts, p
  <2>4. Joined(Append(parts, p), BlockBreak) = Joined(parts, BlockBreak) \o (BlockBreak \o p)
    BY <1>4, <2>2, JoinedAppend
  <2> QED BY <2>3, <2>4 DEF p
<1> QED BY <1>6, <1>7, <1>8 DEF more

\* Concatenation, kept folded.
Then(p, q) == p \o q

\* Concatenation is associative and adds lengths.
LEMMA Regroup ==
  ASSUME NEW C, NEW p \in Seq(C), NEW q \in Seq(C), NEW r \in Seq(C)
  PROVE  /\ Then(Then(p, q), r) = Then(p, Then(q, r)) /\ Then(p, q) \in Seq(C) /\ Then(<<>>, p) = p
         /\ Len(Then(p, q)) = Len(p) + Len(q)
<1>1. p \o q \in Seq(C) /\ <<>> \o p = p /\ Len(p \o q) = Len(p) + Len(q)
  OBVIOUS
<1>2. (p \o q) \o r = p \o (q \o r)
  BY ConcatAssociative
<1> QED BY <1>1, <1>2 DEF Then

\* One more block, kept folded.
Longer(more, blocks, b) == more = Append(blocks, b)

\* The stream of one block is its text.
LEMMA FlattenOne ==
  ASSUME NEW C, NEW B, Textual(B, C), NEW b \in B, NEW more, Longer(more, <<>>, b)
  PROVE  Flatten(more) = BlockText(b)
<1>1. more \in Seq(B) /\ Len(more) = 1 /\ more[1] = b
  BY DEF Longer
<1>2. Texts(more) \in Seq(Seq(C)) /\ Len(Texts(more)) = 1 /\ Texts(more)[1] = BlockText(b)
  BY <1>1, TextsOf
<1>3. BlockBreak \in Seq(C)
  BY BreakIsText DEF Textual
<1> QED BY <1>2, <1>3, JoinedOf DEF Flatten

\* FlattenMore with its concatenations folded.
LEMMA FlattenThen ==
  ASSUME NEW C, NEW B, Textual(B, C), NEW blocks \in Seq(B), NEW b \in B, NEW more, Longer(more, blocks, b)
  PROVE  /\ Flatten(blocks) \in Seq(C)
         /\ Len(blocks) = 0 => Flatten(more) = BlockText(b)
         /\ blocks # <<>> => Flatten(more) = Then(Flatten(blocks), Then(BlockBreak, BlockText(b)))
<1>1. Len(blocks) = 0 => blocks = <<>>
  OBVIOUS
<1> QED BY <1>1, FlattenMore DEF Then, Longer

\* The text in front of block i, its break included.
Before(blocks, i) == Concat([j \in 1..(i - 1) |-> BlockText(blocks[j]) \o BlockBreak])

\* The text in front of the next block has one block and one break more.
LEMMA BeforeMore ==
  ASSUME NEW C, NEW B, Textual(B, C), NEW blocks \in Seq(B), NEW i \in 1..Len(blocks)
  PROVE  /\ Before(blocks, i) \in Seq(C) /\ Position(blocks, i) = Len(Before(blocks, i))
         /\ Before(blocks, 1) = <<>>
         /\ Before(blocks, i + 1) = Before(blocks, i) \o (BlockText(blocks[i]) \o BlockBreak)
<1> DEFINE part(j) == BlockText(blocks[j]) \o BlockBreak
           parts == [j \in 1..(i - 1) |-> part(j)]
           more == [j \in 1..((i + 1) - 1) |-> part(j)]
<1>1. \A j \in 1..Len(blocks) : part(j) \in Seq(C)
  <2>1. \A j \in 1..Len(blocks) : BlockText(blocks[j]) \in Seq(C)
    BY DEF Textual
  <2> QED BY <2>1, BreakIsText DEF Textual
<1> HIDE DEF part
<1>2. i - 1 \in Nat /\ i \in Nat /\ (i + 1) - 1 = i /\ \A j \in 1..i : j \in 1..Len(blocks)
  OBVIOUS
<1>3. \A j \in 1..(i - 1) : parts[j] = part(j) /\ j \in 1..Len(blocks)
  OBVIOUS
<1>4. \A j \in 1..i : more[j] = part(j)
  BY <1>2
<1>5. parts = [j \in 1..(i - 1) |-> parts[j]] /\ more = [j \in 1..i |-> more[j]]
  BY <1>2
<1> HIDE DEF parts, more
<1>6. parts \in Seq(Seq(C)) /\ Len(parts) = i - 1
  <2>1. \A j \in 1..(i - 1) : parts[j] \in Seq(C)
    BY <1>1, <1>3
  <2> DEFINE n == i - 1
  <2>2. n \in Nat /\ parts = [j \in 1..n |-> parts[j]] /\ \A j \in 1..n : parts[j] \in Seq(C)
    BY <1>2, <1>5, <2>1
  <2> HIDE DEF n
  <2>3. parts \in Seq(Seq(C)) /\ Len(parts) = n
    BY <2>2, Listed
  <2> QED BY <2>3 DEF n
<1>7. more \in Seq(Seq(C)) /\ Len(more) = i
  BY <1>1, <1>2, <1>4, <1>5, Listed
<1>8. more = Append(parts, part(i))
  <2> DEFINE x == Append(parts, part(i))
  <2>1. /\ x \in Seq(Seq(C)) /\ Len(x) = i /\ x[i] = part(i) /\ \A j \in 1..(i - 1) : x[j] = parts[j]
    BY <1>1, <1>2, <1>6
  <2> HIDE DEF x
  <2>2. \A j \in 1..i : x[j] = more[j]
    <3>1. \A j \in 1..(i - 1) : x[j] = more[j]
      BY <1>2, <1>3, <1>4, <2>1
    <3>2. x[i] = more[i]
      BY <1>2, <1>4, <2>1
    <3> QED BY <1>2, <3>1, <3>2
  <2>3. x = more
    BY <1>2, <1>7, <2>1, <2>2
  <2> QED BY <2>3 DEF x
<1>9. Before(blocks, i) = Concat(parts) /\ Before(blocks, i + 1) = Concat(more)
  BY DEF Before, parts, more, part
<1>10. Before(blocks, 1) = <<>>
  <2>1. [j \in 1..(1 - 1) |-> part(j)] = <<>>
    OBVIOUS
  <2>2. Before(blocks, 1) = Concat([j \in 1..(1 - 1) |-> part(j)])
    BY DEF Before, part
  <2> QED BY <2>1, <2>2, ConcatNone
<1>11. Concat(Append(parts, part(i))) = Concat(parts) \o part(i) /\ Concat(parts) \in Seq(C)
  BY <1>1, <1>6, ConcatAppend
<1> QED BY <1>8, <1>9, <1>10, <1>11 DEF Position, Before, part

\* The blocks from k to i, and one more.
LEMMA StretchMore ==
  ASSUME NEW B, NEW blocks \in Seq(B), NEW k \in 1..Len(blocks), NEW i \in k..Len(blocks)
  PROVE  /\ SubSeq(blocks, k, i) \in Seq(B) /\ SubSeq(blocks, k, i) # <<>>
         /\ Longer(SubSeq(blocks, k, k), <<>>, blocks[k])
         /\ i < Len(blocks) => Longer(SubSeq(blocks, k, i + 1), SubSeq(blocks, k, i), blocks[i + 1])
         /\ SubSeq(blocks, 1, Len(blocks)) = blocks
<1> DEFINE run == SubSeq(blocks, k, i)
<1>1. \A j \in 1..Len(blocks) : blocks[j] \in B
  OBVIOUS
<1>2. Len(run) = i - k + 1 /\ (\A j \in 1..(i - k + 1) : run[j] = blocks[k + j - 1]) /\ run \in Seq(B)
  OBVIOUS
<1>3. SubSeq(blocks, k, k) = Append(<<>>, blocks[k])
  <2> DEFINE x == SubSeq(blocks, k, k)
             y == Append(<<>>, blocks[k])
  <2>1. x \in Seq(B) /\ Len(x) = 1 /\ x[1] = blocks[k]
    OBVIOUS
  <2>2. y \in Seq(B) /\ Len(y) = 1 /\ y[1] = blocks[k]
    OBVIOUS
  <2> HIDE DEF x, y
  <2>3. \A j \in 1..1 : x[j] = y[j]
    BY <2>1, <2>2
  <2>4. x = y
    BY <2>1, <2>2, <2>3
  <2> QED BY <2>4 DEF x, y
<1>4. ASSUME i < Len(blocks) PROVE SubSeq(blocks, k, i + 1) = Append(run, blocks[i + 1])
  <2> DEFINE x == SubSeq(blocks, k, i + 1)
             y == Append(run, blocks[i + 1])
  <2>1. x \in Seq(B) /\ Len(x) = i - k + 2 /\ \A j \in 1..(i - k + 2) : x[j] = blocks[k + j - 1]
    BY <1>4
  <2>2. \A j \in 1..(i - k + 1) : run[j] = blocks[k + j - 1]
    BY <1>2
  <2>3. k \in Nat /\ i \in Nat /\ k <= i /\ blocks[i + 1] \in B
    BY <1>1, <1>4
  <2> HIDE DEF x, run
  <2>4. y \in Seq(B) /\ Len(y) = i - k + 2 /\ y[i - k + 2] = blocks[i + 1] /\ \A j \in 1..(i - k + 1) : y[j] = run[j]
    BY <1>2, <2>3
  <2> HIDE DEF y
  <2>5. \A j \in 1..(i - k + 2) : x[j] = y[j]
    <3>1. \A j \in 1..(i - k + 1) : x[j] = y[j]
      BY <2>1, <2>2, <2>3, <2>4
    <3>2. x[i - k + 2] = y[i - k + 2]
      <4>1. k + (i - k + 2) - 1 = i + 1 /\ (i - k + 2) \in 1..(i - k + 2)
        BY <2>3
      <4> QED BY <2>1, <2>4, <4>1
    <3> QED BY <2>3, <3>1, <3>2
  <2>6. x = y
    BY <2>1, <2>3, <2>4, <2>5
  <2> QED BY <2>6 DEF x, y
<1>5. run # <<>>
  <2>1. i - k + 1 # 0
    OBVIOUS
  <2> HIDE DEF run
  <2> QED BY <1>2, <2>1
<1>6. SubSeq(blocks, 1, Len(blocks)) = blocks
  OBVIOUS
<1> HIDE DEF run
<1>7. i < Len(blocks) => Longer(SubSeq(blocks, k, i + 1), run, blocks[i + 1])
  BY <1>4 DEF Longer
<1>8. Longer(SubSeq(blocks, k, k), <<>>, blocks[k])
  BY <1>3 DEF Longer
<1> QED BY <1>2, <1>5, <1>6, <1>7, <1>8 DEF run

\* BeforeMore with its concatenations folded.
LEMMA BeforeThen ==
  ASSUME NEW C, NEW B, Textual(B, C), NEW blocks \in Seq(B), NEW i \in 1..Len(blocks)
  PROVE  /\ Before(blocks, i) \in Seq(C) /\ Position(blocks, i) = Len(Before(blocks, i))
         /\ Before(blocks, 1) = <<>>
         /\ Before(blocks, i + 1) = Then(Before(blocks, i), Then(BlockText(blocks[i]), BlockBreak))
BY BeforeMore DEF Then

\* The streams of the runs of blocks.
Stretch(blocks, k, i) == Flatten(SubSeq(blocks, k, i))

\* A run of one block is its text; a longer one goes on behind a break.
LEMMA Stretches ==
  ASSUME NEW C, NEW B, Textual(B, C), NEW blocks \in Seq(B), NEW k \in 1..Len(blocks), NEW i \in k..Len(blocks)
  PROVE  /\ Stretch(blocks, k, i) \in Seq(C) /\ Stretch(blocks, k, k) = BlockText(blocks[k])
         /\ i < Len(blocks) => Stretch(blocks, k, i + 1) = Then(Stretch(blocks, k, i), Then(BlockBreak, BlockText(blocks[i + 1])))
         /\ Stretch(blocks, 1, Len(blocks)) = Flatten(blocks)
<1> DEFINE s == SubSeq(blocks, k, i)
           o == SubSeq(blocks, k, k)
           m == SubSeq(blocks, k, i + 1)
           b == blocks[k]
           c == blocks[i + 1]
<1>1. s \in Seq(B) /\ s # <<>> /\ Longer(o, <<>>, b) /\ (i < Len(blocks) => Longer(m, s, c)) /\ SubSeq(blocks, 1, Len(blocks)) = blocks
  BY StretchMore
<1>2. b \in B /\ (i < Len(blocks) => c \in B) /\ <<>> \in Seq(B)
  OBVIOUS
<1>3. Stretch(blocks, k, i) = Flatten(s) /\ Stretch(blocks, k, k) = Flatten(o) /\ Stretch(blocks, k, i + 1) = Flatten(m)
      /\ Stretch(blocks, 1, Len(blocks)) = Flatten(SubSeq(blocks, 1, Len(blocks)))
  BY DEF Stretch
<1> HIDE DEF s, o, m, b, c
<1>4. Flatten(s) \in Seq(C)
  <2>1. Longer(Append(s, b), s, b)
    BY DEF Longer
  <2> QED BY <1>1, <1>2, <2>1, FlattenThen
<1>5. Flatten(o) = BlockText(b)
  BY <1>1, <1>2, FlattenOne
<1>6. i < Len(blocks) => Flatten(m) = Then(Flatten(s), Then(BlockBreak, BlockText(c)))
  BY <1>1, <1>2, FlattenThen
<1>7. Stretch(blocks, 1, Len(blocks)) = Flatten(blocks)
  BY <1>1, <1>3
<1> QED BY <1>3, <1>4, <1>5, <1>6, <1>7 DEF b, c

\* A run of blocks in the stream of all of them.
LEMMA StretchStands ==
  ASSUME NEW C, NEW B, Textual(B, C), NEW blocks \in Seq(B), NEW k \in 1..Len(blocks), NEW i \in k..Len(blocks)
  PROVE  Stretch(blocks, 1, i) = Then(Before(blocks, k), Stretch(blocks, k, i))
<1> DEFINE N == Len(blocks)
           run(j, m) == Stretch(blocks, j, m)
           front(j) == Before(blocks, j)
           t(j) == BlockText(blocks[j])
<1>0. N \in Nat /\ BlockBreak \in Seq(C) /\ \A j \in 1..N : t(j) \in Seq(C)
  BY BreakIsText DEF Textual
<1>1. \A j \in 1..N : front(j) \in Seq(C) /\ front(1) = <<>>
                      /\ front(j + 1) = Then(front(j), Then(t(j), BlockBreak))
  BY BeforeThen
<1>2. \A j, m \in 1..N : j <= m => /\ run(j, m) \in Seq(C) /\ run(j, j) = t(j)
                                   /\ m < N => run(j, m + 1) = Then(run(j, m), Then(BlockBreak, t(m + 1)))
  <2> SUFFICES ASSUME NEW j \in 1..N, NEW m \in 1..N, j <= m
               PROVE  /\ run(j, m) \in Seq(C) /\ run(j, j) = t(j)
                      /\ m < N => run(j, m + 1) = Then(run(j, m), Then(BlockBreak, t(m + 1)))
    OBVIOUS
  <2>1. m \in j..Len(blocks)
    OBVIOUS
  <2> QED BY <2>1, Stretches
<1> HIDE DEF run, t, N, front
\* The first block of the run.
<1>5. \A j \in 1..N : run(1, j) = Then(front(j), t(j))
  <2> DEFINE T == {j \in 0..N : j = 0 \/ run(1, j) = Then(front(j), t(j))}
  <2>1. 0 \in T
    BY <1>0
  <2>2. ASSUME NEW j \in 1..N, (j - 1) \in T PROVE j \in T
    <3>1. CASE j = 1
      <4>1. run(1, 1) = t(1) /\ t(1) \in Seq(C) /\ front(1) = <<>>
        BY <1>0, <1>1, <1>2, <3>1
      <4>2. Then(<<>>, t(1)) = t(1)
        BY <4>1, Regroup
      <4> QED BY <1>0, <3>1, <4>1, <4>2
    <3>2. CASE j # 1
      <4> DEFINE m == j - 1
      <4>1. m \in 1..N /\ 1 \in 1..N /\ 1 <= m /\ m < N /\ m + 1 = j /\ m # 0 /\ j \in 0..N
        BY <1>0, <3>2
      <4>2. run(1, m) = Then(front(m), t(m))
        BY <2>2, <4>1
      <4> HIDE DEF m
      <4>3. run(1, j) = Then(Then(front(m), t(m)), Then(BlockBreak, t(j)))
        BY <1>2, <4>1, <4>2
      <4>4. front(j) = Then(front(m), Then(t(m), BlockBreak))
        BY <1>1, <4>1
      <4>5. front(m) \in Seq(C) /\ t(m) \in Seq(C) /\ t(j) \in Seq(C) /\ BlockBreak \in Seq(C)
        BY <1>0, <1>1, <4>1
      <4>6. Then(front(m), t(m)) \in Seq(C)
        BY <4>5, Regroup
      <4>7. Then(Then(front(m), t(m)), Then(BlockBreak, t(j))) = Then(Then(Then(front(m), t(m)), BlockBreak), t(j))
        BY <4>5, <4>6, Regroup
      <4>8. Then(Then(front(m), t(m)), BlockBreak) = Then(front(m), Then(t(m), BlockBreak))
        BY <4>5, Regroup
      <4> QED BY <4>1, <4>3, <4>4, <4>7, <4>8
    <3> QED BY <3>1, <3>2
  <2>3. \A j \in 0..N : j \in T
    <3> HIDE DEF T
    <3> QED BY <1>0, <2>1, <2>2, Upward
  <2>4. \A j \in 1..N : j \in T /\ j # 0
    BY <1>0, <2>3
  <2> QED BY <2>4
<1>6. k \in 1..N /\ i \in k..N /\ i - k \in Nat /\ k \in Nat /\ i \in Nat
  BY <1>0 DEF N
<1> DEFINE A == front(k)
           T == {j \in 0..(i - k) : run(1, k + j) = Then(A, run(k, k + j))}
<1>7. 0 \in T
  <2>1. run(1, k) = Then(A, run(k, k)) /\ k + 0 = k
    BY <1>2, <1>5, <1>6
  <2> QED BY <1>6, <2>1
<1>8. ASSUME NEW j \in 1..(i - k), (j - 1) \in T PROVE j \in T
  <2> DEFINE m == k + (j - 1)
  <2>1. m \in 1..N /\ 1 \in 1..N /\ 1 <= m /\ k <= m /\ m < N /\ m + 1 = k + j
    BY <1>0, <1>6
  <2>2. run(1, m) = Then(A, run(k, m))
    BY <1>8
  <2> HIDE DEF m
  <2> DEFINE z == Then(BlockBreak, t(m + 1))
  <2>3. run(1, m + 1) = Then(run(1, m), z) /\ run(k, m + 1) = Then(run(k, m), z)
    BY <1>2, <1>6, <2>1
  <2>4. A \in Seq(C) /\ run(k, m) \in Seq(C) /\ z \in Seq(C)
    <3>1. A \in Seq(C) /\ run(k, m) \in Seq(C)
      BY <1>1, <1>2, <1>6, <2>1
    <3>2. m + 1 \in 1..N
      BY <1>0, <2>1
    <3>3. t(m + 1) \in Seq(C) /\ BlockBreak \in Seq(C)
      BY <1>0, <3>2
    <3> QED BY <3>1, <3>3, Regroup
  <2> HIDE DEF A, z
  <2>5. Then(Then(A, run(k, m)), z) = Then(A, Then(run(k, m), z))
    BY <2>4, Regroup
  <2>6. run(1, k + j) = Then(A, run(k, k + j))
    BY <2>1, <2>2, <2>3, <2>5
  <2> QED BY <2>6
<1> HIDE DEF T
<1>9. i - k \in T
  <2>1. \A j \in 0..(i - k) : j \in T
    BY <1>6, <1>7, <1>8, Upward
  <2> QED BY <1>6, <2>1
<1>10. run(1, i) = Then(A, run(k, i))
  <2>1. k + (i - k) = i
    BY <1>6
  <2> QED BY <1>9, <2>1 DEF T
<1> QED BY <1>10 DEF run, front

\* And the stream of all blocks begins with that of the first of them.
LEMMA StretchBegins ==
  ASSUME NEW C, NEW B, Textual(B, C), NEW blocks \in Seq(B), NEW i \in 1..Len(blocks)
  PROVE  \E z \in Seq(C) : Flatten(blocks) = Then(Stretch(blocks, 1, i), z)
<1> DEFINE N == Len(blocks)
           run(m) == Stretch(blocks, 1, m)
           t(j) == BlockText(blocks[j])
<1>0. N \in Nat /\ BlockBreak \in Seq(C) /\ \A j \in 1..N : t(j) \in Seq(C)
  BY BreakIsText DEF Textual
<1>1. \A m \in 1..N : /\ run(m) \in Seq(C) /\ run(N) = Flatten(blocks)
                      /\ m < N => run(m + 1) = Then(run(m), Then(BlockBreak, t(m + 1)))
  <2> TAKE m \in 1..N
  <2>1. m \in 1..Len(blocks) /\ 1 \in 1..Len(blocks)
    OBVIOUS
  <2> QED BY <2>1, Stretches
<1> HIDE DEF run, t, N
<1>2. i \in 1..N /\ N - i \in Nat /\ i \in Nat
  BY <1>0 DEF N
<1> DEFINE T == {j \in 0..(N - i) : \E z \in Seq(C) : run(i + j) = Then(run(i), z)}
<1>3. 0 \in T
  <2>1. run(i) = Then(run(i), <<>>) /\ <<>> \in Seq(C) /\ i + 0 = i
    <3>1. run(i) \in Seq(C)
      BY <1>1, <1>2
    <3>2. run(i) \o <<>> = run(i)
      BY <3>1
    <3> QED BY <1>2, <3>2 DEF Then
  <2>2. \E z \in Seq(C) : run(i + 0) = Then(run(i), z)
    BY <2>1
  <2> QED BY <1>2, <2>2
<1>4. ASSUME NEW j \in 1..(N - i), (j - 1) \in T PROVE j \in T
  <2> DEFINE m == i + (j - 1)
  <2>1. m \in 1..N /\ m < N /\ m + 1 = i + j
    BY <1>0, <1>2
  <2>2. PICK z \in Seq(C) : run(m) = Then(run(i), z)
    BY <1>4
  <2> HIDE DEF m
  <2> DEFINE y == Then(BlockBreak, t(m + 1))
  <2>3. run(m + 1) = Then(run(m), y)
    BY <1>1, <2>1
  <2>4. run(i) \in Seq(C) /\ y \in Seq(C)
    <3>1. m + 1 \in 1..N
      BY <1>0, <2>1
    <3>2. t(m + 1) \in Seq(C) /\ BlockBreak \in Seq(C) /\ run(i) \in Seq(C)
      BY <1>0, <1>1, <1>2, <3>1
    <3> QED BY <3>2, Regroup
  <2> HIDE DEF y
  <2>5. Then(Then(run(i), z), y) = Then(run(i), Then(z, y)) /\ Then(z, y) \in Seq(C)
    BY <2>4, Regroup
  <2>6. run(i + j) = Then(run(i), Then(z, y))
    BY <2>1, <2>2, <2>3, <2>5
  <2>7. \E x \in Seq(C) : run(i + j) = Then(run(i), x)
    BY <2>5, <2>6
  <2> QED BY <2>7
<1> HIDE DEF T
<1>5. N - i \in T
  <2>1. \A j \in 0..(N - i) : j \in T
    BY <1>2, <1>3, <1>4, Upward
  <2> QED BY <1>2, <2>1
<1>6. i + (N - i) = N /\ N \in 1..N
  BY <1>0, <1>2
<1> QED BY <1>1, <1>5, <1>6 DEF T, run

-----------------------------------------------------------------------------
(* Windows of the stream *)

\* A slice that lies in the middle of three texts is a slice of that text.
LEMMA SliceWithin ==
  ASSUME NEW C, NEW A \in Seq(C), NEW M \in Seq(C), NEW Z \in Seq(C), NEW whole, whole = Then(Then(A, M), Z),
         NEW start \in Nat, NEW end \in Nat, Len(A) <= start, start <= end, end <= Len(A) + Len(M)
  PROVE  Slice(whole, start, end) = Slice(M, start - Len(A), end - Len(A))
<1> DEFINE a == Len(A)
           p == Slice(whole, start, end)
           q == Slice(M, start - a, end - a)
<1>1. a \in Nat /\ Len(M) \in Nat /\ start - a \in Nat /\ end - a \in Nat /\ start - a <= end - a /\ end - a <= Len(M)
      /\ (end - a) - (start - a) = end - start /\ end - start \in Nat
  OBVIOUS
<1>2. /\ whole \in Seq(C) /\ end <= Len(whole)
      /\ \A i \in 1..Len(M) : whole[a + i] = M[i]
  <2>1. whole = (A \o M) \o Z
    BY DEF Then
  <2> DEFINE y == A \o M
  <2>2. y \in Seq(C) /\ Len(y) = a + Len(M) /\ \A i \in 1..Len(M) : y[a + i] = M[i]
    OBVIOUS
  <2> HIDE DEF y, a
  <2>3. whole \in Seq(C) /\ Len(whole) = Len(y) + Len(Z) /\ \A i \in 1..Len(y) : whole[i] = y[i]
    BY <2>1, <2>2 DEF y
  <2>4. end <= Len(whole)
    BY <1>1, <2>2, <2>3 DEF a
  <2>5. ASSUME NEW i \in 1..Len(M) PROVE whole[a + i] = M[i]
    <3>1. a + i \in 1..Len(y)
      BY <1>1, <2>2
    <3> QED BY <2>2, <2>3, <3>1
  <2> QED BY <2>3, <2>4, <2>5
<1>3. p \in Seq(C) /\ Len(p) = end - start /\ \A i \in 1..(end - start) : p[i] = whole[start + i]
  <2>1. whole \in Seq(C) /\ start <= end /\ end <= Len(whole)
    BY <1>2
  <2>2. Slice(whole, start, end) \in Seq(C) /\ Len(Slice(whole, start, end)) = end - start
        /\ \A i \in 1..(end - start) : Slice(whole, start, end)[i] = whole[start + i]
    BY <2>1, SliceRange
  <2> QED BY <2>2
<1>4. q \in Seq(C) /\ Len(q) = end - start /\ \A i \in 1..(end - start) : q[i] = M[(start - a) + i]
  <2> DEFINE s == start - a
             f == end - a
  <2>1. s \in Nat /\ f \in Nat /\ s <= f /\ f <= Len(M) /\ f - s = end - start
    BY <1>1
  <2> HIDE DEF s, f
  <2>2. Slice(M, s, f) \in Seq(C) /\ Len(Slice(M, s, f)) = f - s /\ \A i \in 1..(f - s) : Slice(M, s, f)[i] = M[s + i]
    BY <2>1, SliceRange
  <2>3. q = Slice(M, s, f)
    BY DEF s, f
  <2> HIDE DEF q
  <2>4. \A i \in 1..(end - start) : q[i] = M[s + i]
    BY <2>1, <2>2, <2>3
  <2> QED BY <2>1, <2>2, <2>3, <2>4 DEF s
<1> HIDE DEF p, q
<1>5. \A i \in 1..(end - start) : p[i] = q[i]
  <2> TAKE i \in 1..(end - start)
  <2> DEFINE j == (start - a) + i
  <2>1. j \in 1..Len(M) /\ a + j = start + i
    BY <1>1
  <2> HIDE DEF j
  <2>2. whole[start + i] = M[j]
    BY <1>2, <2>1
  <2> QED BY <1>3, <1>4, <2>2 DEF j
<1>6. p = q
  <2> HIDE DEF a
  <2> QED BY <1>1, <1>3, <1>4, <1>5
<1> QED BY <1>6 DEF p, q

\* Where blocks begin.
LEMMA Positions ==
  ASSUME NEW C, NEW B, Textual(B, C), NEW blocks \in Seq(B), blocks # <<>>
  PROVE  /\ Position(blocks, 1) = 0
         /\ \A i \in 1..Len(blocks) :
              /\ Position(blocks, i) \in Nat /\ Position(blocks, i + 1) \in Nat
              /\ Position(blocks, i) <= Position(blocks, i + 1)
              /\ Position(blocks, i) + Len(Stretch(blocks, i, Len(blocks))) = Len(Flatten(blocks))
<1> DEFINE N == Len(blocks)
<1>1. N \in Nat \ {0} /\ 1 \in 1..N
  OBVIOUS
<1>2. ASSUME NEW i \in 1..N
      PROVE  /\ Position(blocks, i) = Len(Before(blocks, i)) /\ Before(blocks, i) \in Seq(C)
             /\ Position(blocks, i) \in Nat /\ Position(blocks, i + 1) \in Nat
             /\ Position(blocks, i) <= Position(blocks, i + 1)
  <2> DEFINE z == Then(BlockText(blocks[i]), BlockBreak)
  <2>1. /\ Before(blocks, i) \in Seq(C) /\ Position(blocks, i) = Len(Before(blocks, i))
        /\ Before(blocks, i + 1) = Then(Before(blocks, i), z)
    BY BeforeThen
  <2>2. BlockText(blocks[i]) \in Seq(C) /\ BlockBreak \in Seq(C)
    <3>1. blocks[i] \in B
      OBVIOUS
    <3> QED BY <3>1, BreakIsText DEF Textual
  <2>3. z \in Seq(C)
    BY <2>2, Regroup
  <2> HIDE DEF z
  <2>4. Len(Before(blocks, i + 1)) = Len(Before(blocks, i)) + Len(z) /\ Len(z) \in Nat /\ Len(Before(blocks, i)) \in Nat
    BY <2>1, <2>3, Regroup
  <2>5. Position(blocks, i + 1) = Len(Before(blocks, i + 1))
    BY DEF Position, Before
  <2> QED BY <2>1, <2>4, <2>5
<1>3. Position(blocks, 1) = 0
  <2>1. Before(blocks, 1) = <<>>
    BY <1>1, BeforeThen
  <2>2. Len(<<>>) = 0
    OBVIOUS
  <2> QED BY <1>1, <1>2, <2>1, <2>2
<1>4. ASSUME NEW i \in 1..N PROVE Position(blocks, i) + Len(Stretch(blocks, i, N)) = Len(Flatten(blocks))
  <2>1. N \in i..N /\ 1 \in 1..N /\ N \in 1..N
    BY <1>1
  <2>2. Stretch(blocks, 1, N) = Then(Before(blocks, i), Stretch(blocks, i, N))
    BY <2>1, StretchStands
  <2>3. Stretch(blocks, i, N) \in Seq(C) /\ Stretch(blocks, 1, N) = Flatten(blocks)
    BY <2>1, Stretches
  <2>4. Before(blocks, i) \in Seq(C) /\ Position(blocks, i) = Len(Before(blocks, i))
    BY <1>2
  <2> QED BY <2>2, <2>3, <2>4, Regroup
<1> QED BY <1>2, <1>3, <1>4

\* The run of blocks that proves a window, and the window in it.
Stands(B, blocks, start, end, p) ==
  /\ p.blocks \in Seq(B) /\ p.blocks # <<>>
  /\ \E a, b \in Nat : /\ p.window = <<a, b>> /\ a <= b /\ b <= Len(Flatten(p.blocks))
                       /\ Slice(Flatten(p.blocks), a, b) = Slice(Flatten(blocks), start, end)

\* _evidence_window: the blocks that prove a window hold it, at the place it says.
LEMMA ProofStands ==
  ASSUME NEW C, NEW B, Textual(B, C), NEW blocks \in Seq(B), blocks # <<>>,
         NEW start \in Nat, NEW end \in Nat, start < end, end <= Len(Flatten(blocks))
  PROVE  Stands(B, blocks, start, end, Proof(blocks, start, end))
<1> DEFINE N == Len(blocks)
           L == Len(Flatten(blocks))
           at(i) == Position(blocks, i)
           ranges == Ranges(blocks)
           touched == {i \in DOMAIN blocks : start < ranges[i].end /\ end > ranges[i].start}
           first == Min(touched)
           offset == ranges[first].start
           enough == {i \in first..Len(blocks) : offset + Len(Flatten(SubSeq(blocks, first, i))) >= end}
           last == Min(enough)
           p == Proof(blocks, start, end)
<1>1. N \in Nat \ {0} /\ DOMAIN blocks = 1..N
  OBVIOUS
<1>2. /\ at(1) = 0
      /\ \A i \in 1..N : /\ at(i) \in Nat /\ at(i + 1) \in Nat /\ at(i) <= at(i + 1)
                         /\ at(i) + Len(Stretch(blocks, i, N)) = L
  BY Positions
<1>3. L \in Nat
  <2>1. 1 \in 1..N /\ 1 \in 1..Len(blocks)
    BY <1>1
  <2>2. Stretch(blocks, 1, N) \in Seq(C) /\ N \in 1..N
    <3>1. N \in 1..Len(blocks)
      BY <1>1
    <3> QED BY <1>1, <2>1, <3>1, Stretches
  <2>3. L = at(1) + Len(Stretch(blocks, 1, N))
    BY <1>2, <2>1
  <2> HIDE DEF L, at, N
  <2>4. Len(Stretch(blocks, 1, N)) \in Nat
    BY <2>2
  <2> QED BY <1>2, <2>3, <2>4
<1>4. \A i \in 1..N : ranges[i].start = at(i) /\ ranges[i].end = IF i = N THEN L ELSE at(i + 1)
  BY <1>1 DEF Ranges
<1>5. p = [blocks |-> SubSeq(blocks, first, last), window |-> <<start - offset, end - offset>>]
  BY DEF Proof
<1>6. start < end /\ end <= L
  OBVIOUS
<1> HIDE DEF p, ranges, L, at, N
<1>7. touched # {} /\ touched \subseteq 1..N
  <2> DEFINE reached == {i \in 1..N : start < ranges[i].end}
             i == Min(reached)
  <2>1. N \in reached
    BY <1>1, <1>3, <1>4, <1>6
  <2>2. i \in reached /\ \A j \in reached : i <= j
    <3>1. reached \in SUBSET Nat /\ reached # {}
      BY <1>1, <2>1
    <3> HIDE DEF reached
    <3> QED BY <3>1, LeastOf
  <2> HIDE DEF i
  <2>3. ranges[i].start <= start
    <3>1. CASE i = 1
      <4>1. 1 \in 1..N
        BY <1>1
      <4>2. ranges[1].start = 0
        BY <1>2, <1>4, <4>1
      <4> QED BY <3>1, <4>2
    <3>2. CASE i # 1
      <4>1. i - 1 \in 1..N /\ i - 1 # N /\ (i - 1) + 1 = i /\ i - 1 < i
        BY <1>1, <2>2, <3>2
      <4>2. i - 1 \notin reached
        BY <1>1, <2>2, <4>1
      <4>3. ranges[i - 1].end = at(i)
        BY <1>4, <4>1
      <4>4. at(i) \in Nat /\ ranges[i].start = at(i)
        BY <1>2, <1>4, <2>2
      <4> QED BY <4>1, <4>2, <4>3, <4>4
    <3> QED BY <3>1, <3>2
  <2>4. ranges[i].start \in Nat
    BY <1>2, <1>4, <2>2
  <2>5. i \in touched
    BY <1>1, <1>6, <2>2, <2>3, <2>4
  <2> QED BY <1>1, <2>5
<1>8. first \in touched /\ \A j \in touched : first <= j
  <2>1. touched \in SUBSET Nat
    BY <1>1, <1>7
  <2> HIDE DEF touched
  <2> QED BY <1>7, <2>1, LeastOf
<1> HIDE DEF first
<1>9. first \in 1..N /\ offset = at(first) /\ offset \in Nat
  BY <1>1, <1>2, <1>4, <1>8
<1>10. offset <= start
  <2>1. CASE first = 1
    BY <1>2, <1>9, <2>1
  <2>2. CASE first # 1
    <3>1. first - 1 \in 1..N /\ first - 1 # N /\ (first - 1) + 1 = first /\ first - 1 < first
      BY <1>1, <1>9, <2>2
    <3>2. first - 1 \notin touched
      BY <1>1, <1>8, <3>1
    <3>3. ranges[first - 1].end = at(first) /\ ranges[first - 1].start = at(first - 1) /\ at(first - 1) <= at(first)
          /\ at(first - 1) \in Nat
      BY <1>2, <1>4, <3>1
    <3>4. end > at(first)
      BY <1>8, <1>9
    <3> QED BY <1>1, <1>9, <3>1, <3>2, <3>3, <3>4
  <2> QED BY <2>1, <2>2
<1> HIDE DEF touched
<1>11. \A i \in 1..N : Flatten(SubSeq(blocks, first, i)) = Stretch(blocks, first, i)
  BY DEF Stretch
<1>12. last \in enough
  <2>1. N \in enough
    <3>1. offset + Len(Stretch(blocks, first, N)) = L
      BY <1>2, <1>9
    <3>2. N \in first..Len(blocks) /\ N \in 1..N
      BY <1>1, <1>9 DEF N
    <3>3. Flatten(SubSeq(blocks, first, N)) = Stretch(blocks, first, N)
      BY <1>11, <3>2
    <3> HIDE DEF offset
    <3> QED BY <1>3, <1>6, <3>1, <3>2, <3>3
  <2>2. enough \in SUBSET Nat
    <3>1. \A i \in first..Len(blocks) : i \in Nat
      BY <1>1, <1>9
    <3> QED BY <3>1
  <2> HIDE DEF enough
  <2> QED BY <2>1, <2>2, LeastOf
<1> HIDE DEF last
<1>13. last \in first..Len(blocks) /\ last \in 1..N /\ offset + Len(Stretch(blocks, first, last)) >= end
  <2>1. last \in first..Len(blocks) /\ offset + Len(Flatten(SubSeq(blocks, first, last))) >= end
    BY <1>12
  <2>2. last \in 1..N
    BY <1>1, <1>9, <2>1 DEF N
  <2> QED BY <1>11, <2>1, <2>2
<1> HIDE DEF enough
<1> DEFINE A == Before(blocks, first)
           M == Stretch(blocks, first, last)
<1>14. A \in Seq(C) /\ M \in Seq(C) /\ offset = Len(A)
  <2>1. first \in 1..Len(blocks)
    BY <1>9 DEF N
  <2>2. A \in Seq(C) /\ Position(blocks, first) = Len(A)
    BY <2>1, BeforeThen
  <2>3. M \in Seq(C)
    BY <1>13, <2>1, Stretches
  <2> QED BY <1>9, <2>2, <2>3 DEF at
<1>15. PICK Z \in Seq(C) : Flatten(blocks) = Then(Then(A, M), Z)
  <2>1. first \in 1..Len(blocks) /\ last \in 1..Len(blocks)
    BY <1>9, <1>13 DEF N
  <2>2. Stretch(blocks, 1, last) = Then(A, M)
    BY <1>13, <2>1, StretchStands
  <2> QED BY <2>1, <2>2, StretchBegins
<1>16. p.blocks = SubSeq(blocks, first, last) /\ p.window = <<start - offset, end - offset>> /\ Flatten(p.blocks) = M
  BY <1>5 DEF Stretch
<1>17. p.blocks \in Seq(B) /\ p.blocks # <<>>
  <2>1. first \in 1..Len(blocks)
    BY <1>9 DEF N
  <2>2. SubSeq(blocks, first, last) \in Seq(B) /\ SubSeq(blocks, first, last) # <<>>
    BY <1>13, <2>1, StretchMore
  <2> QED BY <1>16, <2>2
<1> HIDE DEF A, M, offset
<1>18. Slice(Flatten(blocks), start, end) = Slice(M, start - offset, end - offset)
  <2>1. Len(A) <= start /\ start <= end /\ end <= Len(A) + Len(M)
    BY <1>10, <1>13, <1>14 DEF M
  <2>2. Slice(Flatten(blocks), start, end) = Slice(M, start - Len(A), end - Len(A))
    BY <1>14, <1>15, <2>1, SliceWithin
  <2> QED BY <1>14, <2>2
<1>19. start - offset \in Nat /\ end - offset \in Nat /\ start - offset <= end - offset /\ end - offset <= Len(M)
  BY <1>9, <1>10, <1>13, <1>14 DEF M
<1>20. \E a, b \in Nat : /\ p.window = <<a, b>> /\ a <= b /\ b <= Len(Flatten(p.blocks))
                         /\ Slice(Flatten(p.blocks), a, b) = Slice(Flatten(blocks), start, end)
  <2> DEFINE a == start - offset
             b == end - offset
  <2>1. a \in Nat /\ b \in Nat /\ p.window = <<a, b>> /\ a <= b /\ b <= Len(Flatten(p.blocks))
    BY <1>16, <1>19
  <2>2. Slice(Flatten(p.blocks), a, b) = Slice(Flatten(blocks), start, end)
    BY <1>16, <1>18
  <2> HIDE DEF a, b
  <2> QED BY <2>1, <2>2
<1> QED BY <1>17, <1>20 DEF p, Stands

-----------------------------------------------------------------------------
(* The chunks of a document *)

\* The greater of two numbers.
LEMMA PairMax ==
  ASSUME NEW a \in Int, NEW b \in Int
  PROVE  Max({a, b}) = IF a <= b THEN b ELSE a
BY DEF Max

\* Every window begins inside the stream, and has something in it.
LEMMA WindowsFit ==
  ASSUME NEW length \in Nat, NEW size \in Nat, NEW overlap \in Nat, overlap < size, size < length
  PROVE  LET w == Windows(length, size, overlap)
         IN  /\ \E count \in Nat : DOMAIN w = 1..count /\ w = [n \in 1..count |-> w[n]]
             /\ \A n \in DOMAIN w : w[n].start \in Nat /\ w[n].end \in Nat /\ w[n].start < w[n].end /\ w[n].end <= length
<1> DEFINE step == Max({1, size - overlap})
           x == Max({0, length - size}) + step - 1
           q == x \div step
           count == 1 + (Max({0, length - size}) + step - 1) \div step
           w == Windows(length, size, overlap)
<1>1. w = [n \in 1..count |-> [start |-> (n - 1) * step, end |-> Min({(n - 1) * step + size, length})]]
  BY DEF Windows
<1>2. step = size - overlap /\ step \in Nat \ {0}
  <2>1. size - overlap \in Int /\ 1 <= size - overlap
    OBVIOUS
  <2> QED BY <2>1, PairMax
<1>3. x = length - size + step - 1 /\ x \in Nat
  <2>1. Max({0, length - size}) = length - size
    BY PairMax
  <2> HIDE DEF step
  <2> QED BY <1>2, <2>1
<1>4. count = 1 + q
  OBVIOUS
<1> HIDE DEF w, count, step, x
<1>5. q \in Nat /\ q * step <= x
  BY <1>2, <1>3
<1> HIDE DEF q
<1>6. DOMAIN w = 1..count /\ count \in Nat /\ w = [n \in 1..count |-> w[n]]
  BY <1>1, <1>4, <1>5
<1>7. ASSUME NEW n \in 1..count
      PROVE  w[n].start \in Nat /\ w[n].end \in Nat /\ w[n].start < w[n].end /\ w[n].end <= length
  <2> DEFINE s == (n - 1) * step
  <2>1. n - 1 \in Nat /\ n - 1 <= q
    BY <1>4, <1>5
  <2>2. s \in Nat /\ s <= q * step
    <3> DEFINE m == n - 1
    <3>1. m \in Nat /\ m <= q
      BY <2>1
    <3> HIDE DEF m
    <3>2. (q - m) * step \in Nat /\ q * step = m * step + (q - m) * step /\ m * step \in Nat /\ q * step \in Nat
      BY <1>2, <1>5, <3>1
    <3>3. m * step <= q * step
      BY <3>2
    <3> QED BY <3>2, <3>3 DEF m
  <2>3. w[n].start = s /\ w[n].end = Min({s + size, length})
    BY <1>1
  <2> HIDE DEF s
  <2>4. q * step \in Nat
    BY <1>2, <1>5
  <2>5. s < length
    BY <1>2, <1>3, <1>5, <2>2, <2>4
  <2>6. w[n].end = IF s + size <= length THEN s + size ELSE length
    <3>1. s + size \in Int
      BY <2>2
    <3> QED BY <2>3, <3>1, PairMin
  <2> QED BY <2>2, <2>3, <2>5, <2>6
<1> QED BY <1>6, <1>7 DEF w

\* The blocks of a region have texts.
LEMMA RegionIsText ==
  ASSUME NEW C, NEW stream, NEW blocks, Chunkable(stream, blocks, C), NEW region
  PROVE  LET B == {b \in ToSet(blocks) : b.region = region}
         IN  Textual(B, C) /\ Region(blocks, region) \in Seq(B)
<1> DEFINE B == {b \in ToSet(blocks) : b.region = region}
<1>1. blocks \in Seq(ToSet(blocks))
  BY DEF Chunkable
<1>2. Region(blocks, region) \in Seq(B)
  BY <1>1, RegionOf
<1>3. Textual(B, C)
  BY DEF Chunkable, Textual
<1> QED BY <1>2, <1>3

\* Chunks made one by one are all what a chunk has to be.
LEMMA AllOf ==
  ASSUME NEW stream, NEW n \in Nat, NEW made, made = [i \in 1..n |-> made[i]], \A i \in 1..n : Holds(stream, made[i])
  PROVE  AllHold(stream, made)
<1>1. \A i \in 1..n : made[i] \in {c \in ToSet(made) : Holds(stream, c)}
  BY DEF ToSet
<1> DEFINE S == {c \in ToSet(made) : Holds(stream, c)}
<1> HIDE DEF S
<1>2. made \in Seq(S)
  BY <1>1, Listed DEF S
<1> QED BY <1>2 DEF AllHold, S

\* chunk_fixed and chunk_sliding: every window is proved by the blocks it lies in.
LEMMA StreamsHold ==
  ASSUME NEW C, NEW stream, NEW blocks, Chunkable(stream, blocks, C), NEW region,
         NEW settings, settings.size \in Nat, settings.overlap \in Nat, ValidSettings(settings)
  PROVE  AllHold(stream, StreamChunks(stream, BlockDerivations(stream, blocks), Region(blocks, region), settings))
<1> DEFINE D == BlockDerivations(stream, blocks)
           B == {b \in ToSet(blocks) : b.region = region}
           within == Region(blocks, region)
           text == Flatten(within)
           windows == Windows(Len(text), settings.size, settings.overlap)
           proved(proof) == BlockEvidence(stream, D, proof.blocks, proof.window)
           cut(w, n) == WindowChunk(n, within, w, proved(Proof(within, w.start, w.end)))
           heading == PathOf(within, within[1].index)
           made == StreamChunks(stream, D, within, settings)
<1>1. within \in Seq(B) /\ Textual(B, C)
  BY RegionIsText
<1>2. made = CASE text = <<>> -> <<>>
               [] text # <<>> /\ Len(text) <= settings.size ->
                    <<Chunk(1, within, text, heading, BlockEvidence(stream, D, within, <<>>))>>
               [] OTHER -> [n \in DOMAIN windows |-> cut(windows[n], n)]
  BY DEF StreamChunks
<1>3. text # <<>> => within # <<>>
  BY FlattenNone
<1> HIDE DEF within, heading, made
<1>4. text \in Seq(C) /\ Len(text) \in Nat
  <2>1. CASE within = <<>>
    <3>1. text = <<>>
      BY <2>1, FlattenNone
    <3> QED BY <3>1
  <2>2. CASE within # <<>>
    <3>1. within[1] \in B
      BY <1>1, <2>2
    <3>2. text \in Seq(C)
      BY <1>1, <3>1, FlattenMore
    <3> QED BY <3>2
  <2> QED BY <2>1, <2>2
<1>5. CASE text = <<>>
  <2>1. made = <<>>
    BY <1>2, <1>5
  <2>2. <<>> = [i \in 1..0 |-> <<>>[i]]
    OBVIOUS
  <2>3. AllHold(stream, made)
    BY <2>1 DEF AllHold
  <2> QED BY <2>3 DEF made, within
<1>6. CASE text # <<>> /\ Len(text) <= settings.size
  <2> DEFINE c == Chunk(1, within, text, heading, BlockEvidence(stream, D, within, <<>>))
  <2>1. Proves(stream, BlockEvidence(stream, D, within, <<>>), text)
    BY <1>1, <1>3, <1>6, BlocksProve
  <2>2. Holds(stream, c)
    BY <2>1, ChunkHolds
  <2>3. made = <<c>>
    BY <1>2, <1>6
  <2> HIDE DEF c
  <2>4. made = [i \in 1..1 |-> made[i]] /\ \A i \in 1..1 : Holds(stream, made[i])
    BY <2>2, <2>3
  <2>5. AllHold(stream, made)
    BY <2>4, AllOf
  <2> QED BY <2>5 DEF made, within
<1>7. CASE ~(text = <<>>) /\ ~(text # <<>> /\ Len(text) <= settings.size)
  <2>1. made = [n \in DOMAIN windows |-> cut(windows[n], n)]
    BY <1>2, <1>7
  <2>2. /\ \E count \in Nat : DOMAIN windows = 1..count /\ windows = [n \in 1..count |-> windows[n]]
        /\ \A n \in DOMAIN windows : /\ windows[n].start \in Nat /\ windows[n].end \in Nat
                                     /\ windows[n].start < windows[n].end /\ windows[n].end <= Len(text)
    <3> DEFINE l == Len(text)
               s == settings.size
               o == settings.overlap
    <3>1. l \in Nat /\ s \in Nat /\ o \in Nat /\ o < s /\ s < l
      BY <1>4, <1>7 DEF ValidSettings
    <3> HIDE DEF l, s, o
    <3>2. LET w == Windows(l, s, o)
          IN  /\ \E count \in Nat : DOMAIN w = 1..count /\ w = [n \in 1..count |-> w[n]]
              /\ \A n \in DOMAIN w : w[n].start \in Nat /\ w[n].end \in Nat /\ w[n].start < w[n].end /\ w[n].end <= l
      BY <3>1, WindowsFit
    <3> QED BY <3>2 DEF l, s, o
  <2> HIDE DEF windows
  <2>3. ASSUME NEW n \in DOMAIN windows PROVE Holds(stream, cut(windows[n], n))
    <3> DEFINE w == windows[n]
               p == Proof(within, w.start, w.end)
               e == proved(p)
               piece == Slice(text, w.start, w.end)
    <3>1. w.start \in Nat /\ w.end \in Nat /\ w.start < w.end /\ w.end <= Len(text)
      BY <2>2, <2>3
    <3> HIDE DEF w
    <3>2. /\ p.blocks \in Seq(B) /\ p.blocks # <<>>
          /\ \E a, b \in Nat : /\ p.window = <<a, b>> /\ a <= b /\ b <= Len(Flatten(p.blocks))
                               /\ Slice(Flatten(p.blocks), a, b) = piece
      <4> DEFINE start == w.start
                 end == w.end
      <4>1. start \in Nat /\ end \in Nat /\ start < end /\ end <= Len(Flatten(within))
        BY <3>1
      <4>2. within # <<>> /\ within \in Seq(B) /\ Textual(B, C)
        BY <1>1, <1>3, <1>7
      <4> HIDE DEF start, end, B
      <4>3. Stands(B, within, start, end, Proof(within, start, end))
        BY <4>1, <4>2, ProofStands
      <4> QED BY <4>3 DEF start, end, Stands
    <3> HIDE DEF p
    <3>3. PICK a \in Nat, b \in Nat : /\ p.window = <<a, b>> /\ a <= b /\ b <= Len(Flatten(p.blocks))
                                      /\ Slice(Flatten(p.blocks), a, b) = piece
      BY <3>2
    <3> HIDE DEF piece
    <3>4. Proves(stream, e, piece)
      <4> DEFINE group == p.blocks
                 window == p.window
      <4>1. group \in Seq(B) /\ group # <<>> /\ window = <<a, b>> /\ a <= b /\ b <= Len(Flatten(group))
        BY <3>2, <3>3
      <4>2. window # <<>> /\ window[1] = a /\ window[2] = b
        BY <4>1
      <4> HIDE DEF group, window
      <4>3. Proves(stream, BlockEvidence(stream, D, group, window),
                   IF window = <<>> THEN Flatten(group) ELSE Slice(Flatten(group), window[1], window[2]))
        BY <4>1, BlocksProve
      <4>4. Proves(stream, BlockEvidence(stream, D, group, window), Slice(Flatten(group), a, b))
        BY <4>2, <4>3
      <4> QED BY <3>3, <4>4 DEF group, window
    <3> DEFINE hit == Intersecting(within, w.start, w.end)
    <3>5. cut(windows[n], n) = Chunk(n, hit, piece, <<>>, e)
      BY DEF WindowChunk, w, p, piece
    <3> HIDE DEF hit, e
    <3>6. Holds(stream, Chunk(n, hit, piece, <<>>, e))
      BY <3>4, ChunkHolds
    <3> HIDE DEF cut
    <3> QED BY <3>5, <3>6
  <2>4. PICK count \in Nat : DOMAIN windows = 1..count
    BY <2>2
  <2> HIDE DEF cut
  <2>5. made = [i \in 1..count |-> made[i]] /\ \A i \in 1..count : Holds(stream, made[i])
    BY <2>1, <2>3, <2>4
  <2>6. AllHold(stream, made)
    BY <2>5, AllOf
  <2> QED BY <2>6 DEF made, within
<1> QED BY <1>5, <1>6, <1>7

\* The five strategies of build_chunks.
Strategies == {"paragraph", "sentence", "structure", "fixed", "sliding"}

\* Whichever strategy it is, the chunks of a region hold.
LEMMA RegionsHold ==
  ASSUME NEW C, NEW stream, NEW blocks, Chunkable(stream, blocks, C), NEW region,
         NEW settings \in [strategy : Strategies, size : Nat, overlap : Nat], ValidSettings(settings)
  PROVE  AllHold(stream, RegionChunks(stream, BlockDerivations(stream, blocks), Region(blocks, region), settings))
<1> DEFINE D == BlockDerivations(stream, blocks)
           within == Region(blocks, region)
           made == RegionChunks(stream, D, within, settings)
<1>1. settings.strategy \in Strategies /\ settings.size \in Nat /\ settings.overlap \in Nat
  OBVIOUS
<1>2. CASE settings.strategy = "paragraph"
  <2>1. made = ParagraphChunks(stream, D, within, settings)
    BY <1>2 DEF RegionChunks
  <2> QED BY <2>1, ParagraphsHold
<1>3. CASE settings.strategy = "sentence"
  <2>1. made = SentenceChunks(stream, D, within, settings)
    BY <1>3 DEF RegionChunks
  <2> QED BY <2>1, SentencesHold
<1>4. CASE settings.strategy = "structure"
  <2>1. made = StructureChunks(stream, D, within, settings)
    BY <1>4 DEF RegionChunks
  <2> QED BY <2>1, StructuresHold
<1>5. CASE settings.strategy \in {"fixed", "sliding"}
  <2>1. made = StreamChunks(stream, D, within, settings)
    BY <1>5 DEF RegionChunks
  <2> QED BY <1>1, <2>1, StreamsHold
<1> QED BY <1>1, <1>2, <1>3, <1>4, <1>5 DEF Strategies

\* Whatever the characters, the stream, the blocks of it and the settings: every chunk's text follows
\* from its evidence and the stream alone, and an exact span is where the text stands.
THEOREM ChunksFollow ==
  ASSUME NEW C, NEW stream, NEW blocks, Chunkable(stream, blocks, C),
         NEW settings \in [strategy : Strategies, size : Nat, overlap : Nat], ValidSettings(settings)
  PROVE  LET chunks == BuildChunks(stream, BlockDerivations(stream, blocks), blocks, settings).chunks
         IN  Proved(stream, chunks) /\ SpansExact(stream, chunks)
<1> DEFINE D == BlockDerivations(stream, blocks)
           names == RegionNames(blocks)
           part(n) == RegionChunks(stream, D, Region(blocks, names[n]), settings)
           parts == [n \in DOMAIN names |-> part(n)]
           chunks == BuildChunks(stream, D, blocks, settings).chunks
<1>1. chunks = Concat(parts)
  BY DEF BuildChunks, Checked
<1>2. \A n \in DOMAIN names : AllHold(stream, part(n))
  BY RegionsHold
<1>3. \E n \in Nat : DOMAIN names = 1..n
  <2> DEFINE P == {i \in DOMAIN blocks : \A j \in 1..(i - 1) : blocks[j].region # blocks[i].region}
             first == Those(blocks, P)
             X == {blocks[i] : i \in P \cap DOMAIN blocks}
  <2>1. blocks \in Seq(ToSet(blocks))
    BY DEF Chunkable
  <2>2. first \in Seq(X)
    BY <2>1, ThoseOf
  <2>3. names = [n \in DOMAIN first |-> first[n].region]
    BY DEF RegionNames
  <2> HIDE DEF first, X, names
  <2>4. DOMAIN first = 1..Len(first) /\ Len(first) \in Nat
    BY <2>2
  <2> QED BY <2>3, <2>4
<1> HIDE DEF names, part, chunks
<1>4. PICK n \in Nat : DOMAIN names = 1..n
  BY <1>3
<1> DEFINE H == {c \in UNION {ToSet(part(k)) : k \in 1..n} : Holds(stream, c)}
<1>5. \A k \in 1..n : part(k) \in Seq(H)
  <2> TAKE k \in 1..n
  <2> DEFINE x == part(k)
             G == {c \in ToSet(x) : Holds(stream, c)}
  <2>1. x \in Seq(G)
    BY <1>2, <1>4 DEF AllHold
  <2>2. G \subseteq H
    OBVIOUS
  <2> HIDE DEF x, G, H
  <2>3. x \in Seq(H)
    BY <2>1, <2>2
  <2> QED BY <2>3 DEF x
<1> HIDE DEF H
<1>6. parts \in Seq(Seq(H))
  <2> DEFINE S == Seq(H)
  <2>1. parts = [k \in 1..n |-> parts[k]] /\ \A k \in 1..n : parts[k] \in S
    BY <1>4, <1>5
  <2> HIDE DEF S, parts
  <2>2. parts \in Seq(S)
    BY <2>1, Listed
  <2> QED BY <2>2 DEF S
<1> HIDE DEF parts
<1>7. chunks \in Seq(H)
  <2>1. PICK f : Concatenated(parts, H, f) /\ Concat(parts) = f[Len(parts)]
    BY <1>6, ConcatSteps
  <2>2. Len(parts) \in 0..Len(parts)
    BY <1>6
  <2> QED BY <1>1, <2>1, <2>2 DEF Concatenated
<1>8. \A c \in ToSet(chunks) : Holds(stream, c)
  <2>1. \A i \in DOMAIN chunks : chunks[i] \in H
    BY <1>7
  <2>2. \A c \in H : Holds(stream, c)
    BY DEF H
  <2> QED BY <2>1, <2>2 DEF ToSet
<1> QED BY <1>8 DEF Proved, SpansExact, Holds, chunks, D

-----------------------------------------------------------------------------
(* The document from its source on *)

\* The characters of texts, among them those of separators.
CharacterSet(C) == {" ", "nl"} \subseteq C /\ "EvidenceError" \notin C

\* Those of them that have a range of the stream.
PlacedBlocks(C, Regions, stream) ==
  {b \in ParsedBlocks(C, Regions) : b.end \in b.start..Len(stream)}

\* No two blocks have one number.
Apart(blocks) == \A i, j \in DOMAIN blocks : blocks[i].index = blocks[j].index => i = j

\* A document that stands in a stream.
Document(C, Regions, stream, blocks) == blocks \in Seq(PlacedBlocks(C, Regions, stream)) /\ Apart(blocks)

\* block_text of pieces with texts is a text.
LEMMA BlockTextOf ==
  ASSUME NEW C, NEW b, b.pieces \in Seq(PiecesOf(C))
  PROVE  BlockText(b) \in Seq(C)
<1> DEFINE pieces == b.pieces
           n == Len(pieces)
           parts == [i \in DOMAIN pieces |-> pieces[i].value]
<1>1. n \in Nat /\ DOMAIN pieces = 1..n /\ \A i \in 1..n : pieces[i].value \in Seq(C)
  <2>1. \A p \in PiecesOf(C) : p.value \in Seq(C)
    BY DEF PiecesOf
  <2>2. n \in Nat /\ DOMAIN pieces = 1..n /\ \A i \in 1..n : pieces[i] \in PiecesOf(C)
    OBVIOUS
  <2> QED BY <2>1, <2>2
<1>2. BlockText(b) = Concat(parts)
  BY DEF BlockText
<1> HIDE DEF pieces, n
<1>3. parts = [i \in 1..n |-> parts[i]] /\ \A i \in 1..n : parts[i] \in Seq(C)
  BY <1>1
<1> HIDE DEF parts
<1> DEFINE S == Seq(C)
<1>4. \A i \in 1..n : parts[i] \in S
  BY <1>3
<1> HIDE DEF S
<1>5. parts \in Seq(S)
  BY <1>1, <1>3, <1>4, Listed
<1>6. PICK f : Concatenated(parts, C, f) /\ Concat(parts) = f[Len(parts)]
  BY <1>5, ConcatSteps DEF S
<1>7. Len(parts) \in 0..Len(parts)
  BY <1>5
<1> QED BY <1>2, <1>6, <1>7 DEF Concatenated

\* Such a document is what the chunker needs.
LEMMA DocumentChunkable ==
  ASSUME NEW C, CharacterSet(C), NEW Regions, NEW stream \in Seq(C),
         NEW blocks, Document(C, Regions, stream, blocks)
  PROVE  Chunkable(stream, blocks, C)
<1> DEFINE W == PlacedBlocks(C, Regions, stream)
<1>1. blocks \in Seq(W) /\ Apart(blocks)
  BY DEF Document
<1>2. \A b \in W : BlockText(b) \in Seq(C) /\ b.start \in Nat /\ b.end \in b.start..Len(stream)
  <2> TAKE b \in W
  <2>1. b \in ParsedBlocks(C, Regions) /\ b.end \in b.start..Len(stream)
    BY DEF PlacedBlocks
  <2>2. b.pieces \in Seq(PiecesOf(C)) /\ b.start \in Nat
    BY <2>1 DEF ParsedBlocks
  <2> QED BY <2>1, <2>2, BlockTextOf
<1> HIDE DEF W
<1>3. ToSet(blocks) \subseteq W /\ blocks \in Seq(ToSet(blocks))
  BY <1>1 DEF ToSet
<1>4. {" ", "nl"} \subseteq C /\ "EvidenceError" \notin C
  BY DEF CharacterSet
<1> QED BY <1>1, <1>2, <1>3, <1>4 DEF Chunkable, Apart

\* attach_canonical_provenance makes a document of what a parser returns.
LEMMA ProvenancePlaces ==
  ASSUME NEW C, CharacterSet(C), NEW Regions, NEW blocks \in Seq(ParsedBlocks(C, Regions))
  PROVE  LET placed == WithProvenance(blocks)
         IN  Flatten(placed) \in Seq(C) /\ Document(C, Regions, Flatten(placed), placed)
<1> DEFINE U == ParsedBlocks(C, Regions)
           n == Len(blocks)
           placed == WithProvenance(blocks)
           stream == Flatten(placed)
<1>1. n \in Nat /\ DOMAIN blocks = 1..n /\ \A i \in 1..n : blocks[i] \in U
  OBVIOUS
<1>2. Textual(U, C)
  <2>1. "nl" \in C
    BY DEF CharacterSet
  <2>2. \A b \in U : b.pieces \in Seq(PiecesOf(C))
    BY DEF ParsedBlocks
  <2> HIDE DEF U
  <2>3. \A b \in U : BlockText(b) \in Seq(C)
    BY <2>2, BlockTextOf
  <2> QED BY <2>1, <2>3 DEF Textual
<1> HIDE DEF U
<1>3. /\ placed = [i \in 1..n |-> placed[i]] /\ DOMAIN placed = 1..n
      /\ \A i \in 1..n : placed[i] = [blocks[i] EXCEPT !.index = i - 1, !.start = Position(blocks, i),
                                                       !.end = Position(blocks, i) + Len(BlockText(blocks[i]))]
  BY <1>1 DEF WithProvenance
<1> HIDE DEF placed
<1>4. ASSUME NEW i \in 1..n
      PROVE  /\ BlockText(blocks[i]) \in Seq(C) /\ Position(blocks, i) \in Nat
             /\ Position(blocks, i) + Len(BlockText(blocks[i])) <= Len(Flatten(blocks))
             /\ Len(BlockText(blocks[i])) \in Nat /\ Flatten(blocks) \in Seq(C)
  <2>1. i \in 1..Len(blocks) /\ blocks # <<>> /\ i \in i..Len(blocks) /\ blocks[i] \in U
    BY <1>1
  <2>2. BlockText(blocks[i]) \in Seq(C)
    BY <1>2, <2>1 DEF Textual
  <2>3. Before(blocks, i) \in Seq(C) /\ Position(blocks, i) = Len(Before(blocks, i))
    BY <1>1, <1>2, <2>1, BeforeThen DEF U
  <2>4. Stretch(blocks, 1, i) = Then(Before(blocks, i), Stretch(blocks, i, i)) /\ Stretch(blocks, i, i) = BlockText(blocks[i])
    <3>1. Stretch(blocks, 1, i) = Then(Before(blocks, i), Stretch(blocks, i, i))
      BY <1>2, <2>1, StretchStands DEF U
    <3>2. Stretch(blocks, i, i) = BlockText(blocks[i])
      BY <1>2, <2>1, Stretches DEF U
    <3> QED BY <3>1, <3>2
  <2>5. PICK z \in Seq(C) : Flatten(blocks) = Then(Stretch(blocks, 1, i), z)
    BY <1>2, <2>1, StretchBegins DEF U
  <2>6. Stretch(blocks, 1, i) \in Seq(C) /\ Len(Stretch(blocks, 1, i)) = Position(blocks, i) + Len(BlockText(blocks[i]))
    <3> DEFINE A == Before(blocks, i)
               M == BlockText(blocks[i])
    <3>1. A \in Seq(C) /\ M \in Seq(C) /\ Stretch(blocks, 1, i) = Then(A, M) /\ Position(blocks, i) = Len(A)
      BY <2>2, <2>3, <2>4
    <3> HIDE DEF A, M
    <3>2. Then(A, M) \in Seq(C) /\ Len(Then(A, M)) = Len(A) + Len(M)
      BY <3>1, Regroup
    <3> QED BY <3>1, <3>2 DEF M
  <2>7. Flatten(blocks) \in Seq(C) /\ Len(Flatten(blocks)) = Len(Stretch(blocks, 1, i)) + Len(z)
    BY <2>5, <2>6, Regroup
  <2> DEFINE p == Position(blocks, i)
             t == Len(BlockText(blocks[i]))
             f == Len(Flatten(blocks))
  <2>8. p \in Nat /\ t \in Nat /\ Len(z) \in Nat /\ f = p + t + Len(z)
    <3>1. p \in Nat
      BY <2>3
    <3>2. t \in Nat
      BY <2>2
    <3>3. Len(z) \in Nat
      OBVIOUS
    <3> QED BY <2>6, <2>7, <3>1, <3>2, <3>3
  <2> HIDE DEF p, t, f
  <2>9. p + t <= f
    BY <2>8
  <2> QED BY <2>2, <2>7, <2>8, <2>9 DEF p, t, f
<1>5. ASSUME NEW i \in 1..n
      PROVE  /\ placed[i] \in U /\ placed[i].index = i - 1 /\ placed[i].start = Position(blocks, i)
             /\ placed[i].end = Position(blocks, i) + Len(BlockText(blocks[i])) /\ placed[i].pieces = blocks[i].pieces
  <2> DEFINE p == Position(blocks, i)
             e == Position(blocks, i) + Len(BlockText(blocks[i]))
             b == blocks[i]
  <2>1. p \in Nat /\ e \in Nat /\ i - 1 \in Nat /\ b \in U
    BY <1>1, <1>4
  <2>2. placed[i] = [b EXCEPT !.index = i - 1, !.start = p, !.end = e]
    BY <1>3
  <2> HIDE DEF p, e, b
  <2>3. /\ placed[i] \in U /\ placed[i].index = i - 1 /\ placed[i].start = p /\ placed[i].end = e
        /\ placed[i].pieces = b.pieces
    BY <2>1, <2>2 DEF U, ParsedBlocks
  <2> QED BY <2>3 DEF p, e, b
<1>6. Flatten(placed) = Flatten(blocks)
  <2>1. \A i \in 1..n : BlockText(placed[i]) = BlockText(blocks[i])
    BY <1>5 DEF BlockText
  <2>2. Texts(placed) = Texts(blocks)
    BY <1>1, <1>3, <2>1 DEF Texts
  <2> QED BY <2>2 DEF Flatten
<1>7. stream \in Seq(C)
  <2>1. CASE n = 0
    <3>1. blocks = <<>>
      BY <1>1, <2>1
    <3>2. stream = <<>>
      BY <1>6, <3>1, FlattenNone
    <3> QED BY <3>2
  <2>2. CASE n # 0
    <3>1. 1 \in 1..n
      BY <1>1, <2>2
    <3> QED BY <1>4, <1>6, <3>1
  <2> QED BY <2>1, <2>2
<1> DEFINE W == PlacedBlocks(C, Regions, stream)
<1>8. \A i \in 1..n : placed[i] \in W
  <2> TAKE i \in 1..n
  <2>1. placed[i].end \in placed[i].start..Len(stream)
    <3> DEFINE p == Position(blocks, i)
               t == Len(BlockText(blocks[i]))
               f == Len(Flatten(blocks))
    <3>1. p \in Nat /\ t \in Nat /\ p + t <= f /\ f \in Nat
      BY <1>4
    <3>2. placed[i].start = p /\ placed[i].end = p + t /\ Len(stream) = f
      BY <1>5, <1>6
    <3> HIDE DEF p, t, f, stream
    <3> QED BY <3>1, <3>2
  <2> QED BY <1>5, <2>1 DEF PlacedBlocks, U
<1> HIDE DEF W, stream
<1>9. placed \in Seq(W)
  BY <1>1, <1>3, <1>8, Listed
<1>10. Apart(placed)
  <2> SUFFICES ASSUME NEW i \in 1..n, NEW j \in 1..n, placed[i].index = placed[j].index PROVE i = j
    BY <1>3 DEF Apart
  <2>1. i - 1 = j - 1 /\ i \in Int /\ j \in Int
    BY <1>5
  <2> QED BY <2>1
<1> QED BY <1>7, <1>9, <1>10 DEF Document, W, stream, placed

\* The place of i in a set of numbers.
Rank(kept, i) == Cardinality({j \in kept : j <= i})

\* What is left of the first N positions when one is taken out.
LeftOver(kept, N, at) == kept = (1..N) \ {at}

\* Without one of them, N positions have the ranks 1 to N - 1.
LEMMA Ranks ==
  ASSUME NEW N \in Nat, NEW at \in 1..N, NEW kept, LeftOver(kept, N, at)
  PROVE  /\ Cardinality(kept) = N - 1
         /\ \A n \in 1..(N - 1) : \E i \in kept : Rank(kept, i) = n
<1>1. kept = (1..N) \ {at} /\ at \in Nat /\ 1 <= at /\ at <= N
  BY DEF LeftOver
<1>2. IsFiniteSet(1..N) /\ Cardinality(1..N) = N
  BY FS_Interval
<1>3. Cardinality(kept) = N - 1
  BY <1>1, <1>2, FS_RemoveElement
<1>4. ASSUME NEW n \in 1..(N - 1) PROVE \E i \in kept : Rank(kept, i) = n
  <2>1. CASE n < at
    <3>1. n \in kept
      BY <1>1, <2>1
    <3>2. {j \in kept : j <= n} = 1..n
      BY <1>1, <2>1
    <3>3. Cardinality(1..n) = n
      BY FS_Interval
    <3>4. Rank(kept, n) = n
      BY <3>2, <3>3 DEF Rank
    <3> QED BY <3>1, <3>4
  <2>2. CASE at <= n
    <3>1. n + 1 \in kept
      BY <1>1, <2>2
    <3>2. {j \in kept : j <= n + 1} = (1..(n + 1)) \ {at}
      BY <1>1, <2>2
    <3>3. IsFiniteSet(1..(n + 1)) /\ Cardinality(1..(n + 1)) = n + 1
      BY FS_Interval
    <3>4. at \in 1..(n + 1)
      BY <1>1, <2>2
    <3>5. Cardinality((1..(n + 1)) \ {at}) = n
      <4>1. Cardinality((1..(n + 1)) \ {at}) = Cardinality(1..(n + 1)) - 1
        BY <3>3, <3>4, FS_RemoveElement
      <4> QED BY <3>3, <4>1
    <3>6. Rank(kept, n + 1) = n
      BY <3>2, <3>5 DEF Rank
    <3> QED BY <3>1, <3>6
  <2> QED BY <1>1, <2>1, <2>2
<1> QED BY <1>3, <1>4

\* A document without one of its blocks.
LEMMA WithoutOne ==
  ASSUME NEW W, NEW doc \in Seq(W), Apart(doc), NEW at \in DOMAIN doc
  PROVE  Without(doc, {at}) \in Seq(W) /\ Apart(Without(doc, {at}))
<1> DEFINE N == Len(doc)
           kept == {i \in DOMAIN doc : i \notin {at}}
           rank(i) == Rank(kept, i)
           chosen(n) == CHOOSE i \in kept : rank(i) = n
           w == Without(doc, {at})
<1>1. N \in Nat /\ DOMAIN doc = 1..N /\ \A i \in 1..N : doc[i] \in W
  OBVIOUS
<1>2. w = [n \in 1..Cardinality(kept) |-> doc[chosen(n)]]
  BY DEF Without, Rank
<1>3. Cardinality(kept) = N - 1 /\ \A n \in 1..(N - 1) : \E i \in kept : rank(i) = n
  <2>1. at \in 1..N
    BY <1>1
  <2>2. LeftOver(kept, N, at)
    BY <1>1 DEF LeftOver
  <2> HIDE DEF kept, N
  <2>3. N \in Nat
    BY <1>1
  <2>4. Cardinality(kept) = N - 1 /\ \A n \in 1..(N - 1) : \E i \in kept : Rank(kept, i) = n
    BY <2>1, <2>2, <2>3, Ranks
  <2> QED BY <2>4
<1> HIDE DEF w, rank
<1>4. \A n \in 1..(N - 1) : chosen(n) \in kept /\ rank(chosen(n)) = n
  BY <1>3
<1>5. kept \subseteq 1..N /\ N - 1 \in Nat
  BY <1>1
<1> HIDE DEF chosen, kept
<1>6. w = [n \in 1..(N - 1) |-> w[n]] /\ \A n \in 1..(N - 1) : w[n] = doc[chosen(n)]
  BY <1>2, <1>3
<1> HIDE DEF N
<1>7. w \in Seq(W) /\ DOMAIN w = 1..(N - 1)
  <2> DEFINE m == N - 1
  <2>1. m \in Nat /\ w = [n \in 1..m |-> w[n]] /\ \A n \in 1..m : w[n] \in W
    BY <1>1, <1>4, <1>5, <1>6
  <2> HIDE DEF m
  <2>2. w \in Seq(W) /\ DOMAIN w = 1..m
    BY <2>1, Listed
  <2> QED BY <2>2 DEF m
<1>8. Apart(w)
  <2> SUFFICES ASSUME NEW n \in 1..(N - 1), NEW m \in 1..(N - 1), w[n].index = w[m].index PROVE n = m
    BY <1>7 DEF Apart
  <2>1. chosen(n) \in DOMAIN doc /\ chosen(m) \in DOMAIN doc
    BY <1>1, <1>4, <1>5
  <2>2. doc[chosen(n)].index = doc[chosen(m)].index
    BY <1>6
  <2>3. chosen(n) = chosen(m)
    BY <2>1, <2>2 DEF Apart
  <2> QED BY <1>4, <2>3
<1> QED BY <1>7, <1>8 DEF w

\* One operation of a plan.
LEMMA ApplyKeeps ==
  ASSUME NEW C, NEW Regions, NEW stream, NEW doc, Document(C, Regions, stream, doc),
         NEW op, op.by \in Seq(C), Applicable(doc, op)
  PROVE  Document(C, Regions, stream, Apply(doc, op))
<1> DEFINE W == PlacedBlocks(C, Regions, stream)
<1>1. doc \in Seq(W) /\ Apart(doc) /\ op.at \in DOMAIN doc
  BY DEF Document, Applicable
<1>2. CASE op.kind = "remove-block"
  <2>1. Apply(doc, op) = Without(doc, {op.at})
    BY <1>2 DEF Apply
  <2> HIDE DEF W
  <2>2. Without(doc, {op.at}) \in Seq(W) /\ Apart(Without(doc, {op.at}))
    BY <1>1, WithoutOne
  <2> QED BY <2>1, <2>2 DEF Document, W
<1>3. CASE op.kind # "remove-block"
  <2> DEFINE n == op.at
             k == op.piece
             by == op.by
             b == doc[n]
             p == b.pieces
             new == [b EXCEPT !.pieces = [p EXCEPT ![k] = [p[k] EXCEPT !.value = by]]]
             after == [doc EXCEPT ![n] = new]
  <2>1. k \in DOMAIN p
    BY <1>3 DEF Applicable
  <2>2. Apply(doc, op) = after
    BY <1>3 DEF Apply
  <2>3. b \in W /\ by \in Seq(C) /\ n \in DOMAIN doc
    BY <1>1
  <2> HIDE DEF b, by, n, W
  <2>4. b \in ParsedBlocks(C, Regions) /\ b.end \in b.start..Len(stream)
    BY <2>3 DEF W, PlacedBlocks
  <2>5. p \in Seq(PiecesOf(C))
    BY <2>4 DEF ParsedBlocks
  <2> DEFINE x == [p[k] EXCEPT !.value = by]
             q == [p EXCEPT ![k] = x]
  <2>6. x \in PiecesOf(C)
    <3> HIDE DEF p, k
    <3>1. p[k] \in PiecesOf(C)
      BY <2>1, <2>5
    <3> DEFINE y == p[k]
    <3>2. y \in PiecesOf(C)
      BY <3>1
    <3> HIDE DEF y
    <3>3. [y EXCEPT !.value = by] \in PiecesOf(C)
      BY <2>3, <3>2 DEF PiecesOf
    <3> QED BY <3>3 DEF y
  <2>7. q \in Seq(PiecesOf(C))
    <3> HIDE DEF x, p, k
    <3> QED BY <2>1, <2>5, <2>6
  <2>8. new = [b EXCEPT !.pieces = q]
    OBVIOUS
  <2> HIDE DEF q, x, p, k, new
  <2>9. new \in ParsedBlocks(C, Regions) /\ new.start = b.start /\ new.end = b.end /\ new.index = b.index
    BY <2>4, <2>7, <2>8 DEF ParsedBlocks
  <2>10. new \in W
    BY <2>4, <2>9 DEF W, PlacedBlocks
  <2>11. after \in Seq(W) /\ DOMAIN after = DOMAIN doc
    BY <1>1, <2>3, <2>10
  <2>12. \A i \in DOMAIN doc : after[i].index = doc[i].index
    BY <1>1, <2>3, <2>9 DEF b
  <2> HIDE DEF after
  <2>13. Apart(after)
    BY <1>1, <2>11, <2>12 DEF Apart
  <2> QED BY <2>2, <2>11, <2>13 DEF Document, W
<1> QED BY <1>2, <1>3

\* The documents over one stream.
DocumentsOver(C, Regions, stream) == {d \in Seq(PlacedBlocks(C, Regions, stream)) : Apart(d)}

\* Membership, for rewriting.
LEMMA DocumentSet ==
  ASSUME NEW C, NEW Regions, NEW stream, NEW d
  PROVE  d \in DocumentsOver(C, Regions, stream) <=> Document(C, Regions, stream, d)
BY DEF DocumentsOver, Document

\* replay_cleaning_plan makes a document of a document, whatever it finds applicable.
LEMMA ReplayedOf ==
  ASSUME NEW C, NEW Regions, NEW stream, NEW document, Document(C, Regions, stream, document),
         NEW O, \A op \in O : op.by \in Seq(C),
         NEW plan, plan.ops \in Seq(O)
  PROVE  Replayed(document, plan) \in [ok : BOOLEAN, doc : DocumentsOver(C, Regions, stream)]
<1> DEFINE n == Len(plan.ops)
           V == [ok : BOOLEAN, doc : DocumentsOver(C, Regions, stream)]
           op(v, i) == [ok |-> v.ok /\ Applicable(v.doc, plan.ops[i]),
                        doc |-> IF v.ok /\ Applicable(v.doc, plan.ops[i])
                                  THEN Apply(v.doc, plan.ops[i]) ELSE v.doc]
           base == [ok |-> TRUE, doc |-> document]
           step == [p \in (1..n) \X V |-> op(p[2], p[1])]
           F(f) == [s \in SUBSET (1..n) |-> IF s = {} THEN base ELSE op(f[s \ {Max(s)}], Max(s))]
           iter == CHOOSE f : f = F(f)
           it == CHOOSE f : Turns(step, base, 1..n, f) /\ \A s \in SUBSET (1..n) : f[s] \in V
<1>1. Replayed(document, plan) = iter[1..n]
  <2> DEFINE G(f) == [s \in SUBSET DOMAIN plan.ops |-> IF s = {} THEN base ELSE op(f[s \ {Max(s)}], Max(s))]
  <2>1. Replayed(document, plan) = (CHOOSE f : f = G(f))[DOMAIN plan.ops]
    BY DEF Replayed, FoldLeft, MapThenFoldSet
  <2>2. DOMAIN plan.ops = 1..n
    OBVIOUS
  <2> HIDE DEF op
  <2>4. ASSUME NEW f PROVE G(f) = F(f)
    <3> HIDE DEF n
    <3> QED BY <2>2
  <2> HIDE DEF G, F
  <2> QED BY <2>1, <2>2, <2>4
<1>2. n \in Nat /\ base \in V /\ \A i \in 1..n, v \in V : op(v, i) \in V /\ step[<<i, v>>] = op(v, i)
  <2>1. ASSUME NEW i \in 1..n, NEW v \in V PROVE op(v, i) \in V
    <3> DEFINE o == plan.ops[i]
    <3>1. o \in O /\ o.by \in Seq(C) /\ v.ok \in BOOLEAN /\ v.doc \in DocumentsOver(C, Regions, stream)
      OBVIOUS
    <3> HIDE DEF o
    <3>2. Applicable(v.doc, o) \in BOOLEAN
      BY DEF Applicable
    <3>3. ASSUME Applicable(v.doc, o) PROVE Apply(v.doc, o) \in DocumentsOver(C, Regions, stream)
      BY <3>1, <3>3, ApplyKeeps, DocumentSet
    <3> QED BY <3>1, <3>2, <3>3 DEF o
  <2>2. n \in Nat /\ base \in V
    <3>1. document \in DocumentsOver(C, Regions, stream)
      BY DocumentSet
    <3> QED BY <3>1
  <2> HIDE DEF V, op
  <2>3. \A i \in 1..n, v \in V : step[<<i, v>>] = op(v, i)
    OBVIOUS
  <2> QED BY <2>1, <2>2, <2>3
<1> HIDE DEF n, V, op, base, step
<1>3. Turns(step, base, 1..n, it) /\ \A s \in SUBSET (1..n) : it[s] \in V
  <2>1. \E f : Turns(step, base, 1..n, f) /\ \A s \in SUBSET (1..n) : f[s] \in V
    BY <1>2, FoldExists
  <2> QED BY <2>1
<1> HIDE DEF it
<1>4. it = F(it)
  <2>1. ASSUME NEW s \in SUBSET (1..n), s # {} PROVE step[<<Max(s), it[s \ {Max(s)}]>>] = op(it[s \ {Max(s)}], Max(s))
    <3>1. Max(s) \in 1..n
      BY <1>2, <2>1, IndexMost
    <3> QED BY <1>2, <1>3, <3>1
  <2> QED BY <1>3, <2>1 DEF Turns
<1>5. iter = F(iter)
  BY <1>4
<1> HIDE DEF iter
<1>6. iter[{}] \in V
  BY <1>2, <1>5
<1>7. ASSUME NEW i \in 1..n, iter[1..(i - 1)] \in V PROVE iter[1..i] \in V
  <2>1. i \in Nat \ {0} /\ 1..i \in SUBSET (1..n)
    BY <1>2
  <2>2. iter[1..i] = op(iter[1..(i - 1)], i)
    BY <1>5, <2>1, LastOfPrefix
  <2> QED BY <1>2, <1>7, <2>2
<1>8. iter[1..n] \in V
  BY <1>2, <1>6, <1>7, FoldStays
<1> QED BY <1>1, <1>8 DEF V, n

\* Whatever a parser made, whatever plan replays over it, and whatever the settings: every chunk of
\* the cleaned document follows from its evidence and the stream that was captured, and a span that
\* claims to be exact is where the text stands (build_chunks, make_chunk, evidence.py).
THEOREM ChunksOfCleanedFollow ==
  ASSUME NEW C, CharacterSet(C), NEW Regions, NEW blocks \in Seq(ParsedBlocks(C, Regions)),
         NEW O, \A op \in O : op.by \in Seq(C),
         NEW plan, plan.ops \in Seq(O), PlanReplays(WithProvenance(blocks), plan),
         NEW settings \in [strategy : Strategies, size : Nat, overlap : Nat], ValidSettings(settings)
  PROVE  LET stream == Flatten(WithProvenance(blocks))
             chunks == BuildChunks(stream, BlockDerivations(stream, plan.doc), plan.doc, settings).chunks
         IN  Proved(stream, chunks) /\ SpansExact(stream, chunks)
<1> DEFINE document == WithProvenance(blocks)
           stream == Flatten(document)
<1>1. stream \in Seq(C) /\ Document(C, Regions, stream, document)
  BY ProvenancePlaces
<1>2. PlanReplays(document, plan)
  OBVIOUS
<1> HIDE DEF document, stream
<1>3. Replayed(document, plan) \in [ok : BOOLEAN, doc : DocumentsOver(C, Regions, stream)]
  BY <1>1, ReplayedOf
<1>4. plan.doc \in DocumentsOver(C, Regions, stream)
  BY <1>2, <1>3 DEF PlanReplays
<1>5. Chunkable(stream, plan.doc, C)
  BY <1>1, <1>4, DocumentSet, DocumentChunkable
<1> QED BY <1>5, ChunksFollow DEF document, stream
=============================================================================
