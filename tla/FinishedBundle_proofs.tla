------------------------- MODULE FinishedBundle_proofs -------------------------
(***************************************************************************)
(* Curation and splitting for every dataset, policy and order of digests;  *)
(* the rows, gates and verifier of every bundle made from one.             *)
(*                                                                         *)
(* What a recursive definition computes is shown without an induction      *)
(* theorem: the set of the counterexamples, were it not empty, would have  *)
(* a least element (Least for records, Smallest for sets of tokens).       *)
(***************************************************************************)
EXTENDS FinishedBundle, FiniteSetTheorems, TLAPS

-----------------------------------------------------------------------------
(* Least and greatest elements *)

LEMMA Least ==
  ASSUME NEW S \in SUBSET Nat, S # {}
  PROVE  Min(S) \in S /\ \A y \in S : Min(S) <= y
<1>1. PICK x \in S : \A y \in S : ~ (<<y, x>> \in {ss \in Nat \X Nat : ss[1] < ss[2]})
  BY NatLessThanWellFounded, WFMin DEF OpToRel
<1>2. ASSUME NEW y \in S PROVE x <= y
  <2> SUFFICES ASSUME y < x PROVE FALSE
    OBVIOUS
  <2>1. <<y, x>> \in Nat \X Nat /\ <<y, x>>[1] < <<y, x>>[2]
    OBVIOUS
  <2> QED BY <1>1, <2>1, Zenon
<1> QED BY <1>2 DEF Min

\* Of the subsets of a finite set that are in B, one has no smaller one.
LEMMA Smallest ==
  ASSUME NEW S, IsFiniteSet(S), NEW B \in SUBSET (SUBSET S), B # {}
  PROVE  \E T \in B : \A U \in SUBSET T : U # T => U \notin B
<1>1. PICK T \in B : \A U \in B : ~ (<<U, T>> \in StrictSubsetOrdering(S))
  BY FS_StrictSubsetOrderingWellFounded, FS_FiniteSubsetsOfFinite, WFMin
<1> QED BY <1>1 DEF StrictSubsetOrdering

LEMMA Most ==
  ASSUME NEW S \in SUBSET Nat, IsFiniteSet(S), S # {}
  PROVE  Max(S) \in S /\ \A y \in S : y <= Max(S)
<1> DEFINE HasMost(T) == \E x \in T : \A y \in T : y <= x
           B == {T \in SUBSET S : T # {} /\ ~HasMost(T)}
<1>1. ASSUME B # {} PROVE FALSE
  <2>0. B \in SUBSET (SUBSET S)
    OBVIOUS
  <2> HIDE DEF B
  <2>1. PICK T \in B : \A U \in SUBSET T : U # T => U \notin B
    BY <1>1, <2>0, Smallest
  <2> USE DEF B
  <2>2. PICK a \in T : TRUE
    BY <2>1
  <2>3. T \ {a} = {} \/ HasMost(T \ {a})
    BY <2>1, <2>2
  <2>4. CASE T \ {a} = {}
    BY <2>1, <2>2, <2>4
  <2>5. CASE HasMost(T \ {a})
    <3>1. PICK x \in T \ {a} : \A y \in T \ {a} : y <= x
      BY <2>5
    <3>2. a \in Nat /\ x \in Nat /\ T \subseteq Nat
      BY <2>1, <2>2, <3>1
    <3>3. HasMost(T)
      BY <2>2, <3>1, <3>2
    <3> QED BY <2>1, <3>3
  <2> QED BY <2>3, <2>4, <2>5
<1>2. HasMost(S)
  BY <1>1
<1> QED BY <1>2 DEF Max

LEMMA ImageFinite ==
  ASSUME NEW S, IsFiniteSet(S), NEW f, DOMAIN f = S
  PROVE  IsFiniteSet({f[x] : x \in S})
<1> DEFINE T == {f[x] : x \in S}
           g == [x \in S |-> f[x]]
<1>1. g \in Surjection(S, T)
  BY DEF Surjection
<1> QED BY <1>1, FS_Surjection

LEMMA TwoInASet ==
  ASSUME NEW S, IsFiniteSet(S), Cardinality(S) < 2, NEW a \in S, NEW b \in S
  PROVE  a = b
<1> SUFFICES ASSUME a # b PROVE FALSE
  OBVIOUS
<1>1. IsFiniteSet({a}) /\ Cardinality({a}) = 1
  BY FS_Singleton
<1>2. Cardinality({a} \cup {b}) = 2
  BY <1>1, FS_AddElement
<1>3. Cardinality({a} \cup {b}) <= Cardinality(S) /\ Cardinality(S) \in Nat
  BY FS_Subset, FS_CardinalityType
<1> QED BY <1>2, <1>3

-----------------------------------------------------------------------------
(* Disjoint sets *)

Forest(p, D) == D \subseteq Nat /\ p \in [D -> D] /\ \A i \in D : p[i] <= i

LEMMA ParentsBefore ==
  ASSUME NEW D, NEW p, Forest(p, D), NEW i \in D
  PROVE  i \in Nat /\ p[i] \in D /\ p[i] \in Nat /\ p[i] <= i /\ (p[i] # i => p[i] < i /\ ~ (i <= p[i]))
<1>1. i \in Nat /\ p[i] \in D /\ p[i] \in Nat /\ p[i] <= i
  BY DEF Forest
<1> QED BY <1>1

\* The elements that every set holds that holds j and the parents of its own.
Above(p, j) ==
  {k \in DOMAIN p : \A T \in SUBSET DOMAIN p : (j \in T /\ \A t \in T : p[t] \in T) => k \in T}

LEMMA AboveUnfolds ==
  ASSUME NEW D, NEW p, Forest(p, D), NEW j \in D
  PROVE  Above(p, j) = IF p[j] = j THEN {j} ELSE {j} \cup Above(p, p[j])
<1>1. DOMAIN p = D /\ p[j] \in D
  BY DEF Forest
<1>2. j \in Above(p, j) /\ Above(p, p[j]) \subseteq Above(p, j)
  BY <1>1 DEF Above
<1>3. CASE p[j] = j
  <2>1. \A k \in Above(p, j) : k \in {j}
    BY <1>1, <1>3 DEF Above
  <2> QED BY <1>2, <1>3, <2>1
<1>4. ASSUME NEW k \in Above(p, j), k # j
      PROVE  k \in Above(p, p[j])
  <2> SUFFICES ASSUME NEW T \in SUBSET DOMAIN p, p[j] \in T, \A t \in T : p[t] \in T
               PROVE  k \in T
    BY <1>4 DEF Above
  <2>1. T \cup {j} \in SUBSET DOMAIN p /\ j \in T \cup {j} /\ \A t \in T \cup {j} : p[t] \in T \cup {j}
    BY <1>1
  <2>2. k \in T \cup {j}
    BY <2>1 DEF Above
  <2> QED BY <1>4, <2>2
<1> QED BY <1>2, <1>3, <1>4

LEMMA PathUnfolds ==
  ASSUME NEW D, NEW p, Forest(p, D), NEW i \in D
  PROVE  Path(p, i) = IF p[i] = i THEN {i} ELSE {i} \cup Path(p, p[i])
<1> DEFINE F(up) == [j \in DOMAIN p |-> IF p[j] = j THEN {j} ELSE {j} \cup up[p[j]]]
           f == [j \in DOMAIN p |-> Above(p, j)]
           up == CHOOSE u : u = F(u)
<1>1. DOMAIN p = D /\ \A j \in D : p[j] \in D
  BY DEF Forest
<1>2. \A j \in D : f[j] = IF p[j] = j THEN {j} ELSE {j} \cup f[p[j]]
  BY <1>1, AboveUnfolds
<1>3. f = F(f)
  BY <1>1, <1>2
<1>4. up = F(up)
  BY <1>3
<1>5. \A j \in D : Path(p, j) = up[j]
  BY DEF Path
<1> HIDE DEF up
<1>6. up[i] = IF p[i] = i THEN {i} ELSE {i} \cup up[p[i]]
  BY <1>1, <1>4
<1> QED BY <1>1, <1>5, <1>6

LEMMA OneRoot ==
  ASSUME NEW D, NEW p, Forest(p, D), NEW i \in D
  PROVE  /\ Path(p, i) \subseteq D
         /\ \E j \in Path(p, i) : p[j] = j /\ j <= i /\ \A k \in Path(p, i) : p[k] = k => k = j
<1> DEFINE Good(n) == /\ Path(p, n) \subseteq D
                      /\ \E j \in Path(p, n) : p[j] = j /\ j <= n /\ \A k \in Path(p, n) : p[k] = k => k = j
           Bad == {n \in D : ~Good(n)}
<1>1. D \subseteq Nat /\ \A n \in D : p[n] \in D /\ p[n] <= n
  BY DEF Forest
<1>2. ASSUME Bad # {} PROVE FALSE
  <2> DEFINE n == Min(Bad)
  <2> HIDE DEF Good
  <2>1. n \in D /\ ~Good(n) /\ \A m \in D : ~Good(m) => n <= m
    BY <1>1, <1>2, Least
  <2> HIDE DEF n
  <2>2. CASE p[n] = n
    BY <1>1, <2>1, <2>2, PathUnfolds DEF Good
  <2>3. CASE p[n] # n
    <3>1. p[n] \in D /\ n \in D /\ ~ (n <= p[n]) /\ n \in Nat /\ p[n] \in Nat /\ p[n] <= n
      BY <2>1, <2>3, ParentsBefore
    <3>2. Good(p[n])
      BY <2>1, <3>1
    <3> USE DEF Good
    <3>3. Path(p, n) = {n} \cup Path(p, p[n])
      BY <2>3, <3>1, PathUnfolds
    <3>4. PICK j \in Path(p, p[n]) : p[j] = j /\ j <= p[n] /\ \A k \in Path(p, p[n]) : p[k] = k => k = j
      BY <3>2
    <3>5. j \in Nat
      BY <1>1, <3>2, <3>4 DEF Good
    <3>6. j <= n
      BY <3>1, <3>4, <3>5
    <3>7. Good(n)
      BY <2>3, <3>1, <3>2, <3>3, <3>4, <3>6
    <3> QED BY <2>1, <3>7
  <2> QED BY <2>2, <2>3
<1> QED BY <1>2

\* Every element has one root, that of its parent.
LEMMA Roots ==
  ASSUME NEW D, NEW p, Forest(p, D), NEW i \in D
  PROVE  /\ Root(p, i) \in D /\ Root(p, i) <= i /\ p[Root(p, i)] = Root(p, i) /\ Root(p, i) \in Path(p, i)
         /\ Root(p, i) = IF p[i] = i THEN i ELSE Root(p, p[i])
<1>1. PICK j \in Path(p, i) : p[j] = j /\ j <= i /\ \A k \in Path(p, i) : p[k] = k => k = j
  BY OneRoot
<1>2. Path(p, i) \subseteq D /\ Root(p, i) = j
  BY <1>1, OneRoot DEF Root
<1>3. Root(p, i) = IF p[i] = i THEN i ELSE Root(p, p[i])
  <2>1. CASE p[i] = i
    BY <1>1, <1>2, <2>1, PathUnfolds
  <2>2. CASE p[i] # i
    <3>1. p[i] \in D
      BY DEF Forest
    <3>4. Path(p, p[i]) \subseteq Path(p, i)
      BY <2>2, PathUnfolds
    <3>2. PICK m \in Path(p, p[i]) : p[m] = m /\ \A k \in Path(p, p[i]) : p[k] = k => k = m
      BY <3>1, OneRoot
    <3>3. Root(p, p[i]) = m
      BY <3>2 DEF Root
    <3> QED BY <1>1, <1>2, <2>2, <3>2, <3>3, <3>4
  <2> QED BY <2>1, <2>2
<1> QED BY <1>1, <1>2, <1>3

LEMMA OnPath ==
  ASSUME NEW D, NEW p, Forest(p, D), NEW i \in D
  PROVE  \A j \in Path(p, i) : Root(p, j) = Root(p, i)
<1> DEFINE Good(n) == \A j \in Path(p, n) : Root(p, j) = Root(p, n)
           Bad == {n \in D : ~Good(n)}
<1>1. D \subseteq Nat /\ \A n \in D : p[n] \in D /\ p[n] <= n
  BY DEF Forest
<1>2. ASSUME Bad # {} PROVE FALSE
  <2> DEFINE n == Min(Bad)
  <2> HIDE DEF Good
  <2>1. n \in D /\ ~Good(n) /\ \A m \in D : ~Good(m) => n <= m
    BY <1>1, <1>2, Least
  <2> HIDE DEF n
  <2>2. CASE p[n] = n
    BY <2>1, <2>2, PathUnfolds DEF Good
  <2>3. CASE p[n] # n
    <3>1. p[n] \in D /\ n \in D /\ ~ (n <= p[n]) /\ n \in Nat /\ p[n] \in Nat /\ p[n] <= n
      BY <2>1, <2>3, ParentsBefore
    <3>2. Good(p[n])
      BY <2>1, <3>1
    <3> USE DEF Good
    <3>3. Path(p, n) = {n} \cup Path(p, p[n]) /\ Root(p, n) = Root(p, p[n])
      BY <2>3, <3>1, PathUnfolds, Roots
    <3> QED BY <2>1, <3>2, <3>3
  <2> QED BY <2>2, <2>3
<1> QED BY <1>2

\* Shortening a path keeps every root.
LEMMA FoundKeeps ==
  ASSUME NEW D, NEW p, Forest(p, D), NEW i \in D
  PROVE  Forest(Found(p, i), D) /\ \A j \in D : Root(Found(p, i), j) = Root(p, j)
<1> DEFINE q == Found(p, i)
           root == Root(p, i)
           path == Path(p, i)
<1>1. /\ D \subseteq Nat /\ DOMAIN p = D /\ \A n \in D : p[n] \in D /\ p[n] <= n
      /\ q = [j \in D |-> IF j \in path THEN root ELSE p[j]]
  BY DEF Forest, Found
<1>2. root \in path /\ root \in D /\ path \subseteq D /\ \A j \in path : Root(p, j) = root /\ root <= j
  BY OneRoot, OnPath, Roots
<1> HIDE DEF q, root, path
<1>3. Forest(q, D)
  BY <1>1, <1>2 DEF Forest
<1>4. ASSUME NEW j \in path PROVE Root(q, j) = Root(p, j)
  <2>1. q[root] = root /\ q[j] = root /\ j \in D
    BY <1>1, <1>2
  <2>2. Root(q, root) = root
    BY <1>2, <1>3, <2>1, Roots
  <2> QED BY <1>2, <1>3, <2>1, <2>2, Roots
<1> DEFINE Bad == {j \in D : Root(q, j) # Root(p, j)}
<1>5. ASSUME Bad # {} PROVE FALSE
  <2> DEFINE n == Min(Bad)
  <2>1. n \in Bad /\ \A m \in Bad : n <= m
    BY <1>1, <1>5, Least
  <2> HIDE DEF n
  <2>2. q[n] = p[n] /\ p[n] \in D /\ p[n] <= n /\ n \in D
    BY <1>1, <1>4, <2>1
  <2>3. CASE p[n] = n
    BY <1>3, <2>1, <2>2, <2>3, Roots
  <2>4. CASE p[n] # n
    <3>1. Root(q, p[n]) = Root(p, p[n])
      BY <1>1, <2>1, <2>2, <2>4
    <3> QED BY <1>3, <2>1, <2>2, <2>4, <3>1, Roots
  <2> QED BY <2>3, <2>4
<1> QED BY <1>3, <1>5 DEF q

LEMMA LessOfTwo ==
  ASSUME NEW a \in Nat, NEW b \in Nat
  PROVE  /\ Min({a, b}) \in {a, b} /\ Max({a, b}) \in {a, b} /\ Min({a, b}) <= a /\ Min({a, b}) <= b
         /\ a <= Max({a, b}) /\ b <= Max({a, b})
<1>1. IsFiniteSet({a} \cup {b}) /\ {a} \cup {b} = {a, b}
  BY FS_Singleton, FS_AddElement
<1> QED BY <1>1, Least, Most

\* The root of x when the sets of the roots a and b are joined.
Merged(a, b, x) == IF x \in {a, b} THEN Min({a, b}) ELSE x

\* A union joins two sets and changes no other.
LEMMA UnionJoins ==
  ASSUME NEW D, NEW p, Forest(p, D), NEW left \in D, NEW right \in D
  PROVE  /\ Forest(Union(p, left, right), D)
         /\ \A j \in D : Root(Union(p, left, right), j) = Merged(Root(p, left), Root(p, right), Root(p, j))
<1> DEFINE q == Found(Found(p, left), right)
           a == Root(p, left)
           b == Root(p, right)
           low == Min({a, b})
           high == Max({a, b})
           u == Union(p, left, right)
<1>1. Forest(q, D) /\ \A j \in D : Root(q, j) = Root(p, j)
  BY FoundKeeps
<1>2. a \in D /\ b \in D /\ q[a] = a /\ q[b] = b /\ D \subseteq Nat
  <2>1. Root(q, left) = a /\ Root(q, right) = b
    BY <1>1
  <2> HIDE DEF q, a, b
  <2>2. D \subseteq Nat
    BY DEF Forest
  <2> QED BY <1>1, <2>1, <2>2, Roots
<1>3. low \in {a, b} /\ high \in {a, b} /\ low <= a /\ low <= b /\ a <= high /\ b <= high
  BY <1>2, LessOfTwo
<1>4. u = [q EXCEPT ![high] = low]
  BY <1>1 DEF Union
<1> HIDE DEF q, a, b, low, high, u
<1>5. \A j \in D : u[j] = IF j = high THEN low ELSE q[j]
  BY <1>1, <1>4 DEF Forest
<1>6. Forest(u, D)
  BY <1>1, <1>2, <1>3, <1>4, <1>5 DEF Forest
<1>7. Root(u, low) = low /\ Root(u, high) = low
  BY <1>2, <1>3, <1>5, <1>6, Roots
<1> DEFINE Wanted(j) == IF Root(q, j) \in {a, b} THEN low ELSE Root(q, j)
           Bad == {j \in D : Root(u, j) # Wanted(j)}
<1>8. ASSUME Bad # {} PROVE FALSE
  <2> DEFINE n == Min(Bad)
  <2> HIDE DEF Wanted
  <2>1. n \in D /\ Root(u, n) # Wanted(n) /\ \A m \in D : Root(u, m) # Wanted(m) => n <= m
    BY <1>2, <1>8, Least
  <2> HIDE DEF n
  <2>2. n \in D /\ q[n] \in D /\ q[n] <= n
    BY <1>1, <2>1 DEF Forest
  <2>3. CASE n = high
    <3>1. Root(q, n) = n
      BY <1>1, <1>2, <1>3, <2>2, <2>3, Roots
    <3> QED BY <1>3, <1>7, <2>1, <2>3, <3>1 DEF Wanted
  <2>4. CASE n # high /\ q[n] = n
    <3>1. Root(q, n) = n /\ Root(u, n) = n
      BY <1>1, <1>5, <1>6, <2>2, <2>4, Roots
    <3>2. n \in {a, b} => n = low
      BY <1>2, <1>3, <2>4
    <3> QED BY <2>1, <3>1, <3>2 DEF Wanted
  <2>5. CASE n # high /\ q[n] # n
    <3>1. u[n] = q[n] /\ Root(u, n) = Root(u, q[n]) /\ Root(q, n) = Root(q, q[n])
      BY <1>1, <1>5, <1>6, <2>2, <2>5, Roots
    <3>2. Root(u, q[n]) = Wanted(q[n])
      BY <1>1, <2>1, <2>5, ParentsBefore
    <3> QED BY <2>1, <3>1, <3>2 DEF Wanted
  <2> QED BY <2>3, <2>4, <2>5
<1>9. \A j \in D : Root(u, j) = IF Root(p, j) \in {a, b} THEN low ELSE Root(p, j)
  BY <1>1, <1>8
<1> QED BY <1>6, <1>9 DEF u, low, a, b, Merged

\* A new element is a set of its own.
LEMMA AloneAtFirst ==
  ASSUME NEW D, NEW p, Forest(p, D), NEW r \in Nat, r \notin D
  PROVE  /\ Forest(SetDefault(p, r, r), D \cup {r})
         /\ Root(SetDefault(p, r, r), r) = r
         /\ \A j \in D : Root(SetDefault(p, r, r), j) = Root(p, j)
<1> DEFINE q == SetDefault(p, r, r)
<1>1. DOMAIN p = D /\ D \subseteq Nat /\ \A j \in D : p[j] \in D /\ p[j] <= j
  BY DEF Forest
<1>2. q = [j \in D \cup {r} |-> IF j = r THEN r ELSE p[j]]
  BY <1>1 DEF SetDefault
<1> HIDE DEF q
<1>3. Forest(q, D \cup {r})
  BY <1>1, <1>2 DEF Forest
<1>4. Root(q, r) = r
  BY <1>2, <1>3, Roots
<1> DEFINE Bad == {j \in D : Root(q, j) # Root(p, j)}
<1>5. ASSUME Bad # {} PROVE FALSE
  <2> DEFINE n == Min(Bad)
  <2>1. n \in D /\ Root(q, n) # Root(p, n) /\ \A m \in D : Root(q, m) # Root(p, m) => n <= m
    BY <1>1, <1>5, Least
  <2> HIDE DEF n
  <2>2. q[n] = p[n] /\ p[n] \in D
    BY <1>1, <1>2, <2>1
  <2>3. CASE p[n] = n
    BY <1>3, <2>1, <2>2, <2>3, Roots
  <2>4. CASE p[n] # n
    <3>1. Root(q, p[n]) = Root(p, p[n])
      BY <2>1, <2>2, <2>4, ParentsBefore
    <3> QED BY <1>3, <2>1, <2>2, <2>4, <3>1, Roots
  <2> QED BY <2>3, <2>4
<1> QED BY <1>3, <1>4, <1>5 DEF q

-----------------------------------------------------------------------------
(* Grouping by tokens *)

\* X holds with an element everything that shares a token with it.
Closed(X, D, got) == \A a \in X, b \in D : got[a] \cap got[b] # {} => b \in X

\* The sets of p are the components of the elements of D under the tokens got.
Linked(D, got, p, o) ==
  /\ Forest(p, D)
  /\ \A t : t \in DOMAIN o <=> \E a \in D : t \in got[a]
  /\ \A a \in D : \A t \in got[a] : o[t] \in D /\ Root(p, o[t]) = Root(p, a)
  /\ \A X \in SUBSET D : Closed(X, D, got) => \A i \in D : Root(p, i) \in X <=> i \in X

\* While record r is grouped, the tokens in s of it have been looked at.
Got(D, r, s) == [a \in D \cup {r} |-> IF a = r THEN s ELSE Tokens(a)]
AllTokens(D) == [a \in D |-> Tokens(a)]

LEMMA BaseLinked ==
  ASSUME NEW D, NEW p, NEW o, Linked(D, AllTokens(D), p, o), NEW r \in Nat, r \notin D
  PROVE  Linked(D \cup {r}, Got(D, r, {}), SetDefault(p, r, r), o)
<1> DEFINE E == D \cup {r}
           q == SetDefault(p, r, r)
           got == Got(D, r, {})
<1>1. /\ Forest(p, D) /\ \A t : t \in DOMAIN o <=> \E a \in D : t \in Tokens(a)
      /\ \A a \in D : \A t \in Tokens(a) : o[t] \in D /\ Root(p, o[t]) = Root(p, a)
      /\ \A X \in SUBSET D : Closed(X, D, AllTokens(D)) => \A i \in D : Root(p, i) \in X <=> i \in X
  BY DEF Linked, AllTokens
<1>2. Forest(q, E) /\ Root(q, r) = r /\ \A j \in D : Root(q, j) = Root(p, j) /\ Root(p, j) \in D
  <2>1. \A j \in D : Root(p, j) \in D
    BY <1>1, Roots
  <2> QED BY <1>1, <2>1, AloneAtFirst
<1>3. got[r] = {} /\ \A a \in D : got[a] = Tokens(a)
  BY DEF Got
<1> HIDE DEF q, got
<1>4. \A t : t \in DOMAIN o <=> \E a \in E : t \in got[a]
  BY <1>1, <1>3
<1>5. \A a \in E : \A t \in got[a] : o[t] \in E /\ Root(q, o[t]) = Root(q, a)
  BY <1>1, <1>2, <1>3
<1>6. ASSUME NEW X \in SUBSET E, Closed(X, E, got), NEW i \in E
      PROVE  Root(q, i) \in X <=> i \in X
  <2>1. Closed(X \cap D, D, AllTokens(D))
    BY <1>3, <1>6 DEF Closed, AllTokens
  <2>2. \A j \in D : Root(p, j) \in X \cap D <=> j \in X \cap D
    BY <1>1, <2>1
  <2> QED BY <1>2, <2>2
<1> QED BY <1>2, <1>4, <1>5, <1>6 DEF Linked, q, got

\* One turn of the loop: the record joins the one that showed the token first.
LEMMA JoinLinks ==
  ASSUME NEW E, NEW r \in E, NEW t, NEW got, NEW now, now[r] = got[r] \cup {t}, \A a \in E : a # r => now[a] = got[a],
         NEW state, Linked(E, got, state.parents, state.owner)
  PROVE  Linked(E, now, Join(r, state, t).parents, Join(r, state, t).owner)
<1> DEFINE p == state.parents
           o == state.owner
           first == IF t \in DOMAIN o THEN o[t] ELSE r
           q == Union(p, r, first)
           w == SetDefault(o, t, first)
<1>1. Join(r, state, t).parents = q /\ Join(r, state, t).owner = w
  BY DEF Join
<1>2. /\ Forest(p, E) /\ \A u : u \in DOMAIN o <=> \E a \in E : u \in got[a]
      /\ \A a \in E : \A u \in got[a] : o[u] \in E /\ Root(p, o[u]) = Root(p, a)
      /\ \A X \in SUBSET E : Closed(X, E, got) => \A i \in E : Root(p, i) \in X <=> i \in X
  BY DEF Linked
<1>3. /\ now[r] = got[r] \cup {t} /\ r \in E
      /\ \A a \in E : a # r => now[a] = got[a]
      /\ \A a \in E : got[a] \subseteq now[a]
  OBVIOUS
<1>4. DOMAIN w = DOMAIN o \cup {t} /\ w[t] = first /\ \A u \in DOMAIN o : w[u] = o[u]
  BY DEF SetDefault
<1> HIDE DEF p, o
<1>5. first \in E
  BY <1>2, <1>3
<1> HIDE DEF w, first
<1> DEFINE a0 == Root(p, r)
           b0 == Root(p, first)
           low == Min({a0, b0})
<1>6. /\ Forest(q, E)
      /\ \A j \in E : Root(q, j) = IF Root(p, j) \in {a0, b0} THEN low ELSE Root(p, j)
  <2>1. Forest(p, E) /\ r \in E
    BY <1>2, <1>3
  <2>2. Forest(q, E) /\ \A j \in E : Root(q, j) = Merged(a0, b0, Root(p, j))
    BY <1>5, <2>1, UnionJoins
  <2> QED BY <2>2 DEF Merged
<1>7. low \in {a0, b0}
  <2>1. a0 \in Nat /\ b0 \in Nat
    BY <1>2, <1>3, <1>5, Roots DEF Forest
  <2> HIDE DEF a0, b0
  <2> QED BY <2>1, LessOfTwo
<1> HIDE DEF q
<1>8. \A u : u \in DOMAIN w <=> \E a \in E : u \in now[a]
  BY <1>2, <1>3, <1>4
<1>9. ASSUME NEW a \in E, NEW u \in now[a]
      PROVE  w[u] \in E /\ Root(q, w[u]) = Root(q, a)
  <2>1. CASE u \in got[a]
    <3>1. u \in DOMAIN o /\ o[u] \in E /\ Root(p, o[u]) = Root(p, a)
      BY <1>2, <2>1
    <3> QED BY <1>4, <1>6, <3>1
  <2>2. CASE u \notin got[a]
    <3>1. a = r /\ u = t
      BY <1>3, <1>9, <2>2
    <3> QED BY <1>3, <1>4, <1>5, <1>6, <3>1
  <2> QED BY <2>1, <2>2
<1>10. ASSUME NEW X \in SUBSET E, Closed(X, E, now), NEW i \in E
       PROVE  Root(q, i) \in X <=> i \in X
  <2>1. Closed(X, E, got)
    BY <1>3, <1>10 DEF Closed
  <2>2. \A j \in E : Root(p, j) \in X <=> j \in X
    BY <1>2, <2>1
  <2>3. r \in X <=> first \in X
    <3>1. CASE t \notin DOMAIN o
      BY <3>1 DEF first
    <3>2. CASE t \in DOMAIN o
      <4>1. PICK b \in E : t \in got[b]
        BY <1>2, <3>2
      <4>2. Root(p, first) = Root(p, b)
        BY <1>2, <3>2, <4>1 DEF first
      <4>3. r \in X <=> b \in X
        BY <1>3, <1>10, <4>1 DEF Closed
      <4> QED BY <1>5, <2>2, <4>1, <4>2, <4>3
    <3> QED BY <3>1, <3>2
  <2>4. a0 \in X <=> b0 \in X
    BY <1>3, <1>5, <2>2, <2>3
  <2>5. \A j \in E : Root(q, j) \in X <=> Root(p, j) \in X
    BY <1>6, <1>7, <2>4
  <2> QED BY <2>2, <2>5
<1> QED BY <1>1, <1>6, <1>8, <1>9, <1>10 DEF Linked, p, o

\* The tokens that the elements S show, each with its record, are joined one
\* by one: of any of them, the element picked is the last.
Turns(shows, pick, base, S, it) ==
  it = [s \in SUBSET S |-> IF s = {} THEN base
                           ELSE Join(shows[pick[s]][1], it[s \ {pick[s]}], shows[pick[s]][2])]

Picks(pick, S) == \A T \in SUBSET S : T # {} => pick[T] \in T

LEMMA TurnsUnique ==
  ASSUME NEW S, IsFiniteSet(S), NEW pick, Picks(pick, S), NEW shows,
         NEW base, NEW A \in SUBSET S, NEW B \in SUBSET S, NEW f, NEW g,
         Turns(shows, pick, base, A, f), Turns(shows, pick, base, B, g)
  PROVE  \A s \in SUBSET (A \cap B) : f[s] = g[s]
<1> DEFINE Bad == {s \in SUBSET (A \cap B) : f[s] # g[s]}
<1>1. ASSUME Bad # {} PROVE FALSE
  <2>1. Bad \in SUBSET (SUBSET S)
    OBVIOUS
  <2> HIDE DEF Bad
  <2>2. PICK s \in Bad : \A u \in SUBSET s : u # s => u \notin Bad
    BY <1>1, <2>1, Smallest
  <2> USE DEF Bad
  <2>3. s \in SUBSET A /\ s \in SUBSET B /\ s \in SUBSET S /\ f[s] # g[s]
    BY <2>2
  <2> DEFINE rest == s \ {pick[s]}
  <2>4. /\ f[s] = IF s = {} THEN base ELSE Join(shows[pick[s]][1], f[rest], shows[pick[s]][2])
        /\ g[s] = IF s = {} THEN base ELSE Join(shows[pick[s]][1], g[rest], shows[pick[s]][2])
    BY <2>3 DEF Turns
  <2>5. s # {} => f[rest] = g[rest]
    <3>1. s # {} => rest \in SUBSET s /\ rest # s
      BY <2>3 DEF Picks
    <3> QED BY <2>2, <2>3, <3>1
  <2> QED BY <2>3, <2>4, <2>5
<1> QED BY <1>1

LEMMA TurnsExist ==
  ASSUME NEW S, IsFiniteSet(S), NEW pick, Picks(pick, S), NEW shows, NEW base
  PROVE  \E it : Turns(shows, pick, base, S, it)
<1> DEFINE Has(s) == \E it : Turns(shows, pick, base, s, it)
           Bad == {s \in SUBSET S : ~Has(s)}
<1>1. ASSUME Bad # {} PROVE FALSE
  <2>1. Bad \in SUBSET (SUBSET S)
    OBVIOUS
  <2> HIDE DEF Bad
  <2>2. PICK A \in Bad : \A u \in SUBSET A : u # A => u \notin Bad
    BY <1>1, <2>1, Smallest
  <2>3. A \in SUBSET S /\ ~Has(A) /\ \A u \in SUBSET A : u # A => Has(u)
    BY <2>1, <2>2 DEF Bad
  <2> DEFINE h(u) == CHOOSE it : Turns(shows, pick, base, u, it)
             rest(s) == s \ {pick[s]}
             g == [s \in SUBSET A |-> IF s = {} THEN base ELSE Join(shows[pick[s]][1], h(rest(s))[rest(s)], shows[pick[s]][2])]
  <2>4. \A u \in SUBSET A : u # A => Turns(shows, pick, base, u, h(u))
    BY <2>3
  <2>5. \A s \in SUBSET A : s # {} => rest(s) \in SUBSET A /\ rest(s) # A /\ rest(s) \in SUBSET S
    BY <2>3 DEF Picks
  <2> HIDE DEF h, Has
  <2>6. ASSUME NEW s \in SUBSET A, s # {} PROVE g[rest(s)] = h(rest(s))[rest(s)]
    <3> DEFINE u == rest(s)
    <3>1. u \in SUBSET A /\ u # A /\ u \in SUBSET S /\ Turns(shows, pick, base, u, h(u))
      BY <2>4, <2>5, <2>6
    <3> HIDE DEF u
    <3>2. CASE u = {}
      <4>1. h(u)[u] = base
        BY <3>1, <3>2 DEF Turns
      <4> QED BY <3>1, <3>2, <4>1 DEF u
    <3>3. CASE u # {}
      <4>1. rest(u) \in SUBSET A /\ rest(u) # A /\ rest(u) \in SUBSET S /\ Turns(shows, pick, base, rest(u), h(rest(u)))
        BY <2>4, <2>5, <3>1, <3>3
      <4>2. rest(u) \in SUBSET (u \cap rest(u))
        OBVIOUS
      <4>3. h(u)[rest(u)] = h(rest(u))[rest(u)]
        BY <3>1, <4>1, <4>2, TurnsUnique
      <4>4. h(u)[u] = Join(shows[pick[u]][1], h(u)[rest(u)], shows[pick[u]][2])
        BY <3>1, <3>3 DEF Turns
      <4>5. g[u] = Join(shows[pick[u]][1], h(rest(u))[rest(u)], shows[pick[u]][2])
        BY <3>1, <3>3
      <4> QED BY <4>3, <4>4, <4>5 DEF u
    <3> QED BY <3>2, <3>3
  <2>7. Turns(shows, pick, base, A, g)
    <3>1. g = [s \in SUBSET A |-> IF s = {} THEN base ELSE Join(shows[pick[s]][1], g[rest(s)], shows[pick[s]][2])]
      BY <2>6
    <3> QED BY <3>1 DEF Turns
  <2> QED BY <2>3, <2>7 DEF Has
<1>2. Has(S)
  BY <1>1
<1> QED BY <1>2

\* The tokens known of every record once the elements in s have shown theirs.
Known(got, shows, s) == [a \in DOMAIN got |-> got[a] \cup {shows[x][2] : x \in {y \in s : shows[y][1] = a}}]

\* After all turns everything is linked.
LEMMA FoldLinks ==
  ASSUME NEW E, NEW got, DOMAIN got = E, NEW S, IsFiniteSet(S), NEW pick, Picks(pick, S),
         NEW shows, \A x \in S : shows[x][1] \in E,
         NEW base, Linked(E, got, base.parents, base.owner), NEW it, Turns(shows, pick, base, S, it)
  PROVE  Linked(E, Known(got, shows, S), it[S].parents, it[S].owner)
<1> DEFINE Good(s) == Linked(E, Known(got, shows, s), it[s].parents, it[s].owner)
           Bad == {s \in SUBSET S : ~Good(s)}
<1>1. ASSUME Bad # {} PROVE FALSE
  <2>1. Bad \in SUBSET (SUBSET S)
    OBVIOUS
  <2> HIDE DEF Bad
  <2>2. PICK s \in Bad : \A u \in SUBSET s : u # s => u \notin Bad
    BY <1>1, <2>1, Smallest
  <2>3. s \in SUBSET S /\ ~Good(s) /\ \A u \in SUBSET s : u # s => Good(u)
    BY <2>1, <2>2 DEF Bad
  <2>4. CASE s = {}
    <3>1. it[s] = base
      BY <2>3, <2>4 DEF Turns
    <3>2. \A a \in DOMAIN got : {shows[x][2] : x \in {y \in s : shows[y][1] = a}} = {}
      BY <2>4
    <3>3. Known(got, shows, s) = [a \in DOMAIN got |-> got[a]]
      BY <3>2 DEF Known
    <3>4. Linked(E, [a \in DOMAIN got |-> got[a]], base.parents, base.owner)
      BY DEF Linked, Closed
    <3> QED BY <2>3, <3>1, <3>3, <3>4
  <2>5. CASE s # {}
    <3> DEFINE x == pick[s]
               rest == s \ {x}
               old == Known(got, shows, rest)
               now == Known(got, shows, s)
               r == shows[x][1]
               t == shows[x][2]
    <3>1. x \in s /\ x \in S /\ rest \in SUBSET s /\ rest # s
      BY <2>3, <2>5 DEF Picks
    <3>2. it[s] = Join(r, it[rest], t)
      BY <2>3, <2>5 DEF Turns
    <3>3. Linked(E, old, it[rest].parents, it[rest].owner)
      BY <2>3, <3>1
    <3>4. r \in E /\ now[r] = old[r] \cup {t}
      BY <3>1 DEF Known
    <3>5. ASSUME NEW a \in E, a # r PROVE now[a] = old[a]
      <4>1. {y \in s : shows[y][1] = a} = {y \in rest : shows[y][1] = a}
        BY <3>5
      <4> QED BY <4>1 DEF Known
    <3> HIDE DEF x, rest, old, now, r, t
    <3>6. Linked(E, now, it[s].parents, it[s].owner)
      BY <3>2, <3>3, <3>4, <3>5, JoinLinks
    <3> QED BY <2>3, <3>6 DEF now
  <2> QED BY <2>4, <2>5
<1> QED BY <1>1

\* The fold over all tokens of r leaves everything linked.
LEMMA TokensLink ==
  ASSUME NEW D, D \subseteq Nat, NEW r \in Nat, r \notin D, NEW S, IsFiniteSet(S), \A T \in SUBSET S : T # {} => Greatest(T) \in T,
         NEW base, Linked(D \cup {r}, Got(D, r, {}), base.parents, base.owner)
  PROVE  LET after == MapThenFoldSet(LAMBDA t, state : Join(r, state, t), base, LAMBDA t : t, Greatest, S)
         IN  Linked(D \cup {r}, Got(D, r, S), after.parents, after.owner)
<1> DEFINE pick == [T \in SUBSET S |-> Greatest(T)]
           shows == [t \in S |-> <<r, t>>]
           got == Got(D, r, {})
           F(f) == [s \in SUBSET S |-> IF s = {} THEN base ELSE Join(r, f[s \ {Greatest(s)}], Greatest(s))]
           iter == CHOOSE f : f = F(f)
           it == CHOOSE f : Turns(shows, pick, base, S, f)
<1>1. /\ Picks(pick, S) /\ \A t \in S : shows[t][1] = r /\ shows[t][2] = t
      /\ \A s \in SUBSET S : s # {} => pick[s] = Greatest(s) /\ Greatest(s) \in S
  BY DEF Picks
<1>2. MapThenFoldSet(LAMBDA t, state : Join(r, state, t), base, LAMBDA t : t, Greatest, S) = iter[S]
  BY DEF MapThenFoldSet
<1> HIDE DEF pick, shows
<1>3. Turns(shows, pick, base, S, it)
  BY <1>1, TurnsExist
<1> HIDE DEF it
<1>4. \A f : F(f) = [s \in SUBSET S |-> IF s = {} THEN base
                                       ELSE Join(shows[pick[s]][1], f[s \ {pick[s]}], shows[pick[s]][2])]
  <2> SUFFICES ASSUME NEW f, NEW s \in SUBSET S, s # {}
               PROVE  Join(r, f[s \ {Greatest(s)}], Greatest(s))
                        = Join(shows[pick[s]][1], f[s \ {pick[s]}], shows[pick[s]][2])
    OBVIOUS
  <2>1. pick[s] = Greatest(s) /\ shows[Greatest(s)][1] = r /\ shows[Greatest(s)][2] = Greatest(s)
    BY <1>1
  <2> QED BY <2>1
<1>5. it = F(it)
  BY <1>3, <1>4 DEF Turns
<1>6. iter = F(iter)
  BY <1>5
<1> HIDE DEF iter
<1>7. Turns(shows, pick, base, S, iter)
  BY <1>4, <1>6 DEF Turns
<1>8. Linked(D \cup {r}, Known(got, shows, S), iter[S].parents, iter[S].owner)
  <2>1. DOMAIN got = D \cup {r} /\ r \in D \cup {r}
    BY DEF Got
  <2> HIDE DEF got
  <2>2. Linked(D \cup {r}, got, base.parents, base.owner)
    BY DEF got
  <2> QED BY <1>1, <1>7, <2>1, <2>2, FoldLinks
<1>9. Known(got, shows, S) = Got(D, r, S)
  <2>1. DOMAIN got = D \cup {r} /\ got[r] = {} /\ \A a \in D \cup {r} : a # r => got[a] = Tokens(a)
    BY DEF Got
  <2> HIDE DEF got
  <2>2. ASSUME NEW a \in D \cup {r}
        PROVE  got[a] \cup {shows[x][2] : x \in {y \in S : shows[y][1] = a}} = IF a = r THEN S ELSE Tokens(a)
    <3>1. CASE a = r
      <4>1. {shows[x][2] : x \in {y \in S : shows[y][1] = a}} = S
        BY <1>1, <3>1
      <4> QED BY <2>1, <3>1, <4>1
    <3>2. CASE a # r
      <4>1. {y \in S : shows[y][1] = a} = {}
        BY <1>1, <3>2
      <4> QED BY <2>1, <2>2, <3>2, <4>1
    <3> QED BY <3>1, <3>2
  <2> QED BY <2>1, <2>2 DEF Known, Got
<1> QED BY <1>2, <1>8, <1>9

-----------------------------------------------------------------------------
(* The inductive invariant *)

DatasetTyped ==
  /\ made \in [Records -> Shapes] /\ raw \in RawDigests /\ policy \in Policies
  /\ split = [groups |-> split.groups, evaluation |-> split.evaluation, target |-> split.target]

\* Curation decides at once, by the rules.
Decided ==
  /\ phase = "curate" => outcome = Undecided(Records).outcome /\ parents = Nobody /\ owner = Nobody
  /\ phase # "curate" => /\ outcome = [r \in Rows |-> Reason(r)]
                         /\ keeper = [r \in Rows |-> IF r \in Clear \ Unique THEN Min(Twins(r)) ELSE r]

\* The sets are the components of the records grouped so far.
GroupedSoFar ==
  /\ DOMAIN parents \subseteq Included
  /\ Linked(DOMAIN parents, AllTokens(DOMAIN parents), parents, owner)

Divided ==
  /\ phase \in {"assign", "done"} => DOMAIN parents = Included /\ split.groups = Classes
  /\ phase = "done" => split.evaluation \subseteq split.groups

DatasetInv == DatasetTyped /\ Decided /\ GroupedSoFar /\ Divided

-----------------------------------------------------------------------------
(* What curation decides *)

LEMMA RowFacts ==
  ASSUME DatasetTyped
  PROVE  /\ Rows = Records /\ Rows \subseteq Nat /\ IsFiniteSet(Rows)
         /\ raw \in [Sources -> Nat] /\ IsFiniteSet(Sources) /\ Sources \subseteq Nat
         /\ \A r \in Rows : made[r].sources \subseteq Sources
         /\ Long \subseteq Rows /\ Clear \subseteq Long /\ Unique \subseteq Clear /\ Capped \subseteq Unique
         /\ Conflicted \subseteq Long
<1>1. /\ Records \subseteq Nat /\ IsFiniteSet(Records) /\ Sources \subseteq Nat /\ IsFiniteSet(Sources)
      /\ \A s \in Shapes : s.sources \subseteq Sources
      /\ RawDigests \subseteq [Sources -> Nat]
  BY DatasetAssumption
<1>2. Rows = Records /\ \A r \in Rows : made[r] \in Shapes
  BY DEF DatasetTyped, Rows
<1>3. /\ Long \subseteq Rows /\ Clear \subseteq Long /\ Unique \subseteq Clear /\ Capped \subseteq Unique
      /\ Conflicted \subseteq Long
  BY DEF Long, Clear, Unique, Capped, Conflicted
<1> QED BY <1>1, <1>2, <1>3 DEF DatasetTyped

LEMMA ReasonsOf ==
  ASSUME DatasetTyped, NEW r \in Rows
  PROVE  /\ Reason(r) = "quality-passed" <=> r \in Unique \ Capped
         /\ Reason(r) = "exact-duplicate" <=> r \in Clear \ Unique
<1>1. /\ Clear \subseteq Long /\ Unique \subseteq Clear /\ Capped \subseteq Unique /\ Conflicted \subseteq Long
      /\ Clear = Long \ Conflicted
  BY RowFacts DEF Clear
<1> QED BY <1>1 DEF Reason

LEMMA Curated ==
  ASSUME DatasetInv, phase # "curate"
  PROVE  /\ Included = Unique \ Capped
         /\ \A r \in Rows : outcome[r] = "exact-duplicate" <=> r \in Clear \ Unique
         /\ \A r \in Clear \ Unique : keeper[r] = Min(Twins(r))
<1>1. /\ outcome = [r \in Rows |-> Reason(r)] /\ Unique \subseteq Rows /\ Clear \subseteq Rows
      /\ keeper = [r \in Rows |-> IF r \in Clear \ Unique THEN Min(Twins(r)) ELSE r]
  BY RowFacts DEF DatasetInv, Decided
<1>2. \A r \in Rows : outcome[r] = Reason(r)
  BY <1>1
<1>3. DatasetTyped
  BY DEF DatasetInv
<1> QED BY <1>1, <1>2, <1>3, ReasonsOf DEF Included

LEMMA TargetsFinite ==
  ASSUME DatasetTyped, NEW r
  PROVE  IsFiniteSet({made[s].target : s \in Rivals(r)})
<1> DEFINE f == [s \in Rivals(r) |-> made[s].target]
<1>1. IsFiniteSet(Rivals(r))
  BY RowFacts, FS_Subset DEF Rivals
<1>2. IsFiniteSet({f[s] : s \in Rivals(r)})
  BY <1>1, ImageFinite
<1>3. {f[s] : s \in Rivals(r)} = {made[s].target : s \in Rivals(r)}
  OBVIOUS
<1> QED BY <1>2, <1>3

LEMMA ClearAgree ==
  ASSUME DatasetTyped, NEW r \in Clear, NEW s \in Clear,
         made[r].sources = made[s].sources, made[r].context = made[s].context
  PROVE  made[r].target = made[s].target
<1> DEFINE targets == {made[x].target : x \in Rivals(r)}
<1>1. r \in Rivals(r) /\ s \in Rivals(r)
  BY RowFacts DEF Rivals
<1>2. IsFiniteSet(targets) /\ Cardinality(targets) \in Nat /\ ~(Cardinality(targets) >= 2)
  BY TargetsFinite, FS_CardinalityType DEF Clear, Conflicted
<1>3. made[r].target \in targets /\ made[s].target \in targets
  BY <1>1
<1> HIDE DEF targets
<1>4. Cardinality(targets) < 2
  BY <1>2
<1> QED BY <1>2, <1>3, <1>4, TwoInASet

\* The first of the records of a content is kept as their representative.
LEMMA FirstTwin ==
  ASSUME DatasetTyped, NEW r \in Clear
  PROVE  /\ Min(Twins(r)) \in Unique /\ Min(Twins(r)) \in Clear /\ Content(Min(Twins(r))) = Content(r)
         /\ \A s \in Clear : Content(s) = Content(r) => Twins(s) = Twins(r)
<1>1. \A s \in Clear : Content(s) = Content(r) => Twins(s) = Twins(r)
  BY DEF Twins
<1>2. r \in Twins(r) /\ Twins(r) \in SUBSET Nat
  BY RowFacts DEF Twins
<1>3. Min(Twins(r)) \in Twins(r)
  BY <1>2, Least
<1>4. Min(Twins(r)) \in Clear /\ Content(Min(Twins(r))) = Content(r)
  BY <1>3 DEF Twins
<1> QED BY <1>1, <1>4 DEF Unique

-----------------------------------------------------------------------------
(* Tokens *)

LEMMA TokensAre ==
  ASSUME NEW r, NEW t \in Tokens(r)
  PROVE  \/ t = <<1, Content(r)>>
         \/ \E s \in Basis(r) : t = <<2, raw[s]>>
         \/ \E s \in Basis(r) : t = <<3, s>>
BY DEF Tokens

LEMMA TokensFinite ==
  ASSUME DatasetTyped, NEW r \in Rows
  PROVE  IsFiniteSet(Tokens(r)) /\ Basis(r) \subseteq Sources
<1>1. Basis(r) \subseteq Sources
  BY RowFacts DEF Basis
<1> DEFINE f == [s \in Basis(r) |-> <<2, raw[s]>>]
           g == [s \in Basis(r) |-> <<3, s>>]
<1>2. IsFiniteSet(Basis(r))
  BY <1>1, RowFacts, FS_Subset
<1>3. IsFiniteSet({f[s] : s \in Basis(r)}) /\ IsFiniteSet({g[s] : s \in Basis(r)})
  BY <1>2, ImageFinite
<1>4. {f[s] : s \in Basis(r)} = {<<2, raw[s]>> : s \in Basis(r)} /\ {g[s] : s \in Basis(r)} = {<<3, s>> : s \in Basis(r)}
  OBVIOUS
<1>5. IsFiniteSet({<<1, Content(r)>>})
  BY FS_Singleton
<1> HIDE DEF f, g
<1>6. IsFiniteSet({<<1, Content(r)>>} \cup {f[s] : s \in Basis(r)})
  BY <1>3, <1>5, FS_Union
<1>7. IsFiniteSet(({<<1, Content(r)>>} \cup {f[s] : s \in Basis(r)}) \cup {g[s] : s \in Basis(r)})
  BY <1>3, <1>6, FS_Union
<1> QED BY <1>1, <1>4, <1>7 DEF Tokens

LEMMA GreatestThere ==
  ASSUME DatasetTyped, NEW r \in Rows, NEW T \in SUBSET Tokens(r), T # {}
  PROVE  Greatest(T) \in T
<1> DEFINE Numbers(n) == {t[2] : t \in {u \in T : u[1] = n}}
<1>1. \A t \in T : \/ t = <<1, Content(r)>> /\ t[1] = 1
                   \/ \E s \in Sources : t = <<2, raw[s]>> /\ t[1] = 2 /\ t[2] \in Nat
                   \/ \E s \in Sources : t = <<3, s>> /\ t[1] = 3 /\ t[2] \in Nat
  BY TokensAre, TokensFinite, RowFacts
<1>2. \A t \in T : t[1] \in {1, 2, 3} /\ (t[1] # 1 => t[2] \in Nat /\ t = <<t[1], t[2]>>) /\ (t[1] = 1 => t = <<1, Content(r)>>)
  BY <1>1
<1>3. ASSUME NEW n \in {2, 3}, Numbers(n) # {}
      PROVE  \E t \in T : t[1] = n /\ \A u \in T : u[1] = n => u[2] <= t[2]
  <2>1. Numbers(n) \in SUBSET Nat
    BY <1>2, <1>3
  <2>2. IsFiniteSet(Numbers(n))
    <3> DEFINE K == {u \in T : u[1] = n}
               f == [t \in K |-> t[2]]
    <3>1. K \in SUBSET Tokens(r)
      OBVIOUS
    <3>2. IsFiniteSet(K)
      <4> HIDE DEF K
      <4> QED BY <3>1, TokensFinite, FS_Subset
    <3>3. IsFiniteSet({f[t] : t \in K})
      <4> HIDE DEF K
      <4> QED BY <3>2, ImageFinite
    <3>4. {f[t] : t \in K} = Numbers(n)
      OBVIOUS
    <3> QED BY <3>3, <3>4
  <2>3. Max(Numbers(n)) \in Numbers(n) /\ \A y \in Numbers(n) : y <= Max(Numbers(n))
    <3> HIDE DEF Numbers
    <3> QED BY <1>3, <2>1, <2>2, Most
  <2>4. PICK t \in T : t[1] = n /\ t[2] = Max(Numbers(n))
    BY <2>3
  <2> QED BY <2>3, <2>4
<1>4. \E t \in T : \A u \in T \ {t} : Precedes(u, t)
  <2>1. CASE Numbers(3) # {}
    <3>1. PICK t \in T : t[1] = 3 /\ \A u \in T : u[1] = 3 => u[2] <= t[2]
      BY <1>3, <2>1
    <3> QED BY <1>2, <3>1 DEF Precedes
  <2>2. CASE Numbers(3) = {} /\ Numbers(2) # {}
    <3>1. PICK t \in T : t[1] = 2 /\ \A u \in T : u[1] = 2 => u[2] <= t[2]
      BY <1>3, <2>2
    <3>2. \A u \in T : u[1] # 3
      BY <2>2
    <3> QED BY <1>2, <3>1, <3>2 DEF Precedes
  <2>3. CASE Numbers(3) = {} /\ Numbers(2) = {}
    <3>1. \A u \in T : u[1] # 3 /\ u[1] # 2
      BY <2>3
    <3>2. \A u, v \in T : u = v
      BY <1>2, <3>1
    <3> QED BY <3>2
  <2> QED BY <2>1, <2>2, <2>3
<1> QED BY <1>4 DEF Greatest

-----------------------------------------------------------------------------
(* The steps *)

LEMMA SameRules ==
  ASSUME UNCHANGED inputs
  PROVE  /\ Rows' = Rows /\ Clear' = Clear /\ Unique' = Unique
         /\ \A r : Reason(r)' = Reason(r) /\ Twins(r)' = Twins(r) /\ Content(r)' = Content(r)
<1>1. made' = made /\ raw' = raw /\ policy' = policy
  BY DEF inputs
<1>2. Rows' = Rows /\ Long' = Long /\ \A r : Content(r)' = Content(r) /\ Primary(r)' = Primary(r)
  BY <1>1 DEF Rows, Long, Content, Primary
<1>3. \A r : Rivals(r)' = Rivals(r)
  BY <1>1, <1>2 DEF Rivals
<1>4. Conflicted' = Conflicted
  BY <1>1, <1>2, <1>3 DEF Conflicted
<1>5. Clear' = Clear
  BY <1>2, <1>4 DEF Clear
<1>6. \A r : Twins(r)' = Twins(r)
  BY <1>2, <1>5 DEF Twins
<1>7. Unique' = Unique
  BY <1>5, <1>6 DEF Unique
<1>8. \A r : Ordinal(r)' = Ordinal(r)
  BY <1>2, <1>7 DEF Ordinal
<1>9. Capped' = Capped
  BY <1>1, <1>7, <1>8 DEF Capped
<1>10. \A r : Reason(r)' = Reason(r)
  BY <1>2, <1>4, <1>5, <1>7, <1>9 DEF Reason
<1> QED BY <1>2, <1>5, <1>6, <1>7, <1>10

LEMMA SameTokens ==
  ASSUME UNCHANGED <<inputs, curated>>
  PROVE  /\ Included' = Included
         /\ \A r : Tokens(r)' = Tokens(r)
<1>1. made' = made /\ raw' = raw /\ outcome' = outcome /\ keeper' = keeper
  BY DEF inputs, curated
<1>2. Rows' = Rows /\ \A r : Content(r)' = Content(r)
  BY SameRules DEF inputs
<1>3. \A r : Basis(r)' = Basis(r)
  BY <1>1, <1>2 DEF Basis
<1> QED BY <1>1, <1>2, <1>3 DEF Included, Tokens

LEMMA EmptyLinked == Linked({}, AllTokens({}), Nobody, Nobody)
BY DEF Linked, AllTokens, Nobody, Forest, Closed

LEMMA InitDataset == DatasetInit => DatasetInv
<1> SUFFICES ASSUME DatasetInit PROVE DatasetInv
  OBVIOUS
<1>1. DOMAIN parents = {}
  BY DEF DatasetInit, Nobody
<1>2. Linked(DOMAIN parents, AllTokens(DOMAIN parents), parents, owner)
  BY <1>1, EmptyLinked DEF DatasetInit
<1> QED BY <1>1, <1>2 DEF DatasetInit, DatasetInv, DatasetTyped, Decided, GroupedSoFar, Divided, Unsplit

LEMMA CurateStep == DatasetInv /\ Curate => DatasetInv'
<1> SUFFICES ASSUME DatasetInv, Curate PROVE DatasetInv'
  OBVIOUS
<1>1. /\ phase = "curate" /\ phase' \in {"group", "invalid"} /\ UNCHANGED inputs
      /\ parents' = Nobody /\ owner' = Nobody /\ split' = split
      /\ outcome' = [r \in Rows |-> Reason(r)]
      /\ keeper' = [r \in Rows |-> IF r \in Clear \ Unique THEN Min(Twins(r)) ELSE r]
  BY DEF Curate, DatasetInv, Decided
<1>2. DatasetTyped'
  BY <1>1 DEF DatasetInv, DatasetTyped, inputs
<1>3. Decided'
  BY <1>1, SameRules DEF Decided
<1>4. DOMAIN parents' = {}
  BY <1>1 DEF Nobody
<1>5. AllTokens({})' = AllTokens({})
  BY DEF AllTokens
<1>6. GroupedSoFar'
  BY <1>1, <1>4, <1>5, EmptyLinked DEF GroupedSoFar
<1> QED BY <1>1, <1>2, <1>3, <1>6 DEF DatasetInv, Divided

\* A step that changes neither inputs nor decisions nor sets.
LEMMA QuietStep ==
  ASSUME DatasetInv, UNCHANGED <<inputs, curated, parents, owner>>, phase # "curate", phase' # "curate",
         split' = [groups |-> split'.groups, evaluation |-> split'.evaluation, target |-> split'.target], Divided'
  PROVE  DatasetInv'
<1>1. DatasetTyped'
  BY DEF DatasetInv, DatasetTyped, inputs
<1>2. Decided'
  BY SameRules DEF DatasetInv, Decided, curated
<1>3. AllTokens(DOMAIN parents)' = AllTokens(DOMAIN parents)
  BY SameTokens DEF AllTokens
<1>4. GroupedSoFar'
  BY <1>3, SameTokens DEF DatasetInv, GroupedSoFar
<1> QED BY <1>1, <1>2, <1>4 DEF DatasetInv

LEMMA GroupStep == DatasetInv /\ Group => DatasetInv'
<1> SUFFICES ASSUME DatasetInv, Group PROVE DatasetInv'
  OBVIOUS
<1> DEFINE r == Min(Waiting)
           D == DOMAIN parents
           base == [owner |-> owner, parents |-> SetDefault(parents, r, r)]
           after == MapThenFoldSet(LAMBDA t, state : Join(r, state, t), base, LAMBDA t : t, Greatest, Tokens(r))
<1>1. /\ phase = "group" /\ Waiting # {} /\ UNCHANGED <<inputs, phase, curated, split>>
      /\ owner' = after.owner /\ parents' = after.parents
  BY DEF Group
<1>2. /\ DatasetTyped /\ Decided /\ D \subseteq Included /\ Linked(D, AllTokens(D), parents, owner)
      /\ Included \subseteq Rows /\ Rows \subseteq Nat
  BY RowFacts DEF DatasetInv, GroupedSoFar, Included
<1>3. r \in Included /\ r \notin D /\ r \in Nat /\ r \in Rows /\ D \subseteq Nat
  <2>1. Waiting \in SUBSET Nat
    BY <1>2 DEF Waiting
  <2>2. r \in Waiting
    BY <1>1, <2>1, Least
  <2> QED BY <1>2, <2>2 DEF Waiting
<1>4. IsFiniteSet(Tokens(r)) /\ \A T \in SUBSET Tokens(r) : T # {} => Greatest(T) \in T
  BY <1>2, <1>3, TokensFinite, GreatestThere
<1> HIDE DEF r, D
<1>5. Linked(D \cup {r}, Got(D, r, {}), base.parents, base.owner)
  <2>1. base.parents = SetDefault(parents, r, r) /\ base.owner = owner
    OBVIOUS
  <2> HIDE DEF base
  <2> QED BY <1>2, <1>3, <2>1, BaseLinked
<1> HIDE DEF base
<1>6. Linked(D \cup {r}, Got(D, r, Tokens(r)), after.parents, after.owner)
  BY <1>3, <1>4, <1>5, TokensLink
<1> HIDE DEF after
<1>7. Got(D, r, Tokens(r)) = AllTokens(D \cup {r})
  BY DEF Got, AllTokens
<1>8. DOMAIN parents' = D \cup {r}
  BY <1>1, <1>6 DEF Linked, Forest
<1>9. GroupedSoFar'
  <2>1. AllTokens(DOMAIN parents)' = AllTokens(D \cup {r})
    BY <1>1, <1>8, SameTokens DEF AllTokens
  <2>2. Included' = Included
    BY <1>1, SameTokens
  <2> QED BY <1>1, <1>2, <1>3, <1>6, <1>7, <1>8, <2>1, <2>2 DEF GroupedSoFar
<1>10. DatasetTyped'
  BY <1>1, <1>2 DEF DatasetTyped, inputs
<1>11. Decided'
  BY <1>1, <1>2, SameRules DEF Decided, curated
<1> QED BY <1>1, <1>9, <1>10, <1>11 DEF DatasetInv, Divided

LEMMA GroupedStep == DatasetInv /\ Grouped => DatasetInv'
<1> SUFFICES ASSUME DatasetInv, Grouped PROVE DatasetInv'
  OBVIOUS
<1>1. /\ phase = "group" /\ Waiting = {} /\ phase' = "assign" /\ split' = [split EXCEPT !.groups = Classes]
      /\ UNCHANGED <<inputs, curated, parents, owner>>
  BY DEF Grouped
<1>2. split' = [groups |-> Classes, evaluation |-> split.evaluation, target |-> split.target]
  BY <1>1 DEF DatasetInv, DatasetTyped
<1>3. Included' = Included /\ parents' = parents
  BY <1>1, SameTokens
<1>4. DOMAIN parents = Included
  BY <1>1 DEF Waiting, DatasetInv, GroupedSoFar
<1>5. Classes' = Classes
  BY <1>3 DEF Classes
<1>6. Divided'
  BY <1>1, <1>2, <1>3, <1>4, <1>5 DEF Divided
<1> QED BY <1>1, <1>2, <1>6, QuietStep

LEMMA AssignStep == DatasetInv /\ (OneGroup \/ Assign) => DatasetInv'
<1> SUFFICES ASSUME DatasetInv, OneGroup \/ Assign PROVE DatasetInv'
  OBVIOUS
<1>1. /\ phase = "assign" /\ UNCHANGED <<inputs, curated, parents, owner>>
      /\ phase' = "refused" \/ phase' = Settled(split')
      /\ split' = split \/ \E target, evaluation : split' = [split EXCEPT !.target = target, !.evaluation = evaluation]
  <2>1. CASE OneGroup
    BY <2>1 DEF OneGroup
  <2>2. CASE Assign
    <3>1. PICK order \in SetToSeqs(split.groups) :
            LET target == Target(Cardinality(Included))
                result == [split EXCEPT !.target = target, !.evaluation = FirstOf(order, Nearest(order, target))]
            IN  split' = result /\ phase' = Settled(result)
      BY <2>2 DEF Assign
    <3> QED BY <2>2, <3>1 DEF Assign
  <2> QED BY <2>1, <2>2
<1>2. /\ split' = [groups |-> split'.groups, evaluation |-> split'.evaluation, target |-> split'.target]
      /\ split'.groups = split.groups
  BY <1>1 DEF DatasetInv, DatasetTyped
<1>3. Included' = Included /\ parents' = parents
  BY <1>1, SameTokens
<1>4. Classes' = Classes
  BY <1>3 DEF Classes
<1>5. phase' \in {"refused", "done", "invalid"} /\ (phase' = "done" => split'.evaluation \subseteq split'.groups)
  BY <1>1 DEF Settled, SplitCloses
<1>6. Divided'
  BY <1>1, <1>2, <1>3, <1>4, <1>5 DEF DatasetInv, Divided
<1> QED BY <1>1, <1>2, <1>5, <1>6, QuietStep

LEMMA NothingStep == DatasetInv /\ (NothingToSplit \/ UNCHANGED datasetVars) => DatasetInv'
<1>1. DatasetInv /\ NothingToSplit => DatasetInv'
  <2> SUFFICES ASSUME DatasetInv, NothingToSplit PROVE DatasetInv'
    OBVIOUS
  <2>1. Divided'
    BY DEF NothingToSplit, Divided
  <2> QED BY <2>1, QuietStep DEF NothingToSplit, DatasetInv, DatasetTyped
<1>2. DatasetInv /\ UNCHANGED datasetVars => DatasetInv'
  <2> SUFFICES ASSUME DatasetInv, UNCHANGED datasetVars PROVE DatasetInv'
    OBVIOUS
  <2>1. UNCHANGED <<inputs, curated, parents, owner, split, phase>>
    BY DEF datasetVars
  <2>2. Included' = Included /\ Classes' = Classes
    BY <2>1, SameTokens DEF Classes
  <2>3. Divided'
    BY <2>1, <2>2 DEF DatasetInv, Divided
  <2>4. CASE phase # "curate"
    BY <2>1, <2>3, <2>4, QuietStep DEF DatasetInv, DatasetTyped
  <2>5. CASE phase = "curate"
    <3>1. AllTokens(DOMAIN parents)' = AllTokens(DOMAIN parents)
      BY <2>1, SameTokens DEF AllTokens
    <3> QED BY <2>1, <2>2, <2>3, <2>5, <3>1 DEF DatasetInv, DatasetTyped, Decided, GroupedSoFar, inputs, curated
  <2> QED BY <2>4, <2>5
<1> QED BY <1>1, <1>2

LEMMA DatasetStep == DatasetInv /\ [DatasetNext]_datasetVars => DatasetInv'
BY CurateStep, GroupStep, GroupedStep, AssignStep, NothingStep DEF DatasetNext

\* What curation, grouping and assignment keep at every step.
THEOREM DatasetInvariance == DatasetSpec => []DatasetInv
BY DatasetStep, InitDataset, PTL DEF DatasetSpec

-----------------------------------------------------------------------------
(* The properties *)

LEMMA NoneWhileCurating == DatasetInv /\ phase = "curate" => Included = {} /\ DOMAIN parents = {}
BY DEF DatasetInv, DatasetTyped, Decided, Included, Undecided, Rows, Nobody

LEMMA OneAnswer == DatasetInv => NoContradiction
<1> SUFFICES ASSUME DatasetInv, NEW r \in Included, NEW s \in Included,
                    made[r].sources = made[s].sources, made[r].context = made[s].context
             PROVE  made[r].target = made[s].target
  BY DEF NoContradiction
<1>1. phase # "curate" /\ DatasetTyped
  BY NoneWhileCurating DEF DatasetInv
<1>2. r \in Clear /\ s \in Clear
  BY <1>1, Curated, RowFacts
<1> QED BY <1>1, <1>2, ClearAgree

\* Whatever else curation does, no dataset teaches two answers to one context
\* of one source scope (curate_dataset).
THEOREM NothingContradicts == DatasetSpec => []NoContradiction
BY OneAnswer, DatasetInvariance, PTL

\* Without a cap, a content that is long enough and nowhere contradicted is
\* still carried by some record (curate_dataset).
THEOREM ContentStays == DatasetSpec => []ContentKept
<1>1. DatasetInv => ContentKept
  <2> SUFFICES ASSUME DatasetInv, phase # "curate", policy.cap = 0, NEW r \in Long,
                      \A s \in Long : ~(/\ made[s].sources = made[r].sources
                                         /\ made[s].context = made[r].context
                                         /\ made[s].target # made[r].target)
               PROVE  \E k \in Included : Content(k) = Content(r)
    BY DEF ContentKept
  <2>1. {made[s].target : s \in Rivals(r)} = {made[r].target}
    BY DEF Rivals
  <2>2. Cardinality({made[s].target : s \in Rivals(r)}) = 1
    BY <2>1, FS_Singleton
  <2>3. r \in Clear
    BY <2>2 DEF Clear, Conflicted
  <2>4. Included = Unique
    BY Curated DEF Capped
  <2> QED BY <2>3, <2>4, FirstTwin DEF DatasetInv
<1> QED BY <1>1, DatasetInvariance, PTL

\* Records that share a token have one root.
LEMMA SharedRoot ==
  ASSUME DatasetInv, NEW r \in DOMAIN parents, NEW s \in DOMAIN parents, Tokens(r) \cap Tokens(s) # {}
  PROVE  Root(parents, r) = Root(parents, s)
<1>1. \A a \in DOMAIN parents : \A t \in Tokens(a) : Root(parents, owner[t]) = Root(parents, a)
  BY DEF DatasetInv, GroupedSoFar, Linked, AllTokens
<1>2. PICK t : t \in Tokens(r) /\ t \in Tokens(s)
  OBVIOUS
<1> QED BY <1>1, <1>2

LEMMA Components == DatasetInv => GroupsAreComponents
<1> SUFFICES ASSUME DatasetInv, phase \in {"assign", "done"}
             PROVE  /\ UNION split.groups = Included
                    /\ \A g, h \in split.groups : g # h => GroupTokens({g}) \cap GroupTokens({h}) = {}
                    /\ \A g \in split.groups : \A part \in (SUBSET g) \ {{}, g} :
                         GroupTokens({part}) \cap GroupTokens({g \ part}) # {}
  BY DEF GroupsAreComponents
<1> DEFINE D == Included
           root(r) == Root(parents, r)
           class(r) == {s \in D : root(s) = root(r)}
<1>1. /\ split.groups = {class(r) : r \in D} /\ DOMAIN parents = D
      /\ Linked(D, AllTokens(D), parents, owner)
  BY DEF DatasetInv, Divided, GroupedSoFar, Classes
<1>2. \A g : \A t : t \in GroupTokens({g}) <=> \E r \in g : t \in Tokens(r)
  BY DEF GroupTokens
<1>3. \A r, s \in D : Tokens(r) \cap Tokens(s) # {} => root(r) = root(s)
  BY <1>1, SharedRoot
<1>4. UNION split.groups = D
  <2>1. \A r \in D : r \in class(r) /\ class(r) \subseteq D
    OBVIOUS
  <2> HIDE DEF class
  <2> QED BY <1>1, <2>1
<1>5. ASSUME NEW g \in split.groups, NEW h \in split.groups, g # h
      PROVE  GroupTokens({g}) \cap GroupTokens({h}) = {}
  <2> SUFFICES ASSUME NEW t, t \in GroupTokens({g}), t \in GroupTokens({h}) PROVE FALSE
    OBVIOUS
  <2>1. PICK r \in g : t \in Tokens(r)
    BY <1>2
  <2>2. PICK s \in h : t \in Tokens(s)
    BY <1>2
  <2>3. r \in D /\ s \in D /\ g = class(r) /\ h = class(s)
    BY <1>1
  <2>4. root(r) = root(s)
    BY <1>3, <2>1, <2>2, <2>3
  <2> QED BY <1>5, <2>3, <2>4
<1>6. ASSUME NEW g \in split.groups, NEW part \in (SUBSET g) \ {{}, g}
      PROVE  GroupTokens({part}) \cap GroupTokens({g \ part}) # {}
  <2> SUFFICES ASSUME GroupTokens({part}) \cap GroupTokens({g \ part}) = {} PROVE FALSE
    OBVIOUS
  <2>1. \E r \in part : \E s \in g : s \notin part
    <3>1. part # {} /\ part # g /\ part \subseteq g
      BY <1>6
    <3> QED BY <3>1
  <2>2. g \subseteq D /\ \A a, b \in g : root(a) = root(b)
    BY <1>1
  <2>3. \A a \in g, b \in D : root(b) = root(a) => b \in g
    BY <1>1
  <2>4. Closed(part, D, AllTokens(D))
    <3> SUFFICES ASSUME NEW a \in part, NEW b \in D, Tokens(a) \cap Tokens(b) # {} PROVE b \in part
      BY <2>2 DEF Closed, AllTokens
    <3>1. b \in g
      BY <1>3, <2>2, <2>3
    <3>2. PICK t : t \in Tokens(a) /\ t \in Tokens(b)
      OBVIOUS
    <3> QED BY <1>2, <3>1, <3>2
  <2>5. \A i \in D : root(i) \in part <=> i \in part
    BY <1>1, <2>2, <2>4 DEF Linked
  <2> QED BY <2>1, <2>2, <2>5
<1> QED BY <1>4, <1>5, <1>6

\* The leakage groups are the connected components of sharing a token, in
\* whatever order records and tokens come (build_leakage_groups).
THEOREM GroupsConnect == DatasetSpec => []GroupsAreComponents
<1> QED BY Components, DatasetInvariance, PTL

\* What stands behind a training record and what stands behind an evaluation
\* record share no source and no bytes, what curation dropped as a duplicate
\* included (split_dataset).
THEOREM NothingLeaks == DatasetSpec => []LeakageFree
<1>1. DatasetInv => LeakageFree
  <2> DEFINE behind(r) == {d \in Rows : d = r \/ (outcome[d] = "exact-duplicate" /\ Content(d) = Content(r))}
             sources(r) == UNION {made[d].sources : d \in behind(r)}
  <2> SUFFICES ASSUME DatasetInv, phase = "done", NEW r \in Train, NEW s \in Evaluation,
                      NEW a \in sources(r), NEW b \in sources(s)
               PROVE  raw[a] # raw[b] /\ a # b
    BY Components DEF LeakageFree
  <2>1. GroupsAreComponents /\ DatasetTyped /\ split.evaluation \subseteq split.groups
    BY Components DEF DatasetInv, Divided
  <2>2. PICK g \in split.groups : r \in g /\ g \notin split.evaluation
    BY <2>1 DEF Train, Evaluation, GroupsAreComponents
  <2>3. PICK h \in split.evaluation : s \in h
    BY DEF Evaluation
  <2>4. GroupTokens({g}) \cap GroupTokens({h}) = {}
    BY <2>1, <2>2, <2>3 DEF GroupsAreComponents
  <2>5. Tokens(r) \cap Tokens(s) = {}
    <3>1. Tokens(r) \subseteq GroupTokens({g}) /\ Tokens(s) \subseteq GroupTokens({h})
      BY <2>2, <2>3 DEF GroupTokens
    <3> QED BY <2>4, <3>1
  <2>6. r \in Included /\ s \in Included
    BY <2>1, <2>3 DEF Train, GroupsAreComponents
  <2>7. ASSUME NEW q \in Included PROVE sources(q) \subseteq Basis(q)
    <3>1. q \in Clear /\ q \in Unique /\ q \in Rows
      BY <2>1, <2>7, Curated, RowFacts
    <3>2. ASSUME NEW d \in behind(q) PROVE made[d].sources \subseteq Basis(q)
      <4>1. CASE d = q
        BY <4>1 DEF Basis
      <4>2. CASE d # q
        <5>1. d \in Clear \ Unique /\ Content(d) = Content(q) /\ outcome[d] = "exact-duplicate" /\ d \in Rows
          BY <4>2, Curated
        <5>2. keeper[d] = Min(Twins(d)) /\ Twins(d) = Twins(q) /\ q = Min(Twins(q))
          BY <2>1, <3>1, <5>1, Curated, FirstTwin DEF Unique
        <5> QED BY <5>1, <5>2 DEF Basis
      <4> QED BY <4>1, <4>2
    <3> QED BY <3>2
  <2>8. a \in Basis(r) /\ b \in Basis(s)
    BY <2>6, <2>7
  <2>9. /\ <<2, raw[a]>> \in Tokens(r) /\ <<3, a>> \in Tokens(r)
        /\ <<2, raw[b]>> \in Tokens(s) /\ <<3, b>> \in Tokens(s)
    BY <2>8 DEF Tokens
  <2> QED BY <2>5, <2>9
<1> QED BY <1>1, DatasetInvariance, PTL

-----------------------------------------------------------------------------
(* The verifier *)

Entries == AnyPath \cup Folders
PathFacts == [is : {"sealed", "torn", "linked", "missing"}, changes : Nat, moves : Nat]

TreeTyped ==
  /\ tree \in [AnyPath -> PathFacts] /\ look.then \in [AnyPath -> PathFacts]
  /\ look = [asked |-> look.asked, next |-> look.next, todo |-> look.todo, found |-> look.found,
             stat |-> look.stat, then |-> look.then]
  /\ look.found = [e \in Entries |-> look.found[e]] /\ look.stat = [e \in Entries |-> look.stat[e]]
  /\ \A p \in AnyPath : look.found[p] \in PathFacts /\ look.stat[p] \in PathFacts

\* What a path held earlier, and what it holds at a later time.
Earlier(old, new) ==
  /\ old.changes <= new.changes /\ (old.changes = new.changes => old = new)
  /\ old.moves <= new.moves /\ (old.moves = new.moves => (old.is = "missing" <=> new.is = "missing"))

\* A walk that noted these facts noted them earlier than now: of the files it
\* met, and of the folder data with what was not in it.
Noted(said, now) ==
  /\ \A p \in AnyPath : said[p].is # "missing" => Earlier(said[p], now[p])
  /\ said["data"]["stray"] \in Nat /\ said["data"]["stray"] <= now["stray"].moves
  /\ (said["stray"].is = "missing" /\ said["data"]["stray"] = now["stray"].moves) => now["stray"].is = "missing"

ToDo(call, e) == <<call, e>> \in look.todo
Walking == sealing \in {"collecting", "closing"} /\ ~ToDo("list", "root")

\* What holds of the walk that goes on, entry by entry.
WalkHolds ==
  Walking =>
    /\ \A p \in AnyPath : /\ Earlier(look.then[p], tree[p])
                          /\ look.found[p].is # "missing" => Earlier(look.found[p], tree[p]) /\ Earlier(look.then[p], look.found[p])
    /\ ~ToDo("stat", "data") => /\ look.found["data"]["stray"] \in Nat
                                /\ look.found["data"]["stray"] <= tree["stray"].moves
                                /\ look.then["stray"].moves <= look.found["data"]["stray"]
    /\ (~ToDo("stat", "data") /\ ~ToDo("list", "data") /\ ~ToDo("stat", "stray") /\ look.found["stray"].is = "missing") =>
         (look.found["data"]["stray"] = tree["stray"].moves => tree["stray"].is = "missing")
    /\ (~ToDo("stat", "extra") /\ look.found["extra"].is = "missing") => look.then["extra"].is = "missing"

\* The facts of the first walk are of the tree before now, and before the
\* second walk.
FirstWalkHolds ==
  /\ sealing \in Verifying \ {"collecting"} => Noted(look.stat, tree)
  /\ sealing = "closing" /\ Walking => Noted(look.stat, look.then)

WasWhole == \A p \in AnyPath : look.then[p].is = IF p \in BundlePaths THEN "sealed" ELSE "missing"

\* What was read is in the tree as it was collected, sealed; what the manifest
\* names is all there was; and after the second walk all of it was so when that began.
ReadAsCollected ==
  /\ sealing \in {"idle", "formatted", "validated", "failed", "sealed", "collecting", "manifest", "attestation"}
       => look.next = 1
  /\ sealing \in {"attestation", "payloads", "report", "opening", "rows", "closing"}
       => Present(look.stat) = BundlePaths /\ look.stat["manifest"].is = "sealed"
  /\ sealing \in {"payloads", "report", "opening", "rows", "closing"} => look.stat["attestation"].is = "sealed"
  /\ sealing = "payloads" => /\ look.next \in 1..4
                             /\ \A n \in 1..(look.next - 1) : look.stat[Payloads[n]].is = "sealed"
  /\ sealing \in {"report", "opening", "rows", "closing"} => \A n \in 1..4 : look.stat[Payloads[n]].is = "sealed"
  /\ sealing \in {"manifest again", "attestation again"} => WasWhole

BundleInv == TreeTyped /\ WalkHolds /\ FirstWalkHolds /\ ReadAsCollected /\ VerifiedAsOneTree

LEMMA FourPayloads ==
  /\ Len(Payloads) = 4 /\ Payloads[1] = "evaluation" /\ Payloads[2] = "train"
  /\ Payloads[3] = "provenance" /\ Payloads[4] = "validation"
  /\ BundlePaths = {"evaluation", "train", "provenance", "validation", "manifest", "attestation"}
  /\ AnyPath = {"evaluation", "train", "provenance", "validation", "manifest", "attestation", "extra", "stray"}
<1>1. ToSet(Payloads) = {"evaluation", "train", "provenance", "validation"}
  BY DEF ToSet, Payloads
<1> QED BY <1>1 DEF Payloads, BundlePaths, AnyPath, Metadata

LEMMA NothingTyped ==
  /\ NotThere \in PathFacts /\ NoTree \in [AnyPath -> PathFacts] /\ NoStat = [e \in Entries |-> NotThere]
  /\ \A p \in AnyPath : NoStat[p] = NotThere
  /\ NotThere.is = "missing"
BY DEF NotThere, PathFacts, NoTree, NoStat, Entries

LEMMA InitBundle == BundleInit => BundleInv
<1> SUFFICES ASSUME BundleInit PROVE BundleInv
  OBVIOUS
<1>1. TreeTyped
  <2>1. tree = NoTree /\ look = NoLook
    BY DEF BundleInit
  <2> QED BY <2>1, NothingTyped DEF TreeTyped, NoLook
<1>2. sealing = "idle" /\ look.next = 1
  BY DEF BundleInit, NoLook
<1> QED BY <1>1, <1>2 DEF BundleInv, WalkHolds, Walking, FirstWalkHolds, Verifying, ReadAsCollected, VerifiedAsOneTree

LEMMA EarlierSame == ASSUME NEW a \in PathFacts PROVE Earlier(a, a)
BY DEF Earlier, PathFacts

LEMMA EarlierStill ==
  ASSUME NEW a \in PathFacts, NEW b \in PathFacts, NEW c \in PathFacts, Earlier(a, b), Earlier(b, c)
  PROVE  Earlier(a, c)
<1>1. /\ a.changes \in Nat /\ b.changes \in Nat /\ c.changes \in Nat
      /\ a.moves \in Nat /\ b.moves \in Nat /\ c.moves \in Nat
  BY DEF PathFacts
<1> QED BY <1>1 DEF Earlier

\* A change of a file leaves what it was earlier.
LEMMA Disturbance ==
  ASSUME TreeTyped, Disturb
  PROVE  tree' \in [AnyPath -> PathFacts] /\ \A p \in AnyPath : Earlier(tree[p], tree'[p])
<1>1. PICK p \in AnyPath, is \in {"sealed", "torn", "linked", "missing"} :
        /\ is # tree[p].is
        /\ tree' = [tree EXCEPT ![p] = [is |-> is, changes |-> @.changes + 1,
                                        moves |-> @.moves + IF "missing" \in {is, @.is} THEN 1 ELSE 0]]
  BY DEF Disturb
<1> DEFINE now == [is |-> is, changes |-> tree[p].changes + 1,
                   moves |-> tree[p].moves + IF "missing" \in {is, tree[p].is} THEN 1 ELSE 0]
<1>2. tree[p] \in PathFacts /\ tree \in [AnyPath -> PathFacts]
  BY DEF TreeTyped
<1>3. tree[p].changes \in Nat /\ tree[p].moves \in Nat
  BY <1>2 DEF PathFacts
<1>4. now.is = is /\ now.changes = tree[p].changes + 1
      /\ now.moves = tree[p].moves + IF "missing" \in {is, tree[p].is} THEN 1 ELSE 0
  OBVIOUS
<1>5. now \in PathFacts
  BY <1>3 DEF PathFacts
<1>6. tree' = [tree EXCEPT ![p] = now]
  BY <1>1
<1>7. Earlier(tree[p], now)
  <2> HIDE DEF now
  <2> QED BY <1>1, <1>3, <1>4 DEF Earlier
<1> HIDE DEF now
<1>8. tree' \in [AnyPath -> PathFacts]
  BY <1>2, <1>5, <1>6
<1>9. ASSUME NEW q \in AnyPath PROVE Earlier(tree[q], tree'[q])
  <2>1. CASE q = p
    BY <1>2, <1>6, <1>7, <2>1
  <2>2. CASE q # p
    <3>1. tree'[q] = tree[q] /\ tree[q] \in PathFacts
      BY <1>2, <1>6, <2>2
    <3> QED BY <3>1, EarlierSame
  <2> QED BY <2>1, <2>2
<1> QED BY <1>8, <1>9

\* What was noted of a tree was noted of a later one.
LEMMA NotedStill ==
  ASSUME NEW said, \A p \in AnyPath : said[p] \in PathFacts,
         NEW then \in [AnyPath -> PathFacts], NEW now \in [AnyPath -> PathFacts],
         \A p \in AnyPath : Earlier(then[p], now[p]), Noted(said, then)
  PROVE  Noted(said, now)
<1>1. \A p \in AnyPath : said[p].is # "missing" => Earlier(said[p], now[p])
  BY EarlierStill DEF Noted
<1>2. "stray" \in AnyPath
  BY FourPayloads
<1>3. Earlier(then["stray"], now["stray"]) /\ then["stray"] \in PathFacts /\ now["stray"] \in PathFacts
  BY <1>2
<1>4. then["stray"].moves \in Nat /\ now["stray"].moves \in Nat
  BY <1>3 DEF PathFacts
<1> DEFINE seen == said["data"]["stray"]
<1>5. /\ then["stray"].moves <= now["stray"].moves
      /\ then["stray"].moves = now["stray"].moves => (then["stray"].is = "missing" <=> now["stray"].is = "missing")
  BY <1>3 DEF Earlier
<1>6. /\ seen \in Nat /\ seen <= then["stray"].moves
      /\ (said["stray"].is = "missing" /\ seen = then["stray"].moves) => then["stray"].is = "missing"
  BY DEF Noted
<1> HIDE DEF seen
<1>7. seen <= now["stray"].moves
  BY <1>4, <1>5, <1>6
<1>8. seen = now["stray"].moves => seen = then["stray"].moves /\ then["stray"].moves = now["stray"].moves
  BY <1>4, <1>5, <1>6
<1>9. (said["stray"].is = "missing" /\ seen = now["stray"].moves) => now["stray"].is = "missing"
  BY <1>5, <1>6, <1>8
<1> QED BY <1>1, <1>6, <1>7, <1>9 DEF Noted, seen

\* The steps before a bundle is there, and those that change a file of it.
LEMMA WriterStep ==
  ASSUME BundleInv,
         Validate \/ HandOverImported \/ Seal \/ Disturb \/ \E objective \in Objectives : Format(objective)
  PROVE  BundleInv'
<1> DEFINE Early == {"idle", "formatted", "validated", "failed", "sealed"}
<1>1. ASSUME look' = look, tree' \in [AnyPath -> PathFacts], sealing \in Early, sealing' \in Early PROVE BundleInv'
  <2>1. TreeTyped'
    BY <1>1 DEF BundleInv, TreeTyped
  <2>2. look.next = 1
    BY <1>1 DEF BundleInv, ReadAsCollected
  <2> QED BY <1>1, <2>1, <2>2
          DEF BundleInv, WalkHolds, Walking, FirstWalkHolds, Verifying, ReadAsCollected, VerifiedAsOneTree
<1>2. tree \in [AnyPath -> PathFacts]
  BY DEF BundleInv, TreeTyped
<1>3. CASE Validate
  BY <1>1, <1>2, <1>3 DEF Validate
<1>4. CASE HandOverImported
  BY <1>1, <1>2, <1>4 DEF HandOverImported
<1>5. CASE \E objective \in Objectives : Format(objective)
  BY <1>1, <1>2, <1>5 DEF Format
<1>6. CASE Seal
  <2>1. tree' \in [AnyPath -> PathFacts]
    BY <1>6 DEF Seal, PathFacts
  <2> QED BY <1>1, <1>6, <2>1 DEF Seal
<1>7. CASE Disturb
  <2>1. sealing' = sealing /\ look' = look
    BY <1>7 DEF Disturb
  <2>2. TreeTyped /\ tree' \in [AnyPath -> PathFacts] /\ \A p \in AnyPath : Earlier(tree[p], tree'[p])
    BY <1>7, Disturbance DEF BundleInv
  <2>3. TreeTyped'
    BY <2>1, <2>2 DEF TreeTyped
  <2>4. ReadAsCollected' /\ VerifiedAsOneTree' /\ Walking' = Walking
    BY <2>1 DEF BundleInv, ReadAsCollected, WasWhole, VerifiedAsOneTree, Walking, ToDo
  <2>5. FirstWalkHolds'
    <3>1. \A p \in AnyPath : look.stat[p] \in PathFacts
      BY <2>2 DEF TreeTyped
    <3>2. Noted(look.stat, tree) => Noted(look.stat, tree')
      BY <1>2, <2>2, <3>1, NotedStill
    <3> QED BY <2>1, <2>4, <3>2 DEF BundleInv, FirstWalkHolds
  <2>6. ASSUME Walking PROVE WalkHolds'
    <3>1. \A p \in AnyPath : /\ tree[p] \in PathFacts /\ tree'[p] \in PathFacts
                             /\ look.then[p] \in PathFacts /\ look.found[p] \in PathFacts
      BY <2>2 DEF TreeTyped
    <3>2. \A p \in AnyPath : /\ Earlier(look.then[p], tree'[p])
                             /\ look.found[p].is # "missing" => Earlier(look.found[p], tree'[p]) /\ Earlier(look.then[p], look.found[p])
      BY <2>2, <2>6, <3>1, EarlierStill DEF BundleInv, WalkHolds
    <3>3. "stray" \in AnyPath
      BY FourPayloads
    <3>4. tree["stray"].moves \in Nat /\ tree'["stray"].moves \in Nat /\ Earlier(tree["stray"], tree'["stray"])
      BY <2>2, <3>1, <3>3 DEF PathFacts
    <3>5. ~ToDo("stat", "data") => /\ look.found["data"]["stray"] \in Nat
                                   /\ look.found["data"]["stray"] <= tree["stray"].moves
                                   /\ look.found["data"]["stray"] <= tree'["stray"].moves
                                   /\ look.then["stray"].moves <= look.found["data"]["stray"]
      BY <2>6, <3>4 DEF BundleInv, WalkHolds, Earlier
    <3>6. (~ToDo("stat", "data") /\ ~ToDo("list", "data") /\ ~ToDo("stat", "stray") /\ look.found["stray"].is = "missing") =>
            (look.found["data"]["stray"] = tree'["stray"].moves => tree'["stray"].is = "missing")
      BY <2>6, <3>4, <3>5 DEF BundleInv, WalkHolds, Earlier
    <3>7. (~ToDo("stat", "extra") /\ look.found["extra"].is = "missing") => look.then["extra"].is = "missing"
      BY <2>6 DEF BundleInv, WalkHolds
    <3>8. \A c, e : ToDo(c, e)' = ToDo(c, e)
      BY <2>1 DEF ToDo
    <3> QED BY <2>1, <3>2, <3>5, <3>6, <3>7, <3>8 DEF WalkHolds
  <2>7. WalkHolds'
    BY <2>4, <2>6 DEF WalkHolds
  <2> QED BY <2>3, <2>4, <2>5, <2>7 DEF BundleInv
<1> QED BY <1>3, <1>4, <1>5, <1>6, <1>7

\* A call of a walk is of one of the folders or of one of the entries.
LEMMA WalkCalls ==
  ASSUME Collect
  PROVE  \/ \E d \in Folders \cup {"root"} : ToDo("list", d) /\ ListFolder(d)
         \/ \E e \in Entries : ToDo("stat", e) /\ StatEntry(e)
<1>1. PICK n \in DOMAIN WalkOrder :
        /\ WalkOrder[n] \in look.todo
        /\ IF WalkOrder[n][1] = "list" THEN ListFolder(WalkOrder[n][2]) ELSE StatEntry(WalkOrder[n][2])
  BY DEF Collect
<1>2. n \in 1..13
  BY DEF WalkOrder
<1>3. \/ \E d \in {"root", "data", "metadata"} : WalkOrder[n] = <<"list", d>>
      \/ \E e \in {"attestation", "data", "evaluation", "stray", "train", "extra", "manifest", "metadata",
                   "provenance", "validation"} : WalkOrder[n] = <<"stat", e>>
  BY <1>2 DEF WalkOrder
<1>4. Folders = {"data", "metadata"}
      /\ Entries = {"attestation", "data", "evaluation", "stray", "train", "extra", "manifest", "metadata",
                    "provenance", "validation"}
  BY FourPayloads DEF Folders, Entries
<1>5. CASE \E d \in {"root", "data", "metadata"} : WalkOrder[n] = <<"list", d>>
  <2>1. PICK d \in {"root", "data", "metadata"} : WalkOrder[n] = <<"list", d>>
    BY <1>5
  <2>2. WalkOrder[n][1] = "list" /\ WalkOrder[n][2] = d
    BY <2>1
  <2> QED BY <1>1, <1>4, <2>1, <2>2 DEF ToDo
<1>6. CASE \E e \in {"attestation", "data", "evaluation", "stray", "train", "extra", "manifest", "metadata",
                     "provenance", "validation"} : WalkOrder[n] = <<"stat", e>>
  <2>1. PICK e \in {"attestation", "data", "evaluation", "stray", "train", "extra", "manifest", "metadata",
                    "provenance", "validation"} : WalkOrder[n] = <<"stat", e>>
    BY <1>6
  <2>2. WalkOrder[n][1] = "stat" /\ WalkOrder[n][2] = e
    BY <2>1
  <2> QED BY <1>1, <1>4, <2>1, <2>2 DEF ToDo
<1> QED BY <1>3, <1>5, <1>6

\* What is to do after a call, and what was noted.
LEMMA AfterList ==
  ASSUME TreeTyped, NEW d \in Folders \cup {"root"}, ListFolder(d)
  PROVE  /\ \A e : ToDo("stat", e)' <=> ToDo("stat", e) \/ (e \in EntriesOf[d] /\ There(e))
         /\ \A e : ToDo("list", e)' <=> ToDo("list", e) /\ e # d
         /\ look'.found = (IF d = "root" THEN NoStat ELSE look.found)
         /\ look'.then = (IF d = "root" THEN tree ELSE look.then)
         /\ look'.stat = look.stat /\ look'.next = look.next /\ sealing' = sealing /\ look'.asked = look.asked
         /\ look' = [asked |-> look'.asked, next |-> look'.next, todo |-> look'.todo, found |-> look'.found,
                     stat |-> look'.stat, then |-> look'.then]
<1> DEFINE todo == (look.todo \ {<<"list", d>>}) \cup {<<"stat", e>> : e \in {f \in EntriesOf[d] : There(f)}}
<1>1. look' = [look EXCEPT !.todo = todo, !.found = IF d = "root" THEN NoStat ELSE look.found,
                           !.then = IF d = "root" THEN tree ELSE look.then]
      /\ sealing' = sealing
  BY DEF ListFolder
<1>2. look = [asked |-> look.asked, next |-> look.next, todo |-> look.todo, found |-> look.found,
              stat |-> look.stat, then |-> look.then]
  BY DEF TreeTyped
<1>3. /\ \A e : <<"stat", e>> \in todo <=> ToDo("stat", e) \/ (e \in EntriesOf[d] /\ There(e))
      /\ \A e : <<"list", e>> \in todo <=> ToDo("list", e) /\ e # d
  BY DEF ToDo
<1> HIDE DEF todo
<1>4. look'.todo = todo
  BY <1>1, <1>2
<1> QED BY <1>1, <1>2, <1>3, <1>4 DEF ToDo

LEMMA AfterStat ==
  ASSUME TreeTyped, NEW e \in Entries, StatEntry(e), sealing' # "rejected"
  PROVE  /\ There(e) /\ (e \in AnyPath => FactsOf(e) = tree[e] /\ tree[e].is # "missing")
         /\ \A x : ToDo("stat", x)' <=> ToDo("stat", x) /\ x # e
         /\ \A x : ToDo("list", x)' <=> ToDo("list", x) \/ (e \in Folders /\ x = e)
         /\ look'.found = [look.found EXCEPT ![e] = FactsOf(e)]
         /\ look'.then = look.then
         /\ look'.stat = look.stat /\ look'.next = look.next /\ sealing' = sealing /\ look'.asked = look.asked
         /\ look' = [asked |-> look'.asked, next |-> look'.next, todo |-> look'.todo, found |-> look'.found,
                     stat |-> look'.stat, then |-> look'.then]
<1> DEFINE todo == (look.todo \ {<<"stat", e>>}) \cup (IF e \in Folders THEN {<<"list", e>>} ELSE {})
<1>1. look' = [look EXCEPT !.todo = todo, !.found = [look.found EXCEPT ![e] = FactsOf(e)]]
      /\ sealing' = sealing /\ There(e)
  BY DEF StatEntry
<1>2. look = [asked |-> look.asked, next |-> look.next, todo |-> look.todo, found |-> look.found,
              stat |-> look.stat, then |-> look.then]
  BY DEF TreeTyped
<1>3. /\ \A x : <<"stat", x>> \in todo <=> ToDo("stat", x) /\ x # e
      /\ \A x : <<"list", x>> \in todo <=> ToDo("list", x) \/ (e \in Folders /\ x = e)
  BY DEF ToDo
<1> HIDE DEF todo
<1>4. look'.todo = todo
  BY <1>1, <1>2
<1>5. e \in AnyPath => e \notin Folders
  BY FourPayloads DEF Folders
<1>6. e \in AnyPath => FactsOf(e) = tree[e] /\ tree[e].is # "missing"
  BY <1>1, <1>5 DEF FactsOf, There
<1> QED BY <1>1, <1>2, <1>3, <1>4, <1>6 DEF ToDo

LEMMA FolderEntries ==
  /\ EntriesOf["root"] = {"attestation", "manifest", "validation", "data", "metadata", "extra"}
  /\ EntriesOf["data"] = {"evaluation", "train", "stray"} /\ EntriesOf["metadata"] = {"provenance"}
  /\ Folders = {"data", "metadata"}
BY DEF EntriesOf, Folders

LEMMA ListStep ==
  ASSUME BundleInv, sealing \in {"collecting", "closing"},
         NEW d \in Folders \cup {"root"}, ToDo("list", d), ListFolder(d), tree' = tree
  PROVE  BundleInv'
<1>1. TreeTyped
  BY DEF BundleInv
<1>2. /\ \A e : ToDo("stat", e)' <=> ToDo("stat", e) \/ (e \in EntriesOf[d] /\ There(e))
      /\ \A e : ToDo("list", e)' <=> ToDo("list", e) /\ e # d
      /\ look'.found = (IF d = "root" THEN NoStat ELSE look.found)
      /\ look'.then = (IF d = "root" THEN tree ELSE look.then)
      /\ look'.stat = look.stat /\ look'.next = look.next /\ sealing' = sealing
      /\ look' = [asked |-> look'.asked, next |-> look'.next, todo |-> look'.todo, found |-> look'.found,
                  stat |-> look'.stat, then |-> look'.then]
  BY <1>1, AfterList
<1>3. TreeTyped'
  BY <1>1, <1>2, NothingTyped DEF TreeTyped
<1>4. ReadAsCollected' /\ VerifiedAsOneTree'
  BY <1>2 DEF BundleInv, ReadAsCollected, VerifiedAsOneTree
<1>5. CASE d = "root"
  <2>1. ToDo("stat", "data")' /\ (~ToDo("stat", "extra")' => tree["extra"].is = "missing")
    BY <1>2, <1>5, FolderEntries DEF There
  <2>2. \A p \in AnyPath : look'.found[p].is = "missing" /\ Earlier(look'.then[p], tree'[p])
    <3>1. \A p \in AnyPath : tree[p] \in PathFacts
      BY <1>1 DEF TreeTyped
    <3> QED BY <1>2, <1>5, <3>1, NothingTyped, EarlierSame
  <2>3. look'.then = tree
    BY <1>2, <1>5
  <2>4. WalkHolds'
    BY <2>1, <2>2, <2>3 DEF WalkHolds
  <2>5. FirstWalkHolds'
    BY <1>2, <2>3 DEF BundleInv, FirstWalkHolds, Verifying
  <2> QED BY <1>3, <1>4, <2>4, <2>5 DEF BundleInv
<1>6. CASE d # "root"
  <2>1. look'.found = look.found /\ look'.then = look.then /\ Walking' = Walking
    BY <1>2, <1>6 DEF Walking
  <2>2. FirstWalkHolds'
    BY <1>2, <2>1 DEF BundleInv, FirstWalkHolds
  <2>3. ASSUME Walking PROVE WalkHolds'
    <3>1. (ToDo("stat", "data")' <=> ToDo("stat", "data")) /\ (ToDo("stat", "extra")' <=> ToDo("stat", "extra"))
      BY <1>2, <1>6, FolderEntries
    <3>2. \/ d = "data" /\ (~ToDo("stat", "stray")' => tree["stray"].is = "missing")
          \/ (ToDo("stat", "stray")' <=> ToDo("stat", "stray")) /\ (ToDo("list", "data")' <=> ToDo("list", "data"))
      BY <1>2, <1>6, FolderEntries DEF There
    <3> QED BY <1>2, <2>1, <2>3, <3>1, <3>2 DEF BundleInv, WalkHolds
  <2>4. WalkHolds'
    BY <2>1, <2>3 DEF WalkHolds
  <2> QED BY <1>3, <1>4, <2>2, <2>4 DEF BundleInv
<1> QED BY <1>5, <1>6

LEMMA StatStep ==
  ASSUME BundleInv, sealing \in {"collecting", "closing"},
         NEW e \in Entries, ToDo("stat", e), StatEntry(e), tree' = tree
  PROVE  BundleInv'
<1>1. TreeTyped
  BY DEF BundleInv
<1>2. CASE sealing' = "rejected"
  <2>1. look' = look
    BY <1>2 DEF StatEntry
  <2> QED BY <1>1, <1>2, <2>1
          DEF BundleInv, TreeTyped, WalkHolds, Walking, FirstWalkHolds, Verifying, ReadAsCollected, VerifiedAsOneTree
<1>3. CASE sealing' # "rejected"
  <2>1. /\ There(e) /\ (e \in AnyPath => FactsOf(e) = tree[e] /\ tree[e].is # "missing")
        /\ \A x : ToDo("stat", x)' <=> ToDo("stat", x) /\ x # e
        /\ \A x : ToDo("list", x)' <=> ToDo("list", x) \/ (e \in Folders /\ x = e)
        /\ look'.found = [look.found EXCEPT ![e] = FactsOf(e)]
        /\ look'.then = look.then
        /\ look'.stat = look.stat /\ look'.next = look.next /\ sealing' = sealing
        /\ look' = [asked |-> look'.asked, next |-> look'.next, todo |-> look'.todo, found |-> look'.found,
                    stat |-> look'.stat, then |-> look'.then]
    BY <1>1, <1>3, AfterStat
  <2>2. \A p \in AnyPath : /\ tree[p] \in PathFacts /\ look.found[p] \in PathFacts /\ look.stat[p] \in PathFacts
    BY <1>1 DEF TreeTyped
  <2>3. \A p \in Entries : look'.found[p] = IF p = e THEN FactsOf(e) ELSE look.found[p]
    BY <1>1, <2>1 DEF TreeTyped
  <2>4. look'.found = [p \in Entries |-> look'.found[p]]
    BY <1>1, <2>1 DEF TreeTyped
  <2>5. AnyPath \subseteq Entries /\ "data" \in Entries /\ "stray" \in AnyPath /\ "extra" \in AnyPath
    BY FourPayloads, FolderEntries DEF Entries
  <2>6. TreeTyped'
    <3>1. \A p \in AnyPath : look'.found[p] \in PathFacts
      BY <2>1, <2>2, <2>3, <2>5
    <3> QED BY <1>1, <2>1, <2>2, <2>4, <3>1 DEF TreeTyped
  <2>7. ReadAsCollected' /\ VerifiedAsOneTree' /\ Walking' = Walking
    <3>1. /\ look'.stat = look.stat /\ look'.next = look.next /\ look'.then = look.then /\ sealing' = sealing
          /\ ToDo("list", "root")' <=> ToDo("list", "root")
      BY <2>1, FolderEntries
    <3>2. ReadAsCollected /\ sealing \in {"collecting", "closing"}
      BY DEF BundleInv
    <3>3. ReadAsCollected'
      BY <3>1, <3>2 DEF ReadAsCollected
    <3> QED BY <3>1, <3>2, <3>3 DEF VerifiedAsOneTree, Walking
  <2>8. FirstWalkHolds'
    BY <2>1, <2>7 DEF BundleInv, FirstWalkHolds
  <2>9. ASSUME Walking PROVE WalkHolds'
    <3>1. \A p \in AnyPath :
            /\ Earlier(look.then[p], tree[p])
            /\ look'.found[p].is # "missing" => Earlier(look'.found[p], tree[p]) /\ Earlier(look.then[p], look'.found[p])
      BY <2>1, <2>2, <2>3, <2>5, <2>9, EarlierSame DEF BundleInv, WalkHolds
    <3>2. ~ToDo("stat", "data")' => /\ look'.found["data"]["stray"] \in Nat
                                    /\ look'.found["data"]["stray"] <= tree["stray"].moves
                                    /\ look.then["stray"].moves <= look'.found["data"]["stray"]
      <4>1. CASE e = "data"
        <5>1. look'.found["data"]["stray"] = tree["stray"].moves
          BY <2>3, <2>5, <4>1, FolderEntries DEF FactsOf
        <5>2. tree["stray"].moves \in Nat /\ look.then["stray"].moves <= tree["stray"].moves
          BY <2>2, <2>5, <3>1 DEF PathFacts, Earlier
        <5> QED BY <5>1, <5>2
      <4>2. CASE e # "data"
        <5>1. look'.found["data"] = look.found["data"] /\ (ToDo("stat", "data")' <=> ToDo("stat", "data"))
          BY <2>1, <2>3, <2>5, <4>2
        <5> QED BY <2>9, <5>1 DEF BundleInv, WalkHolds
      <4> QED BY <4>1, <4>2
    <3>3. (~ToDo("stat", "data")' /\ ~ToDo("list", "data")' /\ ~ToDo("stat", "stray")' /\ look'.found["stray"].is = "missing") =>
            (look'.found["data"]["stray"] = tree["stray"].moves => tree["stray"].is = "missing")
      <4>1. CASE e = "data"
        BY <2>1, <4>1, FolderEntries
      <4>2. CASE e = "stray"
        BY <2>1, <2>3, <2>5, <4>2
      <4>3. CASE e \notin {"data", "stray"}
        <5>1. /\ look'.found["data"] = look.found["data"] /\ look'.found["stray"] = look.found["stray"]
              /\ (ToDo("stat", "data")' <=> ToDo("stat", "data")) /\ (ToDo("stat", "stray")' <=> ToDo("stat", "stray"))
              /\ (ToDo("list", "data")' <=> ToDo("list", "data"))
          BY <2>1, <2>3, <2>5, <4>3
        <5> QED BY <2>9, <5>1 DEF BundleInv, WalkHolds
      <4> QED BY <4>1, <4>2, <4>3
    <3>4. (~ToDo("stat", "extra")' /\ look'.found["extra"].is = "missing") => look.then["extra"].is = "missing"
      <4>1. CASE e = "extra"
        BY <2>1, <2>3, <2>5, <4>1
      <4>2. CASE e # "extra"
        <5>1. look'.found["extra"] = look.found["extra"] /\ (ToDo("stat", "extra")' <=> ToDo("stat", "extra"))
          BY <2>1, <2>3, <2>5, <4>2
        <5> QED BY <2>9, <5>1 DEF BundleInv, WalkHolds
      <4> QED BY <4>1, <4>2
    <3> QED BY <2>1, <3>1, <3>2, <3>3, <3>4 DEF WalkHolds
  <2>10. WalkHolds'
    BY <2>7, <2>9 DEF WalkHolds
  <2> QED BY <2>6, <2>7, <2>8, <2>10 DEF BundleInv
<1> QED BY <1>2, <1>3

\* A step of the verifier between its walks.
LEMMA BetweenWalks ==
  ASSUME BundleInv, tree' = tree, TreeTyped', look'.stat = look.stat,
         sealing \in Verifying \ {"collecting"}, sealing' # "collecting", ReadAsCollected', VerifiedAsOneTree',
         sealing' = "closing" => ToDo("list", "root")'
  PROVE  BundleInv'
<1>1. ~Walking'
  BY DEF Walking
<1>2. WalkHolds'
  BY <1>1 DEF WalkHolds
<1>3. Noted(look.stat, tree)
  BY DEF BundleInv, FirstWalkHolds
<1>4. FirstWalkHolds'
  BY <1>1, <1>3 DEF FirstWalkHolds
<1> QED BY <1>2, <1>4 DEF BundleInv

LEMMA ReaderStep ==
  ASSUME BundleInv, StartVerify \/ Collect \/ Collected \/ ReadManifest \/ ReadAttestation \/ ReadReport \/ OpenRows \/ AlignRows
  PROVE  BundleInv'
<1>1. TreeTyped
  BY DEF BundleInv
<1>2. CASE StartVerify
  <2>1. PICK asked : look' = [look EXCEPT !.asked = asked, !.todo = StartWalk]
    BY <1>2 DEF StartVerify
  <2>2. /\ look'.stat = look.stat /\ look'.next = look.next /\ look'.found = look.found /\ look'.then = look.then
        /\ look' = [asked |-> look'.asked, next |-> look'.next, todo |-> look'.todo, found |-> look'.found,
                    stat |-> look'.stat, then |-> look'.then]
        /\ <<"list", "root">> \in look'.todo
    BY <1>1, <2>1 DEF TreeTyped, StartWalk
  <2>3. TreeTyped' /\ sealing = "sealed" /\ sealing' = "collecting"
    BY <1>1, <1>2, <2>2 DEF TreeTyped, StartVerify
  <2>4. ~Walking'
    BY <2>2 DEF Walking, ToDo
  <2> QED BY <2>2, <2>3, <2>4 DEF BundleInv, WalkHolds, FirstWalkHolds, ReadAsCollected, VerifiedAsOneTree
<1>3. CASE Collect
  BY <1>3, WalkCalls, ListStep, StatStep DEF Collect
<1>4. CASE Collected
  <2>1. /\ look' = [look EXCEPT !.stat = look.found] /\ tree' = tree /\ look.todo = {} /\ sealing = "collecting"
        /\ sealing' \in {"manifest", "rejected"}
    BY <1>4 DEF Collected, VerifierStep
  <2>2. /\ look'.stat = look.found /\ look'.next = look.next /\ look'.found = look.found /\ look'.then = look.then
        /\ look' = [asked |-> look'.asked, next |-> look'.next, todo |-> look'.todo, found |-> look'.found,
                    stat |-> look'.stat, then |-> look'.then]
    BY <1>1, <2>1 DEF TreeTyped
  <2>3. TreeTyped'
    BY <1>1, <2>1, <2>2 DEF TreeTyped
  <2>4. Noted(look.found, tree)
    BY <2>1 DEF BundleInv, WalkHolds, Walking, ToDo, Noted
  <2>5. ReadAsCollected' /\ VerifiedAsOneTree'
    BY <2>1, <2>2 DEF BundleInv, ReadAsCollected, VerifiedAsOneTree
  <2>6. WalkHolds' /\ FirstWalkHolds'
    BY <2>1, <2>2, <2>4 DEF WalkHolds, Walking, FirstWalkHolds
  <2> QED BY <2>3, <2>5, <2>6 DEF BundleInv
<1>5. ASSUME ReadManifest \/ ReadAttestation \/ ReadReport \/ OpenRows \/ AlignRows
      PROVE  BundleInv'
  <2>1. /\ tree' = tree /\ look'.stat = look.stat /\ look'.next = look.next /\ TreeTyped'
        /\ sealing' = "closing" => ToDo("list", "root")'
    <3>1. CASE AlignRows
      <4>1. look' = [look EXCEPT !.todo = StartWalk] /\ tree' = tree
        BY <3>1 DEF AlignRows
      <4>2. /\ look'.stat = look.stat /\ look'.next = look.next /\ look'.found = look.found /\ look'.then = look.then
            /\ look' = [asked |-> look'.asked, next |-> look'.next, todo |-> look'.todo, found |-> look'.found,
                        stat |-> look'.stat, then |-> look'.then]
            /\ <<"list", "root">> \in look'.todo
        BY <1>1, <4>1 DEF TreeTyped, StartWalk
      <4> QED BY <1>1, <4>1, <4>2 DEF TreeTyped, ToDo
    <3>2. CASE ReadManifest \/ ReadAttestation \/ ReadReport \/ OpenRows
      <4>1. tree' = tree /\ look' = look /\ sealing' # "closing"
        BY <3>2 DEF ReadManifest, ReadAttestation, ReadReport, OpenRows, VerifierStep
      <4> QED BY <1>1, <4>1 DEF TreeTyped
    <3> QED BY <1>5, <3>1, <3>2
  <2>2. /\ sealing \in Verifying \ {"collecting"} /\ sealing' \notin {"collecting", "verified"}
    BY <1>5 DEF ReadManifest, ReadAttestation, ReadReport, OpenRows, AlignRows, VerifierStep, Verifying
  <2>3. ReadAsCollected'
    <3> USE DEF BundleInv, ReadAsCollected, VerifierStep, ReadsAsSealed, AsCollected
    <3>1. CASE ReadManifest
      BY <2>1, <3>1 DEF ReadManifest
    <3>2. CASE ReadAttestation
      BY <2>1, <3>2 DEF ReadAttestation
    <3>3. CASE ReadReport
      BY <2>1, <3>3 DEF ReadReport
    <3>4. CASE AlignRows
      BY <2>1, <3>4 DEF AlignRows
    <3>5. CASE OpenRows
      BY <2>1, <3>5 DEF OpenRows
    <3> QED BY <1>5, <3>1, <3>2, <3>3, <3>4, <3>5
  <2>4. VerifiedAsOneTree'
    BY <2>2 DEF VerifiedAsOneTree
  <2> QED BY <2>1, <2>2, <2>3, <2>4, BetweenWalks
<1> QED BY <1>2, <1>3, <1>4, <1>5

LEMMA PayloadStep ==
  ASSUME BundleInv, VerifyPayload
  PROVE  BundleInv'
<1>1. /\ sealing = "payloads" /\ look.next \in 1..4 /\ tree' = tree /\ sealing' \in {"payloads", "report", "rejected"}
      /\ look' = [look EXCEPT !.next = IF @ = Len(Payloads) THEN 1 ELSE @ + 1]
  BY FourPayloads DEF VerifyPayload, VerifierStep, BundleInv, ReadAsCollected
<1>2. /\ look'.stat = look.stat /\ look'.found = look.found /\ look'.then = look.then
      /\ look'.next = (IF look.next = 4 THEN 1 ELSE look.next + 1)
      /\ look' = [asked |-> look'.asked, next |-> look'.next, todo |-> look'.todo, found |-> look'.found,
                  stat |-> look'.stat, then |-> look'.then]
  BY <1>1, FourPayloads DEF BundleInv, TreeTyped
<1>3. TreeTyped'
  BY <1>1, <1>2 DEF BundleInv, TreeTyped
<1>4. sealing' # "rejected" => look.stat[Payloads[look.next]].is = "sealed"
  BY DEF VerifyPayload, VerifierStep, ReadsAsSealed, AsCollected
<1>5. ReadAsCollected'
  <2> USE DEF BundleInv, ReadAsCollected, VerifierStep
  <2>1. CASE look.next = 4
    BY <1>1, <1>2, <1>4, <2>1, FourPayloads DEF VerifyPayload
  <2>2. CASE look.next # 4
    BY <1>1, <1>2, <1>4, <2>2, FourPayloads DEF VerifyPayload
  <2> QED BY <2>1, <2>2
<1>6. VerifiedAsOneTree'
  BY <1>1 DEF VerifiedAsOneTree
<1>7. sealing \in Verifying \ {"collecting"}
  BY <1>1 DEF Verifying
<1> QED BY <1>1, <1>2, <1>3, <1>5, <1>6, <1>7, BetweenWalks

\* The facts of the two walks hold between them the tree as it was when the
\* second one began.
LEMMA TreeBetween ==
  ASSUME BundleInv, sealing = "closing", look.todo = {}, look.found = look.stat
  PROVE  WasWhole
<1>1. Walking /\ ~ToDo("stat", "data") /\ ~ToDo("stat", "extra")
  BY DEF Walking, ToDo
<1>2. TreeTyped /\ Noted(look.stat, look.then)
  BY <1>1 DEF BundleInv, FirstWalkHolds
<1>3. Present(look.stat) = BundlePaths /\ \A p \in BundlePaths : look.stat[p].is = "sealed"
  <2>1. /\ Present(look.stat) = BundlePaths /\ look.stat["manifest"].is = "sealed" /\ look.stat["attestation"].is = "sealed"
        /\ \A n \in 1..4 : look.stat[Payloads[n]].is = "sealed"
    BY DEF BundleInv, ReadAsCollected
  <2>2. /\ look.stat["evaluation"].is = "sealed" /\ look.stat["train"].is = "sealed"
        /\ look.stat["provenance"].is = "sealed" /\ look.stat["validation"].is = "sealed"
    BY <2>1, FourPayloads
  <2> QED BY <2>1, <2>2, FourPayloads
<1>4. \A p \in AnyPath : look.stat[p] \in PathFacts /\ look.then[p] \in PathFacts
  BY <1>2 DEF TreeTyped
<1>5. ASSUME NEW p \in BundlePaths PROVE look.then[p].is = "sealed"
  <2>1. p \in AnyPath
    BY FourPayloads
  <2>2. Earlier(look.stat[p], look.then[p]) /\ Earlier(look.then[p], look.stat[p])
    BY <1>1, <1>2, <1>3, <2>1 DEF Noted, BundleInv, WalkHolds
  <2>3. look.stat[p].changes \in Nat /\ look.then[p].changes \in Nat
    BY <1>4, <2>1 DEF PathFacts
  <2>4. look.stat[p] = look.then[p]
    BY <2>2, <2>3 DEF Earlier
  <2> QED BY <1>3, <2>4
<1>6. look.stat["stray"].is = "missing" /\ look.stat["extra"].is = "missing"
  BY <1>3, FourPayloads DEF Present
<1>7. look.then["extra"].is = "missing"
  BY <1>1, <1>6 DEF BundleInv, WalkHolds
<1>8. look.then["stray"].is = "missing"
  <2>1. /\ look.stat["data"]["stray"] \in Nat /\ look.stat["data"]["stray"] <= look.then["stray"].moves
        /\ look.then["stray"].moves <= look.stat["data"]["stray"]
    BY <1>1, <1>2 DEF Noted, BundleInv, WalkHolds
  <2>2. look.then["stray"].moves \in Nat
    BY <1>4, FourPayloads DEF PathFacts
  <2>3. look.stat["data"]["stray"] = look.then["stray"].moves
    BY <2>1, <2>2
  <2> QED BY <1>2, <1>6, <2>3 DEF Noted
<1> QED BY <1>5, <1>7, <1>8, FourPayloads DEF WasWhole

LEMMA LastLook ==
  ASSUME BundleInv, LookAgain \/ ReadManifestAgain \/ ReadAttestationAgain
  PROVE  BundleInv'
<1>1. /\ tree' = tree /\ look' = look /\ sealing \in {"closing", "manifest again", "attestation again"}
      /\ sealing' \in {"manifest again", "attestation again", "verified", "rejected"}
  BY DEF LookAgain, ReadManifestAgain, ReadAttestationAgain, VerifierStep
<1>2. sealing' # "rejected" => WasWhole
  <2>1. CASE LookAgain
    BY <2>1, TreeBetween DEF LookAgain, VerifierStep
  <2>2. CASE ReadManifestAgain \/ ReadAttestationAgain
    BY <2>2 DEF BundleInv, ReadAsCollected, ReadManifestAgain, ReadAttestationAgain, VerifierStep
  <2> QED BY <2>1, <2>2
<1>3. TreeTyped'
  BY <1>1 DEF BundleInv, TreeTyped
<1>4. ReadAsCollected' /\ VerifiedAsOneTree'
  BY <1>1, <1>2 DEF ReadAsCollected, VerifiedAsOneTree, WasWhole
<1>5. sealing \in Verifying \ {"collecting"}
  BY <1>1 DEF Verifying
<1> QED BY <1>1, <1>3, <1>4, <1>5, BetweenWalks

FormatOne == \E objective \in Objectives : Format(objective)

LEMMA BundleStep == BundleInv /\ [BundleNext \/ FormatOne]_bundleVars => BundleInv'
<1>1. ASSUME BundleInv, UNCHANGED bundleVars PROVE BundleInv'
  <2>1. tree' = tree /\ look' = look /\ sealing' = sealing
    BY <1>1 DEF bundleVars
  <2>2. TreeTyped' = TreeTyped
    BY <2>1 DEF TreeTyped
  <2>3. WalkHolds' = WalkHolds
    BY <2>1 DEF WalkHolds, Walking, ToDo
  <2>4. FirstWalkHolds' = FirstWalkHolds
    BY <2>1 DEF FirstWalkHolds, Noted, Walking, ToDo
  <2>5. ReadAsCollected' = ReadAsCollected
    BY <2>1 DEF ReadAsCollected, WasWhole
  <2>6. VerifiedAsOneTree' = VerifiedAsOneTree
    BY <2>1 DEF VerifiedAsOneTree
  <2> QED BY <1>1, <2>2, <2>3, <2>4, <2>5, <2>6 DEF BundleInv
<1> QED BY <1>1, WriterStep, ReaderStep, PayloadStep, LastLook DEF BundleNext, FormatOne

\* Whatever happens to the files of a bundle, and whatever else the program
\* does, between any two calls of the verifier's walks and reads, what it accepts
\* was one whole tree as it was sealed, with nothing besides, at the moment its
\* second walk began (verify_finished_bundle).
THEOREM BundlesVerifyAsOneTree == BundleSpec => []VerifiedAsOneTree
<1>1. BundleInv => VerifiedAsOneTree
  BY DEF BundleInv
<1> QED BY <1>1, BundleStep, InitBundle, PTL DEF BundleSpec, FormatOne

-----------------------------------------------------------------------------
(* Sets in order *)

LEMMA LenIs ==
  ASSUME NEW n \in Nat, NEW S, NEW f \in [1..n -> S]
  PROVE  Len(f) = n /\ f \in Seq(S) /\ ToSet(f) = {f[i] : i \in 1..n} /\ DOMAIN f = 1..n
BY DEF ToSet

LEMMA Enumerates ==
  ASSUME NEW S, IsFiniteSet(S), NEW order \in SetToSeqs(S)
  PROVE  /\ Len(order) = Cardinality(S) /\ order \in [1..Cardinality(S) -> S]
         /\ \A i, j \in 1..Cardinality(S) : order[i] = order[j] => i = j
         /\ \A x \in S : \E i \in 1..Cardinality(S) : order[i] = x
<1> DEFINE n == Cardinality(S)
<1>1. n \in Nat /\ order \in [1..n -> S] /\ \A i, j \in 1..n : order[i] = order[j] => i = j
  BY FS_CardinalityType DEF SetToSeqs
<1>2. Cardinality(1..n) = n
  BY <1>1, FS_Interval
<1>3. order \in Injection(1..n, S)
  BY <1>1 DEF Injection, IsInjective
<1>4. order \in Surjection(1..n, S)
  BY <1>2, <1>3, FS_Injection
<1> QED BY <1>1, <1>4, LenIs DEF Surjection

\* Elements are told apart by how many there are up to them.
LEMMA Ranked ==
  ASSUME NEW S, IsFiniteSet(S), NEW upTo, \A x \in S : upTo[x] \in SUBSET S /\ x \in upTo[x],
         \A x, y \in S : x # y => \/ upTo[x] \subseteq upTo[y] /\ y \notin upTo[x]
                                  \/ upTo[y] \subseteq upTo[x] /\ x \notin upTo[y]
  PROVE  LET n == Cardinality(S)
             rank(x) == Cardinality(upTo[x])
         IN  /\ n \in Nat /\ \A x \in S : rank(x) \in 1..n
             /\ \A k \in 1..n : \E x \in S : rank(x) = k
             /\ \A x, y \in S : rank(x) < rank(y) <=> y \notin upTo[x]
             /\ \A x, y \in S : rank(x) = rank(y) => x = y
<1> DEFINE n == Cardinality(S)
           rank(x) == Cardinality(upTo[x])
<1>1. n \in Nat
  BY FS_CardinalityType
<1>2. ASSUME NEW x \in S PROVE IsFiniteSet(upTo[x]) /\ rank(x) \in 1..n
  <2>1. upTo[x] \in SUBSET S /\ x \in upTo[x]
    OBVIOUS
  <2>2. IsFiniteSet(upTo[x]) /\ rank(x) <= n /\ rank(x) \in Nat
    BY <2>1, FS_Subset, FS_CardinalityType
  <2>3. rank(x) # 0
    BY <2>1, <2>2, FS_EmptySet
  <2> QED BY <1>1, <2>2, <2>3
<1>3. ASSUME NEW x \in S, NEW y \in S, upTo[x] \subseteq upTo[y], y \notin upTo[x] PROVE rank(x) < rank(y)
  <2>1. upTo[x] \in SUBSET upTo[y] /\ upTo[x] # upTo[y]
    BY <1>3
  <2>2. IsFiniteSet(upTo[y]) /\ rank(x) \in Nat /\ rank(y) \in Nat
    BY <1>1, <1>2
  <2> QED BY <2>1, <2>2, FS_Subset
<1> DEFINE f == [x \in S |-> rank(x)]
<1> HIDE DEF rank
<1>4. \A x, y \in S : x # y => \/ rank(x) < rank(y) /\ y \notin upTo[x]
                               \/ rank(y) < rank(x) /\ x \notin upTo[y] /\ upTo[y] \subseteq upTo[x]
  BY <1>3
<1>5. \A x, y \in S : /\ rank(x) \in Nat /\ rank(y) \in Nat /\ (rank(x) = rank(y) => x = y)
                       /\ (rank(x) < rank(y) <=> y \notin upTo[x])
  <2> SUFFICES ASSUME NEW x \in S, NEW y \in S
               PROVE  /\ rank(x) \in Nat /\ rank(y) \in Nat /\ (rank(x) = rank(y) => x = y)
                      /\ (rank(x) < rank(y) <=> y \notin upTo[x])
    OBVIOUS
  <2>1. rank(x) \in Nat /\ rank(y) \in Nat /\ y \in upTo[y]
    BY <1>1, <1>2
  <2> QED BY <1>4, <2>1
<1>6. f \in Injection(S, 1..n)
  BY <1>2, <1>5 DEF Injection, IsInjective
<1>7. Cardinality(1..n) = n /\ IsFiniteSet(1..n)
  BY <1>1, FS_Interval
<1>8. f \in Surjection(S, 1..n)
  BY <1>6, <1>7, FS_Injection
<1>9. \A k \in 1..n : \E x \in S : rank(x) = k
  BY <1>8 DEF Surjection
<1> QED BY <1>1, <1>2, <1>5, <1>9 DEF n, rank

LEMMA SortedBy ==
  ASSUME NEW S \in SUBSET Nat, IsFiniteSet(S)
  PROVE  LET n == Cardinality(S)
             s == InOrder(S)
         IN  /\ n \in Nat /\ s \in [1..n -> S] /\ Len(s) = n /\ DOMAIN s = 1..n
             /\ \A x \in S : \E i \in 1..n : s[i] = x
             /\ \A i, j \in 1..n : i < j => s[i] < s[j]
<1> DEFINE n == Cardinality(S)
           rank(x) == Cardinality({y \in S : y <= x})
           upTo == [x \in S |-> {y \in S : y <= x}]
           s == InOrder(S)
<1>0. \A x \in S : x \in Nat /\ upTo[x] \in SUBSET S /\ x \in upTo[x] /\ \A y \in S : y \in upTo[x] <=> y <= x
  OBVIOUS
<1>1. \A x \in S : rank(x) = Cardinality(upTo[x])
  OBVIOUS
<1> HIDE DEF upTo, rank
<1>2. ASSUME NEW x \in S, NEW y \in S, x # y
      PROVE  \/ upTo[x] \subseteq upTo[y] /\ y \notin upTo[x]
             \/ upTo[y] \subseteq upTo[x] /\ x \notin upTo[y]
  <2>1. x \in Nat /\ y \in Nat /\ \A z \in S : z \in Nat
    BY <1>0
  <2>2. CASE x < y
    <3>1. ~ (y <= x) /\ \A z \in S : z <= x => z <= y
      BY <2>1, <2>2
    <3> QED BY <1>0, <3>1, Zenon
  <2>3. CASE y < x
    <3>1. ~ (x <= y) /\ \A z \in S : z <= y => z <= x
      BY <2>1, <2>3
    <3> QED BY <1>0, <3>1, Zenon
  <2> QED BY <1>2, <2>1, <2>2, <2>3
<1>3. /\ n \in Nat /\ \A x \in S : Cardinality(upTo[x]) \in 1..n
      /\ \A k \in 1..n : \E x \in S : Cardinality(upTo[x]) = k
      /\ \A x, y \in S : Cardinality(upTo[x]) < Cardinality(upTo[y]) <=> y \notin upTo[x]
      /\ \A x, y \in S : Cardinality(upTo[x]) = Cardinality(upTo[y]) => x = y
  BY <1>0, <1>2, Ranked
<1>4. s = [i \in 1..n |-> CHOOSE x \in S : rank(x) = i]
  BY DEF InOrder, rank
<1> HIDE DEF n, s
<1>5. \A i \in 1..n : s[i] \in S /\ rank(s[i]) = i
  BY <1>1, <1>3, <1>4
<1>6. s \in [1..n -> S]
  BY <1>4, <1>5
<1>7. ASSUME NEW x \in S PROVE \E i \in 1..n : s[i] = x
  <2> DEFINE i == rank(x)
  <2>1. i \in 1..n
    BY <1>1, <1>3
  <2>2. s[i] \in S /\ Cardinality(upTo[s[i]]) = Cardinality(upTo[x])
    BY <1>1, <1>5, <2>1
  <2>3. s[i] = x
    <3> HIDE DEF i
    <3> QED BY <1>3, <2>2
  <2> QED BY <2>1, <2>3
<1>8. ASSUME NEW i \in 1..n, NEW j \in 1..n, i < j PROVE s[i] < s[j]
  <2>1. s[i] \in S /\ rank(s[i]) = i /\ s[j] \in S /\ rank(s[j]) = j
    BY <1>5
  <2>2. Cardinality(upTo[s[i]]) < Cardinality(upTo[s[j]])
    BY <1>1, <1>8, <2>1
  <2>3. s[j] \notin upTo[s[i]]
    BY <1>3, <2>1, <2>2
  <2>4. s[i] \in Nat /\ s[j] \in Nat /\ ~ (s[j] <= s[i])
    BY <1>0, <2>1, <2>3
  <2> QED BY <2>4
<1> QED BY <1>3, <1>6, <1>7, <1>8, LenIs DEF n, s

-----------------------------------------------------------------------------
(* The split *)

\* Groups: finite, not empty, disjoint.
Partitioned(S) ==
  /\ IsFiniteSet(S) /\ \A g \in S : IsFiniteSet(g) /\ g # {}
  /\ \A g, h \in S : g # h => g \cap h = {}

UpTo(order, n) == Size(FirstOf(order, n))

LEMMA PrefixSizes ==
  ASSUME NEW S, Partitioned(S), NEW order \in SetToSeqs(S), NEW k, k = Cardinality(S)
  PROVE  /\ UpTo(order, 0) = 0 /\ UpTo(order, k) = Size(S)
         /\ \A n \in 0..k : /\ UpTo(order, n) \in Nat /\ FirstOf(order, n) \subseteq S
                             /\ IsFiniteSet(UNION FirstOf(order, n))
         /\ \A n \in 1..k : UpTo(order, n) = UpTo(order, n - 1) + Cardinality(order[n])
<1> DEFINE size(n) == UpTo(order, n)
<1>1. /\ k \in Nat /\ order \in [1..k -> S] /\ \A i, j \in 1..k : order[i] = order[j] => i = j
      /\ \A x \in S : \E i \in 1..k : order[i] = x
  BY Enumerates, FS_CardinalityType DEF Partitioned
<1>2. FirstOf(order, 0) = {} /\ FirstOf(order, k) = S
  BY <1>1 DEF FirstOf
<1>3. size(0) = 0 /\ size(k) = Size(S)
  BY <1>2, FS_EmptySet DEF Size, UpTo
<1>4. ASSUME NEW n \in 0..k
      PROVE  /\ FirstOf(order, n) \subseteq S /\ IsFiniteSet(UNION FirstOf(order, n)) /\ size(n) \in Nat
  <2>1. FirstOf(order, n) \subseteq S
    BY <1>1 DEF FirstOf
  <2>2. IsFiniteSet(FirstOf(order, n))
    BY <2>1, FS_Subset DEF Partitioned
  <2>3. IsFiniteSet(UNION FirstOf(order, n))
    BY <2>1, <2>2, FS_UNION DEF Partitioned
  <2> QED BY <2>1, <2>3, FS_CardinalityType DEF Size, UpTo
<1>5. ASSUME NEW n \in 1..k
      PROVE  size(n) = size(n - 1) + Cardinality(order[n])
  <2> DEFINE before == UNION FirstOf(order, n - 1)
  <2>1. n - 1 \in 0..k /\ n \in Nat /\ 1..n = 1..(n - 1) \cup {n} /\ n \notin 1..(n - 1) /\ 1..(n - 1) \subseteq 1..k
    BY <1>1
  <2>2. FirstOf(order, n) = FirstOf(order, n - 1) \cup {order[n]}
    BY <2>1 DEF FirstOf
  <2>3. UNION FirstOf(order, n) = before \cup order[n]
    BY <2>2
  <2>4. order[n] \notin FirstOf(order, n - 1) /\ order[n] \in S
    BY <1>1, <2>1 DEF FirstOf
  <2>5. before \cap order[n] = {}
    <3>1. \A g \in FirstOf(order, n - 1) : g \cap order[n] = {}
      BY <1>4, <2>1, <2>4 DEF Partitioned
    <3> QED BY <3>1
  <2>6. IsFiniteSet(before) /\ IsFiniteSet(order[n])
    BY <1>4, <2>1, <2>4 DEF Partitioned
  <2> HIDE DEF before
  <2>7. Cardinality(before \cup order[n]) = Cardinality(before) + Cardinality(order[n]) - Cardinality({})
    BY <2>5, <2>6, FS_Union
  <2>8. Cardinality(before) \in Nat /\ Cardinality(order[n]) \in Nat
    BY <2>6, FS_CardinalityType
  <2>9. size(n) = Cardinality(before \cup order[n]) /\ size(n - 1) = Cardinality(before)
    BY <2>3 DEF Size, UpTo, before
  <2> QED BY <2>7, <2>8, <2>9, FS_EmptySet
<1> QED BY <1>3, <1>4, <1>5

\* The chosen prefix is less than a group off the target.
LEMMA NearestIsNear ==
  ASSUME NEW S, Partitioned(S), Cardinality(S) >= 2, NEW order \in SetToSeqs(S),
         NEW target \in Nat, 1 <= target, target < Size(S)
  PROVE  LET near == Nearest(order, target)
         IN  /\ near \in 1..(Cardinality(S) - 1)
             /\ \E g \in S : Distance(UpTo(order, near), target) < Cardinality(g)
<1> DEFINE k == Cardinality(S)
           size(n) == UpTo(order, n)
           off(n) == Distance(size(n), target)
           lengths == 1..(k - 1)
           best == {n \in lengths : \A m \in lengths : off(n) <= off(m)}
<1>1. k \in Nat /\ k >= 2 /\ Len(order) = k /\ \A i \in 1..k : order[i] \in S /\ Cardinality(order[i]) \in Nat
  BY Enumerates, FS_CardinalityType DEF Partitioned
<1>2. /\ size(0) = 0 /\ size(k) = Size(S) /\ \A n \in 0..k : size(n) \in Nat
      /\ \A n \in 1..k : size(n) = size(n - 1) + Cardinality(order[n])
  BY PrefixSizes
<1>3. Nearest(order, target) = Min(best)
  BY <1>1 DEF Nearest, UpTo
<1> HIDE DEF k, size
<1>4. \A n \in 0..k : off(n) \in Nat
  BY <1>2 DEF Distance
<1>5. best # {} /\ best \subseteq Nat /\ best \subseteq lengths
  <2> DEFINE offs == {off(n) : n \in lengths}
  <2>1. \A n \in lengths : n \in 0..k /\ n \in Nat
    BY <1>1
  <2>2. 1 \in lengths
    BY <1>1
  <2>3. offs \in SUBSET Nat /\ offs # {}
    BY <1>4, <2>1, <2>2
  <2> HIDE DEF off
  <2>4. Min(offs) \in offs /\ \A y \in offs : Min(offs) <= y
    BY <2>3, Least
  <2>5. PICK n \in lengths : off(n) = Min(offs)
    BY <2>4
  <2>6. n \in best
    BY <2>4, <2>5
  <2> QED BY <2>1, <2>6
<1>6. Min(best) \in lengths /\ \A m \in lengths : off(Min(best)) <= off(m)
  <2>1. Min(best) \in best
    BY <1>5, Least
  <2> QED BY <2>1
<1> DEFINE above == {n \in 1..k : target < size(n)}
           m == Min(above)
<1>7. m \in 1..k /\ target < size(m) /\ size(m - 1) <= target /\ m - 1 \in 0..k
  <2>1. k \in above /\ above \subseteq Nat
    BY <1>1, <1>2
  <2>2. m \in above /\ \A n \in above : m <= n
    BY <2>1, Least
  <2>3. m \in 1..k /\ m - 1 \in 0..k /\ ~ (m <= m - 1)
    BY <1>1, <2>2
  <2>4. m - 1 \notin above
    BY <2>2, <2>3
  <2>5. CASE m = 1
    BY <1>2, <2>2, <2>3, <2>5
  <2>6. CASE m # 1
    <3>1. m - 1 \in 1..k
      BY <1>1, <2>3, <2>6
    <3>2. size(m - 1) \in Nat
      BY <1>2, <2>3
    <3> QED BY <2>2, <2>3, <2>4, <3>1, <3>2
  <2> QED BY <2>5, <2>6
<1> HIDE DEF m, above, best
<1>8. /\ size(m) = size(m - 1) + Cardinality(order[m]) /\ size(m) \in Nat /\ size(m - 1) \in Nat
      /\ Cardinality(order[m]) \in Nat /\ order[m] \in S
  BY <1>1, <1>2, <1>7
<1>9. \E n \in lengths : off(n) < Cardinality(order[m])
  <2>1. CASE m = 1
    <3>1. 1 \in lengths /\ size(1) = Cardinality(order[m]) /\ target < size(1)
      BY <1>1, <1>2, <1>7, <1>8, <2>1
    <3>2. off(1) < Cardinality(order[m])
      BY <1>8, <3>1 DEF Distance
    <3> QED BY <3>1, <3>2
  <2>2. CASE m # 1
    <3>1. m - 1 \in lengths
      BY <1>1, <1>7, <2>2
    <3>2. off(m - 1) < Cardinality(order[m])
      BY <1>7, <1>8 DEF Distance
    <3> QED BY <3>1, <3>2
  <2> QED BY <2>1, <2>2
<1>10. off(Min(best)) < Cardinality(order[m])
  <2>1. PICK n \in lengths : off(n) < Cardinality(order[m])
    BY <1>9
  <2>2. n \in 0..k /\ Min(best) \in 0..k
    BY <1>1, <1>6
  <2>3. off(n) \in Nat /\ off(Min(best)) \in Nat
    BY <1>4, <2>2
  <2> HIDE DEF off
  <2> QED BY <1>6, <1>8, <2>1, <2>3
<1> QED BY <1>3, <1>6, <1>8, <1>10 DEF k, size

\* However the reason codes fall, every decision has the finding it needs.
LEMMA CurationAlwaysCloses ==
  ASSUME DatasetTyped
  PROVE  CurationCloses([r \in Rows |-> Reason(r)],
                        [r \in Rows |-> IF r \in Clear \ Unique THEN Min(Twins(r)) ELSE r])
<1> SUFFICES ASSUME NEW r \in Rows
             PROVE  FindingCloses(r, Reason(r), IF r \in Clear \ Unique THEN Min(Twins(r)) ELSE r)
  BY DEF CurationCloses
<1>1. /\ Long \subseteq Rows /\ Clear = Long \ Conflicted /\ Unique \subseteq Clear /\ Capped \subseteq Unique
      /\ Conflicted \subseteq Long
  BY RowFacts DEF Clear
<1>2. Len(made[r].target) \in Nat /\ policy.minimum \in Nat /\ policy.cap \in Nat
  <2>1. made[r] \in Shapes
    BY DEF DatasetTyped, Rows
  <2>2. policy.minimum \in Nat /\ policy.cap \in Nat
    BY PolicyAssumption DEF DatasetTyped
  <2> QED BY <2>1, <2>2, DatasetAssumption
<1>3. CASE r \notin Long
  <2>1. Reason(r) = "target-too-short"
    BY <1>1, <1>3 DEF Reason
  <2>2. Len(made[r].target) < policy.minimum
    BY <1>2, <1>3 DEF Long
  <2> QED BY <2>1, <2>2 DEF FindingCloses
<1>4. CASE r \in Conflicted
  <2>1. r \in Long /\ Reason(r) = "conflicting-target" /\ Cardinality({made[s].target : s \in Rivals(r)}) >= 2
    BY <1>1, <1>4 DEF Reason, Conflicted
  <2>2. Rivals(r) # {r}
    <3> SUFFICES ASSUME Rivals(r) = {r} PROVE FALSE
      OBVIOUS
    <3>1. {made[s].target : s \in Rivals(r)} = {made[r].target}
      OBVIOUS
    <3>2. Cardinality({made[s].target : s \in Rivals(r)}) = 1
      BY <3>1, FS_Singleton
    <3> QED BY <2>1, <3>2
  <2> QED BY <2>1, <2>2 DEF FindingCloses
<1>5. CASE r \in Clear \ Unique
  BY <1>1, <1>5 DEF Reason, FindingCloses, Unique
<1>6. CASE r \in Capped
  <2>1. Reason(r) = "primary-source-cap" /\ policy.cap # 0 /\ Ordinal(r) > policy.cap
    BY <1>1, <1>6 DEF Reason, Capped
  <2>2. Ordinal(r) \in Nat
    <3>1. {s \in Unique : Primary(s) = Primary(r) /\ s <= r} \in SUBSET Rows
      BY <1>1
    <3> QED BY <3>1, RowFacts, FS_Subset, FS_CardinalityType DEF Ordinal
  <2> QED BY <1>2, <2>1, <2>2 DEF FindingCloses
<1>7. CASE r \in Unique \ Capped
  BY <1>1, <1>7 DEF Reason, FindingCloses
<1> QED BY <1>1, <1>3, <1>4, <1>5, <1>6, <1>7

LEMMA GroupsPartition ==
  ASSUME DatasetInv, phase \in {"assign", "done"}
  PROVE  Partitioned(split.groups) /\ UNION split.groups = Included /\ IsFiniteSet(Included)
<1>1. split.groups = Classes /\ UNION split.groups = Included
  BY Components DEF DatasetInv, Divided, GroupsAreComponents
<1>2. IsFiniteSet(Included)
  <2>1. Included \subseteq Rows /\ DatasetTyped
    BY DEF Included, DatasetInv
  <2> QED BY <2>1, RowFacts, FS_Subset
<1>3. IsFiniteSet(Classes) /\ Classes \subseteq SUBSET Included
  <2>1. Classes \in SUBSET (SUBSET Included)
    BY DEF Classes
  <2>2. IsFiniteSet(SUBSET Included)
    BY <1>2, FS_SUBSET
  <2> QED BY <2>1, <2>2, FS_Subset
<1>4. \A g \in Classes : IsFiniteSet(g)
  BY <1>2, <1>3, FS_Subset
<1>5. \A g \in Classes : g # {}
  BY DEF Classes
<1>6. \A g, h \in Classes : g # h => g \cap h = {}
  BY DEF Classes
<1> QED BY <1>1, <1>2, <1>3, <1>4, <1>5, <1>6 DEF Partitioned

LEMMA TargetInside ==
  ASSUME DatasetTyped, NEW total \in Nat, total >= 2
  PROVE  Target(total) \in Nat /\ 1 <= Target(total) /\ Target(total) < total
<1> DEFINE share == (total * policy.ppm + 500000) \div 1000000
<1>1. policy.ppm \in Nat
  BY PolicyAssumption, SMT DEF DatasetTyped
<1>2. share \in Nat
  BY <1>1, SMT
<1> HIDE DEF share
<1>3. total - 1 \in Nat /\ total - 1 >= 1
  OBVIOUS
<1>4. Min({total - 1, share}) \in Nat /\ Min({total - 1, share}) <= total - 1
  BY <1>2, <1>3, LessOfTwo
<1>5. Max({1, Min({total - 1, share})}) \in {1, Min({total - 1, share})} /\ 1 <= Max({1, Min({total - 1, share})})
  BY <1>4, LessOfTwo
<1>6. Target(total) = Max({1, Min({total - 1, share})})
  BY DEF Target, share
<1> QED BY <1>3, <1>4, <1>5, <1>6

\* The size of the evaluation part is less than a group off its target.
NearTarget == \E g \in split.groups : Distance(Cardinality(Evaluation), split.target) < Cardinality(g)

\* The split closes as a result, and fills the parts that its policy requires.
SplitSound ==
  /\ phase # "invalid"
  /\ phase \in {"curate", "group", "assign"} => split.evaluation = {} /\ split.target = 0
  /\ phase \in {"assign", "done"} => Included # {}
  /\ phase = "done" => /\ SplitCloses(split)
                       /\ policy.required => Evaluation # {}
                       /\ Cardinality(split.groups) >= 2 => NearTarget

LEMMA AssignCloses ==
  ASSUME DatasetInv, phase = "assign", Cardinality(split.groups) >= 2, NEW order \in SetToSeqs(split.groups),
         NEW target, target = Target(Cardinality(Included)),
         NEW result, result.groups = split.groups, result.target = target,
         result.evaluation = FirstOf(order, Nearest(order, target))
  PROVE  /\ SplitCloses(result) /\ UNION result.evaluation # {}
         /\ \E g \in split.groups : Distance(Cardinality(UNION result.evaluation), target) < Cardinality(g)
<1> DEFINE S == split.groups
           k == Cardinality(S)
           near == Nearest(order, target)
<1>1. Partitioned(S) /\ UNION S = Included /\ IsFiniteSet(Included) /\ DatasetTyped
  BY GroupsPartition DEF DatasetInv
<1>2. /\ k \in Nat /\ order \in [1..k -> S] /\ \A i, j \in 1..k : order[i] = order[j] => i = j
  BY <1>1, Enumerates, FS_CardinalityType DEF Partitioned
<1>3. Cardinality(Included) \in Nat /\ Cardinality(Included) >= 2
  <2>1. 1 \in 1..k /\ 2 \in 1..k
    BY <1>2
  <2>2. order[1] \in S /\ order[2] \in S /\ order[1] # order[2]
    BY <1>2, <2>1
  <2>3. PICK x, y : x \in order[1] /\ y \in order[2]
    BY <1>1, <2>2 DEF Partitioned
  <2>4. x \in Included /\ y \in Included /\ x # y
    BY <1>1, <2>2, <2>3 DEF Partitioned
  <2>5. Cardinality(Included) \in Nat
    BY <1>1, FS_CardinalityType
  <2>6. ~(Cardinality(Included) < 2)
    BY <1>1, <2>4, TwoInASet
  <2> QED BY <2>5, <2>6
<1>4. target \in Nat /\ 1 <= target /\ target < Cardinality(Included)
  BY <1>1, <1>3, TargetInside
<1>5. Size(S) = Cardinality(Included)
  BY <1>1 DEF Size
<1>6. near \in 1..(k - 1) /\ \E g \in S : Distance(UpTo(order, near), target) < Cardinality(g)
  BY <1>1, <1>4, <1>5, NearestIsNear
<1> HIDE DEF S, k, near
<1>7. near \in 0..k /\ k \in 1..k /\ k \notin 1..near /\ 1 \in 1..near /\ 1..near \subseteq 1..k
  BY <1>2, <1>6
<1>8. FirstOf(order, near) \subseteq S /\ order[k] \in S /\ order[k] \notin FirstOf(order, near)
  BY <1>2, <1>7 DEF FirstOf
<1>9. UNION FirstOf(order, near) # {}
  <2>1. order[1] \in FirstOf(order, near) /\ order[1] \in S
    BY <1>2, <1>7 DEF FirstOf
  <2> QED BY <1>1, <2>1 DEF Partitioned
<1>10. target <= Cardinality(Included)
  BY <1>3, <1>4
<1>11. SplitCloses(result)
  BY <1>1, <1>8, <1>10 DEF SplitCloses, Partitioned, S, near
<1> QED BY <1>6, <1>9, <1>11 DEF UpTo, Size, S, near

LEMMA InitSplit == DatasetInit => SplitSound
BY DEF DatasetInit, SplitSound, Unsplit

LEMMA SplitStep ==
  ASSUME DatasetInv, DatasetInv', SplitSound, [DatasetNext]_datasetVars
  PROVE  SplitSound'
<1>1. CASE Curate
  <2>1. phase' = "group" /\ UNCHANGED split
    BY <1>1, CurationAlwaysCloses DEF Curate, DatasetInv
  <2> QED BY <1>1, <2>1 DEF Curate, SplitSound
<1>2. CASE NothingToSplit
  BY <1>2 DEF NothingToSplit, SplitSound
<1>3. CASE Group
  BY <1>3 DEF Group, SplitSound
<1>4. CASE Grouped
  <2>1. Included' = Included
    BY <1>4, SameTokens DEF Grouped
  <2>2. split'.evaluation = split.evaluation /\ split'.target = split.target
    BY <1>4 DEF Grouped, DatasetInv, DatasetTyped
  <2> QED BY <1>4, <2>1, <2>2 DEF Grouped, SplitSound
<1>5. CASE OneGroup
  <2>1. Included' = Included /\ UNCHANGED <<split, policy>>
    BY <1>5, SameTokens DEF OneGroup, inputs
  <2>2. /\ UNION split.groups = Included /\ Partitioned(split.groups) /\ IsFiniteSet(Included)
        /\ split.evaluation = {} /\ split.target = 0 /\ Included # {}
    BY <1>5, GroupsPartition DEF OneGroup, SplitSound
  <2>3. 0 <= Cardinality(Included) /\ split.groups # {}
    BY <2>2, FS_CardinalityType
  <2>4. SplitCloses(split)
    BY <2>2, <2>3 DEF SplitCloses, Partitioned
  <2>5. Cardinality(split.groups) < 2 /\ Cardinality(split.groups) \in Nat
    BY <1>5, <2>2, FS_CardinalityType DEF OneGroup, Partitioned
  <2>6. phase' = IF policy.required THEN "refused" ELSE "done"
    BY <1>5, <2>4 DEF OneGroup, Settled
  <2>7. SplitCloses(split)'
    BY <2>1, <2>4 DEF SplitCloses
  <2> QED BY <2>1, <2>2, <2>5, <2>6, <2>7 DEF SplitSound
<1>6. CASE Assign
  <2> DEFINE target == Target(Cardinality(Included))
  <2>1. PICK order \in SetToSeqs(split.groups) :
          LET result == [split EXCEPT !.target = target, !.evaluation = FirstOf(order, Nearest(order, target))]
          IN  split' = result /\ phase' = Settled(result)
    BY <1>6 DEF Assign
  <2> HIDE DEF target
  <2>2. Included' = Included /\ UNCHANGED policy
    BY <1>6, SameTokens DEF Assign, inputs
  <2>3. /\ split'.groups = split.groups /\ split'.target = target
        /\ split'.evaluation = FirstOf(order, Nearest(order, target)) /\ phase' = Settled(split')
    BY <2>1 DEF DatasetInv, DatasetTyped
  <2>4. /\ SplitCloses(split') /\ UNION split'.evaluation # {}
        /\ \E g \in split.groups : Distance(Cardinality(UNION split'.evaluation), target) < Cardinality(g)
    BY <1>6, <2>3, AssignCloses DEF Assign, target
  <2>5. phase' = "done" /\ SplitCloses(split)'
    BY <2>2, <2>3, <2>4 DEF Settled, SplitCloses
  <2>6. NearTarget' /\ Evaluation' # {}
    BY <2>3, <2>4 DEF NearTarget, Evaluation
  <2> QED BY <1>6, <2>2, <2>5, <2>6 DEF Assign, SplitSound
<1>7. CASE UNCHANGED datasetVars
  <2>1. Included' = Included /\ UNCHANGED <<split, policy, phase>>
    BY <1>7, SameTokens DEF datasetVars, inputs
  <2>2. SplitCloses(split)' <=> SplitCloses(split)
    BY <2>1 DEF SplitCloses
  <2>3. (NearTarget' <=> NearTarget) /\ Evaluation' = Evaluation
    BY <2>1 DEF NearTarget, Evaluation
  <2> QED BY <2>1, <2>2, <2>3 DEF SplitSound
<1> QED BY <1>1, <1>2, <1>3, <1>4, <1>5, <1>6, <1>7 DEF DatasetNext

-----------------------------------------------------------------------------
(* The gates accept what was let through *)

LEMMA CapHolds ==
  ASSUME DatasetInv, phase # "curate"
  PROVE  Balanced
<1> SUFFICES ASSUME policy.cap # 0, NEW source \in DOMAIN raw
             PROVE  Cardinality({r \in Included : Primary(r) = source}) <= policy.cap
  BY DEF Balanced
<1> DEFINE X == {r \in Included : Primary(r) = source}
<1>1. DatasetTyped /\ Included = Unique \ Capped /\ Unique \subseteq Rows /\ Rows \subseteq Nat /\ IsFiniteSet(Rows)
  BY Curated, RowFacts DEF DatasetInv
<1>2. policy.cap \in Nat
  BY <1>1, PolicyAssumption DEF DatasetTyped
<1>3. X \in SUBSET Rows /\ X \in SUBSET Nat
  BY <1>1
<1>4. IsFiniteSet(X)
  BY <1>1, <1>3, FS_Subset
<1>5. CASE X = {}
  BY <1>2, <1>5, FS_EmptySet
<1>6. CASE X # {}
  <2> DEFINE m == Max(X)
             upTo == {s \in Unique : Primary(s) = Primary(m) /\ s <= m}
  <2>1. m \in X /\ \A r \in X : r <= m
    BY <1>3, <1>4, <1>6, Most
  <2>2. m \in Unique /\ m \notin Capped /\ Primary(m) = source
    BY <1>1, <2>1
  <2>3. X \in SUBSET upTo /\ upTo \in SUBSET Rows
    BY <1>1, <2>1, <2>2
  <2>4. Ordinal(m) = Cardinality(upTo)
    BY DEF Ordinal
  <2> HIDE DEF m, X, upTo
  <2>5. IsFiniteSet(upTo) /\ Cardinality(X) <= Cardinality(upTo) /\ Cardinality(X) \in Nat /\ Cardinality(upTo) \in Nat
    BY <1>1, <1>4, <2>3, FS_Subset, FS_CardinalityType
  <2>6. ~(Ordinal(m) > policy.cap)
    BY <2>2 DEF Capped
  <2>7. Cardinality(X) <= policy.cap
    BY <1>2, <2>4, <2>5, <2>6
  <2> QED BY <2>7 DEF X
<1> QED BY <1>5, <1>6

LEMMA DatasetPasses ==
  ASSUME DatasetInv, SplitSound, phase = "done"
  PROVE  /\ Deduplicated /\ Balanced /\ Separate /\ TargetsAreText
         /\ \A r \in Included : ~(Len(made[r].target) < policy.minimum)
         /\ Train # {} /\ (policy.required => Evaluation # {})
         /\ Train \cap Evaluation = {} /\ Train \cup Evaluation = Included
<1>1. /\ DatasetTyped /\ Included = Unique \ Capped /\ Unique \subseteq Clear /\ Clear \subseteq Long
      /\ Long \subseteq Rows
  BY Curated, RowFacts DEF DatasetInv
<1>2. GroupsAreComponents /\ Partitioned(split.groups) /\ SplitCloses(split)
  BY Components, GroupsPartition DEF SplitSound
<1>3. Deduplicated
  <2> SUFFICES ASSUME NEW r \in Included, NEW s \in Included, Content(r) = Content(s) PROVE r = s
    BY DEF Deduplicated
  <2>1. Twins(r) = Twins(s)
    BY DEF Twins
  <2> QED BY <1>1, <2>1 DEF Unique
<1>4. \A r \in Included : Len(made[r].target) \in Nat \ {0} /\ policy.minimum \in Nat
  <2>1. \A r \in Included : made[r] \in Shapes
    BY <1>1 DEF DatasetTyped, Rows
  <2>2. policy.minimum \in Nat
    BY <1>1, PolicyAssumption DEF DatasetTyped
  <2> QED BY <2>1, <2>2, DatasetAssumption
<1>5. TargetsAreText
  BY <1>4 DEF TargetsAreText
<1>6. \A r \in Included : ~(Len(made[r].target) < policy.minimum)
  BY <1>1, <1>4 DEF Long
<1>7. Separate
  <2> SUFFICES ASSUME NEW r \in UNION split.evaluation, NEW s \in UNION (split.groups \ split.evaluation),
                      NEW t \in Tokens(r), t \in Tokens(s)
               PROVE  FALSE
    BY DEF Separate, GroupTokens
  <2>1. PICK g \in split.evaluation : r \in g
    OBVIOUS
  <2>2. PICK h \in split.groups \ split.evaluation : s \in h
    OBVIOUS
  <2>3. g \in split.groups /\ g # h
    BY <1>2 DEF SplitCloses
  <2>4. t \in GroupTokens({g}) /\ t \in GroupTokens({h})
    BY <2>1, <2>2 DEF GroupTokens
  <2> QED BY <1>2, <2>2, <2>3, <2>4 DEF GroupsAreComponents
<1>8. Evaluation \subseteq Included
  BY <1>2 DEF SplitCloses, Evaluation
<1>9. Train # {}
  <2>1. PICK h \in split.groups : h \notin split.evaluation
    BY <1>2 DEF SplitCloses
  <2>2. PICK r : r \in h
    BY <1>2 DEF Partitioned
  <2>3. r \in Included
    BY <1>2, <2>2 DEF SplitCloses
  <2>4. r \notin Evaluation
    BY <1>2, <2>1, <2>2 DEF SplitCloses, Evaluation
  <2> QED BY <2>3, <2>4 DEF Train
<1>10. Train \cap Evaluation = {} /\ Train \cup Evaluation = Included
  BY <1>8 DEF Train
<1> QED BY <1>1, <1>3, <1>5, <1>6, <1>7, <1>9, <1>10, CapHolds DEF SplitSound

-----------------------------------------------------------------------------
(* Rows *)

\* u is s of length m followed by t of length k.
JoinOf(u, s, t, m, k) ==
  /\ Len(u) = m + k /\ DOMAIN u = 1..(m + k)
  /\ \A n \in 1..(m + k) : u[n] = IF n <= m THEN s[n] ELSE t[n - m]
  /\ ToSet(u) = ToSet(s) \cup ToSet(t)

LEMMA Joined ==
  ASSUME NEW m \in Nat, NEW k \in Nat, NEW X, NEW Y, NEW s \in [1..m -> X], NEW t \in [1..k -> Y]
  PROVE  JoinOf(s \o t, s, t, m, k)
<1>1. Len(s) = m /\ Len(t) = k /\ s \in Seq(X \cup Y) /\ t \in Seq(X \cup Y) /\ DOMAIN s = 1..m /\ DOMAIN t = 1..k
  BY LenIs
<1>2. /\ Len(s \o t) = m + k /\ DOMAIN (s \o t) = 1..(m + k)
      /\ \A n \in 1..(m + k) : (s \o t)[n] = IF n <= m THEN s[n] ELSE t[n - m]
  BY <1>1
<1>3. \A i \in 1..m : i \in 1..(m + k) /\ i <= m
  OBVIOUS
<1>4. \A i \in 1..k : i + m \in 1..(m + k) /\ ~(i + m <= m) /\ (i + m) - m = i
  OBVIOUS
<1>5. \A n \in 1..(m + k) : IF n <= m THEN n \in 1..m ELSE n - m \in 1..k
  OBVIOUS
<1> DEFINE u == s \o t
<1> HIDE DEF u
<1>9. /\ ToSet(s) = {s[i] : i \in 1..m} /\ ToSet(t) = {t[i] : i \in 1..k}
      /\ ToSet(u) = {u[i] : i \in 1..(m + k)}
  BY <1>1, <1>2 DEF ToSet, u
<1>10. \A n \in 1..(m + k) : u[n] = IF n <= m THEN s[n] ELSE t[n - m]
  BY <1>2 DEF u
<1>6. ToSet(s) \subseteq ToSet(u)
  BY <1>3, <1>9, <1>10
<1>7. ToSet(t) \subseteq ToSet(u)
  <2> SUFFICES ASSUME NEW i \in 1..k PROVE t[i] \in ToSet(u)
    BY <1>9
  <2>1. u[i + m] = t[i] /\ i + m \in 1..(m + k)
    BY <1>4, <1>10
  <2> QED BY <1>9, <2>1
<1>8. ToSet(u) \subseteq ToSet(s) \cup ToSet(t)
  <2> SUFFICES ASSUME NEW n \in 1..(m + k) PROVE u[n] \in ToSet(s) \cup ToSet(t)
    BY <1>9
  <2> QED BY <1>5, <1>9, <1>10
<1> QED BY <1>2, <1>6, <1>7, <1>8 DEF u, JoinOf

Instruction(schema) == IF schema = "instruction_output" THEN <<"do">> ELSE <<>>

Lowered(records, schema) ==
  [n \in DOMAIN InOrder(records) |-> ConstructedRow(InOrder(records)[n], schema, Instruction(schema))]

LEMMA LoweredRows ==
  ASSUME NEW S \in SUBSET Nat, IsFiniteSet(S), NEW schema, NEW n, n = Cardinality(S)
  PROVE  LET line == Lowered(S, schema)
         IN  /\ n \in Nat /\ Len(line) = n /\ DOMAIN line = 1..n /\ line \in [1..n -> ToSet(line)]
             /\ \A i \in 1..n : line[i].record \in S
             /\ {row.record : row \in ToSet(line)} = S
             /\ \A row \in ToSet(line) : row = ConstructedRow(row.record, schema, Instruction(schema))
             /\ \A i, j \in 1..n : i < j => line[i].record < line[j].record
<1> DEFINE s == InOrder(S)
           line == Lowered(S, schema)
<1>1. /\ n \in Nat /\ s \in [1..n -> S] /\ Len(s) = n /\ DOMAIN s = 1..n
      /\ \A x \in S : \E i \in 1..n : s[i] = x
      /\ \A i, j \in 1..n : i < j => s[i] < s[j]
  BY SortedBy
<1>2. line = [i \in 1..n |-> ConstructedRow(s[i], schema, Instruction(schema))]
  BY <1>1 DEF Lowered
<1> HIDE DEF s, line
<1>3. \A i \in 1..n : line[i].record = s[i] /\ line[i] = ConstructedRow(s[i], schema, Instruction(schema))
  BY <1>2 DEF ConstructedRow
<1>4. DOMAIN line = 1..n /\ ToSet(line) = {line[i] : i \in 1..n}
  BY <1>2 DEF ToSet
<1>5. line \in [1..n -> ToSet(line)]
  BY <1>2, <1>4
<1>6. Len(line) = n
  BY <1>1, <1>5, LenIs
<1>7. {row.record : row \in ToSet(line)} = S
  <2>1. \A row \in ToSet(line) : row.record \in S
    BY <1>1, <1>3, <1>4
  <2>2. \A x \in S : \E i \in 1..n : line[i].record = x
    BY <1>1, <1>3
  <2>3. \A i \in 1..n : line[i] \in ToSet(line)
    BY <1>4
  <2> QED BY <2>1, <2>2, <2>3
<1>8. \A row \in ToSet(line) : row = ConstructedRow(row.record, schema, Instruction(schema))
  BY <1>3, <1>4
<1>9. \A i, j \in 1..n : i < j => line[i].record < line[j].record
  BY <1>1, <1>3
<1>10. \A i \in 1..n : line[i].record \in S
  BY <1>1, <1>3
<1> QED BY <1>1, <1>4, <1>5, <1>6, <1>7, <1>8, <1>9, <1>10 DEF line

LEMMA ParentsOfRows ==
  ASSUME DatasetInv, SplitSound, phase = "done"
  PROVE  /\ Train \in SUBSET Nat /\ Evaluation \in SUBSET Nat /\ IsFiniteSet(Train) /\ IsFiniteSet(Evaluation)
         /\ Cardinality(Train) \in Nat /\ Cardinality(Evaluation) \in Nat
         /\ Cardinality(Train) + Cardinality(Evaluation) = Cardinality(Included)
         /\ Train # {} /\ Cardinality(Train) > 0
<1>1. Train \cap Evaluation = {} /\ Train \cup Evaluation = Included /\ Train # {}
  BY DatasetPasses
<1>2. Included \subseteq Nat /\ IsFiniteSet(Included)
  BY RowFacts, GroupsPartition DEF DatasetInv, Included
<1>3. IsFiniteSet(Train) /\ IsFiniteSet(Evaluation)
  BY <1>1, <1>2, FS_Subset
<1>4. Cardinality(Train) \in Nat /\ Cardinality(Evaluation) \in Nat
  BY <1>3, FS_CardinalityType
<1>5. Cardinality(Train) # 0
  BY <1>1, <1>3, FS_EmptySet
<1>6. Cardinality(Train \cup Evaluation) = Cardinality(Train) + Cardinality(Evaluation) - Cardinality({})
  BY <1>1, <1>3, FS_Union
<1>9. Cardinality(Train \cup Evaluation) = Cardinality(Train) + Cardinality(Evaluation) - 0
  BY <1>6, FS_EmptySet
<1>10. Cardinality(Included) = Cardinality(Train) + Cardinality(Evaluation) - 0
  BY <1>1, <1>9
<1>7. Cardinality(Train) + Cardinality(Evaluation) = Cardinality(Included) /\ Cardinality(Train) > 0
  BY <1>4, <1>5, <1>10
<1>8. Train \subseteq Nat /\ Evaluation \subseteq Nat
  BY <1>1, <1>2
<1> QED BY <1>1, <1>3, <1>4, <1>7, <1>8

PlacedAt(part, line) == [n \in DOMAIN line |-> [part |-> part, ordinal |-> n, row |-> line[n]]]

LinesOf(schema) == PlacedAt("train", Lowered(Train, schema)) \o PlacedAt("evaluation", Lowered(Evaluation, schema))

LEMMA SerializedIs ==
  ASSUME NEW objective, NEW schema
  PROVE  Serialized(objective, schema) =
           RowSet("constructed", objective, schema, Instruction(schema),
                  Lowered(Train, schema), Lowered(Evaluation, schema),
                  [n \in DOMAIN LinesOf(schema) |-> ConstructedEntry(LinesOf(schema)[n])])
BY Zenon DEF Serialized, Lowered, Instruction, LinesOf, Placed, PlacedAt

\* Of m training and k evaluation lines, all is one and then the other, every
\* line a row of the schema, each with what stands beside it in the provenance.
LinesHold(schema, m, k, all) ==
  /\ m \in Nat /\ k \in Nat /\ m > 0 /\ m + k = Cardinality(Included)
  /\ Len(rowSet.train) = m /\ Len(rowSet.evaluation) = k /\ Len(all) = m + k /\ Len(rowSet.provenance) = m + k
  /\ DOMAIN all = 1..(m + k) /\ DOMAIN rowSet.provenance = 1..(m + k)
  /\ rowSet.train # <<>> /\ Ascending(rowSet.train) /\ Ascending(rowSet.evaluation)
  /\ {row.record : row \in ToSet(rowSet.train)} = Train
  /\ {row.record : row \in ToSet(rowSet.evaluation)} = Evaluation
  /\ ToSet(all) = ToSet(rowSet.train) \cup ToSet(rowSet.evaluation)
  /\ \A n \in 1..(m + k) :
       /\ all[n] = ConstructedRow(all[n].record, schema, Instruction(schema))
       /\ IF n <= m THEN all[n].record \in Train ELSE all[n].record \in Evaluation
       /\ rowSet.provenance[n] =
            ConstructedEntry([part |-> IF n <= m THEN "train" ELSE "evaluation",
                              ordinal |-> IF n <= m THEN n ELSE n - m, row |-> all[n]])
  /\ \A i, j \in 1..(m + k) : all[i].record = all[j].record => i = j

LEMMA LinesOfParts ==
  ASSUME DatasetInv, SplitSound, phase = "done",
         NEW objective \in Objectives, NEW schema \in SchemasOf(objective), rowSet = Serialized(objective, schema)
  PROVE  LinesHold(schema, Cardinality(Train), Cardinality(Evaluation), rowSet.train \o rowSet.evaluation)
<1> DEFINE m == Cardinality(Train)
           k == Cardinality(Evaluation)
           all == rowSet.train \o rowSet.evaluation
<1> DEFINE train == Lowered(Train, schema)
           evaluation == Lowered(Evaluation, schema)
           lines == LinesOf(schema)
           first == PlacedAt("train", train)
           second == PlacedAt("evaluation", evaluation)
<1>1. /\ Train \in SUBSET Nat /\ Evaluation \in SUBSET Nat /\ IsFiniteSet(Train) /\ IsFiniteSet(Evaluation)
      /\ m \in Nat /\ k \in Nat /\ m > 0 /\ m + k = Cardinality(Included) /\ Train \cap Evaluation = {}
  BY ParentsOfRows, DatasetPasses
<1> HIDE DEF m, k
<1>2. /\ rowSet.train = train /\ rowSet.evaluation = evaluation /\ lines = first \o second
      /\ rowSet.provenance = [n \in DOMAIN lines |-> ConstructedEntry(lines[n])]
  BY SerializedIs DEF RowSet, LinesOf
<1>3. /\ Len(train) = m /\ DOMAIN train = 1..m /\ train \in [1..m -> ToSet(train)]
      /\ \A i \in 1..m : train[i].record \in Train
      /\ {row.record : row \in ToSet(train)} = Train
      /\ \A row \in ToSet(train) : row = ConstructedRow(row.record, schema, Instruction(schema))
      /\ \A i, j \in 1..m : i < j => train[i].record < train[j].record
  BY <1>1, LoweredRows DEF m
<1>4. /\ Len(evaluation) = k /\ DOMAIN evaluation = 1..k /\ evaluation \in [1..k -> ToSet(evaluation)]
      /\ \A i \in 1..k : evaluation[i].record \in Evaluation
      /\ {row.record : row \in ToSet(evaluation)} = Evaluation
      /\ \A row \in ToSet(evaluation) : row = ConstructedRow(row.record, schema, Instruction(schema))
      /\ \A i, j \in 1..k : i < j => evaluation[i].record < evaluation[j].record
  BY <1>1, LoweredRows DEF k
<1> HIDE DEF train, evaluation
<1>5. /\ Len(all) = m + k /\ DOMAIN all = 1..(m + k)
      /\ \A n \in 1..(m + k) : all[n] = IF n <= m THEN train[n] ELSE evaluation[n - m]
      /\ ToSet(all) = ToSet(train) \cup ToSet(evaluation)
  <2>1. all = train \o evaluation
    BY <1>2
  <2>2. m \in Nat /\ k \in Nat /\ train \in [1..m -> ToSet(train)] /\ evaluation \in [1..k -> ToSet(evaluation)]
    BY <1>1, <1>3, <1>4
  <2>3. JoinOf(train \o evaluation, train, evaluation, m, k)
    BY <2>2, Joined
  <2> HIDE DEF all
  <2> QED BY <2>1, <2>3 DEF JoinOf
<1> HIDE DEF all
<1>6. /\ DOMAIN lines = 1..(m + k)
      /\ \A n \in 1..(m + k) : lines[n] = IF n <= m THEN first[n] ELSE second[n - m]
  <2>1. first \in [1..m -> {first[n] : n \in 1..m}]
    BY <1>3 DEF PlacedAt
  <2>2. second \in [1..k -> {second[n] : n \in 1..k}]
    BY <1>4 DEF PlacedAt
  <2>3. m \in Nat /\ k \in Nat /\ lines = first \o second
    BY <1>1, <1>2
  <2> HIDE DEF first, second, lines
  <2>4. JoinOf(first \o second, first, second, m, k)
    BY <2>1, <2>2, <2>3, Joined
  <2> QED BY <2>3, <2>4 DEF JoinOf
<1>7. \A n \in 1..m : first[n] = [part |-> "train", ordinal |-> n, row |-> train[n]]
  BY <1>3 DEF PlacedAt
<1>8. \A n \in 1..k : second[n] = [part |-> "evaluation", ordinal |-> n, row |-> evaluation[n]]
  BY <1>4 DEF PlacedAt
<1> HIDE DEF first, second, lines
<1>9. ASSUME NEW n \in 1..(m + k)
      PROVE  /\ all[n] = ConstructedRow(all[n].record, schema, Instruction(schema))
             /\ IF n <= m THEN all[n].record \in Train ELSE all[n].record \in Evaluation
             /\ rowSet.provenance[n] =
                  ConstructedEntry([part |-> IF n <= m THEN "train" ELSE "evaluation",
                                    ordinal |-> IF n <= m THEN n ELSE n - m, row |-> all[n]])
  <2>1. rowSet.provenance[n] = ConstructedEntry(lines[n])
    BY <1>2, <1>6
  <2>2. CASE n <= m
    <3>1. n \in 1..m
      BY <1>1, <2>2
    <3>2. all[n] = train[n] /\ lines[n] = [part |-> "train", ordinal |-> n, row |-> all[n]] /\ train[n] \in ToSet(train)
      BY <1>3, <1>5, <1>6, <1>7, <2>2, <3>1
    <3> QED BY <1>3, <2>1, <2>2, <3>1, <3>2
  <2>3. CASE ~(n <= m)
    <3>1. n - m \in 1..k
      BY <1>1, <2>3
    <3>2. /\ all[n] = evaluation[n - m] /\ lines[n] = [part |-> "evaluation", ordinal |-> n - m, row |-> all[n]]
          /\ evaluation[n - m] \in ToSet(evaluation)
      BY <1>4, <1>5, <1>6, <1>8, <2>3, <3>1
    <3> QED BY <1>4, <2>1, <2>3, <3>1, <3>2
  <2> QED BY <2>2, <2>3
<1>10. DOMAIN rowSet.provenance = 1..(m + k) /\ Len(rowSet.provenance) = m + k
  <2> DEFINE X == {ConstructedEntry(lines[n]) : n \in 1..(m + k)}
  <2>1. rowSet.provenance \in [1..(m + k) -> X]
    BY <1>2, <1>6
  <2>2. m + k \in Nat
    BY <1>1
  <2> HIDE DEF X
  <2> QED BY <2>1, <2>2, LenIs
<1>11. ASSUME NEW i \in 1..(m + k), NEW j \in 1..(m + k), all[i].record = all[j].record, i < j PROVE FALSE
  <2>1. i \in Nat /\ j \in Nat
    BY <1>1
  <2>2. CASE j <= m
    <3>1. i \in 1..m /\ j \in 1..m /\ i <= m
      BY <1>1, <1>11, <2>1, <2>2
    <3>2. train[i].record < train[j].record /\ train[i].record = train[j].record /\ train[i].record \in Nat
      BY <1>1, <1>3, <1>5, <1>11, <2>2, <3>1
    <3> QED BY <3>2
  <2>3. CASE i <= m /\ ~(j <= m)
    BY <1>1, <1>9, <1>11, <2>3
  <2>4. CASE ~(i <= m) /\ ~(j <= m)
    <3>1. i - m \in 1..k /\ j - m \in 1..k /\ i - m < j - m
      BY <1>1, <1>11, <2>1, <2>4
    <3>2. evaluation[i - m].record < evaluation[j - m].record /\ all[i] = evaluation[i - m] /\ all[j] = evaluation[j - m]
      BY <1>4, <1>5, <2>4, <3>1
    <3>3. evaluation[i - m].record \in Nat
      BY <1>1, <1>4, <3>1
    <3> QED BY <1>11, <3>2, <3>3
  <2>5. ~(i <= m) => ~(j <= m)
    BY <1>1, <1>11, <2>1
  <2> QED BY <2>2, <2>3, <2>4, <2>5
<1>12. \A i, j \in 1..(m + k) : all[i].record = all[j].record => i = j
  <2>1. \A i, j \in 1..(m + k) : i < j \/ j < i \/ i = j
    BY <1>1
  <2> QED BY <1>11, <2>1
<1>13. Ascending(rowSet.train) /\ Ascending(rowSet.evaluation)
  <2>1. \A n \in 1..(m - 1) : n \in 1..m /\ n + 1 \in 1..m /\ n < n + 1
    BY <1>1
  <2>2. \A n \in 1..(k - 1) : n \in 1..k /\ n + 1 \in 1..k /\ n < n + 1
    BY <1>1
  <2> QED BY <1>2, <1>3, <1>4, <2>1, <2>2 DEF Ascending
<1>14. rowSet.train # <<>>
  BY <1>1, <1>2, <1>3
<1> QED BY <1>1, <1>2, <1>3, <1>4, <1>5, <1>9, <1>10, <1>12, <1>13, <1>14 DEF LinesHold, m, k, all

\* What _record_payload makes, its keys say it must hold.
LEMMA PayloadTeaches ==
  ASSUME NEW instruction, NEW context, NEW target,
         NEW schema \in {"text", "prompt_completion", "instruction_output", "messages"}
  PROVE  Teaches(RowPayload(schema, instruction, context, target), instruction, context, target)
<1> DEFINE payload == RowPayload(schema, instruction, context, target)
<1>1. CASE schema = "text"
  <2>1. payload = [text |-> target]
    BY <1>1 DEF RowPayload
  <2>2. DOMAIN payload = {"text"} /\ payload.text = target
    BY <2>1
  <2> QED BY <2>2 DEF Teaches
<1>2. CASE schema = "prompt_completion"
  <2>1. payload = [prompt |-> context, completion |-> target]
    BY <1>2 DEF RowPayload
  <2>2. DOMAIN payload = {"prompt", "completion"} /\ payload.prompt = context /\ payload.completion = target
    BY <2>1
  <2> QED BY <2>2 DEF Teaches
<1>3. CASE schema = "instruction_output"
  <2>1. payload = [instruction |-> instruction, input |-> context, output |-> target]
    BY <1>3 DEF RowPayload
  <2>2. /\ DOMAIN payload = {"instruction", "input", "output"} /\ payload.instruction = instruction
        /\ payload.input = context /\ payload.output = target
    BY <2>1
  <2> QED BY <2>2 DEF Teaches
<1>4. CASE schema = "messages"
  <2>1. payload = [messages |-> <<Turn("user", context), Turn("assistant", target)>>]
    BY <1>4 DEF RowPayload
  <2>2. DOMAIN payload = {"messages"} /\ payload.messages = <<Turn("user", context), Turn("assistant", target)>>
    BY <2>1
  <2> QED BY <2>2 DEF Teaches
<1> QED BY <1>1, <1>2, <1>3, <1>4

\* The row gates accept what was serialized, and it closes as a row set.
LEMMA RowsPass ==
  ASSUME DatasetInv, SplitSound, phase = "done",
         NEW objective \in Objectives, NEW schema \in SchemasOf(objective), rowSet = Serialized(objective, schema)
  PROVE  /\ RowsAreIncluded /\ PayloadsAreFields /\ RowSetCloses(rowSet)
         /\ rowSet.schema \in SchemasOf(rowSet.objective) /\ rowSet.origin = "constructed"
<1> DEFINE m == Cardinality(Train)
           k == Cardinality(Evaluation)
           all == rowSet.train \o rowSet.evaluation
<1>1. /\ rowSet.origin = "constructed" /\ rowSet.objective = objective /\ rowSet.schema = schema
      /\ rowSet.instruction = Instruction(schema)
  BY SerializedIs DEF RowSet
<1>2. LinesHold(schema, m, k, all)
  BY LinesOfParts
<1> HIDE DEF m, k, all
<1> USE DEF LinesHold
<1>3. RowsAreIncluded
  BY <1>2 DEF RowsAreIncluded
<1>4. PayloadsAreFields
  <2>1. schema \in {"text", "prompt_completion", "instruction_output", "messages"}
    BY DEF SchemasOf
  <2>2. ASSUME NEW row \in ToSet(all)
        PROVE  Teaches(row.payload, rowSet.instruction, made[row.record].context, made[row.record].target)
    <3>1. PICK n \in 1..(m + k) : row = all[n]
      BY <1>2 DEF ToSet
    <3>2. row = ConstructedRow(row.record, schema, Instruction(schema))
      BY <1>2, <3>1
    <3>3. row.payload = RowPayload(schema, Instruction(schema), made[row.record].context, made[row.record].target)
      BY <3>2 DEF ConstructedRow
    <3> QED BY <1>1, <2>1, <3>3, PayloadTeaches
  <2> QED BY <2>2 DEF PayloadsAreFields, all
<1>5. RowSetCloses(rowSet)
  <2>1. {row.record : row \in ToSet(all)} = Included
    <3>1. Train \cup Evaluation = Included
      BY DatasetPasses
    <3>2. {row.record : row \in ToSet(all)} =
            {row.record : row \in ToSet(rowSet.train)} \cup {row.record : row \in ToSet(rowSet.evaluation)}
      BY <1>2
    <3> QED BY <1>2, <3>1, <3>2
  <2>2. ASSUME NEW n \in 1..(m + k)
        PROVE  /\ rowSet.provenance[n].record = all[n].record /\ rowSet.provenance[n].payload = all[n].payload
               /\ IF n <= m THEN rowSet.provenance[n].part = "train" /\ rowSet.provenance[n].ordinal = n
                  ELSE rowSet.provenance[n].part = "evaluation" /\ rowSet.provenance[n].ordinal = n - m
    <3> DEFINE line == [part |-> IF n <= m THEN "train" ELSE "evaluation",
                        ordinal |-> IF n <= m THEN n ELSE n - m, row |-> all[n]]
    <3>1. rowSet.provenance[n] = ConstructedEntry(line)
      BY <1>2
    <3>2. line.row = all[n] /\ line.part = (IF n <= m THEN "train" ELSE "evaluation") /\ line.ordinal = (IF n <= m THEN n ELSE n - m)
      OBVIOUS
    <3> HIDE DEF line
    <3>3. /\ rowSet.provenance[n].record = line.row.record /\ rowSet.provenance[n].payload = line.row.payload
          /\ rowSet.provenance[n].part = line.part /\ rowSet.provenance[n].ordinal = line.ordinal
      BY <3>1 DEF ConstructedEntry
    <3> QED BY <3>2, <3>3
  <2>3. Cardinality({row.record : row \in ToSet(all)}) = Len(all) /\ Len(rowSet.provenance) = Len(all)
    BY <1>2, <2>1
  <2>4. Len(rowSet.train) = m /\ DOMAIN all = 1..(m + k)
    BY <1>2
  <2>5. rowSet.train # <<>> /\ Ascending(rowSet.train) /\ Ascending(rowSet.evaluation)
    BY <1>2
  <2> HIDE DEF LinesHold
  <2>6. all = rowSet.train \o rowSet.evaluation
    BY DEF all
  <2> QED BY <2>2, <2>3, <2>4, <2>5, <2>6, Zenon DEF RowSetCloses
<1> QED BY <1>1, <1>3, <1>4, <1>5
-----------------------------------------------------------------------------
(* The gates of the report *)

LEMMA ThreeParts ==
  ASSUME NEW S, IsFiniteSet(S), NEW A, NEW B, NEW C, S = A \cup B \cup C,
         A \cap B = {}, A \cap C = {}, B \cap C = {}
  PROVE  Cardinality(S) = Cardinality(A) + Cardinality(B) + Cardinality(C)
<1> DEFINE AB == A \cup B
<1>1. IsFiniteSet(A) /\ IsFiniteSet(B) /\ IsFiniteSet(C) /\ IsFiniteSet(AB)
  BY FS_Subset
<1>2. AB \cap C = {} /\ S = AB \cup C
  OBVIOUS
<1>3. Cardinality(AB) = Cardinality(A) + Cardinality(B) - Cardinality(A \cap B)
  BY <1>1, FS_Union
<1> HIDE DEF AB
<1>4. Cardinality(AB \cup C) = Cardinality(AB) + Cardinality(C) - Cardinality(AB \cap C)
  BY <1>1, FS_Union
<1>5. Cardinality(A) \in Nat /\ Cardinality(B) \in Nat /\ Cardinality(C) \in Nat /\ Cardinality(AB) \in Nat
  BY <1>1, FS_CardinalityType
<1>6. Cardinality(A \cap B) = 0 /\ Cardinality(AB \cap C) = 0
  BY <1>2, FS_EmptySet
<1>7. Cardinality(AB) = Cardinality(A) + Cardinality(B)
  BY <1>3, <1>5, <1>6
<1>9. Cardinality(S) = Cardinality(AB) + Cardinality(C) - Cardinality(AB \cap C)
  BY <1>2, <1>4
<1>8. Cardinality(S) = Cardinality(AB) + Cardinality(C)
  BY <1>5, <1>6, <1>9
<1> QED BY <1>7, <1>8

\* Every entry of the coverage ledger closes, and the gate asks for no more
\* than an included record of every source.
LEMMA CoverageIs ==
  ASSUME DatasetInv
  PROVE  Covered <=> UNION {made[r].sources : r \in Included} = DOMAIN raw
<1>1. DOMAIN raw = Sources /\ IsFiniteSet(Rows) /\ \A r \in Rows : made[r].sources \subseteq Sources
  BY RowFacts DEF DatasetInv
<1>2. Included \subseteq Rows /\ \A r \in Rows : r \in Included <=> outcome[r] = "quality-passed"
  BY DEF Included
<1>3. ASSUME NEW s \in Sources
      PROVE  (EntryCloses(SourceEntry(s)) /\ ~Blocked(SourceEntry(s))) <=> \E r \in Included : s \in made[r].sources
  <2> DEFINE of == {r \in Rows : s \in made[r].sources}
             status(r) == DecisionStatus(outcome[r])
             inc == {r \in of : status(r) = "included"}
             exc == {r \in of : status(r) = "excluded"}
             quar == {r \in of : status(r) = "quarantined"}
  <2>1. \A r \in Rows : /\ status(r) \in {"included", "excluded", "quarantined"}
                        /\ status(r) = "included" <=> outcome[r] = "quality-passed"
    BY DEF DecisionStatus
  <2>2. /\ SourceEntry(s).records = Cardinality(of) /\ SourceEntry(s).included = Cardinality(inc)
        /\ SourceEntry(s).excluded = Cardinality(exc) /\ SourceEntry(s).quarantined = Cardinality(quar)
    BY DEF SourceEntry
  <2>3. inc # {} <=> \E r \in Included : s \in made[r].sources
    BY <1>2, <2>1
  <2>4. of = inc \cup exc \cup quar /\ inc \cap exc = {} /\ inc \cap quar = {} /\ exc \cap quar = {} /\ of \subseteq Rows
    BY <2>1
  <2> HIDE DEF of, inc, exc, quar
  <2>5. IsFiniteSet(of) /\ IsFiniteSet(inc)
    BY <1>1, <2>4, FS_Subset
  <2>6. Cardinality(of) = Cardinality(inc) + Cardinality(exc) + Cardinality(quar)
    BY <2>4, <2>5, ThreeParts
  <2>7. (Cardinality(inc) = 0 <=> inc = {}) /\ (Cardinality(of) = 0 <=> of = {})
    BY <2>5, FS_EmptySet
  <2>8. of = {} => inc = {}
    BY <2>4
  <2> QED BY <2>2, <2>3, <2>6, <2>7, <2>8 DEF EntryCloses, Blocked
<1>4. Covered <=> \A s \in Sources : \E r \in Included : s \in made[r].sources
  BY <1>1, <1>3 DEF Covered
<1>5. UNION {made[r].sources : r \in Included} \subseteq Sources
  BY <1>1, <1>2
<1> QED BY <1>1, <1>4, <1>5

-----------------------------------------------------------------------------
(* The report *)

SeventeenGates ==
  {"construction-replay", "record-lifecycle", "curation", "deduplication", "quality", "balance", "coverage",
   "split", "leakage", "row-binding", "objective", "schema", "encoding", "masking", "partition-nonempty",
   "aptus-row-shape", "snapshot"}

LEMMA GateNames == ToSet(Gates) = SeventeenGates
<1>1. /\ Gates \in Seq(SeventeenGates) /\ Len(Gates) = 17
      /\ \A n \in 1..17 : Gates[n] \in SeventeenGates
  BY DEF Gates, SeventeenGates
<1>2. \A g \in SeventeenGates : \E n \in 1..17 : Gates[n] = g
  BY DEF Gates, SeventeenGates
<1>3. DOMAIN Gates = 1..17
  BY DEF Gates
<1> QED BY <1>1, <1>2, <1>3 DEF ToSet

\* No gate waits for itself, and every input is read by a gate other than that
\* of the snapshot, which waits for none.
LEMMA StopsFail ==
  ASSUME NEW input \in Artifacts \cup RowPaths, NEW g, g = GateThatReads(input)
  PROVE  g \in ToSet(Gates) /\ g # "snapshot" /\ g \notin After(g) /\ "snapshot" \notin After(g)
<1>1. g \in {"construction-replay", "curation", "split", "row-binding", "encoding"}
  BY DEF GateThatReads, Artifacts, RowPaths
<1>2. g \in ToSet(Gates) /\ g # "snapshot"
  BY <1>1, GateNames DEF SeventeenGates
<1>3. ASSUME NEW m \in 1..16, NEW n \in 1..16
      PROVE  ToSet(SubSeq(Gates, m, n)) = {Gates[i] : i \in m..n}
  <2>1. Gates \in Seq(SeventeenGates) /\ Len(Gates) = 17
    BY DEF Gates, SeventeenGates
  <2>2. /\ SubSeq(Gates, m, n) = [i \in 1..(n - m + 1) |-> Gates[i + m - 1]]
    BY <2>1
  <2>3. ToSet(SubSeq(Gates, m, n)) = {Gates[i + m - 1] : i \in 1..(n - m + 1)}
    BY <2>2 DEF ToSet
  <2>4. \A i \in m..n : i - m + 1 \in 1..(n - m + 1) /\ (i - m + 1) + m - 1 = i
    OBVIOUS
  <2>5. \A i \in 1..(n - m + 1) : i + m - 1 \in m..n
    OBVIOUS
  <2> HIDE DEF Gates
  <2> QED BY <2>3, <2>4, <2>5
<1>4. \A i \in 1..17 : Gates[i] = "snapshot" => i = 17
  BY DEF Gates
<1>5. /\ \A i \in 1..17 : Gates[i] = "construction-replay" => i = 1
      /\ \A i \in 1..17 : Gates[i] = "curation" => i = 3
      /\ \A i \in 1..17 : Gates[i] = "split" => i = 8
      /\ \A i \in 1..17 : Gates[i] = "row-binding" => i = 10
  BY DEF Gates
<1>6. CASE g = "construction-replay"
  <2>1. After(g) = {Gates[i] : i \in 2..16}
    BY <1>3, <1>6 DEF After
  <2> QED BY <1>2, <1>4, <1>5, <1>6, <2>1
<1>7. CASE g = "curation"
  <2>1. After(g) = {Gates[i] : i \in 4..7} \cup {Gates[i] : i \in 8..16}
    BY <1>3, <1>7 DEF After
  <2> QED BY <1>2, <1>4, <1>5, <1>7, <2>1
<1>8. CASE g = "split"
  <2>1. After(g) = {Gates[i] : i \in 9..16}
    BY <1>3, <1>8 DEF After
  <2> QED BY <1>2, <1>4, <1>5, <1>8, <2>1
<1>9. CASE g = "row-binding"
  <2>1. After(g) = {Gates[i] : i \in 11..16}
    BY <1>3, <1>9 DEF After
  <2> QED BY <1>2, <1>4, <1>5, <1>9, <2>1
<1>10. CASE g = "encoding"
  BY <1>2, <1>10 DEF After
<1> QED BY <1>1, <1>6, <1>7, <1>8, <1>9, <1>10

\* Nothing but an input of another dataset, or a gate the dataset does not
\* satisfy, makes a report fail; and the gate that stops the others fails.
LEMMA ReportIs ==
  ASSUME NEW given, given = {} \/ \E input \in Artifacts \cup RowPaths : given = {input}
  PROVE  /\ Passing(given) <=> given = {} /\ Unsatisfied = {}
         /\ (\E gate \in ToSet(Gates) : GateStatus(gate, given) = "blocked") =>
              \E gate \in ToSet(Gates) : GateStatus(gate, given) = "failed" /\ gate # "snapshot"
<1>1. Unsatisfied \subseteq ToSet(Gates)
  BY DEF Unsatisfied
<1>2. CASE given = {}
  <2>1. Misread(given) = {}
    BY <1>2 DEF Misread
  <2>2. \A gate : GateStatus(gate, given) = IF gate \in Unsatisfied THEN "failed" ELSE "passed"
    BY <1>2, <2>1 DEF GateStatus
  <2>3. Passing(given) <=> Unsatisfied = {}
    BY <1>1, <2>2 DEF Passing
  <2> QED BY <1>2, <2>2, <2>3
<1>3. CASE \E input \in Artifacts \cup RowPaths : given = {input}
  <2>1. PICK input \in Artifacts \cup RowPaths : given = {input}
    BY <1>3
  <2> DEFINE g == GateThatReads(input)
  <2>2. Misread(given) = {g}
    BY <2>1 DEF Misread
  <2>3. g \in ToSet(Gates) /\ g # "snapshot" /\ g \notin After(g)
    BY StopsFail
  <2>4. GateStatus(g, given) = "failed"
    BY <2>2, <2>3 DEF GateStatus
  <2> HIDE DEF g
  <2> QED BY <2>1, <2>3, <2>4 DEF Passing
<1> QED BY <1>2, <1>3

\* Every source has a record that is taught.
Taught == UNION {made[r].sources : r \in Included} = DOMAIN raw

\* What was formatted is the dataset, as one of its schemas has it.
Bundled == \E objective \in Objectives : \E schema \in SchemasOf(objective) : rowSet = Serialized(objective, schema)

\* Of the gates, a dataset that was split can fail that of the coverage only.
LEMMA UnsatisfiedIs ==
  ASSUME DatasetInv, SplitSound, phase = "done", Bundled \/ rowSet = NoRowSet
  PROVE  /\ Unsatisfied \subseteq {"coverage"} \cup (IF rowSet.origin = "none" THEN {"schema", "row-binding", "aptus-row-shape"} ELSE {})
         /\ Bundled => rowSet.origin = "constructed" /\ (Unsatisfied = {} <=> Taught)
<1>1. /\ Deduplicated /\ Balanced /\ Separate /\ TargetsAreText
      /\ \A r \in Included : ~(Len(made[r].target) < policy.minimum)
      /\ Train # {} /\ (policy.required => Evaluation # {})
  BY DatasetPasses
<1>2. Covered <=> Taught
  BY CoverageIs DEF Taught
<1>3. CASE Bundled
  <2>1. /\ RowsAreIncluded /\ PayloadsAreFields /\ SchemaFits
        /\ rowSet.origin = "constructed"
    BY <1>3, RowsPass DEF Bundled, SchemaFits
  <2>2. Unsatisfied = {gate \in ToSet(Gates) : gate = "coverage" /\ ~Covered}
    BY <1>1, <2>1 DEF Unsatisfied
  <2>3. "coverage" \in ToSet(Gates)
    BY GateNames DEF SeventeenGates
  <2> QED BY <1>2, <2>1, <2>2, <2>3
<1>4. CASE rowSet = NoRowSet
  <2>1. rowSet.origin = "none" /\ rowSet.train = <<>> /\ rowSet.evaluation = <<>>
    BY <1>4 DEF NoRowSet
  <2>2. PayloadsAreFields
    <3>1. rowSet.train \o rowSet.evaluation = <<>>
      BY <2>1
    <3>2. ToSet(rowSet.train \o rowSet.evaluation) = {}
      BY <3>1 DEF ToSet
    <3> QED BY <3>2 DEF PayloadsAreFields
  <2>3. Unsatisfied \subseteq {"coverage", "schema", "row-binding", "aptus-row-shape"}
    BY <1>1, <2>2 DEF Unsatisfied
  <2>4. ~Bundled
    <3>1. Bundled => rowSet.origin = "constructed"
      BY RowsPass DEF Bundled
    <3> QED BY <2>1, <3>1
  <2> QED BY <2>1, <2>3, <2>4
<1> QED BY <1>3, <1>4

LEMMA SameSerialized ==
  ASSUME UNCHANGED datasetVars
  PROVE  /\ Taught' = Taught /\ Included' = Included /\ Train' = Train /\ Evaluation' = Evaluation
         /\ \A objective, schema : Serialized(objective, schema)' = Serialized(objective, schema)
<1>1. made' = made /\ raw' = raw /\ split' = split /\ UNCHANGED <<inputs, curated>>
  BY DEF datasetVars, inputs
<1>2. Included' = Included
  BY <1>1, SameTokens
<1>3. Evaluation' = Evaluation
  BY <1>1 DEF Evaluation
<1>4. Train' = Train
  BY <1>2, <1>3 DEF Train
<1>5. Taught' = Taught
  BY <1>1, <1>2 DEF Taught
<1>6. \A r, schema, instruction : ConstructedRow(r, schema, instruction)' = ConstructedRow(r, schema, instruction)
  BY <1>1 DEF ConstructedRow
<1>7. \A r : GroupOf(r)' = GroupOf(r)
  BY <1>1 DEF GroupOf
<1>8. \A line : ConstructedEntry(line)' = ConstructedEntry(line)
  BY <1>1, <1>7 DEF ConstructedEntry
<1>9. ASSUME NEW objective, NEW schema PROVE Serialized(objective, schema)' = Serialized(objective, schema)
  BY <1>3, <1>4, <1>6, <1>8, Zenon DEF Serialized
<1> QED BY <1>2, <1>3, <1>4, <1>5, <1>9

\* The row set is that of the dataset, which no longer changes, and a report
\* fails for what was handed over or for a source that is not taught.
RowsOfDataset ==
  /\ sealing = "idle" => rowSet = NoRowSet /\ handed = {}
  /\ sealing # "idle" => phase = "done" /\ Bundled
  /\ handed = {} \/ \E input \in Artifacts \cup RowPaths : handed = {input}
  /\ sealing \notin {"idle", "formatted"} => (sealing = "failed" <=> handed # {} \/ ~Taught)

ConstructedInv == DatasetInv /\ SplitSound /\ RowsOfDataset /\ importing = "idle"

LEMMA InitConstructed == ConstructedInit => ConstructedInv
<1> SUFFICES ASSUME ConstructedInit PROVE ConstructedInv
  OBVIOUS
<1>1. DatasetInv /\ SplitSound
  BY InitDataset, InitSplit DEF ConstructedInit
<1> QED BY <1>1 DEF ConstructedInit, ConstructedInv, RowsOfDataset, BundleInit

LEMMA RowsOfDatasetStep ==
  ASSUME ConstructedInv, ConstructedNext
  PROVE  RowsOfDataset'
<1>1. CASE DatasetNext /\ UNCHANGED bundleVars
  <2>1. phase # "done"
    BY <1>1 DEF DatasetNext, Curate, NothingToSplit, Group, Grouped, OneGroup, Assign
  <2> QED BY <1>1, <2>1 DEF ConstructedInv, RowsOfDataset, bundleVars
<1>2. CASE (BundleNext \/ FormatOne) /\ UNCHANGED datasetVars
  <2>1. /\ Taught' = Taught /\ phase' = phase
        /\ \A objective, schema : Serialized(objective, schema)' = Serialized(objective, schema)
    BY <1>2, SameSerialized DEF datasetVars
  <2>2. rowSet' = rowSet => Bundled' = Bundled
    BY <2>1 DEF Bundled
  <2>3. CASE FormatOne
    <3>1. PICK objective \in Objectives : Format(objective)
      BY <2>3 DEF FormatOne
    <3>2. /\ phase = "done" /\ sealing = "idle" /\ sealing' = "formatted" /\ handed' = handed
          /\ \E schema \in SchemasOf(objective) : rowSet' = Serialized(objective, schema)
      BY <3>1 DEF Format
    <3>3. Bundled'
      BY <2>1, <3>2 DEF Bundled
    <3> QED BY <2>1, <3>2, <3>3 DEF ConstructedInv, RowsOfDataset
  <2>4. CASE Validate
    <3>1. /\ sealing = "formatted" /\ rowSet' = rowSet
          /\ sealing' = IF Passing(handed') THEN "validated" ELSE "failed"
          /\ handed' = {} \/ \E input \in Artifacts \cup RowPaths : handed' = {input}
      BY <2>4 DEF Validate
    <3>2. phase = "done" /\ Bundled
      BY <3>1 DEF ConstructedInv, RowsOfDataset
    <3>3. Unsatisfied = {} <=> Taught
      BY <3>2, UnsatisfiedIs DEF ConstructedInv
    <3>4. Passing(handed') <=> handed' = {} /\ Unsatisfied = {}
      BY <3>1, ReportIs
    <3> QED BY <2>1, <2>2, <3>1, <3>2, <3>3, <3>4 DEF RowsOfDataset
  <2>5. CASE HandOverImported
    BY <2>5 DEF HandOverImported, ConstructedInv
  <2>6. CASE BundleNext /\ ~Validate /\ ~HandOverImported
    <3>1. /\ sealing \notin {"idle", "formatted", "failed"} /\ sealing' \notin {"idle", "formatted", "failed"}
          /\ rowSet' = rowSet /\ handed' = handed
      BY <2>6 DEF BundleNext, Seal, Disturb, StartVerify, Collect, ListFolder, StatEntry, Collected,
                  ReadManifest, ReadAttestation, VerifyPayload, ReadReport, OpenRows, AlignRows,
                  LookAgain, ReadManifestAgain, ReadAttestationAgain, VerifierStep, Verifying
    <3> QED BY <2>1, <2>2, <3>1 DEF ConstructedInv, RowsOfDataset
  <2> QED BY <1>2, <2>3, <2>4, <2>5, <2>6
<1> QED BY <1>1, <1>2 DEF ConstructedNext, FormatOne

LEMMA ConstructedInvariance == ConstructedSpec => []ConstructedInv
<1>1. ConstructedInv /\ [ConstructedNext]_<<datasetVars, bundleVars, importing>> => ConstructedInv'
  <2> SUFFICES ASSUME ConstructedInv, [ConstructedNext]_<<datasetVars, bundleVars, importing>>
               PROVE  ConstructedInv'
    OBVIOUS
  <2>1. [DatasetNext]_datasetVars /\ importing' = importing
    BY DEF ConstructedNext
  <2>2. DatasetInv' /\ SplitSound'
    BY <2>1, DatasetStep, SplitStep DEF ConstructedInv
  <2>3. RowsOfDataset'
    <3>1. CASE ConstructedNext
      BY <3>1, RowsOfDatasetStep
    <3>2. CASE UNCHANGED <<datasetVars, bundleVars, importing>>
      <4>1. UNCHANGED datasetVars /\ UNCHANGED bundleVars
        BY <3>2
      <4>2. Bundled' = Bundled /\ Taught' = Taught /\ phase' = phase
        BY <4>1, SameSerialized DEF Bundled, bundleVars, datasetVars
      <4> QED BY <4>1, <4>2 DEF ConstructedInv, RowsOfDataset, bundleVars
    <3> QED BY <3>1, <3>2
  <2> QED BY <2>1, <2>2, <2>3 DEF ConstructedInv
<1> QED BY <1>1, InitConstructed, PTL DEF ConstructedSpec

\* The gates that recompute the verdicts accept whatever curation and splitting
\* let through (validate_dataset_snapshot).
THEOREM GatesAccept == ConstructedSpec => []GatesPass
<1>1. ConstructedInv => GatesPass
  <2> SUFFICES ASSUME ConstructedInv PROVE GatesPass
    OBVIOUS
  <2>1. phase # "invalid"
    BY DEF ConstructedInv, SplitSound
  <2>2. ASSUME phase = "done"
        PROVE  /\ Unsatisfied \subseteq
                    {"coverage"} \cup (IF rowSet.origin = "none" THEN {"schema", "row-binding", "aptus-row-shape"} ELSE {})
               /\ Cardinality(split.groups) >= 2 =>
                    \E g \in split.groups : Distance(Cardinality(Evaluation), split.target) < Cardinality(g)
    <3>1. Bundled \/ rowSet = NoRowSet
      BY DEF ConstructedInv, RowsOfDataset
    <3> QED BY <2>2, <3>1, UnsatisfiedIs DEF ConstructedInv, SplitSound, NearTarget
  <2>3. sealing \in {"validated", "failed"} => (sealing = "failed" <=> handed # {} \/ ~Taught)
    BY DEF ConstructedInv, RowsOfDataset
  <2>4. (\E gate \in ToSet(Gates) : GateStatus(gate, handed) = "blocked") =>
          \E gate \in ToSet(Gates) : GateStatus(gate, handed) = "failed" /\ gate # "snapshot"
    BY ReportIs DEF ConstructedInv, RowsOfDataset
  <2> QED BY <2>1, <2>2, <2>3, <2>4 DEF GatesPass, Taught
<1> QED BY <1>1, ConstructedInvariance, PTL
-----------------------------------------------------------------------------
(* What the verifier asks of rows and files *)

\* The record of every line, and what the entry beside the line says of it.
EntriesHold(all, schema) ==
  /\ DOMAIN rowSet.provenance = DOMAIN all /\ {all[n].record : n \in DOMAIN all} = Included
  /\ \A i, j \in DOMAIN all : all[i].record = all[j].record => i = j
  /\ \A n \in DOMAIN all :
       LET r == all[n].record
           entry == rowSet.provenance[n]
       IN  /\ entry.sources = made[r].sources /\ entry.context = made[r].context /\ entry.target = made[r].target
           /\ entry.group = GroupOf(r) /\ entry.part = IF r \in Train THEN "train" ELSE "evaluation"

LEMMA EntriesOfLines ==
  ASSUME DatasetInv, SplitSound, phase = "done",
         NEW objective \in Objectives, NEW schema \in SchemasOf(objective), rowSet = Serialized(objective, schema)
  PROVE  EntriesHold(rowSet.train \o rowSet.evaluation, schema)
<1> DEFINE m == Cardinality(Train)
           k == Cardinality(Evaluation)
           all == rowSet.train \o rowSet.evaluation
<1>1. LinesHold(schema, m, k, all)
  BY LinesOfParts
<1>2. Train \cap Evaluation = {} /\ Train \cup Evaluation = Included
  BY DatasetPasses
<1> HIDE DEF m, k, all
<1>3. DOMAIN rowSet.provenance = DOMAIN all /\ DOMAIN all = 1..(m + k)
  BY <1>1 DEF LinesHold
<1>4. {all[n].record : n \in DOMAIN all} = Included
  <2>1. ToSet(all) = {all[n] : n \in DOMAIN all}
    BY DEF ToSet
  <2>2. {row.record : row \in ToSet(all)} =
          {row.record : row \in ToSet(rowSet.train)} \cup {row.record : row \in ToSet(rowSet.evaluation)}
    BY <1>1 DEF LinesHold
  <2>3. {row.record : row \in ToSet(all)} = Included
    BY <1>1, <1>2, <2>2 DEF LinesHold
  <2> QED BY <2>1, <2>3
<1>5. \A i, j \in DOMAIN all : all[i].record = all[j].record => i = j
  BY <1>1, <1>3 DEF LinesHold
<1>6. ASSUME NEW n \in DOMAIN all
      PROVE  LET r == all[n].record
                 entry == rowSet.provenance[n]
             IN  /\ entry.sources = made[r].sources /\ entry.context = made[r].context
                 /\ entry.target = made[r].target
                 /\ entry.group = GroupOf(r) /\ entry.part = IF r \in Train THEN "train" ELSE "evaluation"
  <2> DEFINE line == [part |-> IF n <= m THEN "train" ELSE "evaluation",
                      ordinal |-> IF n <= m THEN n ELSE n - m, row |-> all[n]]
             r == all[n].record
  <2>1. /\ rowSet.provenance[n] = ConstructedEntry(line)
        /\ IF n <= m THEN r \in Train ELSE r \in Evaluation
    BY <1>1, <1>3, <1>6 DEF LinesHold
  <2>2. line.row.record = r /\ line.part = IF n <= m THEN "train" ELSE "evaluation"
    OBVIOUS
  <2> HIDE DEF line, r
  <2>3. line.part = IF r \in Train THEN "train" ELSE "evaluation"
    BY <1>2, <2>1, <2>2
  <2>4. LET entry == rowSet.provenance[n]
        IN  /\ entry.sources = made[r].sources /\ entry.context = made[r].context
            /\ entry.target = made[r].target /\ entry.group = GroupOf(r) /\ entry.part = line.part
    BY <2>1, <2>2 DEF ConstructedEntry
  <2> QED BY <2>3, <2>4 DEF r
<1> QED BY <1>3, <1>4, <1>5, <1>6 DEF EntriesHold, all

\* Records of one group are in one part, and those that share a source in one
\* group.
LEMMA GroupsDecide ==
  ASSUME DatasetInv, SplitSound, phase = "done", NEW r \in Included, NEW s \in Included
  PROVE  /\ GroupOf(r) = GroupOf(s) => (r \in Train <=> s \in Train)
         /\ made[r].sources \cap made[s].sources # {} => GroupOf(r) = GroupOf(s)
<1>1. /\ UNION split.groups = Included /\ \A g, h \in split.groups : g # h => g \cap h = {}
      /\ split.evaluation \subseteq split.groups /\ GroupsAreComponents
  BY Components DEF SplitSound, SplitCloses
<1>2. ASSUME NEW x \in Included
      PROVE  GroupOf(x) \in split.groups /\ x \in GroupOf(x) /\ (x \in Train <=> GroupOf(x) \notin split.evaluation)
  <2>1. \E g \in split.groups : x \in g
    BY <1>1
  <2>2. GroupOf(x) \in split.groups /\ x \in GroupOf(x)
    BY <2>1 DEF GroupOf
  <2>3. x \in Evaluation <=> GroupOf(x) \in split.evaluation
    BY <1>1, <2>2 DEF Evaluation
  <2> QED BY <2>2, <2>3 DEF Train
<1>3. ASSUME made[r].sources \cap made[s].sources # {}
      PROVE  GroupOf(r) = GroupOf(s)
  <2>1. PICK x : x \in made[r].sources /\ x \in made[s].sources
    BY <1>3
  <2>2. x \in Basis(r) /\ x \in Basis(s)
    BY <2>1 DEF Basis
  <2>3. <<3, x>> \in Tokens(r) /\ <<3, x>> \in Tokens(s)
    BY <2>2 DEF Tokens
  <2>4. <<3, x>> \in GroupTokens({GroupOf(r)}) /\ <<3, x>> \in GroupTokens({GroupOf(s)})
    BY <1>2, <2>3 DEF GroupTokens
  <2>5. GroupTokens({GroupOf(r)}) \cap GroupTokens({GroupOf(s)}) # {}
    BY <2>4
  <2>6. \A g, h \in split.groups : g # h => GroupTokens({g}) \cap GroupTokens({h}) = {}
    BY <1>1 DEF GroupsAreComponents
  <2> QED BY <1>2, <2>5, <2>6
<1> QED BY <1>2, <1>3

\* What the entries of two records are held to.
Compatible(r, s) ==
  /\ r # s => <<made[r].context, made[r].target>> # <<made[s].context, made[s].target>>
  /\ (made[r].sources = made[s].sources /\ made[r].context = made[s].context) => made[r].target = made[s].target
  /\ GroupOf(r) = GroupOf(s) => (r \in Train <=> s \in Train)
  /\ made[r].sources \cap made[s].sources # {} => GroupOf(r) = GroupOf(s)

LEMMA PairsHold ==
  ASSUME DatasetInv, SplitSound, phase = "done", NEW r \in Included, NEW s \in Included
  PROVE  Compatible(r, s)
<1>1. Deduplicated /\ NoContradiction
  BY DatasetPasses, OneAnswer
<1>2. r # s => <<made[r].context, made[r].target>> # <<made[s].context, made[s].target>>
  BY <1>1 DEF Deduplicated, Content
<1>3. (made[r].sources = made[s].sources /\ made[r].context = made[s].context) => made[r].target = made[s].target
  BY <1>1 DEF NoContradiction
<1> QED BY <1>2, <1>3, GroupsDecide DEF Compatible

\* What the verifier, which shares no rule with the stages before it, asks of
\* rows and provenance.
LEMMA RowsAlign ==
  ASSUME DatasetInv, SplitSound, phase = "done", Bundled, Taught
  PROVE  RowsHold
<1>0. PICK objective \in Objectives : \E schema \in SchemasOf(objective) : rowSet = Serialized(objective, schema)
  BY DEF Bundled
<1>1. PICK schema \in SchemasOf(objective) : rowSet = Serialized(objective, schema)
  BY <1>0
<1> DEFINE all == rowSet.train \o rowSet.evaluation
           entry(n) == rowSet.provenance[n]
           rec(n) == all[n].record
<1>2. /\ RowSetCloses(rowSet) /\ PayloadsAreFields
      /\ rowSet.objective = objective /\ rowSet.schema = schema
  BY <1>1, RowsPass, SerializedIs DEF RowSet
<1>3. EntriesHold(all, schema)
  BY <1>1, EntriesOfLines
<1>4. \A n \in DOMAIN all : RowContract(all[n], entry(n))
  <2> SUFFICES ASSUME NEW n \in DOMAIN all PROVE RowContract(all[n], entry(n))
    OBVIOUS
  <2>1. all[n] \in ToSet(all)
    BY DEF ToSet
  <2>2. Teaches(all[n].payload, rowSet.instruction, made[rec(n)].context, made[rec(n)].target)
    BY <1>2, <2>1 DEF PayloadsAreFields
  <2>3. entry(n).context = made[rec(n)].context /\ entry(n).target = made[rec(n)].target
    BY <1>3 DEF EntriesHold
  <2>4. objective = "full_text" <=> schema = "text"
    BY <1>1 DEF SchemasOf
  <2> HIDE DEF all
  <2> QED BY <1>2, <2>2, <2>3, <2>4 DEF RowContract
<1> HIDE DEF all
<1>5. ToSet(rowSet.provenance) = {entry(n) : n \in DOMAIN all}
  BY <1>3 DEF ToSet, EntriesHold
<1>6. \A n \in DOMAIN all : rec(n) \in Included /\ entry(n).sources = made[rec(n)].sources
  BY <1>3 DEF EntriesHold
<1>7. \A r \in Included : \E n \in DOMAIN all : rec(n) = r
  BY <1>3 DEF EntriesHold
<1>8. Emitted = DOMAIN raw
  <2>1. Emitted = UNION {entry(n).sources : n \in DOMAIN all}
    BY <1>5 DEF Emitted
  <2>2. UNION {entry(n).sources : n \in DOMAIN all} = UNION {made[r].sources : r \in Included}
    <3>1. {entry(n).sources : n \in DOMAIN all} = {made[r].sources : r \in Included}
      BY <1>6, <1>7
    <3> QED BY <3>1
  <2> QED BY <2>1, <2>2 DEF Taught
<1>9. ASSUME NEW i \in DOMAIN all, NEW j \in DOMAIN all
      PROVE  LET d == entry(i)
                 e == entry(j)
             IN  /\ d # e => <<d.context, d.target>> # <<e.context, e.target>>
                 /\ (d.sources = e.sources /\ d.context = e.context) => d.target = e.target
                 /\ d.group = e.group => d.part = e.part
                 /\ d.sources \cap e.sources # {} => d.part = e.part /\ d.group = e.group
  <2> DEFINE r == rec(i)
             s == rec(j)
             d == entry(i)
             e == entry(j)
  <2>1. /\ r \in Included /\ s \in Included /\ (r = s => i = j)
        /\ d.sources = made[r].sources /\ d.context = made[r].context /\ d.target = made[r].target
        /\ d.group = GroupOf(r) /\ d.part = IF r \in Train THEN "train" ELSE "evaluation"
        /\ e.sources = made[s].sources /\ e.context = made[s].context /\ e.target = made[s].target
        /\ e.group = GroupOf(s) /\ e.part = IF s \in Train THEN "train" ELSE "evaluation"
    BY <1>3 DEF EntriesHold
  <2>2. i = j => d = e
    OBVIOUS
  <2> HIDE DEF r, s, d, e
  <2>3. Compatible(r, s)
    BY <2>1, PairsHold
  <2> USE DEF Compatible
  <2>4. d # e => <<d.context, d.target>> # <<e.context, e.target>>
    <3>1. d # e => r # s
      BY <2>1, <2>2
    <3>2. <<d.context, d.target>> = <<made[r].context, made[r].target>> /\ <<e.context, e.target>> = <<made[s].context, made[s].target>>
      BY <2>1
    <3> QED BY <2>3, <3>1, <3>2
  <2>5. (d.sources = e.sources /\ d.context = e.context) => d.target = e.target
    BY <2>1, <2>3
  <2>6. d.group = e.group => d.part = e.part
    BY <2>1, <2>3
  <2>7. d.sources \cap e.sources # {} => d.part = e.part /\ d.group = e.group
    BY <2>1, <2>3
  <2> QED BY <2>4, <2>5, <2>6, <2>7 DEF d, e
<1>10. \A d, e \in ToSet(rowSet.provenance) :
         /\ d # e => <<d.context, d.target>> # <<e.context, e.target>>
         /\ (d.sources = e.sources /\ d.context = e.context) => d.target = e.target
         /\ d.group = e.group => d.part = e.part
         /\ d.sources \cap e.sources # {} => d.part = e.part /\ d.group = e.group
  BY <1>5, <1>9
<1> HIDE DEF entry
<1> QED BY <1>2, <1>4, <1>8, <1>10 DEF RowsHold, all, entry

Pristine == \A p \in AnyPath : tree[p].changes = 0
SealedTree == [p \in AnyPath |-> [is |-> IF p \in BundlePaths THEN "sealed" ELSE "missing", changes |-> 0, moves |-> 0]]
SealedFacts == [e \in Entries |-> IF e \in Folders THEN [p \in EntriesOf[e] |-> 0] ELSE SealedTree[e]]
Written == {"sealed"} \cup Verifying \cup {"verified", "rejected"}

\* The walk has still to come to e.
Ahead(e) ==
  \/ ToDo("stat", e)
  \/ \E d \in Folders : e \in EntriesOf[d] /\ (ToDo("stat", d) \/ ToDo("list", d))

\* A walk through a bundle nobody changed.
WalkSoFar ==
  /\ ~ToDo("list", "root") =>
       \A e \in Entries : look.found[e] = SealedFacts[e] \/ (e \in BundlePaths \cup Folders /\ Ahead(e))
  /\ \A e \in Entries : ToDo("stat", e) => e \in BundlePaths \cup Folders

\* A bundle nobody changed is as it was sealed, to the verifier too, and only
\* the digest asked for makes it be rejected.
SealedSoFar ==
  /\ sealing \in Written => CountsClose(manifest) /\ \A p \in RowPaths : manifest[p] = Len(Lines(p))
  /\ sealing \in Written /\ Pristine => tree = SealedTree
  /\ sealing \in {"collecting", "closing"} /\ Pristine => WalkSoFar
  /\ sealing \in Verifying \ {"collecting"} /\ Pristine => look.stat = SealedFacts
  /\ sealing = "rejected" => ~Pristine \/ look.asked = "other"

LEMMA SealedReads ==
  ASSUME tree = SealedTree, look.stat = SealedFacts
  PROVE  /\ \A p \in BundlePaths : ReadsAsSealed(p)
         /\ Present(look.stat) = BundlePaths
         /\ RowPaths \subseteq BundlePaths /\ Metadata \subseteq BundlePaths
<1>1. \A p \in AnyPath : SealedFacts[p] = SealedTree[p]
  BY FourPayloads, FolderEntries DEF SealedFacts, Entries
<1>2. \A p \in AnyPath : SealedTree[p].is = IF p \in BundlePaths THEN "sealed" ELSE "missing"
  BY DEF SealedTree
<1>3. BundlePaths \subseteq AnyPath /\ Metadata \subseteq BundlePaths /\ RowPaths \subseteq BundlePaths
  BY FourPayloads DEF Metadata, RowPaths
<1>4. \A p \in BundlePaths : ReadsAsSealed(p)
  BY <1>1, <1>2, <1>3 DEF ReadsAsSealed, AsCollected
<1>5. Present(look.stat) = BundlePaths
  BY <1>1, <1>2, <1>3 DEF Present
<1> QED BY <1>3, <1>4, <1>5

\* What stat says of a bundle nobody changed.
LEMMA SealedStat ==
  ASSUME tree = SealedTree, NEW e \in Entries
  PROVE  /\ FactsOf(e) = SealedFacts[e]
         /\ There(e) <=> e \in BundlePaths \cup Folders
         /\ e \in AnyPath => tree[e].is # "linked"
         /\ e \notin BundlePaths \cup Folders => SealedFacts[e] = NotThere
<1>1. e \in AnyPath => tree[e] = [is |-> IF e \in BundlePaths THEN "sealed" ELSE "missing", changes |-> 0, moves |-> 0]
  BY DEF SealedTree
<1>2. e \notin Folders => e \in AnyPath
  BY DEF Entries
<1>3. e \in Folders => FactsOf(e) = SealedFacts[e]
  <2>1. ASSUME e \in Folders PROVE \A p \in EntriesOf[e] : tree[p].moves = 0
    BY <2>1, FolderEntries, FourPayloads DEF SealedTree
  <2> QED BY <2>1 DEF FactsOf, SealedFacts
<1>4. e \notin Folders => FactsOf(e) = tree[e] /\ SealedFacts[e] = tree[e]
  BY DEF FactsOf, SealedFacts
<1>5. BundlePaths \subseteq AnyPath /\ \A p \in AnyPath : p \notin Folders
  BY FourPayloads, FolderEntries
<1> QED BY <1>1, <1>2, <1>3, <1>4, <1>5 DEF There, NotThere

\* The calls of a walk through a bundle nobody changed.
LEMMA SealedWalk ==
  ASSUME TreeTyped, tree = SealedTree, sealing \in {"collecting", "closing"}, WalkSoFar, Collect
  PROVE  WalkSoFar' /\ sealing' = sealing /\ look'.stat = look.stat /\ look'.asked = look.asked
<1>0. /\ Entries = {"evaluation", "train", "provenance", "validation", "manifest", "attestation", "extra", "stray",
                    "data", "metadata"}
      /\ BundlePaths \cup Folders = Entries \ {"extra", "stray"}
  BY FourPayloads, FolderEntries DEF Entries
<1>1. CASE \E d \in Folders \cup {"root"} : ToDo("list", d) /\ ListFolder(d)
  <2>1. PICK d \in Folders \cup {"root"} : ToDo("list", d) /\ ListFolder(d)
    BY <1>1
  <2>2. /\ \A e : ToDo("stat", e)' <=> ToDo("stat", e) \/ (e \in EntriesOf[d] /\ There(e))
        /\ \A e : ToDo("list", e)' <=> ToDo("list", e) /\ e # d
        /\ look'.found = (IF d = "root" THEN NoStat ELSE look.found)
        /\ look'.stat = look.stat /\ sealing' = sealing /\ look'.asked = look.asked
    BY <2>1, AfterList
  <2>3. \A e \in Entries : ToDo("stat", e)' => e \in BundlePaths \cup Folders
    BY <2>2, SealedStat DEF WalkSoFar
  <2>4. CASE d = "root"
    <3>1. ASSUME NEW e \in Entries, e \in BundlePaths \cup Folders PROVE Ahead(e)'
      <4>1. \A f \in Entries : f \in EntriesOf[d] /\ f \in BundlePaths \cup Folders => ToDo("stat", f)'
        BY <2>2, SealedStat
      <4>2. ToDo("stat", "data")' /\ ToDo("stat", "metadata")'
        BY <1>0, <2>4, <4>1, FolderEntries
      <4>3. e \in EntriesOf["root"] \/ \E f \in Folders : e \in EntriesOf[f]
        BY <1>0, <3>1, FolderEntries
      <4>4. e \in EntriesOf["root"] => ToDo("stat", e)'
        BY <2>4, <3>1, <4>1
      <4> QED BY <4>2, <4>3, <4>4, FolderEntries DEF Ahead
    <3>2. ASSUME NEW e \in Entries, e \notin BundlePaths \cup Folders PROVE look'.found[e] = SealedFacts[e]
      <4>1. SealedFacts[e] = NotThere
        BY <3>2, SealedStat
      <4> QED BY <2>2, <2>4, <4>1, NothingTyped
    <3> QED BY <2>2, <2>3, <3>1, <3>2 DEF WalkSoFar
  <2>5. CASE d # "root"
    <3>1. ASSUME NEW e \in Entries, e \in BundlePaths \cup Folders, Ahead(e) PROVE Ahead(e)'
      <4>2. CASE ToDo("stat", e)
        BY <2>2, <4>2 DEF Ahead
      <4>3. CASE \E f \in Folders : e \in EntriesOf[f] /\ (ToDo("stat", f) \/ ToDo("list", f))
        <5>1. PICK f \in Folders : e \in EntriesOf[f] /\ (ToDo("stat", f) \/ ToDo("list", f))
          BY <4>3
        <5>2. CASE ToDo("stat", f)
          BY <2>2, <5>1, <5>2 DEF Ahead
        <5>3. CASE ToDo("list", f) /\ f # d
          BY <2>2, <5>1, <5>3 DEF Ahead
        <5>4. CASE f = d
          <6>1. There(e)
            BY <3>1, SealedStat
          <6> QED BY <2>2, <5>1, <5>4, <6>1 DEF Ahead
        <5> QED BY <5>1, <5>2, <5>3, <5>4
      <4> QED BY <3>1, <4>2, <4>3 DEF Ahead
    <3> QED BY <2>2, <2>3, <2>5, <3>1 DEF WalkSoFar
  <2> QED BY <2>4, <2>5
<1>2. CASE \E e \in Entries : ToDo("stat", e) /\ StatEntry(e)
  <2>1. PICK e \in Entries : ToDo("stat", e) /\ StatEntry(e)
    BY <1>2
  <2>2. e \in BundlePaths \cup Folders
    BY <2>1 DEF WalkSoFar
  <2>3. sealing' # "rejected"
    <3>1. There(e) /\ (e \in Folders \/ tree[e].is # "linked")
      BY <2>2, SealedStat DEF Entries
    <3> QED BY <2>1, <3>1 DEF StatEntry
  <2>4. /\ \A x : ToDo("stat", x)' <=> ToDo("stat", x) /\ x # e
        /\ \A x : ToDo("list", x)' <=> ToDo("list", x) \/ (e \in Folders /\ x = e)
        /\ look'.found = [look.found EXCEPT ![e] = FactsOf(e)]
        /\ look'.stat = look.stat /\ sealing' = sealing /\ look'.asked = look.asked
    BY <2>1, <2>3, AfterStat
  <2>5. \A x \in Entries : look'.found[x] = IF x = e THEN SealedFacts[e] ELSE look.found[x]
    BY <2>4, SealedStat DEF TreeTyped
  <2>6. ASSUME NEW x \in Entries, x # e, Ahead(x) PROVE Ahead(x)'
    <3>1. CASE ToDo("stat", x)
      BY <2>4, <2>6, <3>1 DEF Ahead
    <3>2. CASE \E f \in Folders : x \in EntriesOf[f] /\ (ToDo("stat", f) \/ ToDo("list", f))
      BY <2>4, <3>2 DEF Ahead
    <3> QED BY <2>6, <3>1, <3>2 DEF Ahead
  <2> QED BY <2>4, <2>5, <2>6 DEF WalkSoFar
<1> QED BY <1>1, <1>2, WalkCalls

\* When a walk through a bundle nobody changed is over, it found all of it.
LEMMA SealedFound ==
  ASSUME TreeTyped, WalkSoFar, look.todo = {}
  PROVE  look.found = SealedFacts
<1>1. ~ToDo("list", "root") /\ \A e \in Entries : ~Ahead(e)
  BY DEF Ahead, ToDo
<1>2. \A e \in Entries : look.found[e] = SealedFacts[e]
  BY <1>1 DEF WalkSoFar
<1>3. SealedFacts = [e \in Entries |-> SealedFacts[e]] /\ look.found = [e \in Entries |-> look.found[e]]
  BY DEF SealedFacts, TreeTyped
<1> QED BY <1>2, <1>3

LEMMA SealedMetadata == Metadata \subseteq Present(SealedFacts)
<1>1. Metadata \subseteq BundlePaths /\ BundlePaths \subseteq AnyPath /\ \A p \in AnyPath : p \in Entries /\ p \notin Folders
  BY FourPayloads, FolderEntries DEF Metadata, Entries
<1> QED BY <1>1 DEF Present, SealedFacts, SealedTree

LEMMA SomethingDisturbed ==
  ASSUME TreeTyped, ~Pristine
  PROVE  Disturbed > 0
<1> DEFINE piece(p) == {p} \X (1..tree[p].changes)
           pieces == {piece(p) : p \in AnyPath}
           f == [p \in AnyPath |-> piece(p)]
<1>0. \A n \in Nat : IsFiniteSet(1..n)
  BY FS_Interval
<1>1. \A p \in AnyPath : tree[p].changes \in Nat
  BY DEF TreeTyped, PathFacts
<1>2. \A p \in AnyPath : IsFiniteSet(piece(p))
  <2> SUFFICES ASSUME NEW p \in AnyPath PROVE IsFiniteSet(piece(p))
    OBVIOUS
  <2> DEFINE changes == tree[p].changes
  <2>1. changes \in Nat
    BY <1>1
  <2> HIDE DEF changes
  <2>2. IsFiniteSet(1..changes)
    BY <1>0, <2>1
  <2>3. IsFiniteSet({p})
    BY FS_Singleton
  <2> QED BY <2>2, <2>3, FS_Product DEF changes
<1>3. IsFiniteSet(AnyPath)
  <2> DEFINE path == <<"evaluation", "train", "provenance", "validation", "manifest", "attestation", "extra", "stray">>
  <2>1. DOMAIN path = 1..8
    OBVIOUS
  <2>3. IsFiniteSet(1..8)
    BY <1>0
  <2>2. AnyPath = {path[n] : n \in 1..8}
    BY FourPayloads
  <2> HIDE DEF path
  <2> QED BY <2>1, <2>2, <2>3, ImageFinite
<1>4. IsFiniteSet(pieces)
  <2>1. pieces = {f[p] : p \in AnyPath} /\ DOMAIN f = AnyPath
    OBVIOUS
  <2> HIDE DEF pieces, f
  <2> QED BY <1>3, <2>1, ImageFinite
<1>5. IsFiniteSet(UNION pieces)
  BY <1>2, <1>4, FS_UNION
<1>6. UNION pieces # {}
  <2>1. PICK p \in AnyPath : tree[p].changes # 0
    BY DEF Pristine
  <2>2. 1 \in 1..tree[p].changes
    BY <1>1, <2>1
  <2>3. <<p, 1>> \in piece(p)
    BY <2>2
  <2> QED BY <2>1, <2>3
<1>7. Disturbed = Cardinality(UNION pieces)
  BY DEF Disturbed
<1> HIDE DEF pieces
<1>8. Cardinality(UNION pieces) \in Nat /\ Cardinality(UNION pieces) # 0
  BY <1>5, <1>6, FS_CardinalityType, FS_EmptySet
<1> QED BY <1>7, <1>8

SealedInv == ConstructedInv /\ BundleInv /\ SealedSoFar

\* What the verifier recomputes from the rows it read.
RowsAsExpected == IF rowSet.origin = "imported" THEN ImportedRowsHold ELSE RowsHold

LEMMA StatesOfBundle ==
  /\ Verifying \subseteq Written /\ "sealed" \in Written /\ "rejected" \in Written
  /\ \A s \in {"idle", "formatted", "validated", "failed"} : s \notin Written
BY DEF Written, Verifying

\* What happens before a bundle is read, or to its files.
LEMMA SealedByWriter ==
  ASSUME BundleInv, SealedSoFar, Validate \/ HandOverImported \/ Seal \/ Disturb \/ FormatOne
  PROVE  SealedSoFar'
<1>1. CASE Validate
  BY <1>1 DEF Validate, SealedSoFar, Written, Verifying
<1>2. CASE HandOverImported
  BY <1>2 DEF HandOverImported, SealedSoFar, Written, Verifying
<1>3. CASE FormatOne
  BY <1>3 DEF FormatOne, Format, SealedSoFar, Written, Verifying
<1>4. CASE Seal
  <2>1. /\ sealing' = "sealed" /\ manifest' = [p \in RowPaths |-> Len(Lines(p))] /\ CountsClose(manifest')
        /\ tree' = SealedTree /\ rowSet' = rowSet
    BY <1>4 DEF Seal, SealedTree
  <2>2. \A p : Lines(p)' = Lines(p)
    BY <2>1 DEF Lines
  <2>3. CountsClose(manifest)'
    BY <2>1 DEF CountsClose
  <2> QED BY <2>1, <2>2, <2>3 DEF SealedSoFar, Verifying
<1>5. CASE Disturb
  <2>1. /\ sealing \in {"sealed"} \cup Verifying /\ UNCHANGED <<sealing, rowSet, handed, manifest, look>>
        /\ \E p \in AnyPath, is \in {"sealed", "torn", "linked", "missing"} :
             tree' = [tree EXCEPT ![p] = [is |-> is, changes |-> @.changes + 1,
                                          moves |-> @.moves + IF "missing" \in {is, @.is} THEN 1 ELSE 0]]
    BY <1>5 DEF Disturb
  <2>2. ~Pristine'
    <3>1. PICK p \in AnyPath, is \in {"sealed", "torn", "linked", "missing"} :
            tree' = [tree EXCEPT ![p] = [is |-> is, changes |-> @.changes + 1,
                                         moves |-> @.moves + IF "missing" \in {is, @.is} THEN 1 ELSE 0]]
      BY <2>1
    <3>2. tree'[p].changes = tree[p].changes + 1 /\ tree[p].changes \in Nat
      BY <3>1 DEF BundleInv, TreeTyped, PathFacts
    <3>3. tree'[p].changes # 0
      BY <3>2
    <3> QED BY <3>3 DEF Pristine
  <2>3. \A p : Lines(p)' = Lines(p)
    BY <2>1 DEF Lines
  <2>4. CountsClose(manifest)' = CountsClose(manifest)
    BY <2>1 DEF CountsClose
  <2> QED BY <2>1, <2>2, <2>3, <2>4 DEF SealedSoFar
<1> QED BY <1>1, <1>2, <1>3, <1>4, <1>5

\* What the verifier recomputes of a constructed dataset is as it hopes.
LEMMA VerifierAccepts ==
  ASSUME SealedInv, sealing \in Verifying \ {"collecting"}
  PROVE  ReportPasses(handed) /\ RowsAsExpected
<1>1. sealing \in Written /\ sealing \notin {"idle", "formatted", "failed"} /\ phase = "done" /\ Bundled
  BY DEF SealedInv, ConstructedInv, RowsOfDataset, Verifying, Written
<1>2. handed = {} /\ Taught
  BY <1>1 DEF SealedInv, ConstructedInv, RowsOfDataset
<1>3. Unsatisfied = {} /\ rowSet.origin = "constructed"
  BY <1>1, <1>2, UnsatisfiedIs DEF SealedInv, ConstructedInv
<1>4. ReportPasses(handed)
  BY <1>2, <1>3, ReportIs DEF ReportPasses
<1>5. RowsHold
  BY <1>1, <1>2, RowsAlign DEF SealedInv, ConstructedInv
<1> QED BY <1>3, <1>4, <1>5 DEF RowsAsExpected

\* A step of the verifier that finds what it asks for, if what it recomputes is as it hopes.
LEMMA SealedByReader ==
  ASSUME BundleInv, SealedSoFar,
         sealing \in Verifying \ {"collecting"} => ReportPasses(handed) /\ RowsAsExpected,
         \/ StartVerify \/ Collect \/ Collected \/ ReadManifest \/ ReadAttestation \/ VerifyPayload \/ ReadReport
         \/ OpenRows \/ AlignRows \/ LookAgain \/ ReadManifestAgain \/ ReadAttestationAgain
  PROVE  SealedSoFar'
<1> DEFINE Reading == \/ ReadManifest \/ ReadAttestation \/ VerifyPayload \/ ReadReport \/ OpenRows \/ AlignRows
                      \/ LookAgain \/ ReadManifestAgain \/ ReadAttestationAgain
<1>1. /\ UNCHANGED <<rowSet, handed, manifest, tree>> /\ sealing \in Written /\ sealing # "rejected"
      /\ sealing' \in Written
  <2>1. CASE Collect
    BY <2>1 DEF Collect, ListFolder, StatEntry, Written, Verifying
  <2>2. CASE ~Collect
    BY <2>2 DEF StartVerify, Collected, ReadManifest, ReadAttestation, VerifyPayload, ReadReport, OpenRows, AlignRows,
                LookAgain, ReadManifestAgain, ReadAttestationAgain, VerifierStep, Written, Verifying
  <2> QED BY <2>1, <2>2
<1>2. /\ \A p : Lines(p)' = Lines(p)
      /\ CountsClose(manifest)' = CountsClose(manifest) /\ Pristine' = Pristine
  BY <1>1 DEF Lines, CountsClose, Pristine
<1>3. /\ CountsClose(manifest) /\ \A p \in RowPaths : manifest[p] = Len(Lines(p))
      /\ Pristine => tree = SealedTree
  BY <1>1 DEF SealedSoFar
<1> DEFINE AsSealed == /\ sealing' \in {"collecting", "closing"} => WalkSoFar'
                       /\ sealing' \in Verifying \ {"collecting"} => look'.stat = SealedFacts
                       /\ sealing' = "rejected" => look'.asked = "other"
<1>4. TreeTyped
  BY DEF BundleInv
<1>5. ASSUME Pristine, StartVerify PROVE AsSealed
  <2>1. PICK asked : look' = [look EXCEPT !.asked = asked, !.todo = StartWalk]
    BY <1>5 DEF StartVerify
  <2>2. look'.todo = {<<"list", "root">>}
    BY <1>4, <2>1 DEF TreeTyped, StartWalk
  <2>3. WalkSoFar'
    BY <2>2 DEF WalkSoFar, ToDo
  <2> QED BY <1>5, <2>3 DEF StartVerify
<1>6. ASSUME Pristine, Collect PROVE AsSealed
  <2>1. sealing \in {"collecting", "closing"} /\ WalkSoFar
    BY <1>1, <1>6 DEF SealedSoFar, Collect
  <2>2. WalkSoFar' /\ sealing' = sealing /\ look'.stat = look.stat
    BY <1>3, <1>4, <1>6, <2>1, SealedWalk
  <2> QED BY <1>6, <2>1, <2>2 DEF SealedSoFar
<1>7. ASSUME Pristine, Collected PROVE AsSealed
  <2>1. sealing = "collecting" /\ look.todo = {} /\ WalkSoFar
    BY <1>1, <1>7 DEF SealedSoFar, Collected, VerifierStep
  <2>2. look.found = SealedFacts
    BY <1>4, <2>1, SealedFound
  <2>3. look'.stat = SealedFacts
    BY <1>4, <1>7, <2>2 DEF Collected, TreeTyped
  <2>4. Metadata \subseteq Present(look.found)
    BY <2>2, SealedMetadata
  <2> QED BY <1>7, <2>1, <2>3, <2>4 DEF Collected, VerifierStep
<1>8. ASSUME Pristine, Reading PROVE AsSealed
  <2>1. sealing \in Verifying \ {"collecting"}
    BY <1>8 DEF ReadManifest, ReadAttestation, VerifyPayload, ReadReport, OpenRows, AlignRows, LookAgain,
                ReadManifestAgain, ReadAttestationAgain, VerifierStep, Verifying
  <2>2. /\ tree = SealedTree /\ look.stat = SealedFacts
        /\ CountsClose(manifest) /\ \A p \in RowPaths : Len(Lines(p)) = manifest[p]
        /\ ReportPasses(handed) /\ RowsAsExpected
    BY <1>8, <2>1, StatesOfBundle DEF SealedSoFar
  <2>3. /\ \A p \in BundlePaths : ReadsAsSealed(p)
        /\ Present(look.stat) = BundlePaths
        /\ RowPaths \subseteq BundlePaths /\ Metadata \subseteq BundlePaths
    BY <2>2, SealedReads
  <2>4. look'.stat = look.stat /\ look'.asked = look.asked /\ (sealing' = "closing" => look'.todo = {<<"list", "root">>})
    <3>1. CASE AlignRows
      BY <1>4, <3>1 DEF AlignRows, TreeTyped, StartWalk
    <3>2. CASE VerifyPayload
      BY <1>4, <3>2 DEF VerifyPayload, VerifierStep, TreeTyped
    <3>3. CASE ~AlignRows /\ ~VerifyPayload
      BY <1>8, <3>3 DEF ReadManifest, ReadAttestation, ReadReport, OpenRows, LookAgain,
                ReadManifestAgain, ReadAttestationAgain, VerifierStep
    <3> QED BY <3>1, <3>2, <3>3
  <2>5. sealing' = "closing" => WalkSoFar'
    BY <2>4 DEF WalkSoFar, ToDo
  <2>6. ASSUME sealing' = "rejected" PROVE look.asked = "other"
    <3>1. CASE ReadManifest
      BY <2>2, <2>3, <2>6, <3>1 DEF ReadManifest, VerifierStep, Metadata
    <3>2. CASE ReadAttestation
      BY <2>3, <2>6, <3>2 DEF ReadAttestation, VerifierStep, Metadata
    <3>3. CASE VerifyPayload
      <4>1. sealing = "payloads" /\ look.next \in 1..4
        BY <3>3 DEF VerifyPayload, VerifierStep, BundleInv, ReadAsCollected
      <4>2. Payloads[look.next] \in BundlePaths
        BY <4>1, FourPayloads
      <4>3. sealing' # "rejected"
        BY <2>2, <2>3, <3>3, <4>2 DEF VerifyPayload, VerifierStep
      <4> QED BY <2>6, <4>3
    <3>4. CASE ReadReport
      <4>1. "validation" \in BundlePaths
        BY FourPayloads
      <4> QED BY <2>2, <2>3, <2>6, <3>4, <4>1 DEF ReadReport, VerifierStep
    <3>5. CASE AlignRows
      BY <2>2, <2>3, <2>6, <3>5 DEF AlignRows, VerifierStep, RowsAsExpected
    <3>6. CASE OpenRows
      BY <2>3, <2>6, <3>6 DEF OpenRows, VerifierStep, ReadsAsSealed
    <3>7. CASE LookAgain
      <4>1. WalkSoFar /\ look.todo = {}
        BY <1>8, <3>7, <1>1 DEF LookAgain, VerifierStep, SealedSoFar
      <4>2. look.found = look.stat
        BY <1>4, <2>2, <4>1, SealedFound
      <4> QED BY <2>6, <3>7, <4>2 DEF LookAgain, VerifierStep
    <3>8. CASE ReadManifestAgain \/ ReadAttestationAgain
      BY <2>3, <2>6, <3>8 DEF ReadManifestAgain, ReadAttestationAgain, VerifierStep, Metadata
    <3> QED BY <1>8, <3>1, <3>2, <3>3, <3>4, <3>5, <3>6, <3>7, <3>8
  <2>7. sealing' # "collecting"
    BY <1>8 DEF ReadManifest, ReadAttestation, VerifyPayload, ReadReport, OpenRows, AlignRows, LookAgain,
                ReadManifestAgain, ReadAttestationAgain, VerifierStep
  <2> QED BY <2>2, <2>4, <2>5, <2>6, <2>7
<1>9. Pristine => AsSealed
  BY <1>5, <1>6, <1>7, <1>8
<1> HIDE DEF AsSealed, Reading
<1>10. SealedSoFar'
  <2>1. Pristine' => tree' = SealedTree
    BY <1>1, <1>2, <1>3
  <2> QED BY <1>1, <1>2, <1>3, <1>9, <2>1 DEF SealedSoFar, AsSealed
<1> QED BY <1>10

\* Every step of a bundle.
LEMMA SealedStep ==
  ASSUME BundleInv, SealedSoFar, [BundleNext \/ FormatOne]_bundleVars,
         sealing \in Verifying \ {"collecting"} => ReportPasses(handed) /\ RowsAsExpected
  PROVE  BundleInv' /\ SealedSoFar'
<1>1. BundleInv'
  BY BundleStep
<1>2. CASE BundleNext \/ FormatOne
  BY <1>1, <1>2, SealedByWriter, SealedByReader DEF BundleNext
<1>3. CASE UNCHANGED bundleVars
  <2>1. /\ \A p : Lines(p)' = Lines(p)
        /\ CountsClose(manifest)' = CountsClose(manifest) /\ Pristine' = Pristine
    BY <1>3 DEF Lines, CountsClose, Pristine, bundleVars
  <2>2. WalkSoFar' = WalkSoFar
    BY <1>3 DEF WalkSoFar, Ahead, ToDo, bundleVars
  <2> QED BY <1>1, <1>3, <2>1, <2>2 DEF SealedSoFar, bundleVars
<1> QED BY <1>2, <1>3

LEMMA SealedInvariance == ConstructedSpec => []SealedInv
<1>1. ConstructedInit => BundleInv /\ SealedSoFar
  BY InitBundle DEF ConstructedInit, BundleInit, SealedSoFar, Written, Verifying
<1>2. SealedInv /\ [ConstructedNext]_<<datasetVars, bundleVars, importing>> => BundleInv' /\ SealedSoFar'
  <2> SUFFICES ASSUME SealedInv, [ConstructedNext]_<<datasetVars, bundleVars, importing>>
               PROVE  BundleInv' /\ SealedSoFar'
    OBVIOUS
  <2>1. [BundleNext \/ FormatOne]_bundleVars
    BY DEF ConstructedNext, FormatOne
  <2>2. sealing \in Verifying \ {"collecting"} => ReportPasses(handed) /\ RowsAsExpected
    BY VerifierAccepts
  <2> QED BY <2>1, <2>2, SealedStep DEF SealedInv
<1> QED BY <1>1, <1>2, ConstructedInvariance, PTL DEF ConstructedSpec, SealedInv

\* The verifier accepts what passed the gates unless a file of it changes, and
\* the lines of the two parts then teach every included record once
\* (PipelineService.seal, verify_finished_bundle).
THEOREM SealedBundlesVerify == ConstructedSpec => []SealedVerifies
<1>1. SealedInv => SealedVerifies
  <2> SUFFICES ASSUME SealedInv PROVE SealedVerifies
    OBVIOUS
  <2> DEFINE all == rowSet.train \o rowSet.evaluation
  <2>1. sealing = "rejected" => Disturbed > 0 \/ look.asked = "other"
    BY SomethingDisturbed DEF SealedInv, SealedSoFar, BundleInv
  <2>2. ASSUME sealing = "verified"
        PROVE  /\ {row.record : row \in ToSet(all)} = Included /\ Len(rowSet.provenance) = Cardinality(Included)
               /\ \A row \in ToSet(all) :
                    Teaches(row.payload, rowSet.instruction, made[row.record].context, made[row.record].target)
               /\ \A d, e \in ToSet(rowSet.provenance) : d.part # e.part => d.sources \cap e.sources = {}
    <3>1. DatasetInv /\ SplitSound /\ phase = "done" /\ Bundled /\ Taught
      BY <2>2 DEF SealedInv, ConstructedInv, RowsOfDataset
    <3>2. PICK objective \in Objectives : \E schema \in SchemasOf(objective) : rowSet = Serialized(objective, schema)
      BY <3>1 DEF Bundled
    <3>3. PICK schema \in SchemasOf(objective) : rowSet = Serialized(objective, schema)
      BY <3>2
    <3>4. /\ EntriesHold(all, schema) /\ LinesHold(schema, Cardinality(Train), Cardinality(Evaluation), all)
          /\ PayloadsAreFields /\ RowsHold
      BY <3>1, <3>3, EntriesOfLines, LinesOfParts, RowsPass, RowsAlign
    <3> HIDE DEF all
    <3>5. {row.record : row \in ToSet(all)} = Included
      BY <3>4 DEF EntriesHold, ToSet
    <3>6. Len(rowSet.provenance) = Cardinality(Included)
      BY <3>4 DEF LinesHold
    <3>7. \A d, e \in ToSet(rowSet.provenance) : d.sources \cap e.sources # {} => d.part = e.part
      BY <3>4 DEF RowsHold
    <3> QED BY <3>4, <3>5, <3>6, <3>7 DEF PayloadsAreFields, all
  <2>3. sealing = "verified" => rowSet.origin = "constructed"
    <3>1. sealing = "verified" => phase = "done" /\ Bundled
      BY DEF SealedInv, ConstructedInv, RowsOfDataset
    <3> QED BY <3>1, SerializedIs DEF Bundled, RowSet
  <2> QED BY <2>1, <2>2, <2>3 DEF SealedVerifies
<1> QED BY <1>1, SealedInvariance, PTL
=============================================================================
