----------------------------- MODULE StoreProofs -----------------------------
(***************************************************************************)
(* Proofs about the parts of MCStore, for any contracts, blocks, requests, *)
(* limits and capacities.  ContentCache: its structures agree, and a body  *)
(* of an outdated version has an excuse.  ReadAPI: a client that pages to  *)
(* the end misses nothing that is not excused.  The store has its proofs   *)
(* in IndexStoreProofs.                                                    *)
(***************************************************************************)
EXTENDS MCStore, IndexStoreProofs

-----------------------------------------------------------------------------
(* Sums over finite sets, in whatever order they are taken.  A statement   *)
(* about every finite set is proved by way of a smallest counterexample.   *)

\* Of the finite sets of a collection, one has no smaller one beside it.
LEMMA SmallestSet ==
  ASSUME NEW C, C # {}, \A S \in C : IsFiniteSet(S)
  PROVE  \E S \in C : \A x \in S : S \ {x} \notin C
<1> DEFINE sizes == {Cardinality(S) : S \in C}
<1>1. \A S \in C : Cardinality(S) \in Nat
  BY FS_CardinalityType
<1>2. sizes \in SUBSET Nat /\ sizes # {}
  BY <1>1
<1>3. PICK n \in sizes : \A m \in sizes : n <= m
  BY <1>2, LeastNumber
<1>4. PICK S \in C : n = Cardinality(S)
  OBVIOUS
<1>5. ASSUME NEW x \in S, S \ {x} \in C PROVE FALSE
  <2>1. Cardinality(S \ {x}) = Cardinality(S) - 1
    BY FS_RemoveElement
  <2>2. n <= Cardinality(S \ {x})
    BY <1>3, <1>5
  <2> QED BY <1>1, <1>4, <2>1, <2>2
<1> QED BY <1>5

\* g is the sum of the weights w, over each part of S.
SumsTo(g, w, S) ==
  /\ g \in [SUBSET S -> Nat] /\ g[{}] = 0
  /\ \A s \in SUBSET S : \A x \in s : g[s] = w[x] + g[s \ {x}]

LEMMA SumExists ==
  ASSUME NEW S, IsFiniteSet(S), NEW w, \A x \in S : w[x] \in Nat
  PROVE  \E g : SumsTo(g, w, S)
<1> DEFINE C == {R \in SUBSET S : ~\E g : SumsTo(g, w, R)}
<1> SUFFICES ASSUME C # {} PROVE FALSE
  OBVIOUS
<1>1. \A R \in C : IsFiniteSet(R)
  BY FS_Subset
<1>2. PICK R \in C : \A x \in R : R \ {x} \notin C
  <2> HIDE DEF C
  <2> QED BY <1>1, SmallestSet
<1>3. CASE R = {}
  <2> DEFINE g == [s \in SUBSET {} |-> 0]
  <2>1. SumsTo(g, w, {})
    BY DEF SumsTo
  <2> QED BY <1>3, <2>1
<1>4. ASSUME NEW k \in R PROVE FALSE
  <2> DEFINE Q == R \ {k}
  <2>1. PICK g : SumsTo(g, w, Q)
    BY <1>2
  <2> DEFINE h == [s \in SUBSET R |-> IF k \in s THEN w[k] + g[s \ {k}] ELSE g[s]]
  <2>2. \A s \in SUBSET R : s \ {k} \in SUBSET Q /\ (k \notin s => s \in SUBSET Q)
    OBVIOUS
  <2>3. w[k] \in Nat /\ g \in [SUBSET Q -> Nat] /\ g[{}] = 0
    BY <2>1 DEF SumsTo
  <2>4. h \in [SUBSET R -> Nat] /\ h[{}] = 0
    BY <2>2, <2>3
  <2>5. ASSUME NEW s \in SUBSET R, NEW x \in s PROVE h[s] = w[x] + h[s \ {x}]
    <3> s \ {x} \in SUBSET R
      OBVIOUS
    <3>1. CASE x = k
      BY <3>1
    <3>2. CASE x # k /\ k \in s
      <4>1. g[s \ {k}] = w[x] + g[(s \ {k}) \ {x}]
        BY <2>1, <2>2, <3>2 DEF SumsTo
      <4>2. (s \ {k}) \ {x} = (s \ {x}) \ {k} /\ k \in s \ {x}
        BY <3>2
      <4>3. h[s] = w[k] + g[s \ {k}] /\ h[s \ {x}] = w[k] + g[(s \ {x}) \ {k}]
        BY <3>2, <4>2
      <4>4. w[x] \in Nat /\ g[(s \ {x}) \ {k}] \in Nat
        <5>1. (s \ {x}) \ {k} \in SUBSET Q
          OBVIOUS
        <5> QED BY <2>3, <5>1
      <4> DEFINE most == g[(s \ {x}) \ {k}]
      <4>5. g[s \ {k}] = w[x] + most
        BY <4>1, <4>2
      <4> HIDE DEF h, most
      <4>6. w[k] + (w[x] + most) = w[x] + (w[k] + most)
        BY <2>3, <4>4 DEF most
      <4>7. h[s] = w[k] + g[s \ {k}] /\ h[s \ {x}] = w[k] + most
        BY <4>3 DEF most
      <4> QED BY <4>5, <4>6, <4>7
    <3>3. CASE k \notin s
      <4>1. g[s] = w[x] + g[s \ {x}]
        BY <2>1, <2>2, <3>3 DEF SumsTo
      <4> QED BY <3>3, <4>1
    <3> QED BY <3>1, <3>2, <3>3
  <2>6. SumsTo(h, w, R)
    <3> HIDE DEF h
    <3> QED BY <2>4, <2>5 DEF SumsTo
  <2> QED BY <2>6
<1> QED BY <1>3, <1>4

\* A sum over a set is the sum over a part and over the rest.
LEMMA SumSplits ==
  ASSUME NEW S, IsFiniteSet(S), NEW w, NEW g, SumsTo(g, w, S), \A x \in S : w[x] \in Nat,
         NEW T \in SUBSET S
  PROVE  g[S] = g[T] + g[S \ T]
<1> DEFINE C == {R \in SUBSET S : ~(g[S] = g[R] + g[S \ R])}
<1> SUFFICES ASSUME C # {} PROVE FALSE
  OBVIOUS
<1>1. \A R \in C : IsFiniteSet(R)
  BY FS_Subset
<1>2. PICK R \in C : \A x \in R : R \ {x} \notin C
  <2> HIDE DEF C
  <2> QED BY <1>1, SmallestSet
<1>3. \A s \in SUBSET S : g[s] \in Nat
  BY DEF SumsTo
<1>4. CASE R = {}
  <2>1. S \ R = S /\ g[{}] = 0 /\ g[S] \in Nat
    BY <1>3, <1>4 DEF SumsTo
  <2> QED BY <1>4, <2>1
<1>5. ASSUME NEW x \in R PROVE FALSE
  <2>1. g[S] = g[R \ {x}] + g[S \ (R \ {x})]
    BY <1>2
  <2>2. g[R] = w[x] + g[R \ {x}]
    BY <1>5 DEF SumsTo
  <2>3. g[S \ (R \ {x})] = w[x] + g[S \ R]
    <3> DEFINE rest == S \ (R \ {x})
    <3>1. rest \in SUBSET S /\ x \in rest /\ rest \ {x} = S \ R
      OBVIOUS
    <3>2. \A s \in SUBSET S : \A y \in s : g[s] = w[y] + g[s \ {y}]
      BY DEF SumsTo
    <3> HIDE DEF rest
    <3>3. g[rest] = w[x] + g[S \ R]
      BY <3>1, <3>2
    <3> QED BY <3>3 DEF rest
  <2>4. g[R] \in Nat /\ g[R \ {x}] \in Nat /\ g[S \ R] \in Nat /\ w[x] \in Nat
    BY <1>3
  <2> HIDE DEF C
  <2>5. g[S] = g[R] + g[S \ R]
    BY <2>1, <2>2, <2>3, <2>4
  <2> QED BY <2>5 DEF C
<1> QED BY <1>4, <1>5

\* What a fold takes from a set, one element at a time.
PicksFrom(f, w, S) ==
  f[{}] = 0 /\ \A s \in (SUBSET S) \ {{}} : \E x \in s : f[s] = w[x] + f[s \ {x}]

LEMMA FoldSums ==
  ASSUME NEW S, IsFiniteSet(S), NEW w, NEW g, SumsTo(g, w, S),
         NEW f, PicksFrom(f, w, S)
  PROVE  \A s \in SUBSET S : f[s] = g[s]
<1> DEFINE C == {R \in SUBSET S : f[R] # g[R]}
<1>1. ASSUME C # {} PROVE FALSE
  <2>1. \A R \in C : IsFiniteSet(R)
    BY FS_Subset
  <2>2. PICK R \in C : \A x \in R : R \ {x} \notin C
    <3> HIDE DEF C
    <3> QED BY <1>1, <2>1, SmallestSet
  <2>3. CASE R = {}
    BY <2>3 DEF SumsTo, PicksFrom
  <2>4. CASE R # {}
    <3>1. PICK x \in R : f[R] = w[x] + f[R \ {x}]
      BY <2>4 DEF PicksFrom
    <3>2. g[R] = w[x] + g[R \ {x}]
      BY DEF SumsTo
    <3>3. f[R \ {x}] = g[R \ {x}]
      BY <2>2
    <3> QED BY <3>1, <3>2, <3>3
  <2> QED BY <2>3, <2>4
<1> QED BY <1>1

-----------------------------------------------------------------------------
(* The content cache.                                                      *)

LEMMA ToSetOf ==
  ASSUME NEW S, NEW q \in Seq(S), NEW e \in S
  PROVE  /\ Content!ToSet(Append(q, e)) = Content!ToSet(q) \union {e}
         /\ q # <<>> => /\ Head(q) \in S /\ Tail(q) \in Seq(S) /\ Len(Tail(q)) < Len(q)
                        /\ Content!ToSet(q) = {Head(q)} \union Content!ToSet(Tail(q))
         /\ Content!ToSet(<<>>) = {}
<1>1. Content!ToSet(Append(q, e)) = Content!ToSet(q) \union {e}
  <2>1. /\ Append(q, e) \in Seq(S) /\ Len(Append(q, e)) = Len(q) + 1 /\ Len(q) \in Nat
        /\ \A i \in 1..Len(q) : Append(q, e)[i] = q[i]
        /\ Append(q, e)[Len(q) + 1] = e
    OBVIOUS
  <2>2. DOMAIN Append(q, e) = 1..(Len(q) + 1) /\ DOMAIN q = 1..Len(q)
    BY <2>1
  <2>3. 1..(Len(q) + 1) = 1..Len(q) \union {Len(q) + 1}
    BY <2>1
  <2> QED BY <2>1, <2>2, <2>3 DEF Content!ToSet
<1>2. ASSUME q # <<>>
      PROVE  /\ Head(q) \in S /\ Tail(q) \in Seq(S) /\ Len(Tail(q)) < Len(q)
             /\ Content!ToSet(q) = {Head(q)} \union Content!ToSet(Tail(q))
  <2>1. /\ Len(q) \in Nat /\ Len(q) > 0 /\ Tail(q) \in Seq(S) /\ Len(Tail(q)) = Len(q) - 1
        /\ Head(q) = q[1] /\ \A i \in 1..(Len(q) - 1) : Tail(q)[i] = q[i + 1]
    BY <1>2
  <2>2. DOMAIN q = 1..Len(q) /\ DOMAIN Tail(q) = 1..(Len(q) - 1)
    BY <2>1
  <2>3. ASSUME NEW x \in Content!ToSet(q)
        PROVE  x \in {Head(q)} \union Content!ToSet(Tail(q))
    <3>1. PICK i \in 1..Len(q) : x = q[i]
      BY <2>2 DEF Content!ToSet
    <3>2. CASE i # 1
      <4>1. i - 1 \in 1..(Len(q) - 1) /\ (i - 1) + 1 = i
        BY <2>1, <3>2
      <4>2. Tail(q)[i - 1] = q[i]
        BY <2>1, <4>1
      <4> QED BY <2>2, <3>1, <4>1, <4>2 DEF Content!ToSet
    <3> QED BY <2>1, <3>1, <3>2
  <2>4. ASSUME NEW x \in {Head(q)} \union Content!ToSet(Tail(q))
        PROVE  x \in Content!ToSet(q)
    <3>1. CASE x = Head(q)
      BY <2>1, <2>2, <3>1 DEF Content!ToSet
    <3>2. CASE x \in Content!ToSet(Tail(q))
      <4>1. PICK i \in 1..(Len(q) - 1) : x = Tail(q)[i]
        BY <2>2, <3>2 DEF Content!ToSet
      <4>2. i + 1 \in 1..Len(q) /\ x = q[i + 1]
        BY <2>1, <4>1
      <4> QED BY <2>2, <4>2 DEF Content!ToSet
    <3> QED BY <2>4, <3>1, <3>2
  <2>5. Head(q) \in S
    BY <2>1
  <2> QED BY <2>1, <2>3, <2>4, <2>5
<1>3. Content!ToSet(<<>>) = {}
  BY DEF Content!ToSet
<1> QED BY <1>1, <1>2, <1>3

\* The weight of some entries is the sum of their bodies' sizes, taken in any
\* order, and depends on nothing but those entries.
LEMMA WeightIs ==
  ASSUME NEW S, IsFiniteSet(S), NEW w, NEW g, SumsTo(g, w, S),
         NEW e, \A k \in S : w[k] = Content!Bytes(e[k])
  PROVE  Content!Weight(e, S) = g[S]
<1> DEFINE pick(s) == CHOOSE x \in s : TRUE
           IsIter(f) == f = [s \in SUBSET S |->
                               IF s = {} THEN 0
                               ELSE Content!Bytes(e[CHOOSE x \in s : TRUE])
                                      + f[s \ {CHOOSE x \in s : TRUE}]]
<1>1. \A s \in SUBSET S : s # {} => pick(s) \in s /\ w[pick(s)] = Content!Bytes(e[pick(s)])
  OBVIOUS
<1>2. IsIter(g)
  <2>1. \A s \in SUBSET S :
          g[s] = IF s = {} THEN 0 ELSE Content!Bytes(e[pick(s)]) + g[s \ {pick(s)}]
    BY <1>1 DEF SumsTo
  <2>2. g = [s \in SUBSET S |-> g[s]]
    BY DEF SumsTo
  <2> QED BY <2>1, <2>2
<1>3. ASSUME NEW f, IsIter(f) PROVE f = g
  <2>0. f = [s \in SUBSET S |-> f[s]]
    BY <1>3
  <2>1. f[{}] = 0
    BY <1>3
  <2>2. ASSUME NEW s \in (SUBSET S) \ {{}} PROVE f[s] = w[pick(s)] + f[s \ {pick(s)}]
    BY <1>1, <1>3
  <2>3. PicksFrom(f, w, S)
    BY <1>1, <2>1, <2>2 DEF PicksFrom
  <2>4. \A s \in SUBSET S : f[s] = g[s]
    <3> HIDE DEF IsIter
    <3> QED BY <2>3, FoldSums
  <2>5. g = [s \in SUBSET S |-> g[s]]
    BY DEF SumsTo
  <2> QED BY <2>0, <2>4, <2>5
<1>4. Content!Weight(e, S) = (CHOOSE f : IsIter(f))[S]
  BY DEF Content!Weight, Content!MapThenSumSet, Content!MapThenFoldSet
<1>5. (CHOOSE f : IsIter(f)) = g
  <2> HIDE DEF IsIter
  <2> QED BY <1>2, <1>3
<1> QED BY <1>4, <1>5

LEMMA WeightLaws ==
  ASSUME NEW S, IsFiniteSet(S), NEW e, \A k \in S : e[k] \in Nat
  PROVE  /\ \A T \in SUBSET S :
              /\ Content!Weight(e, T) \in Nat
              /\ Content!Weight(e, S) = Content!Weight(e, T) + Content!Weight(e, S \ T)
         /\ \A k \in S : Content!Weight(e, {k}) = Content!Bytes(e[k])
         /\ Content!Weight(e, {}) = 0
         /\ \A d : (\A k \in S : d[k] = e[k]) => Content!Weight(d, S) = Content!Weight(e, S)
<1> DEFINE w == [k \in S |-> Content!Bytes(e[k])]
<1>1. \A k \in S : w[k] \in Nat /\ w[k] = Content!Bytes(e[k])
  BY DEF Content!Bytes
<1> HIDE DEF w
<1>2. PICK g : SumsTo(g, w, S)
  BY <1>1, SumExists
<1>3. ASSUME NEW T \in SUBSET S, NEW d, \A k \in T : d[k] = e[k]
      PROVE  Content!Weight(d, T) = g[T]
  <2> DEFINE some == [s \in SUBSET T |-> g[s]]
  <2>1. IsFiniteSet(T)
    BY FS_Subset
  <2>2. SumsTo(some, w, T)
    BY <1>2 DEF SumsTo
  <2>3. \A k \in T : w[k] = Content!Bytes(d[k])
    BY <1>1, <1>3 DEF Content!Bytes
  <2>4. some[T] = g[T]
    OBVIOUS
  <2> HIDE DEF some
  <2> QED BY <2>1, <2>2, <2>3, <2>4, WeightIs
<1>4. ASSUME NEW T \in SUBSET S
      PROVE  /\ Content!Weight(e, T) \in Nat
             /\ Content!Weight(e, S) = Content!Weight(e, T) + Content!Weight(e, S \ T)
  <2>0. g[T] \in Nat
    BY <1>2 DEF SumsTo
  <2>1. g[S] = g[T] + g[S \ T]
    BY <1>1, <1>2, SumSplits
  <2>2. Content!Weight(e, T) = g[T] /\ Content!Weight(e, S) = g[S]
        /\ Content!Weight(e, S \ T) = g[S \ T]
    BY <1>3
  <2> QED BY <2>0, <2>1, <2>2
<1>5. ASSUME NEW k \in S PROVE Content!Weight(e, {k}) = Content!Bytes(e[k])
  <2>1. {k} \in SUBSET S /\ {k} \ {k} = {}
    OBVIOUS
  <2>2. g[{k}] = w[k] + g[{}] /\ g[{}] = 0
    BY <1>2, <2>1 DEF SumsTo
  <2>3. Content!Weight(e, {k}) = g[{k}]
    BY <1>3, <2>1
  <2> QED BY <1>1, <2>2, <2>3
<1>6. Content!Weight(e, {}) = 0
  <2>1. g[{}] = 0
    BY <1>2 DEF SumsTo
  <2>2. Content!Weight(e, {}) = g[{}]
    BY <1>3
  <2> QED BY <2>1, <2>2
<1>7. ASSUME NEW d, \A k \in S : d[k] = e[k]
      PROVE  Content!Weight(d, S) = Content!Weight(e, S)
  <2>1. Content!Weight(d, S) = g[S]
    BY <1>3, <1>7
  <2>2. Content!Weight(e, S) = g[S]
    BY <1>3
  <2> QED BY <2>1, <2>2
<1> QED BY <1>4, <1>5, <1>6, <1>7

-----------------------------------------------------------------------------
(* The ring of the cache.                                                  *)

\* A sequence that holds each member of a set once.
HoldsOnce(q, A) ==
  /\ q \in Seq(A)
  /\ \A x \in A : \E i \in 1..Len(q) : q[i] = x
  /\ \A i, j \in 1..Len(q) : q[i] = q[j] => i = j

LEMMA HoldsMore ==
  ASSUME NEW A, NEW q, HoldsOnce(q, A), NEW x, x \notin A
  PROVE  HoldsOnce(Append(q, x), A \union {x})
<1> DEFINE p == Append(q, x)
<1>1. q \in Seq(A) /\ q \in Seq(A \union {x}) /\ Len(q) \in Nat
  BY DEF HoldsOnce
<1>2. /\ p \in Seq(A \union {x}) /\ Len(p) = Len(q) + 1 /\ p[Len(q) + 1] = x
      /\ \A i \in 1..Len(q) : p[i] = q[i] /\ q[i] \in A
  BY <1>1
<1> HIDE DEF p
<1>3. ASSUME NEW y \in A \union {x} PROVE \E i \in 1..Len(p) : p[i] = y
  <2>1. CASE y = x
    BY <1>1, <1>2, <2>1
  <2>2. CASE y \in A
    <3>1. PICK i \in 1..Len(q) : q[i] = y
      BY <2>2 DEF HoldsOnce
    <3>2. i \in 1..Len(p) /\ p[i] = y
      BY <1>1, <1>2, <3>1
    <3> QED BY <3>2
  <2> QED BY <2>1, <2>2
<1>4. ASSUME NEW i \in 1..Len(p), NEW j \in 1..Len(p), p[i] = p[j] PROVE i = j
  <2>1. (i \in 1..Len(q) \/ i = Len(q) + 1) /\ (j \in 1..Len(q) \/ j = Len(q) + 1)
    BY <1>1, <1>2
  <2> QED BY <1>2, <1>4, <2>1 DEF HoldsOnce
<1> QED BY <1>2, <1>3, <1>4 DEF HoldsOnce, p

LEMMA HoldsFront ==
  ASSUME NEW A, NEW q, HoldsOnce(q, A), NEW x, x \notin A
  PROVE  HoldsOnce(<<x>> \o q, A \union {x})
<1> DEFINE p == <<x>> \o q
<1>1. q \in Seq(A) /\ q \in Seq(A \union {x}) /\ <<x>> \in Seq(A \union {x}) /\ Len(q) \in Nat
  BY DEF HoldsOnce
<1>2. /\ p \in Seq(A \union {x}) /\ Len(p) = Len(q) + 1 /\ p[1] = x
      /\ \A i \in 1..Len(q) : p[i + 1] = q[i] /\ q[i] \in A
  BY <1>1
<1> HIDE DEF p
<1>3. ASSUME NEW y \in A \union {x} PROVE \E i \in 1..Len(p) : p[i] = y
  <2>1. CASE y = x
    BY <1>1, <1>2, <2>1
  <2>2. CASE y \in A
    <3>1. PICK i \in 1..Len(q) : q[i] = y
      BY <2>2 DEF HoldsOnce
    <3>2. i + 1 \in 1..Len(p) /\ p[i + 1] = y
      BY <1>1, <1>2, <3>1
    <3> QED BY <3>2
  <2> QED BY <2>1, <2>2
<1>4. ASSUME NEW i \in 1..Len(p), NEW j \in 1..Len(p), p[i] = p[j] PROVE i = j
  <2>1. \A m \in 1..Len(p) : m # 1 => m - 1 \in 1..Len(q) /\ p[m] = q[m - 1]
    <3> SUFFICES ASSUME NEW m \in 1..Len(p), m # 1
                 PROVE  m - 1 \in 1..Len(q) /\ p[m] = q[m - 1]
      OBVIOUS
    <3>1. m - 1 \in 1..Len(q) /\ (m - 1) + 1 = m
      BY <1>1, <1>2
    <3> QED BY <1>2, <3>1
  <2>2. CASE i = 1 \/ j = 1
    BY <1>2, <1>4, <2>1, <2>2
  <2>3. CASE i # 1 /\ j # 1
    <3>1. /\ i - 1 \in 1..Len(q) /\ j - 1 \in 1..Len(q)
          /\ q[i - 1] = q[j - 1]
      BY <1>4, <2>1, <2>3
    <3>2. \A l, m \in 1..Len(q) : q[l] = q[m] => l = m
      BY DEF HoldsOnce
    <3>3. i - 1 = j - 1
      BY <3>1, <3>2
    <3> QED BY <3>3
  <2> QED BY <2>2, <2>3
<1> QED BY <1>2, <1>3, <1>4 DEF HoldsOnce, p

\* Cut at some length, it holds what was not beyond.
LEMMA HoldsHead ==
  ASSUME NEW A, NEW q, HoldsOnce(q, A), NEW n \in 0..Len(q)
  PROVE  HoldsOnce(SubSeq(q, 1, n), A \ {q[i] : i \in (n + 1)..Len(q)})
<1> DEFINE p == SubSeq(q, 1, n)
           gone == {q[i] : i \in (n + 1)..Len(q)}
<1>1. q \in Seq(A) /\ Len(q) \in Nat /\ n \in Nat /\ n <= Len(q)
  BY DEF HoldsOnce
<1>2. Len(p) = n /\ \A i \in 1..n : p[i] = q[i]
  BY <1>1
<1>3. \A i \in 1..n : q[i] \in A \ gone
  <2> SUFFICES ASSUME NEW i \in 1..n PROVE q[i] \in A \ gone
    OBVIOUS
  <2>1. i \in 1..Len(q)
    BY <1>1
  <2>2. ASSUME NEW j \in (n + 1)..Len(q), q[j] = q[i] PROVE FALSE
    BY <1>1, <2>1, <2>2 DEF HoldsOnce
  <2> QED BY <1>1, <2>1, <2>2
<1>4. p \in Seq(A \ gone)
  <2>1. p = [i \in 1..n |-> q[i]]
    BY <1>1
  <2>2. [i \in 1..n |-> q[i]] \in Seq(A \ gone)
    BY <1>1, <1>3
  <2> QED BY <2>1, <2>2
<1>5. ASSUME NEW x \in A \ gone PROVE \E i \in 1..n : p[i] = x
  <2>1. PICK i \in 1..Len(q) : q[i] = x
    BY DEF HoldsOnce
  <2>2. i \in 1..n
    BY <1>1, <2>1
  <2> QED BY <1>2, <2>1, <2>2
<1>6. \A i, j \in 1..n : p[i] = p[j] => i = j
  <2>1. \A i \in 1..n : i \in 1..Len(q)
    BY <1>1
  <2> QED BY <1>2, <2>1 DEF HoldsOnce
<1> HIDE DEF p, gone
<1>7. HoldsOnce(p, A \ gone)
  BY <1>2, <1>4, <1>5, <1>6 DEF HoldsOnce
<1> QED BY <1>7 DEF p, gone

LEMMA HoldsCount ==
  ASSUME NEW A, NEW q, HoldsOnce(q, A)
  PROVE  IsFiniteSet(A) /\ Content!ToSet(q) = A /\ Len(q) = Content!Cardinality(A)
<1>1. q \in [1..Len(q) -> A] /\ Len(q) \in Nat /\ DOMAIN q = 1..Len(q)
  BY DEF HoldsOnce
<1>2. q \in Bijection(1..Len(q), A)
  <2>1. q \in Injection(1..Len(q), A)
    BY <1>1 DEF HoldsOnce, Injection, IsInjective
  <2>2. q \in Surjection(1..Len(q), A)
    BY <1>1 DEF HoldsOnce, Surjection
  <2> QED BY <2>1, <2>2 DEF Bijection
<1>3. ExistsBijection(1..Len(q), A)
  BY <1>2 DEF ExistsBijection
<1>4. IsFiniteSet(A) /\ Cardinality(A) = Len(q)
  BY <1>1, <1>3, FS_NatBijection, FS_CountingElements
<1>5. Content!Cardinality(A) = Cardinality(A)
  BY DEF Content!Cardinality, Cardinality
<1>6. Content!ToSet(q) = A
  BY <1>1 DEF Content!ToSet, HoldsOnce
<1> QED BY <1>4, <1>5, <1>6

\* A function defined step by step over 0..n exists.
StepsFrom(f, base, step, n) ==
  f[0] = base /\ \A i \in 1..n : f[i] = step[<<i, f[i - 1]>>]

LEMMA StepsExist ==
  ASSUME NEW n \in Nat, NEW T, NEW base \in T, NEW step \in [(1..n) \X T -> T]
  PROVE  \E f \in [0..n -> T] : StepsFrom(f, base, step, n)
<1> DEFINE C == {m \in 0..n : ~\E f \in [0..m -> T] : StepsFrom(f, base, step, m)}
<1> SUFFICES ASSUME C # {} PROVE FALSE
  OBVIOUS
<1>1. PICK m \in C : \A l \in C : m <= l
  <2>1. C \in SUBSET Nat
    OBVIOUS
  <2> HIDE DEF C
  <2> QED BY <2>1, LeastNumber
<1>2. CASE m = 0
  <2> DEFINE f == [i \in 0..0 |-> base]
  <2>1. f \in [0..0 -> T] /\ StepsFrom(f, base, step, 0)
    BY DEF StepsFrom
  <2> QED BY <1>2, <2>1
<1>3. CASE m # 0
  <2>1. m \in Nat /\ m - 1 \in 0..n /\ m \in 1..n /\ ~(m <= m - 1)
    BY <1>3
  <2>2. PICK f \in [0..(m - 1) -> T] : StepsFrom(f, base, step, m - 1)
    BY <1>1, <2>1
  <2> DEFINE g == [i \in 0..m |-> IF i = m THEN step[<<m, f[m - 1]>>] ELSE f[i]]
  <2>3. step[<<m, f[m - 1]>>] \in T
    <3>1. f[m - 1] \in T
      BY <2>1
    <3> QED BY <2>1, <3>1
  <2>4. g \in [0..m -> T]
    <3>1. \A i \in 0..m : i # m => i \in 0..(m - 1)
      BY <2>1
    <3> QED BY <2>3, <3>1
  <2>5. StepsFrom(g, base, step, m)
    <3>1. g[0] = base
      BY <1>3, <2>1, <2>2 DEF StepsFrom
    <3>2. ASSUME NEW i \in 1..m PROVE g[i] = step[<<i, g[i - 1]>>]
      <4>1. i - 1 \in 0..m /\ i - 1 # m /\ i \in 0..m
        BY <2>1
      <4>2. g[i - 1] = f[i - 1]
        BY <4>1
      <4>3. CASE i = m
        BY <4>1, <4>2, <4>3
      <4>4. CASE i # m
        <5>1. i \in 1..(m - 1)
          BY <2>1, <4>4
        <5>2. g[i] = f[i] /\ f[i] = step[<<i, f[i - 1]>>]
          BY <2>2, <4>1, <4>4, <5>1 DEF StepsFrom
        <5> QED BY <4>2, <5>2
      <4> QED BY <4>3, <4>4
    <3> HIDE DEF g
    <3> QED BY <3>1, <3>2 DEF StepsFrom
  <2> HIDE DEF g
  <2>6. \E h \in [0..m -> T] : StepsFrom(h, base, step, m)
    BY <2>4, <2>5
  <2> QED BY <2>6
<1> QED BY <1>2, <1>3

\* Entries taken out of the ring leave the others in it.
LEMMA RingRest ==
  ASSUME NEW D, HoldsOnce(ring, D), NEW S
  PROVE  HoldsOnce(Content!RingWithout(S), D \ S)
<1> DEFINE n == Len(ring)
           T == Seq(D)
           step == [p \in (1..n) \X T |->
                      IF ring[p[1]] \in S THEN p[2] ELSE Append(p[2], ring[p[1]])]
           IsRest(f) == f = [m \in 0..n |->
                               IF m = 0 THEN <<>>
                               ELSE IF ring[m] \in S THEN f[m - 1] ELSE Append(f[m - 1], ring[m])]
<1>1. n \in Nat /\ ring \in Seq(D) /\ \A i \in 1..n : ring[i] \in D
  BY DEF HoldsOnce
<1>2. step \in [(1..n) \X T -> T]
  <2>1. ASSUME NEW p \in (1..n) \X T PROVE step[p] \in T
    <3>1. p[1] \in 1..n /\ p[2] \in T
      OBVIOUS
    <3> QED BY <1>1, <3>1
  <2> QED BY <2>1
<1>3. \E f : IsRest(f)
  <2>1. PICK f \in [0..n -> T] : StepsFrom(f, <<>>, step, n)
    <3>1. <<>> \in T
      OBVIOUS
    <3> HIDE DEF T, step, n
    <3> QED BY <1>1, <1>2, <3>1, StepsExist
  <2>2. ASSUME NEW m \in 0..n
        PROVE  f[m] = IF m = 0 THEN <<>>
                      ELSE IF ring[m] \in S THEN f[m - 1] ELSE Append(f[m - 1], ring[m])
    <3>1. CASE m = 0
      BY <2>1, <3>1 DEF StepsFrom
    <3>2. CASE m # 0
      <4>1. m \in 1..n /\ m - 1 \in 0..n
        BY <1>1, <3>2
      <4>2. f[m] = step[<<m, f[m - 1]>>] /\ f[m - 1] \in T
        BY <2>1, <4>1 DEF StepsFrom
      <4> QED BY <3>2, <4>1, <4>2
    <3> QED BY <3>1, <3>2
  <2>3. f = [m \in 0..n |-> f[m]]
    OBVIOUS
  <2>4. IsRest(f)
    BY <2>2, <2>3
  <2> HIDE DEF IsRest
  <2> QED BY <2>4
<1> DEFINE rest == CHOOSE f : IsRest(f)
<1>4. IsRest(rest)
  <2> HIDE DEF IsRest
  <2> QED BY <1>3
<1>5. Content!RingWithout(S) = rest[n]
  BY DEF Content!RingWithout
<1> HIDE DEF rest
<1>6. /\ rest[0] = <<>>
      /\ \A m \in 1..n : rest[m] = IF ring[m] \in S THEN rest[m - 1]
                                   ELSE Append(rest[m - 1], ring[m])
  <2>1. 0 \in 0..n /\ \A m \in 1..n : m \in 0..n /\ m # 0
    BY <1>1
  <2>2. rest[0] = <<>>
    BY <1>4, <2>1
  <2>3. ASSUME NEW m \in 1..n
        PROVE  rest[m] = IF ring[m] \in S THEN rest[m - 1] ELSE Append(rest[m - 1], ring[m])
    BY <1>4, <2>1
  <2> QED BY <2>2, <2>3
<1> DEFINE left(m) == {ring[i] : i \in 1..m} \ S
           C == {m \in 0..n : ~HoldsOnce(rest[m], left(m))}
<1>7. ASSUME C # {} PROVE FALSE
  <2>1. PICK m \in C : \A l \in C : m <= l
    <3>1. C \in SUBSET Nat
      BY <1>1
    <3> HIDE DEF C
    <3> QED BY <1>7, <3>1, LeastNumber
  <2>2. CASE m = 0
    <3>1. left(0) = {}
      OBVIOUS
    <3>2. HoldsOnce(<<>>, {})
      BY DEF HoldsOnce
    <3> QED BY <1>6, <2>2, <3>1, <3>2
  <2>3. CASE m # 0
    <3>1. m \in 1..n /\ m - 1 \in 0..n /\ ~(m <= m - 1)
      BY <1>1, <2>3
    <3>2. HoldsOnce(rest[m - 1], left(m - 1))
      BY <2>1, <3>1
    <3>3. 1..m = 1..(m - 1) \union {m}
      BY <3>1
    <3>4. CASE ring[m] \in S
      <4>1. left(m) = left(m - 1)
        BY <3>3, <3>4
      <4> QED BY <1>6, <3>1, <3>2, <3>4, <4>1
    <3>5. CASE ring[m] \notin S
      <4>1. left(m) = left(m - 1) \union {ring[m]}
        BY <3>3, <3>5
      <4>2. ring[m] \notin left(m - 1)
        <5>1. ASSUME NEW i \in 1..(m - 1), ring[i] = ring[m] PROVE FALSE
          <6>1. i \in 1..n /\ i # m
            BY <3>1
          <6> QED BY <3>1, <5>1, <6>1 DEF HoldsOnce
        <5> QED BY <5>1
      <4>3. rest[m] = Append(rest[m - 1], ring[m])
        BY <1>6, <3>1, <3>5
      <4> HIDE DEF left
      <4>4. HoldsOnce(rest[m], left(m - 1) \union {ring[m]})
        BY <3>2, <4>2, <4>3, HoldsMore
      <4> QED BY <4>1, <4>4
    <3> QED BY <3>4, <3>5
  <2> QED BY <2>2, <2>3
<1>8. HoldsOnce(rest[n], left(n))
  <2>1. n \in 0..n
    BY <1>1
  <2> QED BY <1>7, <2>1
<1>9. left(n) = D \ S
  <2>1. {ring[i] : i \in 1..n} = D
    BY <1>1 DEF HoldsOnce
  <2> QED BY <2>1
<1> QED BY <1>5, <1>8, <1>9

\* The index by contract and the entries, whatever holds them.
Agree(entries, index) ==
  \A s \in Content!Docs :
    LET keys == Content!KeysOf(s) \intersect DOMAIN entries
    IN  IF keys = {} THEN s \notin DOMAIN index
        ELSE s \in DOMAIN index /\ index[s] = keys

LEMMA AgreePut ==
  ASSUME NEW entries, NEW index, Agree(entries, index), NEW k \in Keys, NEW v
  PROVE  Agree(Content!Put(entries, k, v),
               Content!Put(index, k.scid,
                 {k} \union (IF k.scid \in DOMAIN index THEN index[k.scid] ELSE {})))
<1> DEFINE after == Content!Put(entries, k, v)
           held == {k} \union (IF k.scid \in DOMAIN index THEN index[k.scid] ELSE {})
           listed == Content!Put(index, k.scid, held)
<1>1. DOMAIN after = DOMAIN entries \union {k} /\ DOMAIN listed = DOMAIN index \union {k.scid}
  BY DEF Content!Put
<1>2. listed[k.scid] = held /\ \A s \in DOMAIN index : s # k.scid => listed[s] = index[s]
  BY DEF Content!Put
<1>3. k.scid \in Content!Docs /\ k \in Content!KeysOf(k.scid)
  BY DEF Content!Docs, Content!KeysOf
<1>4. held = Content!KeysOf(k.scid) \intersect DOMAIN after
  BY <1>1, <1>3 DEF Agree
<1>5. ASSUME NEW s \in Content!Docs, s # k.scid
      PROVE  Content!KeysOf(s) \intersect DOMAIN after
               = Content!KeysOf(s) \intersect DOMAIN entries
  BY <1>1, <1>5 DEF Content!KeysOf
<1> HIDE DEF after, held, listed
<1>6. Agree(after, listed)
  BY <1>1, <1>2, <1>3, <1>4, <1>5 DEF Agree
<1> QED BY <1>6 DEF after, held, listed

LEMMA AgreeRemove ==
  ASSUME NEW entries, NEW index, Agree(entries, index), NEW gone
  PROVE  Agree(Content!Without(entries, gone), Content!IndexRemove(index, gone))
<1> DEFINE left == Content!Without(entries, gone)
           listed == Content!IndexRemove(index, gone)
<1>1. DOMAIN left = DOMAIN entries \ gone
  BY DEF Content!Without
<1>2. /\ DOMAIN listed = {t \in DOMAIN index : index[t] \ gone # {}}
      /\ \A t \in DOMAIN listed : listed[t] = index[t] \ gone
  BY DEF Content!IndexRemove
<1> HIDE DEF left, listed
<1>3. ASSUME NEW s \in Content!Docs
      PROVE  LET keys == Content!KeysOf(s) \intersect DOMAIN left
             IN  IF keys = {} THEN s \notin DOMAIN listed
                 ELSE s \in DOMAIN listed /\ listed[s] = keys
  <2> DEFINE keys == Content!KeysOf(s) \intersect DOMAIN entries
  <2>1. Content!KeysOf(s) \intersect DOMAIN left = keys \ gone
    BY <1>1
  <2>2. CASE keys = {}
    <3>1. s \notin DOMAIN index
      BY <2>2 DEF Agree
    <3> QED BY <1>2, <2>1, <2>2, <3>1
  <2>3. CASE keys # {}
    <3>1. s \in DOMAIN index /\ index[s] = keys
      BY <2>3 DEF Agree
    <3> HIDE DEF keys
    <3> QED BY <1>2, <2>1, <3>1
  <2> QED BY <2>2, <2>3
<1>4. Agree(left, listed)
  BY <1>3 DEF Agree
<1> QED BY <1>4 DEF left, listed

\* InvalidatePrefix drops exactly the entries of the contract.
LEMMA AgreeDrop ==
  ASSUME Agree(items, byScid), NEW s \in Content!Docs
  PROVE  /\ Agree(Content!LruDrop(s).items, Content!LruDrop(s).byScid)
         /\ Content!LruDrop(s).items = Content!Without(items, Content!KeysOf(s))
<1> DEFINE gone == IF s \in DOMAIN byScid THEN byScid[s] \intersect DOMAIN items ELSE {}
<1>1. gone = Content!KeysOf(s) \intersect DOMAIN items
  BY DEF Agree
<1>2. /\ Content!LruDrop(s).items = Content!Without(items, gone)
      /\ Content!LruDrop(s).byScid = Content!Without(byScid, {s})
  BY DEF Content!LruDrop
<1> HIDE DEF gone
<1>3. Content!Without(items, gone) = Content!Without(items, Content!KeysOf(s))
  BY <1>1 DEF Content!Without
<1>4. /\ DOMAIN Content!Without(items, Content!KeysOf(s)) = DOMAIN items \ Content!KeysOf(s)
      /\ DOMAIN Content!Without(byScid, {s}) = DOMAIN byScid \ {s}
      /\ \A t \in DOMAIN byScid \ {s} : Content!Without(byScid, {s})[t] = byScid[t]
  BY DEF Content!Without
<1>5. \A t \in Content!Docs : t # s =>
        Content!KeysOf(t) \intersect (DOMAIN items \ Content!KeysOf(s))
          = Content!KeysOf(t) \intersect DOMAIN items
  BY DEF Content!KeysOf
<1>6. Agree(Content!Without(items, Content!KeysOf(s)), Content!Without(byScid, {s}))
  BY <1>4, <1>5 DEF Agree
<1> QED BY <1>2, <1>3, <1>6

\* Put adds the entry, and drops some for it.
LEMMA PutShape ==
  ASSUME NEW k, NEW v
  PROVE  \E gone :
           /\ Content!LruPut(k, v).items = Content!Without(Content!Put(items, k, v), gone)
           /\ Content!LruPut(k, v).byScid = Content!IndexRemove(
                Content!Put(byScid, k.scid,
                  {k} \union (IF k.scid \in DOMAIN byScid THEN byScid[k.scid] ELSE {})), gone)
<1> DEFINE old == IF k \in DOMAIN items THEN Content!Bytes(items[k]) ELSE 0
           c == [ring   |-> Content!ToFront(k),
                 items  |-> Content!Put(items, k, v),
                 size   |-> size - old + Content!Bytes(v),
                 byScid |-> Content!Put(byScid, k.scid,
                   {k} \union (IF k.scid \in DOMAIN byScid THEN byScid[k.scid] ELSE {}))]
           gone == Content!Beyond(c, Content!Kept(c))
<1>1. Content!LruPut(k, v) = Content!Evicted(c)
  BY DEF Content!LruPut
<1>2. /\ c.items = Content!Put(items, k, v)
      /\ c.byScid = Content!Put(byScid, k.scid,
           {k} \union (IF k.scid \in DOMAIN byScid THEN byScid[k.scid] ELSE {}))
  OBVIOUS
<1> HIDE DEF c
<1>3. /\ Content!Evicted(c).items = Content!Without(c.items, gone)
      /\ Content!Evicted(c).byScid = Content!IndexRemove(c.byScid, gone)
  BY DEF Content!Evicted
<1> HIDE DEF gone
<1> QED BY <1>1, <1>2, <1>3

LEMMA PutKeeps ==
  ASSUME Agree(items, byScid), NEW k \in Keys, NEW v
  PROVE  /\ Agree(Content!LruPut(k, v).items, Content!LruPut(k, v).byScid)
         /\ DOMAIN Content!LruPut(k, v).items \subseteq DOMAIN items \union {k}
         /\ \A x \in DOMAIN Content!LruPut(k, v).items :
              Content!LruPut(k, v).items[x] = IF x = k THEN v ELSE items[x]
<1> DEFINE put == Content!Put(items, k, v)
           index == Content!Put(byScid, k.scid,
                      {k} \union (IF k.scid \in DOMAIN byScid THEN byScid[k.scid] ELSE {}))
<1>1. PICK gone : /\ Content!LruPut(k, v).items = Content!Without(put, gone)
                  /\ Content!LruPut(k, v).byScid = Content!IndexRemove(index, gone)
  BY PutShape
<1>2. Agree(put, index)
  BY AgreePut
<1>3. DOMAIN put = DOMAIN items \union {k}
      /\ \A x \in DOMAIN put : put[x] = IF x = k THEN v ELSE items[x]
  BY DEF Content!Put
<1> HIDE DEF put, index
<1>4. DOMAIN Content!Without(put, gone) = DOMAIN put \ gone
      /\ \A x \in DOMAIN put \ gone : Content!Without(put, gone)[x] = put[x]
  BY DEF Content!Without
<1>5. Agree(Content!Without(put, gone), Content!IndexRemove(index, gone))
  BY <1>2, AgreeRemove
<1> QED BY <1>1, <1>3, <1>4, <1>5

LEMMA ContentAssumed ==
  /\ MaxBytes \in Nat \ {0} /\ InboxSize \in Nat \ {0} /\ MaxVersion \in Nat
  /\ MaxCrashes \in Nat
BY ContentAssumption DEF Content!CacheAssumption

\* A ring that holds the entries once, and the size of their bodies.
Held(ringOf, entries, bytes) ==
  HoldsOnce(ringOf, DOMAIN entries) /\ bytes = Content!Weight(entries, DOMAIN entries)

LEMMA LargestKept ==
  ASSUME NEW c, Len(c.ring) \in Nat
  PROVE  /\ Content!Kept(c) \in 0..Len(c.ring)
         /\ \/ Content!Kept(c) = 0
            \/ c.size - Content!Weight(c.items, Content!Beyond(c, Content!Kept(c))) <= MaxBytes
<1> DEFINE len == Len(c.ring)
           fit == {n \in 0..len :
                     n = 0 \/ c.size - Content!Weight(c.items, Content!Beyond(c, n)) <= MaxBytes}
           above == {len - n : n \in fit}
<1>1. above \in SUBSET Nat /\ above # {}
  <2>1. 0 \in fit /\ \A n \in fit : len - n \in Nat
    OBVIOUS
  <2> QED BY <2>1
<1>2. \E m \in fit : \A n \in fit : m >= n
  <2>1. PICK a \in above : \A b \in above : a <= b
    <3> HIDE DEF above
    <3> QED BY <1>1, LeastNumber
  <2>2. PICK m \in fit : a = len - m
    OBVIOUS
  <2>3. ASSUME NEW n \in fit PROVE m >= n
    <3>1. len - m <= len - n
      BY <2>1, <2>2
    <3>2. len \in Nat /\ m \in Nat /\ n \in Nat
      OBVIOUS
    <3> HIDE DEF len, fit, above
    <3> QED BY <3>1, <3>2
  <2> QED BY <2>3
<1>3. Content!Kept(c) = Content!Max(fit)
  BY DEF Content!Kept
<1>4. Content!Max(fit) \in fit
  <2> HIDE DEF fit
  <2> QED BY <1>2 DEF Content!Max
<1> QED BY <1>3, <1>4

LEMMA EvictedHeld ==
  ASSUME NEW c, Held(c.ring, c.items, c.size), \A k \in DOMAIN c.items : c.items[k] \in Nat
  PROVE  /\ Held(Content!Evicted(c).ring, Content!Evicted(c).items, Content!Evicted(c).size)
         /\ Content!Evicted(c).size <= MaxBytes
<1> DEFINE D == DOMAIN c.items
           n == Content!Kept(c)
           gone == Content!Beyond(c, n)
           left == Content!Without(c.items, gone)
<1>1. HoldsOnce(c.ring, D) /\ c.size = Content!Weight(c.items, D)
      /\ Len(c.ring) \in Nat /\ c.ring \in Seq(D) /\ IsFiniteSet(D)
  <2>1. HoldsOnce(c.ring, D) /\ c.size = Content!Weight(c.items, D)
    BY DEF Held
  <2>2. IsFiniteSet(D)
    BY <2>1, HoldsCount
  <2>3. c.ring \in Seq(D) /\ Len(c.ring) \in Nat
    BY <2>1 DEF HoldsOnce
  <2> QED BY <2>1, <2>2, <2>3
<1>2. n \in 0..Len(c.ring) /\ (n = 0 \/ c.size - Content!Weight(c.items, gone) <= MaxBytes)
  BY <1>1, LargestKept
<1>3. gone = {c.ring[i] : i \in (n + 1)..Len(c.ring)} /\ gone \in SUBSET D
  BY <1>1, <1>2 DEF Content!Beyond
<1>4. DOMAIN left = D \ gone /\ \A k \in D \ gone : left[k] = c.items[k]
  BY DEF Content!Without
<1>5. /\ Content!Evicted(c).ring = SubSeq(c.ring, 1, n)
      /\ Content!Evicted(c).items = left
      /\ Content!Evicted(c).size = c.size - Content!Weight(c.items, gone)
  BY DEF Content!Evicted
<1> HIDE DEF D, n, gone, left
<1>6. HoldsOnce(SubSeq(c.ring, 1, n), D \ gone)
  BY <1>1, <1>2, <1>3, HoldsHead
<1>7. \A k \in D : c.items[k] \in Nat
  BY DEF D
<1>8. /\ Content!Weight(c.items, gone) \in Nat /\ Content!Weight(c.items, D \ gone) \in Nat
      /\ Content!Weight(c.items, D)
           = Content!Weight(c.items, gone) + Content!Weight(c.items, D \ gone)
  <2>1. D \ gone \in SUBSET D
    OBVIOUS
  <2> QED BY <1>1, <1>3, <1>7, <2>1, WeightLaws
<1>9. Content!Weight(left, D \ gone) = Content!Weight(c.items, D \ gone)
  <2>1. IsFiniteSet(D \ gone)
    BY <1>1, FS_Difference
  <2>2. \A k \in D \ gone : c.items[k] \in Nat
    BY <1>7
  <2> QED BY <1>4, <2>1, <2>2, WeightLaws
<1>10. c.size - Content!Weight(c.items, gone) = Content!Weight(left, D \ gone)
  BY <1>1, <1>8, <1>9
<1>11. c.size - Content!Weight(c.items, gone) <= MaxBytes
  <2>1. CASE n = 0
    <3>1. D \ gone = {}
      BY <1>1, <1>3, <2>1 DEF HoldsOnce
    <3>2. Content!Weight(c.items, {}) = 0
      BY <1>1, <1>7, WeightLaws
    <3> QED BY <1>9, <1>10, <3>1, <3>2, ContentAssumed
  <2> QED BY <1>2, <2>1
<1> QED BY <1>4, <1>5, <1>6, <1>10, <1>11 DEF Held

LEMMA FrontHeld ==
  ASSUME NEW D, HoldsOnce(ring, D), NEW k
  PROVE  HoldsOnce(Content!ToFront(k), D \union {k})
<1>1. HoldsOnce(Content!RingWithout({k}), D \ {k})
  BY RingRest
<1>2. HoldsOnce(<<k>> \o Content!RingWithout({k}), (D \ {k}) \union {k})
  BY <1>1, HoldsFront
<1>3. (D \ {k}) \union {k} = D \union {k}
  OBVIOUS
<1> QED BY <1>2, <1>3 DEF Content!ToFront

\* Put: the entry replaces the one of its key, if there is one.
LEMMA PutHeld ==
  ASSUME Held(ring, items, size), \A x \in DOMAIN items : items[x] \in Nat,
         NEW k, NEW v \in Nat
  PROVE  /\ Held(Content!LruPut(k, v).ring, Content!LruPut(k, v).items,
                 Content!LruPut(k, v).size)
         /\ Content!LruPut(k, v).size <= MaxBytes
<1> DEFINE D == DOMAIN items
           put == Content!Put(items, k, v)
           old == IF k \in DOMAIN items THEN Content!Bytes(items[k]) ELSE 0
           index == Content!Put(byScid, k.scid,
                      {k} \union (IF k.scid \in DOMAIN byScid THEN byScid[k.scid] ELSE {}))
           c == [ring |-> Content!ToFront(k), items |-> put,
                 size |-> size - old + Content!Bytes(v), byScid |-> index]
<1>1. HoldsOnce(ring, D) /\ size = Content!Weight(items, D) /\ IsFiniteSet(D)
      /\ \A x \in D : items[x] \in Nat
  BY HoldsCount DEF Held
<1>2. Content!LruPut(k, v) = Content!Evicted(c)
  BY DEF Content!LruPut
<1>3. DOMAIN put = D \union {k} /\ put[k] = v /\ \A x \in D \ {k} : put[x] = items[x]
  BY DEF Content!Put
<1>4. c.ring = Content!ToFront(k) /\ c.items = put /\ c.size = size - old + Content!Bytes(v)
  OBVIOUS
<1>5. old = IF k \in D THEN Content!Bytes(items[k]) ELSE 0
  OBVIOUS
<1> HIDE DEF D, put, old, index, c
<1>6. HoldsOnce(c.ring, DOMAIN c.items)
  BY <1>1, <1>3, <1>4, FrontHeld
<1>7. \A x \in DOMAIN c.items : c.items[x] \in Nat
  BY <1>1, <1>3, <1>4
<1> DEFINE E == D \union {k}
           R == D \ {k}
<1>8. IsFiniteSet(E) /\ IsFiniteSet(R) /\ \A x \in E : put[x] \in Nat
  BY <1>1, <1>3, <1>4, <1>7, FS_AddElement, FS_RemoveElement
<1>9. Content!Weight(put, E) = Content!Bytes(v) + Content!Weight(items, R)
  <2>1. {k} \in SUBSET E /\ E \ {k} = R /\ k \in E
    OBVIOUS
  <2> HIDE DEF E, R
  <2>2. Content!Weight(put, E) = Content!Weight(put, {k}) + Content!Weight(put, E \ {k})
        /\ Content!Weight(put, {k}) = Content!Bytes(put[k])
    BY <1>8, <2>1, WeightLaws
  <2>3. Content!Weight(put, R) = Content!Weight(items, R)
    <3>1. \A x \in R : items[x] \in Nat /\ put[x] = items[x]
      BY <1>1, <1>3 DEF R
    <3> QED BY <1>8, <3>1, WeightLaws
  <2> QED BY <1>3, <2>1, <2>2, <2>3
<1>10. /\ Content!Weight(items, D) = old + Content!Weight(items, R)
       /\ Content!Weight(items, R) \in Nat /\ old \in Nat
  <2>1. R \in SUBSET D
    OBVIOUS
  <2>2. Content!Weight(items, R) \in Nat
    BY <1>1, <2>1, WeightLaws
  <2>3. CASE k \in D
    <3>1. {k} \in SUBSET D
      BY <2>3
    <3>2. Content!Weight(items, D) = Content!Weight(items, {k}) + Content!Weight(items, D \ {k})
          /\ Content!Weight(items, {k}) = Content!Bytes(items[k])
      BY <1>1, <2>3, <3>1, WeightLaws
    <3>3. old \in Nat
      BY <1>1, <1>5, <2>3 DEF Content!Bytes
    <3> QED BY <1>5, <2>2, <2>3, <3>2, <3>3
  <2>4. CASE k \notin D
    <3>1. R = D /\ old = 0
      BY <1>5, <2>4
    <3> HIDE DEF R
    <3> QED BY <2>2, <3>1
  <2> QED BY <2>3, <2>4
<1>11. Content!Bytes(v) \in Nat
  BY DEF Content!Bytes
<1> HIDE DEF E, R
<1>12. c.size = Content!Weight(put, E)
  BY <1>1, <1>4, <1>9, <1>10, <1>11
<1>13. Held(c.ring, c.items, c.size)
  BY <1>3, <1>4, <1>6, <1>12 DEF Held, E
<1> QED BY <1>2, <1>7, <1>13, EvictedHeld

\* InvalidatePrefix: the size goes down with the entries.
LEMMA DropHeld ==
  ASSUME Held(ring, items, size), size <= MaxBytes,
         \A x \in DOMAIN items : items[x] \in Nat, NEW s
  PROVE  /\ Held(Content!LruDrop(s).ring, Content!LruDrop(s).items, Content!LruDrop(s).size)
         /\ Content!LruDrop(s).size <= MaxBytes
<1> DEFINE D == DOMAIN items
           gone == IF s \in DOMAIN byScid THEN byScid[s] \intersect DOMAIN items ELSE {}
           left == Content!Without(items, gone)
<1>1. HoldsOnce(ring, D) /\ size = Content!Weight(items, D) /\ IsFiniteSet(D)
      /\ \A x \in D : items[x] \in Nat
  BY HoldsCount DEF Held
<1>2. /\ Content!LruDrop(s).ring = Content!RingWithout(gone)
      /\ Content!LruDrop(s).items = left
      /\ Content!LruDrop(s).size = size - Content!Weight(items, gone)
  BY DEF Content!LruDrop
<1>3. gone \in SUBSET D /\ D \ gone \in SUBSET D
  OBVIOUS
<1>4. DOMAIN left = D \ gone /\ \A x \in D \ gone : left[x] = items[x]
  BY DEF Content!Without
<1> HIDE DEF D, gone, left
<1>5. /\ Content!Weight(items, gone) \in Nat /\ Content!Weight(items, D \ gone) \in Nat
      /\ Content!Weight(items, D)
           = Content!Weight(items, gone) + Content!Weight(items, D \ gone)
  BY <1>1, <1>3, WeightLaws
<1>6. Content!Weight(left, D \ gone) = Content!Weight(items, D \ gone)
  <2>1. IsFiniteSet(D \ gone) /\ \A x \in D \ gone : items[x] \in Nat
    BY <1>1, FS_Difference
  <2> QED BY <1>4, <2>1, WeightLaws
<1>7. HoldsOnce(Content!RingWithout(gone), D \ gone)
  BY <1>1, RingRest
<1>8. size - Content!Weight(items, gone) = Content!Weight(left, D \ gone)
      /\ size - Content!Weight(items, gone) <= MaxBytes
  BY <1>1, <1>5, <1>6, ContentAssumed
<1> QED BY <1>2, <1>4, <1>7, <1>8 DEF Held

LEMMA RequestSteps ==
  /\ [step |-> "idle"] \in Content!Request
  /\ \A k \in Keys : /\ [step |-> "disk", key |-> k] \in Content!Request
                    /\ [step |-> "load", key |-> k] \in Content!Request
  /\ \A k \in Keys, n \in 0..MaxVersion :
       /\ [step |-> "save", key |-> k, version |-> n] \in Content!Request
       /\ [step |-> "put", key |-> k, version |-> n] \in Content!Request
BY DEF Content!Request

LEMMA InboxTypes ==
  ASSUME inbox \in Seq(Content!Docs), Len(inbox) <= InboxSize
  PROVE  /\ inbox # <<>> => /\ Head(inbox) \in Content!Docs /\ Tail(inbox) \in Seq(Content!Docs)
                            /\ Len(Tail(inbox)) <= InboxSize
         /\ \A s \in Content!Docs : Len(inbox) < InboxSize =>
              Append(inbox, s) \in Seq(Content!Docs) /\ Len(Append(inbox, s)) <= InboxSize
<1>1. Len(inbox) \in Nat /\ InboxSize \in Nat
  BY ContentAssumed
<1>2. ASSUME inbox # <<>>
      PROVE  /\ Head(inbox) \in Content!Docs /\ Tail(inbox) \in Seq(Content!Docs)
             /\ Len(Tail(inbox)) = Len(inbox) - 1
  BY <1>2
<1>3. ASSUME NEW s \in Content!Docs
      PROVE  Append(inbox, s) \in Seq(Content!Docs) /\ Len(Append(inbox, s)) = Len(inbox) + 1
  OBVIOUS
<1> QED BY <1>1, <1>2, <1>3

\* What a crash, a drop and an eviction leave is part of what was there.
LEMMA ContentTypes ==
  ASSUME Content!TypeOK, Content!IndexAgrees, Content!Next PROVE Content!TypeOK'
<1> USE ContentAssumed DEF Content!TypeOK, Content!Bodies, Content!lru
<1>0. Agree(items, byScid) /\ \A k \in Keys : k.scid \in Content!Docs
  BY DEF Content!IndexAgrees, Agree, Content!Docs
<1>1. ASSUME NEW s \in Content!Docs, Content!CommitChange(s) PROVE Content!TypeOK'
  BY <1>1 DEF Content!CommitChange
<1>2. ASSUME NEW s \in Content!Docs, Content!Publish(s) PROVE Content!TypeOK'
  <2>1. inbox' \in Seq(Content!Docs) /\ Len(inbox') <= InboxSize
    BY <1>2, InboxTypes DEF Content!Publish
  <2> QED BY <1>2, <2>1 DEF Content!Publish
<1>3. CASE Content!InvalidateMemory
  <2>1. Head(inbox) \in Content!Docs /\ Tail(inbox) \in Seq(Content!Docs)
        /\ Len(Tail(inbox)) <= InboxSize
    BY <1>3, InboxTypes DEF Content!InvalidateMemory
  <2>2. DOMAIN items' \subseteq DOMAIN items /\ \A k \in DOMAIN items' : items'[k] = items[k]
    <3>1. items' = Content!LruDrop(Head(inbox)).items
      BY <1>3 DEF Content!InvalidateMemory, Content!SetLru
    <3>2. Content!LruDrop(Head(inbox)).items
            = Content!Without(items, Content!KeysOf(Head(inbox)))
      BY <1>0, <2>1, AgreeDrop
    <3> QED BY <3>1, <3>2 DEF Content!Without
  <2>3. missed' \subseteq Keys
    BY <1>3 DEF Content!InvalidateMemory, Content!Filling, Content!KeysOf
  <2> QED BY <1>3, <2>1, <2>2, <2>3 DEF Content!InvalidateMemory
<1>4. CASE Content!InvalidateDisk
  <2>1. missed' \subseteq Keys
    BY <1>4 DEF Content!InvalidateDisk, Content!Filling, Content!KeysOf
  <2> QED BY <1>4, <2>1 DEF Content!InvalidateDisk, Content!Without
<1>5. ASSUME NEW r \in Requests, NEW k \in Keys, Content!AskMemory(r, k)
      PROVE  Content!TypeOK'
  <2>1. req' \in [Requests -> Content!Request]
    BY <1>5, RequestSteps DEF Content!AskMemory
  <2> QED BY <1>5, <2>1 DEF Content!AskMemory
<1>6. ASSUME NEW r \in Requests, Content!AskDisk(r) PROVE Content!TypeOK'
  <2>1. req[r] \in [step : {"disk", "load"}, key : Keys]
    BY <1>6 DEF Content!AskDisk, Content!Request
  <2>2. CASE req[r].key \in DOMAIN disk
    <3>1. [step |-> "put", key |-> req[r].key, version |-> disk[req[r].key]] \in Content!Request
      BY <2>1, <2>2, RequestSteps
    <3>2. req' \in [Requests -> Content!Request] /\ missed' \subseteq Keys
      BY <1>6, <2>1, <2>2, <3>1 DEF Content!AskDisk
    <3> QED BY <1>6, <3>2 DEF Content!AskDisk
  <2>3. CASE req[r].key \notin DOMAIN disk
    <3>1. [step |-> "load", key |-> req[r].key] \in Content!Request
      BY <2>1, RequestSteps
    <3>2. req' \in [Requests -> Content!Request] /\ missed' \subseteq Keys
      BY <1>6, <2>1, <2>3, <3>1 DEF Content!AskDisk
    <3> QED BY <1>6, <3>2 DEF Content!AskDisk
  <2> QED BY <2>2, <2>3
<1>7. ASSUME NEW r \in Requests, Content!Load(r) PROVE Content!TypeOK'
  <2>1. req[r].key \in Keys
    BY <1>7 DEF Content!Load, Content!Request
  <2>2. stored[req[r].key.scid] \in 0..MaxVersion
    BY <1>0, <2>1
  <2>3. req' \in [Requests -> Content!Request]
    <3>1. /\ [step |-> "save", key |-> req[r].key, version |-> stored[req[r].key.scid]]
               \in Content!Request
          /\ [step |-> "idle"] \in Content!Request
      BY <2>1, <2>2, RequestSteps
    <3> QED BY <1>7, <3>1 DEF Content!Load
  <2> QED BY <1>7, <2>3 DEF Content!Load
<1>8. ASSUME NEW r \in Requests, Content!SaveDisk(r) PROVE Content!TypeOK'
  <2>1. req[r] \in [step : {"save", "put"}, key : Keys, version : 0..MaxVersion]
    BY <1>8 DEF Content!SaveDisk, Content!Request
  <2>2. [req[r] EXCEPT !.step = "put"]
          \in [step : {"save", "put"}, key : Keys, version : 0..MaxVersion]
    BY <2>1
  <2>3. req' \in [Requests -> Content!Request]
    BY <1>8, <2>2 DEF Content!SaveDisk, Content!Request
  <2>4. DOMAIN disk' \subseteq Keys /\ \A k \in DOMAIN disk' : disk'[k] \in 0..MaxVersion
    BY <1>8, <2>1 DEF Content!SaveDisk, Content!Put
  <2> QED BY <1>8, <2>3, <2>4 DEF Content!SaveDisk
<1>9. ASSUME NEW r \in Requests, Content!SaveMemory(r) PROVE Content!TypeOK'
  <2>1. req[r] \in [step : {"save", "put"}, key : Keys, version : 0..MaxVersion]
    BY <1>9 DEF Content!SaveMemory, Content!Request
  <2>2. req' \in [Requests -> Content!Request]
    BY <1>9 DEF Content!SaveMemory, Content!Request
  <2>3. DOMAIN items' \subseteq Keys /\ \A k \in DOMAIN items' : items'[k] \in 0..MaxVersion
    BY <1>0, <1>9, <2>1, PutKeeps DEF Content!SaveMemory, Content!SetLru
  <2> QED BY <1>9, <2>2, <2>3 DEF Content!SaveMemory
<1>10. CASE Content!Crash
  <2>1. items' = <<>> /\ req' \in [Requests -> Content!Request]
    BY <1>10 DEF Content!Crash, Content!SetLru, Content!Request
  <2>2. lost' \subseteq Content!Docs /\ inbox' \in Seq(Content!Docs) /\ Len(inbox') = 0
    BY <1>10 DEF Content!Crash, Content!ToSet
  <2> QED BY <1>10, <2>1, <2>2 DEF Content!Crash
<1> QED BY <1>1, <1>2, <1>3, <1>4, <1>5, <1>6, <1>7, <1>8, <1>9, <1>10 DEF Content!Next

LEMMA ContentIndex ==
  ASSUME Content!TypeOK, Content!IndexAgrees, Content!Next PROVE Content!IndexAgrees'
<1>0. Agree(items, byScid) /\ (Agree(items', byScid') => Content!IndexAgrees')
  BY DEF Agree, Content!IndexAgrees
<1>1. CASE UNCHANGED <<items, byScid>>
  BY <1>0, <1>1
<1>2. CASE Content!InvalidateMemory
  <2>1. Head(inbox) \in Content!Docs
    BY <1>2 DEF Content!InvalidateMemory, Content!TypeOK
  <2> QED BY <1>0, <1>2, <2>1, AgreeDrop DEF Content!InvalidateMemory, Content!SetLru
<1>3. ASSUME NEW r \in Requests, Content!SaveMemory(r) PROVE Content!IndexAgrees'
  <2>1. req[r].key \in Keys
    BY <1>3 DEF Content!SaveMemory, Content!Request, Content!TypeOK
  <2> QED BY <1>0, <1>3, <2>1, PutKeeps DEF Content!SaveMemory, Content!SetLru
<1>4. CASE Content!Crash
  BY <1>0, <1>4 DEF Content!Crash, Content!SetLru, Agree
<1> QED BY <1>1, <1>2, <1>3, <1>4
       DEF Content!Next, Content!lru, Content!CommitChange, Content!Publish,
           Content!InvalidateDisk, Content!AskMemory, Content!AskDisk, Content!Load,
           Content!SaveDisk

\* A request with a version in hand.
LEMMA InHand ==
  ASSUME Content!TypeOK, NEW r \in Requests, req[r].step \in {"save", "put"}
  PROVE  req[r].key \in Keys /\ req[r].version \in 0..MaxVersion
<1>1. req[r] \in Content!Request
  BY DEF Content!TypeOK
<1> QED BY <1>1 DEF Content!Request

\* What a step does to what the invalidator has not been told of.
LEMMA UntoldGrows ==
  ASSUME Content!TypeOK, NEW s \in Content!Docs, Content!CommitChange(s) \/ Content!Publish(s)
  PROVE  \A t : Content!Untold(t) => Content!Untold(t)'
<1>1. CASE Content!CommitChange(s)
  BY <1>1 DEF Content!CommitChange, Content!Untold
<1>2. CASE Content!Publish(s)
  <2>1. CASE Len(inbox) < InboxSize
    <3>1. inbox \in Seq(Content!Docs)
      BY DEF Content!TypeOK
    <3>2. Content!ToSet(Append(inbox, s)) = Content!ToSet(inbox) \union {s}
      BY <3>1, ToSetOf
    <3>3. inbox' = Append(inbox, s) /\ lost' = lost /\ toPublish' = toPublish \ {s}
      BY <1>2, <2>1 DEF Content!Publish
    <3>4. Content!ToSet(inbox)' = Content!ToSet(inbox) \union {s}
      BY <3>2, <3>3
    <3> QED BY <3>3, <3>4 DEF Content!Untold
  <2>2. CASE ~ (Len(inbox) < InboxSize)
    BY <1>2, <2>2 DEF Content!Publish, Content!Untold, Content!ToSet
  <2> QED BY <2>1, <2>2
<1> QED BY <1>1, <1>2

LEMMA UntoldShrinks ==
  ASSUME Content!TypeOK, Content!InvalidateMemory, NEW t, t # Head(inbox), Content!Untold(t)
  PROVE  Content!Untold(t)'
<1>1. inbox \in Seq(Content!Docs) /\ inbox # <<>> /\ inbox' = Tail(inbox)
      /\ lost' = lost \ {Head(inbox)} /\ toPublish' = toPublish
  BY DEF Content!TypeOK, Content!InvalidateMemory
<1>2. PICK s \in Content!Docs : TRUE
  BY <1>1, InboxTypes DEF Content!TypeOK
<1>3. Content!ToSet(inbox) = {Head(inbox)} \union Content!ToSet(Tail(inbox))
  BY <1>1, <1>2, ToSetOf
<1>4. Content!ToSet(inbox)' = Content!ToSet(Tail(inbox))
  BY <1>1
<1> QED BY <1>1, <1>3, <1>4 DEF Content!Untold

\* A step that moves no body keeps the three lines if excuses stay.
LEMMA LinesStay ==
  ASSUME Content!TypeOK, Content!MemoryLine, Content!RequestLine, Content!DiskLine,
         UNCHANGED <<items, disk, req, inv>>,
         missed \subseteq missed',
         \A k \in Keys : stored'[k.scid] = stored[k.scid] \/ Content!Untold(k.scid)',
         \A t : Content!Untold(t) => Content!Untold(t)'
  PROVE  Content!MemoryLine' /\ Content!RequestLine' /\ Content!DiskLine'
<1>0. DOMAIN items \subseteq Keys /\ DOMAIN disk \subseteq Keys
  BY DEF Content!TypeOK, Content!Bodies
<1>1. Content!MemoryLine'
  BY <1>0 DEF Content!MemoryLine, Content!Outdated
<1>2. ASSUME NEW r \in Requests, req'[r].step \in {"save", "put"},
             Content!Outdated(req[r].key, req[r].version)'
      PROVE  Content!Untold(req[r].key.scid)' \/ req[r].key \in missed'
  <2>1. req[r].key \in Keys
    BY <1>2, InHand
  <2> QED BY <1>2, <2>1 DEF Content!RequestLine, Content!Outdated
<1>3. Content!RequestLine'
  BY <1>2 DEF Content!RequestLine
<1>4. Content!DiskLine'
  BY <1>0 DEF Content!DiskLine, Content!Outdated, Content!Pending
<1> QED BY <1>1, <1>3, <1>4

\* The invalidator.
LEMMA MemoryDropped ==
  ASSUME Content!CacheInv, Content!InvalidateMemory
  PROVE  Content!MemoryLine' /\ Content!RequestLine' /\ Content!DiskLine'
<1> DEFINE s == Head(inbox)
<1>1. /\ s \in Content!Docs /\ inv' = [step |-> "disk", scid |-> s] /\ inv.step = "recv"
      /\ missed' = (missed \ Content!KeysOf(s)) \union Content!Filling(s)
      /\ items' = Content!LruDrop(s).items
      /\ UNCHANGED <<stored, disk, req>>
  BY InboxTypes DEF Content!CacheInv, Content!TypeOK, Content!InvalidateMemory, Content!SetLru
<1>2. items' = Content!Without(items, Content!KeysOf(s))
  <2>1. Agree(items, byScid)
    BY DEF Content!CacheInv, Content!IndexAgrees, Agree
  <2>2. Content!LruDrop(s).items = Content!Without(items, Content!KeysOf(s))
    BY <1>1, <2>1, AgreeDrop
  <2> QED BY <1>1, <2>2
<1>3. /\ DOMAIN items' = DOMAIN items \ Content!KeysOf(s)
      /\ \A k \in DOMAIN items' : items'[k] = items[k]
  BY <1>2 DEF Content!Without
<1>4. DOMAIN items \subseteq Keys /\ DOMAIN disk \subseteq Keys
  BY DEF Content!CacheInv, Content!TypeOK, Content!Bodies
<1>5. \A k \in Keys : k \in Content!KeysOf(s) <=> k.scid = s
  BY DEF Content!KeysOf
<1>6. \A t : t # s /\ Content!Untold(t) => Content!Untold(t)'
  BY UntoldShrinks DEF Content!CacheInv
<1> HIDE DEF s
<1>7. Content!MemoryLine'
  <2>1. ASSUME NEW k \in DOMAIN items', Content!Outdated(k, items[k])
        PROVE  Content!Untold(k.scid)' \/ k \in missed'
    <3>1. k \in DOMAIN items /\ k \in Keys /\ k.scid # s
      BY <1>3, <1>4, <1>5, <2>1
    <3>2. Content!Untold(k.scid) \/ k \in missed
      BY <2>1, <3>1 DEF Content!CacheInv, Content!MemoryLine
    <3> QED BY <1>1, <1>5, <1>6, <3>1, <3>2
  <2> QED BY <1>1, <1>3, <2>1 DEF Content!MemoryLine, Content!Outdated
<1>8. Content!RequestLine'
  <2>1. ASSUME NEW r \in Requests, req[r].step \in {"save", "put"},
               Content!Outdated(req[r].key, req[r].version)
        PROVE  Content!Untold(req[r].key.scid)' \/ req[r].key \in missed'
    <3>1. req[r].key \in Keys
      BY <2>1, InHand DEF Content!CacheInv
    <3>2. CASE req[r].key.scid = s
      BY <1>1, <1>5, <2>1, <3>1, <3>2 DEF Content!Filling
    <3>3. CASE req[r].key.scid # s
      <4>1. Content!Untold(req[r].key.scid) \/ req[r].key \in missed
        BY <2>1 DEF Content!CacheInv, Content!RequestLine
      <4> QED BY <1>1, <1>5, <1>6, <3>1, <3>3, <4>1
    <3> QED BY <3>2, <3>3
  <2> QED BY <1>1, <2>1 DEF Content!RequestLine, Content!Outdated
<1>9. Content!DiskLine'
  <2>1. ASSUME NEW k \in DOMAIN disk, Content!Outdated(k, disk[k]), k.scid # s
        PROVE  Content!Untold(k.scid)' \/ k \in missed'
    <3>1. Content!Untold(k.scid) \/ k \in missed
      BY <1>1, <2>1 DEF Content!CacheInv, Content!DiskLine, Content!Pending
    <3> QED BY <1>1, <1>4, <1>5, <1>6, <2>1, <3>1
  <2> QED BY <1>1, <2>1 DEF Content!DiskLine, Content!Outdated, Content!Pending
<1> QED BY <1>7, <1>8, <1>9

LEMMA DiskDropped ==
  ASSUME Content!CacheInv, Content!InvalidateDisk
  PROVE  Content!MemoryLine' /\ Content!RequestLine' /\ Content!DiskLine'
<1>1. /\ \A t : Content!Untold(t) <=> Content!Untold(t)'
      /\ missed \subseteq missed' /\ UNCHANGED <<stored, items, req>>
      /\ inv \in [step : {"disk"}, scid : Content!Docs]
  BY DEF Content!InvalidateDisk, Content!Untold, Content!lru, Content!ToSet, Content!CacheInv,
         Content!TypeOK
<1>2. /\ \A k \in DOMAIN disk' : k \in DOMAIN disk /\ disk'[k] = disk[k]
      /\ \A k \in DOMAIN disk' : k \notin Content!KeysOf(inv.scid) \/ k \in missed'
  BY DEF Content!InvalidateDisk, Content!Without
<1>3. DOMAIN disk \subseteq Keys
  BY DEF Content!CacheInv, Content!TypeOK, Content!Bodies
<1>4. Content!MemoryLine'
  BY <1>1 DEF Content!CacheInv, Content!MemoryLine, Content!Outdated
<1>5. Content!RequestLine'
  BY <1>1 DEF Content!CacheInv, Content!RequestLine, Content!Outdated
<1>6. ASSUME NEW k \in DOMAIN disk', Content!Outdated(k, disk[k])
      PROVE  Content!Untold(k.scid)' \/ k \in missed'
  <2>1. k \in DOMAIN disk /\ (k.scid # inv.scid \/ k \in missed')
    BY <1>2, <1>3, <1>6 DEF Content!KeysOf
  <2>2. k.scid # inv.scid => Content!Untold(k.scid) \/ k \in missed
    BY <1>6, <2>1 DEF Content!CacheInv, Content!DiskLine, Content!Pending
  <2> QED BY <1>1, <2>1, <2>2
<1>7. Content!DiskLine'
  <2>1. ASSUME NEW k \in DOMAIN disk', disk'[k] < stored'[k.scid]
        PROVE  Content!Untold(k.scid)' \/ k \in missed'
    <3>1. Content!Outdated(k, disk[k])
      BY <1>1, <1>2, <2>1 DEF Content!Outdated
    <3> QED BY <1>6, <3>1
  <2> QED BY <2>1 DEF Content!DiskLine, Content!Outdated, Content!Pending
<1> QED BY <1>4, <1>5, <1>7

\* The requests.  A body that goes from the bucket to memory during an
\* invalidation of its contract is excused by it; one made from the index is new.
LEMMA RequestsKeep ==
  ASSUME Content!CacheInv, NEW r \in Requests,
         \/ \E k \in Keys : Content!AskMemory(r, k)
         \/ Content!AskDisk(r) \/ Content!Load(r) \/ Content!SaveDisk(r)
         \/ Content!SaveMemory(r)
  PROVE  Content!MemoryLine' /\ Content!RequestLine' /\ Content!DiskLine'
<1> DEFINE told == toPublish \union Content!ToSet(inbox) \union lost
<1>1. /\ UNCHANGED <<stored, toPublish, inbox, lost, inv>>
      /\ missed \subseteq missed'
      /\ \A t : Content!Untold(t) <=> Content!Untold(t)'
  BY DEF Content!AskMemory, Content!AskDisk, Content!Load, Content!SaveDisk, Content!SaveMemory,
         Content!Untold, Content!ToSet
<1>2. \A q \in Requests :
        req[q].step \in {"save", "put"} /\ req[q].version < stored[req[q].key.scid] =>
          req[q].key.scid \in told \/ req[q].key \in missed
  BY DEF Content!CacheInv, Content!RequestLine, Content!Outdated, Content!Untold
<1> HIDE DEF told
<1>3. /\ DOMAIN items \subseteq Keys /\ DOMAIN disk \subseteq Keys
      /\ req \in [Requests -> Content!Request]
      /\ \A q \in Requests : q # r => req'[q] = req[q]
  BY DEF Content!CacheInv, Content!TypeOK, Content!Bodies, Content!AskMemory, Content!AskDisk,
         Content!Load, Content!SaveDisk, Content!SaveMemory
<1>4. Content!MemoryLine'
  <2>1. CASE UNCHANGED items
    BY <1>1, <2>1 DEF Content!CacheInv, Content!MemoryLine, Content!Outdated
  <2>2. CASE Content!SaveMemory(r)
    <3>1. req[r].step = "put" /\ items' = Content!LruPut(req[r].key, req[r].version).items
      BY <2>2 DEF Content!SaveMemory, Content!SetLru
    <3>2. req[r].key \in Keys
      BY <3>1, InHand DEF Content!CacheInv
    <3>3. /\ DOMAIN items' \subseteq DOMAIN items \union {req[r].key}
          /\ \A k \in DOMAIN items' : items'[k] = IF k = req[r].key THEN req[r].version ELSE items[k]
      <4>1. Agree(items, byScid)
        BY DEF Content!CacheInv, Content!IndexAgrees, Agree
      <4> QED BY <3>1, <3>2, <4>1, PutKeeps
    <3>4. Content!Outdated(req[r].key, req[r].version) =>
            Content!Untold(req[r].key.scid) \/ req[r].key \in missed
      BY <3>1 DEF Content!CacheInv, Content!RequestLine
    <3> QED BY <1>1, <3>3, <3>4 DEF Content!CacheInv, Content!MemoryLine, Content!Outdated
  <2> QED BY <2>1, <2>2 DEF Content!AskMemory, Content!AskDisk, Content!Load, Content!SaveDisk,
             Content!lru
<1>5. Content!DiskLine'
  <2>1. CASE UNCHANGED disk
    BY <1>1, <2>1 DEF Content!CacheInv, Content!DiskLine, Content!Outdated, Content!Pending
  <2>2. CASE Content!SaveDisk(r) /\ disk' = Content!Put(disk, req[r].key, req[r].version)
    <3>1. /\ DOMAIN disk' = DOMAIN disk \union {req[r].key}
          /\ \A k \in DOMAIN disk' : disk'[k] = IF k = req[r].key THEN req[r].version ELSE disk[k]
      BY <2>2 DEF Content!Put
    <3>2. req[r].step = "save"
      BY <2>2 DEF Content!SaveDisk
    <3>3. Content!Outdated(req[r].key, req[r].version) =>
            Content!Untold(req[r].key.scid) \/ req[r].key \in missed
      BY <3>2 DEF Content!CacheInv, Content!RequestLine
    <3> QED BY <1>1, <3>1, <3>3 DEF Content!CacheInv, Content!DiskLine, Content!Outdated,
                                    Content!Pending
  <2> QED BY <2>1, <2>2 DEF Content!AskMemory, Content!AskDisk, Content!Load, Content!SaveDisk,
             Content!SaveMemory
<1>6. ASSUME req'[r].step \in {"save", "put"},
             req'[r].version < stored[req'[r].key.scid]
      PROVE  req'[r].key.scid \in told \/ req'[r].key \in missed'
  <2>1. CASE \E k \in Keys : Content!AskMemory(r, k)
    BY <1>3, <1>6, <2>1 DEF Content!AskMemory
  <2>2. CASE Content!AskDisk(r)
    <3>1. /\ req[r].step = "disk" /\ req[r].key \in DOMAIN disk
          /\ req'[r] = [step |-> "put", key |-> req[r].key, version |-> disk[req[r].key]]
          /\ missed' = IF inv.step = "disk" /\ inv.scid = req[r].key.scid
                        THEN missed \union {req[r].key} ELSE missed
      BY <1>3, <1>6, <2>2 DEF Content!AskDisk
    <3>2. req'[r].key = req[r].key /\ req'[r].version = disk[req[r].key]
      BY <3>1
    <3>3. Content!Outdated(req[r].key, disk[req[r].key])
      BY <1>6, <3>2 DEF Content!Outdated
    <3>4. \/ req[r].key.scid \in told \/ req[r].key \in missed
          \/ inv = [step |-> "disk", scid |-> req[r].key.scid]
      BY <3>1, <3>3 DEF Content!CacheInv, Content!DiskLine, Content!Pending, Content!Untold, told
    <3>5. CASE inv = [step |-> "disk", scid |-> req[r].key.scid]
      BY <3>1, <3>2, <3>5
    <3> QED BY <1>1, <3>2, <3>4, <3>5
  <2>3. CASE Content!Load(r)
    <3>1. req'[r] = [step |-> "save", key |-> req[r].key, version |-> stored[req[r].key.scid]]
          /\ req[r].step = "load"
      BY <1>3, <1>6, <2>3 DEF Content!Load
    <3>2. req[r].key \in Keys
      <4>1. req[r] \in Content!Request
        BY <1>3
      <4> QED BY <3>1, <4>1 DEF Content!Request
    <3>3. stored[req[r].key.scid] \in Nat
      BY <3>2 DEF Content!CacheInv, Content!TypeOK, Content!Docs
    <3> QED BY <1>6, <3>1, <3>3
  <2>4. CASE Content!SaveDisk(r)
    <3>1. req[r].step = "save" /\ req[r] \in Content!Request
          /\ req'[r] = [req[r] EXCEPT !.step = "put"]
      BY <1>3, <2>4 DEF Content!SaveDisk
    <3>2. req'[r].key = req[r].key /\ req'[r].version = req[r].version
      BY <3>1 DEF Content!Request
    <3> QED BY <1>1, <1>6, <1>2, <3>1, <3>2
  <2>5. CASE Content!SaveMemory(r)
    BY <1>3, <1>6, <2>5 DEF Content!SaveMemory
  <2> QED BY <2>1, <2>2, <2>3, <2>4, <2>5
<1>7. ASSUME NEW q \in Requests, req'[q].step \in {"save", "put"},
             req'[q].version < stored[req'[q].key.scid]
      PROVE  req'[q].key.scid \in told \/ req'[q].key \in missed'
  <2>1. CASE q = r
    BY <1>6, <1>7, <2>1
  <2>2. CASE q # r
    BY <1>1, <1>3, <1>7, <1>2, <2>2
  <2> QED BY <2>1, <2>2
<1>8. Content!RequestLine'
  BY <1>1, <1>7 DEF Content!RequestLine, Content!Outdated, Content!Untold, told
<1> QED BY <1>4, <1>5, <1>8

\* A restart leaves the bucket, and loses the events of what was not yet dropped.
LEMMA CrashExcuses ==
  ASSUME Content!CacheInv, Content!Crash
  PROVE  Content!MemoryLine' /\ Content!RequestLine' /\ Content!DiskLine'
<1>1. Content!MemoryLine'
  BY DEF Content!Crash, Content!SetLru, Content!MemoryLine
<1>2. Content!RequestLine'
  BY DEF Content!Crash, Content!RequestLine
<1>3. ASSUME NEW k \in DOMAIN disk, Content!Pending(k.scid)
      PROVE  Content!Untold(k.scid)'
  <2>1. k.scid \in Content!Docs
    BY DEF Content!CacheInv, Content!TypeOK, Content!Bodies, Content!Docs
  <2>2. lost' = lost \union toPublish \union Content!ToSet(inbox)
                  \union ({inv.scid} \intersect Content!Docs)
    BY DEF Content!Crash
  <2> QED BY <1>3, <2>1, <2>2 DEF Content!Pending, Content!Untold
<1>4. Content!DiskLine'
  BY <1>3 DEF Content!Crash, Content!CacheInv, Content!DiskLine, Content!Outdated, Content!Pending
<1> QED BY <1>1, <1>2, <1>4

LEMMA ContentStep ==
  ASSUME Content!CacheInv, Content!Next PROVE Content!CacheInv'
<1>1. Content!TypeOK' /\ Content!IndexAgrees'
  BY ContentTypes, ContentIndex DEF Content!CacheInv
<1>2. ASSUME NEW s \in Content!Docs, Content!CommitChange(s) \/ Content!Publish(s)
      PROVE  Content!MemoryLine' /\ Content!RequestLine' /\ Content!DiskLine'
  <2>1. \A t : Content!Untold(t) => Content!Untold(t)'
    BY <1>2, UntoldGrows DEF Content!CacheInv
  <2>2. UNCHANGED <<items, disk, req, inv, missed>>
    BY <1>2 DEF Content!CommitChange, Content!Publish, Content!lru
  <2>3. \A k \in Keys : stored'[k.scid] = stored[k.scid] \/ Content!Untold(k.scid)'
    BY <1>2 DEF Content!CommitChange, Content!Publish, Content!Untold, Content!CacheInv,
                Content!TypeOK, Content!Docs
  <2> QED BY <2>1, <2>2, <2>3, LinesStay DEF Content!CacheInv
<1>3. ASSUME Content!InvalidateMemory
      PROVE  Content!MemoryLine' /\ Content!RequestLine' /\ Content!DiskLine'
  BY <1>3, MemoryDropped
<1>4. ASSUME Content!InvalidateDisk
      PROVE  Content!MemoryLine' /\ Content!RequestLine' /\ Content!DiskLine'
  BY <1>4, DiskDropped
<1>5. ASSUME NEW r \in Requests,
             \/ \E k \in Keys : Content!AskMemory(r, k)
             \/ Content!AskDisk(r) \/ Content!Load(r) \/ Content!SaveDisk(r)
             \/ Content!SaveMemory(r)
      PROVE  Content!MemoryLine' /\ Content!RequestLine' /\ Content!DiskLine'
  BY <1>5, RequestsKeep
<1>6. ASSUME Content!Crash
      PROVE  Content!MemoryLine' /\ Content!RequestLine' /\ Content!DiskLine'
  BY <1>6, CrashExcuses
<1> QED BY <1>1, <1>2, <1>3, <1>4, <1>5, <1>6 DEF Content!Next, Content!CacheInv

LEMMA ContentInit ==
  Content!Init => Content!CacheInv
<1> SUFFICES ASSUME Content!Init PROVE Content!CacheInv
  OBVIOUS
<1>1. Content!TypeOK
  BY ContentAssumed, RequestSteps DEF Content!Init, Content!TypeOK, Content!Bodies
<1>2. Content!IndexAgrees
  BY DEF Content!Init, Content!IndexAgrees
<1>3. Content!MemoryLine /\ Content!RequestLine /\ Content!DiskLine
  BY DEF Content!Init, Content!MemoryLine, Content!RequestLine, Content!DiskLine
<1> QED BY <1>1, <1>2, <1>3 DEF Content!CacheInv

LEMMA ContentInvariant ==
  StoreSpec => []Content!CacheInv
<1>1. StoreInit => Content!CacheInv
  BY ContentInit DEF StoreInit
<1>2. ASSUME Content!CacheInv, UNCHANGED contentVars PROVE Content!CacheInv'
  BY <1>2 DEF contentVars, Content!CacheInv, Content!TypeOK, Content!Bodies, Content!IndexAgrees,
     Content!MemoryLine, Content!RequestLine, Content!DiskLine, Content!Outdated, Content!Untold,
     Content!Pending, Content!ToSet
<1>3. Content!CacheInv /\ [StoreNext]_allVars => Content!CacheInv'
  BY <1>2, ContentStep DEF StoreNext, allVars
<1> QED BY <1>1, <1>3, PTL DEF StoreSpec

\* A cached body of an outdated version is excused: the invalidation of its
\* contract is under way, its event was lost, or it was missed: a request was
\* filling the cache at that moment, or the store could not empty its bucket
\* (runTELAInvalidator, handleGetTELAContent, evictLocked); for any contracts,
\* requests, capacities and restarts.
THEOREM StaleBodiesAreExcused == StoreSpec => []StaleExcused
<1>1. Content!CacheInv => StaleExcused
  BY DEF StaleExcused, Content!StaleExcused, Content!CacheInv, Content!MemoryLine,
         Content!DiskLine, Content!Pending
<1> QED BY <1>1, ContentInvariant, PTL

\* The ring and the bytes: what CacheAccounted says beyond the index.
Counted == Held(ring, items, size) /\ size <= MaxBytes

LEMMA EmptyHeld ==
  Held(<<>>, <<>>, 0) /\ 0 <= MaxBytes
<1>1. HoldsOnce(<<>>, DOMAIN <<>>)
  BY DEF HoldsOnce
<1>2. Content!Weight(<<>>, DOMAIN <<>>) = 0
  <2>1. IsFiniteSet({}) /\ DOMAIN <<>> = {}
    BY FS_EmptySet
  <2>2. \A k \in {} : (<<>>)[k] \in Nat
    OBVIOUS
  <2>3. Content!Weight(<<>>, {}) = 0
    BY <2>1, <2>2, WeightLaws
  <2> QED BY <2>1, <2>3
<1> QED BY <1>1, <1>2, ContentAssumed DEF Held

LEMMA CountedStep ==
  ASSUME Content!CacheInv, Counted, Content!Next PROVE Counted'
<1>1. Content!TypeOK /\ \A x \in DOMAIN items : items[x] \in Nat
  BY ContentAssumed DEF Content!CacheInv, Content!TypeOK, Content!Bodies
<1>2. ASSUME UNCHANGED Content!lru PROVE Counted'
  BY <1>2 DEF Counted, Content!lru
<1>3. CASE Content!InvalidateMemory
  <2>1. /\ ring' = Content!LruDrop(Head(inbox)).ring
        /\ items' = Content!LruDrop(Head(inbox)).items
        /\ size' = Content!LruDrop(Head(inbox)).size
    BY <1>3 DEF Content!InvalidateMemory, Content!SetLru
  <2>2. Held(ring, items, size) /\ size <= MaxBytes
    BY DEF Counted
  <2>3. Held(ring', items', size') /\ size' <= MaxBytes
    BY <1>1, <2>1, <2>2, DropHeld
  <2> QED BY <2>3 DEF Counted
<1>4. ASSUME NEW r \in Requests, NEW k \in Keys, Content!AskMemory(r, k) PROVE Counted'
  <2>1. CASE k \in DOMAIN items
    <3>1. ring' = Content!ToFront(k) /\ items' = items /\ size' = size
      BY <1>4, <2>1 DEF Content!AskMemory
    <3>2. HoldsOnce(ring, DOMAIN items) /\ size = Content!Weight(items, DOMAIN items)
          /\ size <= MaxBytes
      BY DEF Counted, Held
    <3>3. HoldsOnce(Content!ToFront(k), DOMAIN items \union {k})
      BY <3>2, FrontHeld
    <3>4. DOMAIN items \union {k} = DOMAIN items
      BY <2>1
    <3>5. HoldsOnce(ring', DOMAIN items')
      BY <3>1, <3>3, <3>4
    <3> QED BY <3>1, <3>2, <3>5 DEF Counted, Held
  <2>2. CASE k \notin DOMAIN items
    BY <1>2, <1>4, <2>2 DEF Content!AskMemory, Content!lru
  <2> QED BY <2>1, <2>2
<1>5. ASSUME NEW r \in Requests, Content!SaveMemory(r) PROVE Counted'
  <2> DEFINE k == req[r].key
             v == req[r].version
  <2>1. /\ ring' = Content!LruPut(k, v).ring
        /\ items' = Content!LruPut(k, v).items
        /\ size' = Content!LruPut(k, v).size
    BY <1>5 DEF Content!SaveMemory, Content!SetLru
  <2>2. v \in Nat
    BY <1>1, <1>5, InHand, ContentAssumed DEF Content!SaveMemory
  <2>3. Held(ring, items, size)
    BY DEF Counted
  <2> HIDE DEF k, v
  <2>4. Held(ring', items', size') /\ size' <= MaxBytes
    BY <1>1, <2>1, <2>2, <2>3, PutHeld
  <2> QED BY <2>4 DEF Counted
<1>6. CASE Content!Crash
  <2>1. ring' = <<>> /\ items' = <<>> /\ size' = 0
    BY <1>6 DEF Content!Crash, Content!SetLru
  <2> QED BY <2>1, EmptyHeld DEF Counted
<1> QED BY <1>2, <1>3, <1>4, <1>5, <1>6
       DEF Content!Next, Content!lru, Content!CommitChange, Content!Publish,
           Content!InvalidateDisk, Content!AskDisk, Content!Load, Content!SaveDisk

\* The structures of the cache agree after any sequence of hits, fills, evictions
\* and invalidations: the ring holds each entry once, the index by contract has
\* the keys of the entries, and the size is the sum of the bodies and within the
\* capacity (telaContentCache: Get, Put, InvalidatePrefix, evictLocked).
THEOREM CacheStructuresAgree == StoreSpec => []CacheAccounted
<1>1. StoreInit => Counted
  BY EmptyHeld DEF StoreInit, Content!Init, Counted
<1>2. Content!CacheInv /\ Counted /\ [StoreNext]_allVars => Counted'
  <2>1. ASSUME Counted, UNCHANGED contentVars PROVE Counted'
    BY <2>1 DEF contentVars, Counted
  <2> QED BY <2>1, CountedStep DEF StoreNext, allVars
<1>3. Content!CacheInv /\ Counted => CacheAccounted
  <2> SUFFICES ASSUME Content!CacheInv, Counted PROVE CacheAccounted
    OBVIOUS
  <2>1. HoldsOnce(ring, DOMAIN items) /\ size = Content!Weight(items, DOMAIN items)
        /\ size <= MaxBytes
    BY DEF Counted, Held
  <2>2. /\ Content!ToSet(ring) = DOMAIN items
        /\ Len(ring) = Content!Cardinality(DOMAIN items)
    BY <2>1, HoldsCount
  <2>3. Content!IndexAgrees
    BY DEF Content!CacheInv
  <2> QED BY <2>1, <2>2, <2>3 DEF CacheAccounted, Content!CacheAccounted
<1> QED BY <1>1, <1>2, <1>3, ContentInvariant, PTL DEF StoreSpec

-----------------------------------------------------------------------------
(* Sets in a strict order.                                                 *)

StrictOrder(R, S) ==
  /\ \A a \in S : <<a, a>> \notin R
  /\ \A a, b \in S : a = b \/ <<a, b>> \in R \/ <<b, a>> \in R
  /\ \A a, b, c \in S : <<a, b>> \in R /\ <<b, c>> \in R => <<a, c>> \in R

Below(R, S, s) == {t \in S : <<t, s>> \in R}

\* A list of S with every member at its rank.
Ranked(q, R, S) ==
  /\ DOMAIN q = 1..Cardinality(S)
  /\ \A i \in 1..Cardinality(S) : q[i] \in S /\ Cardinality(Below(R, S, q[i])) = i - 1

\* The members of a finite set have its places, one each.
LEMMA Ranks ==
  ASSUME NEW S, IsFiniteSet(S), NEW R, StrictOrder(R, S)
  PROVE  /\ \A s \in S : Cardinality(Below(R, S, s)) \in 0..(Cardinality(S) - 1)
         /\ \A a, b \in S :
              Cardinality(Below(R, S, a)) = Cardinality(Below(R, S, b)) => a = b
         /\ \A i \in 1..Cardinality(S) : \E s \in S : Cardinality(Below(R, S, s)) = i - 1
<1> DEFINE card(s) == Cardinality(Below(R, S, s))
           n == Cardinality(S)
<1>1. n \in Nat /\ \A T \in SUBSET S : IsFiniteSet(T) /\ Cardinality(T) \in Nat
  BY FS_CardinalityType, FS_Subset
<1>2. ASSUME NEW T \in SUBSET S, NEW U \in SUBSET T, NEW x \in T \ U
      PROVE  Cardinality(U) < Cardinality(T)
  <2>1. IsFiniteSet(T) /\ U # T /\ T \in SUBSET S /\ U \in SUBSET S
    BY <1>1, <1>2
  <2>2. Cardinality(U) <= Cardinality(T) /\ Cardinality(U) # Cardinality(T)
    BY <2>1, FS_Subset
  <2>3. Cardinality(U) \in Nat /\ Cardinality(T) \in Nat
    BY <1>1, <2>1
  <2> QED BY <2>2, <2>3
<1>3. \A s \in S : Below(R, S, s) \in SUBSET S /\ s \notin Below(R, S, s)
  BY DEF Below, StrictOrder
<1>4. \A s \in S : card(s) \in Nat /\ card(s) < n
  BY <1>1, <1>2, <1>3
<1>5. ASSUME NEW a \in S, NEW b \in S, <<a, b>> \in R PROVE card(a) < card(b)
  <2>1. Below(R, S, a) \in SUBSET Below(R, S, b) /\ a \in Below(R, S, b) \ Below(R, S, a)
    BY <1>5 DEF Below, StrictOrder
  <2> QED BY <1>2, <1>3, <2>1
<1>6. ASSUME NEW a \in S, NEW b \in S, card(a) = card(b) PROVE a = b
  <2>1. card(a) \in Nat /\ ~(card(a) < card(b)) /\ ~(card(b) < card(a))
    BY <1>4, <1>6
  <2>2. <<a, b>> \notin R /\ <<b, a>> \notin R
    BY <1>5, <2>1
  <2> QED BY <2>2 DEF StrictOrder
<1> DEFINE place == [s \in S |-> card(s) + 1]
<1>7. place \in Injection(S, 1..n)
  <2>1. \A s \in S : card(s) + 1 \in 1..n
    BY <1>1, <1>4
  <2>2. place \in [S -> 1..n]
    BY <2>1
  <2>3. \A a, b \in S : place[a] = place[b] => a = b
    BY <1>4, <1>6
  <2> QED BY <2>2, <2>3 DEF Injection, IsInjective
<1>8. IsFiniteSet(1..n) /\ Cardinality(1..n) = n
  BY <1>1, FS_Interval
<1>9. place \in Surjection(S, 1..n)
  BY <1>7, <1>8, FS_Injection
<1>10. ASSUME NEW i \in 1..n PROVE \E s \in S : card(s) = i - 1
  <2>1. PICK s \in S : place[s] = i
    BY <1>9 DEF Surjection
  <2>2. card(s) + 1 = i /\ card(s) \in Nat
    BY <1>4, <2>1
  <2> QED BY <1>1, <2>2
<1> QED BY <1>1, <1>4, <1>6, <1>10

\* Then each is at the number of those up to it.
LEMMA InPlace ==
  ASSUME NEW S, IsFiniteSet(S), NEW R, StrictOrder(R, S), NEW q, Ranked(q, R, S)
  PROVE  /\ \A s \in S : LET n == Cardinality(Below(R, S, s) \union {s})
                        IN  n \in DOMAIN q /\ q[n] = s
         /\ \A i \in DOMAIN q : q[i] \in S
<1>1. ASSUME NEW s \in S
      PROVE  LET n == Cardinality(Below(R, S, s) \union {s})
             IN  n \in DOMAIN q /\ q[n] = s
  <2> DEFINE c == Cardinality(Below(R, S, s))
             n == Cardinality(Below(R, S, s) \union {s})
  <2>1. Cardinality(S) \in Nat /\ c \in 0..(Cardinality(S) - 1)
    BY Ranks, FS_CardinalityType
  <2>2. n = c + 1
    <3>1. Below(R, S, s) \in SUBSET S /\ s \notin Below(R, S, s)
      BY DEF Below, StrictOrder
    <3>2. IsFiniteSet(Below(R, S, s))
      BY <3>1, FS_Subset
    <3> QED BY <3>1, <3>2, FS_AddElement
  <2>3. n \in 1..Cardinality(S) /\ n - 1 = c
    BY <2>1, <2>2
  <2>4. q[n] \in S /\ Cardinality(Below(R, S, q[n])) = c
    BY <2>3 DEF Ranked
  <2>5. q[n] = s
    BY <2>4, Ranks
  <2> QED BY <2>3, <2>5 DEF Ranked
<1> QED BY <1>1 DEF Ranked

-----------------------------------------------------------------------------
(* The listings.                                                           *)

LEMMA ListingAssumed ==
  /\ Contracts \subseteq Nat /\ IsFiniteSet(Contracts) /\ Registry \subseteq Contracts
  /\ DefLimit \in Nat \ {0} /\ MaxLimit \in Nat /\ DefLimit <= MaxLimit
  /\ Asked \subseteq Nat /\ MaxWrites \in Nat
BY ListingAssumption DEF Listing!ReadAssumption, Listing!IsFiniteSet, IsFiniteSet

LEMMA SameCard ==
  \A S : Listing!Cardinality(S) = Cardinality(S)
BY DEF Listing!Cardinality, Cardinality

LEMMA SubsetCards ==
  ASSUME NEW S, NEW T, S \subseteq T, T \subseteq Contracts
  PROVE  /\ IsFiniteSet(S) /\ Listing!Cardinality(S) \in Nat
         /\ Listing!Cardinality(S) <= Listing!Cardinality(T)
<1>1. IsFiniteSet(T)
  BY ListingAssumed, FS_Subset
<1>2. IsFiniteSet(S) /\ Cardinality(S) <= Cardinality(T)
  BY <1>1, FS_Subset
<1>3. Cardinality(S) \in Nat
  BY <1>2, FS_CardinalityType
<1> QED BY <1>2, <1>3, SameCard

LEMMA ListedSeq ==
  ASSUME NEW S, IsFiniteSet(S), NEW q, q = [i \in DOMAIN q |-> q[i]],
         DOMAIN q = 1..Cardinality(S), \A i \in DOMAIN q : q[i] \in S
  PROVE  q \in Seq(S)
<1>1. Cardinality(S) \in Nat
  BY FS_CardinalityType
<1>2. q \in [1..Cardinality(S) -> S]
  OBVIOUS
<1> QED BY <1>1, <1>2

\* A listing by the number of those before has each where those up to it put it.
LEMMA OwnerPlaces ==
  ASSUME NEW S, S \subseteq Contracts, NEW q, q = Listing!ByName(S)
  PROVE  /\ \A s \in S : Listing!Holds(q, Listing!Cardinality({t \in S : t <= s}), s)
         /\ \A i \in DOMAIN q : q[i] \in S
         /\ q \in Seq(S)
<1> DEFINE R == {p \in S \X S : p[1] < p[2]}
<1>1. \A s \in S : s \in Nat
  BY ListingAssumed
<1>2. StrictOrder(R, S)
  <2>1. \A a, b \in S : <<a, b>> \in R <=> a < b
    OBVIOUS
  <2> HIDE DEF R
  <2> QED BY <1>1, <2>1 DEF StrictOrder
<1>3. \A s \in S : {t \in S : t < s} = Below(R, S, s)
                   /\ {t \in S : t <= s} = Below(R, S, s) \union {s}
  BY <1>1 DEF Below
<1>4. IsFiniteSet(S)
  BY ListingAssumed, FS_Subset
<1> HIDE DEF R
<1>5. /\ DOMAIN q = 1..Cardinality(S) /\ q = [i \in DOMAIN q |-> q[i]]
      /\ \A i \in 1..Cardinality(S) :
           q[i] = CHOOSE s \in S : Listing!Cardinality({t \in S : t < s}) = i - 1
  <2> DEFINE pick(i) == CHOOSE s \in S : Listing!Cardinality({t \in S : t < s}) = i - 1
  <2>1. q = [i \in 1..Listing!Cardinality(S) |-> pick(i)]
    BY DEF Listing!ByName, Listing!InOrder
  <2> HIDE DEF pick
  <2>2. /\ DOMAIN q = 1..Cardinality(S) /\ q = [i \in DOMAIN q |-> q[i]]
        /\ \A i \in 1..Cardinality(S) : q[i] = pick(i)
    <3>1. Listing!Cardinality(S) = Cardinality(S)
      BY SameCard
    <3> QED BY <2>1, <3>1
  <2> QED BY <2>2 DEF pick
<1>6. ASSUME NEW i \in 1..Cardinality(S)
      PROVE  q[i] \in S /\ Cardinality(Below(R, S, q[i])) = i - 1
  <2>1. PICK x \in S : Cardinality(Below(R, S, x)) = i - 1
    BY <1>2, <1>4, Ranks
  <2>2. Listing!Cardinality({t \in S : t < x}) = i - 1
    BY <1>3, <2>1, SameCard
  <2>3. q[i] \in S /\ Listing!Cardinality({t \in S : t < q[i]}) = i - 1
    BY <1>5, <2>2
  <2> QED BY <1>3, <2>3, SameCard
<1>7. /\ \A s \in S : LET n == Cardinality(Below(R, S, s) \union {s})
                     IN  n \in DOMAIN q /\ q[n] = s
      /\ \A i \in DOMAIN q : q[i] \in S
  <2>1. Ranked(q, R, S)
    BY <1>5, <1>6 DEF Ranked
  <2> QED BY <1>2, <1>4, <2>1, InPlace
<1>8. q \in Seq(S)
  BY <1>4, <1>5, <1>7, ListedSeq
<1> QED BY <1>3, <1>7, <1>8, SameCard DEF Listing!Holds

LEMMA AscendingPlaces ==
  ASSUME NEW f, \A s \in Contracts : f[s] \in Nat, NEW q, q = Listing!Ascending(f)
  PROVE  /\ \A s \in Listing!Listed(f) :
              Listing!Holds(q, Listing!Cardinality(Listing!UpTo(f, s)), s)
         /\ \A i \in DOMAIN q : q[i] \in Listing!Listed(f)
         /\ q \in Seq(Listing!Listed(f))
<1> DEFINE S == Listing!Listed(f)
           R == {p \in S \X S : f[p[1]] < f[p[2]] \/ (f[p[1]] = f[p[2]] /\ p[1] < p[2])}
           lower(s) == {t \in S : f[t] < f[s] \/ (f[t] = f[s] /\ t < s)}
<1>1. S \subseteq Contracts /\ \A s \in S : s \in Nat /\ f[s] \in Nat
  BY ListingAssumed DEF Listing!Listed
<1>2. StrictOrder(R, S)
  <2>1. \A a, b \in S : <<a, b>> \in R <=> f[a] < f[b] \/ (f[a] = f[b] /\ a < b)
    OBVIOUS
  <2> HIDE DEF R, S
  <2> QED BY <1>1, <2>1 DEF StrictOrder
<1>3. \A s \in S : lower(s) = Below(R, S, s)
                   /\ Listing!UpTo(f, s) = Below(R, S, s) \union {s}
  <2>1. \A s \in S : Listing!UpTo(f, s) = {t \in S : f[t] < f[s] \/ (f[t] = f[s] /\ t <= s)}
    BY DEF Listing!UpTo
  <2> HIDE DEF S
  <2> QED BY <1>1, <2>1 DEF Below
<1>4. IsFiniteSet(S)
  BY <1>1, ListingAssumed, FS_Subset
<1>5. /\ DOMAIN q = 1..Cardinality(S) /\ q = [i \in DOMAIN q |-> q[i]]
      /\ \A i \in 1..Cardinality(S) :
           q[i] = CHOOSE s \in S : Listing!Cardinality(lower(s)) = i - 1
  <2> DEFINE pick(i) == CHOOSE s \in S : Listing!Cardinality(lower(s)) = i - 1
  <2>1. q = [i \in 1..Listing!Cardinality(S) |-> pick(i)]
    BY DEF Listing!Ascending, Listing!InOrder
  <2> HIDE DEF pick
  <2>2. /\ DOMAIN q = 1..Cardinality(S) /\ q = [i \in DOMAIN q |-> q[i]]
        /\ \A i \in 1..Cardinality(S) : q[i] = pick(i)
    <3>1. Listing!Cardinality(S) = Cardinality(S)
      BY SameCard
    <3> HIDE DEF S
    <3> QED BY <2>1, <3>1
  <2> QED BY <2>2 DEF pick
<1> HIDE DEF R, S, lower
<1>6. ASSUME NEW i \in 1..Cardinality(S)
      PROVE  q[i] \in S /\ Cardinality(Below(R, S, q[i])) = i - 1
  <2>1. PICK x \in S : Cardinality(Below(R, S, x)) = i - 1
    BY <1>2, <1>4, Ranks
  <2>2. Listing!Cardinality(lower(x)) = i - 1
    BY <1>3, <2>1, SameCard
  <2>3. q[i] \in S /\ Listing!Cardinality(lower(q[i])) = i - 1
    BY <1>5, <2>2
  <2> QED BY <1>3, <2>3, SameCard
<1>7. /\ \A s \in S : LET n == Cardinality(Below(R, S, s) \union {s})
                     IN  n \in DOMAIN q /\ q[n] = s
      /\ \A i \in DOMAIN q : q[i] \in S
  <2>1. Ranked(q, R, S)
    BY <1>5, <1>6 DEF Ranked
  <2> QED BY <1>2, <1>4, <2>1, InPlace
<1>8. \A s \in S : Listing!Holds(q, Listing!Cardinality(Listing!UpTo(f, s)), s)
  BY <1>3, <1>7, SameCard DEF Listing!Holds
<1>9. q \in Seq(S)
  BY <1>4, <1>5, <1>7, ListedSeq
<1> QED BY <1>7, <1>8, <1>9 DEF S

LEMMA DescendingPlaces ==
  ASSUME NEW f, \A s \in Contracts : f[s] \in Nat, NEW q, q = Listing!Descending(f)
  PROVE  /\ \A s \in Listing!Listed(f) :
              Listing!Holds(q, Listing!Cardinality(Listing!DownTo(f, s)), s)
         /\ \A i \in DOMAIN q : q[i] \in Listing!Listed(f)
         /\ q \in Seq(Listing!Listed(f))
<1> DEFINE S == Listing!Listed(f)
           R == {p \in S \X S : f[p[1]] > f[p[2]] \/ (f[p[1]] = f[p[2]] /\ p[1] < p[2])}
           lower(s) == {t \in S : f[t] > f[s] \/ (f[t] = f[s] /\ t < s)}
<1>1. S \subseteq Contracts /\ \A s \in S : s \in Nat /\ f[s] \in Nat
  BY ListingAssumed DEF Listing!Listed
<1>2. StrictOrder(R, S)
  <2>1. \A a, b \in S : <<a, b>> \in R <=> f[a] > f[b] \/ (f[a] = f[b] /\ a < b)
    OBVIOUS
  <2> HIDE DEF R, S
  <2> QED BY <1>1, <2>1 DEF StrictOrder
<1>3. \A s \in S : lower(s) = Below(R, S, s)
                   /\ Listing!DownTo(f, s) = Below(R, S, s) \union {s}
  <2>1. \A s \in S : Listing!DownTo(f, s) = {t \in S : f[t] > f[s] \/ (f[t] = f[s] /\ t <= s)}
    BY DEF Listing!DownTo
  <2> HIDE DEF S
  <2> QED BY <1>1, <2>1 DEF Below
<1>4. IsFiniteSet(S)
  BY <1>1, ListingAssumed, FS_Subset
<1>5. /\ DOMAIN q = 1..Cardinality(S) /\ q = [i \in DOMAIN q |-> q[i]]
      /\ \A i \in 1..Cardinality(S) :
           q[i] = CHOOSE s \in S : Listing!Cardinality(lower(s)) = i - 1
  <2> DEFINE pick(i) == CHOOSE s \in S : Listing!Cardinality(lower(s)) = i - 1
  <2>1. q = [i \in 1..Listing!Cardinality(S) |-> pick(i)]
    BY DEF Listing!Descending, Listing!InOrder
  <2> HIDE DEF pick
  <2>2. /\ DOMAIN q = 1..Cardinality(S) /\ q = [i \in DOMAIN q |-> q[i]]
        /\ \A i \in 1..Cardinality(S) : q[i] = pick(i)
    <3>1. Listing!Cardinality(S) = Cardinality(S)
      BY SameCard
    <3> HIDE DEF S
    <3> QED BY <2>1, <3>1
  <2> QED BY <2>2 DEF pick
<1> HIDE DEF R, S, lower
<1>6. ASSUME NEW i \in 1..Cardinality(S)
      PROVE  q[i] \in S /\ Cardinality(Below(R, S, q[i])) = i - 1
  <2>1. PICK x \in S : Cardinality(Below(R, S, x)) = i - 1
    BY <1>2, <1>4, Ranks
  <2>2. Listing!Cardinality(lower(x)) = i - 1
    BY <1>3, <2>1, SameCard
  <2>3. q[i] \in S /\ Listing!Cardinality(lower(q[i])) = i - 1
    BY <1>5, <2>2
  <2> QED BY <1>3, <2>3, SameCard
<1>7. /\ \A s \in S : LET n == Cardinality(Below(R, S, s) \union {s})
                     IN  n \in DOMAIN q /\ q[n] = s
      /\ \A i \in DOMAIN q : q[i] \in S
  <2>1. Ranked(q, R, S)
    BY <1>5, <1>6 DEF Ranked
  <2> QED BY <1>2, <1>4, <2>1, InPlace
<1>8. \A s \in S : Listing!Holds(q, Listing!Cardinality(Listing!DownTo(f, s)), s)
  BY <1>3, <1>7, SameCard DEF Listing!Holds
<1>9. q \in Seq(S)
  BY <1>4, <1>5, <1>7, ListedSeq
<1> QED BY <1>7, <1>8, <1>9 DEF S

\* The class rows in an order by height: where no two are of one height, each
\* row has its place, and else one that is not above that of the last of its height.
LEMMA ClassPlaces ==
  ASSUME \A s \in Contracts : row[s] \in Nat, NEW q \in Listing!ClassOrders
  PROVE  /\ \A i \in DOMAIN q : q[i] \in Listing!Listed(row)
         /\ q \in Seq(Listing!Listed(row))
         /\ \A s \in Listing!Listed(row) : \E i \in DOMAIN q :
              /\ q[i] = s /\ i \in Nat \ {0}
              /\ i <= Listing!Cardinality({t \in Listing!Listed(row) : row[t] <= row[s]})
         /\ (\A s, t \in Listing!Listed(row) : row[s] = row[t] => s = t) =>
              \A s \in Listing!Listed(row) :
                Listing!Holds(q, Listing!Cardinality(Listing!UpTo(row, s)), s)
<1> DEFINE S == Listing!Listed(row)
           n == Cardinality(S)
<1>1. S \subseteq Contracts /\ \A s \in S : s \in Nat /\ row[s] \in Nat
  BY ListingAssumed DEF Listing!Listed
<1>2. IsFiniteSet(S)
  BY <1>1, ListingAssumed, FS_Subset
<1>3. n \in Nat
  BY <1>2, FS_CardinalityType
<1>4. /\ q \in [1..n -> S] /\ DOMAIN q = 1..n
      /\ \A i, j \in 1..n : i # j => q[i] # q[j]
      /\ \A i, j \in 1..n : i < j => row[q[i]] <= row[q[j]]
  BY SameCard DEF Listing!ClassOrders, Listing!SetToSeqs
<1> HIDE DEF S, n
<1>5. q \in Surjection(1..n, S)
  <2>1. q \in Injection(1..n, S)
    BY <1>4 DEF Injection, IsInjective
  <2>2. Cardinality(1..n) = n
    BY <1>3, FS_Interval
  <2> QED BY <1>2, <2>1, <2>2, FS_Injection DEF n
<1>6. ASSUME NEW i \in 1..n
      PROVE  Cardinality({q[j] : j \in 1..i}) = i /\ {q[j] : j \in 1..i} \in SUBSET S
  <2> DEFINE U == {q[j] : j \in 1..i}
             p == [j \in 1..i |-> q[j]]
  <2>1. i \in Nat /\ \A j \in 1..i : j \in 1..n
    BY <1>3
  <2>2. p \in Bijection(1..i, U)
    <3>1. p \in [1..i -> U] /\ \A j, k \in 1..i : j # k => p[j] # p[k]
      BY <1>4, <2>1
    <3>2. \A u \in U : \E j \in 1..i : p[j] = u
      OBVIOUS
    <3> HIDE DEF p, U
    <3> QED BY <3>1, <3>2 DEF Bijection, Injection, IsInjective, Surjection
  <2>3. ExistsBijection(1..i, U)
    BY <2>2 DEF ExistsBijection
  <2>4. Cardinality(U) = i
    BY <2>1, <2>3, FS_CountingElements
  <2> QED BY <1>4, <2>1, <2>4
<1>7. ASSUME NEW s \in S
      PROVE  \E i \in 1..n : /\ q[i] = s /\ i \in Nat \ {0}
                             /\ i <= Listing!Cardinality({t \in S : row[t] <= row[s]})
  <2>1. PICK i \in 1..n : q[i] = s
    BY <1>5 DEF Surjection
  <2> DEFINE U == {q[j] : j \in 1..i}
             V == {t \in S : row[t] <= row[s]}
  <2>2. U \in SUBSET V
    <3> SUFFICES ASSUME NEW j \in 1..i PROVE q[j] \in V
      OBVIOUS
    <3>1. j \in 1..n /\ (j = i \/ j < i) /\ q[j] \in S
      BY <1>3, <1>4
    <3>2. row[q[j]] <= row[q[i]]
      BY <1>1, <1>4, <3>1
    <3> QED BY <2>1, <3>1, <3>2
  <2>3. Listing!Cardinality(U) <= Listing!Cardinality(V)
    BY <1>1, <2>2, SubsetCards
  <2>4. Listing!Cardinality(U) = i
    BY <1>6, SameCard
  <2>5. i <= Listing!Cardinality(V) /\ i \in Nat \ {0}
    BY <1>3, <2>3, <2>4
  <2> HIDE DEF U
  <2> QED BY <2>1, <2>5
<1>8. ASSUME \A s, t \in S : row[s] = row[t] => s = t, NEW s \in S
      PROVE  Listing!Holds(q, Listing!Cardinality(Listing!UpTo(row, s)), s)
  <2>1. PICK i \in 1..n : q[i] = s
    BY <1>5 DEF Surjection
  <2> DEFINE U == {q[j] : j \in 1..i}
             V == {t \in S : row[t] < row[s] \/ (row[t] = row[s] /\ t <= s)}
  <2>2. ASSUME NEW j \in 1..i PROVE q[j] \in V
    <3>1. j \in 1..n /\ (j = i \/ j < i) /\ q[j] \in S
      BY <1>3, <1>4
    <3>2. row[q[j]] <= row[q[i]] /\ (row[q[j]] = row[q[i]] => q[j] = q[i])
      BY <1>1, <1>4, <1>8, <3>1
    <3> QED BY <1>1, <2>1, <3>1, <3>2
  <2>3. ASSUME NEW t \in V PROVE t \in U
    <3>1. PICK j \in 1..n : q[j] = t
      BY <1>5 DEF Surjection
    <3>2. CASE j <= i
      BY <3>1, <3>2
    <3>3. CASE i < j
      <4>1. row[s] <= row[t] /\ s # t
        BY <1>3, <1>4, <2>1, <3>1, <3>3
      <4>2. row[s] = row[t]
        BY <1>1, <4>1
      <4> QED BY <1>8, <4>1, <4>2
    <3> QED BY <1>3, <3>2, <3>3
  <2>4. U = V
    BY <2>2, <2>3
  <2>5. V = Listing!UpTo(row, s)
    BY DEF Listing!UpTo, S
  <2>6. Listing!Cardinality(Listing!UpTo(row, s)) = i
    BY <1>6, <2>4, <2>5, SameCard
  <2> QED BY <1>4, <2>1, <2>6 DEF Listing!Holds
<1>9. q \in Seq(S)
  BY <1>3, <1>4
<1> QED BY <1>4, <1>7, <1>8, <1>9 DEF S

\* What TypeOK says of the numbers.
LEMMA ListingNumbers ==
  ASSUME Listing!TypeOK
  PROVE  /\ height \in Nat /\ owner \subseteq Contracts
         /\ \A s \in Contracts : inst[s] \in 0..height /\ row[s] \in 0..height /\ touch[s] \in 0..height
         /\ \A s \in Contracts : row[s] \in Nat /\ inst[s] \in Nat /\ touch[s] \in Nat
         /\ \A s \in Contracts : Listing!Touches[s] \in Nat
                               /\ Listing!Touches[s] = IF row[s] > 0 THEN touch[s] ELSE 0
         /\ Listing!Listed(row) \subseteq owner
<1>1. height \in Nat /\ owner \subseteq Contracts /\ Listing!Listed(row) \subseteq owner
  BY ListingAssumed DEF Listing!TypeOK
<1>2. /\ inst \in [Contracts -> 0..height] /\ row \in [Contracts -> 0..height]
      /\ touch \in [Contracts -> 0..height]
  BY DEF Listing!TypeOK
<1> QED BY <1>1, <1>2 DEF Listing!Touches

\* The size of a page is a number.
LEMMA PageSizeNat ==
  Listing!TypeOK => Listing!PageSize \in Nat
<1> SUFFICES ASSUME Listing!TypeOK PROVE Listing!PageSize \in Nat
  OBVIOUS
<1>1. client.asked \in Nat
  BY ListingAssumed DEF Listing!TypeOK
<1>2. Listing!Cardinality(Contracts) \in Nat
  BY SubsetCards
<1>3. Listing!Clamp(client.asked) \in Nat
  BY <1>1, ListingAssumed DEF Listing!Clamp
<1>4. Listing!GnomonClamp(client.asked) \in Nat
  BY <1>1, ListingAssumed DEF Listing!GnomonClamp
<1>5. Listing!ClassLimit(client.asked) \in Nat
  BY <1>2, <1>3 DEF Listing!ClassLimit
<1> QED BY <1>3, <1>4, <1>5 DEF Listing!PageSize

\* What a commit of the indexer does to what is listed.
RowsMove ==
  \A s \in Contracts :
    /\ row[s] = 0 => row'[s] \in {0, height'}
    /\ row[s] > 0 => row'[s] = row[s] \/ (row'[s] = height' /\ client'.moved = height')
    /\ touch'[s] \in {touch[s], height'}
    /\ row[s] > 0 /\ touch'[s] # touch[s] /\ client.begun => s \in client'.touched

ClientKeeps ==
  \E m \in {client.moved, height'}, T \in SUBSET owner' :
    client.touched \subseteq T /\ client' = [client EXCEPT !.moved = m, !.touched = T]

Committed ==
  /\ height' = height + 1 /\ height' \in 1..(MaxWrites + 1)
  /\ inst' \in [Contracts -> 0..height'] /\ row' \in [Contracts -> 0..height']
  /\ touch' \in [Contracts -> 0..height']
  /\ owner \subseteq owner' /\ owner' \subseteq Contracts
  /\ owner' = Listing!Listed(inst)' /\ Listing!Listed(row)' \subseteq owner'
  /\ RowsMove /\ ClientKeeps
  /\ UNCHANGED <<catalog, other, page>>

LEMMA CommitIs ==
  ASSUME Listing!TypeOK, Listing!OwnersLine,
         \/ \E s \in Contracts : Listing!IndexInstall(s) \/ Listing!IndexInvoke(s)
         \/ Listing!ImportRegistry
         \/ \E S \in SUBSET Contracts : Listing!ClassifyAll(S)
  PROVE  Committed
<1>1. /\ height \in Nat /\ owner \subseteq Contracts /\ Listing!Listed(row) \subseteq owner
      /\ inst \in [Contracts -> 0..height] /\ row \in [Contracts -> 0..height]
      /\ touch \in [Contracts -> 0..height]
      /\ client.touched \subseteq owner /\ client.moved \in Nat
      /\ client = [client EXCEPT !.moved = client.moved, !.touched = client.touched]
  BY ListingNumbers DEF Listing!TypeOK
<1>2. owner = Listing!Listed(inst)
  BY DEF Listing!OwnersLine
<1>3. /\ MaxWrites \in Nat /\ Registry \subseteq Contracts
      /\ \A f : Listing!Listed(f) = {s \in Contracts : f[s] > 0}
  BY ListingAssumed DEF Listing!Listed
<1>4. \A s \in Contracts : inst[s] \in 0..height /\ row[s] \in 0..height /\ touch[s] \in 0..height
                           /\ (inst[s] = 0 => row[s] = 0)
  BY <1>1, <1>2, <1>3
<1>5. ASSUME NEW s \in Contracts, Listing!IndexInstall(s) PROVE Committed
  <2>1. /\ height' = height + 1 /\ height < MaxWrites /\ inst[s] = 0
        /\ owner' = owner \union {s} /\ inst' = [inst EXCEPT ![s] = height']
        /\ row' = [row EXCEPT ![s] = height'] /\ touch' = [touch EXCEPT ![s] = height']
        /\ UNCHANGED <<catalog, other, page, client>>
    BY <1>5 DEF Listing!IndexInstall, Listing!Commit
  <2>2. /\ inst' \in [Contracts -> 0..height'] /\ row' \in [Contracts -> 0..height']
        /\ touch' \in [Contracts -> 0..height']
    BY <1>1, <2>1
  <2>3. \A t \in Contracts : /\ inst'[t] = IF t = s THEN height' ELSE inst[t]
                             /\ row'[t] = IF t = s THEN height' ELSE row[t]
                             /\ touch'[t] = IF t = s THEN height' ELSE touch[t]
    BY <1>1, <2>1
  <2>4. owner' = Listing!Listed(inst)' /\ Listing!Listed(row)' \subseteq owner'
    <3>1. \A t \in Contracts : inst'[t] > 0 <=> t = s \/ inst[t] > 0
      BY <1>1, <1>4, <2>1, <2>3
    <3>2. \A t \in Contracts : row'[t] > 0 => t = s \/ row[t] > 0
      BY <2>3
    <3>3. owner' = Listing!Listed(inst')
      BY <1>2, <1>3, <2>1, <3>1
    <3>4. Listing!Listed(row') \subseteq owner'
      BY <1>1, <1>3, <2>1, <3>2
    <3> QED BY <3>3, <3>4 DEF Listing!Listed
  <2>5. ClientKeeps
    <3>1. client.touched \in SUBSET owner' /\ client.moved \in {client.moved, height'}
      BY <1>1, <2>1
    <3> QED BY <1>1, <2>1, <3>1 DEF ClientKeeps
  <2>6. RowsMove
    BY <1>4, <2>1, <2>3 DEF RowsMove
  <2>7. /\ height' = height + 1 /\ height' \in 1..(MaxWrites + 1)
        /\ owner \subseteq owner' /\ owner' \subseteq Contracts
        /\ UNCHANGED <<catalog, other, page>>
    BY <1>1, <1>3, <2>1
  <2> QED BY <2>2, <2>4, <2>5, <2>6, <2>7 DEF Committed
<1>6. ASSUME NEW s \in Contracts, Listing!IndexInvoke(s) PROVE Committed
  <2>1. /\ height' = height + 1 /\ height < MaxWrites /\ s \in owner
        /\ touch' = [touch EXCEPT ![s] = height']
        /\ client' = [client EXCEPT !.touched = IF client.begun THEN @ \union {s} ELSE @]
        /\ UNCHANGED <<owner, inst, row, catalog, other, page>>
    BY <1>6 DEF Listing!IndexInvoke, Listing!Commit
  <2>2. /\ inst' \in [Contracts -> 0..height'] /\ row' \in [Contracts -> 0..height']
        /\ touch' \in [Contracts -> 0..height']
    BY <1>1, <2>1
  <2>3. \A t \in Contracts : touch'[t] = IF t = s THEN height' ELSE touch[t]
    BY <1>1, <2>1
  <2> DEFINE T == IF client.begun THEN client.touched \union {s} ELSE client.touched
  <2>4. client' = [client EXCEPT !.moved = client.moved, !.touched = T]
        /\ client'.touched = T
    BY <2>1 DEF Listing!TypeOK
  <2>5. T \in SUBSET owner' /\ client.touched \subseteq T /\ client.moved \in {client.moved, height'}
    BY <1>1, <2>1
  <2>6. client.begun => s \in T
    OBVIOUS
  <2> HIDE DEF T
  <2>7. ClientKeeps
    BY <2>4, <2>5 DEF ClientKeeps
  <2>8. RowsMove
    BY <1>4, <2>1, <2>3, <2>4, <2>6 DEF RowsMove
  <2>9. owner' = Listing!Listed(inst)' /\ Listing!Listed(row)' \subseteq owner'
    BY <1>1, <1>2, <2>1 DEF Listing!Listed
  <2> QED BY <1>1, <1>3, <2>1, <2>2, <2>7, <2>8, <2>9 DEF Committed
<1>7. ASSUME Listing!ImportRegistry PROVE Committed
  <2>1. /\ height' = height + 1 /\ height < MaxWrites /\ owner' = owner \union Registry
        /\ inst' = [s \in Contracts |-> IF s \in Registry THEN 1 ELSE inst[s]]
        /\ UNCHANGED <<row, touch, catalog, other, page, client>>
    BY <1>7 DEF Listing!ImportRegistry, Listing!Commit
  <2>2. /\ inst' \in [Contracts -> 0..height'] /\ row' \in [Contracts -> 0..height']
        /\ touch' \in [Contracts -> 0..height']
    BY <1>1, <2>1
  <2>3. owner' = Listing!Listed(inst)' /\ Listing!Listed(row)' \subseteq owner'
    <3>1. \A t \in Contracts : inst'[t] > 0 <=> t \in Registry \/ inst[t] > 0
      BY <2>1
    <3>2. owner' = Listing!Listed(inst')
      BY <1>2, <1>3, <2>1, <3>1
    <3>3. Listing!Listed(row') \subseteq owner'
      BY <1>1, <2>1
    <3> QED BY <3>2, <3>3 DEF Listing!Listed
  <2>4. ClientKeeps
    <3>1. client.touched \in SUBSET owner' /\ client.moved \in {client.moved, height'}
      BY <1>1, <2>1
    <3> QED BY <1>1, <2>1, <3>1 DEF ClientKeeps
  <2>5. RowsMove
    BY <1>4, <2>1 DEF RowsMove
  <2> QED BY <1>1, <1>3, <2>1, <2>2, <2>3, <2>4, <2>5 DEF Committed
<1>8. ASSUME NEW S \in SUBSET Contracts, Listing!ClassifyAll(S) PROVE Committed
  <2>1. /\ height' = height + 1 /\ height < MaxWrites /\ S \subseteq owner
        /\ row' = [s \in Contracts |-> IF s \in S THEN height' ELSE row[s]]
        /\ client' = [client EXCEPT !.moved = IF \E s \in S : row[s] > 0 THEN height' ELSE @]
        /\ UNCHANGED <<owner, inst, touch, catalog, other, page>>
    BY <1>8 DEF Listing!ClassifyAll, Listing!Commit
  <2>2. /\ inst' \in [Contracts -> 0..height'] /\ row' \in [Contracts -> 0..height']
        /\ touch' \in [Contracts -> 0..height']
    BY <1>1, <2>1
  <2> DEFINE m == IF \E s \in S : row[s] > 0 THEN height' ELSE client.moved
  <2>3. client' = [client EXCEPT !.moved = m, !.touched = client.touched] /\ client'.moved = m
    BY <2>1 DEF Listing!TypeOK
  <2>4. m \in {client.moved, height'} /\ \A s \in S : row[s] > 0 => m = height'
    OBVIOUS
  <2>5. owner' = Listing!Listed(inst)' /\ Listing!Listed(row)' \subseteq owner'
    <3>1. \A t \in Contracts : row'[t] > 0 => t \in S \/ row[t] > 0
      BY <2>1
    <3>2. Listing!Listed(row') \subseteq owner'
      BY <1>1, <1>3, <2>1, <3>1
    <3>3. owner' = Listing!Listed(inst')
      BY <1>2, <2>1
    <3> QED BY <3>2, <3>3 DEF Listing!Listed
  <2> HIDE DEF m
  <2>6. ClientKeeps
    <3>1. client.touched \in SUBSET owner'
      BY <1>1, <2>1
    <3> QED BY <2>3, <2>4, <3>1 DEF ClientKeeps
  <2>7. RowsMove
    BY <1>4, <2>1, <2>3, <2>4 DEF RowsMove
  <2> QED BY <1>1, <1>3, <2>1, <2>2, <2>5, <2>6, <2>7 DEF Committed
<1> QED BY <1>5, <1>6, <1>7, <1>8

LEMMA CommitClient ==
  ASSUME Listing!TypeOK, Committed
  PROVE  /\ client'.kind = client.kind /\ client'.asked = client.asked
         /\ client'.offset = client.offset /\ client'.seen = client.seen
         /\ client'.promised = client.promised /\ client'.begun = client.begun
         /\ client'.done = client.done /\ client'.tied = client.tied
         /\ client'.first = client.first /\ client'.served = client.served
         /\ client'.regressed = client.regressed
         /\ client'.moved \in {client.moved, height'} /\ client.touched \subseteq client'.touched
<1>1. PICK m \in {client.moved, height'}, T \in SUBSET owner' :
        client.touched \subseteq T /\ client' = [client EXCEPT !.moved = m, !.touched = T]
  BY DEF Committed, ClientKeeps
<1> QED BY <1>1 DEF Listing!TypeOK

LEMMA CommitTypes ==
  ASSUME Listing!TypeOK, Committed PROVE Listing!TypeOK'
<1>1. /\ height' \in 1..(MaxWrites + 1) /\ height' \in Nat
      /\ inst' \in [Contracts -> 0..height'] /\ row' \in [Contracts -> 0..height']
      /\ touch' \in [Contracts -> 0..height']
      /\ owner \subseteq owner' /\ owner' \subseteq Contracts
      /\ owner' = Listing!Listed(inst') /\ Listing!Listed(row') \subseteq owner'
  BY ListingAssumed DEF Committed, Listing!Listed
<1>2. PICK m \in {client.moved, height'}, T \in SUBSET owner' :
        client' = [client EXCEPT !.moved = m, !.touched = T]
  BY DEF Committed, ClientKeeps
<1>3. client' \in [kind : Listing!Kinds, asked : Asked, offset : Nat, seen : SUBSET owner',
                   promised : SUBSET owner', begun : BOOLEAN, done : BOOLEAN, moved : Nat,
                   touched : SUBSET owner', tied : BOOLEAN, first : Nat, served : Nat,
                   regressed : BOOLEAN]
  <2>1. client \in [kind : Listing!Kinds, asked : Asked, offset : Nat, seen : SUBSET owner',
                   promised : SUBSET owner', begun : BOOLEAN, done : BOOLEAN, moved : Nat,
                   touched : SUBSET owner', tied : BOOLEAN, first : Nat, served : Nat,
                   regressed : BOOLEAN]
    BY <1>1 DEF Listing!TypeOK
  <2>2. m \in Nat
    BY <1>1, <2>1
  <2> QED BY <1>2, <2>1, <2>2
<1>4. \A q \in Seq(owner) : q \in Seq(owner')
  BY <1>1
<1>5. /\ page' \in [step : {"idle", "owners", "build", "store"}, list : Seq(owner'), at : Nat,
                   owned : SUBSET owner']
      /\ catalog' \in [list : Seq(owner'), at : Nat, fresh : BOOLEAN]
      /\ other' \in [list : Seq(owner'), at : Nat, busy : BOOLEAN]
  <2>1. page' = page /\ catalog' = catalog /\ other' = other
    BY DEF Committed
  <2>2. /\ page \in [step : {"idle", "owners", "build", "store"}, list : Seq(owner), at : Nat,
                    owned : SUBSET owner]
        /\ catalog \in [list : Seq(owner), at : Nat, fresh : BOOLEAN]
        /\ other \in [list : Seq(owner), at : Nat, busy : BOOLEAN]
    BY DEF Listing!TypeOK
  <2> QED BY <1>1, <1>4, <2>1, <2>2
<1>6. Listing!Listed(row)' \union Listing!Listed(inst)' \subseteq owner'
  BY <1>1 DEF Listing!Listed
<1> QED BY <1>1, <1>3, <1>5, <1>6 DEF Listing!TypeOK

\* A commit that moves no row adds rows above the others.
LEMMA UnmovedPlaces ==
  ASSUME Listing!TypeOK, Committed, client'.moved <= height
  PROVE  /\ client'.moved = client.moved
         /\ \A s \in Contracts : row'[s] <= height => row'[s] = row[s]
         /\ \A s \in Listing!Listed(row) :
              row'[s] = row[s] /\ Listing!UpTo(row, s)' = Listing!UpTo(row, s)
<1>1. height \in Nat /\ height' = height + 1 /\ client'.moved \in {client.moved, height'}
  BY ListingNumbers, CommitClient DEF Committed
<1>2. client'.moved = client.moved /\ client'.moved # height'
  BY <1>1
<1>3. \A s \in Contracts :
        /\ row[s] \in 0..height
        /\ row[s] = 0 => row'[s] \in {0, height'}
        /\ row[s] > 0 => row'[s] = row[s]
  BY <1>2, ListingNumbers DEF Committed, RowsMove
<1>4. \A s \in Contracts : row'[s] <= height => row'[s] = row[s]
  BY <1>1, <1>3
<1>5. ASSUME NEW s \in Listing!Listed(row)
      PROVE  row'[s] = row[s] /\ Listing!UpTo(row, s)' = Listing!UpTo(row, s)
  <2>1. s \in Contracts /\ row[s] > 0 /\ row'[s] = row[s] /\ row[s] <= height
    BY <1>1, <1>3, <1>5 DEF Listing!Listed
  <2>2. \A t \in Contracts :
          /\ t \in Listing!Listed(row)' <=> row'[t] > 0
          /\ t \in Listing!Listed(row) <=> row[t] > 0
    BY DEF Listing!Listed
  <2>3. \A t \in Contracts :
          (row'[t] > 0 /\ (row'[t] < row'[s] \/ (row'[t] = row'[s] /\ t <= s)))
            <=> (row[t] > 0 /\ (row[t] < row[s] \/ (row[t] = row[s] /\ t <= s)))
    BY <1>1, <1>3, <2>1
  <2>4. /\ Listing!UpTo(row, s)' =
             {t \in Contracts : row'[t] > 0 /\ (row'[t] < row'[s] \/ (row'[t] = row'[s] /\ t <= s))}
        /\ Listing!UpTo(row, s) =
             {t \in Contracts : row[t] > 0 /\ (row[t] < row[s] \/ (row[t] = row[s] /\ t <= s))}
    BY DEF Listing!UpTo, Listing!Listed
  <2> QED BY <2>1, <2>3, <2>4
<1> QED BY <1>2, <1>4, <1>5

\* What excuses a contract goes on excusing it.
LEMMA ExcusesStay ==
  ASSUME Listing!TypeOK, Listing!ClockLine, Committed
  PROVE  /\ \A s : Listing!Excused(s) => Listing!Excused(s)'
         /\ Listing!Shifted => Listing!Shifted'
         /\ ~Listing!Shifted' => client'.moved <= height
<1>1. /\ client.moved \in Nat /\ client.first \in Nat /\ height \in Nat
      /\ client.moved <= height /\ client.first <= height /\ height' = height + 1
  BY ListingNumbers DEF Listing!TypeOK, Listing!ClockLine, Committed
<1>2. /\ client'.kind = client.kind /\ client'.tied = client.tied
      /\ client'.first = client.first /\ client'.regressed = client.regressed
      /\ client'.moved \in {client.moved, height'} /\ client.touched \subseteq client'.touched
  BY CommitClient
<1>3. (Listing!Shifted => Listing!Shifted') /\ (~Listing!Shifted' => client'.moved <= height)
  BY <1>1, <1>2 DEF Listing!Shifted
<1> QED BY <1>2, <1>3 DEF Listing!Excused

\* A contract that is owed does not come to an earlier place.
LEMMA PlacesGrow ==
  ASSUME Listing!ReadInv, Committed, client.kind \notin Listing!SingleKinds,
         NEW s \in client.promised, ~Listing!Excused(s)'
  PROVE  /\ Listing!Place(s) \in Nat /\ Listing!Place(s)' \in Nat
         /\ Listing!Place(s) <= Listing!Place(s)'
         /\ client.kind \in Listing!ClassKinds => Listing!Place(s)' = Listing!Place(s)
<1>1. /\ Listing!TypeOK /\ Listing!ClockLine /\ Listing!PromisedLine /\ Listing!StepLine
      /\ client'.kind = client.kind /\ client.kind \in Listing!Kinds
  BY CommitClient DEF Listing!ReadInv, Listing!TypeOK
<1>2. owner \subseteq owner' /\ owner' \subseteq Contracts
  BY DEF Committed
<1>3. CASE client.kind = "listsc"
  <2>1. /\ Listing!Place(s) = Listing!Cardinality({t \in owner : t <= s})
        /\ Listing!Place(s)' = Listing!Cardinality({t \in owner' : t <= s})
    BY <1>1, <1>3, SameCard DEF Listing!Place, Listing!Cardinality
  <2>2. {t \in owner : t <= s} \subseteq {t \in owner' : t <= s}
        /\ {t \in owner' : t <= s} \subseteq Contracts
    BY <1>2
  <2>3. client.kind \notin Listing!ClassKinds
    BY <1>3 DEF Listing!ClassKinds
  <2> QED BY <2>1, <2>2, <2>3, SubsetCards
<1>4. CASE client.kind = "touched"
  <2>1. /\ Listing!Place(s) = Listing!Cardinality(Listing!DownTo(Listing!Touches, s))
        /\ Listing!Place(s)' = Listing!Cardinality(Listing!DownTo(Listing!Touches, s)')
    BY <1>1, <1>4 DEF Listing!Place, Listing!Cardinality
  <2>2. /\ s \in Contracts /\ row[s] > 0 /\ client.begun
        /\ s \notin client'.touched
    BY <1>1, <1>4, ListingNumbers
       DEF Listing!PromisedLine, Listing!Listed, Listing!StepLine, Listing!Excused
  <2>3. \A t \in Contracts : /\ Listing!Touches[t] = IF row[t] > 0 THEN touch[t] ELSE 0
                             /\ Listing!Touches[t]' = IF row'[t] > 0 THEN touch'[t] ELSE 0
    BY DEF Listing!Touches
  <2>4. /\ \A t \in Contracts : row[t] \in 0..height /\ touch[t] \in 0..height /\ t \in Nat
        /\ height \in Nat /\ height' = height + 1
    BY <1>1, ListingNumbers, ListingAssumed DEF Committed
  <2>5. \A t \in Contracts : row[t] > 0 => row'[t] > 0 /\ touch'[t] >= touch[t]
    BY <2>4 DEF Committed, RowsMove
  <2>6. Listing!Touches[s]' = Listing!Touches[s]
    BY <2>2, <2>3, <2>5 DEF Committed, RowsMove
  <2>7. \A t \in Contracts : Listing!Touches[t] > 0 => Listing!Touches[t]' >= Listing!Touches[t]
                             /\ Listing!Touches[t] \in Nat /\ Listing!Touches[t]' \in Nat
    BY <2>3, <2>4, <2>5 DEF Committed
  <2>8. /\ Listing!DownTo(Listing!Touches, s) =
             {t \in Contracts : Listing!Touches[t] > 0 /\
                (Listing!Touches[t] > Listing!Touches[s]
                   \/ (Listing!Touches[t] = Listing!Touches[s] /\ t <= s))}
        /\ Listing!DownTo(Listing!Touches, s)' =
             {t \in Contracts : Listing!Touches[t]' > 0 /\
                (Listing!Touches[t]' > Listing!Touches[s]'
                   \/ (Listing!Touches[t]' = Listing!Touches[s]' /\ t <= s))}
    BY DEF Listing!DownTo, Listing!Listed
  <2>9. Listing!Touches[s] \in Nat
    BY <2>2, <2>3, <2>4
  <2>10. Listing!DownTo(Listing!Touches, s) \subseteq Listing!DownTo(Listing!Touches, s)'
         /\ Listing!DownTo(Listing!Touches, s)' \subseteq Contracts
    BY <2>6, <2>7, <2>8, <2>9
  <2>11. client.kind \notin Listing!ClassKinds
    BY <1>4 DEF Listing!ClassKinds
  <2> QED BY <2>1, <2>10, <2>11, SubsetCards
<1>5. CASE client.kind \notin {"listsc", "touched"}
  <2>1. /\ Listing!Place(s) = Listing!Cardinality(Listing!UpTo(row, s))
        /\ Listing!Place(s)' = Listing!Cardinality(Listing!UpTo(row, s)')
    BY <1>1, <1>5 DEF Listing!Place, Listing!Cardinality
  <2>2. /\ client.kind \in (Listing!ClassKinds \ Listing!SingleKinds) \union {"created", "assets"}
    BY <1>1, <1>5 DEF Listing!Kinds, Listing!ClassKinds, Listing!SingleKinds
  <2>3. ~Listing!Shifted'
    BY <1>1, <2>2 DEF Listing!Excused
  <2>4. client'.moved <= height /\ ~Listing!Shifted
    BY <1>1, <2>3, ExcusesStay
  <2>5. s \in Listing!Listed(row)
    <3>1. row[s] \in 1..client.first /\ s \in Contracts /\ client.first \in Nat
      BY <1>1, <2>2, <2>4, ListingNumbers DEF Listing!PromisedLine, Listing!TypeOK
    <3> QED BY <3>1 DEF Listing!Listed
  <2>6. Listing!UpTo(row, s)' = Listing!UpTo(row, s)
    BY <1>1, <2>4, <2>5, UnmovedPlaces
  <2>7. Listing!Cardinality(Listing!UpTo(row, s)) \in Nat
    <3>1. Listing!UpTo(row, s) \subseteq Contracts
      BY DEF Listing!UpTo, Listing!Listed
    <3> QED BY <3>1, SubsetCards
  <2> QED BY <2>1, <2>6, <2>7
<1> QED BY <1>3, <1>4, <1>5

\* Snapshot, of a list and a height and the rows after a step.
SnapshotNext(q, at) ==
  client'.moved <= at =>
    /\ \A s \in Listing!Listed(row') :
         row'[s] <= at => Listing!Holds(q, Listing!Cardinality(Listing!UpTo(row', s)), s)
    /\ \A i \in DOMAIN q : row'[q[i]] \in 1..at

LEMMA SnapshotStays ==
  ASSUME Listing!TypeOK, Committed, NEW q \in Seq(owner), NEW at \in 0..height,
         Listing!Snapshot(q, at)
  PROVE  SnapshotNext(q, at)
<1> SUFFICES ASSUME client'.moved <= at
             PROVE  /\ \A s \in Listing!Listed(row') : row'[s] <= at =>
                         Listing!Holds(q, Listing!Cardinality(Listing!UpTo(row', s)), s)
                    /\ \A i \in DOMAIN q : row'[q[i]] \in 1..at
  BY DEF SnapshotNext
<1>0. q \in Seq(Contracts)
  BY ListingNumbers
<1>1. height \in Nat /\ client'.moved \in Nat /\ client'.moved <= height /\ height' = height + 1
  <2>1. height \in Nat /\ client'.moved \in {client.moved, height'}
    BY ListingNumbers, CommitClient
  <2>2. height' = height + 1 /\ client.moved \in Nat
    BY DEF Committed, Listing!TypeOK
  <2> QED BY <2>1, <2>2
<1>2. /\ client'.moved = client.moved
      /\ \A s \in Contracts : row'[s] <= height => row'[s] = row[s]
      /\ \A s \in Listing!Listed(row) :
           row'[s] = row[s] /\ Listing!UpTo(row, s)' = Listing!UpTo(row, s)
  BY <1>1, UnmovedPlaces
<1>3. ASSUME NEW s \in Listing!Listed(row'), row'[s] <= at
      PROVE  Listing!Holds(q, Listing!Cardinality(Listing!UpTo(row', s)), s)
  <2>1. s \in Contracts /\ row'[s] > 0 /\ row'[s] <= height
    BY <1>1, <1>3 DEF Listing!Listed, Committed
  <2>2. row'[s] = row[s]
    BY <1>2, <2>1
  <2>3. s \in Listing!Listed(row) /\ row[s] <= at
    BY <1>3, <2>1, <2>2 DEF Listing!Listed
  <2>4. Listing!UpTo(row', s) = Listing!UpTo(row, s)
    BY <1>2, <2>3 DEF Listing!UpTo, Listing!Listed
  <2>5. Listing!Holds(q, Listing!Cardinality(Listing!UpTo(row, s)), s)
    BY <1>2, <2>3 DEF Listing!Snapshot
  <2> QED BY <2>4, <2>5
<1>4. ASSUME NEW i \in DOMAIN q PROVE row'[q[i]] \in 1..at
  <2>1. row[q[i]] \in 1..at /\ q[i] \in Contracts
    BY <1>0, <1>2 DEF Listing!Snapshot
  <2>2. row[q[i]] > 0
    BY <2>1
  <2>3. q[i] \in Listing!Listed(row)
    BY <2>1, <2>2 DEF Listing!Listed
  <2> QED BY <1>2, <2>1, <2>3
<1> QED BY <1>3, <1>4

\* The invariant holds after a commit.
LEMMA CommitKeeps ==
  ASSUME Listing!ReadInv, Committed PROVE Listing!ReadInv'
<1>1. /\ Listing!TypeOK /\ Listing!OwnersLine /\ Listing!ClockLine /\ Listing!StepLine
      /\ Listing!CatalogLine /\ Listing!PromisedLine /\ Listing!PageLine /\ Listing!SeenLine
      /\ Listing!PagesCover
  BY DEF Listing!ReadInv
<1>2. /\ client'.kind = client.kind /\ client'.asked = client.asked
      /\ client'.offset = client.offset /\ client'.seen = client.seen
      /\ client'.promised = client.promised /\ client'.begun = client.begun
      /\ client'.done = client.done /\ client'.tied = client.tied
      /\ client'.first = client.first /\ client'.served = client.served
      /\ client'.regressed = client.regressed
      /\ client'.moved \in {client.moved, height'} /\ client.touched \subseteq client'.touched
  BY <1>1, CommitClient
<1>3. catalog' = catalog /\ other' = other /\ page' = page /\ height' = height + 1
      /\ height \in Nat /\ owner \subseteq owner'
  BY <1>1, ListingNumbers DEF Committed
<1>4. /\ \A s : Listing!Due(s)' => Listing!Due(s)
      /\ Listing!Shifted => Listing!Shifted'
      /\ ~Listing!Shifted' => client'.moved <= height
  BY <1>1, <1>2, ExcusesStay DEF Listing!Due
<1>5. Listing!TypeOK'
  BY <1>1, CommitTypes
<1>6. Listing!OwnersLine'
  BY <1>1, <1>3 DEF Listing!OwnersLine, Committed, Listing!ToSet
<1>7. Listing!ClockLine'
  BY <1>1, <1>2, <1>3 DEF Listing!ClockLine
<1>8. Listing!StepLine'
  BY <1>1, <1>2, <1>3 DEF Listing!StepLine
<1>9. Listing!CatalogLine'
  <2>1. /\ catalog.list \in Seq(owner) /\ other.list \in Seq(owner) /\ page.list \in Seq(owner)
        /\ catalog.at \in 0..height /\ other.at \in 0..height /\ page.at \in 0..height
    BY <1>1 DEF Listing!TypeOK, Listing!ClockLine
  <2>2. /\ SnapshotNext(catalog.list, catalog.at)
        /\ other.busy => SnapshotNext(other.list, other.at)
        /\ page.step \in {"build", "store"} => SnapshotNext(page.list, page.at)
    BY <1>1, <2>1, SnapshotStays DEF Listing!CatalogLine
  <2> QED BY <1>3, <2>2
          DEF Listing!CatalogLine, Listing!Snapshot, SnapshotNext, Listing!Listed, Listing!Holds,
              Listing!UpTo, Listing!Cardinality
<1>10. Listing!PromisedLine'
  <2>1. ASSUME client.kind \in (Listing!ClassKinds \ Listing!SingleKinds) \union {"created", "assets"},
               ~Listing!Shifted', NEW s \in client.promised
        PROVE  row'[s] \in 1..client.first
    <3>1. row[s] \in 1..client.first /\ s \in Contracts /\ client.first \in Nat
      BY <1>1, <1>4, <2>1, ListingNumbers DEF Listing!PromisedLine, Listing!TypeOK
    <3>2. s \in Listing!Listed(row)
      BY <3>1 DEF Listing!Listed
    <3>3. row'[s] = row[s]
      BY <1>1, <1>4, <2>1, <3>2, UnmovedPlaces
    <3> QED BY <3>1, <3>3
  <2>2. ASSUME client.kind = "touched", NEW s \in client.promised
        PROVE  s \in Listing!Listed(Listing!Touches)'
    <3>1. s \in Contracts /\ Listing!Touches[s] > 0
      BY <1>1, <2>2 DEF Listing!PromisedLine, Listing!Listed
    <3>2. row[s] > 0 /\ touch[s] > 0
      BY <1>1, <3>1, ListingNumbers
    <3>3. row'[s] > 0 /\ touch'[s] > 0
      BY <1>3, <3>1, <3>2 DEF Committed, RowsMove
    <3> QED BY <3>1, <3>3 DEF Listing!Listed, Listing!Touches
  <2> QED BY <1>2, <2>1, <2>2 DEF Listing!PromisedLine
<1>11. Listing!PageLine'
  <2>1. ASSUME page.step = "owners", client.kind \in Listing!SingleKinds, NEW s \in client.promised
        PROVE  \E i \in 1..Listing!PageSize : Listing!Holds(page.list, i, s)
    BY <1>1, <2>1 DEF Listing!PageLine
  <2>2. ASSUME page.step = "owners", client.kind \notin Listing!SingleKinds,
               NEW s \in client.promised, Listing!Due(s)'
        PROVE  Listing!Holds(page.list, Listing!Place(s)', s)
    <3>1. client.kind \in Listing!ClassKinds
      BY <1>1, <2>2 DEF Listing!StepLine, Listing!SingleKinds
    <3>2. Listing!Place(s)' = Listing!Place(s)
      BY <2>2, <3>1, PlacesGrow DEF Listing!Due
    <3>3. Listing!Holds(page.list, Listing!Place(s), s)
      BY <1>1, <1>4, <2>2 DEF Listing!PageLine
    <3> QED BY <3>2, <3>3
  <2>3. Listing!PageSize' = Listing!PageSize
    BY <1>2 DEF Listing!PageSize, Listing!ClassLimit, Listing!Clamp, Listing!GnomonClamp,
                Listing!Cardinality
  <2> QED BY <1>2, <1>3, <2>1, <2>2, <2>3 DEF Listing!PageLine, Listing!Holds
<1>12. Listing!SeenLine'
  <2>1. ASSUME client.kind \notin Listing!SingleKinds, NEW s \in client.promised,
               Listing!Due(s)', Listing!Place(s)' <= client.offset
        PROVE  s \in client.seen
    <3>1. /\ Listing!Place(s) \in Nat /\ Listing!Place(s)' \in Nat
          /\ Listing!Place(s) <= Listing!Place(s)'
      BY <2>1, PlacesGrow DEF Listing!Due
    <3>2. client.offset \in Nat
      BY <1>1 DEF Listing!TypeOK
    <3>3. Listing!Place(s) <= client.offset
      BY <2>1, <3>1, <3>2
    <3> QED BY <1>1, <1>4, <2>1, <3>3 DEF Listing!SeenLine
  <2> QED BY <1>2, <2>1 DEF Listing!SeenLine
<1>13. Listing!PagesCover'
  BY <1>1, <1>2, ExcusesStay DEF Listing!PagesCover
<1> QED BY <1>5, <1>6, <1>7, <1>8, <1>9, <1>10, <1>11, <1>12, <1>13 DEF Listing!ReadInv

\* A read of the client writes nothing of the index.
Still == UNCHANGED <<height, owner, inst, row, touch>>

LEMMA StillPlaces ==
  ASSUME Still, client'.kind = client.kind, client'.asked = client.asked
  PROVE  /\ \A s : Listing!Place(s)' = Listing!Place(s)
         /\ Listing!PageSize' = Listing!PageSize
         /\ Listing!Listed(Listing!Touches)' = Listing!Listed(Listing!Touches)
         /\ Listing!OwnersLine => owner = Listing!Listed(inst)'
<1>1. Listing!Touches' = Listing!Touches
  BY DEF Still, Listing!Touches
<1>2. Listing!PageSize' = Listing!PageSize
  BY DEF Listing!PageSize, Listing!ClassLimit, Listing!Clamp, Listing!GnomonClamp,
         Listing!Cardinality
<1>3. \A s : Listing!Place(s)' = Listing!Place(s)
  BY <1>1 DEF Still, Listing!Place, Listing!UpTo, Listing!DownTo, Listing!Listed,
              Listing!Cardinality
<1>4. Listing!Listed(Listing!Touches)' = Listing!Listed(Listing!Touches)
  BY <1>1 DEF Listing!Listed
<1>5. Listing!OwnersLine => owner = Listing!Listed(inst)'
  BY DEF Still, Listing!OwnersLine, Listing!Listed
<1> QED BY <1>2, <1>3, <1>4, <1>5

\* The catalogs and the request after a step.
CachesKeep ==
  /\ catalog' \in [list : Seq(owner), at : Nat, fresh : BOOLEAN]
  /\ other' \in [list : Seq(owner), at : Nat, busy : BOOLEAN]
  /\ page' \in [step : {"idle", "owners", "build", "store"}, list : Seq(owner), at : Nat,
                owned : SUBSET owner]
  /\ \A n \in {catalog'.at, other'.at, page'.at} : n \in 0..height
  /\ page'.step = "store" => Listing!ToSet(page'.list) \subseteq page'.owned
  /\ Listing!CatalogLine'

\* What the answer of a page does to the client.
Replied(q, at, os, pr) ==
  /\ client'.kind = client.kind /\ client'.asked = client.asked
  /\ client'.moved = client.moved /\ client'.touched = client.touched
  /\ client'.tied = client.tied
  /\ client'.seen = client.seen \union
       ({q[i] : i \in Listing!Window(Len(q), client.offset, Listing!PageSize)} \intersect os)
  /\ client'.promised = (IF client.begun THEN client.promised ELSE pr)
  /\ client'.first = (IF client.begun THEN client.first ELSE at)
  /\ client'.begun = TRUE
  /\ client'.offset = client.offset + Listing!PageSize
  /\ client'.done = (client.kind \in Listing!SingleKinds
                       \/ client.offset + Listing!PageSize >= Len(q))
  /\ client'.regressed = (client.regressed \/ at < client.served)
  /\ client'.served = at

LEMMA ReplyIs ==
  ASSUME Listing!TypeOK, NEW q, NEW at \in Nat, NEW os, NEW f,
         q \in Seq(owner), os \subseteq owner, Listing!Reply(q, at, os, f)
  PROVE  /\ Replied(q, at, os, Listing!Promised(q, f) \intersect os)
         /\ page' = Listing!NoPage
         /\ client' \in [kind : Listing!Kinds, asked : Asked, offset : Nat, seen : SUBSET owner,
                         promised : SUBSET owner, begun : BOOLEAN, done : BOOLEAN, moved : Nat,
                         touched : SUBSET owner, tied : BOOLEAN, first : Nat, served : Nat,
                         regressed : BOOLEAN]
<1> DEFINE given == {q[i] : i \in Listing!Window(Len(q), client.offset, Listing!PageSize)}
                      \intersect os
           seen == client.seen \union given
           pr == Listing!Promised(q, f) \intersect os
           promised == IF client.begun THEN client.promised ELSE pr
           first == IF client.begun THEN client.first ELSE at
           offset == client.offset + Listing!PageSize
           done == client.kind \in Listing!SingleKinds
                     \/ client.offset + Listing!PageSize >= Len(q)
           regressed == client.regressed \/ at < client.served
<1>1. client' = [client EXCEPT !.seen = seen, !.promised = promised, !.first = first,
                   !.begun = TRUE, !.offset = offset, !.done = done, !.regressed = regressed,
                   !.served = at]
      /\ page' = Listing!NoPage
  BY DEF Listing!Reply, Listing!Len
<1>2. client \in [kind : Listing!Kinds, asked : Asked, offset : Nat, seen : SUBSET owner,
                  promised : SUBSET owner, begun : BOOLEAN, done : BOOLEAN, moved : Nat,
                  touched : SUBSET owner, tied : BOOLEAN, first : Nat, served : Nat,
                  regressed : BOOLEAN]
  BY DEF Listing!TypeOK
<1>3. seen \in SUBSET owner /\ promised \in SUBSET owner
  BY <1>2
<1>4. first \in Nat /\ offset \in Nat
  BY <1>2, PageSizeNat
<1>5. done \in BOOLEAN /\ regressed \in BOOLEAN
  <2>1. client.regressed \in BOOLEAN
    BY <1>2
  <2> QED BY <2>1, Zenon
<1> HIDE DEF seen, promised, first, offset, done, regressed
<1>6. client' \in [kind : Listing!Kinds, asked : Asked, offset : Nat, seen : SUBSET owner,
                   promised : SUBSET owner, begun : BOOLEAN, done : BOOLEAN, moved : Nat,
                   touched : SUBSET owner, tied : BOOLEAN, first : Nat, served : Nat,
                   regressed : BOOLEAN]
  BY <1>1, <1>2, <1>3, <1>4, <1>5
<1>7. /\ client'.kind = client.kind /\ client'.asked = client.asked
      /\ client'.moved = client.moved /\ client'.touched = client.touched
      /\ client'.tied = client.tied /\ client'.seen = seen /\ client'.promised = promised
      /\ client'.first = first /\ client'.begun = TRUE /\ client'.offset = offset
      /\ client'.done = done /\ client'.regressed = regressed /\ client'.served = at
  BY <1>1, <1>2
<1>8. Replied(q, at, os, pr)
  BY <1>7, Zenon DEF Replied, seen, promised, first, offset, done, regressed
<1> QED BY <1>1, <1>6, <1>8

\* What is at a place of the window is in the answer.
LEMMA InWindow ==
  ASSUME Listing!TypeOK, NEW q \in Seq(owner), NEW os, NEW at, NEW pr, Replied(q, at, os, pr),
         NEW s \in os, NEW n, Listing!Holds(q, n, s)
  PROVE  /\ n \in 1..Len(q)
         /\ n > client.offset /\ n <= client.offset + Listing!PageSize => s \in client'.seen
<1>1. client.offset \in Nat /\ Listing!PageSize \in Nat /\ Len(q) \in Nat
      /\ DOMAIN q = 1..Len(q)
  <2>1. client.offset \in Nat
    BY DEF Listing!TypeOK
  <2> QED BY <2>1, PageSizeNat
<1>2. n \in 1..Len(q) /\ q[n] = s
  BY <1>1 DEF Listing!Holds
<1>3. ASSUME n > client.offset, n <= client.offset + Listing!PageSize PROVE s \in client'.seen
  <2>1. n \in Listing!Window(Len(q), client.offset, Listing!PageSize)
    BY <1>1, <1>2, <1>3 DEF Listing!Window
  <2>2. s \in {q[i] : i \in Listing!Window(Len(q), client.offset, Listing!PageSize)}
    BY <1>2, <2>1
  <2> QED BY <2>2 DEF Replied
<1> QED BY <1>2, <1>3

\* The list of the answer has what is owed at its place.
Answers(q, os, promised) ==
  IF client.kind \in Listing!SingleKinds
  THEN \A s \in promised : s \in os /\ \E i \in 1..Listing!PageSize : Listing!Holds(q, i, s)
  ELSE \A s \in promised :
         ~Listing!Excused(s)' => s \in os /\ Listing!Holds(q, Listing!Place(s), s)

\* What is promised after an answer, and by the first one pr.
Owed(pr) == IF client.begun THEN client.promised ELSE pr

\* What a first page promises has not moved.
Promises(pr, at) ==
  /\ client.kind \in (Listing!ClassKinds \ Listing!SingleKinds) \union {"created", "assets"}
     /\ client.moved <= at => \A s \in pr : row[s] \in 1..at
  /\ client.kind = "touched" => pr \subseteq Listing!Listed(Listing!Touches)

\* The invariant holds after an answer.
LEMMA ReplyKeeps ==
  ASSUME Listing!ReadInv, Still, CachesKeep, page' = Listing!NoPage,
         client.kind \in Listing!SingleKinds => ~client.done,
         NEW q \in Seq(owner), NEW at \in 0..height, NEW os \in SUBSET owner,
         NEW f, Listing!Reply(q, at, os, f),
         NEW pr, pr = Listing!Promised(q, f) \intersect os,
         Answers(q, os, Owed(pr)),
         ~client.begun => Promises(pr, at)
  PROVE  Listing!ReadInv'
<1>1. /\ Listing!TypeOK /\ Listing!OwnersLine /\ Listing!ClockLine /\ Listing!StepLine
      /\ Listing!PromisedLine /\ Listing!SeenLine
  BY DEF Listing!ReadInv
<1>2. height \in Nat /\ at \in Nat /\ at <= height
  BY <1>1, ListingNumbers
<1>3. /\ Replied(q, at, os, pr)
      /\ client' \in [kind : Listing!Kinds, asked : Asked, offset : Nat, seen : SUBSET owner,
                      promised : SUBSET owner, begun : BOOLEAN, done : BOOLEAN, moved : Nat,
                      touched : SUBSET owner, tied : BOOLEAN, first : Nat, served : Nat,
                      regressed : BOOLEAN]
  BY <1>1, <1>2, ReplyIs
<1>4. /\ client'.kind = client.kind /\ client'.asked = client.asked
      /\ client'.moved = client.moved /\ client'.touched = client.touched
      /\ client'.tied = client.tied /\ client'.begun = TRUE /\ client'.served = at
      /\ client'.promised = Owed(pr) /\ (client.begun => Owed(pr) = client.promised)
      /\ (~client.begun => Owed(pr) = pr)
      /\ client'.first = (IF client.begun THEN client.first ELSE at)
      /\ client'.offset = client.offset + Listing!PageSize
      /\ client.seen \subseteq client'.seen
      /\ client.regressed => client'.regressed
  BY <1>3 DEF Replied, Owed
<1>5. /\ \A s : Listing!Place(s)' = Listing!Place(s)
      /\ Listing!Listed(Listing!Touches)' = Listing!Listed(Listing!Touches)
      /\ owner = Listing!Listed(inst)'
  BY <1>1, <1>4, StillPlaces
<1>6. client.offset \in Nat /\ Listing!PageSize \in Nat /\ page'.step = "idle"
  <2>1. client.offset \in Nat
    BY <1>1 DEF Listing!TypeOK
  <2> QED BY <1>1, <2>1, PageSizeNat DEF Listing!NoPage
<1>7. client.begun => /\ client'.first = client.first
                      /\ Listing!Shifted' = Listing!Shifted
                      /\ \A s : Listing!Excused(s) => Listing!Excused(s)'
  BY <1>4 DEF Listing!Shifted, Listing!Excused
<1>8. Listing!TypeOK'
  BY <1>1, <1>3 DEF Listing!TypeOK, Still, CachesKeep, Listing!Listed
<1>9. Listing!OwnersLine'
  BY <1>1, <1>5, <1>6 DEF Listing!OwnersLine, Still
<1>10. Listing!ClockLine'
  <2>1. client'.moved \in 0..height /\ client'.first \in 0..height /\ client'.served \in 0..height
    BY <1>1, <1>2, <1>4 DEF Listing!ClockLine
  <2>2. \A n \in {client'.moved, client'.first, client'.served, catalog'.at, other'.at, page'.at} :
          n \in 0..height'
    BY <2>1 DEF CachesKeep, Still
  <2>3. ASSUME client.kind = "assets", ~client'.regressed
        PROVE  client'.first <= client'.served
    <3>1. ~(at < client.served) /\ ~client.regressed
      BY <1>3, <2>3 DEF Replied
    <3>2. client.served \in Nat /\ client.first \in Nat
      BY <1>1 DEF Listing!TypeOK
    <3>3. client.begun => client.first <= client.served
      BY <1>1, <2>3, <3>1 DEF Listing!ClockLine
    <3> QED BY <1>2, <1>4, <3>1, <3>2, <3>3
  <2> QED BY <1>4, <2>2, <2>3 DEF Listing!ClockLine
<1>11. Listing!StepLine'
  BY <1>3, <1>4, <1>6 DEF Listing!StepLine, Replied
<1>12. Listing!CatalogLine'
  BY DEF CachesKeep
<1>13. Listing!PromisedLine'
  <2>1. CASE client.begun
    BY <1>1, <1>4, <1>5, <1>7, <2>1 DEF Listing!PromisedLine, Still
  <2>2. CASE ~client.begun
    <3>1. client'.promised = pr /\ client'.first = at /\ Promises(pr, at)
      BY <1>4, <2>2
    <3>2. ~Listing!Shifted' => client.moved <= at
      <4>1. client.moved \in Nat
        BY <1>1 DEF Listing!TypeOK
      <4> QED BY <1>2, <1>4, <3>1, <4>1 DEF Listing!Shifted
    <3> QED BY <1>4, <1>5, <3>1, <3>2 DEF Listing!PromisedLine, Promises, Still
  <2> QED BY <2>1, <2>2
<1>14. Listing!PageLine'
  BY <1>6 DEF Listing!PageLine
<1>15. ASSUME client.kind \notin Listing!SingleKinds, NEW s \in client'.promised,
              ~Listing!Excused(s)'
       PROVE  /\ Listing!Place(s) \in 1..Len(q)
              /\ Listing!Place(s) <= client'.offset => s \in client'.seen
  <2>1. s \in os /\ Listing!Holds(q, Listing!Place(s), s)
    BY <1>4, <1>15 DEF Answers
  <2>2. /\ Listing!Place(s) \in 1..Len(q)
        /\ Listing!Place(s) > client.offset
             /\ Listing!Place(s) <= client.offset + Listing!PageSize => s \in client'.seen
    BY <1>1, <1>3, <2>1, InWindow
  <2>3. ASSUME Listing!Place(s) <= client.offset PROVE s \in client'.seen
    <3>1. client.begun
      <4>1. ~client.begun => client.offset = 0
        BY <1>1 DEF Listing!StepLine
      <4> QED BY <2>2, <2>3, <4>1
    <3>2. Listing!Due(s)
      BY <1>4, <1>7, <1>15, <3>1 DEF Listing!Due
    <3> QED BY <1>1, <1>4, <1>15, <2>3, <3>2 DEF Listing!SeenLine, Listing!Due
  <2> QED BY <1>4, <1>6, <2>2, <2>3
<1>16. Listing!SeenLine'
  BY <1>4, <1>5, <1>15 DEF Listing!SeenLine, Listing!Due
<1>17. Listing!PagesCover'
  <2>1. ASSUME client'.done, NEW s \in client'.promised, ~Listing!Excused(s)'
        PROVE  s \in client'.seen
    <3>1. CASE client.kind \in Listing!SingleKinds
      <4>1. client.offset = 0
        BY <1>1, <3>1 DEF Listing!StepLine
      <4>2. PICK i \in 1..Listing!PageSize : s \in os /\ Listing!Holds(q, i, s)
        BY <1>4, <2>1, <3>1 DEF Answers
      <4>3. i > client.offset /\ i <= client.offset + Listing!PageSize
        BY <1>6, <4>1
      <4> QED BY <1>1, <1>3, <4>2, <4>3, InWindow
    <3>2. CASE client.kind \notin Listing!SingleKinds
      <4>1. client'.offset >= Len(q)
        BY <1>3, <1>4, <2>1, <3>2 DEF Replied
      <4>2. client'.offset \in Nat /\ Len(q) \in Nat
        BY <1>4, <1>6
      <4>3. Listing!Place(s) \in 1..Len(q)
            /\ (Listing!Place(s) <= client'.offset => s \in client'.seen)
        BY <1>15, <2>1, <3>2
      <4> QED BY <4>1, <4>2, <4>3
    <3> QED BY <3>1, <3>2
  <2> QED BY <2>1 DEF Listing!PagesCover
<1> QED BY <1>8, <1>9, <1>10, <1>11, <1>12, <1>13, <1>14, <1>16, <1>17 DEF Listing!ReadInv

LEMMA SnapshotSame ==
  ASSUME Still, client'.moved = client.moved
  PROVE  \A q, at : Listing!Snapshot(q, at) => SnapshotNext(q, at)
<1>1. row' = row
  BY DEF Still
<1> QED BY <1>1 DEF Listing!Snapshot, SnapshotNext

LEMMA CatalogNext ==
  ASSUME SnapshotNext(catalog'.list, catalog'.at),
         other'.busy => SnapshotNext(other'.list, other'.at),
         page'.step \in {"build", "store"} => SnapshotNext(page'.list, page'.at)
  PROVE  Listing!CatalogLine'
BY DEF Listing!CatalogLine, Listing!Snapshot, SnapshotNext, Listing!Listed, Listing!Holds,
       Listing!UpTo, Listing!Cardinality

\* The caches as they were, and the request over.
LEMMA CachesStay ==
  ASSUME Listing!ReadInv, Still, client'.moved = client.moved, UNCHANGED <<catalog, other>>,
         page' = Listing!NoPage
  PROVE  CachesKeep
<1>1. /\ Listing!TypeOK /\ Listing!ClockLine /\ Listing!CatalogLine
  BY DEF Listing!ReadInv
<1>2. /\ catalog' \in [list : Seq(owner), at : Nat, fresh : BOOLEAN]
      /\ other' \in [list : Seq(owner), at : Nat, busy : BOOLEAN]
      /\ catalog'.at \in 0..height /\ other'.at \in 0..height /\ height \in Nat
  <2>1. height \in Nat
    BY <1>1, ListingNumbers
  <2> QED BY <1>1, <2>1 DEF Listing!TypeOK, Listing!ClockLine
<1>3. page' = [step |-> "idle", list |-> <<>>, at |-> 0, owned |-> {}]
  BY DEF Listing!NoPage
<1>4. page' \in [step : {"idle", "owners", "build", "store"}, list : Seq(owner), at : Nat,
                 owned : SUBSET owner]
  BY <1>3
<1>5. page'.at = 0 /\ page'.step = "idle"
  BY <1>3
<1>6. Listing!CatalogLine'
  <2>1. /\ SnapshotNext(catalog.list, catalog.at)
        /\ other.busy => SnapshotNext(other.list, other.at)
    BY <1>1, SnapshotSame DEF Listing!CatalogLine
  <2> QED BY <1>5, <2>1, CatalogNext
<1> QED BY <1>2, <1>4, <1>5, <1>6 DEF CachesKeep

LEMMA ReplyMoves ==
  ASSUME NEW q, NEW at, NEW os, NEW f, Listing!TypeOK, Listing!Reply(q, at, os, f)
  PROVE  page' = Listing!NoPage /\ client'.moved = client.moved /\ client'.first \in
           {client.first, at} /\ (~client.begun => client'.first = at)
BY DEF Listing!Reply, Listing!TypeOK

LEMMA ListSCKeeps ==
  ASSUME Listing!ReadInv, Listing!ListSC PROVE Listing!ReadInv'
<1> DEFINE q == Listing!ByName(owner)
           pr == Listing!Promised(q, inst) \intersect owner
<1>1. /\ client.kind = "listsc" /\ ~client.done /\ Listing!Reply(q, height, owner, inst)
      /\ Still /\ UNCHANGED <<catalog, other>>
  BY DEF Listing!ListSC, Listing!Ask, Still
<1>2. Listing!TypeOK /\ height \in 0..height /\ owner \subseteq Contracts
      /\ client.promised \subseteq owner
  <2>1. Listing!TypeOK
    BY DEF Listing!ReadInv
  <2>2. height \in 1..(MaxWrites + 1) /\ owner \subseteq Contracts
    BY <2>1, Zenon DEF Listing!TypeOK
  <2>3. height \in 0..height
    BY <2>2, ListingNumbers
  <2>4. client.promised \subseteq owner
    BY <2>1 DEF Listing!TypeOK
  <2> QED BY <2>1, <2>2, <2>3, <2>4
<1>3. CachesKeep /\ page' = Listing!NoPage
  BY <1>1, <1>2, ReplyMoves, CachesStay
<1>4. /\ \A s \in owner : Listing!Holds(q, Listing!Cardinality({t \in owner : t <= s}), s)
      /\ q \in Seq(owner)
  BY <1>2, OwnerPlaces
<1> HIDE DEF q
<1>5. Answers(q, owner, Owed(pr))
  BY <1>1, <1>2, <1>4, SameCard
     DEF Answers, Owed, Listing!SingleKinds, Listing!Place, Listing!Cardinality
<1>6. Promises(pr, height)
  BY <1>1 DEF Promises, Listing!ClassKinds, Listing!SingleKinds
<1> HIDE DEF pr
<1>7. pr = Listing!Promised(q, inst) \intersect owner
  BY DEF pr
<1> QED BY <1>1, <1>2, <1>3, <1>4, <1>5, <1>6, <1>7, ReplyKeeps

\* What a read may use of the invariant.
LEMMA ReadKnows ==
  ASSUME Listing!ReadInv
  PROVE  /\ Listing!TypeOK /\ Listing!ClockLine /\ Listing!StepLine /\ Listing!CatalogLine
         /\ Listing!PromisedLine /\ Listing!PageLine /\ Listing!OwnersLine
         /\ height \in Nat /\ height \in 0..height /\ owner \subseteq Contracts
         /\ client.promised \subseteq owner /\ client.first \in 0..height
         /\ client.moved \in 0..height
         /\ \A s \in Contracts : row[s] \in 0..height
         /\ Listing!Listed(row) \subseteq owner
<1>1. Listing!TypeOK /\ Listing!ClockLine
  BY DEF Listing!ReadInv
<1>2. client.promised \subseteq owner
  BY <1>1 DEF Listing!TypeOK
<1>3. client.first \in 0..height /\ client.moved \in 0..height
  BY <1>1 DEF Listing!ClockLine
<1>4. height \in 0..height
  BY <1>1, ListingNumbers
<1> QED BY <1>1, <1>2, <1>3, <1>4, ListingNumbers DEF Listing!ReadInv

LEMMA CreatedKeeps ==
  ASSUME Listing!ReadInv, Listing!CreatedAssets PROVE Listing!ReadInv'
<1> DEFINE q == Listing!Ascending(row)
           pr == Listing!Promised(q, row) \intersect owner
<1>1. /\ client.kind = "created" /\ ~client.done /\ Listing!Reply(q, height, owner, row)
      /\ Still /\ UNCHANGED <<catalog, other>>
  BY DEF Listing!CreatedAssets, Listing!Ask, Still
<1>2. /\ Listing!TypeOK /\ Listing!PromisedLine /\ height \in Nat /\ height \in 0..height
      /\ owner \subseteq Contracts /\ client.promised \subseteq owner
      /\ client.first \in 0..height /\ client.moved \in 0..height
      /\ \A s \in Contracts : row[s] \in 0..height
      /\ Listing!Listed(row) \subseteq owner
  BY ReadKnows
<1>3. CachesKeep /\ page' = Listing!NoPage
  BY <1>1, <1>2, ReplyMoves, CachesStay
<1>4. \A s \in Contracts : row[s] \in Nat
  BY <1>2
<1>5. /\ \A s \in Listing!Listed(row) :
           Listing!Holds(q, Listing!Cardinality(Listing!UpTo(row, s)), s)
      /\ \A i \in DOMAIN q : q[i] \in Listing!Listed(row)
      /\ q \in Seq(Listing!Listed(row))
  BY <1>4, AscendingPlaces
<1>6. q \in Seq(owner)
  BY <1>2, <1>5
<1> HIDE DEF q
<1>7. pr \subseteq Listing!Listed(row)
  BY <1>1, <1>5 DEF Listing!Promised, Listing!ToSet, Listing!SingleKinds
<1>8. \A s \in Owed(pr) : ~Listing!Excused(s)' => s \in Listing!Listed(row)
  <2>1. ASSUME NEW s \in Owed(pr), client.begun, ~Listing!Excused(s)'
        PROVE  s \in Listing!Listed(row)
    <3>1. ~Listing!Shifted'
      <4>1. client'.kind = "created"
        BY <1>1, <1>2, ReplyIs, <1>6 DEF Replied
      <4> QED BY <2>1, <4>1 DEF Listing!Excused
    <3>2. ~Listing!Shifted
      <4>1. client'.moved = client.moved /\ client'.first = client.first
        BY <1>1, <1>2, <1>6, <2>1, ReplyIs DEF Replied
      <4> QED BY <3>1, <4>1 DEF Listing!Shifted
    <3>3. s \in client.promised
      BY <2>1 DEF Owed
    <3>4. row[s] \in 1..client.first /\ s \in Contracts
      BY <1>1, <1>2, <3>2, <3>3 DEF Listing!PromisedLine
    <3> QED BY <1>2, <3>4 DEF Listing!Listed
  <2> QED BY <1>7, <2>1 DEF Owed
<1>9. Answers(q, owner, Owed(pr))
  BY <1>1, <1>2, <1>5, <1>8 DEF Answers, Listing!SingleKinds, Listing!Place
<1>10. Promises(pr, height)
  <2>1. \A s \in pr : row[s] \in 1..height
    BY <1>2, <1>7 DEF Listing!Listed
  <2> QED BY <1>1, <2>1 DEF Promises
<1> HIDE DEF pr
<1>11. pr = Listing!Promised(q, row) \intersect owner
  BY DEF pr
<1> QED BY <1>1, <1>2, <1>3, <1>6, <1>9, <1>10, <1>11, ReplyKeeps

LEMMA TouchedKeeps ==
  ASSUME Listing!ReadInv, Listing!TouchedAssets PROVE Listing!ReadInv'
<1> DEFINE f == Listing!Touches
           q == Listing!Descending(f)
           pr == Listing!Promised(q, f) \intersect owner
<1>1. /\ client.kind = "touched" /\ ~client.done /\ Listing!Reply(q, height, owner, f)
      /\ Still /\ UNCHANGED <<catalog, other>>
  BY DEF Listing!TouchedAssets, Listing!Ask, Still
<1>2. /\ Listing!TypeOK /\ Listing!PromisedLine /\ height \in 0..height
      /\ owner \subseteq Contracts /\ client.promised \subseteq owner
      /\ Listing!Listed(row) \subseteq owner
  BY ReadKnows
<1>3. CachesKeep /\ page' = Listing!NoPage
  BY <1>1, <1>2, ReplyMoves, CachesStay
<1>4. \A s \in Contracts : f[s] \in Nat /\ f[s] = IF row[s] > 0 THEN touch[s] ELSE 0
  BY <1>2, ListingNumbers
<1> HIDE DEF f
<1>5. /\ \A s \in Listing!Listed(f) :
           Listing!Holds(q, Listing!Cardinality(Listing!DownTo(f, s)), s)
      /\ \A i \in DOMAIN q : q[i] \in Listing!Listed(f)
      /\ q \in Seq(Listing!Listed(f))
  BY <1>4, DescendingPlaces
<1>6. Listing!Listed(f) \subseteq owner
  BY <1>2, <1>4 DEF Listing!Listed
<1>7. q \in Seq(owner)
  BY <1>5, <1>6
<1> HIDE DEF q
<1>8. pr \subseteq Listing!Listed(f)
  BY <1>1, <1>5 DEF Listing!Promised, Listing!ToSet, Listing!SingleKinds
<1>9. Owed(pr) \subseteq Listing!Listed(f)
  BY <1>1, <1>2, <1>8 DEF Owed, Listing!PromisedLine, f
<1>10. Answers(q, owner, Owed(pr))
  <2>1. \A s : Listing!Place(s) = Listing!Cardinality(Listing!DownTo(f, s))
    BY <1>1 DEF Listing!Place, f
  <2> QED BY <1>1, <1>5, <1>6, <1>9, <2>1 DEF Answers, Listing!SingleKinds
<1>11. Promises(pr, height)
  BY <1>1, <1>8 DEF Promises, Listing!ClassKinds, f
<1> HIDE DEF pr
<1>12. pr = Listing!Promised(q, f) \intersect owner
  BY DEF pr
<1> QED BY <1>1, <1>2, <1>3, <1>7, <1>10, <1>11, <1>12, ReplyKeeps

\* A page of a catalog is what it was when it was made.
LEMMA AssetsKeep ==
  ASSUME Listing!ReadInv, Still, CachesKeep, client.kind = "assets",
         NEW q \in Seq(owner), NEW at \in 0..height, NEW os \in SUBSET owner,
         Listing!Reply(q, at, os, row), Listing!Snapshot(q, at), Listing!ToSet(q) \subseteq os
  PROVE  Listing!ReadInv'
<1> DEFINE pr == Listing!Promised(q, row) \intersect os
<1>1. /\ Listing!TypeOK /\ Listing!ClockLine /\ Listing!PromisedLine /\ height \in Nat
      /\ owner \subseteq Contracts /\ client.promised \subseteq owner
      /\ client.first \in 0..height /\ client.moved \in 0..height
      /\ \A s \in Contracts : row[s] \in 0..height
      /\ at \in Nat /\ at <= height /\ client.served \in Nat
  <2>1. client.served \in Nat /\ height \in Nat
    BY ReadKnows DEF Listing!TypeOK
  <2> QED BY <2>1, ReadKnows
<1>2. /\ page' = Listing!NoPage
      /\ client'.kind = client.kind /\ client'.moved = client.moved
      /\ client'.first = (IF client.begun THEN client.first ELSE at)
      /\ client'.regressed = (client.regressed \/ at < client.served)
  BY <1>1, ReplyIs DEF Replied
<1>3. pr \subseteq Listing!ToSet(q)
  BY DEF Listing!Promised, Listing!SingleKinds
<1>4. ASSUME NEW s \in Owed(pr), ~Listing!Excused(s)'
      PROVE  row[s] \in 1..at /\ client.moved <= at /\ s \in Contracts
  <2>1. ~Listing!Shifted' /\ ~client'.regressed
    BY <1>2, <1>4 DEF Listing!Excused
  <2>2. CASE client.begun
    <3>1. client.first <= client.served /\ client.served <= at
      <4>1. ~client.regressed /\ ~(at < client.served)
        BY <1>2, <2>1, Zenon
      <4>2. client.first <= client.served
        BY <1>1, <2>2, <4>1 DEF Listing!ClockLine
      <4> QED BY <1>1, <4>1, <4>2
    <3>2. ~Listing!Shifted /\ client.moved <= client.first
      BY <1>1, <1>2, <2>1, <2>2 DEF Listing!Shifted
    <3>3. s \in client.promised
      BY <1>4, <2>2 DEF Owed
    <3>4. row[s] \in 1..client.first /\ s \in Contracts
      BY <1>1, <3>2, <3>3 DEF Listing!PromisedLine
    <3> QED BY <1>1, <3>1, <3>2, <3>4
  <2>3. CASE ~client.begun
    <3>1. client.moved <= at
      BY <1>1, <1>2, <2>1, <2>3 DEF Listing!Shifted
    <3>2. s \in Listing!ToSet(q)
      BY <1>3, <1>4, <2>3 DEF Owed
    <3>3. PICK i \in DOMAIN q : s = q[i]
      BY <3>2 DEF Listing!ToSet
    <3>4. s \in Contracts
      BY <1>1, <3>3
    <3> QED BY <3>1, <3>3, <3>4 DEF Listing!Snapshot
  <2> QED BY <2>2, <2>3
<1>5. ASSUME NEW s \in Owed(pr), ~Listing!Excused(s)'
      PROVE  s \in os /\ Listing!Holds(q, Listing!Cardinality(Listing!UpTo(row, s)), s)
  <2>1. row[s] \in 1..at /\ client.moved <= at /\ s \in Contracts
    BY <1>4, <1>5
  <2>2. s \in Listing!Listed(row)
    BY <1>1, <2>1 DEF Listing!Listed
  <2>3. row[s] <= at
    BY <1>1, <2>1
  <2>4. Listing!Holds(q, Listing!Cardinality(Listing!UpTo(row, s)), s)
    BY <2>1, <2>2, <2>3 DEF Listing!Snapshot
  <2>5. s \in Listing!ToSet(q)
    BY <2>4 DEF Listing!Holds, Listing!ToSet
  <2> QED BY <2>4, <2>5
<1>6. Answers(q, os, Owed(pr))
  BY <1>5 DEF Answers, Listing!SingleKinds, Listing!Place
<1>7. Promises(pr, at) /\ client.kind \notin Listing!SingleKinds
  <2>1. ASSUME client.moved <= at, NEW s \in pr PROVE row[s] \in 1..at
    <3>1. PICK i \in DOMAIN q : s = q[i]
      BY <1>3, <2>1 DEF Listing!ToSet
    <3> QED BY <2>1, <3>1 DEF Listing!Snapshot
  <2> QED BY <2>1 DEF Promises, Listing!SingleKinds
<1> HIDE DEF pr
<1>8. pr = Listing!Promised(q, row) \intersect os
  BY DEF pr
<1> QED BY <1>2, <1>6, <1>7, <1>8, ReplyKeeps

LEMMA CachedKeeps ==
  ASSUME Listing!ReadInv, Listing!AssetsCached PROVE Listing!ReadInv'
<1> DEFINE q == catalog.list
           at == catalog.at
           os == Listing!ToSet(q)
<1>1. /\ client.kind = "assets" /\ Listing!Reply(q, at, os, row)
      /\ Still /\ UNCHANGED <<catalog, other>>
  BY DEF Listing!AssetsCached, Listing!Ask, Still
<1>2. Listing!TypeOK /\ Listing!ClockLine /\ Listing!CatalogLine
  BY ReadKnows
<1>3. q \in Seq(owner) /\ at \in 0..height /\ Listing!Snapshot(q, at)
  BY <1>2 DEF Listing!TypeOK, Listing!ClockLine, Listing!CatalogLine
<1>4. os \in SUBSET owner
  BY <1>3 DEF Listing!ToSet
<1>5. page' = Listing!NoPage /\ client'.moved = client.moved
  BY <1>1, <1>2, ReplyMoves
<1>6. CachesKeep
  BY <1>1, <1>5, CachesStay
<1> HIDE DEF q, at
<1>7. Listing!ToSet(q) \subseteq os
  OBVIOUS
<1> HIDE DEF os
<1> QED BY <1>1, <1>3, <1>4, <1>6, <1>7, AssetsKeep

LEMMA StoreKeeps ==
  ASSUME Listing!ReadInv, Listing!AssetsStore PROVE Listing!ReadInv'
<1> DEFINE q == page.list
           at == page.at
           os == page.owned
<1>1. /\ page.step = "store" /\ Listing!Reply(q, at, os, row)
      /\ catalog' = [list |-> q, at |-> at, fresh |-> TRUE]
      /\ Still /\ UNCHANGED other
  BY DEF Listing!AssetsStore, Still
<1>2. /\ Listing!TypeOK /\ Listing!ClockLine /\ Listing!CatalogLine /\ Listing!StepLine
      /\ Listing!OwnersLine /\ height \in Nat
  BY ReadKnows
<1>3. /\ q \in Seq(owner) /\ at \in 0..height /\ Listing!Snapshot(q, at)
      /\ os \in SUBSET owner /\ Listing!ToSet(q) \subseteq os /\ client.kind = "assets"
  BY <1>1, <1>2 DEF Listing!TypeOK, Listing!ClockLine, Listing!CatalogLine, Listing!StepLine,
                    Listing!OwnersLine
<1>4. page' = Listing!NoPage /\ client'.moved = client.moved
  BY <1>1, <1>2, ReplyMoves
<1>5. CachesKeep
  <2>1. /\ page' = [step |-> "idle", list |-> <<>>, at |-> 0, owned |-> {}]
        /\ page'.at = 0 /\ page'.step = "idle"
    BY <1>4 DEF Listing!NoPage
  <2>2. /\ catalog' \in [list : Seq(owner), at : Nat, fresh : BOOLEAN]
        /\ catalog'.list = q /\ catalog'.at = at
    BY <1>1, <1>2, <1>3
  <2>3. other' \in [list : Seq(owner), at : Nat, busy : BOOLEAN] /\ other'.at \in 0..height
    BY <1>1, <1>2 DEF Listing!TypeOK, Listing!ClockLine
  <2>4. page' \in [step : {"idle", "owners", "build", "store"}, list : Seq(owner), at : Nat,
                   owned : SUBSET owner]
    BY <2>1
  <2>5. SnapshotNext(q, at) /\ (other.busy => SnapshotNext(other.list, other.at))
    BY <1>1, <1>2, <1>3, <1>4, SnapshotSame DEF Listing!CatalogLine
  <2>6. Listing!CatalogLine'
    BY <1>1, <2>1, <2>2, <2>5, CatalogNext
  <2>7. 0 \in 0..height
    BY <1>2
  <2> QED BY <1>3, <2>1, <2>2, <2>3, <2>4, <2>6, <2>7 DEF CachesKeep
<1> HIDE DEF q, at, os
<1> QED BY <1>1, <1>3, <1>5, AssetsKeep

LEMMA OwnersKeep ==
  ASSUME Listing!ReadInv, Listing!ReadOwners PROVE Listing!ReadInv'
<1> DEFINE q == page.list
           at == page.at
           pr == Listing!Promised(q, row) \intersect owner
<1>1. /\ page.step = "owners" /\ Listing!Reply(q, at, owner, row)
      /\ Still /\ UNCHANGED <<catalog, other>>
  BY DEF Listing!ReadOwners, Still
<1>2. /\ Listing!TypeOK /\ Listing!ClockLine /\ Listing!StepLine /\ Listing!PageLine
      /\ client.promised \subseteq owner
  BY ReadKnows
<1>3. /\ q \in Seq(owner) /\ at \in 0..height /\ at \in Nat
      /\ client.begun /\ ~client.done /\ client.kind \in Listing!ClassKinds \union {"byheight"}
  BY <1>1, <1>2 DEF Listing!TypeOK, Listing!ClockLine, Listing!StepLine
<1>4. page' = Listing!NoPage /\ client'.moved = client.moved
  BY <1>1, <1>2, ReplyMoves
<1>5. CachesKeep
  BY <1>1, <1>4, CachesStay
<1> HIDE DEF pr
<1>6. Owed(pr) = client.promised
  BY <1>3 DEF Owed
<1>7. \A s : Listing!Excused(s) => Listing!Excused(s)'
  <2>1. Replied(q, at, owner, Listing!Promised(q, row) \intersect owner)
    BY <1>1, <1>2, <1>3, ReplyIs
  <2>2. /\ client'.kind = client.kind /\ client'.moved = client.moved
        /\ client'.first = client.first /\ client'.touched = client.touched
        /\ client'.tied = client.tied /\ (client.regressed => client'.regressed)
    BY <1>3, <2>1 DEF Replied
  <2> QED BY <2>2 DEF Listing!Excused, Listing!Shifted
<1>8. Answers(q, owner, Owed(pr))
  <2>1. ASSUME client.kind \in Listing!SingleKinds, NEW s \in client.promised
        PROVE  s \in owner /\ \E i \in 1..Listing!PageSize : Listing!Holds(q, i, s)
    BY <1>1, <1>2, <2>1 DEF Listing!PageLine
  <2>2. ASSUME client.kind \notin Listing!SingleKinds, NEW s \in client.promised,
               ~Listing!Excused(s)'
        PROVE  s \in owner /\ Listing!Holds(q, Listing!Place(s), s)
    <3>1. Listing!Due(s)
      BY <1>7, <2>2 DEF Listing!Due
    <3> QED BY <1>1, <1>2, <2>2, <3>1 DEF Listing!PageLine
  <2> QED BY <1>6, <2>1, <2>2 DEF Answers
<1> HIDE DEF q, at
<1>9. pr = Listing!Promised(q, row) \intersect owner /\ owner \in SUBSET owner
  BY DEF pr
<1> QED BY <1>1, <1>3, <1>4, <1>5, <1>8, <1>9, ReplyKeeps

\* The first transaction of a page: its rows are read and its owners are to come.
Began(q, pr) ==
  /\ page' = [step |-> "owners", list |-> q, at |-> height, owned |-> {}]
  /\ client' \in [kind : Listing!Kinds, asked : Asked, offset : Nat, seen : SUBSET owner,
                  promised : SUBSET owner, begun : BOOLEAN, done : BOOLEAN, moved : Nat,
                  touched : SUBSET owner, tied : BOOLEAN, first : Nat, served : Nat,
                  regressed : BOOLEAN]
  /\ client'.kind = client.kind /\ client'.asked = client.asked
  /\ client'.moved = client.moved /\ client'.touched = client.touched
  /\ client'.seen = client.seen /\ client'.offset = client.offset
  /\ client'.done = client.done /\ client'.regressed = client.regressed
  /\ client'.served = client.served /\ client'.begun = TRUE
  /\ client.tied => client'.tied
  /\ client'.promised = Owed(pr)
  /\ client'.first = (IF client.begun THEN client.first ELSE height)

LEMMA ClassBegins ==
  ASSUME Listing!ReadInv, Listing!ReadClassRows
  PROVE  \E q \in Listing!ClassOrders :
           /\ Began(q, Listing!Promised(q, row))
           /\ (\E s, t \in Listing!Listed(row) : s # t /\ row[s] = row[t]) => client'.tied
<1>1. PICK q \in Listing!ClassOrders :
        page' = [step |-> "owners", list |-> q, at |-> height, owned |-> {}]
  BY DEF Listing!ReadClassRows
<1> DEFINE pr == Listing!Promised(q, row)
           tied == client.tied \/ \E s, t \in Listing!Listed(row) : s # t /\ row[s] = row[t]
           promised == IF client.begun THEN client.promised ELSE pr
           first == IF client.begun THEN client.first ELSE height
<1>2. page'.list = q
  BY <1>1
<1>3. client' = [client EXCEPT !.tied = tied, !.promised = promised, !.first = first,
                               !.begun = TRUE]
  BY <1>2 DEF Listing!ReadClassRows
<1>4. /\ Listing!TypeOK /\ height \in Nat /\ owner \subseteq Contracts
      /\ Listing!Listed(row) \subseteq owner
  BY ReadKnows
<1>5. client \in [kind : Listing!Kinds, asked : Asked, offset : Nat, seen : SUBSET owner,
                  promised : SUBSET owner, begun : BOOLEAN, done : BOOLEAN, moved : Nat,
                  touched : SUBSET owner, tied : BOOLEAN, first : Nat, served : Nat,
                  regressed : BOOLEAN]
  BY <1>4 DEF Listing!TypeOK
<1>6. promised \in SUBSET owner /\ first \in Nat
  <2>1. \A s \in Contracts : row[s] \in Nat
    BY <1>4, ListingNumbers
  <2>2. \A i \in DOMAIN q : q[i] \in Listing!Listed(row)
    BY <2>1, ClassPlaces
  <2>3. pr \subseteq owner
    BY <1>4, <2>2 DEF Listing!Promised, Listing!ToSet
  <2> QED BY <1>4, <1>5, <2>3
<1>7. tied \in BOOLEAN
  <2>1. client.tied \in BOOLEAN
    BY <1>5
  <2> QED BY <2>1, Zenon
<1>8. (client.tied => tied)
      /\ ((\E s, t \in Listing!Listed(row) : s # t /\ row[s] = row[t]) => tied)
  BY Zenon
<1> HIDE DEF tied, first, promised
<1>9. /\ client' \in [kind : Listing!Kinds, asked : Asked, offset : Nat, seen : SUBSET owner,
                      promised : SUBSET owner, begun : BOOLEAN, done : BOOLEAN, moved : Nat,
                      touched : SUBSET owner, tied : BOOLEAN, first : Nat, served : Nat,
                      regressed : BOOLEAN]
      /\ client'.kind = client.kind /\ client'.asked = client.asked
      /\ client'.moved = client.moved /\ client'.touched = client.touched
      /\ client'.seen = client.seen /\ client'.offset = client.offset
      /\ client'.done = client.done /\ client'.regressed = client.regressed
      /\ client'.served = client.served /\ client'.begun = TRUE
      /\ client'.tied = tied /\ client'.promised = promised /\ client'.first = first
  BY <1>3, <1>5, <1>6, <1>7
<1>10. promised = Owed(pr) /\ first = (IF client.begun THEN client.first ELSE height)
  BY DEF promised, first, Owed
<1>11. client.tied => client'.tied
  BY <1>8, <1>9, Zenon
<1>12. (\E s, t \in Listing!Listed(row) : s # t /\ row[s] = row[t]) => client'.tied
  BY <1>8, <1>9, Zenon
<1>13. Began(q, pr)
  BY <1>1, <1>9, <1>10, <1>11 DEF Began
<1> QED BY <1>12, <1>13

\* The rows of a page have what is owed.
Rows(q, promised) ==
  IF client.kind \in Listing!SingleKinds
  THEN \A s \in promised : \E i \in 1..Listing!PageSize : Listing!Holds(q, i, s)
  ELSE \A s \in promised :
         ~Listing!Excused(s)' => Listing!Holds(q, Listing!Place(s), s)

LEMMA BeganKeeps ==
  ASSUME Listing!ReadInv, Still, UNCHANGED <<catalog, other>>, ~client.done,
         client.kind \in Listing!ClassKinds \union {"byheight"},
         NEW q \in Seq(owner), NEW pr, Began(q, pr), Rows(q, Owed(pr)),
         ~client.begun => Promises(pr, height)
  PROVE  Listing!ReadInv'
<1>1. /\ Listing!TypeOK /\ Listing!OwnersLine /\ Listing!ClockLine /\ Listing!StepLine
      /\ Listing!PromisedLine /\ Listing!SeenLine /\ Listing!CatalogLine
      /\ height \in Nat /\ client.moved \in 0..height
  BY ReadKnows DEF Listing!ReadInv
<1>2. /\ client'.kind = client.kind /\ client'.asked = client.asked
      /\ client'.moved = client.moved /\ client'.touched = client.touched
      /\ client'.seen = client.seen /\ client'.offset = client.offset
      /\ client'.done = client.done /\ client'.regressed = client.regressed
      /\ client'.served = client.served /\ client'.begun = TRUE
      /\ client.tied => client'.tied
      /\ client'.promised = Owed(pr) /\ (client.begun => Owed(pr) = client.promised)
      /\ (~client.begun => Owed(pr) = pr)
      /\ client'.first = (IF client.begun THEN client.first ELSE height)
  BY DEF Began, Owed
<1>3. /\ page' = [step |-> "owners", list |-> q, at |-> height, owned |-> {}]
      /\ page'.step = "owners" /\ page'.list = q /\ page'.at = height
  BY DEF Began
<1>4. /\ \A s : Listing!Place(s)' = Listing!Place(s)
      /\ Listing!Listed(Listing!Touches)' = Listing!Listed(Listing!Touches)
      /\ owner = Listing!Listed(inst)' /\ Listing!PageSize' = Listing!PageSize
  BY <1>1, <1>2, StillPlaces
<1>5. client.begun => /\ client'.first = client.first
                      /\ Listing!Shifted' = Listing!Shifted
                      /\ \A s : Listing!Excused(s) => Listing!Excused(s)'
  BY <1>2 DEF Listing!Shifted, Listing!Excused
<1>6. Listing!TypeOK'
  <2>1. page' \in [step : {"idle", "owners", "build", "store"}, list : Seq(owner), at : Nat,
                   owned : SUBSET owner]
    BY <1>1, <1>3
  <2>2. client' \in [kind : Listing!Kinds, asked : Asked, offset : Nat, seen : SUBSET owner,
                     promised : SUBSET owner, begun : BOOLEAN, done : BOOLEAN, moved : Nat,
                     touched : SUBSET owner, tied : BOOLEAN, first : Nat, served : Nat,
                     regressed : BOOLEAN]
    BY DEF Began
  <2> QED BY <1>1, <2>1, <2>2 DEF Listing!TypeOK, Still, Listing!Listed
<1>7. Listing!OwnersLine'
  BY <1>3, <1>4 DEF Listing!OwnersLine, Still
<1>8. Listing!ClockLine'
  <2>1. client.kind # "assets"
    BY DEF Listing!ClassKinds
  <2>2. \A n \in {client'.moved, client'.first, client'.served, catalog'.at, other'.at, page'.at} :
          n \in 0..height'
    BY <1>1, <1>2, <1>3 DEF Still, Listing!ClockLine
  <2> QED BY <1>2, <2>1, <2>2 DEF Listing!ClockLine
<1>9. Listing!StepLine'
  <2>1. client.kind \in Listing!SingleKinds => client.offset = 0
    BY <1>1 DEF Listing!StepLine
  <2> QED BY <1>2, <1>3, <2>1 DEF Listing!StepLine
<1>10. Listing!CatalogLine'
  <2>1. /\ SnapshotNext(catalog.list, catalog.at)
        /\ other.busy => SnapshotNext(other.list, other.at)
    BY <1>1, <1>2, SnapshotSame DEF Listing!CatalogLine
  <2> QED BY <1>3, <2>1, CatalogNext
<1>11. Listing!PromisedLine'
  <2>1. CASE client.begun
    BY <1>1, <1>2, <1>4, <1>5, <2>1 DEF Listing!PromisedLine, Still
  <2>2. CASE ~client.begun
    <3>1. client'.promised = pr /\ client'.first = height /\ Promises(pr, height)
          /\ client.moved <= height
      BY <1>1, <1>2, <2>2
    <3> QED BY <1>2, <1>4, <3>1 DEF Listing!PromisedLine, Promises, Still
  <2> QED BY <2>1, <2>2
<1>12. Listing!PageLine'
  <2>1. ASSUME client.kind \in Listing!SingleKinds, NEW s \in Owed(pr)
        PROVE  \E i \in 1..Listing!PageSize : Listing!Holds(q, i, s)
    BY <2>1 DEF Rows
  <2>2. ASSUME client.kind \notin Listing!SingleKinds, NEW s \in Owed(pr), Listing!Due(s)'
        PROVE  Listing!Holds(q, Listing!Place(s), s)
    BY <2>2 DEF Rows, Listing!Due
  <2> QED BY <1>2, <1>3, <1>4, <2>1, <2>2 DEF Listing!PageLine, Listing!Holds
<1>13. Listing!SeenLine'
  <2>1. ASSUME client.kind \notin Listing!SingleKinds, NEW s \in Owed(pr), Listing!Due(s)',
               Listing!Place(s) <= client.offset
        PROVE  s \in client.seen
    <3>1. CASE client.begun
      <4>1. Listing!Due(s)
        BY <1>2, <1>5, <2>1, <3>1 DEF Listing!Due
      <4> QED BY <1>1, <2>1, <4>1 DEF Listing!SeenLine, Listing!Due
    <3>2. CASE ~client.begun
      <4>1. client.offset = 0
        BY <1>1, <3>2 DEF Listing!StepLine
      <4>2. Listing!Place(s) \in 1..Len(q)
        BY <2>1 DEF Rows, Listing!Due, Listing!Holds
      <4> QED BY <2>1, <4>1, <4>2
    <3> QED BY <3>1, <3>2
  <2> QED BY <1>2, <1>4, <2>1 DEF Listing!SeenLine
<1>14. Listing!PagesCover'
  BY <1>2 DEF Listing!PagesCover
<1> QED BY <1>6, <1>7, <1>8, <1>9, <1>10, <1>11, <1>12, <1>13, <1>14 DEF Listing!ReadInv

LEMMA ClassRowsKeep ==
  ASSUME Listing!ReadInv, Listing!ReadClassRows, client.kind \in Listing!ClassKinds,
         ~client.done, page.step = "idle"
  PROVE  Listing!ReadInv'
<1>1. Still /\ UNCHANGED <<catalog, other>>
  BY DEF Listing!ReadClassRows, Still
<1>2. /\ Listing!TypeOK /\ Listing!StepLine /\ Listing!PromisedLine /\ height \in Nat
      /\ owner \subseteq Contracts /\ client.promised \subseteq owner
      /\ client.first \in 0..height
      /\ \A s \in Contracts : row[s] \in 0..height
      /\ Listing!Listed(row) \subseteq owner
  BY ReadKnows
<1>3. PICK q \in Listing!ClassOrders :
        /\ Began(q, Listing!Promised(q, row))
        /\ (\E s, t \in Listing!Listed(row) : s # t /\ row[s] = row[t]) => client'.tied
  BY ClassBegins
<1> DEFINE pr == Listing!Promised(q, row)
<1>4. \A s \in Contracts : row[s] \in Nat
  BY <1>2
<1>5. /\ \A i \in DOMAIN q : q[i] \in Listing!Listed(row)
      /\ q \in Seq(Listing!Listed(row))
      /\ \A s \in Listing!Listed(row) : \E i \in DOMAIN q :
           /\ q[i] = s /\ i \in Nat \ {0}
           /\ i <= Listing!Cardinality({t \in Listing!Listed(row) : row[t] <= row[s]})
      /\ (\A s, t \in Listing!Listed(row) : row[s] = row[t] => s = t) =>
           \A s \in Listing!Listed(row) :
             Listing!Holds(q, Listing!Cardinality(Listing!UpTo(row, s)), s)
  BY <1>4, ClassPlaces
<1>6. q \in Seq(owner) /\ Listing!ToSet(q) = Listing!Listed(row)
  <2>1. q \in Seq(owner)
    BY <1>2, <1>5
  <2>2. \A s \in Listing!Listed(row) : \E i \in DOMAIN q : q[i] = s
    BY <1>5
  <2>3. \A i \in DOMAIN q : q[i] \in Listing!Listed(row)
    BY <1>5
  <2> QED BY <2>1, <2>2, <2>3 DEF Listing!ToSet
<1>7. pr \subseteq Listing!Listed(row)
  BY <1>6 DEF Listing!Promised
<1>8. ASSUME client.kind \in Listing!SingleKinds, NEW s \in Owed(pr)
      PROVE  \E i \in 1..Listing!PageSize : Listing!Holds(q, i, s)
  <2>1. ~client.begun
    BY <1>2, <1>8 DEF Listing!StepLine
  <2>2. s \in pr
    BY <1>8, <2>1 DEF Owed
  <2>3. s \in Listing!Listed(row)
        /\ Listing!Cardinality({t \in Listing!Listed(row) : row[t] <= row[s]})
             <= Listing!PageSize
    BY <1>6, <1>8, <2>2 DEF Listing!Promised
  <2>4. PICK i \in DOMAIN q :
          /\ q[i] = s /\ i \in Nat \ {0}
          /\ i <= Listing!Cardinality({t \in Listing!Listed(row) : row[t] <= row[s]})
    BY <1>5, <2>3
  <2>5. Listing!Cardinality({t \in Listing!Listed(row) : row[t] <= row[s]}) \in Nat
    <3>1. {t \in Listing!Listed(row) : row[t] <= row[s]} \subseteq Contracts
      BY <1>2
    <3> QED BY <3>1, SubsetCards
  <2>6. i \in 1..Listing!PageSize
    BY <1>2, <2>3, <2>4, <2>5, PageSizeNat
  <2> QED BY <2>4, <2>6 DEF Listing!Holds
<1>9. ASSUME client.kind \notin Listing!SingleKinds, NEW s \in Owed(pr), ~Listing!Excused(s)'
      PROVE  Listing!Holds(q, Listing!Place(s), s)
  <2>1. client'.kind = client.kind /\ client'.moved = client.moved
        /\ (client.begun => client'.first = client.first)
    BY <1>3 DEF Began
  <2>2. ~Listing!Shifted' /\ ~client'.tied
    BY <1>9, <2>1 DEF Listing!Excused
  <2>3. s \in Listing!Listed(row)
    <3>1. CASE client.begun
      <4>1. ~Listing!Shifted /\ s \in client.promised
        BY <1>9, <2>1, <2>2, <3>1 DEF Listing!Shifted, Owed
      <4>2. row[s] \in 1..client.first /\ s \in Contracts
        BY <1>2, <1>9, <4>1 DEF Listing!PromisedLine
      <4> QED BY <1>2, <4>2 DEF Listing!Listed
    <3>2. CASE ~client.begun
      BY <1>7, <1>9, <3>2 DEF Owed
    <3> QED BY <3>1, <3>2
  <2>4. \A a, b \in Listing!Listed(row) : row[a] = row[b] => a = b
    BY <1>3, <2>2
  <2>5. Listing!Holds(q, Listing!Cardinality(Listing!UpTo(row, s)), s)
    BY <1>5, <2>3, <2>4
  <2>6. client.kind \notin {"listsc", "touched"}
    BY DEF Listing!ClassKinds
  <2> QED BY <2>5, <2>6 DEF Listing!Place
<1>10. Rows(q, Owed(pr))
  BY <1>8, <1>9 DEF Rows
<1>11. Promises(pr, height)
  <2>1. \A s \in pr : row[s] \in 1..height
    BY <1>2, <1>7 DEF Listing!Listed
  <2>2. client.kind # "touched"
    BY DEF Listing!ClassKinds
  <2> QED BY <2>1, <2>2 DEF Promises
<1> HIDE DEF pr
<1>12. Began(q, pr) /\ client.kind \in Listing!ClassKinds \union {"byheight"}
  BY <1>3 DEF pr
<1> QED BY <1>1, <1>6, <1>10, <1>11, <1>12, BeganKeeps

LEMMA HeightBegins ==
  ASSUME Listing!TypeOK, Listing!ListSCByHeight, ~client.begun,
         NEW q, q = Listing!Ascending(inst), q \in Seq(owner)
  PROVE  Began(q, Listing!Promised(q, inst))
<1> DEFINE pr == Listing!Promised(q, inst)
<1>1. /\ page' = [step |-> "owners", list |-> q, at |-> height, owned |-> {}]
      /\ client' = [client EXCEPT !.promised = Listing!Promised(page'.list, inst),
                                  !.first = height, !.begun = TRUE]
  BY DEF Listing!ListSCByHeight
<1>2. client' = [client EXCEPT !.promised = pr, !.first = height, !.begun = TRUE]
  <2>1. page'.list = q
    BY <1>1
  <2> QED BY <1>1, <2>1
<1>3. pr \in SUBSET owner /\ height \in Nat
  <2>1. \A i \in DOMAIN q : q[i] \in owner
    OBVIOUS
  <2>2. Listing!ToSet(q) \subseteq owner
    BY <2>1 DEF Listing!ToSet
  <2> QED BY <2>2, ListingNumbers DEF Listing!Promised
<1> HIDE DEF pr
<1>4. client \in [kind : Listing!Kinds, asked : Asked, offset : Nat, seen : SUBSET owner,
                  promised : SUBSET owner, begun : BOOLEAN, done : BOOLEAN, moved : Nat,
                  touched : SUBSET owner, tied : BOOLEAN, first : Nat, served : Nat,
                  regressed : BOOLEAN]
  BY DEF Listing!TypeOK
<1>5. Owed(pr) = pr
  BY DEF Owed
<1>6. Began(q, pr)
  BY <1>1, <1>2, <1>3, <1>4, <1>5 DEF Began
<1> QED BY <1>6 DEF pr

LEMMA HeightKeeps ==
  ASSUME Listing!ReadInv, Listing!ListSCByHeight PROVE Listing!ReadInv'
<1> DEFINE q == Listing!Ascending(inst)
           pr == Listing!Promised(q, inst)
<1>1. /\ client.kind = "byheight" /\ ~client.done /\ page.step = "idle"
      /\ Still /\ UNCHANGED <<catalog, other>>
  BY DEF Listing!ListSCByHeight, Listing!Ask, Still
<1>2. /\ Listing!TypeOK /\ Listing!StepLine /\ Listing!OwnersLine /\ owner \subseteq Contracts
  BY ReadKnows
<1>3. ~client.begun
  BY <1>1, <1>2 DEF Listing!StepLine, Listing!SingleKinds
<1>4. \A s \in Contracts : inst[s] \in Nat
  BY <1>2, ListingNumbers
<1>5. /\ \A s \in Listing!Listed(inst) :
           Listing!Holds(q, Listing!Cardinality(Listing!UpTo(inst, s)), s)
      /\ \A i \in DOMAIN q : q[i] \in Listing!Listed(inst)
      /\ q \in Seq(Listing!Listed(inst))
  BY <1>4, AscendingPlaces
<1>6. q = Listing!Ascending(inst)
  OBVIOUS
<1> HIDE DEF q
<1>7. q \in Seq(owner) /\ owner = Listing!Listed(inst)
  BY <1>2, <1>5 DEF Listing!OwnersLine
<1>8. Began(q, pr)
  BY <1>2, <1>3, <1>6, <1>7, HeightBegins
<1>9. ASSUME NEW s \in pr PROVE \E i \in 1..Listing!PageSize : Listing!Holds(q, i, s)
  <2> DEFINE older == {t \in Listing!ToSet(q) : inst[t] <= inst[s]}
             n == Listing!Cardinality(Listing!UpTo(inst, s))
  <2>1. s \in Listing!ToSet(q) /\ Listing!Cardinality(older) <= Listing!PageSize
    BY <1>1, <1>9 DEF Listing!Promised, Listing!SingleKinds
  <2>2. Listing!ToSet(q) = Listing!Listed(inst)
    <3>1. \A t \in Listing!Listed(inst) : \E i \in DOMAIN q : q[i] = t
      BY <1>5 DEF Listing!Holds
    <3> QED BY <1>5, <3>1 DEF Listing!ToSet
  <2>3. Listing!UpTo(inst, s) \subseteq older /\ older \subseteq Contracts
    <3>1. Listing!Listed(inst) \subseteq Contracts
      BY DEF Listing!Listed
    <3>2. s \in Contracts
      BY <2>1, <2>2, <3>1
    <3> QED BY <1>4, <2>2, <3>1, <3>2 DEF Listing!UpTo
  <2>4. n <= Listing!Cardinality(older) /\ n \in Nat /\ Listing!Cardinality(older) \in Nat
    <3>1. Listing!UpTo(inst, s) \subseteq Contracts
      BY <2>3
    <3> HIDE DEF older
    <3> QED BY <2>3, <3>1, SubsetCards
  <2>5. Listing!Holds(q, n, s)
    BY <1>5, <2>1, <2>2
  <2> HIDE DEF n, older
  <2>6. n \in 1..Len(q)
    BY <1>7, <2>5 DEF Listing!Holds
  <2>7. n \in 1..Listing!PageSize
    BY <1>2, <2>1, <2>4, <2>6, PageSizeNat
  <2> QED BY <2>5, <2>7
<1>10. Owed(pr) = pr
  BY <1>3 DEF Owed
<1> HIDE DEF pr
<1>11. Rows(q, Owed(pr))
  BY <1>1, <1>9, <1>10 DEF Rows, Listing!SingleKinds
<1>12. Promises(pr, height)
  BY <1>1 DEF Promises, Listing!ClassKinds, Listing!SingleKinds
<1>13. client.kind \in Listing!ClassKinds \union {"byheight"}
  BY <1>1
<1> QED BY <1>1, <1>7, <1>8, <1>11, <1>12, <1>13, BeganKeeps

\* A step of the catalogs leaves the client alone.
LEMMA CatalogKeeps ==
  ASSUME Listing!ReadInv, Still, CachesKeep, UNCHANGED client,
         page' = page \/ (client.kind = "assets" /\ page'.step \in {"build", "store"})
  PROVE  Listing!ReadInv'
<1>1. /\ Listing!TypeOK /\ Listing!OwnersLine /\ Listing!ClockLine /\ Listing!StepLine
      /\ Listing!PromisedLine /\ Listing!SeenLine /\ Listing!PageLine /\ Listing!PagesCover
  BY DEF Listing!ReadInv
<1>2. client' = client
  OBVIOUS
<1>3. /\ \A s : Listing!Place(s)' = Listing!Place(s)
      /\ Listing!Listed(Listing!Touches)' = Listing!Listed(Listing!Touches)
      /\ owner = Listing!Listed(inst)' /\ Listing!PageSize' = Listing!PageSize
  BY <1>1, <1>2, StillPlaces
<1>4. /\ Listing!Shifted' = Listing!Shifted
      /\ \A s : Listing!Excused(s)' = Listing!Excused(s) /\ Listing!Due(s)' = Listing!Due(s)
  BY <1>2 DEF Listing!Shifted, Listing!Excused, Listing!Due
<1>5. Listing!TypeOK'
  BY <1>1, <1>2 DEF Listing!TypeOK, Still, CachesKeep, Listing!Listed
<1>6. Listing!OwnersLine'
  BY <1>1, <1>3 DEF Listing!OwnersLine, Still, CachesKeep, Listing!ToSet
<1>7. Listing!ClockLine'
  <2>1. client.moved \in 0..height /\ client.first \in 0..height /\ client.served \in 0..height
    BY <1>1 DEF Listing!ClockLine
  <2>2. \A n \in {client'.moved, client'.first, client'.served, catalog'.at, other'.at, page'.at} :
          n \in 0..height'
    BY <1>2, <2>1 DEF CachesKeep, Still
  <2> QED BY <1>1, <1>2, <2>2 DEF Listing!ClockLine
<1>8. Listing!StepLine'
  BY <1>1, <1>2 DEF Listing!StepLine, Listing!SingleKinds
<1>9. Listing!CatalogLine'
  BY DEF CachesKeep
<1>10. Listing!PromisedLine'
  BY <1>1, <1>2, <1>3, <1>4 DEF Listing!PromisedLine, Still
<1>11. Listing!PageLine'
  <2>1. page'.step = "owners" => page' = page
    OBVIOUS
  <2>2. ASSUME page.step = "owners", client.kind \in Listing!SingleKinds, NEW s \in client.promised
        PROVE  \E i \in 1..Listing!PageSize : Listing!Holds(page.list, i, s)
    BY <1>1, <2>2 DEF Listing!PageLine
  <2>3. ASSUME page.step = "owners", client.kind \notin Listing!SingleKinds,
               NEW s \in client.promised, Listing!Due(s)
        PROVE  Listing!Holds(page.list, Listing!Place(s), s)
    BY <1>1, <2>3 DEF Listing!PageLine
  <2> QED BY <1>2, <1>3, <1>4, <2>1, <2>2, <2>3 DEF Listing!PageLine, Listing!Holds
<1>12. Listing!SeenLine'
  BY <1>1, <1>2, <1>3, <1>4 DEF Listing!SeenLine
<1>13. Listing!PagesCover'
  BY <1>1, <1>2, <1>4 DEF Listing!PagesCover
<1> QED BY <1>5, <1>6, <1>7, <1>8, <1>9, <1>10, <1>11, <1>12, <1>13 DEF Listing!ReadInv

\* A catalog built now is what is listed now.
LEMMA BuiltNow ==
  ASSUME Listing!ReadInv, NEW q, q = Listing!Ascending(row)
  PROVE  q \in Seq(owner) /\ Listing!Snapshot(q, height)
<1>1. /\ height \in Nat /\ \A s \in Contracts : row[s] \in 0..height
      /\ Listing!Listed(row) \subseteq owner
  BY ReadKnows
<1>2. \A s \in Contracts : row[s] \in Nat
  BY <1>1
<1>3. /\ \A s \in Listing!Listed(row) :
           Listing!Holds(q, Listing!Cardinality(Listing!UpTo(row, s)), s)
      /\ \A i \in DOMAIN q : q[i] \in Listing!Listed(row)
      /\ q \in Seq(Listing!Listed(row))
  BY <1>2, AscendingPlaces
<1>4. \A s \in Listing!Listed(row) : row[s] \in 1..height
  BY <1>1 DEF Listing!Listed
<1>5. q \in Seq(owner)
  BY <1>1, <1>3
<1> QED BY <1>3, <1>4, <1>5 DEF Listing!Snapshot

LEMMA CatalogStep ==
  ASSUME Listing!ReadInv,
         \/ Listing!AssetsBuild \/ Listing!AssetsOwners \/ Listing!CatalogExpires
         \/ Listing!OtherBuild \/ Listing!OtherStore
  PROVE  Listing!ReadInv'
<1>1. /\ Listing!TypeOK /\ Listing!OwnersLine /\ Listing!ClockLine /\ Listing!StepLine
      /\ Listing!CatalogLine
      /\ height \in Nat /\ height \in 0..height
  BY ReadKnows
<1>2. /\ catalog \in [list : Seq(owner), at : Nat, fresh : BOOLEAN]
      /\ other \in [list : Seq(owner), at : Nat, busy : BOOLEAN]
      /\ page \in [step : {"idle", "owners", "build", "store"}, list : Seq(owner), at : Nat,
                   owned : SUBSET owner]
      /\ catalog.at \in 0..height /\ other.at \in 0..height /\ page.at \in 0..height
      /\ page.step = "store" => Listing!ToSet(page.list) \subseteq page.owned
  BY <1>1 DEF Listing!TypeOK, Listing!ClockLine, Listing!OwnersLine
<1>3. ASSUME Still, UNCHANGED client
      PROVE  /\ SnapshotNext(catalog.list, catalog.at)
             /\ other.busy => SnapshotNext(other.list, other.at)
             /\ page.step \in {"build", "store"} => SnapshotNext(page.list, page.at)
             /\ \A q : Listing!Snapshot(q, height) => SnapshotNext(q, height)
  BY <1>1, <1>3, SnapshotSame DEF Listing!CatalogLine
<1> DEFINE now == Listing!Ascending(row)
<1>4. now \in Seq(owner) /\ Listing!Snapshot(now, height)
  BY BuiltNow
<1> HIDE DEF now
<1>5. CASE Listing!AssetsBuild
  <2>1. /\ client.kind = "assets" /\ Still /\ UNCHANGED <<catalog, other, client>>
        /\ page' = [step |-> "build", list |-> now, at |-> height, owned |-> {}]
    BY <1>5 DEF Listing!AssetsBuild, Listing!Ask, Still, now
  <2>2. page'.step = "build" /\ page'.list = now /\ page'.at = height
    BY <2>1
  <2>3. page' \in [step : {"idle", "owners", "build", "store"}, list : Seq(owner), at : Nat,
                   owned : SUBSET owner]
    BY <1>1, <1>4, <2>1
  <2>4. Listing!CatalogLine'
    BY <1>3, <1>4, <2>1, <2>2, CatalogNext
  <2>5. CachesKeep
    BY <1>1, <1>2, <2>1, <2>2, <2>3, <2>4 DEF CachesKeep
  <2> QED BY <2>1, <2>2, <2>5, CatalogKeeps
<1>6. CASE Listing!AssetsOwners
  <2>1. /\ page.step = "build" /\ Still /\ UNCHANGED <<catalog, other, client>>
        /\ page' = [page EXCEPT !.step = "store", !.owned = owner]
    BY <1>6 DEF Listing!AssetsOwners, Still
  <2>2. /\ page'.step = "store" /\ page'.list = page.list /\ page'.at = page.at
        /\ page'.owned = owner
        /\ page' \in [step : {"idle", "owners", "build", "store"}, list : Seq(owner), at : Nat,
                      owned : SUBSET owner]
    BY <1>2, <2>1
  <2>3. client.kind = "assets"
    BY <1>1, <2>1 DEF Listing!StepLine
  <2>4. Listing!CatalogLine'
    BY <1>3, <2>1, <2>2, CatalogNext
  <2>5. Listing!ToSet(page.list) \subseteq owner
    BY <1>2 DEF Listing!ToSet
  <2>6. CachesKeep
    BY <1>2, <2>1, <2>2, <2>4, <2>5 DEF CachesKeep
  <2> QED BY <2>1, <2>2, <2>3, <2>6, CatalogKeeps
<1>7. CASE Listing!CatalogExpires
  <2>1. /\ Still /\ UNCHANGED <<page, other, client>>
        /\ catalog' = [catalog EXCEPT !.fresh = FALSE]
    BY <1>7 DEF Listing!CatalogExpires, Still
  <2>2. /\ catalog'.list = catalog.list /\ catalog'.at = catalog.at
        /\ catalog' \in [list : Seq(owner), at : Nat, fresh : BOOLEAN]
    BY <1>2, <2>1
  <2>3. Listing!CatalogLine'
    BY <1>3, <2>1, <2>2, CatalogNext
  <2>4. CachesKeep
    BY <1>2, <2>1, <2>2, <2>3 DEF CachesKeep
  <2> QED BY <2>1, <2>4, CatalogKeeps
<1>8. CASE Listing!OtherBuild
  <2>1. /\ Still /\ UNCHANGED <<page, catalog, client>>
        /\ other' = [list |-> now, at |-> height, busy |-> TRUE]
    BY <1>8 DEF Listing!OtherBuild, Still, now
  <2>2. /\ other'.list = now /\ other'.at = height
        /\ other' \in [list : Seq(owner), at : Nat, busy : BOOLEAN]
    BY <1>1, <1>4, <2>1
  <2>3. Listing!CatalogLine'
    BY <1>3, <1>4, <2>1, <2>2, CatalogNext
  <2>4. CachesKeep
    BY <1>1, <1>2, <2>1, <2>2, <2>3 DEF CachesKeep
  <2> QED BY <2>1, <2>4, CatalogKeeps
<1>9. CASE Listing!OtherStore
  <2>1. /\ Still /\ UNCHANGED <<page, client>> /\ other.busy
        /\ catalog' = [list |-> other.list, at |-> other.at, fresh |-> TRUE]
        /\ other' = [list |-> <<>>, at |-> 0, busy |-> FALSE]
    BY <1>9 DEF Listing!OtherStore, Still, Listing!NoBuild
  <2>2. /\ catalog'.list = other.list /\ catalog'.at = other.at
        /\ catalog' \in [list : Seq(owner), at : Nat, fresh : BOOLEAN]
    BY <1>2, <2>1
  <2>3. /\ ~other'.busy /\ other'.at = 0 /\ 0 \in 0..height
        /\ other' \in [list : Seq(owner), at : Nat, busy : BOOLEAN]
    BY <1>1, <2>1
  <2>4. Listing!CatalogLine'
    BY <1>3, <2>1, <2>2, <2>3, CatalogNext
  <2>5. CachesKeep
    BY <1>2, <2>1, <2>2, <2>3, <2>4 DEF CachesKeep
  <2> QED BY <2>1, <2>5, CatalogKeeps
<1> QED BY <1>5, <1>6, <1>7, <1>8, <1>9

\* A step of the listings, or none of them.
LEMMA ReadStep ==
  ASSUME Listing!ReadInv, Listing!Next PROVE Listing!ReadInv'
<1>1. Listing!TypeOK /\ Listing!OwnersLine
  BY ReadKnows
<1>2. ASSUME \/ \E s \in Contracts : Listing!IndexInstall(s) \/ Listing!IndexInvoke(s)
             \/ Listing!ImportRegistry
             \/ \E S \in SUBSET Contracts : Listing!ClassifyAll(S)
      PROVE  Listing!ReadInv'
  BY <1>1, <1>2, CommitIs, CommitKeeps
<1>3. ASSUME Listing!ListSCClass \/ Listing!GnomonListSC \/ Listing!ListSCByClass
               \/ Listing!GnomonListSCByClass
      PROVE  Listing!ReadInv'
  <2>1. /\ Listing!ReadClassRows /\ client.kind \in Listing!ClassKinds
        /\ ~client.done /\ page.step = "idle"
    BY <1>3 DEF Listing!ListSCClass, Listing!GnomonListSC, Listing!ListSCByClass,
                Listing!GnomonListSCByClass, Listing!Ask, Listing!ClassKinds
  <2> QED BY <2>1, ClassRowsKeep
<1>4. ASSUME \/ Listing!AssetsBuild \/ Listing!AssetsOwners \/ Listing!CatalogExpires
             \/ Listing!OtherBuild \/ Listing!OtherStore
      PROVE  Listing!ReadInv'
  BY <1>4, CatalogStep
<1> QED BY <1>2, <1>3, <1>4, ListSCKeeps, OwnersKeep, HeightKeeps, CreatedKeeps, TouchedKeeps,
           CachedKeeps, StoreKeeps
        DEF Listing!Next

LEMMA ReadInit ==
  Listing!Init => Listing!ReadInv
<1> SUFFICES ASSUME Listing!Init PROVE Listing!ReadInv
  OBVIOUS
<1>1. PICK k \in Listing!Kinds, a \in Asked :
        client = [kind |-> k, asked |-> a, offset |-> 0, seen |-> {}, promised |-> {},
                  begun |-> FALSE, done |-> FALSE, moved |-> 0, touched |-> {},
                  tied |-> FALSE, first |-> 0, served |-> 0, regressed |-> FALSE]
  BY DEF Listing!Init
<1>2. /\ height = 1 /\ owner = {} /\ inst = [s \in Contracts |-> 0]
      /\ row = [s \in Contracts |-> 0] /\ touch = [s \in Contracts |-> 0]
      /\ catalog = [list |-> <<>>, at |-> 0, fresh |-> FALSE]
      /\ other = [list |-> <<>>, at |-> 0, busy |-> FALSE]
      /\ page = [step |-> "idle", list |-> <<>>, at |-> 0, owned |-> {}]
  BY DEF Listing!Init, Listing!NoBuild, Listing!NoPage
<1>3. Listing!Listed(inst) = {} /\ Listing!Listed(row) = {}
  BY <1>2 DEF Listing!Listed
<1>4. Listing!TypeOK
  <2>1. client \in [kind : Listing!Kinds, asked : Asked, offset : Nat, seen : SUBSET owner,
                    promised : SUBSET owner, begun : BOOLEAN, done : BOOLEAN, moved : Nat,
                    touched : SUBSET owner, tied : BOOLEAN, first : Nat, served : Nat,
                    regressed : BOOLEAN]
    BY <1>1
  <2>2. /\ page \in [step : {"idle", "owners", "build", "store"}, list : Seq(owner), at : Nat,
                     owned : SUBSET owner]
        /\ catalog \in [list : Seq(owner), at : Nat, fresh : BOOLEAN]
        /\ other \in [list : Seq(owner), at : Nat, busy : BOOLEAN]
    BY <1>2
  <2>3. /\ height \in 1..(MaxWrites + 1) /\ owner \subseteq Contracts
        /\ inst \in [Contracts -> 0..height] /\ row \in [Contracts -> 0..height]
        /\ touch \in [Contracts -> 0..height]
    BY <1>2, ListingAssumed
  <2> QED BY <1>3, <2>1, <2>2, <2>3 DEF Listing!TypeOK
<1>5. Listing!OwnersLine
  BY <1>2, <1>3 DEF Listing!OwnersLine
<1>6. Listing!ClockLine
  BY <1>1, <1>2 DEF Listing!ClockLine
<1>7. Listing!StepLine
  BY <1>1, <1>2 DEF Listing!StepLine
<1>8. Listing!CatalogLine
  BY <1>2, <1>3 DEF Listing!CatalogLine, Listing!Snapshot
<1>9. client.promised = {} /\ ~client.done
  BY <1>1
<1>10. Listing!PromisedLine /\ Listing!PageLine /\ Listing!SeenLine /\ Listing!PagesCover
  BY <1>2, <1>9 DEF Listing!PromisedLine, Listing!PageLine, Listing!SeenLine, Listing!PagesCover
<1> QED BY <1>4, <1>5, <1>6, <1>7, <1>8, <1>10 DEF Listing!ReadInv

LEMMA ReadInvariant ==
  StoreSpec => []Listing!ReadInv
<1>1. StoreInit => Listing!ReadInv
  BY ReadInit DEF StoreInit
<1>2. ASSUME Listing!ReadInv, UNCHANGED listingVars PROVE Listing!ReadInv'
  <2>1. /\ Still /\ UNCHANGED <<catalog, other, client>> /\ page' = page
    BY <1>2 DEF listingVars, Still
  <2>2. /\ Listing!TypeOK /\ Listing!OwnersLine /\ Listing!ClockLine /\ Listing!CatalogLine
    BY <1>2, ReadKnows
  <2>3. /\ SnapshotNext(catalog.list, catalog.at)
        /\ other.busy => SnapshotNext(other.list, other.at)
        /\ page.step \in {"build", "store"} => SnapshotNext(page.list, page.at)
    BY <2>1, <2>2, SnapshotSame DEF Listing!CatalogLine
  <2>4. Listing!CatalogLine'
    BY <2>1, <2>3, CatalogNext
  <2>5. CachesKeep
    BY <2>1, <2>2, <2>4 DEF CachesKeep, Listing!TypeOK, Listing!ClockLine, Listing!OwnersLine
  <2> QED BY <1>2, <2>1, <2>5, CatalogKeeps
<1>3. Listing!ReadInv /\ [StoreNext]_allVars => Listing!ReadInv'
  BY <1>2, ReadStep DEF StoreNext, allVars
<1> QED BY <1>1, <1>3, PTL DEF StoreSpec

\* A client that pages to the end has been given all that was listed when it
\* began, and of a listing with a limit alone the oldest, but for what excuses a
\* contract: a class row that moved, two rows of one height, an older catalog
\* served after a newer one, a new touch (handleListSC, handleListSCByClass,
\* handleListSCByHeight, handleGetAssets, the handlers of an address, and those
\* of the Gnomon-compatible server); for any contracts, limits and writes.
THEOREM PagesAreComplete == StoreSpec => []PagesCover
<1>1. Listing!ReadInv => PagesCover
  BY DEF PagesCover, Listing!ReadInv
<1> QED BY <1>1, ReadInvariant, PTL

\* The inductive invariants of the three parts hold together, for whatever
\* blocks, contracts, limits, requests and capacities: the store, its batches and
\* the chain (FlushBatch, TruncateToHeight, ResetIndex, the processor), the
\* catalogs and pages of the readers, and the caches of bodies.
THEOREM PartsAgree ==
  StoreSpec => [](Inductive /\ StoreInv /\ Listing!ReadInv /\ Content!CacheInv)
<1>1. StoreInit => Lines /\ ClassInv
  BY LinesInit, ClassInit DEF StoreInit
<1>2. [StoreNext]_allVars => [Next]_vars
  BY DEF StoreNext, allVars
<1>3. Lines /\ ClassInv /\ [StoreNext]_allVars => (Lines /\ ClassInv)'
  BY <1>2, LinesStep, ClassStep
<1>4. Lines /\ ClassInv => StoreInv
  BY LinesHold, ClassLinesHold DEF ClassInv, StoreInv
<1>5. StoreSpec => []StoreInv
  BY <1>1, <1>3, <1>4, PTL DEF StoreSpec
<1> QED BY <1>5, ReadInvariant, ContentInvariant, PTL DEF Inductive

=============================================================================
