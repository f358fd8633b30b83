---------------------------- MODULE AmountsProofs ---------------------------
(***************************************************************************)
(* Machine-checked proofs about the amounts the till keeps: the split bill *)
(* (any carts, discounts, extras, tokens and any number of payments and    *)
(* edits) and the stock with its waste, average cost and movements (any    *)
(* forms, quantities and costs).                                           *)
(***************************************************************************)
EXTENDS SplitBill, Inventory, FiniteSetTheorems, WellFoundedInduction, TLAPS

\* The provers tried in turn at a leaf that names none.
USE SMT, Zenon, SMTT(20)

----------------------------------------------------------------------------
(* Lists of anything.                                                      *)

IsSeq(s) == \E S : s \in Seq(S)

LEMMA SeqFacts ==
  ASSUME NEW s, IsSeq(s)
  PROVE  Len(s) \in Nat /\ DOMAIN s = 1..Len(s)
BY DEF IsSeq

LEMMA SeqAppend ==
  ASSUME NEW s, IsSeq(s), NEW x
  PROVE  /\ IsSeq(Append(s, x))
         /\ Len(Append(s, x)) = Len(s) + 1
         /\ DOMAIN Append(s, x) = DOMAIN s \cup {Len(s) + 1}
         /\ Len(s) + 1 \notin DOMAIN s
         /\ Append(s, x)[Len(s) + 1] = x
         /\ \A i \in DOMAIN s : Append(s, x)[i] = s[i]
<1>1. PICK S : s \in Seq(S)
  BY DEF IsSeq
<1>2. s \in Seq(S \cup {x})
  BY <1>1
<1>3. Append(s, x) \in Seq(S \cup {x})
  BY <1>2
<1> QED
  BY <1>2, <1>3 DEF IsSeq

\* The list without its last element.
LEMMA SeqFront ==
  ASSUME NEW s, IsSeq(s), s # << >>
  PROVE  /\ IsSeq(SubSeq(s, 1, Len(s) - 1))
         /\ Len(s) \in Nat \ {0}
         /\ DOMAIN s = DOMAIN SubSeq(s, 1, Len(s) - 1) \cup {Len(s)}
         /\ Len(s) \notin DOMAIN SubSeq(s, 1, Len(s) - 1)
         /\ \A i \in DOMAIN SubSeq(s, 1, Len(s) - 1) : SubSeq(s, 1, Len(s) - 1)[i] = s[i]
<1>1. PICK S : s \in Seq(S)
  BY DEF IsSeq
<1>2. Len(s) \in Nat \ {0} /\ DOMAIN s = 1..Len(s)
  BY <1>1
<1> DEFINE p == SubSeq(s, 1, Len(s) - 1)
<1>3. p \in Seq(S) /\ DOMAIN p = 1..(Len(s) - 1) /\ \A i \in 1..(Len(s) - 1) : p[i] = s[i]
  BY <1>1, <1>2
<1> HIDE DEF p
<1>4. IsSeq(p)
  BY <1>3 DEF IsSeq
<1>5. DOMAIN s = DOMAIN p \cup {Len(s)} /\ Len(s) \notin DOMAIN p
  BY <1>2, <1>3
<1> QED
  BY <1>2, <1>3, <1>4, <1>5 DEF p

----------------------------------------------------------------------------
(* Sums of functions on finite sets, as SumFunction of the community       *)
(* modules takes them: one member after the other, in an order that nobody *)
(* knows.                                                                  *)

Pick(s) == CHOOSE x \in s : TRUE

IsSum(g, f, S) == g = [s \in SUBSET S |-> IF s = {} THEN 0 ELSE f[Pick(s)] + g[s \ {Pick(s)}]]

\* Among finite sets there is a smallest one.
LEMMA SmallestSet ==
  ASSUME NEW A, A # {}, \A s \in A : IsFiniteSet(s)
  PROVE  \E s \in A : \A t \in A : Cardinality(t) \in Nat /\ Cardinality(s) <= Cardinality(t)
<1> DEFINE C == {Cardinality(s) : s \in A}
<1>1. \A s \in A : Cardinality(s) \in Nat
  BY FS_CardinalityType
<1>2. C \subseteq Nat /\ C # {}
  BY <1>1
<1>3. PICK c \in C : \A e \in C : ~(<<e, c>> \in OpToRel(<, Nat))
  BY Zenon, <1>2, NatLessThanWellFounded, WFMin
<1>4. \A e \in C : ~(e < c)
  BY Zenon, <1>2, <1>3 DEF OpToRel
<1>5. PICK s \in A : c = Cardinality(s)
  BY Zenon, <1>3
<1>6. \A t \in A : Cardinality(t) \in C
  OBVIOUS
<1> HIDE DEF C
<1> QED
  BY <1>1, <1>4, <1>5, <1>6

\* Taking a member away from a finite set.
LEMMA OneLess ==
  ASSUME NEW s, IsFiniteSet(s), NEW a \in s
  PROVE  /\ IsFiniteSet(s \ {a}) /\ Cardinality(s) \in Nat
         /\ Cardinality(s \ {a}) \in Nat /\ Cardinality(s \ {a}) = Cardinality(s) - 1
BY FS_RemoveElement, FS_CardinalityType

LEMMA PickIn ==
  ASSUME NEW s, s # {}
  PROVE  Pick(s) \in s
BY DEF Pick

\* There is such a sum: it can be made for the sets of size 0, 1, 2 and so on.
LEMMA SumExists ==
  ASSUME NEW S, IsFiniteSet(S), NEW f \in [S -> Int]
  PROVE  \E g \in [SUBSET S -> Int] : IsSum(g, f, S)
<1> DEFINE D(n) == {s \in SUBSET S : Cardinality(s) <= n}
           Sums(g, n) == \A s \in D(n) : g[s] = IF s = {} THEN 0 ELSE f[Pick(s)] + g[s \ {Pick(s)}]
           Bad == {n \in Nat : ~\E g \in [D(n) -> Int] : Sums(g, n)}
<1>1. \A s \in SUBSET S : IsFiniteSet(s) /\ Cardinality(s) \in Nat
  BY FS_Subset, FS_CardinalityType
<1>2. ASSUME NEW n \in Nat, NEW s \in D(n), s # {}
      PROVE  /\ Pick(s) \in s /\ Pick(s) \in S /\ s \ {Pick(s)} \in SUBSET S
             /\ Cardinality(s \ {Pick(s)}) \in Nat /\ Cardinality(s \ {Pick(s)}) = Cardinality(s) - 1
  BY <1>1, <1>2, OneLess, PickIn
<1>3. Bad = {}
  <2> SUFFICES ASSUME Bad # {} PROVE FALSE
    BY Zenon
  <2>1. PICK m \in Bad : \A e \in Bad : ~(<<e, m>> \in OpToRel(<, Nat))
    <3>1. Bad \subseteq Nat
      OBVIOUS
    <3> HIDE DEF Bad
    <3> QED
      BY Zenon, <3>1, NatLessThanWellFounded, WFMin
  <2>2. \A e \in Bad : ~(e < m)
    BY Zenon, <2>1 DEF OpToRel
  <2>3. CASE m = 0
    <3> DEFINE z == [s \in D(0) |-> 0]
    <3>1. \A s \in D(0) : s = {}
      BY <1>1, FS_EmptySet
    <3>2. z \in [D(0) -> Int] /\ Sums(z, 0)
      BY <3>1
    <3> QED
      BY Zenon, <2>1, <2>3, <3>2
  <2>4. CASE m # 0
    <3>1. m - 1 \in Nat /\ m - 1 \notin Bad
      <4>1. m \in Nat
        BY Zenon, <2>1
      <4> HIDE DEF Bad
      <4> QED
        BY <2>2, <2>4, <4>1
    <3>2. PICK g \in [D(m - 1) -> Int] : Sums(g, m - 1)
      BY Zenon, <3>1
    <3> DEFINE h == [s \in D(m) |-> IF s \in D(m - 1) THEN g[s] ELSE f[Pick(s)] + g[s \ {Pick(s)}]]
    <3>3. ASSUME NEW s \in D(m), s # {}
          PROVE  /\ s \ {Pick(s)} \in D(m - 1) /\ s \ {Pick(s)} \in D(m)
                 /\ f[Pick(s)] \in Int /\ g[s \ {Pick(s)}] \in Int
                 /\ h[s \ {Pick(s)}] = g[s \ {Pick(s)}]
      <4>1. s \ {Pick(s)} \in D(m - 1) /\ s \ {Pick(s)} \in D(m) /\ Pick(s) \in S
        <5>1. m \in Nat /\ Cardinality(s) <= m /\ Cardinality(s) \in Nat
          BY Zenon, <1>1, <2>1, <3>3
        <5>2. /\ Pick(s) \in S /\ s \ {Pick(s)} \in SUBSET S
              /\ Cardinality(s \ {Pick(s)}) = Cardinality(s) - 1
          BY <1>2, <3>3, <5>1
        <5>3. Cardinality(s \ {Pick(s)}) <= m - 1 /\ Cardinality(s \ {Pick(s)}) <= m
          BY <5>1, <5>2
        <5> QED
          BY <5>2, <5>3
      <4> QED
        BY <4>1
    <3>4. {} \in D(m - 1)
      BY <3>1, FS_EmptySet
    <3>5. h \in [D(m) -> Int]
      <4> SUFFICES ASSUME NEW s \in D(m), s \notin D(m - 1) PROVE f[Pick(s)] + g[s \ {Pick(s)}] \in Int
        OBVIOUS
      <4>1. s # {}
        BY Zenon, <3>4
      <4>2. f[Pick(s)] \in Int /\ g[s \ {Pick(s)}] \in Int
        BY Zenon, <3>3, <4>1
      <4> QED
        BY <4>2
    <3>6. Sums(h, m)
      <4> SUFFICES ASSUME NEW s \in D(m)
                   PROVE  h[s] = IF s = {} THEN 0 ELSE f[Pick(s)] + h[s \ {Pick(s)}]
        BY Zenon
      <4>1. CASE s \in D(m - 1)
        BY Zenon, <3>2, <3>3, <4>1
      <4>2. CASE s \notin D(m - 1)
        BY Zenon, <3>3, <3>4, <4>2
      <4> QED
        BY <4>1, <4>2
    <3> QED
      BY Zenon, <2>1, <3>5, <3>6
  <2> QED
    BY <2>3, <2>4
<1>4. PICK n \in Nat : n = Cardinality(S)
  BY <1>1
<1>5. D(n) = SUBSET S
  BY <1>1, <1>4, FS_Subset
<1>6. PICK g \in [D(n) -> Int] : Sums(g, n)
  BY Zenon, <1>3
<1>7. IsSum(g, f, S)
  BY Zenon, <1>5, <1>6 DEF IsSum
<1> QED
  BY Zenon, <1>5, <1>7

\* Two sums of functions that agree on T agree on the subsets of T.
LEMMA SumsAgree ==
  ASSUME NEW S, NEW T, IsFiniteSet(T), T \subseteq S, NEW f, NEW h, \A x \in T : f[x] = h[x],
         NEW g, IsSum(g, f, S), NEW k, IsSum(k, h, T)
  PROVE  \A s \in SUBSET T : g[s] = k[s]
<1> DEFINE Bad == {s \in SUBSET T : g[s] # k[s]}
<1> SUFFICES ASSUME Bad # {} PROVE FALSE
  OBVIOUS
<1>1. \A s \in Bad : IsFiniteSet(s)
  BY FS_Subset
<1>2. PICK s \in Bad : \A t \in Bad : Cardinality(t) \in Nat /\ Cardinality(s) <= Cardinality(t)
  <2> HIDE DEF Bad
  <2> QED
    BY <1>1, SmallestSet
<1>3. s \in SUBSET T /\ s \in SUBSET S /\ IsFiniteSet(s)
  BY <1>1
<1>g. \A x \in SUBSET S : g[x] = IF x = {} THEN 0 ELSE f[Pick(x)] + g[x \ {Pick(x)}]
  BY Zenon DEF IsSum
<1>k. \A x \in SUBSET T : k[x] = IF x = {} THEN 0 ELSE h[Pick(x)] + k[x \ {Pick(x)}]
  BY Zenon DEF IsSum
<1>4. s # {}
  BY Zenon, <1>2, <1>3, <1>g, <1>k
<1>5. Pick(s) \in s
  BY <1>4, PickIn
<1>6. s \ {Pick(s)} \notin Bad
  <2>1. Cardinality(s \ {Pick(s)}) = Cardinality(s) - 1 /\ Cardinality(s) \in Nat
    BY <1>3, <1>5, OneLess
  <2> HIDE DEF Bad
  <2> QED
    BY <1>2, <2>1
<1>7. g[s \ {Pick(s)}] = k[s \ {Pick(s)}]
  BY <1>3, <1>6
<1>8. g[s] = k[s]
  BY Zenon, <1>3, <1>4, <1>5, <1>7, <1>g, <1>k
<1> QED
  BY <1>8

LEMMA SumTyped ==
  ASSUME NEW S, IsFiniteSet(S), NEW f \in [S -> Int], NEW g, IsSum(g, f, S)
  PROVE  \A s \in SUBSET S : g[s] \in Int
<1>1. PICK k \in [SUBSET S -> Int] : IsSum(k, f, S)
  BY Zenon, SumExists
<1>2. \A s \in SUBSET S : g[s] = k[s]
  BY <1>1, SumsAgree
<1> QED
  BY <1>1, <1>2

LEMMA SumIs ==
  ASSUME NEW S, IsFiniteSet(S), NEW f \in [S -> Int], NEW g, IsSum(g, f, S)
  PROVE  g[S] = SumFunction(f) /\ SumFunction(f) \in Int
<1> DEFINE c == CHOOSE k : IsSum(k, f, S)
<1>1. IsSum(c, f, S)
  OBVIOUS
<1>2. S \in SUBSET S /\ SumFunction(f) = c[S]
  <2>1. DOMAIN f = S
    OBVIOUS
  <2> QED
    BY <2>1 DEF SumFunction, SumFunctionOnSet, FoldFunctionOnSet, MapThenFoldSet, IsSum, Pick
<1> HIDE DEF c
<1>3. g[S] = c[S]
  BY <1>1, <1>2, SumsAgree
<1>4. c[S] \in Int
  BY <1>1, <1>2, SumTyped
<1> QED
  BY <1>2, <1>3, <1>4

\* Whichever member is taken first, the sum is the same.
LEMMA AnyFirst ==
  ASSUME NEW S, IsFiniteSet(S), NEW f \in [S -> Int], NEW g, IsSum(g, f, S)
  PROVE  \A s \in SUBSET S : \A a \in s : g[s] = f[a] + g[s \ {a}]
<1> DEFINE Bad == {s \in SUBSET S : \E a \in s : g[s] # f[a] + g[s \ {a}]}
<1> SUFFICES ASSUME Bad # {} PROVE FALSE
  BY Zenon
<1>1. \A s \in Bad : IsFiniteSet(s)
  BY FS_Subset
<1>2. PICK s \in Bad : \A t \in Bad : Cardinality(t) \in Nat /\ Cardinality(s) <= Cardinality(t)
  <2> HIDE DEF Bad
  <2> QED
    BY <1>1, SmallestSet
<1>3. s \in SUBSET S /\ IsFiniteSet(s)
  BY <1>1
<1>4. PICK a \in s : g[s] # f[a] + g[s \ {a}]
  BY <1>2
<1> DEFINE b == Pick(s)
<1>5. b \in s /\ a \in S /\ b \in S
  BY <1>3, <1>4, PickIn
<1>6. g[s] = f[b] + g[s \ {b}]
  <2>1. \A x \in SUBSET S : g[x] = IF x = {} THEN 0 ELSE f[Pick(x)] + g[x \ {Pick(x)}]
    BY Zenon DEF IsSum
  <2> QED
    BY <1>3, <1>5, <2>1
<1>7. a # b
  BY Zenon, <1>4, <1>6
<1>8. s \ {b} \notin Bad /\ s \ {a} \notin Bad
  <2>1. /\ Cardinality(s \ {b}) = Cardinality(s) - 1 /\ Cardinality(s) \in Nat
        /\ Cardinality(s \ {a}) = Cardinality(s) - 1
    BY <1>3, <1>5, OneLess
  <2> HIDE DEF Bad, b
  <2> QED
    BY <1>2, <2>1
<1>9. s \ {b} \in SUBSET S /\ s \ {a} \in SUBSET S /\ a \in s \ {b} /\ b \in s \ {a}
  BY <1>3, <1>4, <1>5, <1>7
<1>10. g[s \ {b}] = f[a] + g[(s \ {b}) \ {a}] /\ g[s \ {a}] = f[b] + g[(s \ {a}) \ {b}]
  BY Zenon, <1>8, <1>9
<1>11. (s \ {b}) \ {a} = (s \ {a}) \ {b} /\ (s \ {b}) \ {a} \in SUBSET S
  BY <1>3
<1>12. g[(s \ {b}) \ {a}] \in Int /\ f[a] \in Int /\ f[b] \in Int
  BY <1>5, <1>11, SumTyped
<1> HIDE DEF b, Bad
<1>13. g[s] = f[a] + g[s \ {a}]
  <2> DEFINE rest == g[(s \ {b}) \ {a}]
  <2>1. g[s \ {b}] = f[a] + rest /\ g[s \ {a}] = f[b] + rest
    BY Zenon, <1>10, <1>11
  <2>2. rest \in Int
    BY <1>12
  <2> HIDE DEF rest
  <2> QED
    BY <1>6, <1>12, <2>1, <2>2
<1> QED
  BY <1>4, <1>13

\* A sum is a number.
LEMMA SumType ==
  ASSUME NEW S, IsFiniteSet(S), NEW f \in [S -> Int]
  PROVE  SumFunction(f) \in Int
BY Zenon, SumExists, SumIs

\* A sum over nothing, a sum with one more summand.
LEMMA SumEmpty ==
  ASSUME NEW f \in [{} -> Int]
  PROVE  SumFunction(f) = 0
<1>1. IsFiniteSet({}) /\ {} \in SUBSET {}
  BY FS_EmptySet
<1>2. PICK g \in [SUBSET {} -> Int] : IsSum(g, f, {})
  BY Zenon, <1>1, SumExists
<1>3. g[{}] = 0
  BY <1>1, <1>2 DEF IsSum
<1> QED
  BY Zenon, <1>1, <1>2, <1>3, SumIs

LEMMA SumAdd ==
  ASSUME NEW S, IsFiniteSet(S), NEW a, a \notin S, NEW f \in [S \cup {a} -> Int],
         NEW h \in [S -> Int], \A x \in S : h[x] = f[x]
  PROVE  /\ SumFunction(f) = SumFunction(h) + f[a]
         /\ SumFunction(f) \in Int /\ SumFunction(h) \in Int /\ f[a] \in Int
<1> DEFINE W == S \cup {a}
<1>1. IsFiniteSet(W) /\ S \subseteq W /\ S \in SUBSET S /\ W \in SUBSET W /\ a \in W /\ W \ {a} = S
  BY FS_AddElement
<1>2. f \in [W -> Int]
  OBVIOUS
<1> HIDE DEF W
<1>3. PICK g \in [SUBSET W -> Int] : IsSum(g, f, W)
  BY Zenon, <1>1, <1>2, SumExists
<1>4. PICK k \in [SUBSET S -> Int] : IsSum(k, h, S)
  BY Zenon, SumExists
<1>5. g[S] = k[S]
  BY <1>1, <1>3, <1>4, SumsAgree
<1>6. g[W] = f[a] + g[S]
  BY <1>1, <1>2, <1>3, AnyFirst
<1>7. g[W] = SumFunction(f) /\ SumFunction(f) \in Int
  BY <1>1, <1>2, <1>3, SumIs
<1>8. k[S] = SumFunction(h) /\ SumFunction(h) \in Int
  BY <1>4, SumIs
<1>9. f[a] \in Int
  BY <1>1, <1>2
<1> QED
  BY <1>5, <1>6, <1>7, <1>8, <1>9

\* Adding two functions adds their sums.
LEMMA SumPlus ==
  ASSUME NEW S, IsFiniteSet(S), NEW f \in [S -> Int], NEW h \in [S -> Int],
         NEW p \in [S -> Int], \A x \in S : p[x] = f[x] + h[x]
  PROVE  SumFunction(p) = SumFunction(f) + SumFunction(h)
<1>1. PICK g \in [SUBSET S -> Int] : IsSum(g, f, S)
  BY Zenon, SumExists
<1>2. PICK k \in [SUBSET S -> Int] : IsSum(k, h, S)
  BY Zenon, SumExists
<1>g. \A x \in SUBSET S : g[x] = IF x = {} THEN 0 ELSE f[Pick(x)] + g[x \ {Pick(x)}]
  BY Zenon, <1>1 DEF IsSum
<1>k. \A x \in SUBSET S : k[x] = IF x = {} THEN 0 ELSE h[Pick(x)] + k[x \ {Pick(x)}]
  BY Zenon, <1>2 DEF IsSum
<1> DEFINE q == [s \in SUBSET S |-> g[s] + k[s]]
<1>3. ASSUME NEW s \in SUBSET S
      PROVE  q[s] = IF s = {} THEN 0 ELSE p[Pick(s)] + q[s \ {Pick(s)}]
  <2>1. g[s] = IF s = {} THEN 0 ELSE f[Pick(s)] + g[s \ {Pick(s)}]
    BY <1>g
  <2>2. k[s] = IF s = {} THEN 0 ELSE h[Pick(s)] + k[s \ {Pick(s)}]
    BY <1>k
  <2>3. CASE s = {}
    BY <2>1, <2>2, <2>3
  <2>4. CASE s # {}
    <3>1. Pick(s) \in S /\ s \ {Pick(s)} \in SUBSET S
      BY <2>4, PickIn
    <3> DEFINE a == Pick(s)
               t == s \ {Pick(s)}
    <3>2. /\ g[t] \in Int /\ k[t] \in Int /\ f[a] \in Int /\ h[a] \in Int
          /\ p[a] = f[a] + h[a] /\ q[t] = g[t] + k[t] /\ q[s] = g[s] + k[s]
      BY <1>1, <1>2, <3>1
    <3>3. g[s] = f[a] + g[t] /\ k[s] = h[a] + k[t]
      BY <2>1, <2>2, <2>4
    <3> HIDE DEF a, t, q
    <3>4. q[s] = p[a] + q[t]
      BY <3>2, <3>3
    <3> QED
      BY <2>4, <3>4 DEF a, t
  <2> QED
    BY <2>3, <2>4
<1>4. IsSum(q, p, S)
  BY Zenon, <1>3 DEF IsSum
<1>5. q[S] = g[S] + k[S]
  OBVIOUS
<1> HIDE DEF q
<1>6. q[S] = SumFunction(p) /\ g[S] = SumFunction(f) /\ k[S] = SumFunction(h)
  BY <1>1, <1>2, <1>4, SumIs
<1> QED
  BY <1>5, <1>6

\* Nothing adds up to nothing.
LEMMA SumZero ==
  ASSUME NEW S, IsFiniteSet(S), NEW z \in [S -> Int], \A x \in S : z[x] = 0
  PROVE  SumFunction(z) = 0
<1>1. \A x \in S : z[x] = z[x] + z[x]
  OBVIOUS
<1> DEFINE v == SumFunction(z)
<1>2. v = v + v
  BY <1>1, SumPlus
<1>3. v \in Int
  BY SumType
<1>4. v = 0
  <2> HIDE DEF v
  <2> QED
    BY <1>2, <1>3
<1> QED
  BY <1>4

\* One summand changes.
LEMMA SumChange ==
  ASSUME NEW S, IsFiniteSet(S), NEW a \in S, NEW f \in [S -> Int], NEW h \in [S -> Int],
         \A x \in S \ {a} : h[x] = f[x]
  PROVE  SumFunction(f) = SumFunction(h) + (f[a] - h[a])
<1> DEFINE R == S \ {a}
           k == [x \in R |-> f[x]]
<1>1. IsFiniteSet(R) /\ a \notin R /\ R \cup {a} = S
  BY OneLess
<1>2. k \in [R -> Int] /\ (\A x \in R : k[x] = f[x]) /\ (\A x \in R : k[x] = h[x])
  OBVIOUS
<1>3. f \in [R \cup {a} -> Int] /\ h \in [R \cup {a} -> Int]
  BY <1>1
<1> HIDE DEF R, k
<1>4. SumFunction(f) = SumFunction(k) + f[a] /\ SumFunction(k) \in Int /\ f[a] \in Int
  BY ONLY <1>1, <1>2, <1>3, SumAdd
<1>5. SumFunction(h) = SumFunction(k) + h[a] /\ h[a] \in Int
  BY ONLY <1>1, <1>2, <1>3, SumAdd
<1> QED
  BY <1>4, <1>5

\* What holds of each summand holds of the sums.
LEMMA SumProportion ==
  ASSUME NEW S, IsFiniteSet(S), NEW f \in [S -> Int], NEW h \in [S -> Int],
         NEW c \in Int, NEW t \in Int, \A x \in S : f[x] * c <= h[x] * t
  PROVE  SumFunction(f) * c <= SumFunction(h) * t
<1>1. PICK g \in [SUBSET S -> Int] : IsSum(g, f, S)
  BY Zenon, SumExists
<1>2. PICK k \in [SUBSET S -> Int] : IsSum(k, h, S)
  BY Zenon, SumExists
<1>g. \A x \in SUBSET S : g[x] = IF x = {} THEN 0 ELSE f[Pick(x)] + g[x \ {Pick(x)}]
  BY Zenon, <1>1 DEF IsSum
<1>k. \A x \in SUBSET S : k[x] = IF x = {} THEN 0 ELSE h[Pick(x)] + k[x \ {Pick(x)}]
  BY Zenon, <1>2 DEF IsSum
<1> DEFINE Bad == {s \in SUBSET S : ~(g[s] * c <= k[s] * t)}
<1>3. Bad = {}
  <2> SUFFICES ASSUME Bad # {} PROVE FALSE
    OBVIOUS
  <2>1. \A s \in Bad : IsFiniteSet(s)
    BY FS_Subset
  <2>2. PICK s \in Bad : \A u \in Bad : Cardinality(u) \in Nat /\ Cardinality(s) <= Cardinality(u)
    <3> HIDE DEF Bad
    <3> QED
      BY <2>1, SmallestSet
  <2>3. s \in SUBSET S /\ IsFiniteSet(s) /\ ~(g[s] * c <= k[s] * t)
    BY <2>1
  <2>4. s # {} /\ g[s] = f[Pick(s)] + g[s \ {Pick(s)}] /\ k[s] = h[Pick(s)] + k[s \ {Pick(s)}]
    <3>1. g[s] = IF s = {} THEN 0 ELSE f[Pick(s)] + g[s \ {Pick(s)}]
      BY Zenon, <1>g, <2>3
    <3>2. k[s] = IF s = {} THEN 0 ELSE h[Pick(s)] + k[s \ {Pick(s)}]
      BY <1>k, <2>3
    <3>3. s # {}
      BY <2>3, <3>1, <3>2
    <3> QED
      BY <3>1, <3>2, <3>3
  <2> DEFINE a == Pick(s)
             u == s \ {Pick(s)}
  <2>5. a \in s /\ a \in S /\ u \in SUBSET S
    BY <2>3, <2>4, PickIn
  <2>6. u \notin Bad
    <3>1. Cardinality(u) = Cardinality(s) - 1 /\ Cardinality(s) \in Nat
      BY <2>3, <2>5, OneLess
    <3> HIDE DEF Bad, u
    <3> QED
      BY <2>2, <3>1
  <2>7. g[u] * c <= k[u] * t /\ f[a] * c <= h[a] * t
    BY <2>5, <2>6
  <2>8. /\ g[s] = f[a] + g[u] /\ k[s] = h[a] + k[u]
        /\ f[a] \in Int /\ g[u] \in Int /\ h[a] \in Int /\ k[u] \in Int
    BY <1>1, <1>2, <2>4, <2>5
  <2> HIDE DEF a, u, Bad
  <2>9. g[s] * c = f[a] * c + g[u] * c /\ k[s] * t = h[a] * t + k[u] * t
    BY <2>8
  <2>10. f[a] * c \in Int /\ g[u] * c \in Int /\ h[a] * t \in Int /\ k[u] * t \in Int
    BY <2>8
  <2> QED
    BY <2>3, <2>7, <2>9, <2>10
<1>4. g[S] * c <= k[S] * t
  BY <1>3
<1> HIDE DEF Bad
<1>5. g[S] = SumFunction(f) /\ k[S] = SumFunction(h)
  BY <1>1, <1>2, SumIs
<1> QED
  BY <1>4, <1>5

\* A sum over T is a sum over S when b tells the members of S apart and names every
\* member of T; the others count for nothing.
LEMMA SumNamed ==
  ASSUME NEW S, IsFiniteSet(S), NEW T, IsFiniteSet(T), NEW b,
         \A x, y \in S : b[x] = b[y] => x = y, \A t \in T : \E x \in S : b[x] = t,
         NEW f \in [T -> Int], NEW h \in [S -> Int],
         \A x \in S : h[x] = IF b[x] \in T THEN f[b[x]] ELSE 0
  PROVE  SumFunction(h) = SumFunction(f)
<1> DEFINE H(s) == [x \in S |-> IF b[x] \in s THEN f[b[x]] ELSE 0]
           k == [s \in SUBSET T |-> SumFunction(H(s))]
<1>1. ASSUME NEW s \in SUBSET T
      PROVE  H(s) \in [S -> Int]
  OBVIOUS
<1>2. k[{}] = 0
  <2>1. H({}) \in [S -> Int] /\ \A x \in S : H({})[x] = 0
    OBVIOUS
  <2>2. k[{}] = SumFunction(H({}))
    OBVIOUS
  <2> HIDE DEF H, k
  <2> QED
    BY <2>1, <2>2, SumZero
<1>3. ASSUME NEW s \in SUBSET T, s # {}
      PROVE  k[s] = f[Pick(s)] + k[s \ {Pick(s)}]
  <2> DEFINE a == Pick(s)
             u == s \ {Pick(s)}
  <2>1. a \in s /\ a \in T /\ u \in SUBSET T /\ a \notin u
    BY <1>3, PickIn
  <2>2. PICK x \in S : b[x] = a
    BY <2>1
  <2>3. k[s] = SumFunction(H(s)) /\ k[u] = SumFunction(H(u)) /\ H(s) \in [S -> Int] /\ H(u) \in [S -> Int]
    BY <1>1, <2>1
  <2>4. H(s)[x] = f[a] /\ H(u)[x] = 0
    BY <2>1, <2>2
  <2>5. \A y \in S \ {x} : H(u)[y] = H(s)[y]
    <3> SUFFICES ASSUME NEW y \in S \ {x} PROVE b[y] \in s <=> b[y] \in u
      OBVIOUS
    <3>1. b[y] # a
      BY <2>2
    <3> QED
      BY <3>1
  <2>6. f[a] \in Int
    BY <2>1
  <2> HIDE DEF H, k, a, u
  <2>7. SumFunction(H(s)) = SumFunction(H(u)) + (H(s)[x] - H(u)[x])
    BY <2>3, <2>5, SumChange
  <2>8. SumFunction(H(u)) \in Int
    BY <2>3, SumType
  <2>9. k[s] = f[a] + k[u]
    BY <2>3, <2>4, <2>6, <2>7, <2>8
  <2> QED
    BY <2>9 DEF a, u
<1>4. IsSum(k, f, T)
  <2>1. \A s \in SUBSET T : k[s] = IF s = {} THEN 0 ELSE f[Pick(s)] + k[s \ {Pick(s)}]
    BY Zenon, <1>2, <1>3
  <2>2. k = [s \in SUBSET T |-> k[s]]
    OBVIOUS
  <2> HIDE DEF k
  <2> QED
    BY Zenon, <2>1, <2>2 DEF IsSum
<1>5. k[T] = SumFunction(h)
  <2>1. H(T) = h
    OBVIOUS
  <2> QED
    BY <2>1
<1> HIDE DEF H, k
<1> QED
  BY <1>4, <1>5, SumIs

\* Larger summands, larger sums.
LEMMA SumMonotone ==
  ASSUME NEW S, IsFiniteSet(S), NEW f \in [S -> Int], NEW h \in [S -> Int], \A x \in S : f[x] <= h[x]
  PROVE  SumFunction(f) <= SumFunction(h)
<1>1. \A x \in S : f[x] * 1 <= h[x] * 1
  OBVIOUS
<1>2. SumFunction(f) * 1 <= SumFunction(h) * 1
  BY <1>1, SumProportion
<1>3. SumFunction(f) \in Int /\ SumFunction(h) \in Int
  BY SumType
<1> QED
  BY <1>2, <1>3

LEMMA SumNat ==
  ASSUME NEW S, IsFiniteSet(S), NEW f \in [S -> Nat]
  PROVE  SumFunction(f) \in Nat
<1> DEFINE z == [x \in S |-> 0]
<1>1. f \in [S -> Int] /\ z \in [S -> Int] /\ (\A x \in S : z[x] <= f[x]) /\ (\A x \in S : z[x] = 0)
  OBVIOUS
<1> HIDE DEF z
<1>2. SumFunction(z) = 0
  BY <1>1, SumZero
<1>3. SumFunction(z) <= SumFunction(f)
  BY <1>1, SumMonotone
<1>4. SumFunction(f) \in Int
  BY <1>1, SumType
<1> QED
  BY <1>2, <1>3, <1>4

-----------------------------------------------------------------------------
(* The amounts of an order. *)

ItemRecords == [id : Nat \X Nat, qty : Nat \ {0}, total : Nat]

\* Lines of an order: there are some, and no two have the same ID.
IsOrder(ls) ==
  /\ ls \in Seq(ItemRecords) /\ ls # << >>
  /\ \A i, j \in DOMAIN ls : ls[i].id = ls[j].id => i = j

Totals(ls) == [i \in DOMAIN ls |-> ls[i].total]

LEMMA OrderFacts ==
  ASSUME NEW ls, IsOrder(ls)
  PROVE  /\ Len(ls) \in Nat \ {0} /\ DOMAIN ls = 1..Len(ls) /\ IsFiniteSet(DOMAIN ls)
         /\ \A i \in DOMAIN ls : ls[i].qty \in Nat \ {0} /\ ls[i].total \in Nat
         /\ Totals(ls) \in [DOMAIN ls -> Nat]
         /\ Subtotal(ls) \in Nat /\ Subtotal(ls) = SumFunction(Totals(ls))
<1>1. Len(ls) \in Nat \ {0} /\ DOMAIN ls = 1..Len(ls)
  BY DEF IsOrder
<1>2. IsFiniteSet(DOMAIN ls)
  BY <1>1, FS_Interval
<1>3. \A i \in DOMAIN ls : ls[i] \in ItemRecords
  BY DEF IsOrder
<1>4. \A i \in DOMAIN ls : ls[i].qty \in Nat \ {0} /\ ls[i].total \in Nat
  BY <1>3 DEF ItemRecords
<1>5. Totals(ls) \in [DOMAIN ls -> Nat]
  BY <1>4 DEF Totals
<1>6. Subtotal(ls) = SumFunction(Totals(ls))
  BY DEF Subtotal, Totals
<1>7. SumFunction(Totals(ls)) \in Nat
  BY <1>2, <1>5, SumNat
<1> QED
  BY <1>1, <1>2, <1>4, <1>5, <1>6, <1>7

LEMMA ClipType ==
  ASSUME NEW n \in Int
  PROVE  Clip(n) \in Nat /\ (n >= 0 => Clip(n) = n) /\ (n <= 0 => Clip(n) = 0)
BY DEF Clip

LEMMA LinesAreAnOrder ==
  ASSUME NEW c \in Carts, NEW n \in Nat
  PROVE  IsOrder(Lines(c, n))
<1>1. c \in Seq([qty : Nat \ {0}, price : Nat]) /\ c # << >>
  BY SplitBillConstants
<1> DEFINE ls == Lines(c, n)
           R == [qty : Nat \ {0}, price : Nat]
<1>0. \A i \in DOMAIN c : c[i] \in R
  <2>1. c \in Seq(R)
    BY <1>1
  <2> HIDE DEF R
  <2> QED
    BY <2>1
<1>2. DOMAIN c = 1..Len(c) /\ Len(c) \in Nat /\ Len(c) # 0
  BY <1>1
<1>3. ASSUME NEW i \in DOMAIN c
      PROVE  ls[i] \in ItemRecords /\ ls[i].id = <<n, i>>
  <2>0. i \in Nat
    BY <1>2
  <2>1. c[i] \in R
    BY <1>0
  <2>2. c[i].qty \in Nat \ {0} /\ c[i].price \in Nat /\ c[i].qty * c[i].price \in Nat
    BY <2>1
  <2>3. ls[i] = [id |-> <<n, i>>, qty |-> c[i].qty, total |-> c[i].qty * c[i].price]
    BY DEF Lines
  <2> QED
    BY <2>0, <2>2, <2>3 DEF ItemRecords
<1>4. ls = [i \in 1..Len(c) |-> ls[i]] /\ DOMAIN ls = 1..Len(c)
  BY <1>2 DEF Lines
<1> HIDE DEF ls
<1>5. ls \in Seq(ItemRecords)
  BY <1>2, <1>3, <1>4
<1>6. ls # << >>
  BY <1>2, <1>4
<1>7. \A i, j \in DOMAIN ls : ls[i].id = ls[j].id => i = j
  BY <1>2, <1>3, <1>4
<1> QED
  BY <1>5, <1>6, <1>7 DEF ls, IsOrder

LEMMA AmountsType ==
  ASSUME NEW ls, IsOrder(ls), NEW d \in Int, NEW e \in Int
  PROVE  ClampDiscount(d, ls) \in Nat /\ Clip(e) \in Nat /\ OrderTotal(ls, d, e) \in Nat
<1>1. Subtotal(ls) \in Nat
  BY OrderFacts
<1>2. Clip(d) \in Nat /\ Clip(e) \in Nat
  BY ClipType
<1>3. ClampDiscount(d, ls) \in Nat
  BY <1>1, <1>2 DEF ClampDiscount
<1>4. Subtotal(ls) - ClampDiscount(d, ls) + Clip(e) \in Int
  BY <1>1, <1>2, <1>3
<1> QED
  BY <1>2, <1>3, <1>4, ClipType DEF OrderTotal

-----------------------------------------------------------------------------
(* The shares of the lines. *)

LEMMA Int64Is ==
  ASSUME NEW n \in Int
  PROVE  Int64(n) \in Int /\ (0 <= n /\ n < 2^(Width - 1) => Int64(n) = n)
<1> DEFINE h == 2^(Width - 1)
           w == 2^Width
<1>1. h \in Nat \ {0} /\ w = 2 * h
  BY PowersOfTwo
<1>2. Int64(n) = ((n + h) % w) - h
  BY DEF Int64
<1> HIDE DEF h, w
<1>3. w \in Nat \ {0} /\ (n + h) % w \in Int
  BY <1>1
<1>4. 0 <= n /\ n < h => (n + h) % w = n + h
  BY <1>1
<1>5. Int64(n) \in Int /\ (0 <= n /\ n < h => Int64(n) = n)
  BY <1>1, <1>2, <1>3, <1>4
<1> QED
  BY <1>5 DEF h

LEMMA Division ==
  ASSUME NEW n \in Nat, NEW s \in Nat \ {0}
  PROVE  n \div s \in Nat /\ (n \div s) * s <= n
<1> DEFINE d == n \div s
           m == n % s
<1>1. d \in Int /\ m \in Int /\ 0 <= m /\ m < s /\ n = d * s + m /\ d * s \in Int
  OBVIOUS
<1> HIDE DEF d, m
<1>2. d >= 0
  <2> SUFFICES ASSUME d <= -1 PROVE FALSE
    BY <1>1
  <2>1. d = -1 - (-1 - d) /\ -1 - d \in Nat /\ (-1 - d) * s \in Nat
    BY <1>1
  <2>2. d * s = -s - (-1 - d) * s
    BY <1>1
  <2> QED
    BY <1>1, <2>1, <2>2
<1>3. d * s <= n /\ d \in Nat
  BY <1>1, <1>2
<1> QED
  BY <1>3 DEF d

LEMMA ShareType ==
  ASSUME NEW ls, IsOrder(ls), Subtotal(ls) > 0, NEW t \in Nat, NEW i \in DOMAIN ls
  PROVE  /\ Share(ls, t, i) \in Nat
         /\ ls[i].total * t < 2^(Width - 1) => Share(ls, t, i) * Subtotal(ls) <= ls[i].total * t
<1> DEFINE n == ls[i].total * t
           s == Subtotal(ls)
           q == Int64(n) \div s
<1>1. n \in Nat /\ s \in Nat \ {0}
  BY OrderFacts
<1>2. Share(ls, t, i) = Clip(q)
  BY DEF Share
<1> HIDE DEF n, s
<1>3. Int64(n) \in Int /\ (n < 2^(Width - 1) => Int64(n) = n)
  BY <1>1, Int64Is
<1>4. q \in Int
  BY <1>1, <1>3
<1>5. ASSUME Int64(n) = n
      PROVE  q \in Nat /\ q * s <= n
  BY <1>1, <1>5, Division
<1> HIDE DEF q
<1>6. n < 2^(Width - 1) => Clip(q) * s <= n
  BY <1>3, <1>4, <1>5, ClipType
<1> QED
  BY <1>2, <1>4, <1>6, ClipType DEF n, s

\* SplitBillOf gives every line a share that is not negative.
LEMMA PayableType ==
  ASSUME NEW ls, IsOrder(ls), NEW t \in Nat
  PROVE  /\ Payable(ls, t) \in [DOMAIN ls -> Nat]
         /\ Subtotal(ls) = 0 \/ t = 0 => \A i \in DOMAIN ls : Payable(ls, t)[i] = 0
<1>1. /\ Len(ls) \in Nat \ {0} /\ DOMAIN ls = 1..Len(ls) /\ Subtotal(ls) \in Nat
  BY OrderFacts
<1> DEFINE A == [i \in 1..(Len(ls) - 1) |-> Share(ls, t, i)]
           P == [i \in DOMAIN ls |-> IF Subtotal(ls) <= 0 \/ t <= 0 THEN 0
                   ELSE IF i = Len(ls) THEN Clip(t - SumFunction(A)) ELSE Share(ls, t, i)]
<1>2. Payable(ls, t) = P
  BY DEF Payable
<1>3. CASE Subtotal(ls) <= 0 \/ t <= 0
  BY <1>1, <1>2, <1>3
<1>4. CASE ~(Subtotal(ls) <= 0 \/ t <= 0)
  <2>1. Subtotal(ls) > 0 /\ t > 0
    BY <1>1, <1>4
  <2>2. \A i \in DOMAIN ls : Share(ls, t, i) \in Nat
    BY <2>1, ShareType
  <2>0. 1 \in Int /\ Len(ls) - 1 \in Int /\ 1..(Len(ls) - 1) \subseteq DOMAIN ls
    BY <1>1
  <2>3. A \in [1..(Len(ls) - 1) -> Int] /\ IsFiniteSet(1..(Len(ls) - 1))
    BY <2>0, <2>2, FS_Interval
  <2> HIDE DEF A
  <2>4. SumFunction(A) \in Int
    BY <2>3, SumType
  <2>5. Clip(t - SumFunction(A)) \in Nat
    BY <2>4, ClipType
  <2> QED
    BY <1>2, <1>4, <2>1, <2>2, <2>5
<1> QED
  BY <1>3, <1>4

\* The shares add up to the order's total: rounding down never hands out too much.
LEMMA SharesAddUp ==
  ASSUME NEW ls, IsOrder(ls), NEW t \in Nat, Subtotal(ls) > 0,
         \A i \in DOMAIN ls : ls[i].total * t < 2^(Width - 1)
  PROVE  SumFunction(Payable(ls, t)) = t
<1> DEFINE m == Len(ls)
           S == 1..(m - 1)
           sub == Subtotal(ls)
           P == Payable(ls, t)
           A == [i \in S |-> Share(ls, t, i)]
           X == [i \in S |-> ls[i].total]
<1>1. /\ m \in Nat \ {0} /\ DOMAIN ls = 1..m /\ IsFiniteSet(DOMAIN ls) /\ sub \in Nat \ {0}
      /\ (\A i \in DOMAIN ls : ls[i].total \in Nat)
      /\ Totals(ls) \in [DOMAIN ls -> Nat] /\ sub = SumFunction(Totals(ls))
  BY SMTT(20), SMTT(30), OrderFacts
<1>2. /\ IsFiniteSet(S) /\ m \notin S /\ DOMAIN ls = S \cup {m}
  <2>1. 1 \in Int /\ m - 1 \in Int
    BY <1>1
  <2>2. IsFiniteSet(S)
    BY <2>1, FS_Interval
  <2>3. m \notin S /\ DOMAIN ls = S \cup {m}
    BY <1>1
  <2> QED
    BY Zenon, <2>2, <2>3
<1>3. P \in [DOMAIN ls -> Nat] /\ (t = 0 => \A i \in DOMAIN ls : P[i] = 0)
  BY PayableType
<1>4. CASE t = 0
  <2>1. P \in [DOMAIN ls -> Int]
    BY <1>3
  <2> HIDE DEF P
  <2>2. SumFunction(P) = 0
    BY Zenon, <1>1, <1>3, <1>4, <2>1, SumZero
  <2> QED
    BY <1>4, <2>2 DEF P
<1>5. CASE t # 0
  <2>1. \A i \in DOMAIN ls : Share(ls, t, i) \in Nat /\ Share(ls, t, i) * sub <= ls[i].total * t
    BY ShareType
  <2>2. A \in [S -> Nat] /\ A \in [S -> Int] /\ X \in [S -> Nat] /\ X \in [S -> Int]
    BY <1>1, <1>2, <2>1
  <2>3. \A i \in S : A[i] * sub <= X[i] * t
    BY Zenon, <1>2, <2>1
  <2>0. P = [i \in DOMAIN ls |-> IF sub <= 0 \/ t <= 0 THEN 0
                                 ELSE IF i = m THEN Clip(t - SumFunction(A)) ELSE Share(ls, t, i)]
    BY DEF Payable
  <2>4. \A i \in S : P[i] = A[i]
    <3> SUFFICES ASSUME NEW i \in S PROVE P[i] = A[i]
      OBVIOUS
    <3>1. A[i] = Share(ls, t, i)
      OBVIOUS
    <3>2. ~(sub <= 0 \/ t <= 0)
      BY <1>1, <1>5
    <3> HIDE DEF A, S, m, sub, P
    <3>3. i \in DOMAIN ls /\ i # m
      BY <1>2
    <3> QED
      BY <2>0, <3>1, <3>2, <3>3
  <2>5. P[m] = Clip(t - SumFunction(A))
    <3>1. m \in DOMAIN ls /\ ~(sub <= 0 \/ t <= 0)
      BY ONLY SMTT(20), SMTT(30), <1>1, <1>5
    <3> HIDE DEF A, S, m, sub, P
    <3> QED
      BY <2>0, <3>1
  <2>6. \A i \in S : Totals(ls)[i] = X[i]
    BY Zenon, <1>2 DEF Totals
  <2>7. P \in [S \cup {m} -> Int] /\ Totals(ls) \in [S \cup {m} -> Int] /\ Totals(ls)[m] \in Nat
    <3> DEFINE D == DOMAIN ls
    <3>1. Totals(ls) \in [D -> Nat] /\ P \in [D -> Nat] /\ D = S \cup {m}
      BY <1>1, <1>2, <1>3
    <3> HIDE DEF D, S, m, P
    <3>2. m \in D /\ Totals(ls) \in [D -> Int] /\ P \in [D -> Int]
      BY <3>1
    <3> QED
      BY <3>1, <3>2
  <2> HIDE DEF m, S, sub, P, A, X
  <2>8. SumFunction(P) = SumFunction(A) + P[m]
    BY ONLY <1>2, <2>2, <2>4, <2>7, SumAdd
  <2>9. sub = SumFunction(X) + Totals(ls)[m]
    <3>1. SumFunction(Totals(ls)) = SumFunction(X) + Totals(ls)[m]
      BY ONLY <1>2, <2>2, <2>6, <2>7, SumAdd
    <3> QED
      BY <1>1, <3>1
  <2>10. SumFunction(A) \in Nat /\ SumFunction(X) \in Nat
    BY <1>2, <2>2, SumNat
  <2>11. SumFunction(A) * sub <= SumFunction(X) * t
    <3>1. sub \in Int /\ t \in Int /\ A \in [S -> Int] /\ X \in [S -> Int]
      BY <1>1, <2>2
    <3> QED
      BY ONLY Zenon, <1>2, <2>3, <3>1, SumProportion
  <2> DEFINE a == SumFunction(A)
             x == SumFunction(X)
  <2>12. a <= t
    <3>1. a \in Nat /\ x \in Nat /\ x <= sub /\ a * sub <= x * t /\ sub \in Nat \ {0}
      BY <1>1, <2>7, <2>9, <2>10, <2>11
    <3> HIDE DEF a, x
    <3>2. x * t <= sub * t
      <4>1. sub - x \in Nat /\ (sub - x) * t \in Nat /\ sub * t = x * t + (sub - x) * t /\ x * t \in Nat
        BY <3>1
      <4> QED
        BY <4>1
    <3> SUFFICES ASSUME t + 1 <= a PROVE FALSE
      BY <3>1
    <3>3. a - (t + 1) \in Nat /\ (a - (t + 1)) * sub \in Nat
      BY <3>1
    <3>4. a * sub = t * sub + sub + (a - (t + 1)) * sub
      BY <3>1
    <3>5. t * sub = sub * t /\ t * sub \in Nat /\ x * t \in Nat
      BY <3>1
    <3> QED
      BY <3>1, <3>2, <3>3, <3>4, <3>5
  <2>13. P[m] = t - a
    BY <2>5, <2>10, <2>12, ClipType
  <2>14. SumFunction(P) = t
    BY <2>8, <2>10, <2>13
  <2> QED
    BY <2>14 DEF P
<1> QED
  BY <1>4, <1>5

-----------------------------------------------------------------------------
(* The price of some units of a line. *)

LEMMA QuoteFacts ==
  ASSUME NEW l, l.quantity \in Nat, l.paidQty \in Nat, l.unit \in Nat, l.remaining \in Nat,
         NEW q \in Nat \ {0}, q <= l.quantity - l.paidQty
  PROVE  /\ splitQuote(l, q) \in Nat /\ splitQuote(l, q) <= l.remaining
         /\ q = l.quantity - l.paidQty => splitQuote(l, q) = l.remaining
<1> DEFINE unpaid == l.quantity - l.paidQty
           byUnit == q * l.unit
           byRest == (l.remaining * q) \div unpaid
           amt == IF byUnit <= 0 THEN byRest ELSE byUnit
<1>1. unpaid \in Nat \ {0} /\ q <= unpaid
  OBVIOUS
<1>2. byUnit \in Nat
  OBVIOUS
<1>3. byRest \in Nat
  <2>1. l.remaining * q \in Nat
    OBVIOUS
  <2> HIDE DEF unpaid
  <2> QED
    BY <1>1, <2>1, Division
<1>4. splitQuote(l, q) = IF q <= 0 \/ unpaid <= 0 THEN 0
                         ELSE IF q >= unpaid THEN l.remaining
                         ELSE IF amt > l.remaining THEN l.remaining ELSE amt
  BY DEF splitQuote
<1> HIDE DEF unpaid, byUnit, byRest
<1>5. amt \in Nat
  BY <1>2, <1>3
<1> HIDE DEF amt
<1>6. /\ splitQuote(l, q) \in Nat /\ splitQuote(l, q) <= l.remaining
      /\ q = unpaid => splitQuote(l, q) = l.remaining
  BY <1>1, <1>4, <1>5
<1> QED
  BY <1>6 DEF unpaid

-----------------------------------------------------------------------------
(* The payments of an order. *)

GoodLines(pl) ==
  /\ IsFiniteSet(DOMAIN pl)
  /\ \A id \in DOMAIN pl : pl[id].qty \in Nat \ {0} /\ pl[id].amount \in Nat

GoodPayment(p) == GoodLines(p.lines) /\ p.amount = LinesAmount(p.lines)

GoodPayments(ps) == IsSeq(ps) /\ \A k \in DOMAIN ps : GoodPayment(ps[k])

\* What one payment pays of a line.
AmtOf(p, id) == IF id \in DOMAIN p.lines THEN p.lines[id].amount ELSE 0
QtyOf(p, id) == IF id \in DOMAIN p.lines THEN p.lines[id].qty ELSE 0

AmtsOf(ps, id) == [k \in DOMAIN ps |-> AmtOf(ps[k], id)]
QtysOf(ps, id) == [k \in DOMAIN ps |-> QtyOf(ps[k], id)]
Amounts(ps) == [k \in DOMAIN ps |-> ps[k].amount]

LEMMA SumsOfPayments ==
  ASSUME NEW ps
  PROVE  /\ \A id : PaidAmt(ps, id) = SumFunction(AmtsOf(ps, id))
         /\ \A id : PaidQty(ps, id) = SumFunction(QtysOf(ps, id))
         /\ PaidSum(ps) = SumFunction(Amounts(ps))
BY DEF PaidAmt, PaidQty, PaidSum, AmtsOf, QtysOf, Amounts, AmtOf, QtyOf

LEMMA PaymentType ==
  ASSUME NEW p, GoodPayment(p)
  PROVE  p.amount \in Nat
<1>1. /\ IsFiniteSet(DOMAIN p.lines) /\ p.amount = LinesAmount(p.lines)
      /\ \A id \in DOMAIN p.lines : p.lines[id].qty \in Nat \ {0} /\ p.lines[id].amount \in Nat
  BY DEF GoodPayment, GoodLines
<1> DEFINE f == [id \in DOMAIN p.lines |-> p.lines[id].amount]
<1>2. f \in [DOMAIN p.lines -> Nat]
  BY <1>1
<1>3. p.amount = SumFunction(f)
  BY <1>1 DEF LinesAmount
<1> HIDE DEF f
<1> QED
  BY <1>1, <1>2, <1>3, SumNat

LEMMA PartType ==
  ASSUME NEW p, GoodPayment(p), NEW id
  PROVE  /\ AmtOf(p, id) \in Nat /\ QtyOf(p, id) \in Nat
         /\ QtyOf(p, id) = 0 => AmtOf(p, id) = 0
BY DEF AmtOf, QtyOf, GoodPayment, GoodLines

LEMMA PaymentsType ==
  ASSUME NEW ps, GoodPayments(ps)
  PROVE  /\ IsFiniteSet(DOMAIN ps) /\ Amounts(ps) \in [DOMAIN ps -> Nat] /\ PaidSum(ps) \in Nat
         /\ \A id : /\ AmtsOf(ps, id) \in [DOMAIN ps -> Nat] /\ QtysOf(ps, id) \in [DOMAIN ps -> Nat]
                   /\ PaidAmt(ps, id) \in Nat /\ PaidQty(ps, id) \in Nat
<1>1. IsSeq(ps) /\ \A k \in DOMAIN ps : GoodPayment(ps[k])
  BY DEF GoodPayments
<1>2. IsFiniteSet(DOMAIN ps)
  <2>1. Len(ps) \in Int /\ 1 \in Int /\ DOMAIN ps = 1..Len(ps)
    BY <1>1, SeqFacts
  <2> QED
    BY <2>1, FS_Interval
<1>3. \A k \in DOMAIN ps : ps[k].amount \in Nat
  BY <1>1, PaymentType
<1>4. ASSUME NEW k \in DOMAIN ps, NEW id
      PROVE  AmtOf(ps[k], id) \in Nat /\ QtyOf(ps[k], id) \in Nat
  <2>1. GoodPayment(ps[k])
    BY <1>1
  <2> QED
    BY <2>1, PartType
<1>5. Amounts(ps) \in [DOMAIN ps -> Nat]
  BY <1>3 DEF Amounts
<1>6. SumFunction(Amounts(ps)) \in Nat
  BY <1>2, <1>5, SumNat
<1>7. ASSUME NEW id
      PROVE  /\ AmtsOf(ps, id) \in [DOMAIN ps -> Nat] /\ QtysOf(ps, id) \in [DOMAIN ps -> Nat]
             /\ PaidAmt(ps, id) \in Nat /\ PaidQty(ps, id) \in Nat
  <2>1. AmtsOf(ps, id) \in [DOMAIN ps -> Nat] /\ QtysOf(ps, id) \in [DOMAIN ps -> Nat]
    BY <1>4 DEF AmtsOf, QtysOf
  <2>2. SumFunction(AmtsOf(ps, id)) \in Nat /\ SumFunction(QtysOf(ps, id)) \in Nat
    BY <1>2, <2>1, SumNat
  <2> QED
    BY <2>1, <2>2, SumsOfPayments
<1> QED
  BY <1>2, <1>5, <1>6, <1>7, SumsOfPayments

\* qs are the payments ps and one more, at position n.
More(ps, qs, n) ==
  /\ n \notin DOMAIN ps /\ DOMAIN qs = DOMAIN ps \cup {n}
  /\ \A k \in DOMAIN ps : qs[k] = ps[k]

LEMMA OneMore ==
  ASSUME NEW ps, NEW qs, NEW n, GoodPayments(ps), GoodPayments(qs), More(ps, qs, n)
  PROVE  /\ PaidSum(qs) = PaidSum(ps) + qs[n].amount
         /\ \A id : /\ PaidAmt(qs, id) = PaidAmt(ps, id) + AmtOf(qs[n], id)
                   /\ PaidQty(qs, id) = PaidQty(ps, id) + QtyOf(qs[n], id)
<1> DEFINE S == DOMAIN ps
<1>1. /\ IsFiniteSet(S) /\ n \notin S /\ DOMAIN qs = S \cup {n} /\ n \in DOMAIN qs
      /\ \A k \in S : k \in DOMAIN qs /\ qs[k] = ps[k]
  BY PaymentsType DEF More
<1>2. ASSUME NEW f \in [S -> Nat], NEW g \in [S \cup {n} -> Nat], \A k \in S : f[k] = g[k]
      PROVE  SumFunction(g) = SumFunction(f) + g[n]
  <2>1. f \in [S -> Int] /\ g \in [S \cup {n} -> Int]
    BY ONLY SMTT(20), SMTT(30), <1>2
  <2> QED
    BY ONLY <1>1, <1>2, <2>1, SumAdd
<1>3. PaidSum(qs) = PaidSum(ps) + qs[n].amount
  <2>1. Amounts(ps) \in [S -> Nat] /\ Amounts(qs) \in [S \cup {n} -> Nat]
    BY <1>1, PaymentsType
  <2>2. \A k \in S : Amounts(ps)[k] = Amounts(qs)[k]
    BY <1>1 DEF Amounts
  <2>3. Amounts(qs)[n] = qs[n].amount
    BY <1>1 DEF Amounts
  <2> QED
    BY <1>2, <2>1, <2>2, <2>3, SumsOfPayments
<1>4. ASSUME NEW id
      PROVE  /\ PaidAmt(qs, id) = PaidAmt(ps, id) + AmtOf(qs[n], id)
             /\ PaidQty(qs, id) = PaidQty(ps, id) + QtyOf(qs[n], id)
  <2>1. /\ AmtsOf(ps, id) \in [S -> Nat] /\ AmtsOf(qs, id) \in [S \cup {n} -> Nat]
        /\ QtysOf(ps, id) \in [S -> Nat] /\ QtysOf(qs, id) \in [S \cup {n} -> Nat]
    BY <1>1, PaymentsType
  <2>2. \A k \in S : AmtsOf(ps, id)[k] = AmtsOf(qs, id)[k] /\ QtysOf(ps, id)[k] = QtysOf(qs, id)[k]
    BY <1>1 DEF AmtsOf, QtysOf
  <2>3. AmtsOf(qs, id)[n] = AmtOf(qs[n], id) /\ QtysOf(qs, id)[n] = QtyOf(qs[n], id)
    BY <1>1 DEF AmtsOf, QtysOf
  <2>4. SumFunction(AmtsOf(qs, id)) = SumFunction(AmtsOf(ps, id)) + AmtsOf(qs, id)[n]
    BY <1>2, <2>1, <2>2
  <2>5. SumFunction(QtysOf(qs, id)) = SumFunction(QtysOf(ps, id)) + QtysOf(qs, id)[n]
    BY <1>2, <2>1, <2>2
  <2>6. /\ PaidAmt(qs, id) = SumFunction(AmtsOf(qs, id)) /\ PaidAmt(ps, id) = SumFunction(AmtsOf(ps, id))
        /\ PaidQty(qs, id) = SumFunction(QtysOf(qs, id)) /\ PaidQty(ps, id) = SumFunction(QtysOf(ps, id))
    BY SumsOfPayments
  <2> QED
    BY <2>3, <2>4, <2>5, <2>6
<1> QED
  BY <1>3, <1>4

LEMMA NothingPaid ==
  ASSUME NEW ps, ps = << >>
  PROVE  /\ GoodPayments(ps) /\ PaidSum(ps) = 0
         /\ \A id : PaidAmt(ps, id) = 0 /\ PaidQty(ps, id) = 0
<1>1. DOMAIN ps = {} /\ IsSeq(ps)
  <2>1. ps \in Seq({})
    OBVIOUS
  <2> QED
    BY <2>1 DEF IsSeq
<1>2. GoodPayments(ps)
  BY <1>1 DEF GoodPayments
<1>3. Amounts(ps) \in [{} -> Int]
  BY <1>1 DEF Amounts
<1>4. \A id : AmtsOf(ps, id) \in [{} -> Int] /\ QtysOf(ps, id) \in [{} -> Int]
  BY <1>1 DEF AmtsOf, QtysOf
<1>5. SumFunction(Amounts(ps)) = 0
  BY <1>3, SumEmpty
<1>6. \A id : SumFunction(AmtsOf(ps, id)) = 0 /\ SumFunction(QtysOf(ps, id)) = 0
  BY <1>4, SumEmpty
<1> QED
  BY <1>2, <1>5, <1>6, SumsOfPayments

-----------------------------------------------------------------------------
(* The payments against the lines they pay. *)

\* What is paid of each line.
PaidOf(ps, ls) == [i \in DOMAIN ls |-> PaidAmt(ps, ls[i].id)]

\* The payments are of these lines; no line is paid beyond its units or its share,
\* a line whose units are paid is paid in full, and nothing is paid besides.
Balanced(ps, ls, t) ==
  /\ \A k \in DOMAIN ps : DOMAIN ps[k].lines \subseteq {ls[i].id : i \in DOMAIN ls}
  /\ \A i \in DOMAIN ls :
       /\ PaidQty(ps, ls[i].id) <= ls[i].qty
       /\ PaidAmt(ps, ls[i].id) <= Payable(ls, t)[i]
       /\ PaidQty(ps, ls[i].id) = ls[i].qty => PaidAmt(ps, ls[i].id) = Payable(ls, t)[i]
  /\ PaidSum(ps) = SumFunction(PaidOf(ps, ls))

LEMMA PaidOfType ==
  ASSUME NEW ps, GoodPayments(ps), NEW ls
  PROVE  PaidOf(ps, ls) \in [DOMAIN ls -> Nat] /\ PaidOf(ps, ls) \in [DOMAIN ls -> Int]
<1>1. \A i \in DOMAIN ls : PaidAmt(ps, ls[i].id) \in Nat
  BY ZenonT(30), PaymentsType
<1> QED
  BY <1>1 DEF PaidOf

LEMMA BalancedAtFirst ==
  ASSUME NEW ps, ps = << >>, NEW ls, IsOrder(ls), NEW t \in Nat
  PROVE  Balanced(ps, ls, t)
<1>1. /\ IsFiniteSet(DOMAIN ls)
      /\ \A i \in DOMAIN ls : ls[i].qty \in Nat \ {0}
  BY OrderFacts
<1>2. \A i \in DOMAIN ls : Payable(ls, t)[i] \in Nat
  BY PayableType
<1>3. /\ GoodPayments(ps) /\ PaidSum(ps) = 0
      /\ \A id : PaidAmt(ps, id) = 0 /\ PaidQty(ps, id) = 0
  BY NothingPaid
<1>4. PaidOf(ps, ls) \in [DOMAIN ls -> Int] /\ \A i \in DOMAIN ls : PaidOf(ps, ls)[i] = 0
  BY <1>3, PaidOfType DEF PaidOf
<1>5. SumFunction(PaidOf(ps, ls)) = 0
  BY <1>1, <1>4, SumZero
<1>6. DOMAIN ps = {}
  OBVIOUS
<1> QED
  BY <1>1, <1>2, <1>3, <1>5, <1>6 DEF Balanced

\* What is paid of the lines grows by what the next payment amounts to.
LEMMA SumsMatch ==
  ASSUME NEW ps, NEW qs, NEW n, GoodPayments(ps), GoodPayments(qs), More(ps, qs, n),
         NEW ls, IsOrder(ls), DOMAIN qs[n].lines \subseteq {ls[i].id : i \in DOMAIN ls}
  PROVE  SumFunction(PaidOf(qs, ls)) = SumFunction(PaidOf(ps, ls)) + qs[n].amount
<1> DEFINE S == DOMAIN ls
           pl == qs[n].lines
           T == DOMAIN pl
           b == [i \in S |-> ls[i].id]
           f == [id \in T |-> pl[id].amount]
           h == [i \in S |-> AmtOf(qs[n], ls[i].id)]
<1>1. n \in DOMAIN qs /\ GoodPayment(qs[n])
  BY DEF More, GoodPayments
<1>2. IsFiniteSet(S) /\ IsFiniteSet(T)
  BY <1>1, OrderFacts DEF GoodPayment, GoodLines
<1>3. \A x, y \in S : b[x] = b[y] => x = y
  BY DEF IsOrder
<1>4. \A id \in T : \E x \in S : b[x] = id
  OBVIOUS
<1>5. f \in [T -> Int]
  BY <1>1 DEF GoodPayment, GoodLines
<1>6. \A i \in S : AmtOf(qs[n], ls[i].id) \in Nat
  BY <1>1, PartType
<1>7. h \in [S -> Int]
  BY <1>6
<1>8. \A x \in S : h[x] = IF b[x] \in T THEN f[b[x]] ELSE 0
  BY DEF AmtOf
<1>9. SumFunction(f) = qs[n].amount
  BY <1>1 DEF GoodPayment, LinesAmount
<1>10. \A i \in S : PaidAmt(qs, ls[i].id) = PaidAmt(ps, ls[i].id) + AmtOf(qs[n], ls[i].id)
  BY OneMore
<1>11. \A i \in S : PaidOf(qs, ls)[i] = PaidOf(ps, ls)[i] + h[i]
  BY <1>10 DEF PaidOf
<1>12. PaidOf(qs, ls) \in [S -> Int] /\ PaidOf(ps, ls) \in [S -> Int]
  BY PaidOfType
<1> HIDE DEF S, T, b, f, h
<1>13. SumFunction(h) = SumFunction(f)
  BY ONLY <1>2, <1>3, <1>4, <1>5, <1>7, <1>8, SumNamed
<1>14. SumFunction(PaidOf(qs, ls)) = SumFunction(PaidOf(ps, ls)) + SumFunction(h)
  BY ONLY SMTT(20), SMTT(30), <1>2, <1>7, <1>11, <1>12, SumPlus
<1> QED
  BY <1>9, <1>13, <1>14

\* UndoLastSplitPayment leaves a balanced bill.
LEMMA BalancedWithout ==
  ASSUME NEW ps, NEW qs, NEW n, GoodPayments(ps), GoodPayments(qs), More(ps, qs, n),
         NEW ls, IsOrder(ls), NEW t \in Nat, Balanced(qs, ls, t)
  PROVE  Balanced(ps, ls, t)
<1> DEFINE p == qs[n]
<1>1. /\ n \in DOMAIN qs /\ GoodPayment(p)
      /\ \A k \in DOMAIN ps : k \in DOMAIN qs /\ qs[k] = ps[k]
  BY ZenonT(30) DEF More, GoodPayments
<1>2. /\ \A k \in DOMAIN qs : DOMAIN qs[k].lines \subseteq {ls[i].id : i \in DOMAIN ls}
      /\ PaidSum(qs) = SumFunction(PaidOf(qs, ls))
  BY DEF Balanced
<1>3. PaidSum(ps) = SumFunction(PaidOf(ps, ls))
  <2>1. SumFunction(PaidOf(qs, ls)) = SumFunction(PaidOf(ps, ls)) + p.amount
    BY <1>1, <1>2, SumsMatch
  <2>2. PaidSum(qs) = PaidSum(ps) + p.amount
    BY ZenonT(30), OneMore
  <2>3. SumFunction(PaidOf(ps, ls)) \in Nat
    BY OrderFacts, PaidOfType, SumNat
  <2>4. PaidSum(ps) \in Nat
    BY PaymentsType
  <2>5. p.amount \in Nat
    BY ONLY ZenonT(30), <1>1, PaymentType
  <2> HIDE DEF p
  <2> QED
    BY ONLY SMTT(20), SMTT(30), <1>2, <2>1, <2>2, <2>3, <2>4, <2>5
<1>4. ASSUME NEW i \in DOMAIN ls
      PROVE  /\ PaidQty(ps, ls[i].id) <= ls[i].qty
             /\ PaidAmt(ps, ls[i].id) <= Payable(ls, t)[i]
             /\ PaidQty(ps, ls[i].id) = ls[i].qty => PaidAmt(ps, ls[i].id) = Payable(ls, t)[i]
  <2> DEFINE id == ls[i].id
  <2>1. AmtOf(p, id) \in Nat /\ QtyOf(p, id) \in Nat /\ (QtyOf(p, id) = 0 => AmtOf(p, id) = 0)
    BY ZenonT(30), <1>1, PartType
  <2>2. PaidAmt(qs, id) = PaidAmt(ps, id) + AmtOf(p, id) /\ PaidQty(qs, id) = PaidQty(ps, id) + QtyOf(p, id)
    BY OneMore
  <2>3. PaidAmt(ps, id) \in Nat /\ PaidQty(ps, id) \in Nat
    BY SMTT(20), SMTT(30), PaymentsType
  <2>4. /\ PaidQty(qs, id) <= ls[i].qty /\ PaidAmt(qs, id) <= Payable(ls, t)[i]
        /\ PaidQty(qs, id) = ls[i].qty => PaidAmt(qs, id) = Payable(ls, t)[i]
    BY ZenonT(30) DEF Balanced
  <2>5. ls[i].qty \in Nat
    BY OrderFacts
  <2>6. Payable(ls, t)[i] \in Nat
    BY ZenonT(30), PayableType
  <2> HIDE DEF id, p
  <2>7. /\ PaidQty(ps, id) <= ls[i].qty
        /\ PaidAmt(ps, id) <= Payable(ls, t)[i]
        /\ PaidQty(ps, id) = ls[i].qty => PaidAmt(ps, id) = Payable(ls, t)[i]
    BY ONLY SMTT(20), SMTT(30), <2>1, <2>2, <2>3, <2>4, <2>5, <2>6
  <2> QED
    BY <2>7 DEF id
<1>5. \A k \in DOMAIN ps : DOMAIN ps[k].lines \subseteq {ls[i].id : i \in DOMAIN ls}
  BY ONLY SMTT(20), SMTT(30), <1>1, <1>2
<1> QED
  BY Zenon, <1>3, <1>4, <1>5 DEF Balanced

\* So does a payment that takes no more units of a line than are unpaid, for no more
\* than is left of its share, and for all of that when it takes all of them.
Fair(p, ps, ls, t) ==
  /\ DOMAIN p.lines \subseteq {ls[i].id : i \in DOMAIN ls}
  /\ \A i \in DOMAIN ls : ls[i].id \in DOMAIN p.lines =>
       LET unpaid == ls[i].qty - PaidQty(ps, ls[i].id)
           rest == Clip(Payable(ls, t)[i] - PaidAmt(ps, ls[i].id))
       IN /\ p.lines[ls[i].id].qty <= unpaid
          /\ p.lines[ls[i].id].amount <= rest
          /\ p.lines[ls[i].id].qty = unpaid => p.lines[ls[i].id].amount = rest

LEMMA BalancedWith ==
  ASSUME NEW ps, NEW qs, NEW n, GoodPayments(ps), GoodPayments(qs), More(ps, qs, n),
         NEW ls, IsOrder(ls), NEW t \in Nat, Balanced(ps, ls, t), Fair(qs[n], ps, ls, t)
  PROVE  Balanced(qs, ls, t)
<1> DEFINE p == qs[n]
<1>1. /\ n \in DOMAIN qs /\ GoodPayment(p) /\ DOMAIN qs = DOMAIN ps \cup {n}
      /\ \A k \in DOMAIN ps : qs[k] = ps[k]
  BY ZenonT(30) DEF More, GoodPayments
<1>2. /\ \A k \in DOMAIN ps : DOMAIN ps[k].lines \subseteq {ls[i].id : i \in DOMAIN ls}
      /\ PaidSum(ps) = SumFunction(PaidOf(ps, ls))
  BY ZenonT(30) DEF Balanced
<1>3. DOMAIN p.lines \subseteq {ls[i].id : i \in DOMAIN ls}
  BY SMTT(20), SMTT(30) DEF Fair
<1>4. PaidSum(qs) = SumFunction(PaidOf(qs, ls))
  <2>1. SumFunction(PaidOf(qs, ls)) = SumFunction(PaidOf(ps, ls)) + p.amount
    BY SMTT(20), SMTT(30), <1>3, SumsMatch
  <2>2. PaidSum(qs) = PaidSum(ps) + p.amount
    BY SMTT(20), SMTT(30), OneMore
  <2> QED
    BY ONLY ZenonT(30), <1>2, <2>1, <2>2
<1>5. ASSUME NEW i \in DOMAIN ls
      PROVE  /\ PaidQty(qs, ls[i].id) <= ls[i].qty
             /\ PaidAmt(qs, ls[i].id) <= Payable(ls, t)[i]
             /\ PaidQty(qs, ls[i].id) = ls[i].qty => PaidAmt(qs, ls[i].id) = Payable(ls, t)[i]
  <2> DEFINE id == ls[i].id
             rest == Clip(Payable(ls, t)[i] - PaidAmt(ps, id))
             unpaid == ls[i].qty - PaidQty(ps, id)
  <2>1. PaidAmt(qs, id) = PaidAmt(ps, id) + AmtOf(p, id) /\ PaidQty(qs, id) = PaidQty(ps, id) + QtyOf(p, id)
    BY SMTT(30), OneMore
  <2>2. PaidAmt(ps, id) \in Nat /\ PaidQty(ps, id) \in Nat
    BY ZenonT(30), PaymentsType
  <2>3. /\ PaidQty(ps, id) <= ls[i].qty /\ PaidAmt(ps, id) <= Payable(ls, t)[i]
        /\ PaidQty(ps, id) = ls[i].qty => PaidAmt(ps, id) = Payable(ls, t)[i]
    BY ZenonT(30) DEF Balanced
  <2>4. ls[i].qty \in Nat
    BY OrderFacts
  <2>5. Payable(ls, t)[i] \in Nat
    BY ZenonT(30), PayableType
  <2>6. AmtOf(p, id) \in Nat /\ QtyOf(p, id) \in Nat
    BY ONLY SMTT(20), SMTT(30), <1>1, PartType
  <2>7. rest = Payable(ls, t)[i] - PaidAmt(ps, id)
    <3> DEFINE d == Payable(ls, t)[i] - PaidAmt(ps, id)
    <3>1. d \in Int /\ d >= 0
      BY <2>2, <2>3, <2>5
    <3> HIDE DEF d
    <3>2. Clip(d) = d
      BY ONLY ZenonT(30), <3>1, ClipType
    <3> QED
      BY ONLY ZenonT(30), <3>2 DEF d
  <2>8. CASE id \in DOMAIN p.lines
    <3>1. AmtOf(p, id) = p.lines[id].amount /\ QtyOf(p, id) = p.lines[id].qty
      BY ONLY SMTT(20), SMTT(30), <2>8 DEF AmtOf, QtyOf
    <3>2. /\ p.lines[id].qty <= unpaid /\ p.lines[id].amount <= rest
          /\ p.lines[id].qty = unpaid => p.lines[id].amount = rest
      BY Zenon, <2>8 DEF Fair
    <3>3. QtyOf(p, id) <= unpaid /\ AmtOf(p, id) <= rest /\ (QtyOf(p, id) = unpaid => AmtOf(p, id) = rest)
      BY ZenonT(30), <3>1, <3>2
    <3> HIDE DEF id, p, rest
    <3>4. PaidQty(qs, id) <= ls[i].qty
      BY ONLY SMTT(20), SMTT(30), <2>1, <2>2, <2>4, <2>6, <3>3
    <3>5. PaidAmt(qs, id) <= Payable(ls, t)[i]
      BY ONLY SMTT(20), SMTT(30), <2>1, <2>2, <2>5, <2>6, <2>7, <3>3
    <3>6. PaidQty(qs, id) = ls[i].qty => PaidAmt(qs, id) = Payable(ls, t)[i]
      <4>1. PaidQty(qs, id) = ls[i].qty => QtyOf(p, id) = unpaid
        BY ONLY SMTT(20), SMTT(30), <2>1, <2>2, <2>4, <2>6
      <4>2. QtyOf(p, id) = unpaid => PaidAmt(qs, id) = Payable(ls, t)[i]
        BY ONLY SMTT(20), SMTT(30), <2>1, <2>2, <2>5, <2>7, <3>3
      <4> QED
        BY ONLY ZenonT(30), <4>1, <4>2
    <3> QED
      BY ONLY SMTT(20), SMTT(30), <3>4, <3>5, <3>6 DEF id
  <2>9. CASE id \notin DOMAIN p.lines
    <3>1. AmtOf(p, id) = 0 /\ QtyOf(p, id) = 0
      BY <2>9 DEF AmtOf, QtyOf
    <3> HIDE DEF id, p, rest
    <3>2. PaidQty(qs, id) = PaidQty(ps, id) /\ PaidAmt(qs, id) = PaidAmt(ps, id)
      BY ONLY SMTT(20), SMTT(30), <2>1, <2>2, <3>1
    <3> QED
      BY ONLY ZenonT(30), <2>3, <3>2 DEF id
  <2> QED
    BY ONLY ZenonT(30), <2>8, <2>9
<1>6. \A k \in DOMAIN qs : DOMAIN qs[k].lines \subseteq {ls[i].id : i \in DOMAIN ls}
  BY ONLY SMTT(20), SMTT(30), <1>1, <1>2, <1>3
<1> QED
  BY Zenon, <1>4, <1>5, <1>6 DEF Balanced

-----------------------------------------------------------------------------
(* The payment that RecordSplitPayment makes of the guests' choice. *)

Types ==
  /\ IsOrder(items) /\ discount \in Int /\ extra \in Int /\ total \in Nat /\ edits \in Nat
  /\ GoodPayments(payments)

LEMMA BillLine ==
  ASSUME Types, NEW i \in DOMAIN items
  PROVE  LET l == SplitBillOf(items, total)[i]
         IN /\ l.id = items[i].id
            /\ l.quantity = items[i].qty /\ l.quantity \in Nat
            /\ l.paidQty = PaidQty(payments, items[i].id) /\ l.paidQty \in Nat
            /\ l.unit \in Nat
            /\ l.remaining = Clip(Payable(items, total)[i] - PaidAmt(payments, items[i].id))
            /\ l.remaining \in Nat
<1> DEFINE l == SplitBillOf(items, total)[i]
           P == Payable(items, total)[i]
           A == PaidAmt(payments, items[i].id)
           Q == PaidQty(payments, items[i].id)
<1>1. l = [id |-> items[i].id, quantity |-> items[i].qty, paidQty |-> Q,
           unit |-> P \div items[i].qty, payable |-> P, remaining |-> Clip(P - A)]
  BY Zenon DEF SplitBillOf
<1>2. items[i].qty \in Nat \ {0}
  BY OrderFacts DEF Types
<1>3. P \in Nat
  BY PayableType DEF Types
<1>4. A \in Nat /\ Q \in Nat
  BY PaymentsType DEF Types
<1> HIDE DEF l, P, A, Q
<1>5. P \div items[i].qty \in Nat
  BY <1>2, <1>3, Division
<1>6. P - A \in Int
  BY <1>3, <1>4
<1>7. Clip(P - A) \in Nat
  BY <1>6, ClipType
<1>8. /\ l.id = items[i].id /\ l.quantity = items[i].qty /\ l.paidQty = Q
      /\ l.unit = P \div items[i].qty /\ l.remaining = Clip(P - A)
  BY <1>1
<1> QED
  BY ZenonT(30), <1>2, <1>4, <1>5, <1>7, <1>8 DEF l, P, A, Q

LEMMA PicksAre ==
  ASSUME Types, NEW picks \in Picks
  PROVE  /\ DOMAIN picks \subseteq {items[i].id : i \in DOMAIN items}
         /\ IsFiniteSet(DOMAIN picks)
         /\ \A id \in DOMAIN picks : picks[id] \in Nat \ {0}
<1> DEFINE I == {items[i].id : i \in DOMAIN items}
           N == UNION {1..items[i].qty : i \in DOMAIN items}
<1>1. PICK S \in (SUBSET I) \ {{}} : picks \in [S -> N]
  BY ZenonT(30) DEF Picks
<1>2. \A i \in DOMAIN items : items[i].qty \in Nat \ {0}
  BY OrderFacts DEF Types
<1>3. N \subseteq Nat \ {0}
  BY <1>2
<1>4. IsFiniteSet(DOMAIN items)
  BY OrderFacts DEF Types
<1>5. IsFiniteSet(I)
  <2> DEFINE f == [i \in DOMAIN items |-> items[i].id]
  <2>1. f \in Surjection(DOMAIN items, I)
    BY ZenonT(30) DEF Surjection
  <2> QED
    BY ZenonT(30), <1>4, <2>1, FS_Surjection
<1>6. IsFiniteSet(S)
  BY <1>1, <1>5, FS_Subset
<1> HIDE DEF I, N
<1>7. DOMAIN picks \subseteq I /\ IsFiniteSet(DOMAIN picks) /\ \A id \in DOMAIN picks : picks[id] \in Nat \ {0}
  BY Zenon, <1>1, <1>3, <1>6
<1> QED
  BY <1>7 DEF I

LEMMA PayLinesFair ==
  ASSUME Types, NEW picks \in Picks, Accepts(SplitBillOf(items, total), picks), NEW p,
         p.lines = PayLines(SplitBillOf(items, total), picks)
  PROVE  GoodLines(p.lines) /\ Fair(p, payments, items, total)
<1> DEFINE bill == SplitBillOf(items, total)
           pl == PayLines(bill, picks)
<1>1. /\ DOMAIN picks \subseteq {items[i].id : i \in DOMAIN items}
      /\ IsFiniteSet(DOMAIN picks)
      /\ \A id \in DOMAIN picks : picks[id] \in Nat \ {0}
  BY PicksAre
<1>2. DOMAIN bill = DOMAIN items
  BY Zenon DEF SplitBillOf
<1>3. \A i \in DOMAIN items : bill[i].id = items[i].id
  BY Zenon, BillLine
<1>4. ASSUME NEW i \in DOMAIN items, items[i].id \in DOMAIN picks
      PROVE  /\ pl[items[i].id].qty = picks[items[i].id]
             /\ pl[items[i].id].amount = splitQuote(bill[i], picks[items[i].id])
  <2> DEFINE id == items[i].id
             j == CHOOSE k \in DOMAIN bill : bill[k].id = id
  <2>1. j \in DOMAIN bill /\ bill[j].id = id
    BY <1>2, <1>3
  <2>2. \A k \in DOMAIN items : items[k].id = id => k = i
    BY DEF Types, IsOrder
  <2>3. j = i
    <3> HIDE DEF j, id
    <3> QED
      BY ONLY ZenonT(30), <1>2, <1>3, <2>1, <2>2
  <2>4. pl[id] = [qty |-> picks[id], amount |-> splitQuote(bill[j], picks[id])]
    BY ZenonT(30), <1>4 DEF PayLines
  <2> HIDE DEF pl, j, id, bill
  <2>5. pl[id].qty = picks[id] /\ pl[id].amount = splitQuote(bill[i], picks[id])
    BY ONLY SMTT(20), SMTT(30), <2>3, <2>4
  <2> QED
    BY ZenonT(30), <2>5 DEF id
<1>5. ASSUME NEW i \in DOMAIN items, items[i].id \in DOMAIN picks
      PROVE  /\ pl[items[i].id].qty \in Nat \ {0} /\ pl[items[i].id].amount \in Nat
             /\ pl[items[i].id].qty <= items[i].qty - PaidQty(payments, items[i].id)
             /\ pl[items[i].id].amount <= Clip(Payable(items, total)[i] - PaidAmt(payments, items[i].id))
             /\ pl[items[i].id].qty = items[i].qty - PaidQty(payments, items[i].id)
                  => pl[items[i].id].amount = Clip(Payable(items, total)[i] - PaidAmt(payments, items[i].id))
  <2> DEFINE l == bill[i]
             q == picks[items[i].id]
  <2>1. /\ l.id = items[i].id
        /\ l.quantity = items[i].qty /\ l.quantity \in Nat
        /\ l.paidQty = PaidQty(payments, items[i].id) /\ l.paidQty \in Nat
        /\ l.unit \in Nat
        /\ l.remaining = Clip(Payable(items, total)[i] - PaidAmt(payments, items[i].id))
        /\ l.remaining \in Nat
    BY ZenonT(30), BillLine
  <2>2. q \in Nat \ {0}
    BY ZenonT(30), <1>1, <1>5
  <2>3. q <= l.quantity - l.paidQty
    BY ZenonT(30), <1>2, <1>3, <1>5 DEF Accepts
  <2>4. pl[items[i].id].qty = q /\ pl[items[i].id].amount = splitQuote(l, q)
    BY ONLY ZenonT(30), <1>4, <1>5
  <2> HIDE DEF l, q, pl, bill
  <2>5. /\ splitQuote(l, q) \in Nat /\ splitQuote(l, q) <= l.remaining
        /\ q = l.quantity - l.paidQty => splitQuote(l, q) = l.remaining
    BY ZenonT(30), <2>1, <2>2, <2>3, QuoteFacts
  <2> QED
    BY Zenon, <2>1, <2>2, <2>3, <2>4, <2>5
<1>6. DOMAIN pl = DOMAIN picks
  BY DEF PayLines
<1> HIDE DEF pl, bill
<1>7. p.lines = pl
  BY ZenonT(30) DEF pl, bill
<1>8. \A id \in DOMAIN pl : pl[id].qty \in Nat \ {0} /\ pl[id].amount \in Nat
  <2> SUFFICES ASSUME NEW id \in DOMAIN pl PROVE pl[id].qty \in Nat \ {0} /\ pl[id].amount \in Nat
    OBVIOUS
  <2>1. PICK i \in DOMAIN items : items[i].id = id
    BY ONLY SMTT(20), SMTT(30), <1>1, <1>6
  <2> QED
    BY ZenonT(30), <1>5, <1>6, <2>1
<1>9. GoodLines(pl)
  BY ONLY SMTT(20), SMTT(30), <1>1, <1>6, <1>8 DEF GoodLines
<1>10. Fair(p, payments, items, total)
  BY Zenon, <1>1, <1>5, <1>6, <1>7 DEF Fair
<1> QED
  BY ZenonT(30), <1>7, <1>9, <1>10

-----------------------------------------------------------------------------
(* The invariant. *)

\* The card's summary is that of the payments, unless the items changed since; an
\* order without payments is not shown as settled.
CardInv ==
  /\ edited = "no" /\ payments # << >> => summary = Summary(payments, total)
  /\ payments = << >> => summary.status # "PAID"

Inv ==
  /\ Types
  /\ edited = "no" => Balanced(payments, items, total)
  /\ CardInv
  /\ PaymentOncePerToken

LEMMA SummaryFacts ==
  ASSUME NEW ps, GoodPayments(ps), NEW t \in Nat
  PROVE  /\ Clip(t - PaidSum(ps)) = 0 <=> PaidSum(ps) >= t
         /\ Summary(ps, t).status = "PAID" <=> t > 0 /\ PaidSum(ps) >= t
<1> DEFINE sum == PaidSum(ps)
           rem == Clip(t - sum)
<1>1. sum \in Nat
  BY PaymentsType
<1>2. Summary(ps, t).status = IF rem = 0 /\ t > 0 THEN "PAID" ELSE IF sum > 0 THEN "PARTIAL" ELSE "UNPAID"
  BY DEF Summary
<1> HIDE DEF sum
<1>3. rem = 0 <=> sum >= t
  BY <1>1 DEF Clip
<1>4. Summary(ps, t).status = "PAID" <=> rem = 0 /\ t > 0
  BY <1>2
<1> QED
  BY <1>3, <1>4 DEF sum

LEMMA InvInit == Init => Inv
<1> SUFFICES ASSUME Init PROVE Inv
  OBVIOUS
<1>1. PICK c \in Carts, d \in Discounts, e \in Extras :
        items = Lines(c, 0) /\ discount = ClampDiscount(d, items) /\ extra = Clip(e)
        /\ total = OrderTotal(items, d, e)
  BY DEF Init
<1>2. d \in Int /\ e \in Int /\ 0 \in Nat
  BY SplitBillConstants
<1>3. IsOrder(items)
  BY <1>1, <1>2, LinesAreAnOrder
<1>4. discount \in Nat /\ extra \in Nat /\ total \in Nat
  BY <1>1, <1>2, <1>3, AmountsType
<1>5. payments = << >> /\ edits = 0 /\ summary = NoSummary
  BY DEF Init
<1>6. GoodPayments(payments)
  BY <1>5, NothingPaid
<1>7. Balanced(payments, items, total)
  BY <1>3, <1>4, <1>5, BalancedAtFirst
<1>8. summary.status # "PAID"
  BY <1>5 DEF NoSummary
<1>9. DOMAIN payments = {}
  BY <1>5
<1>10. discount \in Int /\ extra \in Int /\ edits \in Nat
  BY <1>4, <1>5
<1>11. Types
  BY <1>3, <1>4, <1>6, <1>10 DEF Types
<1>12. CardInv
  BY <1>5, <1>8 DEF CardInv
<1>13. PaymentOncePerToken
  BY <1>9 DEF PaymentOncePerToken
<1> QED
  BY <1>7, <1>11, <1>12, <1>13 DEF Inv

LEMMA RecordKeeps ==
  ASSUME Inv, NEW picks \in Picks, NEW token \in Tokens \cup {NoToken}, RecordSplitPayment(picks, token)
  PROVE  Inv'
<1> DEFINE bill == SplitBillOf(items, total)
           pl == PayLines(bill, picks)
           p == [token |-> token, lines |-> pl, amount |-> LinesAmount(pl)]
           n == Len(payments) + 1
<1>1. /\ Accepts(bill, picks) /\ payments' = Append(payments, p)
      /\ token # NoToken => \A k \in DOMAIN payments : payments[k].token # token
      /\ summary' = Summary(payments', total)
      /\ UNCHANGED <<status, items, discount, extra, total, edits, edited>>
  BY DEF RecordSplitPayment
<1>2. Types /\ PaymentOncePerToken
  BY DEF Inv
<1>3. p.lines = pl /\ p.token = token /\ p.amount = LinesAmount(p.lines)
  BY SMTT(20), SMTT(30)
<1> HIDE DEF p
<1>4. GoodLines(p.lines) /\ Fair(p, payments, items, total)
  BY Zenon, <1>1, <1>2, <1>3, PayLinesFair
<1> HIDE DEF bill, pl
<1>5. GoodPayment(p)
  BY <1>3, <1>4 DEF GoodPayment
<1>6. GoodPayments(payments)
  BY ONLY ZenonT(30), <1>2 DEF Types
<1>7. /\ IsSeq(payments') /\ n \notin DOMAIN payments /\ DOMAIN payments' = DOMAIN payments \cup {n}
      /\ payments'[n] = p /\ \A k \in DOMAIN payments : payments'[k] = payments[k]
  <2>1. IsSeq(payments)
    BY <1>6 DEF GoodPayments
  <2> QED
    BY <1>1, <2>1, SeqAppend
<1> HIDE DEF n
<1>8. More(payments, payments', n)
  BY <1>7 DEF More
<1>9. GoodPayments(payments')
  BY <1>5, <1>6, <1>7 DEF GoodPayments
<1>10. Types'
  BY <1>1, <1>2, <1>9 DEF Types
<1>11. edited' = "no" => Balanced(payments', items', total')
  <2> SUFFICES ASSUME edited' = "no" PROVE Balanced(payments', items', total')
    OBVIOUS
  <2>1. Balanced(payments, items, total)
    BY ZenonT(30), <1>1 DEF Inv
  <2>2. Fair(payments'[n], payments, items, total)
    BY <1>4, <1>7
  <2>3. IsOrder(items) /\ total \in Nat
    BY <1>2 DEF Types
  <2>4. Balanced(payments', items, total)
    BY ZenonT(30), <1>6, <1>8, <1>9, <2>1, <2>2, <2>3, BalancedWith
  <2> QED
    BY <1>1, <2>4
<1>12. CardInv'
  <2>1. payments' # << >>
    BY <1>7
  <2> QED
    BY <1>1, <2>1 DEF CardInv
<1>13. PaymentOncePerToken'
  <2> SUFFICES ASSUME NEW j \in DOMAIN payments', NEW k \in DOMAIN payments',
                      payments'[j].token = payments'[k].token, payments'[j].token # NoToken
               PROVE  j = k
    BY DEF PaymentOncePerToken
  <2>1. CASE j \in DOMAIN payments /\ k \in DOMAIN payments
    BY SMTT(20), SMTT(30), <1>2, <1>7, <2>1 DEF PaymentOncePerToken
  <2>2. CASE j = n
    BY ZenonT(30), <1>1, <1>3, <1>7, <2>2
  <2>3. CASE k = n
    BY <1>1, <1>3, <1>7, <2>3
  <2> QED
    BY <1>7, <2>1, <2>2, <2>3
<1>14. (edited = "no" => Balanced(payments, items, total))'
  BY <1>11
<1> QED
  BY ZenonT(30), <1>10, <1>12, <1>13, <1>14 DEF Inv

LEMMA UndoKeeps ==
  ASSUME Inv, UndoLastSplitPayment
  PROVE  Inv'
<1> DEFINE ps == SubSeq(payments, 1, Len(payments) - 1)
           n == Len(payments)
<1>1. /\ payments # << >> /\ payments' = ps /\ summary' = Summary(payments', total)
      /\ edited' = IF payments' = << >> THEN "no" ELSE edited
      /\ UNCHANGED <<status, items, discount, extra, total, edits>>
  BY DEF UndoLastSplitPayment
<1>2. Types /\ PaymentOncePerToken /\ GoodPayments(payments) /\ IsOrder(items) /\ total \in Nat
  BY DEF Inv, Types
<1>3. /\ IsSeq(payments') /\ n \notin DOMAIN payments' /\ DOMAIN payments = DOMAIN payments' \cup {n}
      /\ \A k \in DOMAIN payments' : payments'[k] = payments[k]
  <2>1. IsSeq(payments)
    BY <1>2 DEF GoodPayments
  <2>2. /\ IsSeq(ps) /\ n \notin DOMAIN ps /\ DOMAIN payments = DOMAIN ps \cup {n}
        /\ \A k \in DOMAIN ps : ps[k] = payments[k]
    BY ONLY Zenon, <1>1, <2>1, SeqFront
  <2> HIDE DEF ps, n
  <2> QED
    BY <1>1, <2>2
<1> HIDE DEF ps, n
<1>4. GoodPayments(payments')
  BY <1>2, <1>3 DEF GoodPayments
<1>5. More(payments', payments, n)
  <2>1. \A k \in DOMAIN payments' : payments[k] = payments'[k]
    BY <1>3
  <2> QED
    BY <1>3, <2>1 DEF More
<1>6. Types'
  BY <1>1, <1>2, <1>4 DEF Types
<1>7. edited' = "no" => Balanced(payments', items', total')
  <2>1. CASE payments' = << >>
    <3>1. Balanced(payments', items, total)
      BY <1>2, <2>1, BalancedAtFirst
    <3> QED
      BY <1>1, <3>1
  <2>2. CASE payments' # << >> /\ edited = "no"
    <3>1. Balanced(payments, items, total)
      BY <2>2 DEF Inv
    <3>2. Balanced(payments', items, total)
      BY <1>2, <1>4, <1>5, <3>1, BalancedWithout
    <3> QED
      BY <1>1, <3>2
  <2> QED
    BY <1>1, <2>1, <2>2
<1>8. CardInv'
  <2>1. payments' = << >> => summary'.status # "PAID"
    <3> SUFFICES ASSUME payments' = << >>, Summary(payments', total).status = "PAID" PROVE FALSE
      BY <1>1
    <3>1. PaidSum(payments') = 0
      BY ZenonT(30), NothingPaid
    <3> QED
      BY <1>2, <1>4, <3>1, SummaryFacts
  <2> QED
    BY <1>1, <2>1 DEF CardInv
<1>9. PaymentOncePerToken'
  BY <1>2, <1>3 DEF PaymentOncePerToken
<1>10. (edited = "no" => Balanced(payments, items, total))'
  BY <1>7
<1> QED
  BY <1>6, <1>8, <1>9, <1>10 DEF Inv

LEMMA EditKeeps ==
  ASSUME Inv, NEW c \in Carts, NEW d \in Discounts \cup {discount}, NEW e \in Extras \cup {extra},
         UpdateOrderItemsFull(c, d, e)
  PROVE  Inv'
<1>1. /\ edits' = edits + 1 /\ items' = Lines(c, edits + 1)
      /\ discount' = ClampDiscount(d, items') /\ extra' = Clip(e) /\ total' = OrderTotal(items', d, e)
      /\ edited' = IF payments = << >> THEN "no" ELSE "yes"
      /\ payments' = payments /\ summary' = summary
  BY DEF UpdateOrderItemsFull
<1>2. Types /\ CardInv /\ PaymentOncePerToken
  BY DEF Inv
<1>3. d \in Int /\ e \in Int /\ edits + 1 \in Nat
  BY <1>2, SplitBillConstants DEF Types
<1>4. IsOrder(items')
  BY <1>1, <1>3, LinesAreAnOrder
<1>5. discount' \in Nat /\ extra' \in Nat /\ total' \in Nat
  BY <1>1, <1>3, <1>4, AmountsType
<1>6. discount' \in Int /\ extra' \in Int /\ edits' \in Nat
  BY <1>1, <1>3, <1>5
<1>7. Types'
  BY <1>1, <1>2, <1>4, <1>5, <1>6 DEF Types
<1>8. edited' = "no" => Balanced(payments', items', total')
  <2> SUFFICES ASSUME edited' = "no" PROVE Balanced(payments', items', total')
    OBVIOUS
  <2>1. payments' = << >>
    BY <1>1
  <2> QED
    BY <1>4, <1>5, <2>1, BalancedAtFirst
<1>9. CardInv'
  BY <1>1, <1>2 DEF CardInv
<1>10. PaymentOncePerToken'
  BY <1>1, <1>2 DEF PaymentOncePerToken
<1>11. (edited = "no" => Balanced(payments, items, total))'
  BY <1>8
<1> QED
  BY <1>7, <1>9, <1>10, <1>11 DEF Inv

LEMMA InvNext == Inv /\ [Next]_vars => Inv'
<1> SUFFICES ASSUME Inv, [Next]_vars PROVE Inv'
  OBVIOUS
<1>1. ASSUME UNCHANGED <<items, discount, extra, total, payments, summary, edits, edited>>
      PROVE  Inv'
  <2>1. Types' /\ CardInv' /\ PaymentOncePerToken'
    BY <1>1 DEF Inv, Types, CardInv, PaymentOncePerToken
  <2>2. (edited = "no" => Balanced(payments, items, total))'
    BY <1>1 DEF Inv
  <2> QED
    BY <2>1, <2>2 DEF Inv
<1>2. CASE UNCHANGED vars
  BY <1>1, <1>2 DEF vars
<1>3. CASE \E picks \in Picks, token \in Tokens \cup {NoToken} : RecordSplitPayment(picks, token)
  BY <1>3, RecordKeeps
<1>4. CASE UndoLastSplitPayment
  BY <1>4, UndoKeeps
<1>5. CASE \E c \in Carts, d \in Discounts \cup {discount}, e \in Extras \cup {extra} :
             UpdateOrderItemsFull(c, d, e)
  BY <1>5, EditKeeps
<1>6. CASE \E s \in {"completed", "cancelled", "deleted"} : CloseOrder(s)
  BY <1>1, <1>6 DEF CloseOrder
<1> QED
  BY <1>2, <1>3, <1>4, <1>5, <1>6 DEF Next

LEMMA Invariance == Spec => []Inv
BY InvInit, InvNext, PTL DEF Spec

-----------------------------------------------------------------------------
(* The results. *)

\* What a balanced bill amounts to when no product of SplitBillOf overflows.
LEMMA PaidUpTo ==
  ASSUME Types, Balanced(payments, items, total), Fits
  PROVE  /\ PaidSum(payments) <= total
         /\ Subtotal(items) > 0 =>
              /\ SumFunction(Payable(items, total)) = total
              /\ (\A i \in DOMAIN items : PaidQty(payments, items[i].id) = items[i].qty)
                   => PaidSum(payments) = total
<1> DEFINE P == Payable(items, total)
           A == PaidOf(payments, items)
           S == DOMAIN items
<1>1. IsOrder(items) /\ total \in Nat /\ GoodPayments(payments)
  BY DEF Types
<1>2. P \in [S -> Nat] /\ (Subtotal(items) = 0 \/ total = 0 => \A i \in S : P[i] = 0)
  BY ONLY SMTT(20), SMTT(30), <1>1, PayableType
<1>3. A \in [S -> Nat] /\ A \in [S -> Int] /\ PaidSum(payments) = SumFunction(A)
  BY Zenon, <1>1, PaidOfType DEF Balanced
<1>4. IsFiniteSet(S) /\ Subtotal(items) \in Nat
  BY ONLY SMTT(20), SMTT(30), <1>1, OrderFacts
<1>5. \A i \in S : A[i] <= P[i]
  BY ZenonT(30) DEF Balanced, PaidOf
<1>6. (\A i \in S : PaidQty(payments, items[i].id) = items[i].qty) => \A i \in S : A[i] = P[i]
  BY Zenon DEF Balanced, PaidOf
<1>7. Subtotal(items) > 0 => SumFunction(P) = total
  BY <1>1, SharesAddUp DEF Fits
<1>8. P \in [S -> Int]
  BY <1>2
<1>9. (\A i \in S : A[i] = P[i]) => A = P
  BY <1>2, <1>3
<1> HIDE DEF P, A, S
<1>10. SumFunction(A) <= SumFunction(P)
  BY ONLY <1>3, <1>4, <1>5, <1>8, SumMonotone
<1>11. SumFunction(P) \in Nat /\ SumFunction(A) \in Nat
  BY <1>2, <1>3, <1>4, SumNat
<1>12. Subtotal(items) = 0 => SumFunction(P) = 0
  BY ZenonT(30), <1>2, <1>4, <1>8, SumZero
<1>13. PaidSum(payments) <= total
  BY ONLY SMTT(20), SMTT(30), <1>1, <1>3, <1>4, <1>7, <1>10, <1>11, <1>12
<1>14. Subtotal(items) > 0 =>
         /\ SumFunction(P) = total
         /\ (\A i \in S : PaidQty(payments, items[i].id) = items[i].qty) => PaidSum(payments) = total
  BY <1>3, <1>6, <1>7, <1>9
<1> QED
  BY <1>13, <1>14 DEF P, S

\* NeverOverpaid holds in every reachable state, whatever the guests pay for and in
\* whichever order payments are recorded and undone.
THEOREM GuestsNeverOverpay == Spec => []NeverOverpaid
<1>1. Inv => NeverOverpaid
  <2> SUFFICES ASSUME Inv, Fits, edited = "no"
               PROVE  /\ PaidSum(payments) <= total
                      /\ \A i \in DOMAIN items : PaidAmt(payments, items[i].id) <= Payable(items, total)[i]
    BY DEF NeverOverpaid
  <2>1. Types /\ Balanced(payments, items, total)
    BY DEF Inv
  <2>2. PaidSum(payments) <= total
    BY <2>1, PaidUpTo
  <2> QED
    BY <2>1, <2>2 DEF Balanced
<1> QED
  BY <1>1, Invariance, PTL

\* SettlesExactly holds in every reachable state: the shares of SplitBillOf add up to
\* the total, the units' prices of splitQuote to the shares, and the card is right.
THEOREM BillsSettleExactly == Spec => []SettlesExactly
<1>1. ASSUME Inv PROVE SettlesExactly
  <2>1. Types /\ CardInv /\ GoodPayments(payments) /\ total \in Nat /\ IsOrder(items)
    BY ONLY ZenonT(30), <1>1 DEF Inv, Types
  <2>2. Fits /\ Subtotal(items) > 0 => SumFunction(Payable(items, total)) = total
    BY ONLY SMTT(20), SMTT(30), <2>1, SharesAddUp DEF Fits
  <2>3. ASSUME edited = "no"
        PROVE  /\ \A i \in DOMAIN items :
                    PaidQty(payments, items[i].id) = items[i].qty
                      => PaidAmt(payments, items[i].id) = Payable(items, total)[i]
               /\ (/\ Fits /\ Subtotal(items) > 0
                   /\ \A i \in DOMAIN items : PaidQty(payments, items[i].id) = items[i].qty)
                    => PaidSum(payments) = total
               /\ SplitSettled <=> total > 0 /\ PaidSum(payments) >= total
    <3>1. Balanced(payments, items, total)
      BY <1>1, <2>3 DEF Inv
    <3>2. (/\ Fits /\ Subtotal(items) > 0
           /\ \A i \in DOMAIN items : PaidQty(payments, items[i].id) = items[i].qty)
            => PaidSum(payments) = total
      BY <2>1, <3>1, PaidUpTo
    <3>3. /\ Clip(total - PaidSum(payments)) = 0 <=> PaidSum(payments) >= total
          /\ Summary(payments, total).status = "PAID" <=> total > 0 /\ PaidSum(payments) >= total
      BY <2>1, SummaryFacts
    <3>4. SplitSettled <=> total > 0 /\ PaidSum(payments) >= total
      <4>1. CASE payments = << >>
        <5>1. PaidSum(payments) = 0 /\ summary.status # "PAID"
          BY <2>1, <4>1, NothingPaid DEF CardInv
        <5> QED
          BY <2>1, <5>1 DEF SplitSettled
      <4>2. CASE payments # << >>
        <5>1. summary = Summary(payments, total)
          BY <2>1, <2>3, <4>2 DEF CardInv
        <5> QED
          BY <3>3, <5>1 DEF SplitSettled
      <4> QED
        BY <4>1, <4>2
    <3> QED
      BY Zenon, <3>1, <3>2, <3>4 DEF Balanced
  <2> QED
    BY <2>2, <2>3 DEF SettlesExactly
<1> QED
  BY <1>1, Invariance, PTL

\* PaymentOncePerToken holds in every reachable state: RecordSplitPayment looks the
\* token up in the transaction that inserts it.
THEOREM FormsPayOnce == Spec => []PaymentOncePerToken
<1>1. Inv => PaymentOncePerToken
  BY DEF Inv
<1> QED
  BY <1>1, Invariance, PTL

-----------------------------------------------------------------------------
(* Movements of the stock.                                                 *)

MovementRecords == [kind : Kinds, qty : Int, order : Orders \cup {NoOrder}, raw : Int, before : Int]

LEMMA Form2Type ==
  ASSUME NEW x \in Int
  PROVE  Form2(x) \subseteq Int
BY DEF Form2

\* Completing an order: the rest of the stock's variables stay, the movement is typed.
LEMMA DeductType ==
  ASSUME stock \in Int, movements \in Seq(MovementRecords), NEW o \in Orders, NEW u \in Nat,
         Deduct(o, u)
  PROVE  stock' \in Int /\ movements' \in Seq(MovementRecords)
<1>1. Recipe * u \in Int
  BY InventoryConstants
<1>2. stock' \in Int
  BY <1>1, Form2Type DEF Deduct
<1>3. CASE Recipe * u = 0
  BY <1>2, <1>3 DEF Deduct
<1>4. CASE Recipe * u # 0
  <2>1. PICK f \in Form2(-(Recipe * u)) :
          movements' = Append(movements, Movement("consumption", f, -(Recipe * u), o))
    BY <1>4 DEF Deduct
  <2>2. f \in Int
    BY ONLY SMTT(20), SMTT(30), <1>1, <2>1, Form2Type
  <2>3. Movement("consumption", f, -(Recipe * u), o) \in MovementRecords
    BY <1>1, <2>2 DEF Movement, MovementRecords, Kinds
  <2> QED
    BY <1>2, <2>1, <2>3
<1> QED
  BY <1>3, <1>4

-----------------------------------------------------------------------------
(* Voiding waste: a request that is between its two transactions has marked *)
(* its event and nothing was put back for that event yet, so no other       *)
(* request can be between its two for the same event, then or later.        *)

\* Quantities are written with two decimals: whole hundredths.
WasteRecords == [qty : {x \in Int : x % 10 = 0}, status : {"recorded", "voided"}, restored : {0, 1}]

WasteInv ==
  /\ wastes \in Seq(WasteRecords)
  /\ voiding \subseteq DOMAIN wastes
  /\ \A w \in DOMAIN wastes :
       /\ wastes[w].restored = 1 => wastes[w].status = "voided"
       /\ w \in voiding => wastes[w].status = "voided" /\ wastes[w].restored = 0

\* What the code writes for a quantity is the quantity to the nearest hundredth.
LEMMA Form2Is ==
  ASSUME NEW x \in Int, NEW f \in Form2(x)
  PROVE  /\ f \in Int /\ f % 10 = 0 /\ (-f) \in Int /\ (-f) % 10 = 0
         /\ f - x \in -5..5
         /\ x % 10 # 5 => f - x \in -4..4
         /\ x % 10 = 0 => f = x
BY DEF Form2

LEMMA DeltaType ==
  ASSUME NEW kind \in Kinds, NEW q \in Quantities, NEW c \in Int, NEW d \in signedDelta(kind, q, c)
  PROVE  d \in Int
<1>1. q \in Int
  BY SMTT(20), SMTT(30), InventoryConstants
<1> QED
  BY <1>1 DEF signedDelta, Kinds

\* What a movement does to the waste events: nothing, or one more of them.
LEMMA WasteAppended ==
  ASSUME WasteInv, voiding' = voiding, NEW q, q \in Int, q % 10 = 0,
         wastes' = Append(wastes, [qty |-> q, status |-> "recorded", restored |-> 0])
  PROVE  WasteInv'
<1> DEFINE r == [qty |-> q, status |-> "recorded", restored |-> 0]
           n == Len(wastes) + 1
<1>1. r \in WasteRecords /\ r.status = "recorded" /\ r.restored = 0
  BY SMTT(20), SMTT(30) DEF WasteRecords
<1> HIDE DEF r
<1>2. wastes \in Seq(WasteRecords)
  BY Zenon DEF WasteInv
<1>3. wastes' \in Seq(WasteRecords)
  BY SMTT(20), SMTT(30), <1>1, <1>2 DEF r
<1>4. /\ DOMAIN wastes' = DOMAIN wastes \cup {n} /\ n \notin DOMAIN wastes
      /\ wastes'[n] = r /\ \A w \in DOMAIN wastes : wastes'[w] = wastes[w]
  <2>1. IsSeq(wastes)
    BY <1>2 DEF IsSeq
  <2>2. wastes' = Append(wastes, r)
    BY DEF r
  <2> QED
    BY ONLY <2>1, <2>2, SeqAppend
<1> HIDE DEF n
<1>5. voiding \subseteq DOMAIN wastes /\ voiding' \subseteq DOMAIN wastes'
  BY <1>4 DEF WasteInv
<1>6. ASSUME NEW w \in DOMAIN wastes'
      PROVE  /\ wastes'[w].restored = 1 => wastes'[w].status = "voided"
             /\ w \in voiding' => wastes'[w].status = "voided" /\ wastes'[w].restored = 0
  <2>1. CASE w = n
    BY SMTT(20), SMTT(30), <1>1, <1>4, <1>5, <2>1
  <2>2. CASE w \in DOMAIN wastes
    BY <1>4, <2>2 DEF WasteInv
  <2> QED
    BY ONLY ZenonT(30), <1>4, <2>1, <2>2
<1> QED
  BY <1>3, <1>5, <1>6 DEF WasteInv

\* One event changes.
LEMMA WasteChanged ==
  ASSUME WasteInv, NEW w \in DOMAIN wastes, NEW r \in WasteRecords,
         wastes' = [wastes EXCEPT ![w] = r],
         r.restored = 1 => r.status = "voided",
         voiding' \subseteq voiding \cup {w},
         w \in voiding' => r.status = "voided" /\ r.restored = 0
  PROVE  WasteInv'
<1>1. wastes' \in Seq(WasteRecords) /\ DOMAIN wastes' = DOMAIN wastes
  BY DEF WasteInv
<1>2. wastes'[w] = r /\ \A x \in DOMAIN wastes \ {w} : wastes'[x] = wastes[x]
  OBVIOUS
<1> QED
  BY <1>1, <1>2 DEF WasteInv

LEMMA WasteInvStep ==
  ASSUME WasteInv, stock \in Int, [StockNext]_stockVars
  PROVE  WasteInv'
<1>1. ASSUME NEW kind \in Kinds, NEW q \in Quantities, NEW cost \in Costs \cup {NoCost},
             RecordStockMovement(kind, q, cost)
      PROVE  WasteInv'
  <2>1. PICK d \in signedDelta(kind, q, stock) : Moves(kind, d, cost)
    BY <1>1 DEF RecordStockMovement
  <2>2. PICK f \in Form2(d) :
          wastes' = IF kind = "waste"
                    THEN Append(wastes, [qty |-> -f, status |-> "recorded", restored |-> 0])
                    ELSE wastes
    BY <2>1 DEF Moves
  <2>3. voiding' = voiding
    BY <1>1 DEF RecordStockMovement
  <2>4. (-f) \in Int /\ (-f) % 10 = 0
    BY ZenonT(30), <2>1, <2>2, DeltaType, Form2Is
  <2>5. CASE kind = "waste"
    BY ZenonT(30), <2>2, <2>3, <2>4, <2>5, WasteAppended
  <2>6. CASE kind # "waste"
    BY <2>2, <2>3, <2>6 DEF WasteInv
  <2> QED
    BY <2>5, <2>6
<1>2. ASSUME NEW w \in DOMAIN wastes, VoidMark(w)
      PROVE  WasteInv'
  <2>1. wastes[w] \in WasteRecords
    BY DEF WasteInv
  <2> DEFINE r == [wastes[w] EXCEPT !.status = "voided"]
  <2>2. r \in WasteRecords /\ r.status = "voided" /\ r.restored = wastes[w].restored
    BY <2>1 DEF WasteRecords
  <2>3. wastes[w].restored = 0
    BY <1>2, <2>1 DEF WasteInv, VoidMark, WasteRecords
  <2>4. wastes' = [wastes EXCEPT ![w] = r] /\ voiding' = voiding \cup {w}
    BY <1>2 DEF VoidMark
  <2> HIDE DEF r
  <2> QED
    BY Zenon, <2>2, <2>3, <2>4, WasteChanged
<1>3. ASSUME NEW w \in DOMAIN wastes, VoidRestore(w)
      PROVE  WasteInv'
  <2>1. wastes[w] \in WasteRecords /\ w \in voiding /\ voiding' = voiding \ {w}
    BY SMTT(20), SMTT(30), <1>3 DEF WasteInv, VoidRestore
  <2>2. CASE wastes' = wastes
    BY <2>1, <2>2 DEF WasteInv
  <2>3. CASE wastes' # wastes
    <3> DEFINE r == [wastes[w] EXCEPT !.restored = @ + 1]
    <3>1. wastes[w].status = "voided" /\ wastes[w].restored = 0
      BY <2>1 DEF WasteInv
    <3>2. r \in WasteRecords /\ r.status = "voided"
      BY <2>1, <3>1 DEF WasteRecords
    <3>3. wastes' = [wastes EXCEPT ![w] = r]
      BY ZenonT(30), <1>3, <2>3 DEF VoidRestore
    <3> HIDE DEF r
    <3> QED
      BY ZenonT(30), <2>1, <3>2, <3>3, WasteChanged
  <2> QED
    BY <2>2, <2>3
<1>4. ASSUME NEW w \in DOMAIN wastes, VoidDies(w)
      PROVE  WasteInv'
  BY <1>4 DEF VoidDies, WasteInv
<1>5. CASE UNCHANGED <<wastes, voiding>>
  BY <1>5 DEF WasteInv
<1>6. ASSUME NEW s, NEW c, SaveIngredient(s, c)
      PROVE  UNCHANGED <<wastes, voiding>>
  BY <1>6 DEF SaveIngredient
<1>7. ASSUME NEW o, NEW u, Complete(o, u)
      PROVE  UNCHANGED <<wastes, voiding>>
  BY <1>7 DEF Complete, Deduct
<1> QED
  BY ZenonT(30), <1>1, <1>2, <1>3, <1>4, <1>5, <1>6, <1>7 DEF StockNext, stockVars

-----------------------------------------------------------------------------
(* The moving average. *)

LEMMA Products ==
  ASSUME NEW a \in Int, NEW b \in Int, NEW c \in Nat, a <= b
  PROVE  a * c <= b * c /\ a * c \in Int /\ b * c \in Int
<1>1. b - a \in Nat /\ (b - a) * c \in Nat
  OBVIOUS
<1>2. b * c = a * c + (b - a) * c
  OBVIOUS
<1> QED
  BY <1>1, <1>2

\* A rounded quotient lies between the bounds of the exact one.
LEMMA QuotientBetween ==
  ASSUME NEW n \in Int, NEW d \in Nat \ {0}, NEW lo \in Int, NEW hi \in Int,
         lo * d <= n, n <= hi * d, NEW x \in Quotients(n, d)
  PROVE  x \in Int /\ lo <= x /\ x <= hi
<1> DEFINE q == n \div d
           r == n % d
<1>1. q \in Int /\ r \in Int /\ 0 <= r /\ r < d /\ n = q * d + r /\ q * d \in Int
  OBVIOUS
<1>2. x = q \/ (x = q + 1 /\ 2 * r >= d)
  <2>1. n % d \in Int /\ d \in Int
    BY <1>1
  <2> QED
    BY <2>1 DEF Quotients
<1> HIDE DEF q, r
<1>3. lo <= q
  <2> SUFFICES ASSUME q + 1 <= lo PROVE FALSE
    BY <1>1
  <2>1. (q + 1) * d <= lo * d
    BY <1>1, Products
  <2>2. (q + 1) * d = q * d + d
    BY <1>1
  <2> QED
    BY <1>1, <2>1, <2>2
<1>4. q <= hi /\ (r > 0 => q + 1 <= hi)
  <2>1. SUFFICES ASSUME hi + 1 <= q \/ (r > 0 /\ hi <= q) PROVE FALSE
    BY <1>1
  <2>2. CASE hi + 1 <= q
    <3>1. (hi + 1) * d <= q * d /\ (hi + 1) * d = hi * d + d /\ hi * d \in Int
      BY <1>1, <2>2, Products
    <3> QED
      BY <1>1, <3>1
  <2>3. CASE r > 0 /\ hi <= q
    <3>1. hi * d <= q * d /\ hi * d \in Int
      BY <1>1, <2>3, Products
    <3> QED
      BY <1>1, <2>3, <3>1
  <2> QED
    BY <2>1, <2>2, <2>3
<1> QED
  BY <1>1, <1>2, <1>3, <1>4

LEMMA AverageMixes ==
  ASSUME NEW cur \in Int, cur > 0, NEW delta \in Int, delta > 0, NEW av \in Int, NEW cost \in Int,
         NEW lo \in Int, NEW hi \in Int, lo <= av, av <= hi, lo <= cost, cost <= hi,
         NEW x \in Quotients(cur * av + delta * cost, cur + delta)
  PROVE  x \in Int /\ lo <= x /\ x <= hi
<1>1. /\ lo * cur <= av * cur /\ av * cur <= hi * cur
      /\ lo * delta <= cost * delta /\ cost * delta <= hi * delta
  BY Products
<1>2. /\ lo * cur \in Int /\ hi * cur \in Int /\ lo * delta \in Int /\ hi * delta \in Int
      /\ av * cur \in Int /\ cost * delta \in Int
  OBVIOUS
<1>3. lo * (cur + delta) = lo * cur + lo * delta /\ hi * (cur + delta) = hi * cur + hi * delta
  OBVIOUS
<1>4. cur * av = av * cur /\ delta * cost = cost * delta
  OBVIOUS
<1>5. /\ lo * (cur + delta) <= cur * av + delta * cost
      /\ cur * av + delta * cost <= hi * (cur + delta)
      /\ cur * av + delta * cost \in Int
  BY <1>1, <1>2, <1>3, <1>4
<1>6. cur + delta \in Nat \ {0}
  OBVIOUS
<1> QED
  BY ONLY Zenon, <1>5, <1>6, QuotientBetween, x \in Quotients(cur * av + delta * cost, cur + delta), lo \in Int, hi \in Int

LEMMA AverageStays ==
  ASSUME AverageIsBetweenCosts, average \in Int, NEW cur \in Int, NEW delta \in Int,
         NEW cost \in Costs \cup {NoCost}, average' \in NewAverage(cur, delta, cost)
  PROVE  AverageIsBetweenCosts' /\ average' \in Int
<1>1. PICK lo \in Costs, hi \in Costs : lo <= average /\ average <= hi
  BY DEF AverageIsBetweenCosts
<1>2. CASE average' = average
  BY <1>2 DEF AverageIsBetweenCosts
<1>3. CASE average' # average
  <2>1. cost \in Costs /\ delta > 0 /\ cost \in Int /\ lo \in Int /\ hi \in Int
    BY <1>3, InventoryConstants DEF NewAverage
  <2>2. CASE average' = cost
    BY <2>1, <2>2 DEF AverageIsBetweenCosts
  <2>3. CASE average' # cost
    <3>1. cur > 0 /\ average' \in Quotients(cur * average + delta * cost, cur + delta)
      BY <1>3, <2>3 DEF NewAverage
    <3>2. PICK l \in Costs : l <= lo /\ l <= cost
      BY <2>1
    <3>3. PICK h \in Costs : hi <= h /\ cost <= h
      BY <2>1
    <3>4. l \in Int /\ h \in Int /\ l <= average /\ average <= h
      BY SMTT(20), SMTT(30), <1>1, <2>1, <3>2, <3>3, InventoryConstants
    <3>5. average' \in Int /\ l <= average' /\ average' <= h
      BY ZenonT(30), <2>1, <3>1, <3>2, <3>3, <3>4, AverageMixes
    <3> QED
      BY <3>5 DEF AverageIsBetweenCosts
  <2> QED
    BY <2>2, <2>3
<1> QED
  BY <1>2, <1>3

-----------------------------------------------------------------------------
(* The ledger: each movement takes the stock as far as its recorded        *)
(* quantity says, unless one of the two roundings was not exact.           *)

Quantity(ms) == [m \in DOMAIN ms |-> ms[m].qty]

Recorded(ms) == SumFunction(Quantity(ms))

Inexact(ms) == {m \in DOMAIN ms : ms[m].raw % 10 = 5 \/ ms[m].before % 10 # 0}

LEMMA QuantityType ==
  ASSUME NEW ms \in Seq(MovementRecords)
  PROVE  /\ IsFiniteSet(DOMAIN ms) /\ Quantity(ms) \in [DOMAIN ms -> Int]
         /\ Recorded(ms) \in Int
<1>1. DOMAIN ms = 1..Len(ms) /\ Len(ms) \in Nat
  OBVIOUS
<1>2. IsFiniteSet(DOMAIN ms)
  BY <1>1, FS_Interval
<1>3. \A m \in DOMAIN ms : ms[m] \in MovementRecords
  OBVIOUS
<1>4. \A m \in DOMAIN ms : ms[m].qty \in Int
  BY <1>3 DEF MovementRecords
<1>5. Quantity(ms) \in [DOMAIN ms -> Int]
  BY ZenonT(30), <1>4 DEF Quantity
<1> QED
  BY <1>2, <1>5, SumType DEF Recorded

LEMMA RecordedOneMore ==
  ASSUME NEW ms \in Seq(MovementRecords), NEW mv \in MovementRecords
  PROVE  /\ Recorded(Append(ms, mv)) = Recorded(ms) + mv.qty
         /\ Recorded(ms) \in Int /\ mv.qty \in Int
         /\ Cardinality(Inexact(ms)) \in Nat
         /\ Cardinality(Inexact(Append(ms, mv)))
              = Cardinality(Inexact(ms)) + (IF mv.raw % 10 = 5 \/ mv.before % 10 # 0 THEN 1 ELSE 0)
<1> DEFINE ns == Append(ms, mv)
           n == Len(ms) + 1
<1>1. ns \in Seq(MovementRecords)
  OBVIOUS
<1>2. /\ DOMAIN ns = DOMAIN ms \cup {n} /\ n \notin DOMAIN ms
      /\ ns[n] = mv /\ \A m \in DOMAIN ms : ns[m] = ms[m]
  <2>1. IsSeq(ms)
    BY DEF IsSeq
  <2> QED
    BY <2>1, SeqAppend
<1> HIDE DEF ns, n
<1>3. /\ Recorded(ms) \in Int /\ IsFiniteSet(DOMAIN ms)
      /\ Quantity(ms) \in [DOMAIN ms -> Int]
  BY ZenonT(30), QuantityType
<1>4. Quantity(ns) \in [DOMAIN ms \cup {n} -> Int]
  BY ZenonT(30), <1>1, <1>2, QuantityType
<1>5. Quantity(ns)[n] = mv.qty /\ \A m \in DOMAIN ms : Quantity(ms)[m] = Quantity(ns)[m]
  BY <1>2 DEF Quantity
<1>6. mv.qty \in Int
  BY DEF MovementRecords
<1>7. Recorded(ns) = Recorded(ms) + mv.qty
  <2> DEFINE D == DOMAIN ms
             f == Quantity(ns)
             h == Quantity(ms)
  <2>1. IsFiniteSet(D) /\ n \notin D /\ h \in [D -> Int] /\ f \in [D \cup {n} -> Int]
    BY <1>2, <1>3, <1>4
  <2>2. \A m \in D : h[m] = f[m]
    BY <1>5
  <2>3. f[n] = mv.qty
    BY <1>5
  <2> HIDE DEF D, f, h
  <2>4. SumFunction(f) = SumFunction(h) + f[n]
    BY ONLY Zenon, <2>1, <2>2, SumAdd
  <2> QED
    BY <2>3, <2>4 DEF f, h, Recorded
<1>8. IsFiniteSet(Inexact(ms)) /\ Cardinality(Inexact(ms)) \in Nat
  <2>1. Inexact(ms) \subseteq DOMAIN ms
    BY DEF Inexact
  <2> QED
    BY <1>3, <2>1, FS_Subset, FS_CardinalityType
<1>9. CASE mv.raw % 10 = 5 \/ mv.before % 10 # 0
  <2>1. Inexact(ns) = Inexact(ms) \cup {n} /\ n \notin Inexact(ms)
    BY <1>2, <1>9 DEF Inexact
  <2>2. Cardinality(Inexact(ns)) = Cardinality(Inexact(ms)) + 1
    BY Zenon, <1>8, <2>1, FS_AddElement
  <2> QED
    BY ZenonT(30), <1>3, <1>6, <1>7, <1>8, <1>9, <2>2 DEF ns
<1>10. CASE ~(mv.raw % 10 = 5 \/ mv.before % 10 # 0)
  <2>1. Inexact(ns) = Inexact(ms)
    BY <1>2, <1>10 DEF Inexact
  <2> QED
    BY SMTT(20), SMTT(30), <1>3, <1>6, <1>7, <1>8, <1>10, <2>1 DEF ns
<1> QED
  BY <1>9, <1>10

\* The two roundings of a movement, of the quantity and of the stock.
LEMMA RoundingsDiffer ==
  ASSUME NEW st \in Int, NEW raw \in Int, NEW f \in Form2(raw), NEW s \in Form2(st + raw)
  PROVE  /\ s \in Int /\ f \in Int
         /\ s - st - f \in -10..10
         /\ ~(raw % 10 = 5 \/ st % 10 # 0) => s - st - f = 0
<1>1. f \in Int /\ s \in Int /\ f - raw \in -5..5 /\ s - (st + raw) \in -5..5
  BY Form2Is
<1>2. s - st - f \in -10..10
  BY <1>1
<1>3. ASSUME raw % 10 # 5, st % 10 = 0
      PROVE  s - st - f = 0
  <2>1. (st + raw) % 10 = raw % 10
    BY <1>3
  <2>2. f - raw \in -4..4 /\ s - (st + raw) \in -4..4 /\ f % 10 = 0 /\ s % 10 = 0
    BY ONLY SMTT(20), SMTT(30), <1>3, <2>1, Form2Is
  <2> QED
    BY <1>1, <1>3, <2>2
<1> QED
  BY <1>1, <1>2, <1>3

LEMMA LedgerMoves ==
  ASSUME StockLedger, stock \in Int, opening \in Int, movements \in Seq(MovementRecords),
         NEW mv \in MovementRecords, mv.before = stock, mv.qty \in Form2(mv.raw),
         stock' \in Form2(stock + mv.raw), movements' = Append(movements, mv), opening' = opening
  PROVE  StockLedger'
<1> DEFINE n == Cardinality(Inexact(movements))
           off == stock - opening - Recorded(movements)
           more == stock' - stock - mv.qty
<1>1. off \in (-10 * n)..(10 * n)
  BY DEF StockLedger, Recorded, Quantity, Inexact
<1>2. /\ Recorded(movements') = Recorded(movements) + mv.qty /\ Recorded(movements) \in Int
      /\ mv.qty \in Int /\ n \in Nat
      /\ Cardinality(Inexact(movements'))
           = n + (IF mv.raw % 10 = 5 \/ mv.before % 10 # 0 THEN 1 ELSE 0)
  BY RecordedOneMore
<1>3. mv.raw \in Int
  BY DEF MovementRecords
<1>4. /\ stock' \in Int /\ more \in -10..10
      /\ ~(mv.raw % 10 = 5 \/ mv.before % 10 # 0) => more = 0
  BY <1>3, RoundingsDiffer
<1>5. stock' - opening' - Recorded(movements') = off + more /\ off \in Int
  <2>1. stock' - opening' - Recorded(movements') = stock' - opening - (Recorded(movements) + mv.qty)
    BY <1>2
  <2>2. stock' \in Int /\ stock \in Int /\ opening \in Int /\ Recorded(movements) \in Int /\ mv.qty \in Int
    BY <1>2, <1>4
  <2> QED
    BY ONLY <2>1, <2>2
<1> HIDE DEF off, more, n
<1>6. off + more \in (-10 * Cardinality(Inexact(movements')))..(10 * Cardinality(Inexact(movements')))
  <2>1. CASE mv.raw % 10 = 5 \/ mv.before % 10 # 0
    <3>1. Cardinality(Inexact(movements')) = n + 1
      BY ZenonT(30), <1>2, <2>1
    <3> QED
      BY ONLY SMTT(20), SMTT(30), <1>1, <1>2, <1>4, <1>5, <3>1
  <2>2. CASE ~(mv.raw % 10 = 5 \/ mv.before % 10 # 0)
    <3>1. more = 0
      BY ZenonT(30), <1>4, <2>2
    <3>2. Cardinality(Inexact(movements')) = n
      BY <1>2, <2>2
    <3> QED
      BY <1>1, <1>2, <1>5, <3>1, <3>2
  <2> QED
    BY <2>1, <2>2
<1>7. stock' - opening' - Recorded(movements')
        \in (-10 * Cardinality(Inexact(movements')))..(10 * Cardinality(Inexact(movements')))
  BY <1>5, <1>6
<1> QED
  BY ONLY ZenonT(30), <1>7 DEF StockLedger, Recorded, Quantity, Inexact

-----------------------------------------------------------------------------
(* The invariant of the stock. *)

StockType ==
  /\ stock \in Int /\ opening \in Int /\ average \in Int
  /\ movements \in Seq(MovementRecords)

StockInv == StockType /\ WasteInv /\ AverageIsBetweenCosts

LEMMA StockInvInit == StockInit => StockInv
<1> SUFFICES ASSUME StockInit PROVE StockInv
  OBVIOUS
<1>1. stock \in Int /\ opening \in Int /\ average \in Costs /\ average \in Int
  BY InventoryConstants DEF StockInit
<1>2. movements = << >> /\ wastes = << >> /\ voiding = {}
  BY DEF StockInit
<1>3. movements \in Seq(MovementRecords) /\ WasteInv
  BY <1>2 DEF WasteInv
<1>4. AverageIsBetweenCosts
  BY <1>1 DEF AverageIsBetweenCosts
<1> QED
  BY <1>1, <1>3, <1>4 DEF StockInv, StockType

\* The movement a step appends: what it records of the stock before it, and how the
\* stock after it comes about.
Appends(mv) ==
  /\ mv \in MovementRecords /\ mv.before = stock /\ mv.qty \in Form2(mv.raw)
  /\ stock' \in Form2(stock + mv.raw)
  /\ movements' = Append(movements, mv)
  /\ opening' = opening

LEMMA AppendsType ==
  ASSUME StockType, NEW mv, Appends(mv), average' \in Int
  PROVE  StockType'
<1>1. mv.raw \in Int
  BY DEF Appends, MovementRecords
<1>2. stock + mv.raw \in Int
  BY <1>1 DEF StockType
<1>3. stock' \in Int
  BY <1>2, Form2Type DEF Appends
<1> QED
  BY <1>3 DEF Appends, StockType

LEMMA RecordAppends ==
  ASSUME StockInv, NEW kind \in Kinds, NEW q \in Quantities, NEW cost \in Costs \cup {NoCost},
         RecordStockMovement(kind, q, cost)
  PROVE  (\E mv : Appends(mv)) /\ AverageIsBetweenCosts' /\ average' \in Int
<1>1. PICK d \in signedDelta(kind, q, stock) : Moves(kind, d, cost)
  BY DEF RecordStockMovement
<1>2. d \in Int /\ stock \in Int
  BY ZenonT(30), <1>1, DeltaType DEF StockInv, StockType
<1>3. PICK s \in Form2(stock + d), f \in Form2(d) :
        stock' = s /\ movements' = Append(movements, Movement(RecordedAs(kind), f, d, NoOrder))
  BY <1>1 DEF Moves
<1> DEFINE mv == Movement(RecordedAs(kind), f, d, NoOrder)
<1>4. f \in Int
  BY <1>2, Form2Type
<1>5. mv \in MovementRecords /\ mv.before = stock /\ mv.qty = f /\ mv.raw = d
  BY <1>2, <1>4 DEF Movement, MovementRecords, RecordedAs, Kinds
<1> HIDE DEF mv
<1>6. opening' = opening
  BY ZenonT(30) DEF RecordStockMovement
<1>7. Appends(mv)
  BY ONLY ZenonT(30), <1>3, <1>5, <1>6 DEF Appends, mv
<1>8. AverageIsBetweenCosts' /\ average' \in Int
  BY ZenonT(30), <1>1, <1>2, AverageStays DEF Moves, StockInv, StockType
<1> QED
  BY <1>7, <1>8

LEMMA RestoreAppends ==
  ASSUME StockInv, NEW w \in DOMAIN wastes, VoidRestore(w)
  PROVE  \/ UNCHANGED <<stock, movements, opening, average>>
         \/ (\E mv : Appends(mv)) /\ average' = average
<1>1. average' = average /\ opening' = opening
  BY DEF VoidRestore
<1>2. CASE wastes[w].qty = 0
  BY <1>1, <1>2 DEF VoidRestore
<1>3. CASE wastes[w].qty # 0
  <2> DEFINE q == wastes[w].qty
             mv == Movement("adjustment", q, q, NoOrder)
  <2>1. q \in Int /\ q % 10 = 0
    <3>1. wastes \in Seq(WasteRecords)
      BY DEF StockInv, WasteInv
    <3>2. wastes[w] \in WasteRecords
      BY <3>1
    <3> QED
      BY <3>2 DEF WasteRecords
  <2>2. stock' \in Form2(stock + q) /\ movements' = Append(movements, mv)
    BY <1>3 DEF VoidRestore
  <2>3. stock \in Int
    BY DEF StockInv, StockType
  <2> HIDE DEF q
  <2>4. q \in Form2(q)
    BY ONLY SMTT(20), SMTT(30), <2>1 DEF Form2
  <2>5. mv \in MovementRecords /\ mv.before = stock /\ mv.qty = q /\ mv.raw = q
    BY <2>1, <2>3 DEF Movement, MovementRecords, Kinds
  <2> HIDE DEF mv
  <2>6. Appends(mv)
    BY <1>1, <2>2, <2>4, <2>5 DEF Appends
  <2> QED
    BY <1>1, <2>6
<1> QED
  BY <1>2, <1>3

LEMMA CompleteAppends ==
  ASSUME StockInv, NEW o \in Orders, NEW u \in Nat, Complete(o, u), Recipe * u # 0
  PROVE  \E mv : Appends(mv)
<1> DEFINE d == -(Recipe * u)
<1>1. d \in Int /\ stock \in Int /\ stock - Recipe * u = stock + d
  BY InventoryConstants DEF StockInv, StockType
<1>2. PICK f \in Form2(d) : movements' = Append(movements, Movement("consumption", f, d, o))
  BY DEF Complete, Deduct
<1>3. stock' \in Form2(stock + d) /\ opening' = opening
  BY <1>1 DEF Complete, Deduct
<1> HIDE DEF d
<1>4. f \in Int
  BY ZenonT(30), <1>1, Form2Type
<1> DEFINE mv == Movement("consumption", f, d, o)
<1>5. mv \in MovementRecords /\ mv.before = stock /\ mv.qty = f /\ mv.raw = d
  BY <1>1, <1>4 DEF Movement, MovementRecords, Kinds
<1> HIDE DEF mv
<1>6. Appends(mv)
  BY ONLY ZenonT(30), <1>2, <1>3, <1>5 DEF Appends, mv
<1> QED
  BY <1>6

LEMMA StockInvStep ==
  ASSUME StockInv, [StockNext]_stockVars
  PROVE  StockInv'
<1>1. WasteInv'
  BY WasteInvStep DEF StockInv, StockType
<1>2. ASSUME NEW kind \in Kinds, NEW q \in Quantities, NEW cost \in Costs \cup {NoCost},
             RecordStockMovement(kind, q, cost)
      PROVE  StockType' /\ AverageIsBetweenCosts'
  BY <1>2, RecordAppends, AppendsType DEF StockInv
<1>3. ASSUME NEW s \in Counts \cup {stock}, NEW c \in Costs \cup {average}, SaveIngredient(s, c)
      PROVE  StockType' /\ AverageIsBetweenCosts'
  <2>1. s \in Int /\ c \in Int /\ stock \in Int /\ opening \in Int
    BY InventoryConstants DEF StockInv, StockType
  <2>2. stock' = s /\ average' = c /\ opening' = opening + s - stock /\ movements' = movements
    BY <1>3 DEF SaveIngredient
  <2>3. AverageIsBetweenCosts'
    BY <2>1, <2>2 DEF StockInv, AverageIsBetweenCosts
  <2> QED
    BY <2>1, <2>2, <2>3 DEF StockInv, StockType
<1>4. CASE UNCHANGED <<stock, average, movements, opening>>
  BY <1>1, <1>4 DEF StockInv, StockType, AverageIsBetweenCosts
<1>5. ASSUME NEW w \in DOMAIN wastes, VoidRestore(w)
      PROVE  StockType' /\ AverageIsBetweenCosts'
  <2>1. CASE UNCHANGED <<stock, movements, opening, average>>
    BY <2>1 DEF StockInv, StockType, AverageIsBetweenCosts
  <2>2. CASE (\E mv : Appends(mv)) /\ average' = average
    <3>1. average' \in Int /\ AverageIsBetweenCosts'
      BY <2>2 DEF StockInv, StockType, AverageIsBetweenCosts
    <3> QED
      BY <2>2, <3>1, AppendsType DEF StockInv
  <2> QED
    BY <1>5, <2>1, <2>2, RestoreAppends
<1>6. ASSUME NEW o \in Orders, NEW u \in 1..2, Complete(o, u)
      PROVE  StockType' /\ AverageIsBetweenCosts'
  <2>1. u \in Nat
    OBVIOUS
  <2>2. average' = average /\ opening' = opening
    BY <1>6 DEF Complete, Deduct
  <2>3. stock' \in Int /\ movements' \in Seq(MovementRecords)
    BY <1>6, <2>1, DeductType DEF StockInv, StockType, Complete
  <2> QED
    BY <2>2, <2>3 DEF StockInv, StockType, AverageIsBetweenCosts
<1>7. ASSUME NEW w, VoidMark(w) \/ VoidDies(w)
      PROVE  UNCHANGED <<stock, average, movements, opening>>
  BY <1>7 DEF VoidMark, VoidDies
<1> QED
  BY ZenonT(30), <1>1, <1>2, <1>3, <1>4, <1>5, <1>6, <1>7 DEF StockNext, stockVars, StockInv

\* VoidWasteEvent, by any number of requests at a time, each ending between its two
\* transactions or not: a wasted quantity comes back to the stock at most once, and
\* only for an event that is marked as voided.
THEOREM WasteIsRestoredOnce == StockSpec => []RestoredAtMostOnce
<1>1. StockInv => RestoredAtMostOnce
  <2> SUFFICES ASSUME StockInv, NEW w \in DOMAIN wastes
               PROVE  wastes[w].restored <= 1 /\ (wastes[w].restored = 1 => wastes[w].status = "voided")
    BY DEF RestoredAtMostOnce
  <2>1. wastes[w] \in WasteRecords
    BY DEF StockInv, WasteInv
  <2>2. wastes[w].restored \in {0, 1}
    BY <2>1 DEF WasteRecords
  <2> QED
    BY <2>2 DEF StockInv, WasteInv
<1> QED
  BY <1>1, StockInvInit, StockInvStep, PTL DEF StockSpec

\* RecordStockMovement and the ingredient's form: whatever arrives, at whatever cost,
\* into a positive or a negative stock, the average cost lies between two costs that
\* were typed.
THEOREM AverageStaysTrue == StockSpec => []AverageIsBetweenCosts
<1>1. StockInv => AverageIsBetweenCosts
  BY DEF StockInv
<1> QED
  BY <1>1, StockInvInit, StockInvStep, PTL DEF StockSpec

LEMMA StockLedgerInit == StockInit => StockLedger
<1> SUFFICES ASSUME StockInit PROVE StockLedger
  OBVIOUS
<1>1. movements = << >> /\ stock = opening /\ stock \in Int
  BY InventoryConstants DEF StockInit
<1>2. movements \in Seq(MovementRecords) /\ DOMAIN movements = {} /\ Inexact(movements) = {}
  BY <1>1 DEF Inexact
<1>3. Recorded(movements) = 0
  <2>1. Quantity(movements) \in [{} -> Int]
    BY Zenon, <1>2, QuantityType
  <2> QED
    BY Zenon, <2>1, SumEmpty DEF Recorded
<1>4. Cardinality(Inexact(movements)) = 0
  BY ZenonT(30), <1>2, FS_EmptySet
<1> QED
  BY <1>1, <1>3, <1>4 DEF StockLedger, Recorded, Quantity, Inexact

LEMMA StockLedgerStep ==
  ASSUME StockInv, StockLedger, [StockNext]_stockVars, Recipe > 0
  PROVE  StockLedger'
<1>1. ASSUME NEW mv, Appends(mv)
      PROVE  StockLedger'
  BY ZenonT(30), <1>1, LedgerMoves DEF Appends, StockInv, StockType
<1>2. CASE UNCHANGED <<stock, movements, opening>>
  BY ZenonT(30), <1>2 DEF StockLedger
<1>3. ASSUME NEW s \in Counts \cup {stock}, NEW c, SaveIngredient(s, c)
      PROVE  StockLedger'
  <2>1. s \in Int /\ stock \in Int /\ opening \in Int
    BY InventoryConstants DEF StockInv, StockType
  <2>2. stock' - opening' = stock - opening /\ movements' = movements
    BY <1>3, <2>1 DEF SaveIngredient
  <2> QED
    BY <2>2 DEF StockLedger
<1>4. ASSUME NEW w, VoidMark(w) \/ VoidDies(w)
      PROVE  UNCHANGED <<stock, movements, opening>>
  BY <1>4 DEF VoidMark, VoidDies
<1>5. ASSUME NEW o \in Orders, NEW u \in 1..2, Complete(o, u)
      PROVE  StockLedger'
  <2>1. u \in Nat /\ Recipe * u # 0
    BY InventoryConstants
  <2> QED
    BY <1>1, <1>5, <2>1, CompleteAppends
<1>6. ASSUME NEW kind \in Kinds, NEW q \in Quantities, NEW cost \in Costs \cup {NoCost},
             RecordStockMovement(kind, q, cost)
      PROVE  StockLedger'
  BY ZenonT(30), <1>1, <1>6, RecordAppends
<1>7. ASSUME NEW w \in DOMAIN wastes, VoidRestore(w)
      PROVE  StockLedger'
  BY <1>1, <1>2, <1>7, RestoreAppends
<1> QED
  BY ZenonT(30), <1>2, <1>3, <1>4, <1>5, <1>6, <1>7 DEF StockNext, stockVars

\* Every change of current_stock other than typing it is explained by its movements,
\* up to a hundredth for each movement whose rounding was not exact.  A recipe takes
\* something: with a recipe of nothing, completing an order rounds a stock that was
\* typed with more than two decimals and records no movement.
THEOREM MovementsExplainTheStock ==
  ASSUME Recipe > 0
  PROVE  StockSpec => []StockLedger
<1>1. StockInit => StockInv /\ StockLedger
  BY StockInvInit, StockLedgerInit
<1>2. StockInv /\ StockLedger /\ [StockNext]_stockVars => (StockInv /\ StockLedger)'
  BY StockInvStep, StockLedgerStep
<1> QED
  BY <1>1, <1>2, PTL DEF StockSpec

=============================================================================
