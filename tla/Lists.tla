-------------------------------- MODULE Lists --------------------------------
(***************************************************************************)
(* What a loop over a list makes that appends some of its elements to      *)
(* another list, and lemmas about it.  SelectSeq takes the test of the     *)
(* loop as an operator, which the provers cannot reason about; ElementsAt  *)
(* takes the set of the places that pass it.                               *)
(*                                                                         *)
(* The induction theorems of the library take the statement as an          *)
(* operator, too.  Here induction goes over a set of numbers, and the      *)
(* function that defines ElementsAt is shown to exist that way.            *)
(***************************************************************************)
EXTENDS Naturals, Sequences, FiniteSetsExt,
        SequenceTheorems, WellFoundedInduction, TLAPS

\* The elements of s at the places, in the order of s.
ElementsAt(s, places) ==
  LET upTo[n \in 0 .. Len(s)] ==
        IF n = 0 THEN <<>>
        ELSE IF n \in places THEN Append(upTo[n - 1], s[n])
        ELSE upTo[n - 1]
  IN  upTo[Len(s)]

-----------------------------------------------------------------------------
(* The least and the greatest of a set of numbers, and induction.          *)

Less == {ss \in Nat \X Nat : ss[1] < ss[2]}

\* A set of natural numbers has a least element, as soon as it has one.
LEMMA LeastElement ==
  ASSUME NEW I, I \subseteq Nat, I # {}
  PROVE  \E n \in I : \A m \in I : n <= m
<1>1. IsWellFoundedOn(Less, Nat)
  BY NatLessThanWellFounded DEF OpToRel, Less
<1>2. PICK n \in I : \A m \in I : ~ (<<m, n>> \in Less)
  BY <1>1, WFMin, Zenon
<1>3. ASSUME NEW m \in I
      PROVE  n <= m
  <2>1. <<m, n>> \in Nat \X Nat /\ <<m, n>> \notin Less
    BY <1>2
  <2>2. ~ (<<m, n>>[1] < <<m, n>>[2])
    BY <2>1 DEF Less
  <2> QED
    BY <2>2
<1> QED
  BY <1>3

\* Min is defined by a CHOOSE, so it needs an element to choose.
LEMMA MinIsElement ==
  ASSUME NEW I, I \subseteq Nat, I # {}
  PROVE  Min(I) \in I
<1>1. \E n \in I : \A m \in I : n =< m
  BY LeastElement
<1> QED
  BY <1>1, Zenon DEF Min

\* The least element of a set is no greater than any other.
LEMMA MinIsLeast ==
  ASSUME NEW I, I \subseteq Nat, NEW m \in I
  PROVE  Min(I) <= m
<1>1. \E n \in I : \A k \in I : n =< k
  BY LeastElement
<1> QED
  BY <1>1, Zenon DEF Min

\* Max is defined by a CHOOSE; a greatest element is what it chooses.
LEMMA MaxIs ==
  ASSUME NEW S, S \subseteq Int, NEW m \in S, \A y \in S : y <= m
  PROVE  Max(S) = m
<1>1. \E x \in S : \A y \in S : x >= y
  OBVIOUS
<1>2. PICK x : x = CHOOSE v \in S : \A y \in S : v >= y
  OBVIOUS
<1>3. x \in S /\ \A y \in S : x >= y
  BY <1>1, <1>2, Zenon
<1>4. x = m
  BY <1>3
<1> QED
  BY <1>2, <1>4 DEF Max

\* A set of natural numbers that has a bound has a greatest element: it is as
\* far as possible from the bound.
LEMMA GreatestElement ==
  ASSUME NEW N \in Nat, NEW I, I \subseteq 0 .. N, I # {}
  PROVE  \E x \in I : \A y \in I : x >= y
<1> DEFINE J == {k \in 0 .. N : N - k \in I}
<1>1. ASSUME NEW m \in I
      PROVE  N - m \in J
  <2>1. m \in 0 .. N
    OBVIOUS
  <2>2. N - m \in 0 .. N /\ N - (N - m) = m
    BY <2>1
  <2>3. N - (N - m) \in I
    BY <2>2, Zenon
  <2> QED
    BY <2>2, <2>3
<1>2. PICK j \in J : \A k \in J : j <= k
  <2>1. J \subseteq Nat
    OBVIOUS
  <2>2. PICK m : m \in I
    OBVIOUS
  <2>3. J # {}
    BY <1>1, <2>2
  <2> HIDE DEF J
  <2> QED
    BY <2>1, <2>3, LeastElement
<1>3. N - j \in I
  OBVIOUS
<1>4. ASSUME NEW m \in I
      PROVE  N - j >= m
  <2>1. j <= N - m
    BY <1>1, <1>2
  <2>2. j \in 0 .. N /\ m \in 0 .. N
    OBVIOUS
  <2> QED
    BY <2>1, <2>2
<1> QED
  BY <1>3, <1>4

LEMMA MaxIsElement ==
  ASSUME NEW N \in Nat, NEW I, I \subseteq 0 .. N, I # {}
  PROVE  Max(I) \in I
<1>1. \E x \in I : \A y \in I : x >= y
  BY GreatestElement
<1> QED
  BY <1>1, Zenon DEF Max

LEMMA MaxIsGreatest ==
  ASSUME NEW N \in Nat, NEW I, I \subseteq 0 .. N, NEW m \in I
  PROVE  Max(I) >= m
<1>1. \E x \in I : \A y \in I : x >= y
  BY GreatestElement
<1> QED
  BY <1>1, Zenon DEF Max

\* Induction up to a bound: a set of numbers that has 0 and, with every number
\* below the bound, the next one, has all of them.
LEMMA BoundedInduction ==
  ASSUME NEW N \in Nat, NEW T, 0 \in T,
         \A n \in 0 .. N : n < N /\ n \in T => n + 1 \in T
  PROVE  0 .. N \subseteq T
<1> SUFFICES ASSUME NEW k \in 0 .. N, k \notin T PROVE FALSE
  OBVIOUS
<1> DEFINE I == {n \in 0 .. N : n \notin T}
<1>1. PICK n \in I : \A m \in I : n <= m
  <2>1. I \subseteq Nat /\ I # {}
    OBVIOUS
  <2> HIDE DEF I
  <2> QED
    BY <2>1, LeastElement
<1>2. n # 0 /\ n \in 0 .. N /\ n \notin T
  BY <1>1
<1>3. n - 1 \in 0 .. N /\ n - 1 < N /\ ~ (n <= n - 1)
  BY <1>2
<1>4. n - 1 \in T
  BY <1>1, <1>3
<1>5. (n - 1) + 1 \in T /\ (n - 1) + 1 = n
  BY <1>2, <1>3, <1>4
<1> QED
  BY <1>2, <1>5

\* The functions that the definition of ElementsAt picks from, up to n.
Collects(f, s, places, n) ==
  f = [k \in 0 .. n |->
         IF k = 0 THEN <<>>
         ELSE IF k \in places THEN Append(f[k - 1], s[k])
         ELSE f[k - 1]]

LEMMA Collected ==
  ASSUME NEW s, NEW places, Len(s) \in Nat
  PROVE  \E f : Collects(f, s, places, Len(s))
<1> DEFINE T == {n \in 0 .. Len(s) : \E f : Collects(f, s, places, n)}
<1>1. 0 \in T
  <2> DEFINE f == [k \in 0 .. 0 |-> <<>>]
  <2>1. f = [k \in 0 .. 0 |->
         IF k = 0 THEN <<>>
         ELSE IF k \in places THEN Append(f[k - 1], s[k])
         ELSE f[k - 1]]
    OBVIOUS
  <2>2. Collects(f, s, places, 0)
    BY <2>1 DEF Collects
  <2> QED
    BY <2>2
<1>2. ASSUME NEW n \in 0 .. Len(s), n < Len(s), n \in T
      PROVE  n + 1 \in T
  <2>1. PICK f : Collects(f, s, places, n)
    BY <1>2
  <2> DEFINE last == IF n + 1 \in places THEN Append(f[n], s[n + 1]) ELSE f[n]
             g == [k \in 0 .. n + 1 |-> IF k = n + 1 THEN last ELSE f[k]]
  <2>2. ASSUME NEW k \in 0 .. n + 1
        PROVE  g[k] = IF k = 0 THEN <<>>
                      ELSE IF k \in places THEN Append(g[k - 1], s[k])
                      ELSE g[k - 1]
    <3>1. CASE k = n + 1
      <4>1. k # 0 /\ g[k] = last /\ g[k - 1] = f[n] /\ k - 1 = n
        BY <3>1
      <4> QED
        BY <3>1, <4>1
    <3>2. CASE k # n + 1
      <4>1. k \in 0 .. n /\ g[k] = f[k] /\ (k # 0 => g[k - 1] = f[k - 1])
        BY <3>2
      <4>2. f[k] = IF k = 0 THEN <<>>
                   ELSE IF k \in places THEN Append(f[k - 1], s[k])
                   ELSE f[k - 1]
        BY <2>1, <4>1 DEF Collects
      <4> HIDE DEF g
      <4> QED
        BY <4>1, <4>2
    <3> QED
      BY <3>1, <3>2
  <2>3. Collects(g, s, places, n + 1)
    <3>1. g = [k \in 0 .. n + 1 |-> g[k]]
      OBVIOUS
    <3> HIDE DEF g
    <3> QED
      BY <2>2, <3>1 DEF Collects
  <2>4. n + 1 \in 0 .. Len(s)
    BY <1>2
  <2> HIDE DEF g
  <2> QED
    BY <2>3, <2>4
<1>3. 0 .. Len(s) \subseteq T
  <2> HIDE DEF T
  <2> QED
    BY <1>1, <1>2, BoundedInduction
<1> QED
  BY <1>3

LEMMA ElementsAtDef ==
  ASSUME NEW s, NEW places, Len(s) \in Nat
  PROVE  \E f : /\ Collects(f, s, places, Len(s))
                /\ ElementsAt(s, places) = f[Len(s)]
<1> DEFINE f == CHOOSE g : Collects(g, s, places, Len(s))
<1>1. Collects(f, s, places, Len(s))
  BY Collected, Zenon
<1>2. ElementsAt(s, places) = f[Len(s)]
  BY DEF ElementsAt, Collects
<1> QED
  BY <1>1, <1>2

\* One element after the other: what is collected up to k.
LEMMA CollectsStep ==
  ASSUME NEW f, NEW s, NEW places, NEW n \in Nat, Collects(f, s, places, n)
  PROVE  /\ f[0] = <<>>
         /\ \A k \in 0 .. n : k < n =>
              f[k + 1] = IF k + 1 \in places THEN Append(f[k], s[k + 1])
                         ELSE f[k]
<1>1. f[0] = <<>>
  BY DEF Collects
<1>2. ASSUME NEW k \in 0 .. n, k < n
      PROVE  f[k + 1] = IF k + 1 \in places THEN Append(f[k], s[k + 1])
                        ELSE f[k]
  <2>1. k + 1 \in 0 .. n /\ k + 1 # 0 /\ (k + 1) - 1 = k
    BY <1>2
  <2> QED
    BY <2>1 DEF Collects
<1> QED
  BY <1>1, <1>2

\* What is collected depends on the places and on what stands there.
LEMMA CollectsAgree ==
  ASSUME NEW f, NEW s, NEW P, NEW m \in Nat, Collects(f, s, P, m),
         NEW g, NEW t, NEW Q, NEW n \in Nat, Collects(g, t, Q, n),
         NEW k \in Nat, k <= m, k <= n,
         \A i \in 1 .. k : (i \in P <=> i \in Q) /\ (i \in P => s[i] = t[i])
  PROVE  f[k] = g[k]
<1> DEFINE T == {i \in 0 .. k : f[i] = g[i]}
<1>1. 0 \in T
  BY CollectsStep
<1>2. ASSUME NEW i \in 0 .. k, i < k, i \in T
      PROVE  i + 1 \in T
  <2>1. /\ i \in 0 .. m /\ i < m /\ i \in 0 .. n /\ i < n
        /\ i + 1 \in 1 .. k /\ i + 1 \in 0 .. k
    BY <1>2
  <2>2. f[i + 1] = IF i + 1 \in P THEN Append(f[i], s[i + 1]) ELSE f[i]
    BY <2>1, CollectsStep
  <2>3. g[i + 1] = IF i + 1 \in Q THEN Append(g[i], t[i + 1]) ELSE g[i]
    BY <2>1, CollectsStep
  <2>4. f[i] = g[i]
    BY <1>2
  <2> QED
    BY <2>1, <2>2, <2>3, <2>4
<1>3. 0 .. k \subseteq T
  <2> HIDE DEF T
  <2> QED
    BY <1>1, <1>2, BoundedInduction
<1> QED
  BY <1>3

-----------------------------------------------------------------------------
(* The laws of ElementsAt.                                                 *)

\* Only the places in the list count, and what stands there.
LEMMA ElementsAtAgree ==
  ASSUME NEW s, NEW t, Len(s) \in Nat, Len(t) = Len(s), NEW P, NEW Q,
         \A i \in 1 .. Len(s) : (i \in P <=> i \in Q) /\ (i \in P => s[i] = t[i])
  PROVE  ElementsAt(s, P) = ElementsAt(t, Q)
<1>1. PICK n \in Nat : n = Len(s)
  OBVIOUS
<1>2. PICK f : Collects(f, s, P, n) /\ ElementsAt(s, P) = f[n]
  BY <1>1, ElementsAtDef
<1>3. PICK g : Collects(g, t, Q, n) /\ ElementsAt(t, Q) = g[n]
  BY <1>1, ElementsAtDef
<1>4. \A i \in 1 .. n : (i \in P <=> i \in Q) /\ (i \in P => s[i] = t[i])
  BY <1>1
<1>5. n <= n
  OBVIOUS
<1>6. f[n] = g[n]
  BY <1>2, <1>3, <1>4, <1>5, CollectsAgree
<1> QED
  BY <1>2, <1>3, <1>6

LEMMA ElementsAtSame ==
  ASSUME NEW s, Len(s) \in Nat, NEW P, NEW Q,
         \A i \in 1 .. Len(s) : i \in P <=> i \in Q
  PROVE  ElementsAt(s, P) = ElementsAt(s, Q)
  BY ElementsAtAgree

LEMMA ElementsAtEmpty ==
  ASSUME NEW P
  PROVE  ElementsAt(<<>>, P) = <<>>
<1>1. PICK f : Collects(f, <<>>, P, 0) /\ ElementsAt(<<>>, P) = f[0]
  <2>1. Len(<<>>) = 0
    OBVIOUS
  <2> QED
    BY <2>1, ElementsAtDef
<1> QED
  BY <1>1, CollectsStep

\* The loop takes one more element.
LEMMA ElementsAtAppend ==
  ASSUME NEW S, NEW s \in Seq(S), NEW x \in S, NEW P
  PROVE  ElementsAt(Append(s, x), P) =
           IF Len(s) + 1 \in P THEN Append(ElementsAt(s, P), x)
           ELSE ElementsAt(s, P)
<1> DEFINE n == Len(s)
           t == Append(s, x)
<1>1. /\ n \in Nat /\ Len(t) = n + 1 /\ t[n + 1] = x
      /\ \A i \in 1 .. n : t[i] = s[i]
  OBVIOUS
<1>2. PICK f : Collects(f, s, P, n) /\ ElementsAt(s, P) = f[n]
  BY <1>1, ElementsAtDef
<1>3. PICK g : Collects(g, t, P, n + 1) /\ ElementsAt(t, P) = g[n + 1]
  <2>1. Len(t) \in Nat
    BY <1>1
  <2>2. \E g : Collects(g, t, P, Len(t)) /\ ElementsAt(t, P) = g[Len(t)]
    BY <2>1, ElementsAtDef
  <2> QED
    BY <1>1, <2>2
<1> HIDE DEF t, n
<1>4. g[n] = f[n]
  BY <1>1, <1>2, <1>3, CollectsAgree
<1>5. g[n + 1] = IF n + 1 \in P THEN Append(g[n], t[n + 1]) ELSE g[n]
  BY <1>1, <1>3, CollectsStep
<1> QED
  BY <1>1, <1>2, <1>3, <1>4, <1>5 DEF t, n

\* Induction over the elements of a list.
LEMMA PrefixInduction ==
  ASSUME NEW S, NEW s \in Seq(S), NEW T,
         0 \in T, \A n \in 0 .. Len(s) : n < Len(s) /\ n \in T => n + 1 \in T
  PROVE  Len(s) \in T
<1>1. 0 .. Len(s) \subseteq T
  BY BoundedInduction
<1> QED
  BY <1>1

\* The first elements of a sequence.
LEMMA PrefixIs ==
  ASSUME NEW S, NEW s \in Seq(S), NEW n \in 0 .. Len(s)
  PROVE  /\ SubSeq(s, 1, n) \in Seq(S)
         /\ Len(SubSeq(s, 1, n)) = n
         /\ \A k \in 1 .. n : SubSeq(s, 1, n)[k] = s[k]
  OBVIOUS

LEMMA PrefixStep ==
  ASSUME NEW S, NEW s \in Seq(S), NEW n \in 0 .. Len(s), n < Len(s)
  PROVE  /\ SubSeq(s, 1, n) \in Seq(S)
         /\ Len(SubSeq(s, 1, n)) = n
         /\ s[n + 1] \in S
         /\ SubSeq(s, 1, n + 1) = Append(SubSeq(s, 1, n), s[n + 1])
  OBVIOUS

LEMMA ConcatAppend ==
  ASSUME NEW S, NEW s \in Seq(S), NEW t \in Seq(S), NEW x \in S
  PROVE  s \o Append(t, x) = Append(s \o t, x)
<1>1. Append(t, x) = t \o <<x>> /\ <<x>> \in Seq(S)
  BY AppendIsConcat
<1>2. s \o t \in Seq(S)
  BY ConcatProperties
<1>3. Append(s \o t, x) = (s \o t) \o <<x>>
  BY <1>2, AppendIsConcat
<1> QED
  BY <1>1, <1>3, ConcatAssociative

\* What is collected are the elements at the places.
LEMMA ElementsAtIn ==
  ASSUME NEW S, NEW s \in Seq(S), NEW P, NEW R,
         \A i \in 1 .. Len(s) : i \in P => s[i] \in R
  PROVE  ElementsAt(s, P) \in Seq(R)
<1> DEFINE T == {n \in 0 .. Len(s) : ElementsAt(SubSeq(s, 1, n), P) \in Seq(R)}
<1>1. 0 \in T
  <2>1. SubSeq(s, 1, 0) = <<>>
    OBVIOUS
  <2>2. ElementsAt(<<>>, P) = <<>> /\ <<>> \in Seq(R)
    BY ElementsAtEmpty
  <2>3. ElementsAt(SubSeq(s, 1, 0), P) \in Seq(R)
    BY <2>1, <2>2, Zenon
  <2>4. 0 \in 0 .. Len(s)
    OBVIOUS
  <2> QED
    BY <2>3, <2>4, Zenon
<1>2. ASSUME NEW n \in 0 .. Len(s), n < Len(s), n \in T
      PROVE  n + 1 \in T
  <2> DEFINE u == SubSeq(s, 1, n)
  <2>1. /\ u \in Seq(S) /\ Len(u) = n /\ s[n + 1] \in S
        /\ SubSeq(s, 1, n + 1) = Append(u, s[n + 1])
    BY <1>2, PrefixStep
  <2>2. ElementsAt(u, P) \in Seq(R)
    BY <1>2
  <2>3. n + 1 \in 0 .. Len(s)
    BY <1>2
  <2> HIDE DEF u
  <2>4. ElementsAt(Append(u, s[n + 1]), P)
          = IF n + 1 \in P THEN Append(ElementsAt(u, P), s[n + 1])
            ELSE ElementsAt(u, P)
    BY <2>1, ElementsAtAppend, ZenonT(40)
  <2>5. ElementsAt(Append(u, s[n + 1]), P) \in Seq(R)
    <3>1. CASE n + 1 \in P
      <4>1. s[n + 1] \in R
        BY <1>2, <2>3, <3>1
      <4> QED
        BY <2>2, <2>4, <3>1, <4>1, AppendProperties
    <3>2. CASE n + 1 \notin P
      BY <2>2, <2>4, <3>2
    <3> QED
      BY <3>1, <3>2
  <2> QED
    BY <2>1, <2>3, <2>5
<1>3. Len(s) \in T
  <2> HIDE DEF T
  <2> QED
    BY <1>1, <1>2, PrefixInduction
<1>4. SubSeq(s, 1, Len(s)) = s
  OBVIOUS
<1> QED
  BY <1>3, <1>4

LEMMA ElementsAtType ==
  ASSUME NEW S, NEW s \in Seq(S), NEW P
  PROVE  ElementsAt(s, P) \in Seq(S)
<1>1. \A i \in 1 .. Len(s) : i \in P => s[i] \in S
  OBVIOUS
<1> QED
  BY <1>1, ElementsAtIn

\* A loop whose test every element passes copies the list.
LEMMA ElementsAtAll ==
  ASSUME NEW S, NEW s \in Seq(S), NEW P, 1 .. Len(s) \subseteq P
  PROVE  ElementsAt(s, P) = s
<1> DEFINE T == {n \in 0 .. Len(s) :
                   ElementsAt(SubSeq(s, 1, n), P) = SubSeq(s, 1, n)}
<1>1. 0 \in T
  <2>1. SubSeq(s, 1, 0) = <<>>
    OBVIOUS
  <2>2. ElementsAt(<<>>, P) = <<>> /\ <<>> \in Seq(S)
    BY ElementsAtEmpty
  <2>3. ElementsAt(SubSeq(s, 1, 0), P) = SubSeq(s, 1, 0)
    BY <2>1, <2>2, Zenon
  <2>4. 0 \in 0 .. Len(s)
    OBVIOUS
  <2> QED
    BY <2>3, <2>4, Zenon
<1>2. ASSUME NEW n \in 0 .. Len(s), n < Len(s), n \in T
      PROVE  n + 1 \in T
  <2> DEFINE u == SubSeq(s, 1, n)
  <2>1. /\ u \in Seq(S) /\ Len(u) = n /\ s[n + 1] \in S
        /\ SubSeq(s, 1, n + 1) = Append(u, s[n + 1])
    BY <1>2, PrefixStep
  <2>2. ElementsAt(u, P) = u
    BY <1>2
  <2>3. n + 1 \in 0 .. Len(s) /\ n + 1 \in P
    BY <1>2
  <2> HIDE DEF u
  <2>4. ElementsAt(Append(u, s[n + 1]), P) = Append(u, s[n + 1])
    BY <2>1, <2>2, <2>3, ElementsAtAppend
  <2> QED
    BY <2>1, <2>3, <2>4
<1>3. Len(s) \in T
  <2> HIDE DEF T
  <2> QED
    BY <1>1, <1>2, PrefixInduction
<1>4. SubSeq(s, 1, Len(s)) = s
  OBVIOUS
<1> QED
  BY <1>3, <1>4

\* One whose test none passes copies nothing.
LEMMA ElementsAtNone ==
  ASSUME NEW s, Len(s) \in Nat, NEW P, \A i \in 1 .. Len(s) : i \notin P
  PROVE  ElementsAt(s, P) = <<>>
<1>1. PICK f : Collects(f, s, P, Len(s)) /\ ElementsAt(s, P) = f[Len(s)]
  BY ElementsAtDef
<1> DEFINE T == {n \in 0 .. Len(s) : f[n] = <<>>}
<1>2. 0 \in T
  BY <1>1, CollectsStep
<1>3. ASSUME NEW n \in 0 .. Len(s), n < Len(s), n \in T
      PROVE  n + 1 \in T
  <2>1. n + 1 \in 1 .. Len(s) /\ n + 1 \in 0 .. Len(s)
    BY <1>3
  <2>2. f[n + 1] = IF n + 1 \in P THEN Append(f[n], s[n + 1]) ELSE f[n]
    BY <1>1, <1>3, CollectsStep
  <2> QED
    BY <1>3, <2>1, <2>2
<1>4. 0 .. Len(s) \subseteq T
  <2> HIDE DEF T
  <2> QED
    BY <1>2, <1>3, BoundedInduction
<1> QED
  BY <1>1, <1>4

\* The loop over one list, then over another.
LEMMA ElementsAtConcat ==
  ASSUME NEW S, NEW s \in Seq(S), NEW t \in Seq(S), NEW P, NEW Q,
         \A i \in 1 .. Len(t) : i \in Q <=> Len(s) + i \in P
  PROVE  ElementsAt(s \o t, P) = ElementsAt(s, P) \o ElementsAt(t, Q)
<1> DEFINE T == {n \in 0 .. Len(t) :
                   ElementsAt(s \o SubSeq(t, 1, n), P)
                     = ElementsAt(s, P) \o ElementsAt(SubSeq(t, 1, n), Q)}
<1>1. ElementsAt(s, P) \in Seq(S)
  BY ElementsAtType
<1>2. 0 \in T
  <2>1. SubSeq(t, 1, 0) = <<>> /\ s \o <<>> = s
    OBVIOUS
  <2>2. ElementsAt(s, P) \o <<>> = ElementsAt(s, P)
    BY <1>1
  <2>3. ElementsAt(<<>>, Q) = <<>>
    BY ElementsAtEmpty
  <2>4. ElementsAt(s \o SubSeq(t, 1, 0), P)
          = ElementsAt(s, P) \o ElementsAt(SubSeq(t, 1, 0), Q)
    BY <2>1, <2>2, <2>3, Zenon
  <2>5. 0 \in 0 .. Len(t)
    OBVIOUS
  <2> QED
    BY <2>4, <2>5, Zenon
<1>3. ASSUME NEW n \in 0 .. Len(t), n < Len(t), n \in T
      PROVE  n + 1 \in T
  <2> DEFINE u == SubSeq(t, 1, n)
             x == t[n + 1]
  <2>1. /\ u \in Seq(S) /\ Len(u) = n /\ x \in S
        /\ SubSeq(t, 1, n + 1) = Append(u, x)
    BY <1>3, PrefixStep
  <2>2. ElementsAt(s \o u, P) = ElementsAt(s, P) \o ElementsAt(u, Q)
    BY <1>3
  <2>3. n + 1 \in 0 .. Len(t) /\ (n + 1 \in Q <=> Len(s) + (n + 1) \in P)
    BY <1>3
  <2> HIDE DEF u, x
  <2>4. s \o u \in Seq(S) /\ Len(s \o u) = Len(s) + n
    BY <2>1, ConcatProperties
  <2>10. s \o Append(u, x) = Append(s \o u, x)
    BY <2>1, ConcatAppend
  <2>11. Len(s \o u) + 1 = Len(s) + (n + 1)
    BY <2>4
  <2>5. ElementsAt(s \o Append(u, x), P) =
          IF n + 1 \in Q THEN Append(ElementsAt(s \o u, P), x)
          ELSE ElementsAt(s \o u, P)
    <3>1. PICK v \in Seq(S) : v = s \o u
      BY <2>4
    <3>2. ElementsAt(Append(v, x), P) =
            IF Len(v) + 1 \in P THEN Append(ElementsAt(v, P), x)
            ELSE ElementsAt(v, P)
      BY <2>1, ElementsAtAppend
    <3> QED
      BY <2>3, <2>10, <2>11, <3>1, <3>2
  <2>6. ElementsAt(Append(u, x), Q) =
          IF n + 1 \in Q THEN Append(ElementsAt(u, Q), x)
          ELSE ElementsAt(u, Q)
    BY <2>1, ElementsAtAppend
  <2>7. ElementsAt(u, Q) \in Seq(S)
    BY <2>1, ElementsAtType
  <2>8. Append(ElementsAt(s, P) \o ElementsAt(u, Q), x)
          = ElementsAt(s, P) \o Append(ElementsAt(u, Q), x)
    <3>1. PICK a, b : a = ElementsAt(s, P) /\ b = ElementsAt(u, Q)
      OBVIOUS
    <3>2. a \in Seq(S) /\ b \in Seq(S) /\ x \in S
      BY <1>1, <2>1, <2>7, <3>1
    <3>3. a \o Append(b, x) = Append(a \o b, x)
      BY <3>2, ConcatAppend
    <3> QED
      BY <3>1, <3>3
  <2>9. ElementsAt(s \o Append(u, x), P)
          = ElementsAt(s, P) \o ElementsAt(Append(u, x), Q)
    BY <2>2, <2>5, <2>6, <2>8
  <2> QED
    BY <2>1, <2>3, <2>9
<1>4. Len(t) \in T
  <2> HIDE DEF T
  <2> QED
    BY <1>2, <1>3, PrefixInduction
<1>5. SubSeq(t, 1, Len(t)) = t
  OBVIOUS
<1> QED
  BY <1>4, <1>5
=============================================================================
