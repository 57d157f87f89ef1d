---------------------------- MODULE Lists_proofs ----------------------------
(***************************************************************************)
(* What the models' operators on sequences compute: InOrder and At,        *)
(* InsertAt and FlattenSeq.  The recursive functions need inductions over  *)
(* the naturals: a set of naturals that is not all of them has a least     *)
(* number that it lacks.                                                   *)
(***************************************************************************)
EXTENDS Lists, SequencesExt, NaturalsInduction, WellFoundedInduction, FiniteSetTheorems,
        SequenceTheorems, TLAPS

-----------------------------------------------------------------------------
(* The places of a sequence, in order.                                     *)

\* A set of naturals that is not empty has a least member.
LEMMA Least ==
    ASSUME NEW T \in SUBSET Nat, T # {}
    PROVE  \E x \in T : \A y \in T : x <= y
<1>1. \E x \in T : \A y \in T : <<y, x>> \notin OpToRel(<, Nat)
  BY NatLessThanWellFounded, WFMin
<1>2. \A x, y \in Nat : <<y, x>> \notin OpToRel(<, Nat) => x <= y
  BY DEF OpToRel
<1> QED BY <1>1, <1>2

\* What holds of zero, and of each successor of a number it holds of, holds of all numbers.
LEMMA SetInduction ==
    ASSUME NEW S, 0 \in S, \A n \in Nat : n \in S => n + 1 \in S
    PROVE  Nat \subseteq S
<1>1. SUFFICES ASSUME Nat \ S # {} PROVE FALSE
  OBVIOUS
<1>2. PICK x \in Nat \ S : \A y \in Nat \ S : x <= y
  BY <1>1, Least
<1>3. x # 0 /\ x - 1 \in Nat /\ x - 1 \in S
  BY <1>2
<1> QED BY <1>3, <1>2

\* f enumerates the members of I up to m.
UpTo(I, m, f) ==
    f = [k \in 0..m |-> IF k = 0 THEN <<>>
                        ELSE IF k \in I THEN Append(f[k - 1], k) ELSE f[k - 1]]

\* What an enumeration is at zero, and after each number.
LEMMA UpToStep ==
    ASSUME NEW I, NEW m \in Nat, NEW f, UpTo(I, m, f)
    PROVE  /\ f[0] = <<>>
           /\ \A k \in Nat : k + 1 <= m =>
                 f[k + 1] = IF k + 1 \in I THEN Append(f[k], k + 1) ELSE f[k]
<1>1. 0 \in 0..m
  OBVIOUS
<1>2. f[0] = <<>>
  BY <1>1 DEF UpTo
<1>3. ASSUME NEW k \in Nat, k + 1 <= m
      PROVE  f[k + 1] = IF k + 1 \in I THEN Append(f[k], k + 1) ELSE f[k]
  <2>1. k + 1 \in 0..m /\ k + 1 # 0 /\ (k + 1) - 1 = k
    BY <1>3
  <2>2. f[k + 1] = IF k + 1 = 0 THEN <<>>
                   ELSE IF k + 1 \in I THEN Append(f[(k + 1) - 1], k + 1)
                   ELSE f[(k + 1) - 1]
    BY <2>1 DEF UpTo
  <2> QED BY <2>1, <2>2
<1> QED BY <1>2, <1>3

\* There is such an enumeration.
LEMMA UpToExists ==
    ASSUME NEW I, NEW m \in Nat
    PROVE  \E f : UpTo(I, m, f)
<1> DEFINE S == {n \in Nat : \E f : UpTo(I, n, f)}
<1>1. 0 \in S
  <2>1. UpTo(I, 0, [k \in 0..0 |-> <<>>])
    BY DEF UpTo
  <2> QED BY <2>1
<1>2. ASSUME NEW n \in Nat, n \in S PROVE n + 1 \in S
  <2>1. PICK f : UpTo(I, n, f)
    BY <1>2
  <2> DEFINE g == [k \in 0..(n + 1) |->
                      IF k <= n THEN f[k]
                      ELSE IF k \in I THEN Append(f[k - 1], k) ELSE f[k - 1]]
  <2>2. ASSUME NEW k \in 0..(n + 1)
        PROVE  g[k] = IF k = 0 THEN <<>>
                      ELSE IF k \in I THEN Append(g[k - 1], k) ELSE g[k - 1]
    <3>0. /\ f[0] = <<>>
          /\ \A j \in Nat : j + 1 <= n =>
                f[j + 1] = IF j + 1 \in I THEN Append(f[j], j + 1) ELSE f[j]
      BY <2>1, UpToStep
    <3>1. CASE k = 0
      <4>1. 0 \in 0..(n + 1) /\ 0 <= n
        OBVIOUS
      <4>2. g[0] = f[0]
        BY <4>1
      <4> QED BY <3>0, <3>1, <4>2
    <3>2. CASE k # 0
      <4>1. k - 1 \in 0..n /\ k - 1 \in 0..(n + 1) /\ (k - 1) + 1 = k
        BY <3>2
      <4>2. g[k - 1] = f[k - 1]
        BY <4>1
      <4>3. CASE k <= n
        <5>1. f[(k - 1) + 1] = IF (k - 1) + 1 \in I THEN Append(f[k - 1], (k - 1) + 1)
                               ELSE f[k - 1]
          BY <3>0, <4>1, <4>3
        <5>2. g[k] = f[k]
          BY <4>3
        <5> QED BY <5>1, <5>2, <4>1, <4>2, <3>2
      <4>4. CASE ~(k <= n)
        BY <4>2, <4>4, <3>2
      <4> QED BY <4>3, <4>4
    <3> QED BY <3>1, <3>2
  <2>3. UpTo(I, n + 1, g)
    BY <2>2 DEF UpTo
  <2> QED BY <2>3
<1>3. Nat \subseteq S
  <2> HIDE DEF S
  <2> QED BY <1>1, <1>2, SetInduction
<1> QED BY <1>3

\* Two such enumerations agree as far as both reach.
LEMMA UpToUnique ==
    ASSUME NEW I, NEW m \in Nat, NEW n \in Nat, NEW f, NEW g, UpTo(I, m, f), UpTo(I, n, g),
           NEW k \in Nat, k <= m, k <= n
    PROVE  f[k] = g[k]
<1> DEFINE S == {j \in Nat : j <= m /\ j <= n => f[j] = g[j]}
<1>f. /\ f[0] = <<>>
      /\ \A j \in Nat : j + 1 <= m =>
            f[j + 1] = IF j + 1 \in I THEN Append(f[j], j + 1) ELSE f[j]
  BY UpToStep
<1>g. /\ g[0] = <<>>
      /\ \A j \in Nat : j + 1 <= n =>
            g[j + 1] = IF j + 1 \in I THEN Append(g[j], j + 1) ELSE g[j]
  BY UpToStep
<1>1. 0 \in S
  BY <1>f, <1>g
<1>2. ASSUME NEW j \in Nat, j \in S PROVE j + 1 \in S
  BY <1>f, <1>g, <1>2
<1>3. Nat \subseteq S
  <2> HIDE DEF S
  <2> QED BY <1>1, <1>2, SetInduction
<1> QED BY <1>3

\* InOrder of nothing, and of one number more.
LEMMA InOrderIs ==
    ASSUME NEW I, NEW n \in Nat
    PROVE  /\ InOrder(I, 0) = <<>>
           /\ InOrder(I, n + 1) = IF n + 1 \in I THEN Append(InOrder(I, n), n + 1)
                                  ELSE InOrder(I, n)
<1> DEFINE U(m) == CHOOSE f : UpTo(I, m, f)
<1>1. \A m \in Nat : UpTo(I, m, U(m))
  BY UpToExists
<1>2. ASSUME NEW m \in Nat PROVE InOrder(I, m) = U(m)[m]
  BY DEF InOrder, UpTo
<1>3. U(n + 1)[n] = U(n)[n]
  BY <1>1, UpToUnique
<1>4. U(0)[0] = <<>>
  BY <1>1, UpToStep
<1>5. U(n + 1)[n + 1] = IF n + 1 \in I THEN Append(U(n + 1)[n], n + 1) ELSE U(n + 1)[n]
  <2>1. UpTo(I, n + 1, U(n + 1))
    BY <1>1
  <2> HIDE DEF U
  <2> QED BY <2>1, UpToStep
<1> HIDE DEF U
<1> QED BY <1>2, <1>3, <1>4, <1>5

\* InOrder lists the members of I up to n, each once, the smaller before the greater.
LEMMA InOrderLists ==
    ASSUME NEW I, NEW n \in Nat
    PROVE  /\ InOrder(I, n) \in Seq(I \cap 1..n)
           /\ \A j, k \in DOMAIN InOrder(I, n) :
                 j < k => InOrder(I, n)[j] < InOrder(I, n)[k]
           /\ \A i \in I \cap 1..n : \E k \in DOMAIN InOrder(I, n) : InOrder(I, n)[k] = i
<1> DEFINE Lists(m) ==
        /\ InOrder(I, m) \in Seq(I \cap 1..m)
        /\ \A j, k \in DOMAIN InOrder(I, m) : j < k => InOrder(I, m)[j] < InOrder(I, m)[k]
        /\ \A i \in I \cap 1..m : \E k \in DOMAIN InOrder(I, m) : InOrder(I, m)[k] = i
<1> DEFINE S == {m \in Nat : Lists(m)}
<1>1. 0 \in S
  <2>1. InOrder(I, 0) = <<>> /\ I \cap 1..0 = {}
    BY InOrderIs
  <2>2. <<>> \in Seq(I \cap 1..0) /\ DOMAIN <<>> = {}
    OBVIOUS
  <2>3. Lists(0)
    BY <2>1, <2>2
  <2> QED BY <2>3
<1>2. ASSUME NEW m \in Nat, m \in S PROVE m + 1 \in S
  <2> DEFINE q == InOrder(I, m)
  <2> DEFINE r == InOrder(I, m + 1)
  <2>1. /\ q \in Seq(I \cap 1..m)
        /\ \A j, k \in DOMAIN q : j < k => q[j] < q[k]
        /\ \A i \in I \cap 1..m : \E k \in DOMAIN q : q[k] = i
    BY <1>2
  <2>2. r = IF m + 1 \in I THEN Append(q, m + 1) ELSE q
    BY InOrderIs
  <2>3. q \in Seq(I \cap 1..(m + 1))
    BY <2>1
  <2> SUFFICES /\ r \in Seq(I \cap 1..(m + 1))
               /\ \A j, k \in DOMAIN r : j < k => r[j] < r[k]
               /\ \A i \in I \cap 1..(m + 1) : \E k \in DOMAIN r : r[k] = i
    OBVIOUS
  <2> HIDE DEF q, r, S
  <2>4. CASE m + 1 \in I
    <3>1. r = Append(q, m + 1) /\ m + 1 \in I \cap 1..(m + 1)
      BY <2>2, <2>4
    <3>2. r \in Seq(I \cap 1..(m + 1))
      BY <3>1, <2>3
    <3>3. /\ DOMAIN q = 1..Len(q) /\ DOMAIN r = 1..(Len(q) + 1) /\ r[Len(q) + 1] = m + 1
          /\ \A k \in DOMAIN q : r[k] = q[k] /\ q[k] \in 1..m
          /\ Len(q) \in Nat
      BY <3>1, <2>1, <2>3
    <3>4. ASSUME NEW j \in DOMAIN r, NEW k \in DOMAIN r, j < k PROVE r[j] < r[k]
      <4>1. j \in DOMAIN q /\ r[j] = q[j] /\ q[j] \in 1..m
        BY <3>3, <3>4
      <4>2. CASE k \in DOMAIN q
        BY <4>1, <4>2, <3>3, <3>4, <2>1
      <4>3. CASE k \notin DOMAIN q
        <5>1. k = Len(q) + 1
          BY <4>3, <3>3
        <5> QED BY <5>1, <4>1, <3>3
      <4> QED BY <4>2, <4>3
    <3>5. \A i \in I \cap 1..(m + 1) : \E k \in DOMAIN r : r[k] = i
      <4> SUFFICES ASSUME NEW i \in I \cap 1..(m + 1) PROVE \E k \in DOMAIN r : r[k] = i
        OBVIOUS
      <4>1. CASE i = m + 1
        BY <4>1, <3>3
      <4>2. CASE i # m + 1
        <5>1. i \in I \cap 1..m
          BY <4>2
        <5> QED BY <5>1, <2>1, <3>3
      <4> QED BY <4>1, <4>2
    <3> QED BY <3>2, <3>4, <3>5
  <2>5. CASE m + 1 \notin I
    <3>1. r = q /\ I \cap 1..(m + 1) = I \cap 1..m
      BY <2>2, <2>5
    <3> QED BY <3>1, <2>1
  <2> QED BY <2>4, <2>5
<1>3. Nat \subseteq S
  <2> HIDE DEF S
  <2> QED BY <1>1, <1>2, SetInduction
<1>4. Lists(n)
  BY <1>3
<1> QED BY <1>4

LEMMA InOrderNats ==
    ASSUME NEW I, NEW n \in Nat
    PROVE  InOrder(I, n) \in Seq(Nat)
<1>1. InOrder(I, n) \in Seq(I \cap 1..n)
  BY InOrderLists
<1>2. I \cap 1..n \subseteq Nat
  OBVIOUS
<1> QED BY <1>1, <1>2

\* Only the members up to n count.
LEMMA InOrderSame ==
    ASSUME NEW I, NEW J, NEW n \in Nat, \A i \in 1..n : i \in I <=> i \in J
    PROVE  InOrder(I, n) = InOrder(J, n)
<1> DEFINE S == {m \in Nat : m <= n => InOrder(I, m) = InOrder(J, m)}
<1>1. 0 \in S
  BY InOrderIs
<1>2. ASSUME NEW m \in Nat, m \in S PROVE m + 1 \in S
  <2>1. /\ InOrder(I, m + 1) = IF m + 1 \in I THEN Append(InOrder(I, m), m + 1)
                               ELSE InOrder(I, m)
        /\ InOrder(J, m + 1) = IF m + 1 \in J THEN Append(InOrder(J, m), m + 1)
                               ELSE InOrder(J, m)
    BY InOrderIs
  <2>2. m + 1 <= n => (m + 1 \in I <=> m + 1 \in J)
    OBVIOUS
  <2> QED BY <1>2, <2>1, <2>2
<1>3. Nat \subseteq S
  <2> HIDE DEF S
  <2> QED BY <1>1, <1>2, SetInduction
<1> QED BY <1>3

\* All of the numbers up to n are listed as they are, and none as nothing.
LEMMA InOrderAll ==
    ASSUME NEW I, NEW n \in Nat, 1..n \subseteq I
    PROVE  InOrder(I, n) = [k \in 1..n |-> k]
<1> DEFINE S == {m \in Nat : m <= n => InOrder(I, m) = [k \in 1..m |-> k]}
<1>1. 0 \in S
  <2>1. InOrder(I, 0) = <<>> /\ [k \in 1..0 |-> k] = <<>>
    BY InOrderIs
  <2> QED BY <2>1
<1>2. ASSUME NEW m \in Nat, m \in S PROVE m + 1 \in S
  <2> SUFFICES ASSUME m + 1 <= n PROVE InOrder(I, m + 1) = [k \in 1..(m + 1) |-> k]
    OBVIOUS
  <2>1. InOrder(I, m) = [k \in 1..m |-> k]
    BY <1>2
  <2>2. InOrder(I, m + 1) = Append(InOrder(I, m), m + 1)
    BY InOrderIs, m + 1 \in I
  <2>3. [k \in 1..m |-> k] \in Seq(Nat) /\ Len([k \in 1..m |-> k]) = m
    OBVIOUS
  <2>4. Append([k \in 1..m |-> k], m + 1) = [k \in 1..(m + 1) |-> k]
    BY <2>3
  <2> QED BY <2>1, <2>2, <2>4
<1>3. Nat \subseteq S
  <2> HIDE DEF S
  <2> QED BY <1>1, <1>2, SetInduction
<1> QED BY <1>3

LEMMA InOrderNone ==
    ASSUME NEW I, NEW n \in Nat, \A i \in 1..n : i \notin I
    PROVE  InOrder(I, n) = <<>>
<1>1. InOrder(I, n) \in Seq(I \cap 1..n)
  BY InOrderLists
<1>2. I \cap 1..n = {}
  OBVIOUS
<1> QED BY <1>1, <1>2

LEMMA AppendCat ==
    ASSUME NEW a \in Seq(Nat), NEW b \in Seq(Nat), NEW x \in Nat
    PROVE  Append(a \o b, x) = a \o Append(b, x)
<1> DEFINE c == Append(a \o b, x)
<1> DEFINE d == a \o Append(b, x)
<1>1. c \in Seq(Nat) /\ d \in Seq(Nat)
  OBVIOUS
<1>2. Len(c) = Len(a) + Len(b) + 1 /\ Len(d) = Len(a) + Len(b) + 1
  OBVIOUS
<1>3. ASSUME NEW k \in 1..(Len(a) + Len(b) + 1) PROVE c[k] = d[k]
  <2>1. Len(a) \in Nat /\ Len(b) \in Nat
    OBVIOUS
  <2>2. CASE k <= Len(a)
    BY <2>1, <2>2
  <2>3. CASE Len(a) < k /\ k <= Len(a) + Len(b)
    BY <2>1, <2>3
  <2>4. CASE k = Len(a) + Len(b) + 1
    BY <2>1, <2>4
  <2> QED BY <2>1, <2>2, <2>3, <2>4
<1> HIDE DEF c, d
<1>4. c = d
  BY <1>1, <1>2, <1>3, SeqEqual
<1> QED BY <1>4 DEF c, d

\* What is listed after the members up to m are the members beyond m.
LEMMA InOrderCat ==
    ASSUME NEW I, NEW m \in Nat, NEW n \in Nat, NEW J, \A j \in 1..n : j \in J <=> m + j \in I
    PROVE  InOrder(I, m + n) =
               InOrder(I, m) \o [k \in DOMAIN InOrder(J, n) |-> m + InOrder(J, n)[k]]
<1>00. \A l \in Nat : l + 1 \in Nat
  OBVIOUS
<1> DEFINE Up(l) == [k \in DOMAIN InOrder(J, l) |-> m + InOrder(J, l)[k]]
<1> DEFINE Joins(l) == l <= n => InOrder(I, m + l) = InOrder(I, m) \o Up(l)
<1> DEFINE S == {l \in Nat : Joins(l)}
<1>0. \A T, l : l \in Nat => InOrder(T, l) \in Seq(Nat)
  BY InOrderNats
<1>1. 0 \in S
  <2>1. Up(0) = <<>>
    BY InOrderIs
  <2>2. m + 0 = m /\ InOrder(I, m) \o <<>> = InOrder(I, m)
    BY <1>0
  <2>3. Joins(0)
    <3> HIDE DEF Up
    <3> QED BY <2>1, <2>2
  <2> HIDE DEF Joins
  <2> QED BY <2>3
<1>2. ASSUME NEW l \in Nat, l \in S PROVE l + 1 \in S
  <2>0. Joins(l)
    BY <1>2
  <2> SUFFICES ASSUME l + 1 <= n PROVE InOrder(I, m + (l + 1)) = InOrder(I, m) \o Up(l + 1)
    <3>1. Joins(l + 1)
      OBVIOUS
    <3> HIDE DEF Joins
    <3> QED BY <1>00, <3>1, Zenon
  <2>1. InOrder(I, m + l) = InOrder(I, m) \o Up(l)
    <3>1. l <= n
      OBVIOUS
    <3> HIDE DEF Up
    <3> QED BY <2>0, <3>1
  <2>2. m + l \in Nat /\ m + (l + 1) = (m + l) + 1
    OBVIOUS
  <2>3. InOrder(I, m + (l + 1)) = IF (m + l) + 1 \in I THEN Append(InOrder(I, m + l), (m + l) + 1)
                                  ELSE InOrder(I, m + l)
    BY <2>2, InOrderIs
  <2>4. InOrder(J, l + 1) = IF l + 1 \in J THEN Append(InOrder(J, l), l + 1) ELSE InOrder(J, l)
    BY InOrderIs
  <2>5. l + 1 \in J <=> (m + l) + 1 \in I
    <3>1. l + 1 \in 1..n
      OBVIOUS
    <3> QED BY <3>1, <2>2
  <2>6. InOrder(J, l) \in Seq(Nat)
    BY <1>0
  <2>7. Up(l) \in Seq(Nat)
    BY <2>6
  <2>8. CASE l + 1 \in J
    <3>1. Up(l + 1) = Append(Up(l), m + (l + 1))
      <4> DEFINE q == InOrder(J, l)
      <4>1. InOrder(J, l + 1) = Append(q, l + 1)
        BY <2>4, <2>8
      <4>2. q \in Seq(Nat)
        BY <2>6
      <4> HIDE DEF q
      <4>3. [k \in DOMAIN Append(q, l + 1) |-> m + Append(q, l + 1)[k]] =
                Append([k \in DOMAIN q |-> m + q[k]], m + (l + 1))
        BY <4>2
      <4> QED BY <4>1, <4>3 DEF q
    <3>2. InOrder(I, m + (l + 1)) = Append(InOrder(I, m + l), (m + l) + 1)
      BY <2>3, <2>5, <2>8
    <3> HIDE DEF Up
    <3>3. Append(InOrder(I, m) \o Up(l), m + (l + 1)) = InOrder(I, m) \o Append(Up(l), m + (l + 1))
      <4>1. ASSUME NEW a \in Seq(Nat), NEW b \in Seq(Nat), NEW x \in Nat
            PROVE  Append(a \o b, x) = a \o Append(b, x)
        BY AppendCat
      <4>2. InOrder(I, m) \in Seq(Nat) /\ m + (l + 1) \in Nat
        BY <1>0
      <4> QED BY <4>1, <4>2, <2>7
    <3> QED BY <3>1, <3>2, <3>3, <2>1, <2>2
  <2>9. CASE l + 1 \notin J
    BY <2>9, <2>1, <2>3, <2>4, <2>5
  <2> QED BY <2>8, <2>9
<1>3. Nat \subseteq S
  <2> HIDE DEF S
  <2> QED BY <1>1, <1>2, SetInduction
<1>4. Joins(n)
  <2> HIDE DEF Joins
  <2> QED BY <1>3
<1> HIDE DEF Up
<1>5. n <= n
  OBVIOUS
<1>6. InOrder(I, m + n) = InOrder(I, m) \o Up(n)
  BY <1>4, <1>5
<1> QED BY <1>6 DEF Up

\* At: as many elements as there are places, in their order.
LEMMA AtElements ==
    ASSUME NEW T, NEW s \in Seq(T), NEW I
    PROVE  /\ At(s, I) \in Seq(T)
           /\ Len(At(s, I)) = Len(InOrder(I, Len(s)))
           /\ \A k \in 1..Len(InOrder(I, Len(s))) :
                 /\ InOrder(I, Len(s))[k] \in I \cap 1..Len(s)
                 /\ At(s, I)[k] = s[InOrder(I, Len(s))[k]]
<1> DEFINE q == InOrder(I, Len(s))
<1>1. q \in Seq(I \cap 1..Len(s))
  BY InOrderLists, Len(s) \in Nat
<1>2. At(s, I) = [k \in DOMAIN q |-> s[q[k]]]
  BY DEF At
<1> HIDE DEF q
<1>3. /\ DOMAIN q = 1..Len(q) /\ Len(q) \in Nat
      /\ \A k \in 1..Len(q) : q[k] \in I \cap 1..Len(s)
  BY <1>1
<1>4. \A k \in 1..Len(q) : s[q[k]] \in T
  BY <1>3
<1>5. /\ [k \in 1..Len(q) |-> s[q[k]]] \in Seq(T)
      /\ Len([k \in 1..Len(q) |-> s[q[k]]]) = Len(q)
  BY <1>3, <1>4
<1> QED BY <1>2, <1>3, <1>5 DEF q

\* Each element of At stands at one of the places.
LEMMA AtSource ==
    ASSUME NEW T, NEW s \in Seq(T), NEW I, NEW k \in DOMAIN At(s, I)
    PROVE  \E i \in DOMAIN s : i \in I /\ At(s, I)[k] = s[i]
<1>1. k \in 1..Len(InOrder(I, Len(s)))
  BY AtElements
<1> QED BY <1>1, AtElements

\* At keeps the order of places: what is found later stands at a later place.
LEMMA AtOrder ==
    ASSUME NEW T, NEW s \in Seq(T), NEW I, NEW j \in DOMAIN At(s, I), NEW k \in DOMAIN At(s, I),
           j < k
    PROVE  \E p, q \in DOMAIN s : p < q /\ At(s, I)[j] = s[p] /\ At(s, I)[k] = s[q]
<1> DEFINE o == InOrder(I, Len(s))
<1>1. /\ DOMAIN At(s, I) = 1..Len(o) /\ DOMAIN s = 1..Len(s)
      /\ \A i \in 1..Len(o) : o[i] \in I \cap 1..Len(s) /\ At(s, I)[i] = s[o[i]]
  BY AtElements
<1>2. o[j] < o[k]
  <2>1. /\ o \in Seq(I \cap 1..Len(s))
        /\ \A x, y \in DOMAIN o : x < y => o[x] < o[y]
    BY InOrderLists, Len(s) \in Nat
  <2>2. DOMAIN o = 1..Len(o)
    BY <2>1
  <2> HIDE DEF o
  <2> QED BY <1>1, <2>1, <2>2
<1> HIDE DEF o
<1> QED BY <1>1, <1>2

\* At finds what stands at each of the places.
LEMMA AtFinds ==
    ASSUME NEW T, NEW s \in Seq(T), NEW I, NEW i \in I \cap 1..Len(s)
    PROVE  \E k \in DOMAIN At(s, I) : At(s, I)[k] = s[i]
<1> DEFINE o == InOrder(I, Len(s))
<1>1. /\ DOMAIN At(s, I) = 1..Len(o)
      /\ \A k \in 1..Len(o) : At(s, I)[k] = s[o[k]]
  BY AtElements
<1>2. \E k \in 1..Len(o) : o[k] = i
  <2>1. o \in Seq(I \cap 1..Len(s)) /\ \E k \in DOMAIN o : o[k] = i
    BY InOrderLists, Len(s) \in Nat
  <2>2. DOMAIN o = 1..Len(o)
    BY <2>1
  <2> QED BY <2>1, <2>2
<1> HIDE DEF o
<1> QED BY <1>1, <1>2

LEMMA AtAll ==
    ASSUME NEW T, NEW s \in Seq(T), NEW I, 1..Len(s) \subseteq I
    PROVE  At(s, I) = s
<1>1. InOrder(I, Len(s)) = [k \in 1..Len(s) |-> k]
  BY InOrderAll, Len(s) \in Nat
<1>2. At(s, I) = [k \in 1..Len(s) |-> s[k]]
  BY <1>1 DEF At
<1> QED BY <1>2

LEMMA AtNone ==
    ASSUME NEW T, NEW s \in Seq(T), NEW I, \A i \in 1..Len(s) : i \notin I
    PROVE  At(s, I) = <<>>
<1>1. InOrder(I, Len(s)) = <<>>
  BY InOrderNone, Len(s) \in Nat
<1>2. Len(At(s, I)) = 0 /\ At(s, I) \in Seq(T)
  BY <1>1, AtElements
<1> QED BY <1>2

\* The elements of two lists in a row: those of the first, then those of the second.
LEMMA AtCat ==
    ASSUME NEW T, NEW s \in Seq(T), NEW t \in Seq(T), NEW I, NEW J, NEW K,
           \A i \in 1..Len(s) : i \in I <=> i \in J,
           \A i \in 1..Len(t) : Len(s) + i \in I <=> i \in K
    PROVE  At(s \o t, I) = At(s, J) \o At(t, K)
<1> DEFINE m == Len(s)
           n == Len(t)
           a == InOrder(J, m)
           b == InOrder(K, n)
           c == [k \in DOMAIN b |-> m + b[k]]
           u == s \o t
<1>1. m \in Nat /\ n \in Nat /\ Len(u) = m + n
  OBVIOUS
<1>2. InOrder(I, Len(u)) = a \o c
  <2>1. InOrder(I, m) = a
    BY InOrderSame, <1>1
  <2>2. InOrder(I, m + n) = InOrder(I, m) \o c
    <3>1. \A i \in 1..n : i \in K <=> m + i \in I
      OBVIOUS
    <3> HIDE DEF m, n
    <3> QED BY <3>1, InOrderCat, <1>1
  <2> QED BY <2>1, <2>2, <1>1
<1>3. /\ a \in Seq(Nat) /\ b \in Seq(Nat)
      /\ \A k \in 1..Len(a) : a[k] \in 1..m
      /\ \A k \in 1..Len(b) : b[k] \in 1..n
  <2>1. a \in Seq(J \cap 1..m) /\ b \in Seq(K \cap 1..n)
    BY InOrderLists, <1>1
  <2> QED BY <2>1, <1>1, InOrderNats
<1> HIDE DEF a, b, m, n
<1>4. c \in Seq(Nat) /\ Len(c) = Len(b) /\ \A k \in 1..Len(b) : c[k] = m + b[k]
  <2>1. DOMAIN b = 1..Len(b) /\ Len(b) \in Nat
    BY <1>3
  <2>2. \A k \in 1..Len(b) : m + b[k] \in Nat
    BY <1>1, <1>3
  <2> QED BY <2>1, <2>2
<1>5. /\ \A k \in 1..m : u[k] = s[k]
      /\ \A k \in 1..n : u[m + k] = t[k]
      /\ u \in Seq(T)
  BY DEF m, n
<1> DEFINE d == At(u, I)
           e == At(s, J) \o At(t, K)
<1>6. /\ d \in Seq(T) /\ Len(d) = Len(a) + Len(b)
      /\ \A k \in 1..(Len(a) + Len(b)) : d[k] = u[(a \o c)[k]]
  <2> HIDE DEF c
  <2>0. a \in Seq(Nat) /\ c \in Seq(Nat) /\ Len(c) = Len(b)
    BY <1>3, <1>4
  <2>1. Len(a \o c) = Len(a) + Len(b)
    <3>1. \A f, g \in Seq(Nat) : Len(f \o g) = Len(f) + Len(g)
      OBVIOUS
    <3> QED BY ONLY <2>0, <3>1
  <2>2. /\ d \in Seq(T) /\ Len(d) = Len(InOrder(I, Len(u)))
        /\ \A k \in 1..Len(InOrder(I, Len(u))) : d[k] = u[InOrder(I, Len(u))[k]]
    <3> HIDE DEF u
    <3> QED BY <1>5, AtElements
  <2> HIDE DEF d, u
  <2> QED BY <1>2, <2>1, <2>2
<1>7. /\ At(s, J) \in Seq(T) /\ Len(At(s, J)) = Len(a) /\ \A k \in 1..Len(a) : At(s, J)[k] = s[a[k]]
      /\ At(t, K) \in Seq(T) /\ Len(At(t, K)) = Len(b) /\ \A k \in 1..Len(b) : At(t, K)[k] = t[b[k]]
  BY AtElements DEF a, b, m, n
<1> DEFINE x == At(s, J)
           y == At(t, K)
<1>8. /\ e \in Seq(T) /\ Len(e) = Len(a) + Len(b)
      /\ \A k \in 1..Len(a) : e[k] = s[a[k]]
      /\ \A k \in 1..Len(b) : e[Len(a) + k] = t[b[k]]
  <2>1. e = x \o y
    OBVIOUS
  <2> HIDE DEF x, y, e
  <2>2. /\ x \in Seq(T) /\ Len(x) = Len(a) /\ \A k \in 1..Len(a) : x[k] = s[a[k]]
        /\ y \in Seq(T) /\ Len(y) = Len(b) /\ \A k \in 1..Len(b) : y[k] = t[b[k]]
    BY <1>7 DEF x, y
  <2>3. /\ x \o y \in Seq(T) /\ Len(x \o y) = Len(x) + Len(y)
        /\ \A k \in 1..Len(x) : (x \o y)[k] = x[k]
        /\ \A k \in 1..Len(y) : (x \o y)[Len(x) + k] = y[k]
    <3>1. x \in Seq(T) /\ y \in Seq(T)
      BY <2>2
    <3> QED BY ONLY <3>1
  <2> QED BY <2>1, <2>2, <2>3
<1> DEFINE z == a \o c
<1> HIDE DEF a, b, c, d, e, m, n, u
<1>z. /\ \A k \in 1..Len(a) : z[k] = a[k]
      /\ \A k \in 1..Len(b) : z[Len(a) + k] = c[k]
  BY <1>3, <1>4
<1> HIDE DEF z
<1>9. ASSUME NEW k \in 1..(Len(a) + Len(b)) PROVE d[k] = e[k]
  <2>0. d[k] = u[z[k]]
    BY <1>6 DEF z
  <2>1. Len(a) \in Nat /\ Len(b) \in Nat /\ d[k] = u[z[k]]
    BY <1>3, <2>0
  <2>2. CASE k <= Len(a)
    <3>1. z[k] = a[k] /\ a[k] \in 1..m /\ e[k] = s[a[k]]
      BY <2>1, <2>2, <1>3, <1>z, <1>8
    <3> QED BY <2>1, <3>1, <1>5
  <2>3. CASE k > Len(a)
    <3>1. PICK j \in 1..Len(b) : k = Len(a) + j
      <4>1. k - Len(a) \in 1..Len(b) /\ k = Len(a) + (k - Len(a))
        BY <2>1, <2>3
      <4> QED BY <4>1
    <3>2. z[k] = m + b[j] /\ b[j] \in 1..n /\ e[k] = t[b[j]]
      BY <3>1, <1>3, <1>4, <1>z, <1>8
    <3> QED BY <2>1, <3>2, <1>5
  <2> QED BY <2>1, <2>2, <2>3
<1>10. d = e
  <2> QED BY <1>6, <1>8, <1>9, SeqEqual
<1> QED BY <1>10 DEF d, e, u

\* Of two lists in a row, nothing of the second is taken, or nothing or everything of the first.
LEMMA AtFirst ==
    ASSUME NEW T, NEW s \in Seq(T), NEW t \in Seq(T), NEW I,
           \A i \in 1..Len(t) : Len(s) + i \notin I
    PROVE  At(s \o t, I) = At(s, I)
<1> DEFINE N == {}
<1>0. /\ s \in Seq(T) /\ t \in Seq(T)
      /\ \A i \in 1..Len(s) : i \in I <=> i \in I
      /\ \A i \in 1..Len(t) : Len(s) + i \in I <=> i \in N
  OBVIOUS
<1>1. \A i \in 1..Len(t) : i \notin N
  OBVIOUS
<1> HIDE DEF N
<1>2. At(s \o t, I) = At(s, I) \o At(t, N)
  BY ONLY <1>0, AtCat
<1>3. At(t, N) = <<>> /\ At(s, I) \in Seq(T)
  BY <1>1, AtNone, AtElements
<1> QED BY <1>2, <1>3

LEMMA AtSkip ==
    ASSUME NEW T, NEW s \in Seq(T), NEW t \in Seq(T), NEW I, NEW K,
           \A i \in 1..Len(s) : i \notin I,
           \A i \in 1..Len(t) : Len(s) + i \in I <=> i \in K
    PROVE  At(s \o t, I) = At(t, K)
<1>1. At(s \o t, I) = At(s, I) \o At(t, K)
  BY AtCat
<1>2. At(s, I) = <<>> /\ At(t, K) \in Seq(T)
  BY AtNone, AtElements
<1> QED BY <1>1, <1>2

LEMMA AtTake ==
    ASSUME NEW T, NEW s \in Seq(T), NEW t \in Seq(T), NEW I, NEW K,
           \A i \in 1..Len(s) : i \in I,
           \A i \in 1..Len(t) : Len(s) + i \in I <=> i \in K
    PROVE  At(s \o t, I) = s \o At(t, K)
<1>0. /\ s \in Seq(T) /\ t \in Seq(T)
      /\ \A i \in 1..Len(s) : i \in I <=> i \in I
      /\ \A i \in 1..Len(t) : Len(s) + i \in I <=> i \in K
  OBVIOUS
<1>1. At(s \o t, I) = At(s, I) \o At(t, K)
  BY ONLY <1>0, AtCat
<1>2. At(s, I) = s
  <2>1. 1..Len(s) \subseteq I
    OBVIOUS
  <2> QED BY <2>1, AtAll
<1> QED BY <1>1, <1>2

-----------------------------------------------------------------------------
(* Two lists in a row.                                                    *)

\* The elements of a concatenation.
LEMMA CatElements ==
    ASSUME NEW T, NEW a \in Seq(T), NEW b \in Seq(T)
    PROVE  /\ a \o b \in Seq(T) /\ Len(a \o b) = Len(a) + Len(b)
           /\ DOMAIN (a \o b) = 1..(Len(a) + Len(b))
           /\ DOMAIN a = 1..Len(a) /\ DOMAIN b = 1..Len(b)
           /\ Len(a) \in Nat /\ Len(b) \in Nat
           /\ \A i \in 1..Len(a) : (a \o b)[i] = a[i]
           /\ \A i \in 1..Len(b) : (a \o b)[Len(a) + i] = b[i]
OBVIOUS

\* An index of two lists in a row is one of the first or one of the second.
LEMMA CatIndex ==
    ASSUME NEW T, NEW a \in Seq(T), NEW b \in Seq(T), NEW i \in DOMAIN (a \o b)
    PROVE  i \in 1..Len(a) \/ \E k \in 1..Len(b) : i = Len(a) + k
<1>1. i \in 1..(Len(a) + Len(b)) /\ Len(a) \in Nat /\ Len(b) \in Nat
  OBVIOUS
<1>2. CASE i > Len(a)
  <2>1. i - Len(a) \in 1..Len(b) /\ i = Len(a) + (i - Len(a))
    BY <1>1, <1>2
  <2> QED BY <2>1
<1> QED BY <1>1, <1>2

\* A list, cut in two.
FirstOf(q, n) == SubSeq(q, 1, n)
RestOf(q, n) == SubSeq(q, n + 1, Len(q))
LEMMA CutInTwo ==
    ASSUME NEW T, NEW q \in Seq(T), NEW n \in 0..Len(q)
    PROVE  /\ FirstOf(q, n) \in Seq(T) /\ RestOf(q, n) \in Seq(T)
           /\ Len(FirstOf(q, n)) = n /\ Len(RestOf(q, n)) = Len(q) - n
           /\ \A i \in 1..n : FirstOf(q, n)[i] = q[i]
           /\ \A i \in 1..(Len(q) - n) : RestOf(q, n)[i] = q[n + i]
           /\ q = FirstOf(q, n) \o RestOf(q, n)
<1> DEFINE a == FirstOf(q, n)
           b == RestOf(q, n)
<1>1. n \in Nat /\ Len(q) \in Nat /\ n <= Len(q) /\ 1 \in Int /\ n \in Int /\ n + 1 \in Int
  OBVIOUS
<1>2. \A i \in 1..Len(q) : q[i] \in T
  OBVIOUS
<1>3. /\ a \in Seq(T) /\ Len(a) = n
      /\ \A i \in 1..n : a[i] = q[i]
  BY <1>1, <1>2 DEF FirstOf
<1>4. /\ b \in Seq(T) /\ Len(b) = Len(q) - n
      /\ \A i \in 1..(Len(q) - n) : b[i] = q[n + i]
  BY <1>1, <1>2 DEF RestOf
<1> HIDE DEF a, b
<1>5. /\ a \o b \in Seq(T) /\ Len(a \o b) = Len(q)
      /\ \A i \in 1..n : (a \o b)[i] = q[i]
      /\ \A i \in 1..(Len(q) - n) : (a \o b)[n + i] = q[n + i]
  <2>1. /\ a \o b \in Seq(T) /\ Len(a \o b) = Len(a) + Len(b)
        /\ \A i \in 1..Len(a) : (a \o b)[i] = a[i]
        /\ \A i \in 1..Len(b) : (a \o b)[Len(a) + i] = b[i]
    BY <1>3, <1>4, CatElements
  <2> QED BY <1>1, <1>3, <1>4, <2>1
<1>6. ASSUME NEW i \in 1..Len(q) PROVE (a \o b)[i] = q[i]
  <2>1. CASE i <= n
    BY <1>5, <2>1
  <2>2. CASE i > n
    <3>1. i - n \in 1..(Len(q) - n) /\ n + (i - n) = i
      BY <1>1, <2>2
    <3>2. PICK j \in 1..(Len(q) - n) : n + j = i
      BY <3>1
    <3> QED BY <1>5, <3>2
  <2>3. i <= n \/ i > n
    BY <1>1
  <2> QED BY <2>1, <2>2, <2>3
<1>7. a \o b = q
  BY <1>5, <1>6, SeqEqual
<1> QED BY <1>3, <1>4, <1>7 DEF a, b

\* Two sets of places, all of the first before all of the second.
LEMMA AtSplit ==
    ASSUME NEW T, NEW s \in Seq(T), NEW I \in SUBSET (1..Len(s)), NEW J \in SUBSET (1..Len(s)),
           \A i \in I, j \in J : i < j
    PROVE  At(s, I \cup J) = At(s, I) \o At(s, J)
<1>0. Len(s) \in Nat
  OBVIOUS
<1>1. PICK n \in 0..Len(s) : (\A i \in I : i <= n) /\ (\A j \in J : j > n)
  <2>1. CASE J = {}
    BY <1>0, <2>1, Len(s) \in 0..Len(s)
  <2>2. CASE J # {}
    <3>1. PICK x \in J : \A y \in J : x <= y
      BY <1>0, <2>2, Least
    <3>2. x - 1 \in 0..Len(s) /\ (\A i \in I : i <= x - 1) /\ (\A j \in J : j > x - 1)
      BY <1>0, <3>1
    <3> QED BY <3>2
  <2> QED BY <2>1, <2>2
<1> DEFINE a == FirstOf(s, n)
           b == RestOf(s, n)
           K == {k \in 1..Len(b) : n + k \in J}
           U == I \cup J
<1>2. /\ a \in Seq(T) /\ b \in Seq(T) /\ Len(a) = n /\ Len(b) = Len(s) - n /\ s = a \o b
  BY CutInTwo
<1> HIDE DEF a, b
<1>3. At(a \o b, I) = At(a, I)
  <2>1. /\ a \in Seq(T) /\ b \in Seq(T)
        /\ \A k \in 1..Len(b) : Len(a) + k \notin I
    BY <1>0, <1>1, <1>2
  <2> QED BY ONLY <2>1, AtFirst
<1>4. At(a \o b, J) = At(b, K)
  <2>1. /\ a \in Seq(T) /\ b \in Seq(T)
        /\ \A i \in 1..Len(a) : i \notin J
        /\ \A k \in 1..Len(b) : Len(a) + k \in J <=> k \in K
    BY <1>0, <1>1, <1>2
  <2> HIDE DEF K
  <2> QED BY ONLY <2>1, AtSkip
<1>5. At(a \o b, U) = At(a, I) \o At(b, K)
  <2>1. /\ a \in Seq(T) /\ b \in Seq(T)
        /\ \A i \in 1..Len(a) : i \in U <=> i \in I
        /\ \A k \in 1..Len(b) : Len(a) + k \in U <=> k \in K
    BY <1>0, <1>1, <1>2
  <2> HIDE DEF K, U
  <2> QED BY ONLY <2>1, AtCat
<1> QED BY <1>2, <1>3, <1>4, <1>5

-----------------------------------------------------------------------------
(* Insertion.                                                              *)

\* The positions of a list that satisfy some condition are no more than its length.
LEMMA IndexCount ==
    ASSUME NEW n \in Nat, NEW I \in SUBSET (1..n)
    PROVE  Cardinality(I) \in 0..n
<1>1. IsFiniteSet(1..n) /\ Cardinality(1..n) = n
  BY FS_Interval, 1 \in Int, n \in Int
<1>2. IsFiniteSet(I) /\ Cardinality(I) <= n
  BY <1>1, FS_Subset
<1>3. Cardinality(I) \in Nat
  BY <1>2, FS_CardinalityType
<1> QED
  BY <1>2, <1>3

\* InsertAt: the elements before position p, the new one, and the others after it.
LEMMA InsertAtElements ==
    ASSUME NEW M, NEW s \in Seq(M), NEW m \in M, NEW p \in 1..(Len(s) + 1)
    PROVE  /\ InsertAt(s, p, m) \in Seq(M)
           /\ Len(InsertAt(s, p, m)) = Len(s) + 1
           /\ \A i \in 1..(Len(s) + 1) :
                 InsertAt(s, p, m)[i] =
                     IF i < p THEN s[i] ELSE IF i = p THEN m ELSE s[i - 1]
<1> DEFINE a == SubSeq(s, 1, p - 1)
           b == SubSeq(s, p, Len(s))
           c == a \o <<m>>
<1>1. Len(s) \in Nat /\ p \in Nat /\ 1 <= p /\ p <= Len(s) + 1
  OBVIOUS
<1>2. /\ a \in Seq(M) /\ Len(a) = p - 1 /\ \A i \in 1..(p - 1) : a[i] = s[i]
      /\ b \in Seq(M) /\ Len(b) = Len(s) - p + 1
      /\ \A i \in 1..(Len(s) - p + 1) : b[i] = s[p + i - 1]
  BY <1>1
<1> HIDE DEF a, b
<1>3. /\ c \in Seq(M) /\ Len(c) = p
      /\ \A i \in 1..p : c[i] = IF i < p THEN a[i] ELSE m
  BY <1>1, <1>2
<1>4. InsertAt(s, p, m) = c \o b
  BY DEF InsertAt, a, b
<1> HIDE DEF c
<1>5. /\ c \o b \in Seq(M) /\ Len(c \o b) = p + (Len(s) - p + 1)
      /\ \A i \in 1..(p + (Len(s) - p + 1)) :
            (c \o b)[i] = IF i <= p THEN c[i] ELSE b[i - p]
  BY <1>1, <1>2, <1>3, ConcatProperties
<1>6. ASSUME NEW i \in 1..(Len(s) + 1)
      PROVE  (c \o b)[i] = IF i < p THEN s[i] ELSE IF i = p THEN m ELSE s[i - 1]
  <2>1. CASE i <= p
    BY <1>1, <1>2, <1>3, <1>5, <2>1
  <2>2. CASE i > p
    <3>1. i - p \in 1..(Len(s) - p + 1) /\ (c \o b)[i] = b[i - p]
      BY <1>1, <1>5, <2>2
    <3>2. p + (i - p) - 1 = i - 1
      BY <1>1
    <3>3. b[i - p] = s[i - 1]
      BY <1>2, <3>1, <3>2
    <3>4. ~(i < p) /\ i # p
      BY <1>1, <2>2
    <3> QED
      BY <3>1, <3>3, <3>4
  <2>3. i <= p \/ i > p
    BY <1>1
  <2> QED
    BY <2>1, <2>2, <2>3
<1> QED
  BY <1>1, <1>4, <1>5, <1>6

\* Inserting adds the element and nothing else.
LEMMA InsertAtAdds ==
    ASSUME NEW M, NEW s \in Seq(M), NEW m \in M, NEW p \in 1..(Len(s) + 1)
    PROVE  ToSet(InsertAt(s, p, m)) = ToSet(s) \cup {m}
<1> DEFINE r == InsertAt(s, p, m)
<1>1. /\ r \in Seq(M)
      /\ Len(r) = Len(s) + 1
      /\ \A i \in 1..(Len(s) + 1) :
            r[i] = IF i < p THEN s[i] ELSE IF i = p THEN m ELSE s[i - 1]
  BY InsertAtElements
<1> HIDE DEF r
<1>2. DOMAIN r = 1..(Len(s) + 1) /\ DOMAIN s = 1..Len(s) /\ Len(s) \in Nat
  BY <1>1
<1>3. ASSUME NEW i \in 1..(Len(s) + 1)
      PROVE  r[i] \in ToSet(s) \cup {m}
  <2>1. CASE i < p
    BY <1>1, <1>2, <2>1 DEF ToSet
  <2>2. CASE i = p
    BY <1>1, <2>2
  <2>3. CASE i > p
    <3>1. i - 1 \in 1..Len(s) /\ r[i] = s[i - 1]
      BY <1>1, <1>2, <2>3
    <3> QED
      BY <1>2, <3>1 DEF ToSet
  <2> QED
    BY <1>2, <2>1, <2>2, <2>3
<1>4. m \in ToSet(r)
  <2>1. p \in 1..(Len(s) + 1) /\ r[p] = m
    BY <1>1, <1>2
  <2> QED
    BY <1>2, <2>1 DEF ToSet
<1>5. ASSUME NEW i \in 1..Len(s)
      PROVE  s[i] \in ToSet(r)
  <2>1. CASE i < p
    <3>1. i \in 1..(Len(s) + 1) /\ r[i] = s[i]
      BY <1>1, <1>2, <2>1
    <3> QED
      BY <1>2, <3>1 DEF ToSet
  <2>2. CASE i >= p
    <3>1. i + 1 \in 1..(Len(s) + 1) /\ r[i + 1] = s[i]
      BY <1>1, <1>2, <2>2
    <3> QED
      BY <1>2, <3>1 DEF ToSet
  <2> QED
    BY <1>2, <2>1, <2>2
<1>6. ToSet(r) = ToSet(s) \cup {m}
  BY <1>2, <1>3, <1>4, <1>5 DEF ToSet
<1> QED
  BY <1>6 DEF r

-----------------------------------------------------------------------------
(* Flattening.                                                             *)

\* P[k] is what the first k lists make: nothing at first, then always one list more.
Grows(T, P, seqs) ==
    /\ seqs \in Seq(Seq(T))
    /\ P[0] = <<>>
    /\ \A k \in 0..Len(seqs) : P[k] \in Seq(T)
    /\ \A k \in 0..(Len(seqs) - 1) : P[k + 1] = P[k] \o seqs[k + 1]

\* FlattenSeq puts all the lists in a row.
LEMMA FlattenSteps ==
    ASSUME NEW T, NEW P, NEW seqs, Grows(T, P, seqs)
    PROVE  FlattenSeq(seqs) = P[Len(seqs)]
<1> SUFFICES ASSUME NEW n, n = Len(seqs), n \in Nat, seqs \in Seq(Seq(T)), P[0] = <<>>,
                    \A k \in 0..n : P[k] \in Seq(T),
                    \A k \in 0..(n - 1) : P[k + 1] = P[k] \o seqs[k + 1]
             PROVE  FlattenSeq(seqs) = P[n]
  <2>1. seqs \in Seq(Seq(T)) /\ Len(seqs) \in Nat
    BY DEF Grows
  <2>2. P[0] = <<>> /\ \A k \in 0..Len(seqs) : P[k] \in Seq(T)
    BY DEF Grows
  <2>3. \A k \in 0..(Len(seqs) - 1) : P[k + 1] = P[k] \o seqs[k + 1]
    BY DEF Grows
  <2> QED BY <2>1, <2>2, <2>3
<1>1. CASE n = 0
  <2>1. seqs = <<>>
    <3>1. \A x \in Seq(Seq(T)) : Len(x) = 0 => x = <<>>
      OBVIOUS
    <3> QED BY <1>1, <3>1
  <2> QED BY <1>1, <2>1 DEF FlattenSeq
<1>2. CASE n # 0
  <2> DEFINE Flat(f) == f = [i \in 1..Len(seqs) |-> IF i = 1 THEN seqs[i] ELSE f[i - 1] \o seqs[i]]
             F == CHOOSE f : Flat(f)
             p == [i \in 1..n |-> P[i]]
  <2>1. P[1] = seqs[1]
    <3>1. P[0 + 1] = P[0] \o seqs[0 + 1]
      BY <1>2, 0 \in 0..(n - 1)
    <3>2. seqs[1] \in Seq(T)
      BY <1>2
    <3> QED BY <3>1, <3>2
  <2>2. ASSUME NEW i \in 1..n PROVE p[i] = IF i = 1 THEN seqs[i] ELSE p[i - 1] \o seqs[i]
    <3>1. CASE i = 1
      BY <2>1, <3>1
    <3>2. CASE i # 1
      <4>1. i - 1 \in 0..(n - 1) /\ i - 1 \in 1..n /\ (i - 1) + 1 = i
        BY <3>2
      <4>2. P[(i - 1) + 1] = P[i - 1] \o seqs[(i - 1) + 1]
        BY <4>1
      <4> QED BY <3>2, <4>1, <4>2
    <3> QED BY <3>1, <3>2
  <2>3. Flat(p)
    BY <2>2
  <2>4. Flat(F)
    <3> HIDE DEF Flat, p
    <3> QED BY <2>3
  <2>5. FlattenSeq(seqs) = F[n]
    BY <1>2 DEF FlattenSeq
  <2>6. ASSUME NEW i \in 1..n PROVE F[i] = IF i = 1 THEN seqs[i] ELSE F[i - 1] \o seqs[i]
    <3> HIDE DEF F
    <3> QED BY <2>4
  <2> HIDE DEF F
  <2> DEFINE S == {k \in Nat : k + 1 <= n => F[k + 1] = P[k + 1]}
  <2>7. 0 \in S
    BY <1>2, <2>1, <2>6, 1 \in 1..n
  <2>8. ASSUME NEW k \in Nat, k \in S PROVE k + 1 \in S
    <3> SUFFICES ASSUME (k + 1) + 1 <= n PROVE F[(k + 1) + 1] = P[(k + 1) + 1]
      OBVIOUS
    <3>1. (k + 1) + 1 \in 1..n /\ (k + 1) + 1 # 1 /\ ((k + 1) + 1) - 1 = k + 1 /\ k + 1 \in 0..(n - 1)
      OBVIOUS
    <3>2. F[k + 1] = P[k + 1]
      BY <2>8
    <3>3. F[(k + 1) + 1] = F[((k + 1) + 1) - 1] \o seqs[(k + 1) + 1]
      BY <2>6, <3>1
    <3>4. P[(k + 1) + 1] = P[k + 1] \o seqs[(k + 1) + 1]
      BY <3>1
    <3> QED BY <3>1, <3>2, <3>3, <3>4
  <2>9. Nat \subseteq S
    <3> HIDE DEF S
    <3> QED BY <2>7, <2>8, SetInduction
  <2>10. n - 1 \in S /\ (n - 1) + 1 = n
    <3>1. n - 1 \in Nat /\ (n - 1) + 1 = n
      <4>1. \A x \in Nat : x # 0 => x - 1 \in Nat /\ (x - 1) + 1 = x
        OBVIOUS
      <4> QED BY <1>2, <4>1
    <3> HIDE DEF S
    <3> QED BY <2>9, <3>1
  <2> QED BY <2>5, <2>10
<1> QED BY <1>1, <1>2

\* There is such a P for all lists.
LEMMA GrowsExists ==
    ASSUME NEW T, NEW seqs \in Seq(Seq(T))
    PROVE  \E P : Grows(T, P, seqs)
<1> DEFINE n == Len(seqs)
           Made(P, m) == /\ P[0] = <<>>
                         /\ \A k \in 0..m : P[k] \in Seq(T)
                         /\ \A k \in 0..(m - 1) : P[k + 1] = P[k] \o seqs[k + 1]
           S == {m \in Nat : m <= n => \E P : Made(P, m)}
<1>1. n \in Nat /\ \A k \in 1..n : seqs[k] \in Seq(T)
  OBVIOUS
<1> HIDE DEF n
<1>2. 0 \in S
  <2>1. Made([k \in 0..0 |-> <<>>], 0)
    OBVIOUS
  <2> HIDE DEF Made
  <2> QED BY <2>1
<1>3. ASSUME NEW m \in Nat, m \in S PROVE m + 1 \in S
  <2> SUFFICES ASSUME m + 1 <= n PROVE \E P : Made(P, m + 1)
    <3> HIDE DEF Made
    <3> QED OBVIOUS
  <2>1. m <= n /\ m + 1 \in 1..n
    BY <1>1
  <2>2. PICK P : Made(P, m)
    BY <1>3, <2>1
  <2> DEFINE Q == [k \in 0..(m + 1) |-> IF k <= m THEN P[k] ELSE P[m] \o seqs[m + 1]]
  <2>3. Q[0] = <<>>
    BY <2>2
  <2>4. P[m] \o seqs[m + 1] \in Seq(T)
    <3>1. P[m] \in Seq(T) /\ seqs[m + 1] \in Seq(T)
      BY <1>1, <2>1, <2>2
    <3> QED BY <3>1
  <2>5. \A k \in 0..(m + 1) : Q[k] \in Seq(T)
    <3> SUFFICES ASSUME NEW k \in 0..(m + 1) PROVE Q[k] \in Seq(T)
      OBVIOUS
    <3>1. CASE k <= m
      <4>1. k \in 0..m
        BY <3>1
      <4> QED BY <2>2, <3>1, <4>1
    <3> QED BY <2>4, <3>1
  <2>6. \A k \in 0..((m + 1) - 1) : Q[k + 1] = Q[k] \o seqs[k + 1]
    <3> SUFFICES ASSUME NEW k \in 0..m PROVE Q[k + 1] = Q[k] \o seqs[k + 1]
      <4>1. (m + 1) - 1 = m
        OBVIOUS
      <4> HIDE DEF Q
      <4> QED BY <4>1
    <3>1. k \in 0..(m + 1) /\ k + 1 \in 0..(m + 1) /\ k <= m
      OBVIOUS
    <3>2. CASE k = m
      <4>1. ~(k + 1 <= m)
        BY <3>2
      <4>2. Q[k + 1] = P[m] \o seqs[m + 1] /\ Q[k] = P[m]
        BY <3>1, <3>2, <4>1
      <4> QED BY <3>2, <4>2
    <3>3. CASE k # m
      <4>1. k \in 0..(m - 1) /\ k + 1 <= m
        BY <3>3
      <4>2. Q[k + 1] = P[k + 1] /\ Q[k] = P[k]
        BY <3>1, <4>1
      <4> QED BY <2>2, <4>1, <4>2
    <3> QED BY <3>2, <3>3
  <2>7. Made(Q, m + 1)
    BY <2>3, <2>5, <2>6
  <2> HIDE DEF Made
  <2> QED BY <2>7
<1>4. Nat \subseteq S
  <2> HIDE DEF S
  <2> QED BY <1>2, <1>3, SetInduction
<1>5. PICK P : Made(P, n)
  <2>1. n \in S
    BY <1>1, <1>4
  <2>2. n <= n
    BY <1>1
  <2> HIDE DEF Made
  <2> QED BY <2>1, <2>2
<1>6. Grows(T, P, seqs)
  BY <1>5 DEF Grows, n
<1> QED BY <1>6

\* One row after the other.
LEMMA FlattenCat ==
    ASSUME NEW T, NEW a \in Seq(Seq(T)), NEW b \in Seq(Seq(T))
    PROVE  /\ FlattenSeq(a) \in Seq(T)
           /\ FlattenSeq(a \o b) = FlattenSeq(a) \o FlattenSeq(b)
<1> DEFINE m == Len(a)
           n == Len(b)
           c == a \o b
<1>1. m \in Nat /\ n \in Nat /\ c \in Seq(Seq(T)) /\ Len(c) = m + n
      /\ (\A i \in 1..m : c[i] = a[i]) /\ \A i \in 1..n : c[m + i] = b[i]
  BY CatElements
<1>2. PICK P : Grows(T, P, a)
  BY GrowsExists
<1>3. PICK R : Grows(T, R, b)
  BY GrowsExists
<1>4. /\ P[0] = <<>> /\ \A k \in 0..m : P[k] \in Seq(T)
      /\ \A k \in 0..(m - 1) : P[k + 1] = P[k] \o a[k + 1]
  BY <1>2 DEF Grows
<1>5. /\ R[0] = <<>> /\ \A k \in 0..n : R[k] \in Seq(T)
      /\ \A k \in 0..(n - 1) : R[k + 1] = R[k] \o b[k + 1]
  BY <1>3 DEF Grows
<1> DEFINE Q == [k \in 0..(m + n) |-> IF k <= m THEN P[k] ELSE P[m] \o R[k - m]]
<1>6. FlattenSeq(a) = P[m] /\ FlattenSeq(b) = R[n]
  BY <1>2, <1>3, FlattenSteps
<1>7. \A i \in 1..n : b[i] \in Seq(T)
  OBVIOUS
<1> HIDE DEF m, n, c
<1>8. P[m] \in Seq(T) /\ R[n] \in Seq(T)
  <2>1. m \in 0..m /\ n \in 0..n
    BY <1>1
  <2> QED BY <1>4, <1>5, <2>1
<1>9. ASSUME NEW k \in 0..n PROVE Q[m + k] = P[m] \o R[k] /\ m + k \in 0..(m + n)
  <2>1. m + k \in 0..(m + n) /\ (m + k) - m = k
    BY <1>1
  <2>2. CASE k = 0
    <3>1. m + k = m /\ m <= m
      BY <1>1, <2>2
    <3>2. P[m] \o <<>> = P[m]
      BY <1>8
    <3> QED BY <1>5, <2>1, <2>2, <3>1, <3>2
  <2>3. CASE k # 0
    <3>1. ~(m + k <= m)
      BY <1>1, <2>3
    <3> QED BY <2>1, <3>1
  <2> QED BY <2>2, <2>3
<1>10. ASSUME NEW k \in 0..m PROVE Q[k] = P[k]
  <2>1. k \in 0..(m + n) /\ k <= m
    BY <1>1
  <2> QED BY <2>1
<1> HIDE DEF Q
<1>11. \A k \in 0..(m + n) : k \in 0..m \/ \E l \in 0..n : k = m + l /\ l = k - m
  <2>1. \A k \in 0..(m + n) : k > m => k - m \in 0..n /\ k = m + (k - m)
    BY <1>1
  <2>2. \A k \in 0..(m + n) : k > m \/ k \in 0..m
    BY <1>1
  <2> QED BY <2>1, <2>2
<1>12. \A k \in 0..(m + n) : Q[k] \in Seq(T)
  <2> SUFFICES ASSUME NEW k \in 0..(m + n) PROVE Q[k] \in Seq(T)
    OBVIOUS
  <2>1. CASE k \in 0..m
    BY <1>4, <1>10, <2>1
  <2>2. CASE k \notin 0..m
    <3>1. PICK l \in 0..n : k = m + l
      BY <1>11, <2>2
    <3>2. Q[k] = P[m] \o R[l] /\ R[l] \in Seq(T)
      BY <1>5, <1>9, <3>1
    <3> QED BY <1>8, <3>2
  <2> QED BY <2>1, <2>2
<1>13. \A k \in 0..((m + n) - 1) : Q[k + 1] = Q[k] \o c[k + 1]
  <2> SUFFICES ASSUME NEW k \in 0..((m + n) - 1) PROVE Q[k + 1] = Q[k] \o c[k + 1]
    OBVIOUS
  <2>1. CASE k < m
    <3>1. k \in 0..m /\ k + 1 \in 0..m /\ k \in 0..(m - 1) /\ k + 1 \in 1..m
      BY <1>1, <2>1
    <3> QED BY <1>1, <1>4, <1>10, <3>1
  <2>2. CASE ~(k < m)
    <3> DEFINE l == k - m
    <3>1. l \in 0..(n - 1) /\ l \in 0..n /\ l + 1 \in 0..n /\ l + 1 \in 1..n
          /\ k = m + l /\ k + 1 = m + (l + 1)
      BY <1>1, <2>2
    <3> HIDE DEF l
    <3>2. Q[k + 1] = P[m] \o R[l + 1] /\ Q[k] = P[m] \o R[l] /\ c[k + 1] = b[l + 1]
      BY <1>1, <1>9, <3>1
    <3>3. R[l + 1] = R[l] \o b[l + 1] /\ R[l] \in Seq(T) /\ b[l + 1] \in Seq(T)
      BY <1>5, <1>7, <3>1
    <3>4. P[m] \o (R[l] \o b[l + 1]) = (P[m] \o R[l]) \o b[l + 1]
      <4>1. \A x, y, z \in Seq(T) : x \o (y \o z) = (x \o y) \o z
        BY ConcatAssociative
      <4> QED BY <1>8, <3>3, <4>1
    <3> QED BY <3>2, <3>3, <3>4
  <2> QED BY <2>1, <2>2
<1>14. Q[0] = <<>>
  <2>1. 0 \in 0..m
    BY <1>1
  <2> QED BY <1>4, <1>10, <2>1
<1>15. Grows(T, Q, c)
  BY <1>1, <1>12, <1>13, <1>14 DEF Grows
<1>16. FlattenSeq(c) = Q[m + n]
  <2>1. FlattenSeq(c) = Q[Len(c)]
    BY <1>15, FlattenSteps
  <2> QED BY <1>1, <2>1
<1>17. Q[m + n] = P[m] \o R[n]
  <2>1. n \in 0..n
    BY <1>1
  <2> QED BY <1>9, <2>1
<1> QED BY <1>6, <1>8, <1>16, <1>17 DEF c

\* No list, one list, and lists without elements.
LEMMA FlattenFew ==
    ASSUME NEW T
    PROVE  /\ FlattenSeq(<<>>) = <<>>
           /\ \A x \in Seq(T) : FlattenSeq(<<x>>) = x
<1>1. FlattenSeq(<<>>) = <<>>
  BY DEF FlattenSeq
<1>2. ASSUME NEW x \in Seq(T) PROVE FlattenSeq(<<x>>) = x
  <2> DEFINE P == [k \in 0..1 |-> IF k = 0 THEN <<>> ELSE x]
  <2>1. <<x>> \in Seq(Seq(T)) /\ Len(<<x>>) = 1 /\ <<x>>[1] = x
    OBVIOUS
  <2>2. P[0] = <<>> /\ P[1] = x /\ <<>> \o x = x
    OBVIOUS
  <2>3. \A k \in 0..1 : P[k] \in Seq(T)
    OBVIOUS
  <2>4. \A k \in 0..(1 - 1) : k = 0 /\ k + 1 = 1
    OBVIOUS
  <2> HIDE DEF P
  <2>5. Grows(T, P, <<x>>)
    BY <2>1, <2>2, <2>3, <2>4 DEF Grows
  <2> QED BY <2>1, <2>2, <2>5, FlattenSteps
<1> QED BY <1>1, <1>2

\* Lists that are all empty.
LEMMA FlattenEmpty ==
    ASSUME NEW seqs, NEW n \in Nat, DOMAIN seqs = 1..n, seqs = [i \in 1..n |-> <<>>]
    PROVE  FlattenSeq(seqs) = <<>>
<1> DEFINE P == [k \in 0..n |-> <<>>]
<1>1. seqs \in Seq(Seq({})) /\ Len(seqs) = n /\ \A i \in 1..n : seqs[i] = <<>>
  OBVIOUS
<1>2. \A k \in 0..n : P[k] = <<>> /\ P[k] \in Seq({})
  OBVIOUS
<1>3. \A k \in 0..(n - 1) : k \in 0..n /\ k + 1 \in 0..n /\ k + 1 \in 1..n
  OBVIOUS
<1>4. 0 \in 0..n /\ n \in 0..n /\ <<>> \o <<>> = <<>>
  OBVIOUS
<1> HIDE DEF P
<1>5. Grows({}, P, seqs)
  BY <1>1, <1>2, <1>3, <1>4 DEF Grows
<1> QED BY <1>1, <1>2, <1>4, <1>5, FlattenSteps

\* The lists that g makes of the elements of s, one after the other.
Mapped(g, s) == FlattenSeq([i \in DOMAIN s |-> g[s[i]]])

\* A name for what the provers would take apart.
Cat(a, b) == a \o b

\* What is made of two rows of elements is made of the one and then of the other.
LEMMA FlattenMapped ==
    ASSUME NEW F, NEW T, NEW g \in [F -> Seq(T)], NEW s \in Seq(F), NEW t \in Seq(F)
    PROVE  Mapped(g, s) \in Seq(T) /\ Mapped(g, Cat(s, t)) = Cat(Mapped(g, s), Mapped(g, t))
<1> DEFINE U == Seq(T)
           a == [i \in DOMAIN s |-> g[s[i]]]
           b == [i \in DOMAIN t |-> g[t[i]]]
           c == [i \in DOMAIN (s \o t) |-> g[(s \o t)[i]]]
<1> HIDE DEF U
<1>0. g \in [F -> U]
  BY DEF U
<1>1. /\ s \o t \in Seq(F) /\ DOMAIN (s \o t) = 1..(Len(s) + Len(t))
      /\ DOMAIN s = 1..Len(s) /\ DOMAIN t = 1..Len(t) /\ Len(s) \in Nat /\ Len(t) \in Nat
      /\ \A i \in 1..Len(s) : (s \o t)[i] = s[i]
      /\ \A i \in 1..Len(t) : (s \o t)[Len(s) + i] = t[i]
  BY ONLY s \in Seq(F), t \in Seq(F), CatElements
<1>2. a \in Seq(U) /\ b \in Seq(U) /\ Len(a) = Len(s) /\ Len(b) = Len(t)
  <2>1. \A x \in Seq(F) : /\ [i \in DOMAIN x |-> g[x[i]]] \in Seq(U)
                           /\ Len([i \in DOMAIN x |-> g[x[i]]]) = Len(x)
    <3> HIDE DEF a, b, c
    <3> SUFFICES ASSUME NEW x \in Seq(F)
                 PROVE  /\ [i \in DOMAIN x |-> g[x[i]]] \in Seq(U)
                        /\ Len([i \in DOMAIN x |-> g[x[i]]]) = Len(x)
      OBVIOUS
    <3> DEFINE n == Len(x)
               h == [i \in 1..n |-> g[x[i]]]
    <3>1. /\ n \in Nat /\ [i \in DOMAIN x |-> g[x[i]]] = h
          /\ \A i \in 1..n : g[x[i]] \in U
      BY <1>0
    <3> HIDE DEF n
    <3>2. h \in Seq(U) /\ Len(h) = n
      BY ONLY <3>1
    <3> QED BY <3>1, <3>2 DEF n
  <2> QED BY ONLY <2>1, s \in Seq(F), t \in Seq(F)
<1>3. c = a \o b
  <2>1. /\ DOMAIN (a \o b) = 1..(Len(a) + Len(b))
        /\ \A i \in 1..Len(a) : (a \o b)[i] = a[i]
        /\ \A i \in 1..Len(b) : (a \o b)[Len(a) + i] = b[i]
    <3>1. \A x, y \in Seq(U) :
             /\ DOMAIN (x \o y) = 1..(Len(x) + Len(y))
             /\ \A i \in 1..Len(x) : (x \o y)[i] = x[i]
             /\ \A i \in 1..Len(y) : (x \o y)[Len(x) + i] = y[i]
      BY ONLY CatElements
    <3> HIDE DEF a, b
    <3> QED BY ONLY <1>2, <3>1
  <2>2. DOMAIN c = 1..(Len(s) + Len(t))
    BY <1>1
  <2>3. ASSUME NEW i \in 1..(Len(s) + Len(t)) PROVE c[i] = (a \o b)[i]
    <3>1. CASE i \in 1..Len(s)
      <4>1. c[i] = g[s[i]] /\ a[i] = g[s[i]]
        BY <1>1, <3>1
      <4> HIDE DEF a, b, c
      <4> QED BY <1>2, <2>1, <3>1, <4>1
    <3>2. CASE i \notin 1..Len(s)
      <4>0. i \in DOMAIN (s \o t)
        BY <1>1
      <4>1. PICK k \in 1..Len(t) : i = Len(s) + k
        <5>1. \A x, y \in Seq(F) : \A j \in DOMAIN (x \o y) :
                 j \in 1..Len(x) \/ \E k \in 1..Len(y) : j = Len(x) + k
          BY ONLY CatIndex
        <5> HIDE DEF a, b, c
        <5> QED BY ONLY <3>2, <4>0, <5>1, s \in Seq(F), t \in Seq(F)
      <4>2. c[i] = g[t[k]] /\ b[k] = g[t[k]]
        BY <1>1, <4>1
      <4> HIDE DEF a, b, c
      <4> QED BY <1>2, <2>1, <4>1, <4>2
    <3> QED BY <3>1, <3>2
  <2>4. a \o b = [i \in 1..(Len(a) + Len(b)) |-> (a \o b)[i]]
    <3> DEFINE d == a \o b
               n == Len(a) + Len(b)
    <3>1. d \in Seq(U) /\ DOMAIN d = 1..n
      <4> HIDE DEF a, b
      <4> QED BY <1>2, <2>1
    <3> HIDE DEF d, n
    <3>2. d = [i \in 1..n |-> d[i]]
      BY ONLY <3>1
    <3> QED BY <3>2 DEF d, n
  <2>5. c = [i \in 1..(Len(s) + Len(t)) |-> c[i]]
    BY <2>2
  <2> HIDE DEF a, b, c
  <2> QED BY <1>2, <2>3, <2>4, <2>5
<1> HIDE DEF a, b, c
<1>4. FlattenSeq(a) \in Seq(T) /\ FlattenSeq(a \o b) = FlattenSeq(a) \o FlattenSeq(b)
  <2>1. a \in Seq(Seq(T)) /\ b \in Seq(Seq(T))
    BY <1>2 DEF U
  <2> QED BY ONLY <2>1, FlattenCat
<1> QED BY <1>3, <1>4 DEF a, b, c, Mapped, Cat
=============================================================================
