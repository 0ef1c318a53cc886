-------------------------- MODULE SelectionsProofs --------------------------
(***************************************************************************)
(* What KeepAt keeps, for every sequence and every set of places.  The     *)
(* facts are proved by induction over the length, which is reduced to the  *)
(* well-foundedness of < on the natural numbers: a set of numbers takes    *)
(* the place of the predicate.                                             *)
(***************************************************************************)
EXTENDS Selections, Integers, WellFoundedInduction, TLAPS

\* A set of natural numbers that is not empty has a least element.
LEMMA LeastElement ==
    ASSUME NEW S \in SUBSET Nat, S # {}
    PROVE  \E m \in S : \A k \in S : m <= k
<1> DEFINE R == OpToRel(<, Nat)
<1>1. IsWellFoundedOn(R, Nat)
  BY NatLessThanWellFounded, Zenon
<1>2. \A x, y \in Nat : x < y => <<x, y>> \in R
  BY DEF OpToRel
<1> HIDE DEF R
<1>3. PICK m \in S : \A k \in S : <<k, m>> \notin R
  BY <1>1, WFMin
<1>4. \A k \in S : ~(k < m)
  BY <1>2, <1>3
<1> QED
  BY <1>3, <1>4

\* A set that holds 0 and with every number the next one holds all of them.
LEMMA Induction ==
    ASSUME NEW S \in SUBSET Nat, 0 \in S, \A n \in S : n + 1 \in S
    PROVE  S = Nat
<1> SUFFICES ASSUME NEW n \in Nat, n \notin S PROVE FALSE
  OBVIOUS
<1>1. PICK m \in Nat \ S : \A k \in Nat \ S : m <= k
  BY LeastElement
<1>2. m - 1 \in Nat /\ m = (m - 1) + 1
  BY <1>1
<1>3. m - 1 \in S
  BY <1>1, <1>2
<1> QED
  BY <1>1, <1>2, <1>3

-----------------------------------------------------------------------------
(* KeepAt as a recursion *)

\* f is the function that KeepAt computes, up to the n-th place.
Keeps(f, s, places, n) ==
    f = [i \in 0 .. n |->
            IF i = 0 THEN <<>>
            ELSE IF i \in places THEN Append(f[i - 1], s[i])
            ELSE f[i - 1]]

\* There is such a function.
LEMMA KeepsExists ==
    ASSUME NEW s, NEW places, NEW N \in Nat
    PROVE  \E f : Keeps(f, s, places, N)
<1> DEFINE S == {n \in Nat : \E f : Keeps(f, s, places, n)}
<1>1. 0 \in S
  <2> DEFINE f == [i \in 0 .. 0 |-> <<>>]
  <2>1. Keeps(f, s, places, 0)
    BY DEF Keeps
  <2> QED
    BY <2>1
<1>2. ASSUME NEW n \in S PROVE n + 1 \in S
  <2>1. PICK f : Keeps(f, s, places, n)
    OBVIOUS
  <2> DEFINE last == IF n + 1 \in places THEN Append(f[n], s[n + 1]) ELSE f[n]
             g == [i \in 0 .. n + 1 |-> IF i = n + 1 THEN last ELSE f[i]]
  <2>2. ASSUME NEW i \in 0 .. n + 1
        PROVE  g[i] = IF i = 0 THEN <<>>
                      ELSE IF i \in places THEN Append(g[i - 1], s[i])
                      ELSE g[i - 1]
    <3>1. CASE i = n + 1
      <4>1. g[i] = last /\ g[i - 1] = f[n] /\ i # 0
        BY <3>1
      <4> QED
        BY <3>1, <4>1
    <3>2. CASE i # n + 1
      <4>1. i \in 0 .. n /\ g[i] = f[i] /\ (i # 0 => g[i - 1] = f[i - 1])
        BY <3>2
      <4>2. f[i] = IF i = 0 THEN <<>>
                   ELSE IF i \in places THEN Append(f[i - 1], s[i])
                   ELSE f[i - 1]
        BY <2>1, <4>1 DEF Keeps
      <4> HIDE DEF g
      <4> QED
        BY <4>1, <4>2
    <3> QED
      BY <3>1, <3>2
  <2>3. g = [i \in 0 .. n + 1 |-> g[i]]
    OBVIOUS
  <2> HIDE DEF g
  <2>4. Keeps(g, s, places, n + 1)
    BY <2>2, <2>3 DEF Keeps
  <2> QED
    BY <2>4
<1> HIDE DEF S
<1>3. S = Nat
  <2>1. S \in SUBSET Nat
    BY DEF S
  <2> QED
    BY <1>1, <1>2, <2>1, Induction
<1> QED
  BY <1>3 DEF S

\* KeepAt is the last value of a function that follows the recursion.
LEMMA KeepAtSteps ==
    ASSUME NEW s, NEW places, Len(s) \in Nat
    PROVE  \E f : /\ KeepAt(s, places) = f[Len(s)]
                  /\ f[0] = <<>>
                  /\ \A i \in 1 .. Len(s) :
                        f[i] = IF i \in places THEN Append(f[i - 1], s[i])
                               ELSE f[i - 1]
<1> DEFINE f == CHOOSE f : Keeps(f, s, places, Len(s))
<1>1. Keeps(f, s, places, Len(s))
  BY KeepsExists, Zenon
<1>2. KeepAt(s, places) = f[Len(s)]
  BY Zenon DEF KeepAt, Keeps
<1> HIDE DEF f
<1>3. f[0] = <<>>
  BY <1>1 DEF Keeps
<1>4. ASSUME NEW i \in 1 .. Len(s)
      PROVE  f[i] = IF i \in places THEN Append(f[i - 1], s[i]) ELSE f[i - 1]
  <2>1. i \in 0 .. Len(s) /\ i # 0
    OBVIOUS
  <2> QED
    BY <1>1, <2>1 DEF Keeps
<1> QED
  BY <1>2, <1>3, <1>4

-----------------------------------------------------------------------------
(* What is kept *)

\* t has the elements of s at the places up to n, in order: g says which of them
\* stands where.
Selects(g, t, s, places, n) ==
    /\ g \in [1 .. Len(t) -> {p \in places : 1 <= p /\ p <= n}]
    /\ \A k, l \in 1 .. Len(t) : k < l => g[k] < g[l]
    /\ \A p \in places : (1 <= p /\ p <= n) => \E k \in 1 .. Len(t) : g[k] = p
    /\ \A k \in 1 .. Len(t) : t[k] = s[g[k]]

\* One place more.
LEMMA SelectsNext ==
    ASSUME NEW E, NEW s \in Seq(E), NEW places \in SUBSET Nat, NEW n \in Nat,
           n + 1 <= Len(s), NEW t \in Seq(E), NEW g, Selects(g, t, s, places, n),
           NEW u, u = IF n + 1 \in places THEN Append(t, s[n + 1]) ELSE t
    PROVE  u \in Seq(E) /\ \E h : Selects(h, u, s, places, n + 1)
<1>1. CASE n + 1 \notin places
  <2>1. \A p \in places : p <= n + 1 <=> p <= n
    BY <1>1
  <2>2. {p \in places : 1 <= p /\ p <= n + 1} = {p \in places : 1 <= p /\ p <= n}
    BY <2>1
  <2>3. Selects(g, t, s, places, n + 1)
    BY <2>1, <2>2 DEF Selects
  <2> QED
    BY <1>1, <2>3
<1>2. CASE n + 1 \in places
  <2> DEFINE m == Len(t)
             h == [k \in 1 .. m + 1 |-> IF k = m + 1 THEN n + 1 ELSE g[k]]
  <2>0. m \in Nat /\ s[n + 1] \in E
    OBVIOUS
  <2>1. /\ u \in Seq(E) /\ Len(u) = m + 1
        /\ \A k \in 1 .. m : u[k] = t[k]
        /\ u[m + 1] = s[n + 1]
    BY <1>2, <2>0
  <2>2. \A k \in 1 .. m : /\ g[k] \in places /\ g[k] \in Nat
                          /\ 1 <= g[k] /\ g[k] <= n
    BY DEF Selects
  <2>3. \A k \in 1 .. m : h[k] = g[k] /\ k # m + 1
    BY <2>0
  <2>4. h[m + 1] = n + 1
    BY <2>0
  <2>5. ASSUME NEW k \in 1 .. m + 1
        PROVE  h[k] \in {p \in places : 1 <= p /\ p <= n + 1}
    <3>1. CASE k = m + 1
      BY <1>2, <2>4, <3>1
    <3>2. CASE k \in 1 .. m
      <4>1. h[k] = g[k] /\ g[k] \in places /\ 1 <= g[k] /\ g[k] <= n + 1
        BY <2>2, <2>3, <3>2
      <4> QED
        BY <4>1
    <3> QED
      BY <2>0, <3>1, <3>2
  <2>6. h \in [1 .. m + 1 -> {p \in places : 1 <= p /\ p <= n + 1}]
    BY <2>5
  <2> HIDE DEF h, m
  <2>7. ASSUME NEW k \in 1 .. m + 1, NEW l \in 1 .. m + 1, k < l
        PROVE  h[k] < h[l]
    <3>1. k \in 1 .. m
      BY <2>0, <2>7
    <3>2. CASE l = m + 1
      <4>1. h[k] \in Nat /\ h[k] <= n /\ h[l] = n + 1
        BY <2>2, <2>3, <2>4, <3>1, <3>2
      <4> QED
        BY <4>1
    <3>3. CASE l \in 1 .. m
      BY <2>3, <2>7, <3>1, <3>3 DEF Selects, m
    <3> QED
      BY <2>0, <3>2, <3>3
  <2>8. ASSUME NEW p \in places, 1 <= p, p <= n + 1
        PROVE  \E k \in 1 .. m + 1 : h[k] = p
    <3>1. CASE p = n + 1
      BY <2>0, <2>4, <3>1
    <3>2. CASE p # n + 1
      <4>1. PICK k \in 1 .. m : g[k] = p
        BY <2>8, <3>2 DEF Selects, m
      <4>2. k \in 1 .. m + 1 /\ h[k] = p
        BY <2>0, <2>3, <4>1
      <4> QED
        BY <4>2
    <3> QED
      BY <3>1, <3>2
  <2>9. ASSUME NEW k \in 1 .. m + 1 PROVE u[k] = s[h[k]]
    <3>1. CASE k = m + 1
      BY <2>1, <2>4, <3>1
    <3>2. CASE k \in 1 .. m
      BY <2>1, <2>3, <3>2 DEF Selects, m
    <3>3. k = m + 1 \/ k \in 1 .. m
      BY <2>0
    <3> QED
      BY <3>1, <3>2, <3>3
  <2>10. Selects(h, u, s, places, n + 1)
    BY <2>1, <2>6, <2>7, <2>8, <2>9 DEF Selects
  <2> QED
    BY <2>1, <2>10
<1> QED
  BY <1>1, <1>2

\* t has the elements of s at the places, in order and no others.
Chosen(g, t, s, places) ==
    /\ g \in [1 .. Len(t) -> places]
    /\ \A k, l \in 1 .. Len(t) : k < l => g[k] < g[l]
    /\ \A p \in places : \E k \in 1 .. Len(t) : g[k] = p
    /\ \A k \in 1 .. Len(t) : t[k] = s[g[k]]

\* That is what KeepAt computes.
LEMMA KeepAtChooses ==
    ASSUME NEW E, NEW s \in Seq(E), NEW places \in SUBSET (1 .. Len(s))
    PROVE  /\ KeepAt(s, places) \in Seq(E)
           /\ \E g : Chosen(g, KeepAt(s, places), s, places)
<1>0. Len(s) \in Nat /\ places \in SUBSET Nat
  OBVIOUS
<1>1. PICK f : /\ KeepAt(s, places) = f[Len(s)]
               /\ f[0] = <<>>
               /\ \A i \in 1 .. Len(s) :
                     f[i] = IF i \in places THEN Append(f[i - 1], s[i])
                            ELSE f[i - 1]
  <2>1. Len(s) \in Nat
    BY <1>0
  <2> QED
    BY <2>1, KeepAtSteps
<1> DEFINE Right(n) == f[n] \in Seq(E) /\ \E g : Selects(g, f[n], s, places, n)
           S == {n \in Nat : n <= Len(s) => Right(n)}
<1>2. 0 \in S
  <2> DEFINE g == [k \in 1 .. 0 |-> k]
  <2>1. Len(f[0]) = 0 /\ f[0] \in Seq(E)
    BY <1>1
  <2>2. 1 .. 0 = {} /\ g \in [1 .. 0 -> {p \in places : 1 <= p /\ p <= 0}]
    OBVIOUS
  <2>3. \A p \in places : ~(1 <= p /\ p <= 0)
    BY <1>0
  <2> HIDE DEF g
  <2>4. Selects(g, f[0], s, places, 0)
    BY <2>1, <2>2, <2>3 DEF Selects
  <2> QED
    BY <2>1, <2>4
<1>3. ASSUME NEW n \in S PROVE n + 1 \in S
  <2> SUFFICES ASSUME n + 1 <= Len(s) PROVE Right(n + 1)
    OBVIOUS
  <2>1. f[n] \in Seq(E) /\ n \in Nat
    BY <1>0
  <2>2. PICK g : Selects(g, f[n], s, places, n)
    BY <1>0
  <2>3. f[n + 1] = IF n + 1 \in places THEN Append(f[n], s[n + 1]) ELSE f[n]
    <3>1. n + 1 \in 1 .. Len(s) /\ (n + 1) - 1 = n
      BY <1>0, <2>1
    <3> QED
      BY <1>1, <3>1
  <2> QED
    BY <1>0, <2>1, <2>2, <2>3, SelectsNext
<1> HIDE DEF S
<1>4. S = Nat
  <2>1. S \in SUBSET Nat
    BY DEF S
  <2> QED
    BY <1>2, <1>3, <2>1, Induction
<1>5. Right(Len(s))
  BY <1>0, <1>4 DEF S
<1>6. PICK g : Selects(g, KeepAt(s, places), s, places, Len(s))
  BY <1>1, <1>5
<1>7. {p \in places : 1 <= p /\ p <= Len(s)} = places
  <2>1. \A p \in places : p \in 1 .. Len(s)
    OBVIOUS
  <2>2. \A p \in places : 1 <= p /\ p <= Len(s)
    BY <1>0, <2>1
  <2> QED
    BY <2>2, Zenon
<1>8. KeepAt(s, places) \in Seq(E)
  BY <1>1, <1>5
<1> HIDE DEF Right
<1> QED
  BY <1>6, <1>7, <1>8 DEF Selects, Chosen

\* The places that are kept, one after the other, and what lies between two of
\* them that are neighbours: nothing that is kept.
LEMMA ChosenOrder ==
    ASSUME NEW E, NEW s \in Seq(E), NEW places \in SUBSET (1 .. Len(s)),
           NEW t \in Seq(E), NEW g, Chosen(g, t, s, places)
    PROVE  /\ \A k \in 1 .. Len(t) : /\ g[k] \in places /\ g[k] \in 1 .. Len(s)
                                     /\ t[k] = s[g[k]]
           /\ \A k \in 2 .. Len(t) :
                 /\ g[k - 1] < g[k]
                 /\ \A p \in places : ~(g[k - 1] < p /\ p < g[k])
<1>0. Len(t) \in Nat /\ Len(s) \in Nat
  OBVIOUS
<1>1. ASSUME NEW k \in 1 .. Len(t)
      PROVE  /\ g[k] \in places /\ g[k] \in 1 .. Len(s) /\ t[k] = s[g[k]]
  BY DEF Chosen
<1>2. ASSUME NEW k \in 2 .. Len(t)
      PROVE  /\ g[k - 1] < g[k]
             /\ \A p \in places : ~(g[k - 1] < p /\ p < g[k])
  <2>1. k \in 1 .. Len(t) /\ k - 1 \in 1 .. Len(t) /\ k - 1 < k
    BY <1>0
  <2>2. g[k - 1] < g[k]
    BY <2>1 DEF Chosen
  <2>3. ASSUME NEW p \in places, g[k - 1] < p, p < g[k] PROVE FALSE
    <3>1. PICK l \in 1 .. Len(t) : g[l] = p
      BY DEF Chosen
    <3>2. g[l] \in Nat /\ g[k] \in Nat /\ g[k - 1] \in Nat
      BY <1>0, <1>1, <2>1
    <3>3. CASE l <= k - 1
      <4>1. l = k - 1 \/ g[l] < g[k - 1]
        BY <2>1, <3>3 DEF Chosen
      <4> QED
        BY <2>3, <3>1, <3>2, <4>1
    <3>4. CASE l >= k
      <4>1. l = k \/ g[k] < g[l]
        BY <2>1, <3>4 DEF Chosen
      <4> QED
        BY <2>3, <3>1, <3>2, <4>1
    <3> QED
      BY <1>0, <2>1, <3>3, <3>4
  <2> QED
    BY <2>2, <2>3
<1> QED
  BY <1>1, <1>2

\* Nothing is left out when every place is kept.
LEMMA KeepAtAll ==
    ASSUME NEW E, NEW s \in Seq(E)
    PROVE  KeepAt(s, 1 .. Len(s)) = s
<1> DEFINE t == KeepAt(s, 1 .. Len(s))
           N == Len(s)
<1>0. N \in Nat
  OBVIOUS
<1>1. PICK f : /\ t = f[N]
               /\ f[0] = <<>>
               /\ \A i \in 1 .. N : f[i] = IF i \in 1 .. N
                                           THEN Append(f[i - 1], s[i])
                                           ELSE f[i - 1]
  BY <1>0, KeepAtSteps, Zenon
<1> DEFINE Right(n) == /\ f[n] \in Seq(E) /\ Len(f[n]) = n
                       /\ \A i \in 1 .. n : f[n][i] = s[i]
           S == {n \in Nat : n <= N => Right(n)}
<1> HIDE DEF t, N
<1>2. 0 \in S
  <2>1. f[0] \in Seq(E) /\ Len(f[0]) = 0 /\ 1 .. 0 = {}
    BY <1>1
  <2>2. Right(0)
    BY <2>1
  <2> QED
    BY <2>2
<1>3. ASSUME NEW n \in S PROVE n + 1 \in S
  <2> SUFFICES ASSUME n + 1 <= N PROVE Right(n + 1)
    OBVIOUS
  <2>1. n \in Nat /\ Right(n)
    BY <1>0
  <2>2. f[n + 1] = Append(f[n], s[n + 1]) /\ s[n + 1] \in E
    <3>1. n + 1 \in 1 .. N /\ (n + 1) - 1 = n
      BY <1>0, <2>1
    <3> QED
      BY <1>1, <3>1 DEF N
  <2> QED
    BY <2>1, <2>2
<1> HIDE DEF S
<1>4. S = Nat
  <2>1. S \in SUBSET Nat
    BY DEF S
  <2> QED
    BY <1>2, <1>3, <2>1, Induction
<1>5. Right(N)
  BY <1>0, <1>4 DEF S
<1>6. t \in Seq(E) /\ Len(t) = Len(s) /\ \A i \in 1 .. Len(s) : t[i] = s[i]
  BY <1>1, <1>5 DEF N
<1>7. t = s
  BY <1>6
<1> QED
  BY <1>7 DEF t

=============================================================================
