-------------------------- MODULE ApiRequestsProofs --------------------------
(***************************************************************************)
(* Proofs about ApiRequests, for any clients, requests and stored rows and *)
(* any number of faults: the answers of the API are true and the tables    *)
(* stay consistent.                                                        *)
(*                                                                         *)
(* None of the properties is inductive.  What is missing is what a request *)
(* knows between two statements although it holds nothing but its          *)
(* transaction (Known): that an upload under the advisory lock has seen    *)
(* all versions of its project, that the source of a publish job, read     *)
(* before the transaction, is over and cannot change, that the row which   *)
(* won the race for a key is still there, and that an insertion waiting to *)
(* be committed clashes with nothing.                                      *)
(***************************************************************************)
EXTENDS ApiRequests, SelectionsProofs, FiniteSetTheorems, TLAPS

-----------------------------------------------------------------------------
(* Normal texts.  A normal text has no carriage return, no tab, no two      *)
(* spaces and no three line feeds in a row, and no white space at its ends.  *)

\* The provers do not know that a literal is a string: the two that the passes
\* put in are added.
Char == STRING \union {" ", "lf"}

NoReturns(t) == \A i \in 1 .. Len(t) : t[i] # "cr"

SpacesSingle(t) ==
    /\ \A i \in 1 .. Len(t) : t[i] # "tab"
    /\ \A i \in 2 .. Len(t) : ~(t[i - 1] \in Blank /\ t[i] \in Blank)

FeedsDouble(t) ==
    \A i \in 3 .. Len(t) : ~(t[i - 2] = "lf" /\ t[i - 1] = "lf" /\ t[i] = "lf")

EndsBlack(t) == t # <<>> => t[1] \notin White /\ t[Len(t)] \notin White

Normal(t) ==
    /\ t \in Seq(Char)
    /\ NoReturns(t) /\ SpacesSingle(t) /\ FeedsDouble(t) /\ EndsBlack(t)

\* A function on the first n numbers is a sequence.
LEMMA FunctionSeq ==
    ASSUME NEW E, NEW n \in Nat, NEW u \in [1 .. n -> E]
    PROVE  u \in Seq(E) /\ Len(u) = n
OBVIOUS

\* The first two passes leave a text without carriage returns.
LEMMA LineFeedsNormal ==
    ASSUME NEW s \in Seq(Char)
    PROVE  LineFeeds(s) \in Seq(Char) /\ NoReturns(LineFeeds(s))
<1> DEFINE alone == {i \in 1 .. Len(s) :
                       ~(s[i] = "cr" /\ i < Len(s) /\ s[i + 1] = "lf")}
           t == KeepAt(s, alone)
           u == [i \in 1 .. Len(t) |-> IF t[i] = "cr" THEN "lf" ELSE t[i]]
<1>1. t \in Seq(Char)
  BY KeepAtChooses
<1>2. LineFeeds(s) = u
  BY DEF LineFeeds
<1> HIDE DEF t
<1>3. Len(t) \in Nat /\ \A i \in 1 .. Len(t) : t[i] \in Char
  BY <1>1
<1>4. ASSUME NEW i \in 1 .. Len(t) PROVE u[i] \in Char /\ u[i] # "cr"
  <2>1. u[i] = IF t[i] = "cr" THEN "lf" ELSE t[i]
    OBVIOUS
  <2>2. t[i] \in Char /\ "lf" \in Char /\ "lf" # "cr"
    BY <1>3 DEF Char
  <2> HIDE DEF u
  <2>3. CASE t[i] = "cr"
    BY <2>1, <2>2, <2>3
  <2>4. CASE t[i] # "cr"
    BY <2>1, <2>2, <2>4
  <2> QED
    BY <2>3, <2>4
<1>5. u \in [1 .. Len(t) -> Char]
  BY <1>4
<1> HIDE DEF u
<1>6. u \in Seq(Char) /\ Len(u) = Len(t)
  BY <1>3, <1>5, FunctionSeq
<1>7. NoReturns(u)
  BY <1>4, <1>6 DEF NoReturns
<1> QED
  BY <1>2, <1>6, <1>7

\* The pass over the spaces leaves single ones.
LEMMA SingleSpacesNormal ==
    ASSUME NEW s \in Seq(Char), NoReturns(s)
    PROVE  LET u == SingleSpaces(s) IN
           u \in Seq(Char) /\ NoReturns(u) /\ SpacesSingle(u)
<1> DEFINE first == {i \in 1 .. Len(s) :
                       ~(s[i] \in Blank /\ i > 1 /\ s[i - 1] \in Blank)}
           t == KeepAt(s, first)
           u == [i \in 1 .. Len(t) |-> IF t[i] \in Blank THEN " " ELSE t[i]]
<1>p. first \in SUBSET (1 .. Len(s))
  OBVIOUS
<1>4. SingleSpaces(s) = u
  BY DEF SingleSpaces
<1> HIDE DEF first
<1>1. t \in Seq(Char) /\ \E g : Chosen(g, t, s, first)
  BY <1>p, KeepAtChooses
<1> HIDE DEF t
<1>2. PICK g : Chosen(g, t, s, first)
  BY <1>1
<1>3. /\ \A k \in 1 .. Len(t) : /\ g[k] \in first /\ g[k] \in 1 .. Len(s)
                                /\ t[k] = s[g[k]]
      /\ \A k \in 2 .. Len(t) :
            /\ g[k - 1] < g[k]
            /\ \A p \in first : ~(g[k - 1] < p /\ p < g[k])
  BY <1>p, <1>1, <1>2, ChosenOrder
<1>e. /\ Len(t) \in Nat
      /\ \A i \in 1 .. Len(t) : t[i] \in Char /\ t[i] # "cr"
  BY <1>1, <1>3 DEF NoReturns
<1>6. ASSUME NEW i \in 1 .. Len(t)
      PROVE  /\ u[i] \in Char /\ u[i] # "cr" /\ u[i] # "tab"
             /\ (u[i] \in Blank => t[i] \in Blank)
  <2>1. u[i] = IF t[i] \in Blank THEN " " ELSE t[i]
    OBVIOUS
  <2>2. t[i] \in Char /\ t[i] # "cr" /\ (t[i] \notin Blank => t[i] # "tab")
    BY <1>e DEF Blank
  <2>3. " " \in Char /\ " " # "cr" /\ " " # "tab"
    BY DEF Char
  <2> HIDE DEF u
  <2>4. CASE t[i] \in Blank
    BY <2>1, <2>3, <2>4
  <2>5. CASE t[i] \notin Blank
    BY <2>1, <2>2, <2>5
  <2> QED
    BY <2>4, <2>5
<1>d. u \in [1 .. Len(t) -> Char]
  BY <1>6
<1> HIDE DEF u
<1>5. u \in Seq(Char) /\ Len(u) = Len(t)
  BY <1>e, <1>d, FunctionSeq
<1>7. ASSUME NEW i \in 2 .. Len(t), u[i - 1] \in Blank, u[i] \in Blank
      PROVE  FALSE
  <2>0. Len(t) \in Nat /\ Len(s) \in Nat
    BY <1>1
  <2>1. i \in 1 .. Len(t) /\ i - 1 \in 1 .. Len(t)
    BY <2>0
  <2>2. t[i] \in Blank /\ t[i - 1] \in Blank
    BY <1>6, <1>7, <2>1
  <2>3. PICK p \in first, q \in first :
           /\ p = g[i - 1] /\ q = g[i] /\ p < q
           /\ s[p] \in Blank /\ s[q] \in Blank
           /\ \A r \in first : ~(p < r /\ r < q)
    BY <1>3, <2>1, <2>2
  <2>4. q > 1 /\ q - 1 \in 1 .. Len(s) /\ s[q - 1] \notin Blank
    <3>1. p \in 1 .. Len(s) /\ q \in 1 .. Len(s)
      BY <1>p
    <3>2. q > 1 /\ q - 1 \in 1 .. Len(s)
      BY <2>0, <2>3, <3>1
    <3> QED
      BY <2>3, <3>2 DEF first
  <2>5. q - 1 \in first
    BY <2>0, <2>4 DEF first
  <2>6. p # q - 1
    BY <2>3, <2>4
  <2> QED
    <3>1. p \in 1 .. Len(s) /\ q \in 1 .. Len(s)
      BY <1>p
    <3>2. p < q - 1 /\ q - 1 < q
      BY <2>0, <2>3, <2>6, <3>1
    <3> QED
      BY <2>3, <2>5, <3>2
<1>8. NoReturns(u) /\ SpacesSingle(u)
  BY <1>5, <1>6, <1>7 DEF NoReturns, SpacesSingle
<1> QED
  BY <1>4, <1>5, <1>8

\* The pass over the paragraphs keeps that and leaves two line feeds at most.
LEMMA ParagraphsNormal ==
    ASSUME NEW s \in Seq(Char), NoReturns(s), SpacesSingle(s)
    PROVE  LET t == Paragraphs(s) IN
           t \in Seq(Char) /\ NoReturns(t) /\ SpacesSingle(t) /\ FeedsDouble(t)
<1> DEFINE kept == {i \in 1 .. Len(s) :
              ~(s[i] = "lf" /\ i > 2 /\ s[i - 1] = "lf" /\ s[i - 2] = "lf")}
           t == KeepAt(s, kept)
<1>p. kept \in SUBSET (1 .. Len(s))
  OBVIOUS
<1>4. Paragraphs(s) = t
  BY DEF Paragraphs
<1> HIDE DEF kept
<1>1. t \in Seq(Char) /\ \E g : Chosen(g, t, s, kept)
  BY <1>p, KeepAtChooses
<1> HIDE DEF t
<1>2. PICK g : Chosen(g, t, s, kept)
  BY <1>1
<1>3. /\ \A k \in 1 .. Len(t) : /\ g[k] \in kept /\ g[k] \in 1 .. Len(s)
                                /\ t[k] = s[g[k]]
      /\ \A k \in 2 .. Len(t) :
            /\ g[k - 1] < g[k]
            /\ \A p \in kept : ~(g[k - 1] < p /\ p < g[k])
  BY <1>p, <1>1, <1>2, ChosenOrder
<1>0. Len(t) \in Nat /\ Len(s) \in Nat
  BY <1>1
<1>5. \A i \in 1 .. Len(t) : t[i] # "cr" /\ t[i] # "tab"
  BY <1>3 DEF NoReturns, SpacesSingle
\* What lies between two neighbours is dropped.
<1>6. ASSUME NEW i \in 2 .. Len(t), NEW r \in Nat, g[i - 1] < r, r < g[i]
      PROVE  /\ r \in 1 .. Len(s) /\ r - 1 \in 1 .. Len(s) /\ r - 2 \in 1 .. Len(s)
             /\ s[r] = "lf" /\ s[r - 1] = "lf" /\ s[r - 2] = "lf"
  <2>1. i \in 1 .. Len(t) /\ i - 1 \in 1 .. Len(t)
    BY <1>0
  <2>2. g[i - 1] \in 1 .. Len(s) /\ g[i] \in 1 .. Len(s) /\ r \notin kept
    BY <1>3, <1>6, <2>1
  <2>3. r \in 1 .. Len(s)
    BY <1>0, <1>6, <2>2
  <2>4. s[r] = "lf" /\ r > 2 /\ s[r - 1] = "lf" /\ s[r - 2] = "lf"
    BY <2>2, <2>3 DEF kept
  <2> QED
    BY <1>0, <2>3, <2>4
<1>7. ASSUME NEW i \in 2 .. Len(t), t[i - 1] \in Blank, t[i] \in Blank
      PROVE  FALSE
  <2>1. i \in 1 .. Len(t) /\ i - 1 \in 1 .. Len(t)
    BY <1>0
  <2>2. PICK p \in 1 .. Len(s), q \in 1 .. Len(s) :
           /\ p = g[i - 1] /\ q = g[i] /\ p < q
           /\ s[p] \in Blank /\ s[q] \in Blank
    BY <1>3, <1>7, <2>1
  <2>3. q \in 2 .. Len(s) /\ s[q - 1] \notin Blank
    BY <1>0, <2>2 DEF SpacesSingle
  <2>4. p + 1 < q
    BY <1>0, <2>2, <2>3
  <2>5. s[p + 1 - 1] = "lf"
    BY <1>0, <1>6, <2>2, <2>4
  <2>6. p + 1 - 1 = p
    BY <1>0
  <2> QED
    BY <2>2, <2>5, <2>6 DEF Blank
<1>8. ASSUME NEW i \in 3 .. Len(t),
             t[i - 2] = "lf", t[i - 1] = "lf", t[i] = "lf"
      PROVE  FALSE
  <2>1. /\ i \in 1 .. Len(t) /\ i - 1 \in 1 .. Len(t) /\ i - 2 \in 1 .. Len(t)
        /\ i \in 2 .. Len(t) /\ i - 1 \in 2 .. Len(t) /\ (i - 1) - 1 = i - 2
    BY <1>0
  <2>2. PICK o \in 1 .. Len(s), p \in 1 .. Len(s), q \in 1 .. Len(s) :
           /\ o = g[i - 2] /\ p = g[i - 1] /\ q = g[i] /\ q \in kept
           /\ s[o] = "lf" /\ s[p] = "lf" /\ s[q] = "lf"
    <3>1. /\ g[i - 2] \in 1 .. Len(s) /\ t[i - 2] = s[g[i - 2]]
          /\ g[i - 1] \in 1 .. Len(s) /\ t[i - 1] = s[g[i - 1]]
          /\ g[i] \in 1 .. Len(s) /\ t[i] = s[g[i]] /\ g[i] \in kept
      BY <1>3, <2>1
    <3> QED
      BY <1>8, <3>1
  <2>3. o < p /\ p < q
    BY <1>3, <2>1, <2>2
  <2>4. ~(s[q - 1] = "lf" /\ s[q - 2] = "lf")
    <3>1. q > 2
      BY <1>0, <2>3
    <3> QED
      BY <2>2, <3>1 DEF kept
  <2>5. p = q - 1
    <3>1. ASSUME p < q - 1 PROVE FALSE
      <4>1. s[q - 1] = "lf" /\ s[q - 1 - 1] = "lf"
        <5>1. q - 1 \in Nat /\ q - 1 < q
          BY <1>0
        <5> QED
          BY <1>6, <2>1, <2>2, <3>1, <5>1
      <4>2. q - 1 - 1 = q - 2
        BY <1>0
      <4> QED
        BY <2>4, <4>1, <4>2
    <3> QED
      BY <1>0, <2>2, <2>3, <3>1
  <2>6. o = p - 1
    <3>1. ASSUME o < p - 1 PROVE FALSE
      <4>1. s[p - 1] = "lf"
        <5>1. p - 1 \in Nat /\ p - 1 < p /\ g[(i - 1) - 1] < p - 1 /\ p - 1 < g[i - 1]
          BY <1>0, <2>1, <2>2, <3>1
        <5> QED
          BY <1>6, <2>1, <5>1
      <4>2. q - 2 = p - 1 /\ q - 1 = p
        BY <1>0, <2>5
      <4> QED
        BY <2>2, <2>4, <4>1, <4>2
    <3> QED
      BY <1>0, <2>2, <2>3, <3>1
  <2> QED
    <3>1. q - 2 = o /\ q - 1 = p
      BY <1>0, <2>5, <2>6
    <3> QED
      BY <2>2, <2>4, <3>1
<1>9. NoReturns(t) /\ SpacesSingle(t) /\ FeedsDouble(t)
  BY <1>5, <1>7, <1>8 DEF NoReturns, SpacesSingle, FeedsDouble
<1> QED
  BY <1>1, <1>4, <1>9

\* Trimming keeps all that and leaves no white space at the ends.
LEMMA TrimNormal ==
    ASSUME NEW s \in Seq(Char), NoReturns(s), SpacesSingle(s), FeedsDouble(s)
    PROVE  Normal(Trim(s))
<1> DEFINE inside == {i \in 1 .. Len(s) :
                        /\ \E j \in 1 .. i : s[j] \notin White
                        /\ \E j \in i .. Len(s) : s[j] \notin White}
           t == KeepAt(s, inside)
<1>p. inside \in SUBSET (1 .. Len(s))
  OBVIOUS
<1>4. Trim(s) = t
  BY DEF Trim
<1> HIDE DEF inside
<1>1. t \in Seq(Char) /\ \E g : Chosen(g, t, s, inside)
  BY <1>p, KeepAtChooses
<1> HIDE DEF t
<1>2. PICK g : Chosen(g, t, s, inside)
  BY <1>1
<1>3. /\ \A k \in 1 .. Len(t) : /\ g[k] \in inside /\ g[k] \in 1 .. Len(s)
                                /\ t[k] = s[g[k]]
      /\ \A k \in 2 .. Len(t) :
            /\ g[k - 1] < g[k]
            /\ \A p \in inside : ~(g[k - 1] < p /\ p < g[k])
  BY <1>p, <1>1, <1>2, ChosenOrder
<1>0. Len(t) \in Nat /\ Len(s) \in Nat
  BY <1>1
\* What is kept is one piece.
<1>5. ASSUME NEW i \in 2 .. Len(t)
      PROVE  /\ i \in 1 .. Len(t) /\ i - 1 \in 1 .. Len(t)
             /\ g[i] = g[i - 1] + 1
  <2>1. i \in 1 .. Len(t) /\ i - 1 \in 1 .. Len(t)
    BY <1>0
  <2>2. PICK p \in 1 .. Len(s), q \in 1 .. Len(s) :
           /\ p = g[i - 1] /\ q = g[i] /\ p < q
           /\ \E j \in 1 .. p : s[j] \notin White
           /\ \E j \in q .. Len(s) : s[j] \notin White
           /\ \A r \in inside : ~(p < r /\ r < q)
    <3>1. /\ g[i - 1] \in 1 .. Len(s) /\ g[i] \in 1 .. Len(s)
          /\ g[i - 1] \in inside /\ g[i] \in inside
      BY <1>3, <2>1
    <3>2. /\ \E j \in 1 .. g[i - 1] : s[j] \notin White
          /\ \E j \in g[i] .. Len(s) : s[j] \notin White
      BY <3>1 DEF inside
    <3> QED
      BY <1>3, <3>1, <3>2
  <2>3. ASSUME p + 1 < q PROVE FALSE
    <3>1. PICK j \in 1 .. p : s[j] \notin White
      BY <2>2
    <3>2. PICK k \in q .. Len(s) : s[k] \notin White
      BY <2>2
    <3>b. p + 1 \in 1 .. Len(s)
      BY <1>0, <2>3
    <3>c. j \in 1 .. p + 1
      BY <1>0
    <3>d. k \in p + 1 .. Len(s)
      BY <1>0, <2>3
    <3>3. p + 1 \in 1 .. Len(s) /\ j \in 1 .. p + 1 /\ k \in p + 1 .. Len(s)
      BY <3>b, <3>c, <3>d
    <3>4. p + 1 \in inside
      BY <3>1, <3>2, <3>3 DEF inside
    <3> QED
      BY <1>0, <2>2, <2>3, <3>4
  <2> QED
    BY <1>0, <2>1, <2>2, <2>3
<1>6. \A i \in 1 .. Len(t) : t[i] # "cr" /\ t[i] # "tab"
  BY <1>3 DEF NoReturns, SpacesSingle
<1>7. ASSUME NEW i \in 2 .. Len(t)
      PROVE  ~(t[i - 1] \in Blank /\ t[i] \in Blank)
  <2>1. PICK p \in 1 .. Len(s) : p = g[i - 1] /\ p + 1 = g[i]
    BY <1>3, <1>5
  <2>2. p + 1 \in 2 .. Len(s) /\ (p + 1) - 1 = p
    BY <1>0, <1>3, <1>5, <2>1
  <2>3. t[i - 1] = s[p] /\ t[i] = s[p + 1]
    BY <1>3, <1>5, <2>1
  <2> QED
    BY <2>2, <2>3 DEF SpacesSingle
<1>8. ASSUME NEW i \in 3 .. Len(t)
      PROVE  ~(t[i - 2] = "lf" /\ t[i - 1] = "lf" /\ t[i] = "lf")
  <2>1. i \in 2 .. Len(t) /\ i - 1 \in 2 .. Len(t) /\ (i - 1) - 1 = i - 2
    BY <1>0
  <2>2. PICK p \in 1 .. Len(s) :
           p = g[i - 2] /\ p + 1 = g[i - 1] /\ p + 1 + 1 = g[i]
    <3>1. i - 2 \in 1 .. Len(t)
      BY <1>0
    <3>2. g[i - 2] \in 1 .. Len(s)
      BY <1>3, <3>1
    <3>3. g[i - 1] = g[i - 2] + 1
      BY <1>5, <2>1
    <3>4. g[i] = g[i - 1] + 1
      BY <1>5, <2>1
    <3> QED
      BY <3>2, <3>3, <3>4
  <2>3. /\ p + 1 + 1 \in 3 .. Len(s)
        /\ (p + 1 + 1) - 2 = p /\ (p + 1 + 1) - 1 = p + 1
    <3>1. g[i] \in 1 .. Len(s)
      BY <1>3, <1>5, <2>1
    <3>2. p + 1 + 1 \in 1 .. Len(s)
      BY <2>2, <3>1
    <3> QED
      BY <1>0, <3>2
  <2>4. t[i - 2] = s[p] /\ t[i - 1] = s[p + 1] /\ t[i] = s[p + 1 + 1]
    <3>1. i \in 1 .. Len(t) /\ i - 1 \in 1 .. Len(t) /\ i - 2 \in 1 .. Len(t)
      BY <1>0
    <3> QED
      BY <1>3, <2>2, <3>1
  <2> QED
    BY <2>3, <2>4 DEF FeedsDouble
<1>9. ASSUME t # <<>> PROVE t[1] \notin White /\ t[Len(t)] \notin White
  <2> DEFINE n == Len(t)
  <2>1. n \in Nat /\ n >= 1 /\ 1 \in 1 .. n /\ n \in 1 .. n
    BY <1>1, <1>9
  <2>2. ASSUME NEW j \in 1 .. Len(s), s[j] \notin White
        PROVE  \E k \in 1 .. n : g[k] = j
    <3>1. j \in 1 .. j /\ j \in j .. Len(s)
      BY <1>0
    <3>2. j \in inside
      BY <2>2, <3>1 DEF inside
    <3> QED
      BY <1>2, <3>2 DEF Chosen
  <2> HIDE DEF n
  <2>3. t[1] \notin White
    <3>1. PICK p \in 1 .. Len(s) : p = g[1] /\ \E j \in 1 .. p : s[j] \notin White
      BY <1>3, <2>1 DEF n, inside
    <3>2. PICK j \in 1 .. p : s[j] \notin White
      BY <3>1
    <3>3. PICK k \in 1 .. n : g[k] = j
      BY <1>0, <2>2, <3>1, <3>2
    <3>4. k = 1
      <4>1. k > 1 => g[1] < g[k]
        BY <1>2, <2>1 DEF Chosen, n
      <4> QED
        BY <1>0, <2>1, <3>1, <3>2, <3>3, <4>1
    <3> QED
      BY <1>3, <2>1, <3>2, <3>3, <3>4 DEF n
  <2>4. t[n] \notin White
    <3>1. PICK p \in 1 .. Len(s) :
             p = g[n] /\ \E j \in p .. Len(s) : s[j] \notin White
      BY <1>3, <2>1 DEF n, inside
    <3>2. PICK j \in p .. Len(s) : s[j] \notin White
      BY <3>1
    <3>3. PICK k \in 1 .. n : g[k] = j
      BY <1>0, <2>2, <3>1, <3>2
    <3>4. k = n
      <4>1. k < n => g[k] < g[n]
        BY <1>2, <2>1 DEF Chosen, n
      <4> QED
        BY <1>0, <2>1, <3>1, <3>2, <3>3, <4>1
    <3> QED
      BY <1>3, <2>1, <3>2, <3>3, <3>4 DEF n
  <2> QED
    BY <2>3, <2>4 DEF n
<1>10. Normal(t)
  BY <1>1, <1>6, <1>7, <1>8, <1>9
     DEF Normal, NoReturns, SpacesSingle, FeedsDouble, EndsBlack
<1> QED
  BY <1>4, <1>10

\* What comes out is normal.
LEMMA NormalizeNormal ==
    ASSUME NEW s \in Seq(Char)
    PROVE  Normal(normalizeTranscript(s))
BY LineFeedsNormal, SingleSpacesNormal, ParagraphsNormal, TrimNormal
   DEF normalizeTranscript

\* A normal text goes through unchanged.
LEMMA NormalFixed ==
    ASSUME NEW t, Normal(t)
    PROVE  normalizeTranscript(t) = t
<1>0. t \in Seq(Char) /\ Len(t) \in Nat
  BY DEF Normal
<1>1. LineFeeds(t) = t
  <2>1. {i \in 1 .. Len(t) : ~(t[i] = "cr" /\ i < Len(t) /\ t[i + 1] = "lf")}
           = 1 .. Len(t)
    BY DEF Normal, NoReturns
  <2>2. [i \in 1 .. Len(t) |-> IF t[i] = "cr" THEN "lf" ELSE t[i]] = t
    BY <1>0 DEF Normal, NoReturns
  <2> QED
    BY <1>0, <2>1, <2>2, KeepAtAll DEF LineFeeds
<1>2. SingleSpaces(t) = t
  <2>1. {i \in 1 .. Len(t) : ~(t[i] \in Blank /\ i > 1 /\ t[i - 1] \in Blank)}
           = 1 .. Len(t)
    BY <1>0 DEF Normal, SpacesSingle
  <2>2. [i \in 1 .. Len(t) |-> IF t[i] \in Blank THEN " " ELSE t[i]] = t
    <3>1. \A i \in 1 .. Len(t) : t[i] \in Blank => t[i] = " "
      BY DEF Normal, SpacesSingle, Blank
    <3>2. \A i \in 1 .. Len(t) : (IF t[i] \in Blank THEN " " ELSE t[i]) = t[i]
      BY <3>1
    <3>3. t = [i \in 1 .. Len(t) |-> t[i]]
      BY <1>0
    <3> QED
      BY <3>2, <3>3, Zenon
  <2> QED
    BY <1>0, <2>1, <2>2, KeepAtAll DEF SingleSpaces
<1>3. Paragraphs(t) = t
  <2>1. {i \in 1 .. Len(t) :
           ~(t[i] = "lf" /\ i > 2 /\ t[i - 1] = "lf" /\ t[i - 2] = "lf")}
           = 1 .. Len(t)
    BY <1>0 DEF Normal, FeedsDouble
  <2> QED
    BY <1>0, <2>1, KeepAtAll DEF Paragraphs
<1>4. Trim(t) = t
  <2>1. {i \in 1 .. Len(t) : /\ \E j \in 1 .. i : t[j] \notin White
                             /\ \E j \in i .. Len(t) : t[j] \notin White}
           = 1 .. Len(t)
    <3>1. ASSUME NEW i \in 1 .. Len(t)
          PROVE  /\ \E j \in 1 .. i : t[j] \notin White
                 /\ \E j \in i .. Len(t) : t[j] \notin White
      <4>1. t # <<>> /\ 1 \in 1 .. i /\ Len(t) \in i .. Len(t)
        BY <1>0
      <4> QED
        BY <4>1 DEF Normal, EndsBlack
    <3> QED
      BY <3>1
  <2> QED
    BY <1>0, <2>1, KeepAtAll DEF Trim
<1> QED
  BY <1>1, <1>2, <1>3, <1>4 DEF normalizeTranscript

\* Normalising twice is normalising once, for every text: the hash of what the
\* repository has normalised is the hash of what was uploaded, and a stored
\* transcript that comes back is recognised.
THEOREM NormalizationIdempotent ==
    ASSUME NEW s \in Seq(STRING)
    PROVE  /\ normalizeTranscript(normalizeTranscript(s)) = normalizeTranscript(s)
           /\ computeTranscriptHash(normalizeTranscript(s))
                 = computeTranscriptHash(s)
<1>1. s \in Seq(Char)
  <2>1. /\ Len(s) \in Nat /\ s \in [1 .. Len(s) -> STRING]
    OBVIOUS
  <2>2. s \in [1 .. Len(s) -> Char]
    BY <2>1, Zenon DEF Char
  <2> QED
    BY <2>1, <2>2, FunctionSeq
<1>2. Normal(normalizeTranscript(s))
  BY <1>1, NormalizeNormal
<1> QED
  BY <1>2, NormalFixed DEF computeTranscriptHash

-----------------------------------------------------------------------------
(* The inductive invariant *)

USE NoClientAssumption, BoundsAssumption

\* The insertion of a request waits for its transaction to commit.
Inserted(c) == pc[c] \in {"event", "commit"}

LockKey(c) == <<input[c].tenant, input[c].project>>

Siblings(c) == VersionsOf(rows["source"], input[c].tenant, input[c].project)

\* Where a request may be, by what it asks for.
Placed(c) ==
    /\ pc[c] \in {"lock", "number"} => input[c].op = "source"
    /\ pc[c] = "eligible" => input[c].op = "publish"
    /\ pc[c] \in {"reference", "event", "recover"}
          => input[c].op \in {"content", "publish"}
    /\ pc[c] \in {"lookup", "insert", "commit"} => input[c].op \in Creations
    /\ pc[c] = "read" => input[c].op \in Reads \union Listings
    /\ pc[c] = "list" => input[c].op \in Listings
    /\ InFlight(c) => sent[c] >= 1

\* What an upload knows: the lock is its own, and what it has read since is all
\* there is.
UploadKnown(c) ==
    input[c].op = "source" =>
        /\ pc[c] \in {"lookup", "number", "insert", "commit"}
              => lock[LockKey(c)] = c
        /\ pc[c] \in {"number", "insert", "commit"}
              => VersionOfContent(input[c]) = {}
        /\ pc[c] \in {"insert", "commit"}
              => draft[c].number = Cardinality(Siblings(c)) + 1

\* The insertion under way is the row of the request, and clashes with no row.
InsertionKnown(c) ==
    /\ pending[c] = IF Inserted(c) THEN RowOf(c) ELSE NoRow
    /\ Inserted(c) => \A row \in rows[input[c].op] :
                          ~Clash(input[c].op, pending[c], row)

\* The content job with which a request i for a publish job was accepted, and the
\* fingerprint that it gave.
SourceOf(i, fingerprint) ==
    \E job \in rows["content"] :
        /\ job.id = i.ref /\ job.tenant = i.tenant /\ job.project = i.project
        /\ job.status = "completed" /\ job.artifact = "styled"
        /\ fingerprint = computePublishJobRequestFingerprint(i, job)

SourceKnown(c) ==
    input[c].op = "publish"
    /\ pc[c] \in {"reference", "lookup", "insert", "event", "commit", "recover"}
        => SourceOf(input[c], draft[c].fingerprint)

\* The row that was there first, or is shown, is there still.
RowKnown(c) ==
    /\ pc[c] = "recover" => Existing(input[c]) # {}
    /\ pc[c] = "list" => Visible(input[c]) # {}

Known(c) ==
    Placed(c) /\ UploadKnown(c) /\ InsertionKnown(c) /\ SourceKnown(c)
    /\ RowKnown(c)

\* Two insertions under way do not clash.
NoRace ==
    \A c, d \in Client :
        c # d /\ Inserted(c) /\ Inserted(d) /\ input[c].op = input[d].op
            => ~Clash(input[c].op, pending[c], pending[d])

\* The identifier of a request that has not committed is used nowhere.
FreshIds ==
    \A c \in Client : \A n \in 1 .. MaxSends :
        n > sent[c] \/ (n = sent[c] /\ InFlight(c)) =>
            /\ created[<<c, n>>] = 0
            /\ \A t \in Tables : \A row \in rows[t] : row.id # <<c, n>>

\* A job has its creation event, exactly one.
EventsStored ==
    \A t \in {"content", "publish"} : \A row \in rows[t] : created[row.id] = 1

\* The fingerprint a request for a job comes with.
Fingerprinted(i, fingerprint) ==
    IF i.op = "content" THEN fingerprint = computeRequestFingerprint(i)
    ELSE SourceOf(i, fingerprint)

\* The row an answer names, and the row on account of which a key is refused.
Backs(row, a) ==
    /\ row.id = a.id
    /\ row.tenant = a.input.tenant
    /\ a.input.op \in Creations => row.project = a.input.project
    /\ a.input.op = "source" => row.hash = ContentHash[a.input.text]
    /\ a.input.op \in {"content", "publish"} =>
          row.key = a.input.key /\ Fingerprinted(a.input, row.fingerprint)

Refutes(row, a) ==
    /\ row.tenant = a.input.tenant
    /\ row.key = a.input.key
    /\ \E fingerprint : /\ Fingerprinted(a.input, fingerprint)
                        /\ row.fingerprint # fingerprint

ConflictCodes == {ConflictCode("content"), ConflictCode("publish")}

\* What an answer says, about rows that do not go away.
AnswerTrue(a) ==
    /\ a.input \in Inputs
    /\ a.status = 503 /\ ~a.fault =>
          /\ a.input.op \in {"content", "publish"}
          /\ \E row \in rows[a.input.op] :
                row.tenant = a.input.tenant /\ row.key = a.input.key
    /\ a.status \in {201, 202} => a.input.op \in Creations
    /\ a.status \in {200, 201, 202} =>
          \E row \in rows[Table(a.input.op)] : Backs(row, a)
    /\ a.code \in ConflictCodes =>
          /\ a.input.op \in {"content", "publish"}
          /\ \E row \in rows[a.input.op] : Refutes(row, a)
    /\ a.status = 200 /\ a.input.op \in Listings => a.shown = 1

\* The inductive invariant.
ApiInv ==
    /\ TypeOK
    /\ WellStored(rows)
    /\ \A c \in Client : Known(c)
    /\ NoRace
    /\ FreshIds
    /\ EventsStored
    /\ \A a \in answers : AnswerTrue(a)

-----------------------------------------------------------------------------
(* Facts about the operators *)

\* A request is one of the workload.
LEMMA InputOf ==
    ASSUME TypeOK, NEW c \in Client
    PROVE  /\ input[c] \in Inputs
           /\ input[c].op \in Creations \union Reads \union Listings
<1>1. input \in Workloads
  BY DEF TypeOK
<1>2. {input[d] : d \in Client} \in {{w[d] : d \in Client} : w \in Workloads}
  BY <1>1, Zenon
<1>3. input[c] \in {input[d] : d \in Client}
  BY Zenon
<1>4. input[c] \in Inputs
  BY <1>2, <1>3, Zenon DEF Inputs
<1> QED
  BY <1>1, <1>4, WorkloadsAssumption, Zenon

\* The hash of an upload is its normal text: normalising it twice is no other.
LEMMA HashOfUpload ==
    ASSUME NEW i \in Inputs
    PROVE  ContentHash[i.text] = NormalText[i.text]
<1>1. PICK w \in Workloads : i \in {w[c] : c \in Client}
  BY Zenon DEF Inputs
<1>2. PICK c \in Client : i = w[c]
  BY <1>1
<1>3. i.text \in Seq(STRING)
  BY <1>2, WorkloadsAssumption
<1>4. i.text \in {j.text : j \in Inputs}
  OBVIOUS
<1>5. /\ NormalText[i.text] = normalizeTranscript(i.text)
      /\ ContentHash[i.text] = computeTranscriptHash(NormalText[i.text])
  BY <1>4 DEF NormalText, ContentHash
<1> QED
  BY <1>3, <1>5, NormalizationIdempotent DEF computeTranscriptHash

\* The unique index of the jobs: one row per tenant and key.
LEMMA ClashOfJobs ==
    ASSUME NEW op, op # "source", NEW row, NEW other
    PROVE  Clash(op, row, other)
              <=> row.tenant = other.tenant /\ row.key = other.key
<1>1. Clash(op, row, other)
         <=> <<"key", row.tenant, row.key>> = <<"key", other.tenant, other.key>>
  BY Zenon DEF Clash, UniqueKeys
<1>2. ASSUME NEW a, NEW b, NEW c, NEW d
      PROVE  <<"key", a, b>> = <<"key", c, d>> <=> a = c /\ b = d
  OBVIOUS
<1> QED
  BY <1>1, <1>2, Zenon

\* The unique indexes of the versions: one per number and one per hash.
LEMMA ClashOfVersions ==
    ASSUME NEW row, NEW other
    PROVE  Clash("source", row, other)
              <=> /\ row.tenant = other.tenant /\ row.project = other.project
                  /\ row.number = other.number \/ row.hash = other.hash
<1> DEFINE v(r) == <<"version", r.tenant, r.project, r.number>>
           h(r) == <<"hash", r.tenant, r.project, r.hash>>
<1>1. Clash("source", row, other) <=> {v(row), h(row)} \cap {v(other), h(other)} # {}
  BY Zenon DEF Clash, UniqueKeys
<1>2. ASSUME NEW s, NEW a, NEW b, NEW c, NEW u, NEW d, NEW e, NEW f
      PROVE  <<s, a, b, c>> = <<u, d, e, f>> <=> s = u /\ a = d /\ b = e /\ c = f
  OBVIOUS
<1>3. /\ v(row) = v(other) <=> /\ row.tenant = other.tenant
                              /\ row.project = other.project
                              /\ row.number = other.number
      /\ h(row) = h(other) <=> /\ row.tenant = other.tenant
                              /\ row.project = other.project
                              /\ row.hash = other.hash
  BY <1>2, Zenon
<1>4. v(row) # h(other) /\ h(row) # v(other)
  <2>1. "version" # "hash"
    OBVIOUS
  <2> QED BY <1>2, <2>1, Zenon
<1> HIDE DEF v, h
<1> QED
  BY <1>1, <1>3, <1>4

\* A clash has no direction.
LEMMA ClashSymmetric ==
    ASSUME NEW op, NEW row, NEW other
    PROVE  Clash(op, row, other) <=> Clash(op, other, row)
BY DEF Clash

\* The versions of a project are as many as their highest number, none included.
LEMMA SiblingsGapless ==
    ASSUME NEW versions, IsFiniteSet(versions), Gapless(versions),
           NEW tenant, NEW project
    PROVE  LET siblings == VersionsOf(versions, tenant, project) IN
           /\ IsFiniteSet(siblings)
           /\ Cardinality(siblings) \in Nat
           /\ {row.number : row \in siblings} = 1 .. Cardinality(siblings)
<1> DEFINE siblings == VersionsOf(versions, tenant, project)
<1>1. siblings \in SUBSET versions
  BY DEF VersionsOf
<1>2. IsFiniteSet(siblings) /\ Cardinality(siblings) \in Nat
  BY <1>1, FS_Subset, FS_CardinalityType
<1>3. CASE siblings = {}
  <2>1. Cardinality(siblings) = 0
    BY <1>3, FS_EmptySet
  <2> QED
    BY <1>2, <1>3, <2>1
<1>4. CASE siblings # {}
  <2>1. PICK v \in versions : v.tenant = tenant /\ v.project = project
    BY <1>4 DEF VersionsOf
  <2>2. {row.number : row \in siblings} = 1 .. Cardinality(siblings)
    BY <2>1 DEF Gapless
  <2> QED
    BY <1>2, <2>2
<1> QED
  BY <1>3, <1>4

\* max(version_number), 0 when there are none.
LEMMA MaxOfRange ==
    ASSUME NEW n \in Nat
    PROVE  Max((1 .. n) \union {0}) = n
<1> DEFINE S == (1 .. n) \union {0}
<1>1. n \in S /\ \A y \in S : n >= y
  OBVIOUS
<1>2. Max(S) \in S /\ \A y \in S : Max(S) >= y
  BY <1>1, Zenon DEF Max
<1>3. Max(S) >= n /\ Max(S) \in Nat
  BY <1>1, <1>2
<1>4. n >= Max(S)
  BY <1>1, <1>2
<1> QED
  BY <1>3, <1>4

\* The row of a request is not the absence of one.
LEMMA RowOfClient ==
    ASSUME NEW c \in Client
    PROVE  RowOf(c).id = Id(c) /\ RowOf(c) # NoRow
<1>1. RowOf(c).id = Id(c)
  BY DEF RowOf, SourceVersionRow, ContentJobRow, PublishJobRow
<1>2. Id(c) # <<>>
  BY DEF Id
<1> QED
  BY <1>1, <1>2 DEF NoRow

\* The row of a request, table by table.
LEMMA RowColumns ==
    ASSUME NEW c \in Client, input[c].op \in Creations
    PROVE  /\ RowOf(c).tenant = input[c].tenant
           /\ RowOf(c).project = input[c].project
           /\ input[c].op = "source" =>
                 /\ RowOf(c).number = draft[c].number
                 /\ RowOf(c).hash = ContentHash[input[c].text]
           /\ input[c].op \in {"content", "publish"} =>
                 RowOf(c).key = input[c].key /\ RowOf(c).ref = input[c].ref
           /\ input[c].op = "content" =>
                 /\ RowOf(c).fingerprint = computeRequestFingerprint(input[c])
                 /\ RowOf(c).status = "queued"
                 /\ DOMAIN RowOf(c) = JobColumns
           /\ input[c].op = "publish" =>
                 RowOf(c).fingerprint = draft[c].fingerprint
BY DEF Creations, Tables, RowOf, SourceVersionRow, ContentJobRow, PublishJobRow,
       JobColumns

-----------------------------------------------------------------------------
(* What a step changes *)

\* A step of one request leaves the others as they are, their locks included.
Stands(d) ==
    /\ pc'[d] = pc[d] /\ draft'[d] = draft[d] /\ pending'[d] = pending[d]
    /\ sent'[d] = sent[d]
    /\ \A k \in LockKeys : lock[k] = d => lock'[k] = d

\* A request is answered: its transaction ends and its locks with it.
Ended(c) ==
    /\ pc'[c] = "done" /\ draft'[c] = NoDraft /\ pending'[c] = NoRow
    /\ DOMAIN draft' = Client /\ DOMAIN pending' = Client
    /\ pc' \in [Client -> Steps \union {"ready", "done", "lost"}]
    /\ lock' \in [LockKeys -> Client \union {NoClient}]

\* The end of a request is nobody else's.
LEMMA ReplyShape ==
    ASSUME TypeOK, NEW c \in Client, NEW answer, Reply(c, answer),
           sent' \in [Client -> 0 .. MaxSends],
           \A d \in Client \ {c} : sent'[d] = sent[d]
    PROVE  Ended(c) /\ \A d \in Client \ {c} : Stands(d)
BY DEF TypeOK, Reply, Ended, Stands, Released, Steps

\* The client's own statements and their failures.
ClientStep(c) == Send(c) \/ Step(c) \/ Commit(c, FALSE) \/ Fail(c)

LEMMA OthersStand ==
    ASSUME TypeOK, NEW c \in Client, ClientStep(c)
    PROVE  /\ input' = input
           /\ \A d \in Client \ {c} : Stands(d)
           /\ \/ rows' = rows /\ created' = created
              \/ \E heard \in BOOLEAN : Commit(c, heard)
<1> USE DEF TypeOK
<1>1. ASSUME NEW step, Receive(c, step)
      PROVE  input' = input /\ rows' = rows /\ created' = created
             /\ \A d \in Client \ {c} : Stands(d)
  <2>1. /\ sent' \in [Client -> 0 .. MaxSends]
        /\ \A d \in Client \ {c} : sent'[d] = sent[d]
    BY <1>1 DEF Receive
  <2>2. CASE Stopped(input[c])
    BY <1>1, <2>1, <2>2, ReplyShape DEF Receive
  <2>3. CASE ~Stopped(input[c])
    BY <1>1, <2>1, <2>3 DEF Receive, Continue, Stands
  <2> QED
    BY <1>1, <2>2, <2>3 DEF Receive
<1>2. CASE Send(c)
  BY <1>1, <1>2 DEF Send, PostSourceVersion, PostContentJob, PostPublishJob,
                    GetRequest
<1>3. ASSUME NEW answer, Reply(c, answer), sent' = sent
      PROVE  \A d \in Client \ {c} : Stands(d)
  BY <1>3, ReplyShape
<1>4. CASE ReadSourceJob(c)
  <2>1. /\ sent' = sent /\ input' = input
        /\ rows' = rows /\ created' = created
    BY <1>4 DEF ReadSourceJob
  <2>2. CASE \E answer : Reply(c, answer)
    <3>1. PICK answer : Reply(c, answer)
      BY <2>2
    <3>2. \A d \in Client \ {c} : Stands(d)
      BY <1>3, <2>1, <3>1
    <3> QED
      BY <2>1, <3>2
  <2>3. CASE ~\E answer : Reply(c, answer)
    <3>1. PICK job \in rows["content"] :
             /\ draft' = [draft EXCEPT ![c].fingerprint =
                             computePublishJobRequestFingerprint(input[c], job)]
             /\ Continue(c, "reference") /\ UNCHANGED <<pending, lock>>
      BY <1>4, <2>3 DEF ReadSourceJob
    <3>2. \A d \in Client \ {c} : Stands(d)
      BY <2>1, <3>1 DEF Continue, Stands
    <3> QED
      BY <2>1, <3>2
  <2> QED
    BY <2>2, <2>3
<1>5. CASE TakeLock(c)
  <2>1. \A k \in LockKeys : lock[k] # NoClient => lock'[k] = lock[k]
    BY <1>5 DEF TakeLock
  <2> QED
    BY <1>5, <2>1 DEF TakeLock, Continue, Stands
<1>6. ASSUME NEW op, NEW table, CheckReference(c, op, table)
      PROVE  input' = input /\ rows' = rows /\ created' = created
             /\ \A d \in Client \ {c} : Stands(d)
  BY <1>3, <1>6 DEF CheckReference, Continue, Stands
<1>7. ASSUME NEW op, NEW step, FindExisting(c, op, step)
      PROVE  input' = input /\ rows' = rows /\ created' = created
             /\ \A d \in Client \ {c} : Stands(d)
  BY <1>3, <1>7 DEF FindExisting, Continue, Stands
<1>8. CASE LatestVersion(c)
  BY <1>8 DEF LatestVersion, Continue, Stands
<1>9. CASE Insert(c)
  <2>1. \A k \in LockKeys : lock[k] # c => Released(c)[k] = lock[k]
    BY DEF Released
  <2> QED
    BY <1>9, <2>1 DEF Insert, Continue, Stands
<1>10. CASE InsertEvent(c)
  BY <1>10 DEF InsertEvent, Continue, Stands
<1>11. ASSUME NEW heard \in BOOLEAN, Commit(c, heard)
       PROVE  input' = input /\ \A d \in Client \ {c} : Stands(d)
  BY <1>3, <1>11 DEF Commit
<1>12. CASE Recover(c)
  BY <1>3, <1>12 DEF Recover
<1>13. ASSUME NEW table, Read(c, table)
       PROVE  input' = input /\ rows' = rows /\ created' = created
              /\ \A d \in Client \ {c} : Stands(d)
  BY <1>3, <1>13 DEF Read, Continue, Stands
<1>14. ASSUME NEW op, ListEvents(c, op)
       PROVE  input' = input /\ rows' = rows /\ created' = created
              /\ \A d \in Client \ {c} : Stands(d)
  BY <1>3, <1>14 DEF ListEvents
<1>15. CASE Fail(c)
  BY <1>3, <1>15 DEF Fail
<1>16. PICK yes, no \in BOOLEAN : yes = TRUE /\ no = FALSE
  OBVIOUS
<1>17. ASSUME Commit(c, TRUE) \/ Commit(c, FALSE)
       PROVE  /\ input' = input /\ \A d \in Client \ {c} : Stands(d)
              /\ \E heard \in BOOLEAN : Commit(c, heard)
  BY <1>11, <1>16, <1>17
<1> HIDE DEF TypeOK
<1> QED
  BY <1>2, <1>4, <1>5, <1>6, <1>7, <1>8, <1>9, <1>10, <1>12, <1>13, <1>14,
     <1>15, <1>17
     DEF ClientStep, Step, CheckSourceVersion, CheckSourceJob, FindVersion,
         FindContentJob, FindPublishJob, GetSourceVersion, GetContentJob,
         GetPublishJob, GetContentJobEvents, GetPublishJobEvents

-----------------------------------------------------------------------------
(* What a step makes of the rows *)

\* A row may end, and keeps everything else.
Succeeds(row, next) ==
    /\ next.id = row.id /\ next.tenant = row.tenant /\ next.project = row.project
    /\ next.ref = row.ref /\ next.key = row.key
    /\ next.fingerprint = row.fingerprint
    /\ row.status = "completed" => next = row

\* No row goes away.
Grows ==
    /\ rows["source"] \subseteq rows'["source"]
    /\ rows["publish"] \subseteq rows'["publish"]
    /\ \A row \in rows["content"] : \E next \in rows'["content"] :
          Succeeds(row, next)

LEMMA CommitRows ==
    ASSUME ApiInv, NEW c \in Client, NEW heard \in BOOLEAN, Commit(c, heard)
    PROVE  /\ input[c].op \in Creations /\ pending[c] = RowOf(c)
           /\ DOMAIN rows' = Tables
           /\ rows'[input[c].op] = rows[input[c].op] \union {RowOf(c)}
           /\ \A t \in Tables : t # input[c].op => rows'[t] = rows[t]
           /\ \A t \in Tables : \A row \in rows'[t] :
                 row \in rows[t] \/ (t = input[c].op /\ row = RowOf(c))
           /\ Grows
<1>1. pc[c] = "commit" /\ Known(c) /\ DOMAIN rows = Tables
  BY DEF Commit, ApiInv, WellStored
<1>2. input[c].op \in Creations /\ pending[c] = RowOf(c)
  BY <1>1 DEF Known, Placed, InsertionKnown, Inserted
<1>3. rows' = [rows EXCEPT ![input[c].op] = @ \union {RowOf(c)}]
  BY <1>2 DEF Commit
<1>4. \A row : Succeeds(row, row)
  BY DEF Succeeds
<1> QED
  BY <1>1, <1>2, <1>3, <1>4 DEF Grows, Creations, Tables

\* A content job as its worker leaves it.
Ending(job, status, artifact) ==
    [job EXCEPT !.status = status, !.artifact = artifact]

LEMMA JobEndsRows ==
    ASSUME ApiInv, NEW job \in rows["content"], NEW status, NEW artifact,
           JobEnds(job, status, artifact)
    PROVE  LET next == Ending(job, status, artifact) IN
           /\ job.status = "queued"
           /\ DOMAIN rows' = Tables
           /\ rows'["content"] = (rows["content"] \ {job}) \union {next}
           /\ rows'["source"] = rows["source"]
           /\ rows'["publish"] = rows["publish"]
           /\ Succeeds(job, next)
           /\ DOMAIN next = JobColumns
           /\ next.status = status /\ next.artifact = artifact
           /\ Grows
<1> DEFINE next == Ending(job, status, artifact)
<1>1. DOMAIN job = JobColumns /\ DOMAIN rows = Tables
  BY DEF ApiInv, WellStored
<1>2. job.status = "queued"
  BY DEF JobEnds
<1>3. /\ DOMAIN next = JobColumns
      /\ next.status = status /\ next.artifact = artifact
      /\ next.id = job.id /\ next.tenant = job.tenant
      /\ next.project = job.project /\ next.ref = job.ref /\ next.key = job.key
      /\ next.fingerprint = job.fingerprint
  BY <1>1 DEF JobColumns, Ending
<1>4. Succeeds(job, next)
  BY <1>2, <1>3 DEF Succeeds
<1>5. rows' = [rows EXCEPT !["content"] = (@ \ {job}) \union {next}]
  BY DEF JobEnds, Ending
<1> HIDE DEF next
<1>6. /\ DOMAIN rows' = Tables
      /\ rows'["content"] = (rows["content"] \ {job}) \union {next}
      /\ rows'["source"] = rows["source"]
      /\ rows'["publish"] = rows["publish"]
  BY <1>1, <1>5 DEF Tables
<1>7. \A row : Succeeds(row, row)
  BY DEF Succeeds
<1>8. Grows
  BY <1>4, <1>6, <1>7 DEF Grows
<1> QED
  BY <1>2, <1>3, <1>4, <1>6, <1>8 DEF next

\* The source of a publish job stays what it was.
LEMMA SourceStays ==
    ASSUME Grows, NEW i, NEW fingerprint, SourceOf(i, fingerprint)
    PROVE  \E job \in rows'["content"] :
              /\ job.id = i.ref /\ job.tenant = i.tenant /\ job.project = i.project
              /\ job.status = "completed" /\ job.artifact = "styled"
              /\ fingerprint = computePublishJobRequestFingerprint(i, job)
<1>1. PICK job \in rows["content"] :
         /\ job.id = i.ref /\ job.tenant = i.tenant /\ job.project = i.project
         /\ job.status = "completed" /\ job.artifact = "styled"
         /\ fingerprint = computePublishJobRequestFingerprint(i, job)
  BY DEF SourceOf
<1>2. job \in rows'["content"]
  BY <1>1 DEF Grows, Succeeds
<1> QED
  BY <1>1, <1>2

\* An answer that was true stays true.
LEMMA AnswerStays ==
    ASSUME ApiInv, Grows, NEW a, AnswerTrue(a)
    PROVE  AnswerTrue(a)'
<1>1. ASSUME NEW i, NEW fingerprint, Fingerprinted(i, fingerprint)
      PROVE  IF i.op = "content" THEN fingerprint = computeRequestFingerprint(i)
             ELSE \E job \in rows'["content"] :
                /\ job.id = i.ref /\ job.tenant = i.tenant
                /\ job.project = i.project
                /\ job.status = "completed" /\ job.artifact = "styled"
                /\ fingerprint = computePublishJobRequestFingerprint(i, job)
  BY <1>1, SourceStays DEF Fingerprinted
<1>2. ASSUME NEW i, NEW fingerprint, Fingerprinted(i, fingerprint)
      PROVE  Fingerprinted(i, fingerprint)'
  BY <1>1, <1>2 DEF Fingerprinted, SourceOf
<1>3. ASSUME NEW t, t \in Tables, NEW row \in rows[t]
      PROVE  \E next \in rows'[t] :
                /\ next.id = row.id /\ next.tenant = row.tenant
                /\ next.project = row.project
                /\ t = "source" => next.hash = row.hash
                /\ t # "source" => /\ next.key = row.key
                                   /\ next.fingerprint = row.fingerprint
  BY <1>3 DEF Tables, Grows, Succeeds
<1>4. Table(a.input.op) \in Tables
  BY DEF Table, Tables
<1>5. /\ a.input.op = "source" => Table(a.input.op) = "source"
      /\ a.input.op \in {"content", "publish"} =>
            Table(a.input.op) = a.input.op /\ Table(a.input.op) # "source"
  BY DEF Table
<1>6. ASSUME NEW row \in rows[Table(a.input.op)], Backs(row, a)
      PROVE  \E next \in rows'[Table(a.input.op)] : Backs(next, a)'
  <2>1. PICK next \in rows'[Table(a.input.op)] :
                /\ next.id = row.id /\ next.tenant = row.tenant
                /\ next.project = row.project
                /\ Table(a.input.op) = "source" => next.hash = row.hash
                /\ Table(a.input.op) # "source" =>
                      /\ next.key = row.key
                      /\ next.fingerprint = row.fingerprint
    BY <1>3, <1>4
  <2>2. a.input.op \in {"content", "publish"} =>
           Fingerprinted(a.input, next.fingerprint)'
    BY <1>2, <1>5, <1>6, <2>1 DEF Backs
  <2>3. Backs(next, a)'
    BY <1>5, <1>6, <2>1, <2>2 DEF Backs
  <2> QED
    BY <2>3
<1>7. ASSUME a.input.op \in {"content", "publish"},
             NEW row \in rows[a.input.op], Refutes(row, a)
      PROVE  \E next \in rows'[a.input.op] : Refutes(next, a)'
  <2>1. PICK fingerprint : /\ Fingerprinted(a.input, fingerprint)
                           /\ row.fingerprint # fingerprint
    BY <1>7 DEF Refutes
  <2>2. PICK next \in rows'[a.input.op] :
           /\ next.tenant = row.tenant /\ next.key = row.key
           /\ next.fingerprint = row.fingerprint
    BY <1>3, <1>5, <1>7 DEF Tables
  <2>3. Fingerprinted(a.input, fingerprint)'
    BY <1>2, <2>1
  <2>4. Refutes(next, a)'
    BY <1>7, <2>1, <2>2, <2>3 DEF Refutes
  <2> QED
    BY <2>4
<1>8. ASSUME a.input.op \in {"content", "publish"},
             NEW row \in rows[a.input.op],
             row.tenant = a.input.tenant, row.key = a.input.key
      PROVE  \E next \in rows'[a.input.op] :
                next.tenant = a.input.tenant /\ next.key = a.input.key
  <2>1. PICK next \in rows'[a.input.op] :
           next.tenant = row.tenant /\ next.key = row.key
    BY <1>3, <1>5, <1>8 DEF Tables
  <2> QED
    BY <1>8, <2>1
<1> QED
  BY <1>6, <1>7, <1>8 DEF AnswerTrue

-----------------------------------------------------------------------------
(* The tables *)

\* The row that a request inserts is new.
LEMMA NewRow ==
    ASSUME ApiInv, NEW c \in Client, Inserted(c)
    PROVE  /\ input[c].op \in Creations /\ pending[c] = RowOf(c)
           /\ Id(c) = <<c, sent[c]>> /\ sent[c] \in 1 .. MaxSends
           /\ created[Id(c)] = 0
           /\ \A t \in Tables : \A row \in rows[t] : row.id # Id(c)
           /\ \A row \in rows[input[c].op] : ~Clash(input[c].op, RowOf(c), row)
<1>1. Known(c) /\ FreshIds
  BY DEF ApiInv
<1>2. InFlight(c) /\ sent[c] \in 1 .. MaxSends
  BY <1>1 DEF Known, Placed, Inserted, InFlight, Steps, ApiInv, TypeOK
<1>3. input[c].op \in Creations /\ pending[c] = RowOf(c)
  BY <1>1 DEF Known, Placed, InsertionKnown, Inserted, Creations, Tables
<1> QED
  BY <1>1, <1>2, <1>3 DEF Known, InsertionKnown, FreshIds, Id

\* The next version of a project leaves no gap, and other projects alone.
LEMMA NextVersion ==
    ASSUME NEW versions, IsFiniteSet(versions), Gapless(versions),
           NEW next, next \notin versions,
           next.number =
               Cardinality(VersionsOf(versions, next.tenant, next.project)) + 1
    PROVE  Gapless(versions \union {next})
<1> DEFINE all == versions \union {next}
<1> SUFFICES ASSUME NEW v \in all
             PROVE  LET siblings == VersionsOf(all, v.tenant, v.project)
                    IN  {row.number : row \in siblings}
                            = 1 .. Cardinality(siblings)
  BY DEF Gapless
<1> DEFINE siblings == VersionsOf(all, v.tenant, v.project)
           before == VersionsOf(versions, v.tenant, v.project)
<1>1. /\ IsFiniteSet(before) /\ Cardinality(before) \in Nat
      /\ {row.number : row \in before} = 1 .. Cardinality(before)
  BY SiblingsGapless
<1>2. CASE v.tenant = next.tenant /\ v.project = next.project
  <2>1. siblings = before \union {next} /\ next \notin before
    BY <1>2 DEF VersionsOf
  <2>2. Cardinality(siblings) = Cardinality(before) + 1
    BY <1>1, <2>1, FS_AddElement
  <2>3. next.number = Cardinality(before) + 1
    BY <1>2
  <2>4. {row.number : row \in siblings}
           = {row.number : row \in before} \union {next.number}
    BY <2>1
  <2> HIDE DEF siblings, before
  <2>5. {row.number : row \in siblings} = 1 .. (Cardinality(before) + 1)
    BY <1>1, <2>3, <2>4
  <2> QED
    BY <2>2, <2>5 DEF siblings
<1>3. CASE ~(v.tenant = next.tenant /\ v.project = next.project)
  <2>1. siblings = before
    BY <1>3 DEF VersionsOf
  <2> QED
    BY <1>1, <2>1
<1> QED
  BY <1>2, <1>3

\* A commit leaves the tables consistent: what a request has looked up, with or
\* without a lock, still holds.
LEMMA CommitStored ==
    ASSUME ApiInv, NEW c \in Client, NEW heard \in BOOLEAN, Commit(c, heard)
    PROVE  WellStored(rows)'
<1> DEFINE op == input[c].op
           new == RowOf(c)
<1>1. /\ op \in Creations /\ DOMAIN rows' = Tables
      /\ rows'[op] = rows[op] \union {new}
      /\ \A t \in Tables : t # op => rows'[t] = rows[t]
      /\ \A t \in Tables : \A row \in rows'[t] :
            row \in rows[t] \/ (t = op /\ row = new)
      /\ Grows
  BY CommitRows
<1>2. Inserted(c) /\ pc[c] = "commit" /\ Known(c) /\ WellStored(rows)
  BY DEF Commit, Inserted, ApiInv
<1>3. /\ \A t \in Tables : \A row \in rows[t] : row.id # new.id
      /\ \A row \in rows[op] : ~Clash(op, new, row) /\ ~Clash(op, row, new)
  BY <1>2, NewRow, RowOfClient, ClashSymmetric
<1>4. \A t \in Tables : \A row, other \in rows'[t] :
         row.id = other.id \/ Clash(t, row, other) => row = other
  BY <1>1, <1>2, <1>3 DEF WellStored
<1>5. IsFiniteSet(rows'["source"]) /\ Gapless(rows'["source"])
  <2>1. CASE op # "source"
    BY <1>1, <1>2, <2>1 DEF WellStored, Tables
  <2>2. CASE op = "source"
    <3>1. /\ new.tenant = input[c].tenant /\ new.project = input[c].project
          /\ new.number = draft[c].number
      BY <1>1, <2>2, RowColumns
    <3>2. draft[c].number = Cardinality(Siblings(c)) + 1
      BY <1>2, <2>2 DEF Known, UploadKnown
    <3>3. new \notin rows["source"]
      BY <1>3 DEF Tables
    <3>4. new.number =
             Cardinality(VersionsOf(rows["source"], new.tenant, new.project)) + 1
      BY <3>1, <3>2 DEF Siblings
    <3>5. rows'["source"] = rows["source"] \union {new}
      BY <1>1, <2>2
    <3>6. IsFiniteSet(rows["source"]) /\ Gapless(rows["source"])
      BY <1>2 DEF WellStored
    <3> HIDE DEF new
    <3> QED
      BY <3>3, <3>4, <3>5, <3>6, NextVersion, FS_AddElement
  <2> QED
    BY <2>1, <2>2
<1>6. \A job \in rows'["content"] :
          /\ DOMAIN job = JobColumns
          /\ job.fingerprint = computeRequestFingerprint(job)
          /\ job.status = "completed" => job.artifact \in Artifacts
  <2>1. op = "content" =>
          /\ DOMAIN new = JobColumns
          /\ new.fingerprint = computeRequestFingerprint(new)
          /\ new.status # "completed"
    BY <1>1, RowColumns DEF computeRequestFingerprint
  <2> HIDE DEF new
  <2> QED
    BY <1>1, <1>2, <2>1 DEF WellStored, Tables
<1>7. \A pub \in rows'["publish"] : Pinned(pub, rows'["content"])
  <2>1. ASSUME NEW pub \in rows["publish"]
        PROVE  Pinned(pub, rows'["content"])
    <3>1. PICK job \in rows["content"] :
            /\ job.id = pub.ref
            /\ job.tenant = pub.tenant /\ job.project = pub.project
            /\ job.status = "completed" /\ job.artifact = "styled"
            /\ pub.fingerprint[1] = job.id /\ pub.fingerprint[2] = job.artifact
      BY <1>2 DEF WellStored, Pinned
    <3>2. job \in rows'["content"]
      BY <1>1, <3>1 DEF Grows, Succeeds
    <3> QED
      BY <3>1, <3>2 DEF Pinned
  <2>2. ASSUME op = "publish"
        PROVE  Pinned(new, rows'["content"])
    <3>1. PICK job \in rows["content"] :
            /\ job.id = input[c].ref /\ job.tenant = input[c].tenant
            /\ job.project = input[c].project
            /\ job.status = "completed" /\ job.artifact = "styled"
            /\ draft[c].fingerprint =
                  computePublishJobRequestFingerprint(input[c], job)
      BY <1>2, <2>2 DEF Known, SourceKnown, SourceOf
    <3>2. job \in rows'["content"]
      BY <1>1, <2>2 DEF Tables
    <3>3. /\ new.tenant = input[c].tenant /\ new.project = input[c].project
          /\ new.ref = input[c].ref /\ new.fingerprint = draft[c].fingerprint
      BY <1>1, <2>2, RowColumns
    <3>4. new.fingerprint[1] = job.id /\ new.fingerprint[2] = job.artifact
      BY <3>1, <3>3 DEF computePublishJobRequestFingerprint
    <3> QED
      BY <3>1, <3>2, <3>3, <3>4 DEF Pinned
  <2> QED
    BY <1>1, <2>1, <2>2 DEF Tables
<1> QED
  BY <1>1, <1>4, <1>5, <1>6, <1>7 DEF WellStored

\* So does the end of a content job, whose publish jobs, if any, are not of it.
LEMMA JobEndsStored ==
    ASSUME ApiInv, NEW job \in rows["content"], NEW status, NEW artifact,
           JobEnds(job, status, artifact),
           status = "completed" => artifact \in Artifacts
    PROVE  WellStored(rows)'
<1> DEFINE next == Ending(job, status, artifact)
<1>1. /\ DOMAIN rows' = Tables
      /\ rows'["content"] = (rows["content"] \ {job}) \union {next}
      /\ rows'["source"] = rows["source"]
      /\ rows'["publish"] = rows["publish"]
      /\ Succeeds(job, next)
      /\ DOMAIN next = JobColumns
      /\ next.status = status /\ next.artifact = artifact
      /\ Grows
  BY JobEndsRows
<1> HIDE DEF next
<1>2. WellStored(rows)
  BY DEF ApiInv
<1>3. \A row : /\ Clash("content", next, row) <=> Clash("content", job, row)
               /\ Clash("content", row, next) <=> Clash("content", job, row)
  BY <1>1, ClashOfJobs DEF Succeeds
<1>4. \A row, other \in rows'["content"] :
         row.id = other.id \/ Clash("content", row, other) => row = other
  BY <1>1, <1>2, <1>3 DEF WellStored, Tables, Succeeds
<1>5. \A t \in Tables : \A row, other \in rows'[t] :
         row.id = other.id \/ Clash(t, row, other) => row = other
  BY <1>1, <1>2, <1>4 DEF WellStored, Tables
<1>6. \A row \in rows'["content"] :
          /\ DOMAIN row = JobColumns
          /\ row.fingerprint = computeRequestFingerprint(row)
          /\ row.status = "completed" => row.artifact \in Artifacts
  BY <1>1, <1>2 DEF WellStored, Succeeds, computeRequestFingerprint
<1>7. ASSUME NEW pub \in rows["publish"]
      PROVE  Pinned(pub, rows'["content"])
  <2>1. PICK row \in rows["content"] :
          /\ row.id = pub.ref
          /\ row.tenant = pub.tenant /\ row.project = pub.project
          /\ row.status = "completed" /\ row.artifact = "styled"
          /\ pub.fingerprint[1] = row.id /\ pub.fingerprint[2] = row.artifact
    BY <1>2 DEF WellStored, Pinned
  <2>2. row \in rows'["content"]
    BY <1>1, <2>1 DEF Grows, Succeeds
  <2> QED
    BY <2>1, <2>2 DEF Pinned
<1> QED
  BY <1>1, <1>2, <1>5, <1>6, <1>7 DEF WellStored

-----------------------------------------------------------------------------
(* What the other requests know *)

\* The project of an upload has its lock.
LEMMA LockKeyType ==
    ASSUME TypeOK, NEW c \in Client
    PROVE  LockKey(c) \in LockKeys
BY InputOf, Zenon DEF LockKey, LockKeys

\* What a request knows stays so while others work, if they add nothing to its
\* project under its lock and nothing that clashes with its insertion.
LEMMA KnownStays ==
    ASSUME ApiInv, NEW d \in Client, Stands(d), input' = input, Grows,
           Inserted(d) => \A row \in rows'[input[d].op] :
                             ~Clash(input[d].op, pending[d], row),
           input[d].op = "source" /\ pc[d] \in {"number", "insert", "commit"} =>
              VersionsOf(rows'["source"], input[d].tenant, input[d].project)
                 = Siblings(d)
    PROVE  Known(d)'
<1>1. Known(d) /\ TypeOK
  BY DEF ApiInv
<1>2. Placed(d)'
  BY <1>1 DEF Known, Placed, Stands, InFlight
<1>3. UploadKnown(d)'
  <2> SUFFICES ASSUME input[d].op = "source" PROVE UploadKnown(d)'
    BY DEF UploadKnown
  <2>1. pc[d] \in {"lookup", "number", "insert", "commit"} =>
           lock'[<<input[d].tenant, input[d].project>>] = d
    BY <1>1, LockKeyType DEF Known, UploadKnown, Stands, LockKey
  <2>2. ASSUME pc[d] \in {"number", "insert", "commit"}
        PROVE  /\ {row \in rows'["source"] :
                      /\ row.tenant = input[d].tenant
                      /\ row.project = input[d].project
                      /\ row.hash = ContentHash[input[d].text]} = {}
               /\ VersionsOf(rows'["source"], input[d].tenant, input[d].project)
                     = Siblings(d)
    <3>1. VersionsOf(rows'["source"], input[d].tenant, input[d].project)
             = Siblings(d)
      BY <2>2
    <3>2. \A row \in Siblings(d) : row.hash # ContentHash[input[d].text]
      BY <1>1, <2>2 DEF Known, UploadKnown, VersionOfContent, Siblings, VersionsOf
    <3> QED
      BY <3>1, <3>2 DEF VersionsOf
  <2> QED
    BY <1>1, <2>1, <2>2
       DEF Known, UploadKnown, VersionOfContent, Siblings, LockKey, Stands
<1>4. InsertionKnown(d)'
  <2>1. RowOf(d)' = RowOf(d) /\ Inserted(d)' = Inserted(d)
    BY DEF RowOf, SourceVersionRow, ContentJobRow, PublishJobRow, Id, Stands,
           FingerprintOf, Inserted
  <2> QED
    BY <1>1, <2>1 DEF Known, InsertionKnown, Stands
<1>5. SourceKnown(d)'
  <2>1. SourceOf(input[d], draft[d].fingerprint) =>
           SourceOf(input[d], draft[d].fingerprint)'
    BY SourceStays DEF SourceOf, Stands
  <2> QED
    BY <1>1, <2>1 DEF Known, SourceKnown, Stands
<1>6. RowKnown(d)'
  <2>1. ASSUME pc[d] = "recover"
        PROVE  Existing(input[d])' # {}
    <3>1. input[d].op \in {"content", "publish"}
      BY <1>1, <2>1 DEF Known, Placed
    <3>2. PICK row \in rows[input[d].op] :
             row.tenant = input[d].tenant /\ row.key = input[d].key
      BY <1>1, <2>1, <3>1 DEF Known, RowKnown, Existing, JobOfKey
    <3>3. \E next \in rows'[input[d].op] :
             next.tenant = input[d].tenant /\ next.key = input[d].key
      BY <3>1, <3>2 DEF Grows, Succeeds
    <3> QED
      BY <3>1, <3>3 DEF Existing, JobOfKey
  <2>2. ASSUME pc[d] = "list"
        PROVE  Visible(input[d])' # {}
    <3>1. PICK row \in rows[Table(input[d].op)] :
             row.id = input[d].ref /\ row.tenant = input[d].tenant
      BY <1>1, <2>2 DEF Known, RowKnown, Visible
    <3>2. Table(input[d].op) \in {"source", "content", "publish"}
      BY DEF Table
    <3>3. \E next \in rows'[Table(input[d].op)] :
             next.id = input[d].ref /\ next.tenant = input[d].tenant
      BY <3>1, <3>2 DEF Grows, Succeeds
    <3> QED
      BY <3>3 DEF Visible
  <2> QED
    BY <2>1, <2>2 DEF RowKnown, Stands
<1> QED
  BY <1>2, <1>3, <1>4, <1>5, <1>6 DEF Known

\* Nothing changes in the tables.
LEMMA NoGrowth ==
    ASSUME rows' = rows
    PROVE  Grows
BY DEF Grows, Succeeds

\* The other requests know what they knew when one commits: an upload under way
\* to the same project would hold the lock, a clashing insertion would wait.
LEMMA CommitKnown ==
    ASSUME ApiInv, NEW c \in Client, NEW heard \in BOOLEAN, Commit(c, heard),
           NEW d \in Client, d # c, Stands(d), input' = input
    PROVE  Known(d)'
<1> DEFINE op == input[c].op
<1>1. /\ op \in Creations /\ pending[c] = RowOf(c)
      /\ rows'[op] = rows[op] \union {RowOf(c)}
      /\ \A t \in Tables : t # op => rows'[t] = rows[t]
      /\ Grows
  BY CommitRows
<1>2. Known(c) /\ Known(d) /\ NoRace /\ pc[c] = "commit"
  BY DEF ApiInv, Commit
<1>3. ASSUME Inserted(d), NEW row \in rows'[input[d].op]
      PROVE  ~Clash(input[d].op, pending[d], row)
  <2>1. input[d].op \in Tables
    BY <1>3, NewRow DEF Creations
  <2>2. CASE row \in rows[input[d].op]
    BY <1>2, <1>3, <2>2 DEF Known, InsertionKnown
  <2>3. CASE input[d].op = op /\ row = pending[c]
    BY <1>2, <1>3, <2>3 DEF NoRace, Inserted
  <2> QED
    BY <1>1, <1>3, <2>1, <2>2, <2>3
<1>4. ASSUME input[d].op = "source", pc[d] \in {"number", "insert", "commit"}
      PROVE  VersionsOf(rows'["source"], input[d].tenant, input[d].project)
                = Siblings(d)
  <2>1. CASE op # "source"
    BY <1>1, <2>1 DEF Siblings, Tables
  <2>2. CASE op = "source"
    <3>1. lock[LockKey(c)] = c /\ lock[LockKey(d)] = d
      BY <1>2, <1>4, <2>2 DEF Known, UploadKnown
    <3>2. ~(/\ input[c].tenant = input[d].tenant
            /\ input[c].project = input[d].project)
      BY <3>1 DEF LockKey
    <3>3. /\ RowOf(c).tenant = input[c].tenant
          /\ RowOf(c).project = input[c].project
      BY <1>1, RowColumns
    <3> QED
      BY <1>1, <2>2, <3>2, <3>3 DEF Siblings, VersionsOf
  <2> QED
    BY <2>1, <2>2
<1> QED
  BY <1>1, <1>3, <1>4, KnownStays

\* And when a content job ends.
LEMMA JobEndsKnown ==
    ASSUME ApiInv, NEW job \in rows["content"], NEW status, NEW artifact,
           JobEnds(job, status, artifact), NEW d \in Client
    PROVE  Known(d)'
<1> DEFINE next == Ending(job, status, artifact)
<1>1. /\ rows'["content"] = (rows["content"] \ {job}) \union {next}
      /\ rows'["source"] = rows["source"]
      /\ rows'["publish"] = rows["publish"]
      /\ Succeeds(job, next)
      /\ Grows
  BY JobEndsRows
<1> HIDE DEF next
<1>2. input' = input /\ Stands(d)
  BY DEF JobEnds, Stands
<1>3. Known(d)
  BY DEF ApiInv
<1>4. ASSUME Inserted(d), NEW row \in rows'[input[d].op]
      PROVE  ~Clash(input[d].op, pending[d], row)
  <2>1. input[d].op \in Tables
    BY <1>4, NewRow DEF Creations
  <2>2. \A r \in rows[input[d].op] : ~Clash(input[d].op, pending[d], r)
    BY <1>3, <1>4 DEF Known, InsertionKnown
  <2>3. CASE input[d].op # "content"
    BY <1>1, <1>4, <2>1, <2>2, <2>3 DEF Tables
  <2>4. CASE input[d].op = "content"
    <3>1. Clash("content", pending[d], next) <=> Clash("content", pending[d], job)
      BY <1>1, ClashOfJobs DEF Succeeds
    <3> QED
      BY <1>1, <1>4, <2>2, <2>4, <3>1
  <2> QED
    BY <2>3, <2>4
<1> QED
  BY <1>1, <1>2, <1>4, KnownStays DEF Siblings

-----------------------------------------------------------------------------
(* The answers *)

Statuses == {200, 201, 202, 400, 404, 409, 413, 503}

\* A refusal that is no conflict about a key says nothing about rows.
LEMMA RefusalTrue ==
    ASSUME NEW i \in Inputs, NEW error,
           \/ error.class \in {"too-large", "bad-json", "validation", "not-found"}
           \/ error.class = "conflict" /\ error.code \notin ConflictCodes
    PROVE  AnswerTrue(Refused(i, error)) /\ Refused(i, error).status \in Statuses
<1> DEFINE a == Refused(i, error)
<1>1. a.input = i /\ a.status = mapError(error).status
      /\ a.code = mapError(error).code
  BY DEF Refused, Answer
<1>2. mapError(error).status \in {413, 400, 404, 409}
      /\ mapError(error).code \notin ConflictCodes
  BY DEF mapError, ConflictCodes, ConflictCode
<1> HIDE DEF a
<1>3. /\ a.status \in Statuses
      /\ a.status # 503 /\ a.status \notin {200, 201, 202}
      /\ a.code \notin ConflictCodes
  BY <1>1, <1>2 DEF Statuses
<1> QED
  BY <1>1, <1>3 DEF AnswerTrue, a

\* The answer to a request that a fault has hit.
LEMMA BrokenTrue ==
    ASSUME NEW i \in Inputs
    PROVE  AnswerTrue(Broken(i)) /\ Broken(i).status \in Statuses
<1> DEFINE a == Broken(i)
<1>1. /\ a.input = i /\ a.status = 503 /\ a.fault = TRUE
      /\ a.code = "DATABASE_UNAVAILABLE"
  BY DEF Broken, Refused, Answer, mapError, DatabaseUnavailable
<1>2. "DATABASE_UNAVAILABLE" \notin ConflictCodes
  BY DEF ConflictCodes, ConflictCode
<1> HIDE DEF a
<1> QED
  BY <1>1, <1>2 DEF AnswerTrue, Statuses, a

\* The fields of the other answers.
LEMMA CreatedFields ==
    ASSUME NEW i, i.op \in Creations, NEW id
    PROVE  LET a == Created(i, id) IN
           /\ a.input = i /\ a.id = id /\ a.status \in {201, 202}
           /\ a.status \in Statuses /\ a.status # 503 /\ a.status # 200
           /\ a.code \notin ConflictCodes
BY DEF Created, Answer, Statuses, ConflictCodes, ConflictCode

LEMMA FoundFields ==
    ASSUME NEW i, NEW id, NEW shown
    PROVE  LET a == Found(i, id, shown) IN
           /\ a.input = i /\ a.id = id /\ a.status = 200 /\ a.shown = shown
           /\ a.status \in Statuses /\ a.code \notin ConflictCodes
BY DEF Found, Answer, Statuses, ConflictCodes, ConflictCode

LEMMA ConflictFields ==
    ASSUME NEW i, NEW op
    PROVE  LET a == Refused(i, ConflictError(ConflictCode(op))) IN
           /\ a.input = i /\ a.status = 409 /\ a.status \in Statuses
BY DEF Refused, Answer, mapError, ConflictError, Statuses

\* The row that was there first is the answer to a second use of a key, or a
\* conflict, whichever is true.
LEMMA ReplayedTrue ==
    ASSUME ApiInv, NEW c \in Client, pc[c] \in {"lookup", "recover"},
           NEW row \in Existing(input[c])
    PROVE  AnswerTrue(Replayed(c, row)) /\ Replayed(c, row).status \in Statuses
<1> DEFINE i == input[c]
           a == Replayed(c, row)
<1>1. /\ Known(c) /\ WellStored(rows) /\ i \in Inputs
      /\ i.op \in Creations
  BY InputOf DEF ApiInv, Known, Placed, Creations, Tables
<1>2. CASE i.op = "source"
  <2>1. /\ row \in rows["source"] /\ row.tenant = i.tenant
        /\ row.project = i.project /\ row.hash = ContentHash[i.text]
    BY <1>2 DEF Existing, VersionOfContent
  <2>2. a = Created(i, row.id)
    BY <1>2 DEF Replayed
  <2>3. /\ a.input = i /\ a.id = row.id /\ a.status \in {201, 202}
        /\ a.status \in Statuses /\ a.status # 503 /\ a.status # 200
        /\ a.code \notin ConflictCodes
    BY <1>1, <2>2, CreatedFields
  <2>4. Table(i.op) = "source"
    BY <1>2 DEF Table
  <2> HIDE DEF a
  <2>5. Backs(row, a)
    BY <1>2, <2>1, <2>3 DEF Backs
  <2> QED
    BY <1>1, <2>1, <2>3, <2>4, <2>5 DEF AnswerTrue, a
<1>3. CASE i.op \in {"content", "publish"}
  <2>1. /\ row \in rows[i.op] /\ row.tenant = i.tenant /\ row.key = i.key
        /\ i.op # "source"
    BY <1>3 DEF Existing, JobOfKey
  <2>2. Table(i.op) = i.op
    BY <1>3 DEF Table
  <2>3. Fingerprinted(i, FingerprintOf(c))
    <3>1. i.op = "publish" => SourceOf(i, draft[c].fingerprint)
      BY <1>1 DEF Known, SourceKnown
    <3> QED
      BY <1>3, <3>1 DEF Fingerprinted, FingerprintOf
  <2>4. CASE row.fingerprint # FingerprintOf(c)
    <3>1. a = Refused(i, ConflictError(ConflictCode(i.op)))
      BY <2>1, <2>4 DEF Replayed
    <3>2. /\ a.input = i /\ a.status = 409 /\ a.status \in Statuses
      BY <3>1, ConflictFields
    <3> HIDE DEF a
    <3>3. Refutes(row, a)
      BY <2>1, <2>3, <2>4, <3>2 DEF Refutes
    <3>4. AnswerTrue(a)
      BY <1>1, <1>3, <2>1, <3>2, <3>3 DEF AnswerTrue
    <3> QED
      BY <3>2, <3>4 DEF a
  <2>5. CASE row.fingerprint = FingerprintOf(c)
    <3>1. a = Created(i, row.id)
      BY <2>5 DEF Replayed
    <3>2. /\ a.input = i /\ a.id = row.id /\ a.status \in {201, 202}
          /\ a.status \in Statuses /\ a.status # 503 /\ a.status # 200
          /\ a.code \notin ConflictCodes
      BY <1>1, <3>1, CreatedFields
    <3>3. row.project = i.project
      <4>1. CASE i.op = "content"
        <5>1. <<row.tenant, row.project, row.ref>> = <<i.tenant, i.project, i.ref>>
          BY <1>1, <2>1, <2>5, <4>1
             DEF WellStored, FingerprintOf, computeRequestFingerprint
        <5> QED
          BY <5>1
      <4>2. CASE i.op = "publish"
        <5>1. PICK job \in rows["content"] :
                /\ job.id = i.ref /\ job.project = i.project
                /\ row.fingerprint = computePublishJobRequestFingerprint(i, job)
          BY <1>1, <2>5, <4>2 DEF Known, SourceKnown, SourceOf, FingerprintOf
        <5>2. PICK other \in rows["content"] :
                /\ other.project = row.project
                /\ row.fingerprint[1] = other.id
          BY <1>1, <2>1, <4>2 DEF WellStored, Pinned
        <5>3. row.fingerprint[1] = job.id
          BY <5>1 DEF computePublishJobRequestFingerprint
        <5>4. job = other
          BY <1>1, <5>2, <5>3 DEF WellStored, Tables
        <5> QED
          BY <5>1, <5>2, <5>4
      <4> QED
        BY <1>3, <4>1, <4>2
    <3> HIDE DEF a
    <3>4. Backs(row, a)
      BY <2>1, <2>3, <2>5, <3>2, <3>3 DEF Backs
    <3>5. AnswerTrue(a)
      BY <1>1, <2>1, <2>2, <3>2, <3>4 DEF AnswerTrue
    <3> QED
      BY <3>2, <3>5 DEF a
  <2> QED
    BY <2>4, <2>5
<1> QED
  BY <1>1, <1>2, <1>3 DEF Creations, Tables

\* A row that is shown is there, with its creation if events are.
LEMMA FoundTrue ==
    ASSUME ApiInv, NEW c \in Client, input[c].op \in Reads \union Listings,
           Visible(input[c]) # {}, NEW shown,
           input[c].op \in Listings => shown = created[input[c].ref]
    PROVE  /\ AnswerTrue(Found(input[c], input[c].ref, shown))
           /\ Found(input[c], input[c].ref, shown).status \in Statuses
<1> DEFINE i == input[c]
           a == Found(i, i.ref, shown)
<1>1. i \in Inputs /\ EventsStored
  BY InputOf DEF ApiInv
<1>2. /\ a.input = i /\ a.id = i.ref /\ a.status = 200 /\ a.shown = shown
      /\ a.status \in Statuses /\ a.code \notin ConflictCodes
  BY FoundFields
<1> HIDE DEF a
<1>3. PICK row \in rows[Table(i.op)] : row.id = i.ref /\ row.tenant = i.tenant
  BY DEF Visible
<1>4. i.op \notin Creations /\ i.op # "source" /\ i.op \notin {"content", "publish"}
  BY DEF Reads, Listings, Creations, Tables
<1>5. Backs(row, a)
  BY <1>2, <1>3, <1>4 DEF Backs
<1>6. i.op \in Listings => shown = 1
  <2>1. i.op \in Listings => Table(i.op) \in {"content", "publish"}
    BY DEF Listings, Table
  <2> QED
    BY <1>1, <1>3, <2>1 DEF EventsStored
<1> QED
  BY <1>1, <1>2, <1>3, <1>5, <1>6 DEF AnswerTrue, a

-----------------------------------------------------------------------------
(* The steps *)

\* Who is not at work knows nothing, and owes nothing.
LEMMA IdleKnown ==
    ASSUME NEW c \in Client, pc[c] \in {"ready", "done", "lost"},
           pending[c] = NoRow
    PROVE  Known(c)
BY DEF Known, Placed, UploadKnown, InsertionKnown, SourceKnown, RowKnown,
       Inserted, InFlight, Steps

\* The rest of the invariant, when a step of c adds no row: answers stay true,
\* identifiers stay fresh, the others know what they knew.
LEMMA RestOK ==
    ASSUME ApiInv, NEW c \in Client, input' = input, rows' = rows,
           created' = created, TypeOK', Known(c)',
           \A d \in Client \ {c} : Stands(d),
           sent'[c] >= sent[c],
           InFlight(c)' => InFlight(c) \/ sent'[c] > sent[c],
           Inserted(c)' => Inserted(c) /\ pending'[c] = pending[c],
           \A a \in answers' \ answers : AnswerTrue(a)
    PROVE  ApiInv'
<1>1. Grows
  BY NoGrowth
<1>2. \A d \in Client : Known(d)'
  <2>1. ASSUME NEW d \in Client \ {c} PROVE Known(d)'
    BY <1>1, <2>1, KnownStays DEF Siblings, ApiInv, Known, InsertionKnown
  <2> QED
    BY <2>1
<1>3. WellStored(rows)'
  BY DEF ApiInv
<1>4. NoRace'
  <2> SUFFICES ASSUME NEW d \in Client, NEW e \in Client,
                      d # e, Inserted(d)', Inserted(e)',
                      input[d].op = input[e].op
               PROVE  ~Clash(input[d].op, pending'[d], pending'[e])
    BY DEF NoRace
  <2>1. \A x \in Client : Inserted(x)' => Inserted(x) /\ pending'[x] = pending[x]
    BY DEF Stands, Inserted
  <2> QED
    BY <2>1 DEF ApiInv, NoRace
<1>5. FreshIds'
  <2> SUFFICES ASSUME NEW d \in Client, NEW n \in 1 .. MaxSends,
                      n > sent'[d] \/ (n = sent'[d] /\ InFlight(d)')
               PROVE  /\ created[<<d, n>>] = 0
                      /\ \A t \in Tables : \A row \in rows[t] : row.id # <<d, n>>
    BY DEF FreshIds
  <2>1. sent'[d] \in Nat /\ sent[d] \in Nat
    BY DEF ApiInv, TypeOK
  <2>2. n > sent[d] \/ (n = sent[d] /\ InFlight(d))
    <3>1. CASE d = c
      BY <2>1, <3>1
    <3>2. CASE d # c
      BY <2>1, <3>2 DEF Stands, InFlight
    <3> QED
      BY <3>1, <3>2
  <2> QED
    BY <2>2 DEF ApiInv, FreshIds
<1>6. EventsStored'
  BY DEF ApiInv, EventsStored
<1>7. \A a \in answers' : AnswerTrue(a)'
  BY <1>1, AnswerStays DEF ApiInv
<1> QED
  BY <1>2, <1>3, <1>4, <1>5, <1>6, <1>7 DEF ApiInv

\* A true answer that changes no row.
LEMMA ReplyOK ==
    ASSUME ApiInv, NEW c \in Client, NEW a, Reply(c, a), AnswerTrue(a),
           a.status \in Statuses, input' = input, rows' = rows,
           created' = created, sent' \in [Client -> 0 .. MaxSends],
           sent'[c] >= sent[c], \A d \in Client \ {c} : sent'[d] = sent[d],
           faults' \in 0 .. MaxFaults
    PROVE  ApiInv'
<1>1. TypeOK /\ answers' = answers \union {a}
  BY DEF ApiInv, Reply
<1>2. Ended(c) /\ \A d \in Client \ {c} : Stands(d)
  BY <1>1, ReplyShape
<1>3. Known(c)'
  BY <1>2, IdleKnown DEF Ended, Known, Placed, UploadKnown, InsertionKnown,
     SourceKnown, RowKnown, Inserted, InFlight, Steps
<1>4. DOMAIN NoDraft = {"fingerprint", "number"} /\ NoDraft.number = 0
  BY DEF NoDraft
<1>5. /\ \A d \in Client : DOMAIN draft'[d] = DOMAIN NoDraft
                           /\ draft'[d].number \in Nat
      /\ \A d \in Client : pending'[d] = NoRow \/ pending'[d].id = Id(d)'
  BY <1>1, <1>2, <1>4 DEF Ended, Stands, TypeOK, Id
<1>6. TypeOK'
  BY <1>1, <1>2, <1>5 DEF Ended, TypeOK, Statuses
<1>7. ~InFlight(c)' /\ ~Inserted(c)'
  BY <1>2 DEF Ended, InFlight, Inserted, Steps
<1> QED
  BY <1>1, <1>2, <1>3, <1>6, <1>7, RestOK

\* A request arrives.
LEMMA ReceiveOK ==
    ASSUME ApiInv, NEW c \in Client, Send(c)
    PROVE  ApiInv'
<1>1. PICK step \in {"lock", "reference", "eligible", "read"} :
         /\ Receive(c, step)
         /\ step = "lock" => input[c].op = "source"
         /\ step = "reference" => input[c].op = "content"
         /\ step = "eligible" => input[c].op = "publish"
         /\ step = "read" => input[c].op \in Reads \union Listings
  BY DEF Send, PostSourceVersion, PostContentJob, PostPublishJob, GetRequest
<1>2. TypeOK /\ input[c] \in Inputs /\ Known(c) /\ ~InFlight(c)
  BY <1>1, InputOf DEF ApiInv, Receive
<1>3. /\ sent' \in [Client -> 0 .. MaxSends] /\ sent'[c] = sent[c] + 1
      /\ sent[c] \in Nat
      /\ \A d \in Client \ {c} : sent'[d] = sent[d]
      /\ input' = input /\ rows' = rows /\ created' = created
      /\ faults' \in 0 .. MaxFaults
  BY <1>1, <1>2 DEF Receive, TypeOK
<1>4. CASE Stopped(input[c])
  <2>1. Reply(c, Refused(input[c], StopError(input[c])))
    BY <1>1, <1>4 DEF Receive
  <2>2. StopError(input[c]).class \in {"too-large", "bad-json", "validation"}
    BY DEF StopError, ValidationError
  <2>3. /\ AnswerTrue(Refused(input[c], StopError(input[c])))
        /\ Refused(input[c], StopError(input[c])).status \in Statuses
    BY <1>2, <2>2, RefusalTrue
  <2> QED
    BY <1>3, <2>1, <2>3, ReplyOK
<1>5. CASE ~Stopped(input[c])
  <2>1. /\ pc' = [pc EXCEPT ![c] = step] /\ answers' = answers
        /\ draft' = draft /\ pending' = pending /\ lock' = lock
    BY <1>1, <1>5 DEF Receive, Continue
  <2>2. pending[c] = NoRow
    BY <1>2 DEF Known, InsertionKnown, Inserted, InFlight, Steps
  <2>3. pc'[c] = step /\ \A d \in Client \ {c} : pc'[d] = pc[d]
    BY <1>2, <2>1 DEF TypeOK
  <2>4. TypeOK'
    <3>1. \A d \in Client : pending'[d] = NoRow \/ pending'[d].id = Id(d)'
      BY <1>2, <1>3, <2>1, <2>2 DEF TypeOK, Id
    <3>2. pc' \in [Client -> Steps \union {"ready", "done", "lost"}]
      BY <1>2, <2>1 DEF TypeOK, Steps
    <3> QED
      BY <1>2, <1>3, <2>1, <3>1, <3>2 DEF TypeOK
  <2>5. Known(c)'
    BY <1>1, <1>2, <1>3, <2>1, <2>2, <2>3
       DEF Known, Placed, UploadKnown, InsertionKnown, SourceKnown, RowKnown,
           Inserted, InFlight, Steps
  <2>6. \A d \in Client \ {c} : Stands(d)
    BY <1>3, <2>1, <2>3 DEF Stands
  <2> QED
    BY <1>1, <1>3, <2>1, <2>3, <2>4, <2>5, <2>6, RestOK DEF Inserted
<1> QED
  BY <1>4, <1>5

\* A request goes on with its next statement, with no row of its own yet.
LEMMA ContinueOK ==
    ASSUME ApiInv, NEW c \in Client, InFlight(c),
           NEW step \in Steps \ {"event", "commit"}, Continue(c, step),
           input' = input, rows' = rows, created' = created, sent' = sent,
           pending' = pending, faults' = faults,
           lock' \in [LockKeys -> Client \union {NoClient}],
           DOMAIN draft' = Client, DOMAIN draft'[c] = DOMAIN NoDraft,
           draft'[c].number \in Nat,
           \A d \in Client \ {c} : Stands(d),
           Known(c)'
    PROVE  ApiInv'
<1>1. TypeOK /\ pc' = [pc EXCEPT ![c] = step] /\ answers' = answers
  BY DEF ApiInv, Continue
<1>2. pc'[c] = step /\ pc' \in [Client -> Steps \union {"ready", "done", "lost"}]
  BY <1>1 DEF TypeOK
<1>3. TypeOK'
  <2>1. \A d \in Client : DOMAIN draft'[d] = DOMAIN NoDraft
                          /\ draft'[d].number \in Nat
    BY <1>1 DEF TypeOK, Stands
  <2> QED
    BY <1>1, <1>2, <2>1 DEF TypeOK, Id
<1>4. sent[c] \in Nat /\ ~Inserted(c)'
  BY <1>1, <1>2 DEF TypeOK, Inserted
<1> QED
  BY <1>1, <1>3, <1>4, RestOK

\* createPublishSourceSnapshot accepts completed jobs with a styled artifact.
LEMMA Eligible ==
    ASSUME ApiInv, NEW job \in rows["content"], NEW project
    PROVE  /\ SourceRefusal(job, project) \notin ConflictCodes
           /\ SourceRefusal(job, project) = "none" =>
                 /\ job.project = project /\ job.status = "completed"
                 /\ job.artifact = "styled"
<1>1. job.status = "completed" => job.artifact \in Artifacts
  BY DEF ApiInv, WellStored
<1> QED
  BY <1>1 DEF SourceRefusal, ConflictCodes, ConflictCode, Artifacts

\* The source of a publish job is read before the transaction.
LEMMA ReadSourceJobOK ==
    ASSUME ApiInv, NEW c \in Client, ReadSourceJob(c)
    PROVE  ApiInv'
<1> DEFINE i == input[c]
           jobs == {job \in rows["content"] : job.id = i.ref /\ job.tenant = i.tenant}
<1>1. /\ TypeOK /\ i \in Inputs /\ Known(c) /\ pc[c] = "eligible" /\ InFlight(c)
      /\ i.op = "publish" /\ sent[c] \in Nat /\ sent[c] >= 1
  BY InputOf DEF ApiInv, TypeOK, ReadSourceJob, InFlight, Steps, Known, Placed
<1>2. /\ sent' = sent /\ sent' \in [Client -> 0 .. MaxSends]
      /\ \A d \in Client \ {c} : sent'[d] = sent[d]
      /\ input' = input /\ rows' = rows /\ created' = created
      /\ faults' = faults /\ faults' \in 0 .. MaxFaults
  BY <1>1 DEF ReadSourceJob, TypeOK
<1>3. \A d \in Client \ {c} : Stands(d)
  BY <1>1, OthersStand DEF ClientStep, Step
<1>4. CASE Reply(c, Refused(i, NotFoundError))
  <2>1. NotFoundError.class = "not-found"
    BY DEF NotFoundError
  <2> QED
    BY <1>1, <1>2, <1>4, <2>1, RefusalTrue, ReplyOK
<1>5. ASSUME NEW job \in jobs, SourceRefusal(job, i.project) # "none",
             Reply(c, Refused(i, ConflictError(SourceRefusal(job, i.project))))
      PROVE  ApiInv'
  <2>1. SourceRefusal(job, i.project) \notin ConflictCodes
    BY Eligible
  <2>2. /\ ConflictError(SourceRefusal(job, i.project)).class = "conflict"
        /\ ConflictError(SourceRefusal(job, i.project)).code
              = SourceRefusal(job, i.project)
    BY DEF ConflictError
  <2> QED
    BY <1>1, <1>2, <1>5, <2>1, <2>2, RefusalTrue, ReplyOK
<1>6. ASSUME NEW job \in jobs, SourceRefusal(job, i.project) = "none",
             draft' = [draft EXCEPT ![c].fingerprint =
                          computePublishJobRequestFingerprint(i, job)],
             Continue(c, "reference"), UNCHANGED <<pending, lock>>
      PROVE  ApiInv'
  <2>1. /\ job \in rows["content"] /\ job.id = i.ref /\ job.tenant = i.tenant
        /\ job.project = i.project /\ job.status = "completed"
        /\ job.artifact = "styled"
    BY <1>6, Eligible
  <2>2. /\ DOMAIN draft = Client /\ DOMAIN draft[c] = {"fingerprint", "number"}
        /\ DOMAIN NoDraft = {"fingerprint", "number"}
        /\ draft[c].number \in Nat
    BY <1>1 DEF TypeOK, NoDraft
  <2>3. /\ DOMAIN draft' = Client /\ DOMAIN draft'[c] = DOMAIN NoDraft
        /\ draft'[c].number \in Nat
        /\ draft'[c].fingerprint = computePublishJobRequestFingerprint(i, job)
    BY <1>6, <2>2
  <2>4. pc'[c] = "reference" /\ pending[c] = NoRow
    BY <1>1, <1>6 DEF Continue, TypeOK, Known, InsertionKnown, Inserted
  <2>5. SourceKnown(c)'
    BY <1>2, <2>1, <2>3 DEF SourceKnown, SourceOf
  <2>6. Known(c)'
    BY <1>1, <1>2, <1>6, <2>4, <2>5
       DEF Known, Placed, UploadKnown, InsertionKnown, RowKnown, Inserted
  <2>7. "reference" \in Steps \ {"event", "commit"}
        /\ lock' \in [LockKeys -> Client \union {NoClient}]
    BY <1>1, <1>6 DEF Steps, TypeOK
  <2> QED
    BY <1>1, <1>2, <1>3, <1>6, <2>3, <2>6, <2>7, ContinueOK
<1> QED
  BY <1>4, <1>5, <1>6 DEF ReadSourceJob

\* The advisory lock: from here on the versions of the project are the upload's.
LEMMA TakeLockOK ==
    ASSUME ApiInv, NEW c \in Client, TakeLock(c)
    PROVE  ApiInv'
<1>1. /\ TypeOK /\ Known(c) /\ pc[c] = "lock" /\ InFlight(c)
      /\ input[c].op = "source" /\ LockKey(c) \in LockKeys /\ sent[c] >= 1
  BY LockKeyType DEF ApiInv, TakeLock, InFlight, Steps, Known, Placed
<1>2. /\ input' = input /\ rows' = rows /\ created' = created /\ sent' = sent
      /\ pending' = pending /\ faults' = faults /\ draft' = draft
      /\ Continue(c, "lookup")
      /\ lock' = [lock EXCEPT ![LockKey(c)] = c]
  BY DEF TakeLock, LockKey
<1>3. \A d \in Client \ {c} : Stands(d)
  BY <1>1, OthersStand DEF ClientStep, Step
<1>4. /\ lock' \in [LockKeys -> Client \union {NoClient}]
      /\ lock'[LockKey(c)] = c
  BY <1>1, <1>2 DEF TypeOK
<1>5. pc'[c] = "lookup" /\ pending[c] = NoRow
  BY <1>1, <1>2 DEF Continue, TypeOK, Known, InsertionKnown, Inserted
<1>6. Known(c)'
  BY <1>1, <1>2, <1>4, <1>5
     DEF Known, Placed, UploadKnown, InsertionKnown, SourceKnown, RowKnown,
         Inserted, LockKey, Creations, Tables
<1>7. /\ "lookup" \in Steps \ {"event", "commit"}
      /\ DOMAIN draft' = Client /\ DOMAIN draft'[c] = DOMAIN NoDraft
      /\ draft'[c].number \in Nat
  BY <1>1, <1>2 DEF Steps, TypeOK
<1> QED
  BY <1>1, <1>2, <1>3, <1>4, <1>6, <1>7, ContinueOK

\* The reference of a job is found or not.
LEMMA CheckReferenceOK ==
    ASSUME ApiInv, NEW c \in Client, CheckSourceVersion(c) \/ CheckSourceJob(c)
    PROVE  ApiInv'
<1>1. /\ TypeOK /\ input[c] \in Inputs /\ Known(c) /\ pc[c] = "reference"
      /\ InFlight(c) /\ sent[c] \in Nat /\ sent[c] >= 1
      /\ input[c].op \in {"content", "publish"}
  BY InputOf DEF ApiInv, TypeOK, CheckSourceVersion, CheckSourceJob,
                 CheckReference, InFlight, Steps, Known, Placed
<1>2. /\ sent' = sent /\ sent' \in [Client -> 0 .. MaxSends]
      /\ \A d \in Client \ {c} : sent'[d] = sent[d]
      /\ input' = input /\ rows' = rows /\ created' = created
      /\ faults' = faults /\ faults' \in 0 .. MaxFaults
  BY <1>1 DEF CheckSourceVersion, CheckSourceJob, CheckReference, TypeOK
<1>3. \A d \in Client \ {c} : Stands(d)
  BY <1>1, OthersStand DEF ClientStep, Step
<1>4. CASE Reply(c, Refused(input[c], NotFoundError))
  <2>1. NotFoundError.class = "not-found"
    BY DEF NotFoundError
  <2> QED
    BY <1>1, <1>2, <1>4, <2>1, RefusalTrue, ReplyOK
<1>5. CASE Continue(c, "lookup") /\ UNCHANGED <<draft, pending, lock>>
  <2>1. pc'[c] = "lookup" /\ pending[c] = NoRow
    BY <1>1, <1>5 DEF Continue, TypeOK, Known, InsertionKnown, Inserted
  <2>2. SourceKnown(c)'
    BY <1>1, <1>2, <1>5 DEF Known, SourceKnown, SourceOf
  <2>3. Known(c)'
    BY <1>1, <1>2, <1>5, <2>1, <2>2
       DEF Known, Placed, UploadKnown, InsertionKnown, RowKnown, Inserted,
           Creations, Tables
  <2>4. /\ "lookup" \in Steps \ {"event", "commit"}
        /\ lock' \in [LockKeys -> Client \union {NoClient}]
        /\ DOMAIN draft' = Client /\ DOMAIN draft'[c] = DOMAIN NoDraft
        /\ draft'[c].number \in Nat
    BY <1>1, <1>5 DEF Steps, TypeOK
  <2> QED
    BY <1>1, <1>2, <1>3, <1>5, <2>3, <2>4, ContinueOK
<1> QED
  BY <1>4, <1>5 DEF CheckSourceVersion, CheckSourceJob, CheckReference

\* What is there already is the answer.
LEMMA FindExistingOK ==
    ASSUME ApiInv, NEW c \in Client,
           FindVersion(c) \/ FindContentJob(c) \/ FindPublishJob(c)
    PROVE  ApiInv'
<1>1. /\ TypeOK /\ Known(c) /\ pc[c] = "lookup" /\ InFlight(c)
      /\ sent[c] \in Nat /\ sent[c] >= 1
  BY DEF ApiInv, TypeOK, FindVersion, FindContentJob, FindPublishJob,
         FindExisting, InFlight, Steps, Known, Placed
<1>2. /\ sent' = sent /\ sent' \in [Client -> 0 .. MaxSends]
      /\ \A d \in Client \ {c} : sent'[d] = sent[d]
      /\ input' = input /\ rows' = rows /\ created' = created
      /\ faults' = faults /\ faults' \in 0 .. MaxFaults
  BY <1>1 DEF FindVersion, FindContentJob, FindPublishJob, FindExisting, TypeOK
<1>3. \A d \in Client \ {c} : Stands(d)
  BY <1>1, OthersStand DEF ClientStep, Step
<1>4. ASSUME NEW row \in Existing(input[c]), Reply(c, Replayed(c, row))
      PROVE  ApiInv'
  BY <1>1, <1>2, <1>4, ReplayedTrue, ReplyOK
<1>5. ASSUME Existing(input[c]) = {}, UNCHANGED <<draft, pending, lock>>,
             NEW step \in {"number", "insert"}, Continue(c, step),
             step = "number" <=> input[c].op = "source"
      PROVE  ApiInv'
  <2>1. pc'[c] = step /\ pending[c] = NoRow
    BY <1>1, <1>5 DEF Continue, TypeOK, Known, InsertionKnown, Inserted
  <2>2. SourceKnown(c)'
    BY <1>1, <1>2, <1>5 DEF Known, SourceKnown, SourceOf
  <2>3. UploadKnown(c)'
    <3>1. input[c].op = "source" =>
             lock[LockKey(c)] = c /\ VersionOfContent(input[c]) = {}
      BY <1>1, <1>5 DEF Known, UploadKnown, Existing
    <3> QED
      BY <1>2, <1>5, <2>1, <3>1 DEF UploadKnown, LockKey, VersionOfContent
  <2>4. Known(c)'
    BY <1>1, <1>2, <1>5, <2>1, <2>2, <2>3
       DEF Known, Placed, InsertionKnown, RowKnown, Inserted
  <2>5. /\ step \in Steps \ {"event", "commit"}
        /\ lock' \in [LockKeys -> Client \union {NoClient}]
        /\ DOMAIN draft' = Client /\ DOMAIN draft'[c] = DOMAIN NoDraft
        /\ draft'[c].number \in Nat
    BY <1>1, <1>5 DEF Steps, TypeOK
  <2> QED
    BY <1>1, <1>2, <1>3, <1>5, <2>4, <2>5, ContinueOK
<1> QED
  BY <1>4, <1>5 DEF FindVersion, FindContentJob, FindPublishJob, FindExisting

\* The next number is one more than there are versions.
LEMMA LatestVersionOK ==
    ASSUME ApiInv, NEW c \in Client, LatestVersion(c)
    PROVE  ApiInv'
<1> DEFINE numbers == {row.number : row \in Siblings(c)}
<1>1. /\ TypeOK /\ Known(c) /\ pc[c] = "number" /\ InFlight(c)
      /\ input[c].op = "source" /\ sent[c] >= 1 /\ WellStored(rows)
  BY DEF ApiInv, LatestVersion, InFlight, Steps, Known, Placed
<1>2. /\ input' = input /\ rows' = rows /\ created' = created /\ sent' = sent
      /\ pending' = pending /\ faults' = faults /\ lock' = lock
      /\ Continue(c, "insert")
      /\ draft' = [draft EXCEPT ![c].number = Max(numbers \union {0}) + 1]
  BY DEF LatestVersion, Siblings
<1>3. \A d \in Client \ {c} : Stands(d)
  BY <1>1, OthersStand DEF ClientStep, Step
<1>4. Cardinality(Siblings(c)) \in Nat /\ numbers = 1 .. Cardinality(Siblings(c))
  BY <1>1, SiblingsGapless DEF WellStored, Siblings
<1> HIDE DEF numbers
<1>5. Max(numbers \union {0}) = Cardinality(Siblings(c))
  BY <1>4, MaxOfRange
<1>6. /\ DOMAIN draft = Client /\ DOMAIN draft[c] = {"fingerprint", "number"}
      /\ DOMAIN NoDraft = {"fingerprint", "number"}
  BY <1>1 DEF TypeOK, NoDraft
<1>7. /\ DOMAIN draft' = Client /\ DOMAIN draft'[c] = DOMAIN NoDraft
      /\ draft'[c].number = Cardinality(Siblings(c)) + 1
      /\ draft'[c].number \in Nat
  BY <1>2, <1>4, <1>5, <1>6
<1>8. pc'[c] = "insert" /\ pending[c] = NoRow
  BY <1>1, <1>2 DEF Continue, TypeOK, Known, InsertionKnown, Inserted
<1>9. UploadKnown(c)'
  BY <1>1, <1>2, <1>7, <1>8
     DEF Known, UploadKnown, LockKey, VersionOfContent, Siblings
<1>10. Known(c)'
  BY <1>1, <1>2, <1>8, <1>9
     DEF Known, Placed, InsertionKnown, SourceKnown, RowKnown, Inserted,
         Creations, Tables
<1>11. /\ "insert" \in Steps \ {"event", "commit"}
       /\ lock' \in [LockKeys -> Client \union {NoClient}]
  BY <1>1, <1>2 DEF Steps, TypeOK
<1> QED
  BY <1>1, <1>2, <1>3, <1>7, <1>10, <1>11, ContinueOK

\* An upload that holds the lock and has looked clashes with no version.
LEMMA UploadsDoNotClash ==
    ASSUME ApiInv, NEW c \in Client, pc[c] = "insert", input[c].op = "source",
           NEW other \in rows["source"]
    PROVE  ~Clash("source", RowOf(c), other)
<1> SUFFICES ASSUME Clash("source", RowOf(c), other)
             PROVE  FALSE
  OBVIOUS
<1>1. Known(c) /\ WellStored(rows)
  BY DEF ApiInv
<1>2. /\ RowOf(c).tenant = input[c].tenant /\ RowOf(c).project = input[c].project
      /\ RowOf(c).number = draft[c].number
      /\ RowOf(c).hash = ContentHash[input[c].text]
  BY RowColumns DEF Creations, Tables
<1>3. /\ VersionOfContent(input[c]) = {}
      /\ draft[c].number = Cardinality(Siblings(c)) + 1
  BY <1>1 DEF Known, UploadKnown
<1>4. other \in Siblings(c)
  BY <1>2, ClashOfVersions DEF Siblings, VersionsOf
<1>5. other.hash # ContentHash[input[c].text]
  BY <1>3, <1>4 DEF VersionOfContent, Siblings, VersionsOf
<1>6. /\ Cardinality(Siblings(c)) \in Nat
      /\ {row.number : row \in Siblings(c)} = 1 .. Cardinality(Siblings(c))
  BY <1>1, SiblingsGapless DEF WellStored, Siblings
<1>7. other.number \in 1 .. Cardinality(Siblings(c))
  BY <1>4, <1>6
<1> QED
  BY <1>2, <1>3, <1>5, <1>6, <1>7, ClashOfVersions

\* An insertion waits for a clashing one, is refused by a clashing row, or clashes
\* with nothing.
LEMMA InsertOK ==
    ASSUME ApiInv, NEW c \in Client, Insert(c)
    PROVE  ApiInv'
<1> DEFINE op == input[c].op
           row == RowOf(c)
<1>1. /\ TypeOK /\ Known(c) /\ pc[c] = "insert" /\ InFlight(c)
      /\ sent[c] \in Nat /\ sent[c] >= 1 /\ op \in Creations /\ ~Inserted(c)
  BY DEF ApiInv, TypeOK, Insert, InFlight, Steps, Known, Placed, Inserted
<1>2. /\ sent' = sent /\ draft' = draft
      /\ input' = input /\ rows' = rows /\ created' = created
      /\ faults' = faults
  BY <1>1 DEF Insert
<1>3. \A d \in Client \ {c} : Stands(d)
  BY <1>1, OthersStand DEF ClientStep, Step
<1>4. SourceKnown(c)'
  BY <1>1, <1>2 DEF Known, SourceKnown, SourceOf
<1>5. CASE \E other \in rows[op] : Clash(op, row, other)
  <2>1. /\ Continue(c, "recover") /\ lock' = Released(c) /\ pending' = pending
    BY <1>5 DEF Insert
  <2>2. PICK other \in rows[op] : Clash(op, row, other)
    BY <1>5
  <2>3. op \in {"content", "publish"}
    BY <1>1, <2>2, UploadsDoNotClash DEF Creations, Tables
  <2>4. other.tenant = input[c].tenant /\ other.key = input[c].key
    BY <1>1, <2>2, <2>3, ClashOfJobs, RowColumns
  <2>5. Existing(input[c]) # {}
    BY <2>3, <2>4 DEF Existing, JobOfKey
  <2>6. pc'[c] = "recover" /\ pending[c] = NoRow
    BY <1>1, <2>1 DEF Continue, TypeOK, Known, InsertionKnown
  <2>7. RowKnown(c)'
    BY <1>2, <2>5, <2>6 DEF RowKnown, Existing, JobOfKey, VersionOfContent
  <2>8. Known(c)'
    BY <1>1, <1>2, <1>4, <2>1, <2>3, <2>6, <2>7
       DEF Known, Placed, UploadKnown, InsertionKnown, Inserted
  <2>9. /\ "recover" \in Steps \ {"event", "commit"}
        /\ lock' \in [LockKeys -> Client \union {NoClient}]
        /\ DOMAIN draft' = Client /\ DOMAIN draft'[c] = DOMAIN NoDraft
        /\ draft'[c].number \in Nat
    BY <1>1, <1>2, <2>1 DEF Steps, TypeOK, Released
  <2> QED
    BY <1>1, <1>2, <1>3, <2>1, <2>8, <2>9, ContinueOK
<1>6. CASE \A other \in rows[op] : ~Clash(op, row, other)
  <2> DEFINE step == IF op = "source" THEN "commit" ELSE "event"
  <2>1. /\ pending' = [pending EXCEPT ![c] = row]
        /\ Continue(c, step) /\ lock' = lock
    BY <1>6 DEF Insert
  <2>2. /\ pc' = [pc EXCEPT ![c] = step] /\ answers' = answers
        /\ pc'[c] = step /\ pending'[c] = row /\ step \in {"event", "commit"}
        /\ step = "commit" <=> op = "source"
    BY <1>1, <2>1 DEF Continue, TypeOK
  <2> HIDE DEF step
  <2>3. RowOf(c)' = RowOf(c) /\ Id(c)' = Id(c)
    BY <1>2 DEF RowOf, SourceVersionRow, ContentJobRow, PublishJobRow, Id,
                FingerprintOf
  <2>4. InsertionKnown(c)'
    BY <1>2, <1>6, <2>2, <2>3 DEF InsertionKnown, Inserted
  <2>5. UploadKnown(c)'
    BY <1>1, <1>2, <2>1, <2>2
       DEF Known, UploadKnown, LockKey, VersionOfContent, Siblings
  <2>6. Known(c)'
    BY <1>1, <1>2, <1>4, <2>2, <2>4, <2>5
       DEF Known, Placed, RowKnown, Creations, Tables
  <2>7. TypeOK'
    <3>1. pc' \in [Client -> Steps \union {"ready", "done", "lost"}]
      BY <1>1, <2>2 DEF TypeOK, Steps
    <3>2. \A d \in Client : pending'[d] = NoRow \/ pending'[d].id = Id(d)'
      BY <1>1, <1>2, <2>1, <2>3, RowOfClient DEF TypeOK, Id
    <3>3. DOMAIN pending' = Client
      BY <1>1, <2>1 DEF TypeOK
    <3> QED
      BY <1>1, <1>2, <2>1, <2>2, <3>1, <3>2, <3>3 DEF TypeOK
  <2>8. ASSUME NEW d \in Client \ {c} PROVE Known(d)'
    BY <1>2, <1>3, <2>8, NoGrowth, KnownStays
       DEF Siblings, ApiInv, Known, InsertionKnown
  <2>9. NoRace'
    <3>1. ASSUME NEW d \in Client \ {c}, Inserted(d)', input[d].op = op
          PROVE  ~Clash(op, row, pending'[d]) /\ ~Clash(op, pending'[d], row)
      <4>1. Inserted(d) /\ pending'[d] = pending[d]
        BY <1>3, <3>1 DEF Stands, Inserted
      <4>2. pending[d] # NoRow
        BY <4>1, NewRow, RowOfClient
      <4>3. ~Clash(op, row, pending[d])
        BY <3>1, <4>2 DEF Insert
      <4> QED
        BY <4>1, <4>3, ClashSymmetric
    <3>2. ASSUME NEW d \in Client \ {c}, NEW e \in Client \ {c}, d # e,
                 Inserted(d)', Inserted(e)', input[d].op = input[e].op
          PROVE  ~Clash(input[d].op, pending'[d], pending'[e])
      <4>1. /\ Inserted(d) /\ pending'[d] = pending[d]
            /\ Inserted(e) /\ pending'[e] = pending[e]
        BY <1>3, <3>2 DEF Stands, Inserted
      <4> QED
        BY <3>2, <4>1 DEF ApiInv, NoRace
    <3> HIDE DEF row
    <3> QED
      BY <1>2, <2>2, <3>1, <3>2 DEF NoRace
  <2>10. WellStored(rows)' /\ EventsStored'
    BY <1>2 DEF ApiInv, EventsStored
  <2>11. FreshIds'
    <3>1. \A d \in Client : InFlight(d)' => InFlight(d)
      BY <1>1, <1>3 DEF Stands, InFlight
    <3> QED
      BY <1>2, <3>1 DEF ApiInv, FreshIds
  <2>12. \A a \in answers' : AnswerTrue(a)'
    BY <1>2, <2>2, NoGrowth, AnswerStays DEF ApiInv
  <2> QED
    BY <2>6, <2>7, <2>8, <2>9, <2>10, <2>11, <2>12 DEF ApiInv
<1> QED
  BY <1>5, <1>6

\* The creation event is part of the transaction.
LEMMA InsertEventOK ==
    ASSUME ApiInv, NEW c \in Client, InsertEvent(c)
    PROVE  ApiInv'
<1>1. /\ TypeOK /\ Known(c) /\ pc[c] = "event" /\ Inserted(c) /\ InFlight(c)
      /\ sent[c] \in Nat /\ sent[c] >= 1
      /\ input[c].op \in {"content", "publish"}
  BY DEF ApiInv, TypeOK, InsertEvent, InFlight, Steps, Known, Placed, Inserted
<1>2. /\ sent' = sent /\ draft' = draft /\ pending' = pending /\ lock' = lock
      /\ input' = input /\ rows' = rows /\ created' = created
      /\ faults' = faults /\ answers' = answers
      /\ pc' = [pc EXCEPT ![c] = "commit"]
  BY <1>1 DEF InsertEvent, Continue
<1>3. \A d \in Client \ {c} : Stands(d)
  BY <1>1, OthersStand DEF ClientStep, Step
<1>4. pc'[c] = "commit" /\ pc' \in [Client -> Steps \union {"ready", "done", "lost"}]
  BY <1>1, <1>2 DEF TypeOK, Steps
<1>5. TypeOK'
  BY <1>1, <1>2, <1>4 DEF TypeOK, Id
<1>6. RowOf(c)' = RowOf(c)
  BY <1>2 DEF RowOf, SourceVersionRow, ContentJobRow, PublishJobRow, Id,
              FingerprintOf
<1>7. InsertionKnown(c)'
  BY <1>1, <1>2, <1>4, <1>6 DEF Known, InsertionKnown, Inserted
<1>8. SourceKnown(c)'
  BY <1>1, <1>2 DEF Known, SourceKnown, SourceOf
<1>9. Known(c)'
  BY <1>1, <1>2, <1>4, <1>7, <1>8
     DEF Known, Placed, UploadKnown, RowKnown, Creations, Tables
<1> QED
  BY <1>1, <1>2, <1>3, <1>5, <1>9, RestOK

\* A commit: the row and its event are there together, and the answer, if it is
\* heard, is about them.
LEMMA CommitOK ==
    ASSUME ApiInv, NEW c \in Client, NEW heard \in BOOLEAN, Commit(c, heard)
    PROVE  ApiInv'
<1> DEFINE i == input[c]
           new == RowOf(c)
<1>1. /\ TypeOK /\ Known(c) /\ pc[c] = "commit" /\ Inserted(c) /\ InFlight(c)
      /\ i \in Inputs /\ input' = input /\ sent' = sent
  BY InputOf DEF ApiInv, Commit, Inserted, InFlight, Steps
<1>2. /\ i.op \in Creations
      /\ DOMAIN rows' = Tables
      /\ rows'[i.op] = rows[i.op] \union {new}
      /\ \A t \in Tables : t # i.op => rows'[t] = rows[t]
      /\ \A t \in Tables : \A row \in rows'[t] :
            row \in rows[t] \/ (t = i.op /\ row = new)
      /\ Grows
  BY CommitRows
<1>3. /\ new.id = <<c, sent[c]>> /\ Id(c) = <<c, sent[c]>>
      /\ sent[c] \in 1 .. MaxSends /\ created[<<c, sent[c]>>] = 0
      /\ \A t \in Tables : \A row \in rows[t] : row.id # <<c, sent[c]>>
  BY <1>1, NewRow, RowOfClient
<1>4. PICK a : /\ Reply(c, a)
               /\ \/ a = Created(i, Id(c)) /\ faults' = faults
                  \/ a = Broken(i) /\ faults < MaxFaults /\ faults' = faults + 1
  BY DEF Commit
<1>5. Ended(c) /\ \A d \in Client \ {c} : Stands(d)
  BY <1>1, <1>4, ReplyShape DEF TypeOK
<1>6. <<c, sent[c]>> \in Ids
  BY <1>3 DEF Ids
<1>7. created' = IF i.op = "source" THEN created
                 ELSE [created EXCEPT ![<<c, sent[c]>>] = @ + 1]
  BY <1>3 DEF Commit
<1>8. /\ created' \in [Ids -> Nat]
      /\ \A n \in Ids : n # <<c, sent[c]>> => created'[n] = created[n]
      /\ i.op # "source" => created'[<<c, sent[c]>>] = 1
  BY <1>1, <1>3, <1>6, <1>7 DEF TypeOK
<1>9. /\ AnswerTrue(a)' /\ a.status \in Statuses
  <2>1. CASE a = Broken(i)
    BY <1>1, <1>2, <2>1, BrokenTrue, AnswerStays
  <2>2. CASE a = Created(i, Id(c))
    <3>0. PICK q, row : q = i /\ row = new
      OBVIOUS
    <3>1. /\ a.input = q /\ a.id = row.id /\ a.status \in {201, 202}
          /\ a.status \in Statuses /\ a.status # 503 /\ a.status # 200
          /\ a.code \notin ConflictCodes
      BY <1>2, <1>3, <2>2, <3>0, CreatedFields
    <3>2. /\ row.tenant = q.tenant /\ row.project = q.project
          /\ q.op = "source" => row.hash = ContentHash[q.text]
          /\ q.op \in {"content", "publish"} => row.key = q.key
          /\ q.op = "content" => row.fingerprint = computeRequestFingerprint(q)
          /\ q.op = "publish" => row.fingerprint = draft[c].fingerprint
      BY <1>2, <3>0, RowColumns
    <3>3. q.op = "publish" => SourceOf(q, row.fingerprint)
      BY <1>1, <3>0, <3>2 DEF Known, SourceKnown
    <3>4. /\ q \in Inputs /\ q.op \in Creations /\ Table(q.op) = q.op
          /\ row \in rows'[q.op]
      BY <1>1, <1>2, <3>0 DEF Creations, Tables, Table
    <3>5. q.op \in {"content", "publish"} => Fingerprinted(q, row.fingerprint)'
      <4>1. CASE q.op = "content"
        BY <3>2, <4>1 DEF Fingerprinted
      <4>2. CASE q.op = "publish"
        <5>1. SourceOf(q, row.fingerprint)'
          BY <1>2, <3>3, <4>2, SourceStays DEF SourceOf
        <5> QED
          BY <4>2, <5>1 DEF Fingerprinted
      <4> QED
        BY <4>1, <4>2
    <3>6. Backs(row, a)'
      BY <3>1, <3>2, <3>5 DEF Backs
    <3> QED
      BY <3>1, <3>4, <3>6 DEF AnswerTrue
  <2> QED
    BY <1>4, <2>1, <2>2
<1>10. \A b \in answers' : AnswerTrue(b)'
  BY <1>2, <1>4, <1>9, AnswerStays DEF ApiInv, Reply
<1>11. TypeOK'
  <2>1. DOMAIN NoDraft = {"fingerprint", "number"} /\ NoDraft.number = 0
    BY DEF NoDraft
  <2>2. /\ \A d \in Client : DOMAIN draft'[d] = DOMAIN NoDraft
                             /\ draft'[d].number \in Nat
        /\ \A d \in Client : pending'[d] = NoRow \/ pending'[d].id = Id(d)'
    BY <1>1, <1>5, <2>1 DEF Ended, Stands, TypeOK, Id
  <2>3. \A t \in Tables : \A row \in rows'[t] : row.id \in Ids
    BY <1>1, <1>2, <1>3, <1>6 DEF TypeOK
  <2>4. \A b \in answers' : b.status \in Statuses
    BY <1>1, <1>4, <1>9 DEF TypeOK, Statuses, Reply
  <2>5. faults' \in 0 .. MaxFaults
    BY <1>1, <1>4 DEF TypeOK
  <2> QED
    BY <1>1, <1>2, <1>5, <1>8, <2>2, <2>3, <2>4, <2>5
       DEF TypeOK, Ended, Statuses
<1>12. \A d \in Client : Known(d)'
  <2>1. Known(c)'
    BY <1>5 DEF Ended, Known, Placed, UploadKnown, InsertionKnown,
       SourceKnown, RowKnown, Inserted, InFlight, Steps
  <2>2. ASSUME NEW d \in Client \ {c} PROVE Known(d)'
    BY <1>1, <1>5, <2>2, CommitKnown
  <2> QED
    BY <2>1, <2>2
<1>13. NoRace'
  <2>1. ~Inserted(c)' /\ \A d \in Client \ {c} : Inserted(d)' = Inserted(d)
    BY <1>5 DEF Ended, Inserted, Stands
  <2>2. \A d \in Client \ {c} : pending'[d] = pending[d]
    BY <1>5 DEF Stands
  <2> QED
    BY <1>1, <2>1, <2>2 DEF ApiInv, NoRace
<1>14. FreshIds'
  <2> SUFFICES ASSUME NEW d \in Client, NEW n \in 1 .. MaxSends,
                      n > sent[d] \/ (n = sent[d] /\ InFlight(d)')
               PROVE  /\ created'[<<d, n>>] = 0
                      /\ \A t \in Tables : \A row \in rows'[t] : row.id # <<d, n>>
    BY <1>1 DEF FreshIds
  <2>1. ~InFlight(c)' /\ (d # c => InFlight(d)' = InFlight(d))
    BY <1>5 DEF Ended, InFlight, Stands, Steps
  <2>2. <<d, n>> # <<c, sent[c]>>
    BY <1>3, <2>1
  <2>3. <<d, n>> \in Ids
    BY DEF Ids
  <2>4. /\ created[<<d, n>>] = 0
        /\ \A t \in Tables : \A row \in rows[t] : row.id # <<d, n>>
    BY <2>1 DEF ApiInv, FreshIds
  <2> HIDE DEF new
  <2> QED
    BY <1>2, <1>3, <1>8, <2>2, <2>3, <2>4
<1>15. EventsStored'
  <2> SUFFICES ASSUME NEW t \in {"content", "publish"}, NEW row \in rows'[t]
               PROVE  created'[row.id] = 1
    BY DEF EventsStored
  <2>1. t \in Tables
    BY DEF Tables
  <2>2. CASE row \in rows[t]
    <3>1. created[row.id] = 1 /\ row.id \in Ids /\ row.id # <<c, sent[c]>>
      BY <1>1, <1>3, <2>1, <2>2 DEF ApiInv, EventsStored, TypeOK
    <3> QED
      BY <1>8, <3>1
  <2>3. CASE t = i.op /\ row = new
    BY <1>3, <1>8, <2>3
  <2> QED
    BY <1>2, <2>1, <2>2, <2>3
<1> QED
  BY <1>10, <1>11, <1>12, <1>13, <1>14, <1>15, CommitStored DEF ApiInv

\* The answer to who lost the race for a key, who is told that the database is
\* unavailable although no fault has hit the request.
LEMMA RaceLostTrue ==
    ASSUME ApiInv, NEW c \in Client, pc[c] = "recover"
    PROVE  LET a == Refused(input[c], DatabaseUnavailable) IN
           AnswerTrue(a) /\ a.status \in Statuses
<1> DEFINE i == input[c]
           a == Refused(i, DatabaseUnavailable)
<1>1. a.input = i /\ a.status = 503 /\ a.code = "DATABASE_UNAVAILABLE"
  BY DEF Refused, Answer, mapError, DatabaseUnavailable
<1>2. "DATABASE_UNAVAILABLE" \notin ConflictCodes
  BY DEF ConflictCodes, ConflictCode
<1>3. i \in Inputs /\ i.op \in {"content", "publish"} /\ Existing(i) # {}
  BY InputOf DEF ApiInv, Known, Placed, RowKnown
<1>4. \E row \in rows[i.op] : row.tenant = i.tenant /\ row.key = i.key
  BY <1>3 DEF Existing, JobOfKey
<1> HIDE DEF a
<1> QED
  BY <1>1, <1>2, <1>3, <1>4 DEF AnswerTrue, Statuses, a

\* Whether or not the violation is recognised, who lost the race gets a true
\* answer: the row of who won it, or that the database is unavailable.
LEMMA RecoverOK ==
    ASSUME ApiInv, NEW c \in Client, Recover(c)
    PROVE  ApiInv'
<1>1. /\ TypeOK /\ Known(c) /\ pc[c] = "recover" /\ sent[c] \in Nat
  BY DEF ApiInv, TypeOK, Recover
<1>2. /\ sent' = sent /\ sent' \in [Client -> 0 .. MaxSends]
      /\ sent'[c] >= sent[c]
      /\ \A d \in Client \ {c} : sent'[d] = sent[d]
      /\ input' = input /\ rows' = rows /\ created' = created
      /\ faults' \in 0 .. MaxFaults
  BY <1>1 DEF Recover, TypeOK
<1>3. ASSUME NEW row \in Existing(input[c]), Reply(c, Replayed(c, row))
      PROVE  ApiInv'
  BY <1>1, <1>2, <1>3, ReplayedTrue, ReplyOK
<1>4. ASSUME Reply(c, Refused(input[c], DatabaseUnavailable))
      PROVE  ApiInv'
  BY <1>1, <1>2, <1>4, RaceLostTrue, ReplyOK
<1> QED
  BY <1>3, <1>4 DEF Recover

\* The reads.
LEMMA ReadOK ==
    ASSUME ApiInv, NEW c \in Client,
           GetSourceVersion(c) \/ GetContentJob(c) \/ GetPublishJob(c)
    PROVE  ApiInv'
<1> DEFINE i == input[c]
<1>1. /\ TypeOK /\ i \in Inputs /\ Known(c) /\ pc[c] = "read" /\ InFlight(c)
      /\ sent[c] \in Nat /\ sent[c] >= 1 /\ i.op \in Reads \union Listings
  BY InputOf DEF ApiInv, TypeOK, GetSourceVersion, GetContentJob, GetPublishJob,
                 Read, InFlight, Steps, Known, Placed
<1>2. /\ sent' = sent /\ sent' \in [Client -> 0 .. MaxSends]
      /\ sent'[c] >= sent[c]
      /\ \A d \in Client \ {c} : sent'[d] = sent[d]
      /\ input' = input /\ rows' = rows /\ created' = created
      /\ faults' = faults /\ faults' \in 0 .. MaxFaults
  BY <1>1 DEF GetSourceVersion, GetContentJob, GetPublishJob, Read, TypeOK
<1>3. \A d \in Client \ {c} : Stands(d)
  BY <1>1, OthersStand DEF ClientStep, Step
<1>4. CASE Reply(c, Refused(i, NotFoundError))
  <2>1. NotFoundError.class = "not-found"
    BY DEF NotFoundError
  <2> QED
    BY <1>1, <1>2, <1>4, <2>1, RefusalTrue, ReplyOK
<1>5. CASE Visible(i) # {} /\ i.op \notin Listings /\ Reply(c, Found(i, i.ref, 0))
  BY <1>1, <1>2, <1>5, FoundTrue, ReplyOK
<1>6. CASE /\ Visible(i) # {} /\ i.op \in Listings
           /\ Continue(c, "list") /\ UNCHANGED <<draft, pending, lock>>
  <2>1. pc'[c] = "list" /\ pending[c] = NoRow
    BY <1>1, <1>6 DEF Continue, TypeOK, Known, InsertionKnown, Inserted
  <2>2. RowKnown(c)'
    BY <1>2, <1>6, <2>1 DEF RowKnown, Visible
  <2>3. Known(c)'
    BY <1>1, <1>2, <1>6, <2>1, <2>2
       DEF Known, Placed, UploadKnown, InsertionKnown, SourceKnown, Inserted
  <2>4. /\ "list" \in Steps \ {"event", "commit"}
        /\ lock' \in [LockKeys -> Client \union {NoClient}]
        /\ DOMAIN draft' = Client /\ DOMAIN draft'[c] = DOMAIN NoDraft
        /\ draft'[c].number \in Nat
    BY <1>1, <1>6 DEF Steps, TypeOK
  <2> QED
    BY <1>1, <1>2, <1>3, <1>6, <2>3, <2>4, ContinueOK
<1> QED
  BY <1>4, <1>5, <1>6 DEF GetSourceVersion, GetContentJob, GetPublishJob, Read

\* The listings: the job was there, and so is its creation.
LEMMA ListEventsOK ==
    ASSUME ApiInv, NEW c \in Client,
           GetContentJobEvents(c) \/ GetPublishJobEvents(c)
    PROVE  ApiInv'
<1> DEFINE i == input[c]
<1>1. /\ TypeOK /\ Known(c) /\ pc[c] = "list" /\ sent[c] \in Nat
      /\ i.op \in Listings /\ Visible(i) # {}
  BY DEF ApiInv, TypeOK, GetContentJobEvents, GetPublishJobEvents, ListEvents,
         Known, Placed, RowKnown
<1>2. /\ sent' = sent /\ sent' \in [Client -> 0 .. MaxSends]
      /\ sent'[c] >= sent[c]
      /\ \A d \in Client \ {c} : sent'[d] = sent[d]
      /\ input' = input /\ rows' = rows /\ created' = created
      /\ faults' \in 0 .. MaxFaults
      /\ Reply(c, Found(i, i.ref, created[i.ref]))
  BY <1>1 DEF GetContentJobEvents, GetPublishJobEvents, ListEvents, TypeOK
<1> QED
  BY <1>1, <1>2, FoundTrue, ReplyOK

\* A failed statement.
LEMMA FailOK ==
    ASSUME ApiInv, NEW c \in Client, Fail(c)
    PROVE  ApiInv'
<1>1. TypeOK /\ input[c] \in Inputs /\ sent[c] \in Nat
  BY InputOf DEF ApiInv, TypeOK
<1>2. /\ sent' = sent /\ sent' \in [Client -> 0 .. MaxSends]
      /\ sent'[c] >= sent[c]
      /\ \A d \in Client \ {c} : sent'[d] = sent[d]
      /\ input' = input /\ rows' = rows /\ created' = created
      /\ faults' \in 0 .. MaxFaults
      /\ Reply(c, Broken(input[c]))
  BY <1>1 DEF Fail, TypeOK
<1> QED
  BY <1>1, <1>2, BrokenTrue, ReplyOK

\* The process dies: nothing that was not committed is left.
LEMMA CrashOK ==
    ASSUME ApiInv, Crash
    PROVE  ApiInv'
<1>1. TypeOK
  BY DEF ApiInv
<1>2. /\ input' = input /\ sent' = sent /\ rows' = rows /\ created' = created
      /\ answers' = answers /\ faults' \in 0 .. MaxFaults
      /\ pc' = [c \in Client |-> IF InFlight(c) THEN "lost" ELSE pc[c]]
      /\ draft' = [c \in Client |-> NoDraft]
      /\ pending' = [c \in Client |-> NoRow]
      /\ lock' = [k \in LockKeys |-> NoClient]
  BY <1>1 DEF Crash, TypeOK
<1>3. \A c \in Client : pc'[c] \in {"ready", "done", "lost"} /\ pending'[c] = NoRow
  BY <1>1, <1>2 DEF TypeOK, InFlight
<1>4. \A c \in Client : ~InFlight(c)' /\ ~Inserted(c)'
  BY <1>3 DEF InFlight, Inserted, Steps
<1>5. \A c \in Client : Known(c)'
  BY <1>3, <1>4
     DEF Known, Placed, UploadKnown, InsertionKnown, SourceKnown, RowKnown
<1>6. TypeOK'
  <2>1. DOMAIN NoDraft = {"fingerprint", "number"} /\ NoDraft.number = 0
    BY DEF NoDraft
  <2>2. pc' \in [Client -> Steps \union {"ready", "done", "lost"}]
    BY <1>2, <1>3
  <2> QED
    BY <1>1, <1>2, <2>1, <2>2 DEF TypeOK
<1>7. NoRace' /\ FreshIds'
  BY <1>2, <1>4 DEF NoRace, FreshIds, ApiInv
<1>8. WellStored(rows)' /\ EventsStored'
  BY <1>2 DEF ApiInv, EventsStored
<1>9. \A a \in answers' : AnswerTrue(a)'
  BY <1>2, NoGrowth, AnswerStays DEF ApiInv
<1> QED
  BY <1>5, <1>6, <1>7, <1>8, <1>9 DEF ApiInv

\* A content job ends: requests that have read it as queued know nothing of it.
LEMMA WorkerOK ==
    ASSUME ApiInv, WorkerNext
    PROVE  ApiInv'
<1>1. PICK job \in rows["content"],
           status \in {"completed", "failed"}, artifact \in Artifacts \union {"none"} :
        /\ JobEnds(job, status, artifact)
        /\ status = "completed" => artifact \in Artifacts
  BY DEF WorkerNext
<1> DEFINE next == Ending(job, status, artifact)
<1>2. /\ DOMAIN rows' = Tables
      /\ rows'["content"] = (rows["content"] \ {job}) \union {next}
      /\ rows'["source"] = rows["source"]
      /\ rows'["publish"] = rows["publish"]
      /\ Succeeds(job, next)
      /\ Grows
  BY <1>1, JobEndsRows
<1> HIDE DEF next
<1>3. /\ TypeOK /\ input' = input /\ sent' = sent /\ pc' = pc /\ draft' = draft
      /\ pending' = pending /\ lock' = lock /\ created' = created
      /\ answers' = answers /\ faults' = faults
  BY <1>1 DEF ApiInv, JobEnds
<1>4. \A t \in Tables : \A row \in rows'[t] :
         \E before \in rows[t] : before.id = row.id
  BY <1>2 DEF Tables, Succeeds
<1>5. TypeOK'
  BY <1>2, <1>3, <1>4 DEF TypeOK, Id
<1>6. NoRace'
  BY <1>3 DEF ApiInv, NoRace, Inserted
<1>7. FreshIds'
  BY <1>3, <1>4 DEF ApiInv, FreshIds, InFlight
<1>8. EventsStored'
  BY <1>3, <1>4 DEF ApiInv, EventsStored, Tables
<1>9. \A a \in answers' : AnswerTrue(a)'
  BY <1>2, <1>3, AnswerStays DEF ApiInv
<1>10. WellStored(rows)'
  BY <1>1, JobEndsStored
<1>11. \A d \in Client : Known(d)'
  BY <1>1, JobEndsKnown
<1> QED
  BY <1>5, <1>6, <1>7, <1>8, <1>9, <1>10, <1>11 DEF ApiInv

-----------------------------------------------------------------------------
(* The theorems *)

\* Before the first request only stored rows are there.
LEMMA InitOK == Init => ApiInv
<1> SUFFICES ASSUME Init PROVE ApiInv
  OBVIOUS
<1>1. /\ input \in Workloads /\ sent = [c \in Client |-> 0]
      /\ pc = [c \in Client |-> "ready"] /\ draft = [c \in Client |-> NoDraft]
      /\ pending = [c \in Client |-> NoRow]
      /\ lock = [k \in LockKeys |-> NoClient] /\ rows = InitialRows
      /\ answers = {} /\ faults = 0
      /\ created = [d \in Ids |->
            IF \E t \in {"content", "publish"} :
                  \E row \in InitialRows[t] : row.id = d
            THEN 1 ELSE 0]
  BY DEF Init
<1>2. \A c \in Client : Known(c)
  BY <1>1, IdleKnown
<1>3. \A t \in Tables : \A row \in InitialRows[t] : row.id \in Ids
  <2> SUFFICES ASSUME NEW t \in Tables, NEW row \in InitialRows[t]
               PROVE  row.id \in Ids
    OBVIOUS
  <2>1. row.id \in {r.id : r \in InitialRows[t]}
    OBVIOUS
  <2> QED
    BY <2>1, Zenon DEF Ids
<1>4. WellStored(rows)
  BY <1>1, InitialRowsAssumption
<1>5. TypeOK
  <2>1. DOMAIN NoDraft = {"fingerprint", "number"} /\ NoDraft.number = 0
    BY DEF NoDraft
  <2>2. created \in [Ids -> Nat]
    BY <1>1
  <2> QED
    BY <1>1, <1>3, <1>4, <2>1, <2>2 DEF TypeOK, WellStored
<1>6. NoRace /\ \A a \in answers : AnswerTrue(a)
  BY <1>1 DEF NoRace, Inserted
<1>7. EventsStored
  BY <1>1, <1>3 DEF EventsStored, Tables
<1>8. FreshIds
  <2> SUFFICES ASSUME NEW c \in Client, NEW n \in 1 .. MaxSends
               PROVE  /\ created[<<c, n>>] = 0
                      /\ \A t \in Tables : \A row \in rows[t] : row.id # <<c, n>>
    BY DEF FreshIds
  <2>1. <<c, n>> \in Client \X (1 .. MaxSends) /\ <<c, n>> \in Ids
    BY DEF Ids
  <2>2. \A t \in Tables : \A row \in rows[t] : row.id # <<c, n>>
    BY <1>1, <2>1, InitialRowsAssumption, Zenon
  <2> QED
    BY <1>1, <2>1, <2>2 DEF Tables
<1> QED
  BY <1>2, <1>4, <1>5, <1>6, <1>7, <1>8 DEF ApiInv

\* Every step of a client keeps the invariant.
LEMMA ClientStepOK ==
    ASSUME ApiInv, NEW c \in Client, ClientStep(c)
    PROVE  ApiInv'
<1>1. PICK yes \in BOOLEAN, no \in BOOLEAN : yes = TRUE /\ no = FALSE
  OBVIOUS
<1>2. Commit(c, TRUE) \/ Commit(c, FALSE) => ApiInv'
  BY <1>1, CommitOK
<1> QED
  BY <1>2, ReceiveOK, ReadSourceJobOK, TakeLockOK, CheckReferenceOK,
     FindExistingOK, LatestVersionOK, InsertOK, InsertEventOK, RecoverOK, ReadOK,
     ListEventsOK, FailOK
     DEF ClientStep, Step

\* The invariant holds however the requests of any number of clients interleave,
\* fail, are repeated, or are cut off by the death of the API process.
THEOREM ApiInvariant == Spec => []ApiInv
<1>1. ApiInv /\ [Next]_vars => ApiInv'
  <2> SUFFICES ASSUME ApiInv, [Next]_vars PROVE ApiInv'
    OBVIOUS
  <2>1. ASSUME UNCHANGED vars PROVE ApiInv'
    <3>1. /\ input' = input /\ sent' = sent /\ pc' = pc /\ draft' = draft
          /\ pending' = pending /\ lock' = lock /\ rows' = rows
          /\ created' = created /\ answers' = answers /\ faults' = faults
      BY <2>1 DEF vars
    <3>2. \A d \in Client : Stands(d)
      BY <3>1 DEF Stands
    <3>3. \A d \in Client : Known(d)'
      BY <3>1, <3>2, NoGrowth, KnownStays
         DEF Siblings, ApiInv, Known, InsertionKnown
    <3>4. \A a \in answers' : AnswerTrue(a)'
      BY <3>1, NoGrowth, AnswerStays DEF ApiInv
    <3>5. TypeOK' /\ WellStored(rows)' /\ EventsStored'
      BY <3>1 DEF ApiInv, TypeOK, Id, EventsStored
    <3>6. NoRace' /\ FreshIds'
      BY <3>1 DEF ApiInv, NoRace, FreshIds, Inserted, InFlight
    <3> QED
      BY <3>3, <3>4, <3>5, <3>6 DEF ApiInv
  <2>2. ASSUME NEW c \in Client, ClientStep(c) PROVE ApiInv'
    BY <2>2, ClientStepOK
  <2> QED
    BY <2>1, <2>2, CrashOK, WorkerOK DEF Next, ClientStep
<1> QED
  BY <1>1, InitOK, PTL DEF Spec

\* The types, for any clients, requests and stored rows.
THEOREM TypeCorrect == Spec => []TypeOK
<1>1. ApiInv => TypeOK
  BY DEF ApiInv
<1> QED
  BY <1>1, ApiInvariant, PTL

\* DrizzleSourceVersionRepository.create numbers the versions of a project
\* without gaps, however many uploads race: needed is that the lock keeps other
\* uploads from the project between max(version_number) and the commit.
THEOREM VersionsNumbered == Spec => []VersionsGapless
<1>1. ApiInv => VersionsGapless
  BY DEF ApiInv, WellStored, VersionsGapless
<1> QED
  BY <1>1, ApiInvariant, PTL

\* A publish job stands for the completed job and the artifact that
\* CreatePublishJob read before the transaction that inserted it.
THEOREM PublishSourcesPinned == Spec => []SourcesPinned
<1>1. ApiInv => SourcesPinned
  BY DEF ApiInv, WellStored, SourcesPinned
<1> QED
  BY <1>1, ApiInvariant, PTL

\* DATABASE_UNAVAILABLE is the answer to a fault, or to a job creation that lost
\* the race for its key and whose repetition finds the row that won; an upload,
\* under its advisory lock, loses no race.
THEOREM UnavailabilityExplained == Spec => []UnavailableExplained
<1>1. ApiInv => UnavailableExplained
  BY DEF ApiInv, AnswerTrue, UnavailableExplained, JobOfKey
<1> QED
  BY <1>1, ApiInvariant, PTL

\* The fingerprint of a request whose source is over is the only one it has.
LEMMA OneFingerprint ==
    ASSUME ApiInv, NEW i, i.op \in {"content", "publish"}, NEW fingerprint,
           Fingerprinted(i, fingerprint)
    PROVE  StoredFingerprint(i) = {fingerprint}
<1>1. CASE i.op = "content"
  BY <1>1 DEF Fingerprinted, StoredFingerprint
<1>2. CASE i.op = "publish"
  <2>1. PICK job \in rows["content"] :
          /\ job.id = i.ref
          /\ fingerprint = computePublishJobRequestFingerprint(i, job)
    BY <1>2 DEF Fingerprinted, SourceOf
  <2>2. {j \in rows["content"] : j.id = i.ref} = {job}
    BY <2>1 DEF ApiInv, WellStored, Tables
  <2>3. StoredFingerprint(i) = {computePublishJobRequestFingerprint(i, j) : j \in {job}}
    BY <1>2, <2>2 DEF StoredFingerprint
  <2> QED
    BY <2>1, <2>3
<1> QED
  BY <1>1, <1>2

\* What the API has accepted, shown, refused for its key or listed is so, and
\* stays so.
THEOREM AnswersTruthful == Spec => []AnswersTrue
<1>1. ApiInv => AnswersTrue
  <2> SUFFICES ASSUME ApiInv PROVE AnswersTrue
    OBVIOUS
  <2>1. SuccessesTrue
    <3> SUFFICES ASSUME NEW a \in answers, a.status \in {200, 201, 202}
                 PROVE  \E row \in rows[Table(a.input.op)] :
                          /\ row.id = a.id
                          /\ row.tenant = a.input.tenant
                          /\ a.input.op \in Creations =>
                                row.project = a.input.project
                          /\ a.input.op \in {"content", "publish"} =>
                                row.fingerprint \in StoredFingerprint(a.input)
      BY DEF SuccessesTrue
    <3>1. PICK row \in rows[Table(a.input.op)] : Backs(row, a)
      BY DEF ApiInv, AnswerTrue
    <3>2. a.input.op \in {"content", "publish"} =>
             row.fingerprint \in StoredFingerprint(a.input)
      BY <3>1, OneFingerprint DEF Backs
    <3> QED
      BY <3>1, <3>2 DEF Backs
  <2>2. ConflictsJustified
    <3> SUFFICES ASSUME NEW a \in answers, a.code \in ConflictCodes
                 PROVE  \E row \in rows[a.input.op] :
                          /\ row.tenant = a.input.tenant
                          /\ row.key = a.input.key
                          /\ row.fingerprint \notin StoredFingerprint(a.input)
      BY DEF ConflictsJustified, ConflictCodes
    <3>1. a.input.op \in {"content", "publish"}
      BY DEF ApiInv, AnswerTrue
    <3>2. PICK row \in rows[a.input.op] : Refutes(row, a)
      BY DEF ApiInv, AnswerTrue
    <3>3. row.fingerprint \notin StoredFingerprint(a.input)
      BY <3>1, <3>2, OneFingerprint DEF Refutes
    <3> QED
      BY <3>2, <3>3 DEF Refutes
  <2>3. EventsShown
    BY DEF ApiInv, AnswerTrue, EventsShown
  <2> QED
    BY <2>1, <2>2, <2>3 DEF AnswersTrue
<1> QED
  BY <1>1, ApiInvariant, PTL

\* Two accepted creations get one row exactly when they are the same request:
\* by the normal text within a project, or by the key within a tenant.
THEOREM OneRowPerRequest == Spec => []SameRequestSameRow
<1>1. ApiInv => SameRequestSameRow
  <2> SUFFICES ASSUME ApiInv, NEW a \in Accepted, NEW b \in Accepted,
                      a.input.op = b.input.op, a.input.tenant = b.input.tenant
               PROVE  a.id = b.id <=>
                        IF a.input.op = "source"
                        THEN /\ a.input.project = b.input.project
                             /\ NormalText[a.input.text] = NormalText[b.input.text]
                        ELSE a.input.key = b.input.key
    BY DEF SameRequestSameRow
  <2> DEFINE op == a.input.op
  <2>1. /\ AnswerTrue(a) /\ AnswerTrue(b) /\ WellStored(rows)
        /\ a.status \in {201, 202} /\ b.status \in {201, 202}
    BY DEF ApiInv, Accepted
  <2>2. op \in Tables /\ Table(op) = op
        /\ (op # "source" => op \in {"content", "publish"})
    BY <2>1 DEF AnswerTrue, Creations, Tables, Table
  <2>3. PICK ra \in rows[op] : Backs(ra, a)
    BY <2>1, <2>2 DEF AnswerTrue
  <2>4. PICK rb \in rows[op] : Backs(rb, b)
    BY <2>1, <2>2 DEF AnswerTrue
  <2>5. a.id = b.id <=> ra = rb
    BY <2>1, <2>2, <2>3, <2>4 DEF WellStored, Backs
  <2>6. Clash(op, ra, rb) => ra = rb
    BY <2>1, <2>2 DEF WellStored
  <2>7. CASE op = "source"
    <3>1. /\ ra.tenant = rb.tenant
          /\ ra.project = a.input.project /\ rb.project = b.input.project
          /\ ra.hash = ContentHash[a.input.text]
          /\ rb.hash = ContentHash[b.input.text]
      BY <2>2, <2>3, <2>4, <2>7 DEF Backs, Creations
    <3>2. /\ ContentHash[a.input.text] = NormalText[a.input.text]
          /\ ContentHash[b.input.text] = NormalText[b.input.text]
      BY <2>1, HashOfUpload DEF AnswerTrue
    <3>3. /\ ra.project = rb.project /\ ra.hash = rb.hash
             => Clash("source", ra, rb)
      BY <3>1, ClashOfVersions
    <3> QED
      BY <2>5, <2>6, <2>7, <3>1, <3>2, <3>3
  <2>8. CASE op # "source"
    <3>1. /\ ra.tenant = rb.tenant
          /\ ra.key = a.input.key /\ rb.key = b.input.key
      BY <2>2, <2>3, <2>4, <2>8 DEF Backs
    <3>2. ra.key = rb.key => Clash(op, ra, rb)
      BY <2>8, <3>1, ClashOfJobs
    <3> QED
      BY <2>5, <2>6, <2>8, <3>1, <3>2
  <2> QED
    BY <2>7, <2>8
<1> QED
  BY <1>1, ApiInvariant, PTL

=============================================================================
