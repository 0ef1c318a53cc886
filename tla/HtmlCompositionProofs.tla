----------------------- MODULE HtmlCompositionProofs -----------------------
(***************************************************************************)
(* Proofs about the CTA guides of HtmlComposition, for every set of AI     *)
(* results.  That the publication is the guide of its AI result is soon    *)
(* an invariant; the rest is about the template: which references the two  *)
(* deduplications leave, which sections there are, and what the table of   *)
(* contents makes of their headings.  The last two are recursions over     *)
(* sequences and go by Induction.                                          *)
(***************************************************************************)
EXTENDS HtmlComposition, SelectionsProofs

\* The guide is built from the AI result and stays what was built.
GuideInv ==
    /\ pc \in {"build", "compose", "done"}
    /\ pc = "build" => aiResult \in AIResults /\ publication = NoPublication
    /\ aiResult # NoAIResult /\ publication # NoPublication =>
          /\ aiResult \in AIResults
          /\ publication = buildCtaGuidePublication(aiResult)

\* GuideInv is an invariant.
LEMMA GuideInvariant == Spec => []GuideInv
<1>1. Init => GuideInv
  BY DEF Init, GuideInv
<1>2. GuideInv /\ [Next]_vars => GuideInv'
  <2> SUFFICES ASSUME GuideInv, [Next]_vars PROVE GuideInv'
    OBVIOUS
  <2>1. CASE BuildGuide
    BY <2>1 DEF GuideInv, BuildGuide, Refuse
  <2>2. CASE Compose
    BY <2>2 DEF GuideInv, Compose, Refuse
  <2>3. CASE UNCHANGED vars
    BY <2>3 DEF GuideInv, vars
  <2> QED
    BY <2>1, <2>2, <2>3 DEF Next
<1> QED
  BY <1>1, <1>2, PTL DEF Spec

-----------------------------------------------------------------------------
(* The references of a guide *)

\* The places at which a value stands for the first time.
Firsts(f, n) == {i \in 1 .. n : \A k \in 1 .. i - 1 : f[k] # f[i]}

\* Every value stands somewhere for the first time, and nowhere else.
LEMMA FirstsCover ==
    ASSUME NEW n \in Nat, NEW f
    PROVE  /\ \A i \in 1 .. n : \E p \in Firsts(f, n) : f[p] = f[i]
           /\ \A p, q \in Firsts(f, n) : f[p] = f[q] => p = q
<1>1. ASSUME NEW i \in 1 .. n PROVE \E p \in Firsts(f, n) : f[p] = f[i]
  <2> DEFINE same == {k \in 1 .. n : f[k] = f[i]}
  <2>1. same \in SUBSET Nat /\ i \in same
    OBVIOUS
  <2>2. PICK p \in same : \A k \in same : p <= k
    BY <2>1, LeastElement
  <2>3. p \in 1 .. n /\ f[p] = f[i]
    OBVIOUS
  <2>4. ASSUME NEW k \in 1 .. p - 1, f[k] = f[p] PROVE FALSE
    <3>1. k \in 1 .. n /\ k < p
      BY <2>3
    <3>2. k \in same
      BY <2>3, <2>4, <3>1
    <3> QED
      BY <2>2, <2>3, <3>1, <3>2
  <2>5. p \in Firsts(f, n)
    BY <2>3, <2>4 DEF Firsts
  <2> QED
    BY <2>3, <2>5
<1>2. ASSUME NEW p \in Firsts(f, n), NEW q \in Firsts(f, n), f[p] = f[q]
      PROVE  p = q
  <2>1. /\ p \in 1 .. n /\ q \in 1 .. n
        /\ \A k \in 1 .. p - 1 : f[k] # f[p]
        /\ \A k \in 1 .. q - 1 : f[k] # f[q]
    BY DEF Firsts
  <2>2. p < q => p \in 1 .. q - 1
    BY <2>1
  <2>3. q < p => q \in 1 .. p - 1
    BY <2>1
  <2>4. p < q \/ q < p \/ p = q
    BY <2>1
  <2> QED
    BY <1>2, <2>1, <2>2, <2>3, <2>4
<1> QED
  BY <1>1, <1>2

Given(scripture) == [i \in DOMAIN scripture |-> normalizeScriptureKey(scripture[i])]

\* A guide has one reference for every key, in the order in which the keys are
\* given: g says where the reference comes from.
LEMMA ReferencesOfGuide ==
    ASSUME NEW scripture \in ScriptureReferences
    PROVE  LET references == createReferences(scripture)
               given == Given(scripture)
               first == Firsts(given, Len(scripture)) IN
           /\ DOMAIN references = 1 .. Len(references) /\ Len(references) \in Nat
           /\ \E g : /\ g \in [1 .. Len(references) -> first]
                     /\ \A i, k \in 1 .. Len(references) : i < k => g[i] < g[k]
                     /\ \A p \in first : \E i \in 1 .. Len(references) : g[i] = p
                     /\ \A i \in 1 .. Len(references) :
                           references[i].label = given[g[i]]
<1> DEFINE N == Len(scripture)
           given == Given(scripture)
           first == Firsts(given, N)
           kept == KeepAt(scripture, first)
           bible == Numbered([i \in DOMAIN kept |-> BibleReference(kept[i])])
           E == [book : [key : STRING, length : Nat], chapter : Nat,
                 verses : {"single", "range"}]
<1>1. scripture \in Seq(E) /\ N \in Nat /\ DOMAIN scripture = 1 .. N
  BY DEF ScriptureReferences
<1>2. /\ DOMAIN given = 1 .. N
      /\ \A i \in 1 .. N : given[i] = normalizeScriptureKey(scripture[i])
  BY <1>1 DEF Given
<1>3. deduplicateScriptureReferences(scripture) = kept
  <2>1. {i \in DOMAIN scripture : \A k \in 1 .. i - 1 :
            normalizeScriptureKey(scripture[k])
               # normalizeScriptureKey(scripture[i])} = first
    <3>1. ASSUME NEW i \in 1 .. N, NEW k \in 1 .. i - 1 PROVE k \in 1 .. N
      BY <1>1
    <3> QED
      BY <1>1, <1>2, <3>1 DEF Firsts
  <2> QED
    BY <2>1 DEF deduplicateScriptureReferences, deduplicate
<1>4. first \in SUBSET (1 .. N)
  BY DEF Firsts
<1> HIDE DEF first, given, N, E
<1>5. kept \in Seq(E) /\ \E g : Chosen(g, kept, scripture, first)
  BY <1>1, <1>4, KeepAtChooses DEF N
<1> HIDE DEF kept
<1>6. PICK g : Chosen(g, kept, scripture, first)
  BY <1>5
<1>7. Len(kept) \in Nat /\ DOMAIN kept = 1 .. Len(kept)
  BY <1>5
<1>8. \A i \in 1 .. Len(kept) :
         /\ g[i] \in first /\ g[i] \in 1 .. N
         /\ normalizeScriptureKey(kept[i]) = given[g[i]]
  BY <1>2, <1>4, <1>6 DEF Chosen
\* The second deduplication finds nothing.
<1>9. /\ DOMAIN bible = 1 .. Len(kept)
      /\ \A i \in 1 .. Len(kept) : /\ bible[i].type = "bible"
                                   /\ bible[i].label = given[g[i]]
                                   /\ "label" \in DOMAIN bible[i]
  BY <1>7, <1>8 DEF Numbered, BibleReference
<1> DEFINE F == {bible[i] : i \in 1 .. Len(kept)}
<1>10. bible \in [1 .. Len(kept) -> F]
  BY <1>7 DEF Numbered
<1> HIDE DEF bible, F
<1>11. bible \in Seq(F) /\ Len(bible) = Len(kept)
  BY <1>7, <1>10
<1>12. \A i \in 1 .. Len(kept) :
          normalizeReferenceKey(bible[i]) = <<"bible", given[g[i]]>>
  BY <1>9 DEF normalizeReferenceKey
<1>13. ASSUME NEW i \in 1 .. Len(kept), NEW k \in 1 .. i - 1
       PROVE  normalizeReferenceKey(bible[k]) # normalizeReferenceKey(bible[i])
  <2>1. k \in 1 .. Len(kept) /\ k < i
    BY <1>7
  <2>2. g[k] < g[i]
    BY <1>6, <2>1 DEF Chosen
  <2>3. g[k] # g[i]
    BY <1>8, <2>1, <2>2
  <2>4. given[g[k]] # given[g[i]]
    BY <1>1, <1>8, <2>1, <2>3, FirstsCover DEF first
  <2> QED
    BY <1>12, <2>1, <2>4
<1>14. deduplicatePublicationReferences(bible) = bible
  <2>1. {i \in DOMAIN bible : \A k \in 1 .. i - 1 :
            normalizeReferenceKey(bible[k]) # normalizeReferenceKey(bible[i])}
          = 1 .. Len(bible)
    BY <1>9, <1>11, <1>13
  <2> QED
    BY <1>11, <2>1, KeepAtAll DEF deduplicatePublicationReferences, deduplicate
<1>15. createReferences(scripture) = Numbered(bible)
  BY <1>3, <1>14 DEF createReferences, bible
<1>16. /\ DOMAIN Numbered(bible) = 1 .. Len(kept)
       /\ \A i \in 1 .. Len(kept) : Numbered(bible)[i].label = given[g[i]]
  <2>1. ASSUME NEW i \in 1 .. Len(kept)
        PROVE  Numbered(bible)[i].label = bible[i].label
    <3>1. Numbered(bible)[i]
            = [bible[i] EXCEPT !.id = <<"ref", "scripture", ToString(i)>>]
      BY <1>9 DEF Numbered
    <3> QED
      BY <1>9, <3>1
  <2> QED
    BY <1>9, <2>1 DEF Numbered
<1>17. Len(Numbered(bible)) = Len(kept)
  BY <1>7, <1>16
<1> QED
  BY <1>6, <1>7, <1>15, <1>16, <1>17 DEF Chosen, first, given, N

\* What GuidesFaithful says of the labels and the citations.
ListsScripture(p, ai) ==
    LET labels == [i \in DOMAIN p.references |-> p.references[i].label]
        given == Given(ai.scripture)
        Position(label) ==
            CHOOSE i \in DOMAIN given : /\ given[i] = label
                /\ \A k \in 1 .. i - 1 : given[k] # label
    IN  /\ ToSet(labels) = ToSet(given)
        /\ \A i, k \in DOMAIN labels :
              i < k => Position(labels[i]) < Position(labels[k])
        /\ {p.citations[i].referenceId : i \in DOMAIN p.citations}
              = ToSet(Ids(p.references))

\* It is so, from where the references come from.
LEMMA ScriptureListed ==
    ASSUME NEW ai, ai.scripture \in ScriptureReferences,
           NEW p, p = buildCtaGuidePublication(ai)
    PROVE  ListsScripture(p, ai) /\ (p.references # <<>> <=> ai.scripture # <<>>)
<1> DEFINE references == createReferences(ai.scripture)
           labels == [i \in DOMAIN references |-> references[i].label]
           given == Given(ai.scripture)
           N == Len(ai.scripture)
           M == Len(references)
           first == Firsts(given, N)
           Position(label) ==
               CHOOSE i \in DOMAIN given : /\ given[i] = label
                   /\ \A k \in 1 .. i - 1 : given[k] # label
<1>1. /\ p.references = references
      /\ p.citations = [i \in DOMAIN references |->
             [id |-> <<"citation", ToString(i)>>,
              referenceId |-> references[i].id]]
  BY DEF buildCtaGuidePublication
<1>2. N \in Nat /\ DOMAIN ai.scripture = 1 .. N
      /\ (ai.scripture = <<>> <=> N = 0)
  BY DEF ScriptureReferences
<1>3. DOMAIN given = 1 .. N
  BY <1>2 DEF Given
<1>4. /\ DOMAIN references = 1 .. M /\ M \in Nat
      /\ \E g : /\ g \in [1 .. M -> first]
                /\ \A i, k \in 1 .. M : i < k => g[i] < g[k]
                /\ \A q \in first : \E i \in 1 .. M : g[i] = q
                /\ \A i \in 1 .. M : references[i].label = given[g[i]]
  BY ReferencesOfGuide
<1> HIDE DEF references, given
<1>5. PICK g : /\ g \in [1 .. M -> first]
               /\ \A i, k \in 1 .. M : i < k => g[i] < g[k]
               /\ \A q \in first : \E i \in 1 .. M : g[i] = q
               /\ \A i \in 1 .. M : references[i].label = given[g[i]]
  BY <1>4
<1> HIDE DEF N, M
<1>6. \A i \in 1 .. M : labels[i] = given[g[i]] /\ g[i] \in first
  BY <1>4, <1>5
<1>7. DOMAIN labels = 1 .. M
  BY <1>4
<1> HIDE DEF labels
<1>8. \A q \in first : q \in 1 .. N /\ \A k \in 1 .. q - 1 : given[k] # given[q]
  BY DEF Firsts
<1>8a. \A k \in 1 .. N : \E q \in first : given[q] = given[k]
  <2>1. \A k \in 1 .. N : \E q \in Firsts(given, N) : given[q] = given[k]
    <3> HIDE DEF first, Position
    <3>1. N \in Nat
      BY <1>2
    <3>2. /\ \A k \in 1 .. N : \E q \in Firsts(given, N) : given[q] = given[k]
          /\ \A q, r \in Firsts(given, N) : given[q] = given[r] => q = r
      BY <3>1, FirstsCover
    <3> QED
      BY <3>2
  <2> QED
    BY <2>1
<1> HIDE DEF first
<1>9. ToSet(labels) = ToSet(given)
  <2>1. ASSUME NEW i \in 1 .. M PROVE \E k \in 1 .. N : given[k] = labels[i]
    BY <1>6, <1>8
  <2>2. ASSUME NEW k \in 1 .. N PROVE \E i \in 1 .. M : given[k] = labels[i]
    <3>1. PICK q \in first : given[q] = given[k]
      BY <1>8a
    <3>2. PICK i \in 1 .. M : g[i] = q
      BY <1>5
    <3> QED
      BY <1>6, <3>1, <3>2
  <2>3. /\ ToSet(labels) = {labels[i] : i \in 1 .. M}
        /\ ToSet(given) = {given[k] : k \in 1 .. N}
    BY <1>3, <1>7, Zenon DEF ToSet
  <2> QED
    BY <2>1, <2>2, <2>3
<1>10. ASSUME NEW i \in 1 .. M PROVE Position(labels[i]) = g[i]
  <2>1. /\ g[i] \in DOMAIN given /\ given[g[i]] = labels[i]
        /\ \A k \in 1 .. g[i] - 1 : given[k] # labels[i]
    BY <1>3, <1>6, <1>8
  <2>2. ASSUME NEW q \in DOMAIN given, given[q] = labels[i],
               \A k \in 1 .. q - 1 : given[k] # labels[i]
        PROVE  q = g[i]
    <3>1. q \in 1 .. N /\ g[i] \in 1 .. N
      BY <1>3, <2>1
    <3>2. ~(q < g[i])
      <4>1. q < g[i] => q \in 1 .. g[i] - 1
        BY <1>2, <3>1
      <4> QED
        BY <2>1, <2>2, <4>1
    <3>3. ~(g[i] < q)
      <4>1. g[i] < q => g[i] \in 1 .. q - 1
        BY <1>2, <3>1
      <4> QED
        BY <2>1, <2>2, <4>1
    <3> QED
      BY <1>2, <3>1, <3>2, <3>3
  <2> QED
    BY <2>1, <2>2, Zenon
<1> HIDE DEF Position
<1>11. \A i, k \in DOMAIN labels :
          i < k => Position(labels[i]) < Position(labels[k])
  BY <1>5, <1>7, <1>10
<1>12. {p.citations[i].referenceId : i \in DOMAIN p.citations}
          = ToSet(Ids(p.references))
  <2>1. /\ DOMAIN p.citations = 1 .. M
        /\ \A i \in 1 .. M : p.citations[i].referenceId = references[i].id
    BY <1>1, <1>4
  <2>2. /\ DOMAIN Ids(references) = 1 .. M
        /\ \A i \in 1 .. M : Ids(references)[i] = references[i].id
    BY <1>4 DEF Ids
  <2>3. ToSet(Ids(references)) = {Ids(references)[i] : i \in 1 .. M}
    BY <2>2, Zenon DEF ToSet
  <2> QED
    BY <1>1, <2>1, <2>2, <2>3
<1>13. p.references # <<>> <=> ai.scripture # <<>>
  <2>1. references = <<>> <=> M = 0
    <3>1. references = <<>> => M = 0
      BY DEF M
    <3>2. M = 0 => references = <<>>
      BY <1>4
    <3> QED
      BY <3>1, <3>2
  <2>2. CASE N = 0
    <3>1. 1 .. N = {}
      BY <2>2
    <3>2. M = 0
      <4>1. M # 0 => 1 \in 1 .. M
        BY <1>4
      <4> QED
        BY <1>6, <1>8, <3>1, <4>1
    <3> QED
      BY <1>1, <1>2, <2>1, <2>2, <3>2
  <2>3. CASE N # 0
    <3>1. 1 \in 1 .. N
      BY <1>2, <2>3
    <3>2. \E q \in first : TRUE
      BY <1>8a, <3>1
    <3>3. M # 0
      <4>1. M = 0 => 1 .. M = {}
        OBVIOUS
      <4> QED
        BY <1>5, <3>2, <4>1
    <3> QED
      BY <1>1, <1>2, <2>1, <2>3, <3>3
  <2> QED
    BY <2>2, <2>3
<1> QED
  BY <1>1, <1>9, <1>11, <1>12, <1>13 DEF ListsScripture, labels, given, Position

-----------------------------------------------------------------------------
(* Sequences of sections and of entries *)

\* The elements of a concatenation.
LEMMA ConcatElements ==
    ASSUME NEW E, NEW s \in Seq(E), NEW t \in Seq(E)
    PROVE  s \o t \in Seq(E) /\ ToSet(s \o t) = ToSet(s) \union ToSet(t)
<1> DEFINE m == Len(s)
           n == Len(t)
           u == s \o t
<1>1. /\ m \in Nat /\ n \in Nat /\ u \in Seq(E) /\ Len(u) = m + n
      /\ DOMAIN s = 1 .. m /\ DOMAIN t = 1 .. n /\ DOMAIN u = 1 .. m + n
  OBVIOUS
<1>2. /\ \A i \in 1 .. m : u[i] = s[i]
      /\ \A i \in 1 .. n : u[m + i] = t[i]
  OBVIOUS
<1> HIDE DEF m, n, u
<1>3. ASSUME NEW i \in 1 .. m + n PROVE u[i] \in ToSet(s) \union ToSet(t)
  <2>1. CASE i <= m
    <3>1. i \in 1 .. m
      BY <1>1, <2>1
    <3> QED
      BY <1>1, <1>2, <3>1 DEF ToSet
  <2>2. CASE i > m
    <3>1. i - m \in 1 .. n /\ m + (i - m) = i
      BY <1>1, <2>2
    <3>2. u[i] = t[i - m]
      BY <1>2, <3>1
    <3> QED
      BY <1>1, <3>1, <3>2 DEF ToSet
  <2> QED
    BY <1>1, <2>1, <2>2
<1>4. ASSUME NEW i \in 1 .. m PROVE s[i] \in ToSet(u)
  <2>1. i \in 1 .. m + n
    BY <1>1
  <2> QED
    BY <1>1, <1>2, <2>1 DEF ToSet
<1>5. ASSUME NEW i \in 1 .. n PROVE t[i] \in ToSet(u)
  <2>1. m + i \in 1 .. m + n
    BY <1>1
  <2> QED
    BY <1>1, <1>2, <2>1 DEF ToSet
<1>6. ToSet(u) = ToSet(s) \union ToSet(t)
  <2>1. /\ ToSet(u) = {u[i] : i \in 1 .. m + n}
        /\ ToSet(s) = {s[i] : i \in 1 .. m}
        /\ ToSet(t) = {t[i] : i \in 1 .. n}
    BY <1>1, Zenon DEF ToSet
  <2> QED
    BY <1>3, <1>4, <1>5, <2>1
<1> QED
  BY <1>1, <1>6 DEF u

\* f flattens the first n sequences.
Flattens(f, seqs, n) ==
    f = [i \in 1 .. n |-> IF i = 1 THEN seqs[i] ELSE f[i - 1] \o seqs[i]]

\* There is such a function.
LEMMA FlattensExists ==
    ASSUME NEW seqs, NEW N \in Nat
    PROVE  \E f : Flattens(f, seqs, N)
<1> DEFINE S == {n \in Nat : \E f : Flattens(f, seqs, n)}
<1>1. 0 \in S
  <2> DEFINE f == [i \in 1 .. 0 |-> <<>>]
  <2>1. Flattens(f, seqs, 0)
    BY DEF Flattens
  <2> QED
    BY <2>1
<1>2. ASSUME NEW n \in S PROVE n + 1 \in S
  <2>1. PICK f : Flattens(f, seqs, n)
    OBVIOUS
  <2> DEFINE last == IF n = 0 THEN seqs[1] ELSE f[n] \o seqs[n + 1]
             g == [i \in 1 .. n + 1 |-> IF i = n + 1 THEN last ELSE f[i]]
  <2>2. ASSUME NEW i \in 1 .. n + 1
        PROVE  g[i] = IF i = 1 THEN seqs[i] ELSE g[i - 1] \o seqs[i]
    <3>1. CASE i = n + 1
      <4>1. /\ g[i] = last /\ (i = 1 <=> n = 0)
            /\ (i # 1 => g[i - 1] = f[n])
        BY <3>1
      <4> HIDE DEF g
      <4> QED
        BY <3>1, <4>1
    <3>2. CASE i # n + 1
      <4>1. i \in 1 .. n /\ g[i] = f[i] /\ (i # 1 => g[i - 1] = f[i - 1])
        BY <3>2
      <4>2. f[i] = IF i = 1 THEN seqs[i] ELSE f[i - 1] \o seqs[i]
        BY <2>1, <4>1 DEF Flattens
      <4> HIDE DEF g
      <4> QED
        BY <4>1, <4>2
    <3> QED
      BY <3>1, <3>2
  <2>3. g = [i \in 1 .. n + 1 |-> g[i]]
    OBVIOUS
  <2> HIDE DEF g
  <2>4. Flattens(g, seqs, n + 1)
    BY <2>2, <2>3 DEF Flattens
  <2> QED
    BY <2>4
<1> HIDE DEF S
<1>3. S = Nat
  <2>1. S \in SUBSET Nat
    BY DEF S
  <2> QED
    BY <1>1, <1>2, <2>1, Induction
<1> QED
  BY <1>3 DEF S

\* The elements of a flattened sequence.
LEMMA FlattenElements ==
    ASSUME NEW E, NEW seqs \in Seq(Seq(E))
    PROVE  /\ FlattenSeq(seqs) \in Seq(E)
           /\ \A x : x \in ToSet(FlattenSeq(seqs)) <=>
                        \E i \in 1 .. Len(seqs) : x \in ToSet(seqs[i])
<1> DEFINE N == Len(seqs)
<1>0. N \in Nat /\ \A i \in 1 .. N : seqs[i] \in Seq(E)
  OBVIOUS
<1>1. CASE N = 0
  <2>1. FlattenSeq(seqs) = seqs /\ seqs = <<>>
    BY <1>1 DEF FlattenSeq
  <2>2. ToSet(<<>>) = {} /\ 1 .. N = {}
    BY <1>1 DEF ToSet
  <2> QED
    BY <2>1, <2>2
<1>2. CASE N # 0
  <2> DEFINE f == CHOOSE f : Flattens(f, seqs, N)
  <2>1. Flattens(f, seqs, N)
    BY <1>0, FlattensExists, Zenon
  <2>2. FlattenSeq(seqs) = f[N]
    BY <1>2, Zenon DEF FlattenSeq, Flattens
  <2> HIDE DEF f
  <2>3. \A i \in 1 .. N : f[i] = IF i = 1 THEN seqs[i] ELSE f[i - 1] \o seqs[i]
    BY <2>1 DEF Flattens
  <2> DEFINE Right(n) ==
                 /\ f[n] \in Seq(E)
                 /\ \A x : x \in ToSet(f[n]) <=>
                              \E i \in 1 .. n : x \in ToSet(seqs[i])
             S == {n \in Nat : (1 <= n /\ n <= N) => Right(n)}
  <2> HIDE DEF N, Right
  <2>4. 0 \in S
    OBVIOUS
  <2>5. ASSUME NEW n \in S PROVE n + 1 \in S
    <3> SUFFICES ASSUME n + 1 <= N PROVE Right(n + 1)
      OBVIOUS
    <3>1. n + 1 \in 1 .. N /\ (n + 1) - 1 = n /\ seqs[n + 1] \in Seq(E)
      BY <1>0
    <3>2. CASE n = 0
      <4>1. f[n + 1] = seqs[n + 1] /\ 1 .. n + 1 = {n + 1}
        BY <2>3, <3>1, <3>2
      <4> QED
        BY <3>1, <4>1, Zenon DEF Right
    <3>3. CASE n # 0
      <4>1. f[n + 1] = f[n] \o seqs[n + 1]
        <5>1. n + 1 # 1
          BY <3>3
        <5> QED
          BY <2>3, <3>1, <5>1
      <4>2. Right(n)
        BY <1>0, <3>3
      <4>3. /\ f[n + 1] \in Seq(E)
            /\ ToSet(f[n + 1]) = ToSet(f[n]) \union ToSet(seqs[n + 1])
        BY <3>1, <4>1, <4>2, ConcatElements DEF Right
      <4>4. 1 .. n + 1 = (1 .. n) \union {n + 1}
        OBVIOUS
      <4>5. ASSUME NEW x
            PROVE  x \in ToSet(f[n + 1]) <=>
                      \E i \in 1 .. n + 1 : x \in ToSet(seqs[i])
        BY <4>2, <4>3, <4>4, Zenon DEF Right
      <4> QED
        BY <4>3, <4>5, Zenon DEF Right
    <3> QED
      BY <3>2, <3>3
  <2> HIDE DEF S
  <2>6. S = Nat
    <3>1. S \in SUBSET Nat
      BY DEF S
    <3> QED
      BY <2>4, <2>5, <3>1, Induction
  <2>7. Right(N)
    BY <1>0, <1>2, <2>6 DEF S
  <2> QED
    BY <2>2, <2>7, Zenon DEF N, Right
<1> QED
  BY <1>1, <1>2

-----------------------------------------------------------------------------
(* The table of contents *)

\* The local definitions of SectionEntries.
HeadingsOf(section) ==
    KeepAt(section.blocks, {i \in DOMAIN section.blocks :
        /\ section.blocks[i].type = "heading"
        /\ section.blocks[i].level > 1})

WithoutHeadings(section) ==
    [entries |-> <<TocEntry(<<"toc">> \o section.id, section.id, 1, NoId)>>,
     previousLevel |-> 1, parentLevel2Id |-> NoId]

WithHeading(section, before, block) ==
    LET level == normalizeHeadingLevel(before.previousLevel, block.level)
        entryId == <<"toc">> \o block.id
        parentId == IF level = 2 \/ before.parentLevel2Id = NoId
                    THEN <<"toc">> \o section.id ELSE before.parentLevel2Id
    IN  [entries |-> Append(before.entries,
                TocEntry(entryId, block.id, level, parentId)),
         previousLevel |-> level,
         parentLevel2Id |-> IF level = 2 THEN entryId
                            ELSE before.parentLevel2Id]

\* f goes through the first n headings.
GoesThrough(f, section, headings, n) ==
    f = [i \in 0 .. n |->
            IF i = 0 THEN WithoutHeadings(section)
            ELSE WithHeading(section, f[i - 1], headings[i])]

\* There is such a function.
LEMMA GoesThroughExists ==
    ASSUME NEW section, NEW headings, NEW N \in Nat
    PROVE  \E f : GoesThrough(f, section, headings, N)
<1> DEFINE S == {n \in Nat : \E f : GoesThrough(f, section, headings, n)}
<1>1. 0 \in S
  <2> DEFINE f == [i \in 0 .. 0 |-> WithoutHeadings(section)]
  <2>1. GoesThrough(f, section, headings, 0)
    BY DEF GoesThrough
  <2> QED
    BY <2>1
<1>2. ASSUME NEW n \in S PROVE n + 1 \in S
  <2>1. PICK f : GoesThrough(f, section, headings, n)
    OBVIOUS
  <2> DEFINE last == WithHeading(section, f[n], headings[n + 1])
             g == [i \in 0 .. n + 1 |-> IF i = n + 1 THEN last ELSE f[i]]
  <2>2. ASSUME NEW i \in 0 .. n + 1
        PROVE  g[i] = IF i = 0 THEN WithoutHeadings(section)
                      ELSE WithHeading(section, g[i - 1], headings[i])
    <3>1. CASE i = n + 1
      <4>1. g[i] = last /\ g[i - 1] = f[n] /\ i # 0
        BY <3>1
      <4> HIDE DEF g
      <4> QED
        BY <3>1, <4>1
    <3>2. CASE i # n + 1
      <4>1. i \in 0 .. n /\ g[i] = f[i] /\ (i # 0 => g[i - 1] = f[i - 1])
        BY <3>2
      <4>2. f[i] = IF i = 0 THEN WithoutHeadings(section)
                   ELSE WithHeading(section, f[i - 1], headings[i])
        BY <2>1, <4>1 DEF GoesThrough
      <4> HIDE DEF g
      <4> QED
        BY <4>1, <4>2
    <3> QED
      BY <3>1, <3>2
  <2>3. g = [i \in 0 .. n + 1 |-> g[i]]
    OBVIOUS
  <2> HIDE DEF g
  <2>4. GoesThrough(g, section, headings, n + 1)
    BY <2>2, <2>3 DEF GoesThrough
  <2> QED
    BY <2>4
<1> HIDE DEF S
<1>3. S = Nat
  <2>1. S \in SUBSET Nat
    BY DEF S
  <2> QED
    BY <1>1, <1>2, <2>1, Induction
<1> QED
  BY <1>3 DEF S

Entries(A) == [id : A, targetId : A, level : Nat, parentId : A]

\* An entry of the first level stands for its section.
FirstLevel(entries, id) ==
    /\ \E x \in ToSet(entries) : x.level = 1 /\ x.targetId = id
    /\ \A x \in ToSet(entries) : x.level = 1 => x.targetId = id

\* The set A has the ids that are needed for the entries of a section.
Listable(section, A) ==
    /\ NoId \in A /\ section.id \in A /\ <<"toc">> \o section.id \in A
    /\ section.blocks \in Seq(ToSet(section.blocks))
    /\ \A block \in ToSet(section.blocks) :
          block.level \in Nat /\ block.id \in A /\ <<"toc">> \o block.id \in A

\* A heading is never listed at the first level.
LEMMA HeadingLevels ==
    ASSUME NEW previous \in Nat, previous >= 1, NEW requested \in Nat,
           requested > 1
    PROVE  /\ normalizeHeadingLevel(previous, requested) \in Nat
           /\ normalizeHeadingLevel(previous, requested) >= 2
BY DEF normalizeHeadingLevel

\* The entries of a section.
LEMMA SectionEntriesShape ==
    ASSUME NEW section, NEW A, Listable(section, A)
    PROVE  /\ SectionEntries(section) \in Seq(Entries(A))
           /\ FirstLevel(SectionEntries(section), section.id)
<1> DEFINE B == ToSet(section.blocks)
           places == {i \in DOMAIN section.blocks :
                        /\ section.blocks[i].type = "heading"
                        /\ section.blocks[i].level > 1}
           headings == HeadingsOf(section)
           N == Len(headings)
           f == CHOOSE f : GoesThrough(f, section, headings, N)
<1>1. section.blocks \in Seq(B) /\ places \in SUBSET (1 .. Len(section.blocks))
  BY DEF Listable
<1>2. headings = KeepAt(section.blocks, places)
  BY DEF HeadingsOf
<1>3. /\ headings \in Seq(B)
      /\ \E g : Chosen(g, headings, section.blocks, places)
  <2> HIDE DEF places, headings, B
  <2> QED
    BY <1>1, <1>2, KeepAtChooses
<1>4. N \in Nat
  BY <1>3
<1>5. GoesThrough(f, section, headings, N)
  BY <1>4, GoesThroughExists, Zenon
<1>6. SectionEntries(section) = f[N].entries
  BY Zenon DEF SectionEntries, GoesThrough, WithoutHeadings, WithHeading,
               HeadingsOf
<1> HIDE DEF f
<1>7. \A i \in 1 .. N : /\ headings[i].level \in Nat /\ headings[i].level > 1
                        /\ headings[i].id \in A /\ <<"toc">> \o headings[i].id \in A
  <2>1. PICK g : Chosen(g, headings, section.blocks, places)
    BY <1>3
  <2>2. ASSUME NEW i \in 1 .. N
        PROVE  headings[i] \in B /\ headings[i].level > 1
    BY <1>3, <2>1 DEF Chosen
  <2> QED
    BY <2>2 DEF Listable
<1> HIDE DEF headings, N
<1>8. /\ f[0] = WithoutHeadings(section)
      /\ \A i \in 1 .. N : f[i] = WithHeading(section, f[i - 1], headings[i])
  <2>1. 0 \in 0 .. N /\ \A i \in 1 .. N : i \in 0 .. N /\ i # 0
    BY <1>4
  <2> QED
    BY <1>5, <2>1 DEF GoesThrough
<1> DEFINE Right(n) ==
               /\ f[n].entries \in Seq(Entries(A))
               /\ FirstLevel(f[n].entries, section.id)
               /\ f[n].previousLevel \in Nat /\ f[n].previousLevel >= 1
               /\ f[n].parentLevel2Id \in A
           S == {n \in Nat : n <= N => Right(n)}
<1> HIDE DEF Right
<1>9. 0 \in S
  <2> DEFINE entry == TocEntry(<<"toc">> \o section.id, section.id, 1, NoId)
  <2>1. entry \in Entries(A) /\ entry.level = 1 /\ entry.targetId = section.id
    BY DEF TocEntry, Entries, Listable
  <2>2. /\ f[0].entries = <<entry>> /\ f[0].previousLevel = 1
        /\ f[0].parentLevel2Id = NoId
    BY <1>8 DEF WithoutHeadings
  <2> HIDE DEF entry
  <2>3. <<entry>> \in Seq(Entries(A)) /\ ToSet(<<entry>>) = {entry}
    BY <2>1 DEF ToSet
  <2>4. FirstLevel(f[0].entries, section.id)
    BY <2>1, <2>2, <2>3 DEF FirstLevel
  <2>5. Right(0)
    BY <2>2, <2>3, <2>4 DEF Right, Listable
  <2> QED
    BY <2>5
<1>10. ASSUME NEW n \in S PROVE n + 1 \in S
  <2> SUFFICES ASSUME n + 1 <= N PROVE Right(n + 1)
    OBVIOUS
  <2>1. n \in Nat /\ Right(n) /\ n + 1 \in 1 .. N /\ (n + 1) - 1 = n
    BY <1>4
  <2> DEFINE before == f[n]
             block == headings[n + 1]
             level == normalizeHeadingLevel(before.previousLevel, block.level)
             entryId == <<"toc">> \o block.id
             parentId == IF level = 2 \/ before.parentLevel2Id = NoId
                         THEN <<"toc">> \o section.id ELSE before.parentLevel2Id
             entry == TocEntry(entryId, block.id, level, parentId)
  <2>2. /\ f[n + 1].entries = Append(before.entries, entry)
        /\ f[n + 1].previousLevel = level
        /\ f[n + 1].parentLevel2Id = IF level = 2 THEN entryId
                                     ELSE before.parentLevel2Id
    <3>1. f[n + 1] = WithHeading(section, before, block)
      BY <1>8, <2>1
    <3> HIDE DEF before, block
    <3> QED
      BY <3>1 DEF WithHeading
  <2>3. level \in Nat /\ level >= 2
    BY <1>7, <2>1, HeadingLevels DEF Right
  <2>4. block.id \in A /\ entryId \in A /\ before.parentLevel2Id \in A
    BY <1>7, <2>1 DEF Right
  <2>5. parentId \in A
    BY <2>4 DEF Listable
  <2>6. before.entries \in Seq(Entries(A)) /\ FirstLevel(before.entries, section.id)
    BY <2>1 DEF Right
  <2> HIDE DEF before, block, level, entryId, parentId
  <2>7. entry \in Entries(A) /\ entry.level # 1
    BY <2>3, <2>4, <2>5 DEF TocEntry, Entries
  <2> HIDE DEF entry
  <2>8. /\ <<entry>> \in Seq(Entries(A)) /\ ToSet(<<entry>>) = {entry}
        /\ Append(before.entries, entry) = before.entries \o <<entry>>
    BY <2>6, <2>7 DEF ToSet
  <2>9. /\ f[n + 1].entries \in Seq(Entries(A))
        /\ ToSet(f[n + 1].entries) = ToSet(before.entries) \union {entry}
    <3> DEFINE e == before.entries
               X == Entries(A)
               u == <<entry>>
    <3>1. e \in Seq(X) /\ u \in Seq(X) /\ f[n + 1].entries = e \o u
      BY <2>2, <2>6, <2>8
    <3>2. ToSet(u) = {entry}
      BY <2>8
    <3> HIDE DEF e, X, u
    <3>3. e \o u \in Seq(X) /\ ToSet(e \o u) = ToSet(e) \union ToSet(u)
      BY <3>1, ConcatElements
    <3> QED
      BY <3>1, <3>2, <3>3 DEF e, X
  <2>10. FirstLevel(f[n + 1].entries, section.id)
    BY <2>6, <2>7, <2>9 DEF FirstLevel
  <2> QED
    BY <2>2, <2>3, <2>4, <2>9, <2>10 DEF Right
<1> HIDE DEF S
<1>11. S = Nat
  <2>1. S \in SUBSET Nat
    BY DEF S
  <2> QED
    BY <1>9, <1>10, <2>1, Induction
<1>12. Right(N)
  BY <1>4, <1>11 DEF S
<1> QED
  BY <1>6, <1>12 DEF Right

\* The first level of the table of contents lists the sections of the body.
LEMMA TocOfSections ==
    ASSUME NEW T, NEW sections \in Seq(T), NEW A,
           \A section \in T : Listable(section, A)
    PROVE  LET toc == createTocEntriesForSections(sections)
               listed == KeepAt(sections, BodyPlaces(sections))
           IN  {toc[i].targetId : i \in {k \in DOMAIN toc : toc[k].level = 1}}
                  = ToSet(Ids(listed))
<1> DEFINE listed == KeepAt(sections, BodyPlaces(sections))
           seqs == [i \in DOMAIN listed |-> SectionEntries(listed[i])]
           toc == FlattenSeq(seqs)
           n == Len(listed)
<1>1. listed \in Seq(T)
  <2>1. BodyPlaces(sections) \in SUBSET (1 .. Len(sections))
    BY DEF BodyPlaces
  <2> QED
    BY <2>1, KeepAtChooses
<1>2. createTocEntriesForSections(sections) = toc
  BY DEF createTocEntriesForSections
<1> HIDE DEF listed
<1>3. n \in Nat /\ DOMAIN listed = 1 .. n /\ \A i \in 1 .. n : listed[i] \in T
  BY <1>1
<1> HIDE DEF n
<1>4. \A i \in 1 .. n : /\ seqs[i] \in Seq(Entries(A))
                        /\ FirstLevel(seqs[i], listed[i].id)
  BY <1>3, SectionEntriesShape
<1>5. DOMAIN seqs = 1 .. n /\ seqs = [i \in 1 .. n |-> seqs[i]]
  BY <1>3
<1> HIDE DEF seqs
<1>6. seqs \in Seq(Seq(Entries(A))) /\ Len(seqs) = n
  <2>1. seqs \in [1 .. n -> Seq(Entries(A))]
    BY <1>4, <1>5, Zenon
  <2> QED
    BY <1>3, <2>1
<1>7. /\ toc \in Seq(Entries(A))
      /\ \A x : x \in ToSet(toc) <=> \E i \in 1 .. n : x \in ToSet(seqs[i])
  <2> DEFINE X == Entries(A)
  <2>1. seqs \in Seq(Seq(X))
    BY <1>6
  <2> HIDE DEF X
  <2>2. /\ toc \in Seq(X)
        /\ \A x : x \in ToSet(toc) <=>
                     \E i \in 1 .. Len(seqs) : x \in ToSet(seqs[i])
    BY <2>1, FlattenElements
  <2> QED
    BY <1>6, <2>2 DEF X
<1> HIDE DEF toc
<1>8. {toc[i].targetId : i \in {k \in DOMAIN toc : toc[k].level = 1}}
         = {x.targetId : x \in {y \in ToSet(toc) : y.level = 1}}
  BY Zenon DEF ToSet
<1>9. ToSet(Ids(listed)) = {listed[i].id : i \in 1 .. n}
  <2>1. /\ DOMAIN Ids(listed) = 1 .. n
        /\ \A i \in 1 .. n : Ids(listed)[i] = listed[i].id
    BY <1>3 DEF Ids
  <2>2. ToSet(Ids(listed)) = {Ids(listed)[i] : i \in 1 .. n}
    BY <2>1, Zenon DEF ToSet
  <2> QED
    BY <2>1, <2>2
<1>10. ASSUME NEW x \in ToSet(toc), x.level = 1
       PROVE  \E i \in 1 .. n : x.targetId = listed[i].id
  <2>1. PICK i \in 1 .. n : x \in ToSet(seqs[i])
    BY <1>7
  <2> QED
    BY <1>4, <1>10, <2>1 DEF FirstLevel
<1>11. ASSUME NEW i \in 1 .. n
       PROVE  \E x \in ToSet(toc) : x.level = 1 /\ x.targetId = listed[i].id
  <2>1. PICK x \in ToSet(seqs[i]) : x.level = 1 /\ x.targetId = listed[i].id
    BY <1>4 DEF FirstLevel
  <2> QED
    BY <1>7, <2>1
<1>12. {x.targetId : x \in {y \in ToSet(toc) : y.level = 1}}
          = {listed[i].id : i \in 1 .. n}
  BY <1>10, <1>11
<1> QED
  BY <1>2, <1>8, <1>9, <1>12 DEF listed

-----------------------------------------------------------------------------
(* The sections of a guide *)

\* A section whose blocks are a sequence and have levels.
Levelled(section) ==
    /\ section.blocks \in Seq(ToSet(section.blocks))
    /\ \A block \in ToSet(section.blocks) : block.level \in Nat

\* A section of two blocks.
LEMMA TwoBlocks ==
    ASSUME NEW id, NEW a, NEW b, a.level \in Nat, b.level \in Nat
    PROVE  Levelled(Section(id, <<a, b>>))
BY DEF Levelled, Section, ToSet

\* A section of three blocks.
LEMMA ThreeBlocks ==
    ASSUME NEW id, NEW a, NEW b, NEW c,
           a.level \in Nat, b.level \in Nat, c.level \in Nat
    PROVE  Levelled(Section(id, <<a, b, c>>))
BY DEF Levelled, Section, ToSet

\* A section of four blocks.
LEMMA FourBlocks ==
    ASSUME NEW id, NEW a, NEW b, NEW c, NEW d, a.level \in Nat,
           b.level \in Nat, c.level \in Nat, d.level \in Nat
    PROVE  Levelled(Section(id, <<a, b, c, d>>))
BY DEF Levelled, Section, ToSet

\* The levels of the blocks.
LEMMA BlockLevels ==
    /\ \A id, type : Block(id, type).level = 0
    /\ \A id : \A n \in Nat : createHeading(id, n).level = n
    /\ \A id, type : createTextBlock(id, type).level = 0
    /\ \A id, type, n : [Block(id, type) EXCEPT !.items = n].level = 0
    /\ \A id, type, n, m :
          [Block(id, type) EXCEPT !.title = n, !.text = m].level = 0
BY DEF Block, createHeading, createTextBlock

\* A section that is there or not.
LEMMA OptionalElements ==
    ASSUME NEW T, NEW section \in T, NEW present \in BOOLEAN
    PROVE  /\ OptionalSection(present, section) \in Seq(T)
           /\ ToSet(OptionalSection(present, section))
                 = {x \in {section} : present}
<1>1. <<section>> \in Seq(T) /\ ToSet(<<section>>) = {section}
  BY DEF ToSet
<1>2. <<>> \in Seq(T) /\ ToSet(<<>>) = {}
  BY DEF ToSet
<1> QED
  BY <1>1, <1>2 DEF OptionalSection

\* The sections of a guide: those that it may have, and when it has references.
LEMMA SectionsOfGuide ==
    ASSUME NEW ai, NEW references, NEW sections,
           sections = createSections(ai, references)
    PROVE  /\ \E T : /\ sections \in Seq(T)
                     /\ \A section \in T : Levelled(section)
           /\ <<"references">> \in ToSet(Ids(sections)) <=> references # <<>>
<1> DEFINE keywords == uniqueNonEmpty(ai.keywords)
           reflections == uniqueNonEmpty(ai.reflections)
           joined == JoinedLength(references)
           cover == Section(Cover,
             <<createHeading(<<"cover", "h1">>, 1),
               createTextBlock(<<"cover", "subtitle">>, "paragraph")>>)
           contents == Section(TocSection,
             <<createHeading(<<"toc", "h1">>, 1),
               createTextBlock(<<"toc", "note">>, "paragraph")>>)
           summary == Section(<<"message", "summary">>,
             <<createHeading(<<"summary", "h1">>, 1),
               createHeading(<<"summary", "h2", "detail">>, 2),
               createTextBlock(<<"summary", "short">>, "key-takeaway"),
               createTextBlock(<<"summary", "detailed">>, "paragraph")>>)
           themes == Section(<<"key", "themes">>,
             <<createHeading(<<"themes", "h1">>, 1),
               createHeading(<<"themes", "h2", "list">>, 2),
               [Block(<<"themes", "list">>, "bullet-list")
                   EXCEPT !.items = Len(keywords)]>>)
           scripture == Section(<<"scripture", "references">>,
             <<createHeading(<<"scripture", "h1">>, 1),
               createHeading(<<"scripture", "h2", "passages">>, 2),
               [Block(<<"scripture", "block">>, "scripture")
                   EXCEPT !.title = joined, !.text = joined]>>)
           questions == Section(<<"reflection", "questions">>,
             <<createHeading(<<"reflection", "h1">>, 1),
               createHeading(<<"reflection", "h2", "questions">>, 2),
               [Block(<<"reflection", "list">>, "numbered-list")
                   EXCEPT !.items = Len(reflections)]>>)
           last == Section(<<"references">>,
             <<createHeading(<<"references", "h1">>, 1),
               [Block(<<"references", "table">>, "table")
                   EXCEPT !.items = Len(references)]>>)
           T == {cover, contents, summary, themes, scripture, questions, last}
           o1 == OptionalSection(keywords # <<>>, themes)
           o2 == OptionalSection(references # <<>>, scripture)
           o3 == OptionalSection(reflections # <<>>, questions)
           o4 == OptionalSection(references # <<>>, last)
           start == <<cover, contents, summary>>
<1>1. sections = start \o o1 \o o2 \o o3 \o o4
  BY Zenon DEF createSections
<1>2a. Levelled(cover)
  <2> DEFINE a == createHeading(<<"cover", "h1">>, 1)
             b == createTextBlock(<<"cover", "subtitle">>, "paragraph")
  <2>1. cover = Section(Cover, <<a, b>>)
    OBVIOUS
  <2>2. a.level \in Nat /\ b.level \in Nat
    BY BlockLevels
  <2> HIDE DEF cover, a, b
  <2> QED
    BY <2>1, <2>2, TwoBlocks
<1>2b. Levelled(contents)
  <2> DEFINE a == createHeading(<<"toc", "h1">>, 1)
             b == createTextBlock(<<"toc", "note">>, "paragraph")
  <2>1. contents = Section(TocSection, <<a, b>>)
    OBVIOUS
  <2>2. a.level \in Nat /\ b.level \in Nat
    BY BlockLevels
  <2> HIDE DEF contents, a, b
  <2> QED
    BY <2>1, <2>2, TwoBlocks
<1>2c. Levelled(summary)
  <2> DEFINE a == createHeading(<<"summary", "h1">>, 1)
             b == createHeading(<<"summary", "h2", "detail">>, 2)
             c == createTextBlock(<<"summary", "short">>, "key-takeaway")
             d == createTextBlock(<<"summary", "detailed">>, "paragraph")
  <2>1. summary = Section(<<"message", "summary">>, <<a, b, c, d>>)
    OBVIOUS
  <2>2. a.level \in Nat /\ b.level \in Nat /\ c.level \in Nat /\ d.level \in Nat
    BY BlockLevels
  <2> HIDE DEF summary, a, b, c, d
  <2> QED
    BY <2>1, <2>2, FourBlocks
<1>2d. Levelled(themes)
  <2> DEFINE a == createHeading(<<"themes", "h1">>, 1)
             b == createHeading(<<"themes", "h2", "list">>, 2)
             c == [Block(<<"themes", "list">>, "bullet-list")
                      EXCEPT !.items = Len(keywords)]
  <2>1. themes = Section(<<"key", "themes">>, <<a, b, c>>)
    OBVIOUS
  <2>2. a.level \in Nat /\ b.level \in Nat /\ c.level \in Nat
    BY BlockLevels
  <2> HIDE DEF themes, a, b, c
  <2> QED
    BY <2>1, <2>2, ThreeBlocks
<1>2e. Levelled(scripture)
  <2> DEFINE a == createHeading(<<"scripture", "h1">>, 1)
             b == createHeading(<<"scripture", "h2", "passages">>, 2)
             c == [Block(<<"scripture", "block">>, "scripture")
                      EXCEPT !.title = joined, !.text = joined]
  <2>1. scripture = Section(<<"scripture", "references">>, <<a, b, c>>)
    OBVIOUS
  <2>2. a.level \in Nat /\ b.level \in Nat /\ c.level \in Nat
    BY BlockLevels
  <2> HIDE DEF scripture, a, b, c
  <2> QED
    BY <2>1, <2>2, ThreeBlocks
<1>2f. Levelled(questions)
  <2> DEFINE a == createHeading(<<"reflection", "h1">>, 1)
             b == createHeading(<<"reflection", "h2", "questions">>, 2)
             c == [Block(<<"reflection", "list">>, "numbered-list")
                      EXCEPT !.items = Len(reflections)]
  <2>1. questions = Section(<<"reflection", "questions">>, <<a, b, c>>)
    OBVIOUS
  <2>2. a.level \in Nat /\ b.level \in Nat /\ c.level \in Nat
    BY BlockLevels
  <2> HIDE DEF questions, a, b, c
  <2> QED
    BY <2>1, <2>2, ThreeBlocks
<1>2g. Levelled(last)
  <2> DEFINE a == createHeading(<<"references", "h1">>, 1)
             b == [Block(<<"references", "table">>, "table")
                      EXCEPT !.items = Len(references)]
  <2>1. last = Section(<<"references">>, <<a, b>>)
    OBVIOUS
  <2>2. a.level \in Nat /\ b.level \in Nat
    BY BlockLevels
  <2> HIDE DEF last, a, b
  <2> QED
    BY <2>1, <2>2, TwoBlocks
<1>5. /\ cover.id = <<"cover">> /\ contents.id = <<"table", "of", "contents">>
      /\ summary.id = <<"message", "summary">>
      /\ themes.id = <<"key", "themes">>
      /\ scripture.id = <<"scripture", "references">>
      /\ questions.id = <<"reflection", "questions">>
      /\ last.id = <<"references">>
  BY DEF Section, Cover, TocSection
<1> HIDE DEF cover, contents, summary, themes, scripture, questions, last,
             keywords, reflections
<1>6. \A section \in T : Levelled(section)
  BY <1>2a, <1>2b, <1>2c, <1>2d, <1>2e, <1>2f, <1>2g
<1>7. \A section \in T : section.id = <<"references">> <=> section = last
  <2>1. /\ <<"cover">> # <<"references">>
        /\ <<"table", "of", "contents">> # <<"references">>
        /\ <<"message", "summary">> # <<"references">>
        /\ <<"key", "themes">> # <<"references">>
        /\ <<"scripture", "references">> # <<"references">>
        /\ <<"reflection", "questions">> # <<"references">>
    OBVIOUS
  <2> QED
    BY <1>5, <2>1
<1>8. start \in Seq(T) /\ ToSet(start) = {cover, contents, summary}
  BY DEF ToSet
<1>9. cover # last /\ contents # last /\ summary # last /\ themes # last
      /\ scripture # last /\ questions # last
  BY <1>5, <1>7
<1>10. /\ o1 \in Seq(T) /\ ToSet(o1) = {x \in {themes} : keywords # <<>>}
       /\ o2 \in Seq(T) /\ ToSet(o2) = {x \in {scripture} : references # <<>>}
       /\ o3 \in Seq(T) /\ ToSet(o3) = {x \in {questions} : reflections # <<>>}
       /\ o4 \in Seq(T) /\ ToSet(o4) = {x \in {last} : references # <<>>}
  <2>1. /\ themes \in T /\ scripture \in T /\ questions \in T /\ last \in T
        /\ (keywords # <<>>) \in BOOLEAN /\ (references # <<>>) \in BOOLEAN
        /\ (reflections # <<>>) \in BOOLEAN
    OBVIOUS
  <2> HIDE DEF T
  <2> QED
    BY <2>1, OptionalElements, Zenon
<1> HIDE DEF T, o1, o2, o3, o4, start
<1>11. /\ sections \in Seq(T)
       /\ ToSet(sections) = ToSet(start) \union ToSet(o1) \union ToSet(o2)
                            \union ToSet(o3) \union ToSet(o4)
  <2> DEFINE s1 == start \o o1
             s2 == s1 \o o2
             s3 == s2 \o o3
             s4 == s3 \o o4
  <2>0. /\ start \in Seq(T) /\ o1 \in Seq(T) /\ o2 \in Seq(T)
        /\ o3 \in Seq(T) /\ o4 \in Seq(T)
    BY <1>8, <1>10
  <2>1. s1 \in Seq(T) /\ ToSet(s1) = ToSet(start) \union ToSet(o1)
    BY <2>0, ConcatElements
  <2>2. sections = s4
    BY <1>1
  <2> HIDE DEF s1
  <2>3. s2 \in Seq(T) /\ ToSet(s2) = ToSet(s1) \union ToSet(o2)
    BY <2>0, <2>1, ConcatElements
  <2> HIDE DEF s2
  <2>4. s3 \in Seq(T) /\ ToSet(s3) = ToSet(s2) \union ToSet(o3)
    BY <2>0, <2>3, ConcatElements
  <2> HIDE DEF s3
  <2>5. s4 \in Seq(T) /\ ToSet(s4) = ToSet(s3) \union ToSet(o4)
    BY <2>0, <2>4, ConcatElements
  <2> HIDE DEF s4
  <2> QED
    BY <2>1, <2>2, <2>3, <2>4, <2>5
<1>12. last \in ToSet(sections) <=> references # <<>>
  BY <1>8, <1>9, <1>10, <1>11
<1>13. <<"references">> \in ToSet(Ids(sections)) <=> last \in ToSet(sections)
  <2>1. /\ DOMAIN sections = 1 .. Len(sections) /\ DOMAIN Ids(sections) = DOMAIN sections
        /\ \A i \in DOMAIN sections : /\ Ids(sections)[i] = sections[i].id
                                      /\ sections[i] \in T
    BY <1>11 DEF Ids
  <2>2. <<"references">> \in ToSet(Ids(sections)) <=>
           \E i \in DOMAIN sections : sections[i].id = <<"references">>
    BY <2>1 DEF ToSet
  <2>3. last \in ToSet(sections) <=> \E i \in DOMAIN sections : sections[i] = last
    BY DEF ToSet
  <2> QED
    BY <1>7, <2>1, <2>2, <2>3
<1> QED
  BY <1>6, <1>11, <1>12, <1>13

\* Where the ids for the table of contents come from.
LEMMA ListableSections ==
    ASSUME NEW T, \A section \in T : Levelled(section)
    PROVE  \E A : \A section \in T : Listable(section, A)
<1> DEFINE B == UNION {ToSet(section.blocks) : section \in T}
           A == {NoId} \union {section.id : section \in T}
                \union {<<"toc">> \o section.id : section \in T}
                \union {block.id : block \in B}
                \union {<<"toc">> \o block.id : block \in B}
<1>1. ASSUME NEW section \in T PROVE Listable(section, A)
  <2>1. \A block \in ToSet(section.blocks) : block \in B
    BY Zenon
  <2>2. \A block \in B : block.id \in A /\ <<"toc">> \o block.id \in A
    <3> HIDE DEF B
    <3> QED
      BY Zenon
  <2>3. NoId \in A /\ section.id \in A /\ <<"toc">> \o section.id \in A
    BY Zenon
  <2> HIDE DEF A, B
  <2> QED
    BY <2>1, <2>2, <2>3 DEF Listable, Levelled
<1> HIDE DEF A
<1> QED
  BY <1>1

-----------------------------------------------------------------------------

\* A guide lists each scripture reference once, in the order the AI gave them,
\* cites each of them, and has a section of references exactly when there are
\* any; the first level of its table of contents lists its sections.  What
\* buildCtaGuidePublication makes of an AI result is so for every result that
\* the AI schemas accept.
THEOREM GuidesFaithfulToResults == Spec => []GuidesFaithful
<1>1. GuideInv => GuidesFaithful
  <2> SUFFICES ASSUME GuideInv, aiResult # NoAIResult, publication # NoPublication
               PROVE  GuidesFaithful
    BY DEF GuidesFaithful
  <2>1. PICK ai \in AIResults : ai = aiResult
    BY DEF GuideInv
  <2>2. PICK p : p = publication /\ p = buildCtaGuidePublication(ai)
    BY <2>1 DEF GuideInv
  <2>3. ai.scripture \in ScriptureReferences
    BY AIResultsAssumption
  <2>4. p.references = createReferences(ai.scripture)
        /\ p.sections = createSections(ai, p.references)
        /\ p.toc = createTocEntriesForSections(p.sections)
    BY <2>2 DEF buildCtaGuidePublication
  <2>5. PICK T : p.sections \in Seq(T) /\ \A section \in T : Levelled(section)
    BY <2>4, SectionsOfGuide
  <2>6. PICK A : \A section \in T : Listable(section, A)
    BY <2>5, ListableSections
  <2>7. {p.toc[i].targetId : i \in {k \in DOMAIN p.toc : p.toc[k].level = 1}}
           = ToSet(Ids(BodySections(p)))
    BY <2>4, <2>5, <2>6, TocOfSections DEF BodySections
  <2>8. (<<"references">> \in ToSet(Ids(p.sections))) <=> ai.scripture # <<>>
    <3>1. p.references # <<>> <=> ai.scripture # <<>>
      BY <2>2, <2>3, ScriptureListed, Zenon
    <3>2. <<"references">> \in ToSet(Ids(p.sections)) <=> p.references # <<>>
      BY <2>4, SectionsOfGuide, Zenon
    <3> QED
      BY <3>1, <3>2
  <2>9. ListsScripture(p, ai)
    BY <2>2, <2>3, ScriptureListed
  <2>10. GuidesFaithful <=>
           (aiResult # NoAIResult /\ publication # NoPublication =>
              /\ ListsScripture(publication, aiResult)
              /\ (<<"references">> \in ToSet(Ids(publication.sections)))
                    <=> aiResult.scripture # <<>>
              /\ {publication.toc[i].targetId :
                     i \in {k \in DOMAIN publication.toc :
                              publication.toc[k].level = 1}}
                    = ToSet(Ids(BodySections(publication))))
    BY Zenon DEF GuidesFaithful, ListsScripture, Given
  <2> QED
    BY <2>1, <2>2, <2>7, <2>8, <2>9, <2>10, Zenon
<1> QED
  BY <1>1, GuideInvariant, PTL

=============================================================================
