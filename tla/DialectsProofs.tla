--------------------------- MODULE DialectsProofs ---------------------------
(***************************************************************************)
(* Theorems about a conversation that crosses the two dialects, for every  *)
(* content, every number of turns and of calls, and all settings.          *)
(***************************************************************************)
EXTENDS Dialects, FiniteSetTheorems, SequenceTheorems, WellFoundedInduction, TLAPS

-----------------------------------------------------------------------------
(* Sequences.                                                              *)

LEMMA LeastNatural ==
  ASSUME NEW T \in SUBSET Nat, T # {}
  PROVE  \E n \in T : \A m \in T : n <= m
<1>1. PICK n \in T : \A m \in T : ~ (<<m, n>> \in OpToRel(<, Nat))
  BY WFMin, NatLessThanWellFounded
<1>2. \A m \in T : ~ (m < n)
  BY <1>1 DEF OpToRel
<1>3. QED
  BY <1>2

\* Induction over the set of numbers up to n for which a fact holds.
LEMMA UpTo ==
  ASSUME NEW n \in Nat, NEW T, 0 \in T,
         \A k \in 1..n : k - 1 \in T => k \in T
  PROVE  \A k \in 0..n : k \in T
<1> DEFINE Bad == {k \in 0..n : k \notin T}
<1>1. SUFFICES ASSUME Bad # {} PROVE FALSE
  OBVIOUS
<1>2. PICK k \in Bad : \A j \in Bad : k <= j
  <2>1. Bad \in SUBSET Nat
    OBVIOUS
  <2>2. QED
    BY <1>1, <2>1, LeastNatural
<1>3. k \in 1..n /\ k - 1 \in 0..n /\ ~(k <= k - 1)
  BY <1>2
<1>4. QED
  BY <1>2, <1>3

\* The elements of s up to the k-th, and one more.
LEMMA PrefixStep ==
  ASSUME NEW S, NEW s \in Seq(S), NEW k \in 1..Len(s)
  PROVE  /\ SubSeq(s, 1, k - 1) \in Seq(S)
         /\ s[k] \in S
         /\ SubSeq(s, 1, k) = Append(SubSeq(s, 1, k - 1), s[k])
  OBVIOUS

LEMMA PrefixEnds ==
  ASSUME NEW S, NEW s \in Seq(S)
  PROVE  SubSeq(s, 1, 0) = <<>> /\ SubSeq(s, 1, Len(s)) = s /\ Len(s) \in Nat
  OBVIOUS

LEMMA ConcatTyped ==
  ASSUME NEW S, NEW a \in Seq(S), NEW b \in Seq(S)
  PROVE  /\ a \o b \in Seq(S)
         /\ a \o <<>> = a /\ <<>> \o a = a
         /\ a \o b = <<>> => a = <<>> /\ b = <<>>
  OBVIOUS

LEMMA SingleTyped ==
  ASSUME NEW S, NEW x \in S
  PROVE  /\ <<x>> \in Seq(S) /\ Len(<<x>>) = 1 /\ <<x>>[1] = x /\ DOMAIN <<x>> = {1}
         /\ \A i \in 1..Len(<<x>>) : <<x>>[i] = x
         /\ <<>> \in Seq(S) /\ Len(<<>>) = 0
  OBVIOUS

LEMMA ConcatParts ==
  ASSUME NEW S, NEW a \in Seq(S), NEW b \in Seq(S), NEW x \in S
  PROVE  /\ a \o b \in Seq(S)
         /\ a \o <<>> = a /\ <<>> \o a = a
         /\ a \o Append(b, x) = Append(a \o b, x)
         /\ a \o <<x>> = Append(a, x)
  OBVIOUS

LEMMA ConcatEntries ==
  ASSUME NEW S, NEW a \in Seq(S), NEW b \in Seq(S)
  PROVE  /\ Len(a) \in Nat /\ Len(b) \in Nat
         /\ DOMAIN a = 1..Len(a) /\ DOMAIN b = 1..Len(b)
         /\ a \o b \in Seq(S) /\ Len(a \o b) = Len(a) + Len(b)
         /\ DOMAIN (a \o b) = 1..(Len(a) + Len(b))
         /\ \A j \in 1..Len(a) : (a \o b)[j] = a[j]
         /\ \A j \in (Len(a) + 1)..(Len(a) + Len(b)) : (a \o b)[j] = b[j - Len(a)]
  OBVIOUS

\* A sequence is what comes before a place in it, and what comes after.
LEMMA SplitAt ==
  ASSUME NEW S, NEW s \in Seq(S), NEW k \in 0..Len(s)
  PROVE  /\ SubSeq(s, 1, k) \in Seq(S) /\ SubSeq(s, k + 1, Len(s)) \in Seq(S)
         /\ s = SubSeq(s, 1, k) \o SubSeq(s, k + 1, Len(s))
<1>1. /\ Len(s) \in Nat /\ 1 \in 1..(Len(s) + 1) /\ k \in (1 - 1)..Len(s)
      /\ Len(s) \in k..Len(s)
  OBVIOUS
<1>2. SubSeq(s, 1, k) \o SubSeq(s, k + 1, Len(s)) = SubSeq(s, 1, Len(s))
  BY <1>1, ConcatAdjacentSubSeq
<1>3. SubSeq(s, 1, Len(s)) = s
  BY PrefixEnds
<1>4. SubSeq(s, 1, k) \in Seq(S) /\ SubSeq(s, k + 1, Len(s)) \in Seq(S)
  OBVIOUS
<1>5. QED
  BY <1>2, <1>3, <1>4

-----------------------------------------------------------------------------
(* Selecting blocks.                                                       *)

Wanted(b, types, dropped) == b.type \in types /\ b.value \notin dropped

\* What is kept of the first blocks, for every number of them.
IsSelection(kept, s, types, dropped) ==
    /\ kept[0] = <<>>
    /\ \A k \in 1..Len(s) : kept[k] = IF Wanted(s[k], types, dropped)
                                      THEN Append(kept[k - 1], s[k])
                                      ELSE kept[k - 1]

LEMMA KeptUnfolds ==
  ASSUME NEW S, NEW s \in Seq(S), NEW types, NEW dropped
  PROVE  \E kept : /\ Kept(s, types, dropped) = kept[Len(s)]
                   /\ IsSelection(kept, s, types, dropped)
<1> DEFINE Rest(g, k) == IF s[k].type \in types /\ s[k].value \notin dropped
                         THEN Append(g, s[k]) ELSE g
           Unfolds(g, m) == g = [k \in 0..m |-> IF k = 0 THEN <<>> ELSE Rest(g[k - 1], k)]
           Entries(g, m) == /\ g = [k \in 0..m |-> g[k]]
                            /\ g[0] = <<>>
                            /\ \A k \in 1..m : g[k] = Rest(g[k - 1], k)
<1> HIDE DEF Rest
<1>1. ASSUME NEW m \in Nat, NEW g
      PROVE  Unfolds(g, m) <=> Entries(g, m)
  <2>1. ASSUME Unfolds(g, m) PROVE Entries(g, m)
    <3>1. \A k \in 0..m : g[k] = IF k = 0 THEN <<>> ELSE Rest(g[k - 1], k)
      BY <2>1
    <3>2. g = [k \in 0..m |-> g[k]]
      BY <2>1
    <3>3. QED
      BY <3>1, <3>2
  <2>2. ASSUME Entries(g, m) PROVE Unfolds(g, m)
    <3> DEFINE r == [k \in 0..m |-> IF k = 0 THEN <<>> ELSE Rest(g[k - 1], k)]
    <3>1. ASSUME NEW k \in 0..m PROVE g[k] = r[k]
      <4>1. k = 0 \/ k \in 1..m
        OBVIOUS
      <4>2. QED
        BY <2>2, <4>1
    <3>2. g = r
      BY <2>2, <3>1
    <3>3. QED
      BY <3>2
  <2>3. QED
    BY <2>1, <2>2
<1>2. \E g : Entries(g, 0)
  <2>1. Entries([k \in 0..0 |-> <<>>], 0)
    OBVIOUS
  <2>2. QED
    BY <2>1
<1>3. ASSUME NEW m \in Nat, NEW g, Entries(g, m)
      PROVE  \E h : Entries(h, m + 1)
  <2> DEFINE x == Rest(g[m], m + 1)
             h == [k \in 0..(m + 1) |-> IF k <= m THEN g[k] ELSE x]
  <2> HIDE DEF x
  <2>1. \A k \in 0..m : h[k] = g[k]
    OBVIOUS
  <2>2. h[m + 1] = x /\ h[m] = g[m]
    OBVIOUS
  <2>3. h = [k \in 0..(m + 1) |-> h[k]]
    OBVIOUS
  <2> HIDE DEF h
  <2>4. \A k \in 1..(m + 1) : h[k] = Rest(h[k - 1], k)
    <3>1. ASSUME NEW k \in 1..m PROVE h[k] = Rest(h[k - 1], k)
      <4>1. k \in 0..m /\ k - 1 \in 0..m
        OBVIOUS
      <4>2. QED
        BY <1>3, <2>1, <4>1
    <3>2. h[m + 1] = Rest(h[m], m + 1)
      BY <2>2 DEF x
    <3>3. QED
      BY <3>1, <3>2
  <2>5. h[0] = <<>>
    BY <1>3, <2>1
  <2>6. Entries(h, m + 1)
    BY <2>3, <2>4, <2>5
  <2>7. QED
    BY <2>6
<1> HIDE DEF Entries, Unfolds
<1>4. Len(s) \in Nat
  OBVIOUS
<1>5. Len(s) \in {m \in Nat : \E g : Entries(g, m)}
  <2> DEFINE T == {m \in Nat : \E g : Entries(g, m)}
  <2>1. 0 \in T
    BY <1>2
  <2>2. \A k \in 1..Len(s) : k - 1 \in T => k \in T
    <3>1. ASSUME NEW k \in 1..Len(s), k - 1 \in T PROVE k \in T
      <4>1. k - 1 \in Nat /\ (k - 1) + 1 = k /\ k \in Nat
        OBVIOUS
      <4>2. QED
        BY <1>3, <3>1, <4>1
    <3>2. QED
      BY <3>1
  <2> HIDE DEF T
  <2>3. \A k \in 0..Len(s) : k \in T
    BY <1>4, <2>1, <2>2, UpTo
  <2>4. QED
    BY <1>4, <2>3 DEF T
<1> DEFINE kept == CHOOSE g : Unfolds(g, Len(s))
<1>6. Unfolds(kept, Len(s))
  BY <1>1, <1>4, <1>5
<1>7. Kept(s, types, dropped) = kept[Len(s)]
  BY DEF Kept, Unfolds, Rest
<1> HIDE DEF kept
<1>8. Entries(kept, Len(s))
  BY <1>1, <1>4, <1>6
<1>9. IsSelection(kept, s, types, dropped)
  BY <1>8 DEF Entries, Rest, IsSelection, Wanted
<1>10. QED
  BY <1>7, <1>9

\* Nothing is kept of nothing.
LEMMA KeptNothing ==
  ASSUME NEW types, NEW dropped
  PROVE  Kept(<<>>, types, dropped) = <<>>
<1>1. <<>> \in Seq({})
  OBVIOUS
<1>2. PICK kept : /\ Kept(<<>>, types, dropped) = kept[Len(<<>>)]
                  /\ IsSelection(kept, <<>>, types, dropped)
  BY <1>1, KeptUnfolds
<1>3. QED
  BY <1>2 DEF IsSelection

\* What one more block adds to what is kept.
LEMMA KeptAppend ==
  ASSUME NEW S, NEW s \in Seq(S), NEW b \in S, NEW types, NEW dropped
  PROVE  Kept(Append(s, b), types, dropped) =
            IF Wanted(b, types, dropped)
            THEN Append(Kept(s, types, dropped), b)
            ELSE Kept(s, types, dropped)
<1> DEFINE n == Len(s)
           u == Append(s, b)
<1>1. /\ n \in Nat /\ u \in Seq(S) /\ Len(u) = n + 1 /\ u[n + 1] = b
      /\ \A k \in 1..n : u[k] = s[k]
  OBVIOUS
<1>2. PICK f : Kept(s, types, dropped) = f[n] /\ IsSelection(f, s, types, dropped)
  BY KeptUnfolds
<1>3. PICK g : Kept(u, types, dropped) = g[Len(u)] /\ IsSelection(g, u, types, dropped)
  BY <1>1, KeptUnfolds
<1> HIDE DEF n, u
<1>4. \A k \in 1..n : f[k] = IF Wanted(s[k], types, dropped)
                              THEN Append(f[k - 1], s[k]) ELSE f[k - 1]
  BY <1>2 DEF IsSelection, n
<1>5. \A k \in 1..(n + 1) : g[k] = IF Wanted(u[k], types, dropped)
                                    THEN Append(g[k - 1], u[k]) ELSE g[k - 1]
  BY <1>1, <1>3 DEF IsSelection
<1>6. \A k \in 0..n : f[k] = g[k]
  <2> DEFINE T == {k \in 0..n : f[k] = g[k]}
  <2>1. 0 \in T
    BY <1>1, <1>2, <1>3 DEF IsSelection
  <2>2. ASSUME NEW k \in 1..n, k - 1 \in T PROVE k \in T
    <3>1. k \in 1..(n + 1) /\ u[k] = s[k] /\ f[k - 1] = g[k - 1] /\ k \in 0..n
      BY <1>1, <2>2
    <3>2. QED
      BY <1>4, <1>5, <3>1
  <2> HIDE DEF T
  <2>3. \A k \in 0..n : k \in T
    BY <1>1, <2>1, <2>2, UpTo
  <2>4. QED
    BY <2>3 DEF T
<1>7. f[n] = g[n] /\ n + 1 \in 1..(n + 1) /\ (n + 1) - 1 = n
  BY <1>1, <1>6
<1>8. g[n + 1] = IF Wanted(b, types, dropped) THEN Append(f[n], b) ELSE f[n]
  BY <1>1, <1>5, <1>7
<1>9. QED
  BY <1>1, <1>2, <1>3, <1>8 DEF u

LEMMA KeptTyped ==
  ASSUME NEW S, NEW s \in Seq(S), NEW types, NEW dropped
  PROVE  Kept(s, types, dropped) \in Seq(S)
<1>1. PICK kept : /\ Kept(s, types, dropped) = kept[Len(s)]
                  /\ IsSelection(kept, s, types, dropped)
  BY KeptUnfolds
<1> DEFINE Q == Seq(S)
           T == {k \in 0..Len(s) : kept[k] \in Q}
<1>2. /\ Len(s) \in Nat /\ <<>> \in Q /\ \A k \in 1..Len(s) : s[k] \in S
      /\ \A q \in Q, x \in S : Append(q, x) \in Q
  OBVIOUS
<1> HIDE DEF Q
<1>3. 0 \in T
  BY <1>1, <1>2 DEF IsSelection
<1>4. ASSUME NEW k \in 1..Len(s), k - 1 \in T PROVE k \in T
  <2>1. kept[k] = Append(kept[k - 1], s[k]) \/ kept[k] = kept[k - 1]
    BY <1>1 DEF IsSelection
  <2>2. kept[k - 1] \in Q /\ k \in 0..Len(s)
    BY <1>2, <1>4
  <2>3. QED
    BY <1>2, <2>1, <2>2
<1> HIDE DEF T
<1>5. \A k \in 0..Len(s) : k \in T
  BY <1>2, <1>3, <1>4, UpTo
<1>6. QED
  BY <1>1, <1>2, <1>5 DEF T, Q

\* What is kept of two parts is kept of each.
LEMMA KeptConcat ==
  ASSUME NEW S, NEW a \in Seq(S), NEW b \in Seq(S), NEW types, NEW dropped
  PROVE  Kept(a \o b, types, dropped) = Kept(a, types, dropped) \o Kept(b, types, dropped)
<1> DEFINE K(s) == Kept(s, types, dropped)
           p(k) == SubSeq(b, 1, k)
<1>1. K(a) \in Seq(S) /\ \A s \in Seq(S) : K(s) \in Seq(S)
  BY KeptTyped
<1>2. K(<<>>) = <<>>
  BY KeptNothing
<1>3. ASSUME NEW s \in Seq(S), NEW x \in S
      PROVE  K(Append(s, x)) = IF Wanted(x, types, dropped) THEN Append(K(s), x) ELSE K(s)
  BY KeptAppend
<1>4. p(0) = <<>> /\ p(Len(b)) = b /\ Len(b) \in Nat
  BY PrefixEnds
<1>5. \A k \in 1..Len(b) :
         p(k - 1) \in Seq(S) /\ b[k] \in S /\ p(k) = Append(p(k - 1), b[k])
  BY PrefixStep
<1> HIDE DEF K, p
<1> DEFINE L(k) == K(a \o p(k))
           R(k) == K(a) \o K(p(k))
           T == {k \in 0..Len(b) : L(k) = R(k)}
<1>6. 0 \in T
  <2>1. a \o <<>> = a /\ K(a) \o <<>> = K(a)
    BY <1>1, ConcatParts
  <2>2. QED
    <3>1. L(0) = R(0)
      BY <1>2, <1>4, <2>1
    <3> HIDE DEF L, R
    <3>2. QED
      BY <1>4, <3>1
<1>7. ASSUME NEW k \in 1..Len(b), k - 1 \in T PROVE k \in T
  <2>1. /\ p(k - 1) \in Seq(S) /\ b[k] \in S /\ p(k) = Append(p(k - 1), b[k])
        /\ K(a \o p(k - 1)) = K(a) \o K(p(k - 1)) /\ K(p(k - 1)) \in Seq(S)
    BY <1>1, <1>5, <1>7
  <2>2. a \o Append(p(k - 1), b[k]) = Append(a \o p(k - 1), b[k]) /\ a \o p(k - 1) \in Seq(S)
    BY <2>1, ConcatParts
  <2>3. K(a) \o Append(K(p(k - 1)), b[k]) = Append(K(a) \o K(p(k - 1)), b[k])
    BY <1>1, <2>1, ConcatParts
  <2>4. K(Append(p(k - 1), b[k])) = IF Wanted(b[k], types, dropped)
                                    THEN Append(K(p(k - 1)), b[k]) ELSE K(p(k - 1))
    BY <1>3, <2>1
  <2>5. K(Append(a \o p(k - 1), b[k])) = IF Wanted(b[k], types, dropped)
                                    THEN Append(K(a \o p(k - 1)), b[k])
                                    ELSE K(a \o p(k - 1))
    BY <1>3, <2>1, <2>2
  <2>6. K(a \o p(k)) = K(a) \o K(p(k))
    BY <2>1, <2>2, <2>3, <2>4, <2>5
  <2>7. QED
    BY <1>4, <2>6
<1> HIDE DEF T
<1>8. \A k \in 0..Len(b) : k \in T
  BY <1>4, <1>6, <1>7, UpTo
<1>9. L(Len(b)) = R(Len(b))
  <2> HIDE DEF L, R
  <2>1. QED
    BY <1>4, <1>8 DEF T
<1>10. QED
  BY <1>4, <1>9 DEF K

\* Where every block is wanted all are kept, and where none is, none.
LEMMA KeptAll ==
  ASSUME NEW S, NEW s \in Seq(S), NEW types, NEW dropped,
         \A k \in 1..Len(s) : Wanted(s[k], types, dropped)
  PROVE  Kept(s, types, dropped) = s
<1> DEFINE p(k) == SubSeq(s, 1, k)
<1>1. PICK kept : /\ Kept(s, types, dropped) = kept[Len(s)]
                  /\ IsSelection(kept, s, types, dropped)
  BY KeptUnfolds
<1>2. p(0) = <<>> /\ p(Len(s)) = s /\ Len(s) \in Nat
  BY PrefixEnds
<1>3. \A k \in 1..Len(s) : p(k) = Append(p(k - 1), s[k])
  BY PrefixStep
<1> HIDE DEF p
<1> DEFINE T == {k \in 0..Len(s) : kept[k] = p(k)}
<1>4. 0 \in T
  BY <1>1, <1>2 DEF IsSelection
<1>5. ASSUME NEW k \in 1..Len(s), k - 1 \in T PROVE k \in T
  <2>1. kept[k] = Append(kept[k - 1], s[k])
    BY <1>1 DEF IsSelection
  <2>2. kept[k - 1] = p(k - 1) /\ k \in 0..Len(s)
    BY <1>2, <1>5
  <2>3. QED
    BY <1>3, <2>1, <2>2
<1> HIDE DEF T
<1>6. \A k \in 0..Len(s) : k \in T
  BY <1>2, <1>4, <1>5, UpTo
<1>7. QED
  BY <1>1, <1>2, <1>6 DEF T

LEMMA KeptNone ==
  ASSUME NEW S, NEW s \in Seq(S), NEW types, NEW dropped,
         \A k \in 1..Len(s) : ~Wanted(s[k], types, dropped)
  PROVE  Kept(s, types, dropped) = <<>>
<1>1. PICK kept : /\ Kept(s, types, dropped) = kept[Len(s)]
                  /\ IsSelection(kept, s, types, dropped)
  BY KeptUnfolds
<1> DEFINE T == {k \in 0..Len(s) : kept[k] = <<>>}
<1>2. Len(s) \in Nat
  OBVIOUS
<1>3. 0 \in T
  BY <1>1, <1>2 DEF IsSelection
<1>4. ASSUME NEW k \in 1..Len(s), k - 1 \in T PROVE k \in T
  <2>1. kept[k] = kept[k - 1]
    BY <1>1 DEF IsSelection
  <2>2. k \in 0..Len(s)
    BY <1>2
  <2>3. QED
    BY <1>4, <2>1, <2>2
<1> HIDE DEF T
<1>5. \A k \in 0..Len(s) : k \in T
  BY <1>2, <1>3, <1>4, UpTo
<1>6. QED
  BY <1>1, <1>2, <1>5 DEF T

-----------------------------------------------------------------------------
(* Sequences of sequences.                                                 *)

LEMMA FlattenUnfolds ==
  ASSUME NEW S, NEW seqs \in Seq(Seq(S)), seqs # <<>>
  PROVE  \E flat : /\ FlattenSeq(seqs) = flat[Len(seqs)]
                   /\ flat[1] = seqs[1]
                   /\ \A k \in 2..Len(seqs) : flat[k] = flat[k - 1] \o seqs[k]
<1> DEFINE Unfolds(g, m) ==
             g = [k \in 1..m |-> IF k = 1 THEN seqs[k] ELSE g[k - 1] \o seqs[k]]
           Entries(g, m) == /\ g = [k \in 1..m |-> g[k]]
                            /\ g[1] = seqs[1]
                            /\ \A k \in 2..m : g[k] = g[k - 1] \o seqs[k]
<1>1. ASSUME NEW m \in Nat, m >= 1, NEW g
      PROVE  Unfolds(g, m) <=> Entries(g, m)
  <2>1. ASSUME Unfolds(g, m) PROVE Entries(g, m)
    <3>1. \A k \in 1..m : g[k] = IF k = 1 THEN seqs[k] ELSE g[k - 1] \o seqs[k]
      BY <2>1
    <3>2. g = [k \in 1..m |-> g[k]]
      BY <2>1
    <3>3. 1 \in 1..m /\ \A k \in 2..m : k \in 1..m /\ k # 1
      BY <1>1
    <3>4. QED
      BY <3>1, <3>2, <3>3
  <2>2. ASSUME Entries(g, m) PROVE Unfolds(g, m)
    <3> DEFINE r == [k \in 1..m |-> IF k = 1 THEN seqs[k] ELSE g[k - 1] \o seqs[k]]
    <3>1. ASSUME NEW k \in 1..m PROVE g[k] = r[k]
      <4>1. k = 1 \/ k \in 2..m
        OBVIOUS
      <4>2. QED
        BY <2>2, <4>1
    <3>2. g = r
      BY <2>2, <3>1
    <3>3. QED
      BY <3>2
  <2>3. QED
    BY <2>1, <2>2
<1>2. \E g : Entries(g, 1)
  <2>1. Entries([k \in 1..1 |-> seqs[1]], 1)
    OBVIOUS
  <2>2. QED
    BY <2>1
<1>3. ASSUME NEW m \in Nat, m >= 1, NEW g, Entries(g, m)
      PROVE  \E h : Entries(h, m + 1)
  <2> DEFINE x == g[m] \o seqs[m + 1]
             h == [k \in 1..(m + 1) |-> IF k <= m THEN g[k] ELSE x]
  <2> HIDE DEF x
  <2>1. \A k \in 1..m : h[k] = g[k]
    OBVIOUS
  <2>2. h[m + 1] = x /\ h[m] = g[m]
    BY <1>3
  <2>3. h = [k \in 1..(m + 1) |-> h[k]]
    OBVIOUS
  <2> HIDE DEF h
  <2>4. \A k \in 2..(m + 1) : h[k] = h[k - 1] \o seqs[k]
    <3>1. ASSUME NEW k \in 2..m PROVE h[k] = h[k - 1] \o seqs[k]
      <4>1. k \in 1..m /\ k - 1 \in 1..m
        OBVIOUS
      <4>2. QED
        BY <1>3, <2>1, <4>1
    <3>2. h[m + 1] = h[m] \o seqs[m + 1] /\ (m + 1) - 1 = m
      BY <2>2 DEF x
    <3>3. \A k \in 2..(m + 1) : k \in 2..m \/ k = m + 1
      OBVIOUS
    <3>4. QED
      BY <3>1, <3>2, <3>3
  <2>5. h[1] = seqs[1]
    BY <1>3, <2>1
  <2>6. Entries(h, m + 1)
    BY <2>3, <2>4, <2>5
  <2>7. QED
    BY <2>6
<1> HIDE DEF Entries, Unfolds
<1>4. Len(seqs) \in Nat /\ Len(seqs) >= 1
  OBVIOUS
<1>5. \E g : Entries(g, Len(seqs))
  <2> DEFINE T == {m \in Nat : m = 0 \/ \E g : Entries(g, m)}
  <2>1. 0 \in T
    OBVIOUS
  <2>2. ASSUME NEW k \in 1..Len(seqs), k - 1 \in T PROVE k \in T
    <3>1. k - 1 \in Nat /\ (k - 1) + 1 = k /\ k \in Nat /\ (k = 1 \/ k - 1 >= 1)
      OBVIOUS
    <3>2. CASE k = 1
      BY <1>2, <3>2
    <3>3. CASE k - 1 >= 1
      <4>1. PICK g : Entries(g, k - 1)
        BY <2>2, <3>3
      <4>2. QED
        BY <1>3, <3>1, <3>3, <4>1
    <3>4. QED
      BY <3>1, <3>2, <3>3
  <2> HIDE DEF T
  <2>3. \A k \in 0..Len(seqs) : k \in T
    BY <1>4, <2>1, <2>2, UpTo
  <2>4. QED
    BY <1>4, <2>3 DEF T
<1> DEFINE flat == CHOOSE g : Unfolds(g, Len(seqs))
<1>6. Unfolds(flat, Len(seqs))
  BY <1>1, <1>4, <1>5
<1>7. FlattenSeq(seqs) = flat[Len(seqs)]
  BY <1>4 DEF FlattenSeq, Unfolds
<1> HIDE DEF flat
<1>8. Entries(flat, Len(seqs))
  BY <1>1, <1>4, <1>6
<1>9. QED
  BY <1>7, <1>8 DEF Entries

LEMMA AppendParts ==
  ASSUME NEW S, NEW s \in Seq(S), NEW x \in S
  PROVE  /\ Len(s) \in Nat
         /\ Append(s, x) \in Seq(S) /\ Append(s, x) # <<>>
         /\ Len(Append(s, x)) = Len(s) + 1 /\ Append(s, x)[Len(s) + 1] = x
         /\ \A k \in 1..Len(s) : Append(s, x)[k] = s[k]
  OBVIOUS

LEMMA FlattenNothing == FlattenSeq(<<>>) = <<>>
  BY DEF FlattenSeq

\* One more sequence comes after the others.
LEMMA FlattenAppend ==
  ASSUME NEW S, NEW seqs \in Seq(Seq(S)), NEW x \in Seq(S)
  PROVE  FlattenSeq(Append(seqs, x)) = FlattenSeq(seqs) \o x
<1> DEFINE n == Len(seqs)
           u == Append(seqs, x)
<1>1. /\ n \in Nat /\ u \in Seq(Seq(S)) /\ u # <<>> /\ Len(u) = n + 1 /\ u[n + 1] = x
      /\ \A k \in 1..n : u[k] = seqs[k]
  BY AppendParts
<1>2. PICK g : /\ FlattenSeq(u) = g[Len(u)]
               /\ g[1] = u[1]
               /\ \A k \in 2..Len(u) : g[k] = g[k - 1] \o u[k]
  BY <1>1, FlattenUnfolds
<1>3. CASE n = 0
  <2>1. seqs = <<>> /\ FlattenSeq(seqs) = <<>>
    BY <1>3, FlattenNothing
  <2>2. g[Len(u)] = x
    BY <1>1, <1>2, <1>3
  <2>3. <<>> \o x = x
    OBVIOUS
  <2>4. QED
    BY <1>2, <2>1, <2>2, <2>3
<1>4. CASE n # 0
  <2>1. seqs # <<>>
    BY <1>4
  <2>2. PICK f : /\ FlattenSeq(seqs) = f[n]
                 /\ f[1] = seqs[1]
                 /\ \A k \in 2..n : f[k] = f[k - 1] \o seqs[k]
    BY <2>1, FlattenUnfolds
  <2> HIDE DEF n, u
  <2>3. \A k \in 2..(n + 1) : g[k] = g[k - 1] \o u[k]
    BY <1>1, <1>2
  <2> DEFINE T == {k \in 0..n : k = 0 \/ f[k] = g[k]}
  <2>4. 0 \in T
    BY <1>1
  <2>5. ASSUME NEW k \in 1..n, k - 1 \in T PROVE k \in T
    <3>1. k \in 0..n /\ (k = 1 \/ k \in 2..n) /\ u[k] = seqs[k]
      BY <1>1
    <3>2. CASE k = 1
      BY <1>2, <2>2, <3>1, <3>2
    <3>3. CASE k \in 2..n
      <4>1. k \in 2..(n + 1) /\ k - 1 # 0
        BY <1>1, <3>3
      <4>2. f[k - 1] = g[k - 1]
        BY <2>5, <4>1
      <4>3. QED
        BY <2>2, <2>3, <3>1, <3>3, <4>1, <4>2
    <3>4. QED
      BY <3>1, <3>2, <3>3
  <2> HIDE DEF T
  <2>6. \A k \in 0..n : k \in T
    BY <1>1, <2>4, <2>5, UpTo
  <2>7. f[n] = g[n]
    BY <1>1, <1>4, <2>6 DEF T
  <2>8. n + 1 \in 2..(n + 1) /\ (n + 1) - 1 = n
    BY <1>1, <1>4
  <2>9. g[n + 1] = f[n] \o x
    BY <1>1, <2>3, <2>7, <2>8
  <2>10. QED
    BY <1>1, <1>2, <2>2, <2>9 DEF u
<1>5. QED
  BY <1>3, <1>4

LEMMA FlattenTyped ==
  ASSUME NEW S, NEW seqs \in Seq(Seq(S))
  PROVE  FlattenSeq(seqs) \in Seq(S)
<1> DEFINE Q == Seq(S)
<1>1. /\ Len(seqs) \in Nat /\ <<>> \in Q
      /\ \A k \in 1..Len(seqs) : seqs[k] \in Q
      /\ \A p, q \in Q : p \o q \in Q
  OBVIOUS
<1>2. CASE seqs = <<>>
  BY <1>1, <1>2, FlattenNothing
<1>3. CASE seqs # <<>>
  <2>1. PICK flat : /\ FlattenSeq(seqs) = flat[Len(seqs)]
                    /\ flat[1] = seqs[1]
                    /\ \A k \in 2..Len(seqs) : flat[k] = flat[k - 1] \o seqs[k]
    BY <1>3, FlattenUnfolds
  <2>2. Len(seqs) >= 1
    BY <1>3
  <2> HIDE DEF Q
  <2> DEFINE T == {k \in 0..Len(seqs) : k = 0 \/ flat[k] \in Q}
  <2>3. 0 \in T
    BY <1>1
  <2>4. ASSUME NEW k \in 1..Len(seqs), k - 1 \in T PROVE k \in T
    <3>1. k \in 0..Len(seqs) /\ (k = 1 \/ k \in 2..Len(seqs)) /\ seqs[k] \in Q
      BY <1>1
    <3>2. CASE k = 1
      BY <2>1, <3>1, <3>2
    <3>3. CASE k \in 2..Len(seqs)
      <4>1. flat[k - 1] \in Q
        BY <2>4, <3>3
      <4>2. flat[k] \in Q
        BY <1>1, <2>1, <3>1, <3>3, <4>1
      <4>3. QED
        BY <3>1, <4>2
    <3>4. QED
      BY <3>1, <3>2, <3>3
  <2> HIDE DEF T
  <2>5. \A k \in 0..Len(seqs) : k \in T
    BY <1>1, <2>3, <2>4, UpTo
  <2>6. flat[Len(seqs)] \in Q
    BY <1>1, <2>2, <2>5 DEF T
  <2>7. QED
    BY <2>1, <2>6 DEF Q
<1>4. QED
  BY <1>2, <1>3

\* A function of the positions of a sequence is one.
LEMMA MapTyped ==
  ASSUME NEW S, NEW R, NEW s \in Seq(S), NEW f \in [DOMAIN s -> R]
  PROVE  /\ f \in Seq(R) /\ Len(f) = Len(s) /\ DOMAIN f = 1..Len(s)
         /\ DOMAIN s = 1..Len(s) /\ Len(s) \in Nat
  OBVIOUS

\* What is made of one more element comes last.
LEMMA MapAppend ==
  ASSUME NEW S, NEW R, NEW s \in Seq(S), NEW x \in S, NEW F \in [S -> R]
  PROVE  [i \in DOMAIN Append(s, x) |-> F[Append(s, x)[i]]]
            = Append([i \in DOMAIN s |-> F[s[i]]], F[x])
<1> DEFINE u == Append(s, x)
           m == [i \in DOMAIN s |-> F[s[i]]]
           l == [i \in DOMAIN u |-> F[u[i]]]
           r == Append(m, F[x])
<1>1. /\ Len(s) \in Nat /\ u \in Seq(S) /\ Len(u) = Len(s) + 1 /\ u[Len(s) + 1] = x
      /\ \A k \in 1..Len(s) : u[k] = s[k] /\ s[k] \in S
      /\ DOMAIN u = 1..(Len(s) + 1) /\ DOMAIN s = 1..Len(s)
  OBVIOUS
<1>2. m \in [DOMAIN s -> R] /\ F[x] \in R
  BY <1>1
<1>3. m \in Seq(R) /\ Len(m) = Len(s)
  BY <1>2, MapTyped
<1>4. \A k \in 1..Len(s) : m[k] = F[s[k]]
  BY <1>1
<1> HIDE DEF m, u
<1>5. /\ r \in Seq(R) /\ Len(r) = Len(s) + 1 /\ r[Len(s) + 1] = F[x]
      /\ \A k \in 1..Len(s) : r[k] = m[k]
      /\ DOMAIN r = 1..(Len(s) + 1)
  BY <1>1, <1>2, <1>3
<1> HIDE DEF r
<1>6. r = [i \in DOMAIN r |-> r[i]]
  BY <1>5
<1>7. ASSUME NEW i \in 1..(Len(s) + 1) PROVE r[i] = F[u[i]]
  <2>1. i \in 1..Len(s) \/ i = Len(s) + 1
    BY <1>1
  <2>2. QED
    BY <1>1, <1>4, <1>5, <2>1
<1>8. l = r
  BY <1>1, <1>5, <1>6, <1>7
<1>9. QED
  BY <1>8 DEF l, r, m, u

-----------------------------------------------------------------------------
(* The translation of a history.                                           *)

\* Blocks and items, messages of the upstream, and turns of the client.
Types == {"text", "image", "tool_use", "tool_result", "other",
          "said", "answered", "call", "result"}
Values == STRING \cup {""}
Blocks == [type : Types, id : Nat, value : Values]
Roles == {"user", "assistant", "tool"}
MessageSet == {m \in [role : Roles, id : Nat, content : Seq(Blocks), calls : Seq(Nat)] :
                  m.role = "tool" => m.content # <<>>}
TurnSet == [role : {"user", "assistant"}, content : Seq(Blocks)]

LEMMA BlockTyped ==
  ASSUME NEW type \in Types, NEW id \in Nat, NEW value \in Values
  PROVE  /\ Block(type, id, value) \in Blocks
         /\ Block(type, id, value).type = type
         /\ Block(type, id, value).id = id
         /\ Block(type, id, value).value = value
         /\ Item(type, id, value) \in Blocks
  BY DEF Block, Item, Blocks

LEMMA TextTyped ==
  ASSUME NEW value \in Values
  PROVE  /\ Text(value) \in Blocks /\ Text(value).type = "text"
         /\ Text(value).id = 0 /\ Text(value).value = value
  BY DEF Text, Block, Blocks, Types

LEMMA MessageTyped ==
  ASSUME NEW role \in Roles, NEW id \in Nat, NEW content \in Seq(Blocks),
         NEW toolCalls \in Seq(Nat), role = "tool" => content # <<>>
  PROVE  /\ Message(role, id, content, toolCalls) \in MessageSet
         /\ Message(role, id, content, toolCalls).role = role
         /\ Message(role, id, content, toolCalls).id = id
         /\ Message(role, id, content, toolCalls).content = content
         /\ Message(role, id, content, toolCalls).calls = toolCalls
  BY DEF Message, MessageSet

LEMMA BlockParts ==
  ASSUME NEW b \in Blocks
  PROVE  b.type \in Types /\ b.id \in Nat /\ b.value \in Values
  BY DEF Blocks

LEMMA MessageParts ==
  ASSUME NEW m \in MessageSet
  PROVE  /\ m.role \in Roles /\ m.id \in Nat
         /\ m.content \in Seq(Blocks) /\ m.calls \in Seq(Nat)
         /\ m.role = "tool" => m.content # <<>>
  BY DEF MessageSet

LEMMA IdsTyped ==
  ASSUME NEW s \in Seq(Blocks)
  PROVE  Ids(s) \in Seq(Nat) /\ Len(Ids(s)) = Len(s) /\ \A i \in 1..Len(s) : Ids(s)[i] = s[i].id
<1>1. DOMAIN s = 1..Len(s) /\ \A i \in DOMAIN s : s[i] \in Blocks
  OBVIOUS
<1>2. Ids(s) \in [DOMAIN s -> Nat]
  BY <1>1, BlockParts DEF Ids
<1>3. QED
  BY <1>1, <1>2, MapTyped DEF Ids

\* One message for each result.
LEMMA ToolEntriesParts ==
  ASSUME NEW s \in Seq(Blocks), NEW results, results = OfType(s, {"tool_result"})
  PROVE  /\ results \in Seq(Blocks)
         /\ ToolEntries(s) \in Seq(MessageSet)
         /\ Len(ToolEntries(s)) = Len(results) /\ Len(results) \in Nat
         /\ \A i \in 1..Len(results) :
               ToolEntries(s)[i] = Message("tool", results[i].id, <<Text(results[i].value)>>, <<>>)
<1>1. results \in Seq(Blocks)
  BY KeptTyped DEF OfType
<1>2. DOMAIN results = 1..Len(results) /\ Len(results) \in Nat
      /\ \A i \in DOMAIN results : results[i] \in Blocks
  BY <1>1
<1> DEFINE e == [i \in DOMAIN results |->
                   Message("tool", results[i].id, <<Text(results[i].value)>>, <<>>)]
<1>3. ToolEntries(s) = e
  BY DEF ToolEntries
<1>4. ASSUME NEW i \in DOMAIN results
      PROVE  Message("tool", results[i].id, <<Text(results[i].value)>>, <<>>) \in MessageSet
  <2>1. results[i].id \in Nat /\ results[i].value \in Values
    BY <1>2, BlockParts
  <2>2. Text(results[i].value) \in Blocks
    BY <2>1, TextTyped
  <2>3. /\ <<Text(results[i].value)>> \in Seq(Blocks) /\ <<>> \in Seq(Nat)
        /\ <<Text(results[i].value)>> # <<>>
    BY <2>2
  <2> HIDE DEF e
  <2>4. QED
    BY <2>1, <2>3, MessageTyped DEF Roles
<1>5. e \in [DOMAIN results -> MessageSet]
  BY <1>4
<1>6. \A i \in 1..Len(results) :
         e[i] = Message("tool", results[i].id, <<Text(results[i].value)>>, <<>>)
  BY <1>2
<1> HIDE DEF e
<1>7. e \in Seq(MessageSet) /\ Len(e) = Len(results)
  BY <1>1, <1>5, MapTyped
<1>8. QED
  BY <1>1, <1>2, <1>3, <1>6, <1>7

LEMMA UserEntriesParts ==
  ASSUME NEW s \in Seq(Blocks), NEW heard, heard = OfType(s, {"text", "image"})
  PROVE  /\ heard \in Seq(Blocks)
         /\ UserEntries(s) = IF heard = <<>> THEN <<>>
                             ELSE <<Message("user", 0, heard, <<>>)>>
         /\ Message("user", 0, heard, <<>>) \in MessageSet
         /\ UserEntries(s) \in Seq(MessageSet)
<1>1. heard \in Seq(Blocks) /\ <<>> \in Seq(Nat)
  BY KeptTyped DEF OfType
<1>2. Message("user", 0, heard, <<>>) \in MessageSet
  <2>1. "user" \in Roles /\ "user" # "tool" /\ 0 \in Nat
    BY DEF Roles
  <2>2. QED
    BY <1>1, <2>1, MessageTyped
<1>3. QED
  BY <1>1, <1>2 DEF UserEntries

LEMMA AssistantEntryParts ==
  ASSUME NEW s \in Seq(Blocks)
  PROVE  /\ AssistantEntry(s) \in MessageSet
         /\ AssistantEntry(s).role = "assistant"
         /\ AssistantEntry(s).content = Kept(s, {"text"}, {""})
         /\ AssistantEntry(s).calls = Ids(OfType(s, {"tool_use"}))
<1> DEFINE texts == Kept(s, {"text"}, {""})
           ids == Ids(OfType(s, {"tool_use"}))
<1>1. texts \in Seq(Blocks) /\ OfType(s, {"tool_use"}) \in Seq(Blocks)
  BY KeptTyped DEF OfType
<1>2. ids \in Seq(Nat)
  BY <1>1, IdsTyped
<1>3. AssistantEntry(s) = Message("assistant", 0, texts, ids)
  BY DEF AssistantEntry
<1> HIDE DEF texts, ids
<1>4. /\ Message("assistant", 0, texts, ids) \in MessageSet
      /\ Message("assistant", 0, texts, ids).role = "assistant"
      /\ Message("assistant", 0, texts, ids).content = texts
      /\ Message("assistant", 0, texts, ids).calls = ids
  BY <1>1, <1>2, MessageTyped DEF Roles
<1>5. QED
  BY <1>3, <1>4 DEF texts, ids

LEMMA TranslatedTyped ==
  ASSUME NEW turn \in TurnSet
  PROVE  Translated(turn) \in Seq(MessageSet)
<1>1. turn.content \in Seq(Blocks)
  BY DEF TurnSet
<1>2. AssistantEntry(turn.content) \in MessageSet
  BY <1>1, AssistantEntryParts
<1>3. /\ <<AssistantEntry(turn.content)>> \in Seq(MessageSet)
      /\ ToolEntries(turn.content) \in Seq(MessageSet)
      /\ UserEntries(turn.content) \in Seq(MessageSet)
  BY <1>1, <1>2, ToolEntriesParts, UserEntriesParts
<1>4. \A p, q \in Seq(MessageSet) : p \o q \in Seq(MessageSet)
  OBVIOUS
<1>5. QED
  BY <1>3, <1>4 DEF Translated

\* The history is translated turn by turn.
LEMMA MessagesAppend ==
  ASSUME NEW h \in Seq(TurnSet), NEW turn \in TurnSet
  PROVE  /\ MessagesToOpenai(h) \in Seq(MessageSet)
         /\ MessagesToOpenai(Append(h, turn)) = MessagesToOpenai(h) \o Translated(turn)
<1> DEFINE R == Seq(MessageSet)
           F == [t \in TurnSet |-> Translated(t)]
           m(s) == [i \in DOMAIN s |-> F[s[i]]]
<1>1. F \in [TurnSet -> R]
  BY TranslatedTyped
<1>2. ASSUME NEW s \in Seq(TurnSet)
      PROVE  m(s) \in Seq(R) /\ MessagesToOpenai(s) = FlattenSeq(m(s))
  <2>1. \A i \in DOMAIN s : s[i] \in TurnSet
    OBVIOUS
  <2>2. m(s) \in [DOMAIN s -> R]
    BY <1>1, <2>1
  <2>3. m(s) \in Seq(R)
    BY <2>2, MapTyped
  <2>4. m(s) = [i \in DOMAIN s |-> Translated(s[i])]
    BY <2>1
  <2>5. QED
    BY <2>3, <2>4 DEF MessagesToOpenai
<1>3. Append(h, turn) \in Seq(TurnSet)
  OBVIOUS
<1>4. m(Append(h, turn)) = Append(m(h), F[turn])
  BY <1>1, MapAppend
<1>5. F[turn] = Translated(turn) /\ Translated(turn) \in R
  BY TranslatedTyped
<1> HIDE DEF m, F
<1>6. FlattenSeq(Append(m(h), Translated(turn))) = FlattenSeq(m(h)) \o Translated(turn)
  BY <1>2, <1>5, FlattenAppend
<1>7. FlattenSeq(m(h)) \in Seq(MessageSet)
  BY <1>2, FlattenTyped
<1>8. QED
  BY <1>2, <1>3, <1>4, <1>5, <1>6, <1>7

-----------------------------------------------------------------------------
(* What a body tells.                                                      *)

LEMMA ItemsTyped ==
  ASSUME NEW m \in MessageSet
  PROVE  ItemsOf(m) \in Seq(Blocks)
<1>1. /\ m.id \in Nat /\ m.content \in Seq(Blocks) /\ m.calls \in Seq(Nat)
      /\ m.role = "tool" => m.content # <<>>
  BY MessageParts
<1>2. CASE m.role = "tool"
  <2>1. Head(m.content) \in Blocks
    BY <1>1, <1>2
  <2>2. Item("result", m.id, Head(m.content).value) \in Blocks
    BY <1>1, <2>1, BlockParts, BlockTyped DEF Types
  <2>3. ItemsOf(m) = <<Item("result", m.id, Head(m.content).value)>>
    BY <1>2 DEF ItemsOf
  <2>4. QED
    BY <2>2, <2>3
<1>3. ASSUME NEW type \in Types
      PROVE  [i \in DOMAIN m.content |-> Item(type, 0, m.content[i].value)] \in Seq(Blocks)
  <2>1. \A i \in DOMAIN m.content : m.content[i] \in Blocks
    BY <1>1
  <2>2. \A i \in DOMAIN m.content : Item(type, 0, m.content[i].value) \in Blocks
    BY <2>1, BlockParts, BlockTyped
  <2>3. [i \in DOMAIN m.content |-> Item(type, 0, m.content[i].value)]
           \in [DOMAIN m.content -> Blocks]
    BY <2>2
  <2>4. QED
    BY <1>1, <2>3, MapTyped
<1>4. [i \in DOMAIN m.calls |-> Item("call", m.calls[i], "")] \in Seq(Blocks)
  <2>1. \A i \in DOMAIN m.calls : m.calls[i] \in Nat
    BY <1>1
  <2>2. \A i \in DOMAIN m.calls : Item("call", m.calls[i], "") \in Blocks
    <3>1. "call" \in Types /\ "" \in Values
      BY DEF Types, Values
    <3>2. ASSUME NEW i \in DOMAIN m.calls PROVE Item("call", m.calls[i], "") \in Blocks
      <4>1. m.calls[i] \in Nat
        BY <2>1
      <4>2. QED
        BY <3>1, <4>1, BlockTyped
    <3>3. QED
      BY <3>2
  <2>3. [i \in DOMAIN m.calls |-> Item("call", m.calls[i], "")] \in [DOMAIN m.calls -> Blocks]
    BY <2>2
  <2>4. QED
    BY <1>1, <2>3, MapTyped
<1>5. \A p, q \in Seq(Blocks) : p \o q \in Seq(Blocks)
  OBVIOUS
<1>6. CASE m.role = "user"
  <2>1. ItemsOf(m) = [i \in DOMAIN m.content |-> Item("said", 0, m.content[i].value)]
    BY <1>6 DEF ItemsOf
  <2>2. QED
    BY <1>3, <2>1 DEF Types
<1>7. CASE m.role # "user" /\ m.role # "tool"
  <2>1. ItemsOf(m) = [i \in DOMAIN m.content |-> Item("answered", 0, m.content[i].value)]
                     \o [i \in DOMAIN m.calls |-> Item("call", m.calls[i], "")]
    BY <1>7 DEF ItemsOf
  <2>2. [i \in DOMAIN m.content |-> Item("answered", 0, m.content[i].value)] \in Seq(Blocks)
    BY <1>3 DEF Types
  <2>3. QED
    BY <1>4, <1>5, <2>1, <2>2
<1>8. QED
  BY <1>2, <1>6, <1>7

LEMMA ToldTyped ==
  ASSUME NEW ms \in Seq(MessageSet)
  PROVE  Told(ms) \in Seq(Blocks)
<1> DEFINE l == [i \in DOMAIN ms |-> ItemsOf(ms[i])]
<1>1. \A i \in DOMAIN ms : ItemsOf(ms[i]) \in Seq(Blocks)
  BY ItemsTyped
<1>2. l \in [DOMAIN ms -> Seq(Blocks)]
  BY <1>1
<1>3. l \in Seq(Seq(Blocks))
  BY <1>2, MapTyped
<1>4. QED
  BY <1>3, FlattenTyped DEF Told

LEMMA ToldAppend ==
  ASSUME NEW ms \in Seq(MessageSet), NEW m \in MessageSet
  PROVE  Told(Append(ms, m)) = Told(ms) \o ItemsOf(m)
<1> DEFINE R == Seq(Blocks)
           F == [x \in MessageSet |-> ItemsOf(x)]
           l(s) == [i \in DOMAIN s |-> F[s[i]]]
<1>1. F \in [MessageSet -> R]
  BY ItemsTyped
<1>2. ASSUME NEW s \in Seq(MessageSet)
      PROVE  l(s) \in Seq(R) /\ Told(s) = FlattenSeq(l(s))
  <2>1. \A i \in DOMAIN s : s[i] \in MessageSet
    OBVIOUS
  <2>2. l(s) \in [DOMAIN s -> R]
    BY <1>1, <2>1
  <2>3. l(s) \in Seq(R)
    BY <2>2, MapTyped
  <2>4. l(s) = [i \in DOMAIN s |-> ItemsOf(s[i])]
    BY <2>1
  <2>5. QED
    BY <2>3, <2>4 DEF Told
<1>3. Append(ms, m) \in Seq(MessageSet)
  OBVIOUS
<1>4. l(Append(ms, m)) = Append(l(ms), F[m])
  BY <1>1, MapAppend
<1>5. F[m] = ItemsOf(m) /\ ItemsOf(m) \in R
  BY ItemsTyped
<1> HIDE DEF l, F
<1>6. FlattenSeq(Append(l(ms), ItemsOf(m))) = FlattenSeq(l(ms)) \o ItemsOf(m)
  BY <1>2, <1>5, FlattenAppend
<1>7. QED
  BY <1>2, <1>3, <1>4, <1>5, <1>6

\* Messages that tell one item each.
LEMMA ToldEach ==
  ASSUME NEW ms \in Seq(MessageSet), NEW rs \in Seq(MessageSet), NEW items \in Seq(Blocks),
         Len(items) = Len(rs), \A i \in 1..Len(rs) : ItemsOf(rs[i]) = <<items[i]>>
  PROVE  Told(ms \o rs) = Told(ms) \o items
<1> DEFINE p(k) == SubSeq(rs, 1, k)
           q(k) == SubSeq(items, 1, k)
           L(k) == Told(ms \o p(k))
           R(k) == Told(ms) \o q(k)
           T == {k \in 0..Len(rs) : L(k) = R(k)}
<1>1. /\ p(0) = <<>> /\ p(Len(rs)) = rs /\ Len(rs) \in Nat
      /\ q(0) = <<>> /\ q(Len(rs)) = items
  BY PrefixEnds
<1>2. \A k \in 1..Len(rs) :
         /\ p(k - 1) \in Seq(MessageSet) /\ rs[k] \in MessageSet
         /\ p(k) = Append(p(k - 1), rs[k])
  BY PrefixStep
<1>3. \A k \in 1..Len(rs) :
         /\ q(k - 1) \in Seq(Blocks) /\ items[k] \in Blocks
         /\ q(k) = Append(q(k - 1), items[k])
  BY PrefixStep
<1>4. Told(ms) \in Seq(Blocks)
  BY ToldTyped
<1> HIDE DEF p, q
<1>5. L(0) = R(0)
  <2>1. ms \o <<>> = ms /\ Told(ms) \o <<>> = Told(ms)
    BY <1>4, ConcatParts
  <2>2. QED
    BY <1>1, <2>1
<1>6. ASSUME NEW k \in 1..Len(rs), L(k - 1) = R(k - 1) PROVE L(k) = R(k)
  <2>1. ms \o p(k) = Append(ms \o p(k - 1), rs[k]) /\ ms \o p(k - 1) \in Seq(MessageSet)
    <3>1. /\ p(k - 1) \in Seq(MessageSet) /\ rs[k] \in MessageSet
          /\ p(k) = Append(p(k - 1), rs[k])
      BY <1>2
    <3>2. QED
      BY <3>1, ConcatParts
  <2>2. Told(ms \o p(k)) = Told(ms \o p(k - 1)) \o <<items[k]>>
    BY <1>2, <2>1, ToldAppend
  <2>3. Told(ms) \o q(k - 1) \in Seq(Blocks)
    BY <1>3, <1>4, ConcatParts
  <2>4. (Told(ms) \o q(k - 1)) \o <<items[k]>> = Append(Told(ms) \o q(k - 1), items[k])
    BY <1>3, <2>3, ConcatParts
  <2>5. Told(ms) \o q(k) = Append(Told(ms) \o q(k - 1), items[k])
    <3>1. /\ q(k - 1) \in Seq(Blocks) /\ items[k] \in Blocks
          /\ q(k) = Append(q(k - 1), items[k])
      BY <1>3
    <3>2. QED
      BY <1>4, <3>1, ConcatParts
  <2>6. QED
    BY <1>6, <2>2, <2>4, <2>5
<1> HIDE DEF L, R
<1>7. 0 \in T /\ \A k \in 1..Len(rs) : k - 1 \in T => k \in T
  BY <1>1, <1>5, <1>6
<1> HIDE DEF T
<1>8. \A k \in 0..Len(rs) : k \in T
  BY <1>1, <1>7, UpTo
<1>9. L(Len(rs)) = R(Len(rs))
  BY <1>1, <1>8 DEF T
<1>10. QED
  BY <1>1, <1>9 DEF L, R

-----------------------------------------------------------------------------
(* What a turn adds.                                                       *)

Results(order, text) == [i \in DOMAIN order |-> Block("tool_result", order[i], text)]

Turned(said, k, results) == SubSeq(said, 1, k) \o results \o SubSeq(said, k + 1, Len(said))

\* What the client's record says of a turn: results, what was heard, the text of a
\* reply, and its calls.
ResultItems(order, text) == [i \in DOMAIN order |-> Item("result", order[i], text)]
HeardItems(heard) == [i \in DOMAIN heard |-> Item("said", 0, heard[i].value)]
TextItems(text) == IF text # "" THEN <<Item("answered", 0, text)>> ELSE <<>>
CallItems(ids) == [i \in DOMAIN ids |-> Item("call", ids[i], "")]

SaidBlocks == {b \in Blocks : b.type \in {"text", "image", "other"}}

LEMMA ResultsTyped ==
  ASSUME NEW order \in Seq(Nat), NEW text \in Values
  PROVE  /\ Results(order, text) \in Seq(Blocks)
         /\ Len(Results(order, text)) = Len(order) /\ Len(order) \in Nat
         /\ DOMAIN Results(order, text) = 1..Len(order) /\ DOMAIN order = 1..Len(order)
         /\ \A i \in 1..Len(order) : /\ Results(order, text)[i].type = "tool_result"
                                     /\ Results(order, text)[i].id = order[i]
                                     /\ Results(order, text)[i].value = text
<1>1. DOMAIN order = 1..Len(order) /\ \A i \in DOMAIN order : order[i] \in Nat
  OBVIOUS
<1>2. "tool_result" \in Types
  BY DEF Types
<1>3. \A i \in DOMAIN order : Block("tool_result", order[i], text) \in Blocks
  BY <1>1, <1>2, BlockTyped
<1>4. Results(order, text) \in [DOMAIN order -> Blocks]
  BY <1>3 DEF Results
<1>5. \A i \in DOMAIN order : Results(order, text)[i] = Block("tool_result", order[i], text)
  BY DEF Results
<1>6. \A i \in 1..Len(order) : /\ Results(order, text)[i].type = "tool_result"
                               /\ Results(order, text)[i].id = order[i]
                               /\ Results(order, text)[i].value = text
  <2>1. ASSUME NEW i \in 1..Len(order)
        PROVE  /\ Block("tool_result", order[i], text).type = "tool_result"
               /\ Block("tool_result", order[i], text).id = order[i]
               /\ Block("tool_result", order[i], text).value = text
    BY DEF Block
  <2>2. QED
    BY <1>1, <1>5, <2>1
<1>7. /\ Results(order, text) \in Seq(Blocks)
      /\ Len(Results(order, text)) = Len(order) /\ Len(order) \in Nat
      /\ DOMAIN Results(order, text) = 1..Len(order)
  BY <1>4, MapTyped
<1>8. QED
  BY <1>1, <1>6, <1>7

\* The results are found again, wherever they were put, and what was said too.
LEMMA TurnSorted ==
  ASSUME NEW said \in Seq(SaidBlocks), NEW k \in 0..Len(said),
         NEW results \in Seq(Blocks),
         \A i \in 1..Len(results) : results[i].type = "tool_result"
  PROVE  /\ Turned(said, k, results) \in Seq(Blocks)
         /\ OfType(Turned(said, k, results), {"tool_result"}) = results
         /\ OfType(Turned(said, k, results), {"text", "image"}) = OfType(said, {"text", "image"})
<1> DEFINE a == SubSeq(said, 1, k)
           c == SubSeq(said, k + 1, Len(said))
           W == {"text", "image"}
<1>1. a \in Seq(SaidBlocks) /\ c \in Seq(SaidBlocks) /\ said = a \o c
  BY SplitAt
<1>2. Seq(SaidBlocks) \subseteq Seq(Blocks)
  BY DEF SaidBlocks
<1> HIDE DEF a, c
<1>3. a \in Seq(Blocks) /\ c \in Seq(Blocks) /\ a \o results \in Seq(Blocks)
  BY <1>1, <1>2
<1>4. /\ \A i \in 1..Len(a) : a[i] \in SaidBlocks
      /\ \A i \in 1..Len(c) : c[i] \in SaidBlocks
  BY <1>1
<1>5. Kept(a, {"tool_result"}, {}) = <<>> /\ Kept(c, {"tool_result"}, {}) = <<>>
  <2>1. /\ \A i \in 1..Len(a) : ~Wanted(a[i], {"tool_result"}, {})
        /\ \A i \in 1..Len(c) : ~Wanted(c[i], {"tool_result"}, {})
    BY <1>4 DEF SaidBlocks, Wanted
  <2>2. QED
    BY <1>3, <2>1, KeptNone
<1>6. Kept(results, {"tool_result"}, {}) = results /\ Kept(results, W, {}) = <<>>
  <2>1. \A i \in 1..Len(results) :
           Wanted(results[i], {"tool_result"}, {}) /\ ~Wanted(results[i], W, {})
    BY DEF Wanted
  <2> HIDE DEF W
  <2>2. QED
    BY <2>1, KeptAll, KeptNone
<1> HIDE DEF W
<1>7. ASSUME NEW types
      PROVE  Kept((a \o results) \o c, types, {})
                = (Kept(a, types, {}) \o Kept(results, types, {})) \o Kept(c, types, {})
  <2>1. Kept(a \o results, types, {}) = Kept(a, types, {}) \o Kept(results, types, {})
    BY <1>3, KeptConcat
  <2> DEFINE d == a \o results
  <2>2. d \in Seq(Blocks)
    BY <1>3
  <2> HIDE DEF d
  <2>3. Kept(d \o c, types, {}) = Kept(d, types, {}) \o Kept(c, types, {})
    BY <1>3, <2>2, KeptConcat
  <2>4. QED
    BY <2>1, <2>3 DEF d
<1>8. Kept(said, W, {}) = Kept(a, W, {}) \o Kept(c, W, {}) /\ Kept(a, W, {}) \in Seq(Blocks)
  <2>1. Kept(a \o c, W, {}) = Kept(a, W, {}) \o Kept(c, W, {})
    BY <1>3, KeptConcat
  <2>2. QED
    BY <1>1, <1>3, <2>1, KeptTyped
<1>9. /\ <<>> \o results = results /\ results \o <<>> = results
      /\ Kept(a, W, {}) \o <<>> = Kept(a, W, {})
  BY <1>8, ConcatParts
<1>10. Turned(said, k, results) = (a \o results) \o c /\ (a \o results) \o c \in Seq(Blocks)
  BY <1>3 DEF Turned, a, c
<1>11. QED
  BY <1>5, <1>6, <1>7, <1>8, <1>9, <1>10 DEF OfType, W

\* What a user's turn tells the upstream: the results, then what was said.
LEMMA UserTurnTells ==
  ASSUME NEW ms \in Seq(MessageSet), NEW content \in Seq(Blocks),
         NEW order \in Seq(Nat), NEW text \in Values, NEW heard,
         OfType(content, {"tool_result"}) = Results(order, text),
         OfType(content, {"text", "image"}) = heard
  PROVE  /\ Len(ToolEntries(content)) = Len(order)
         /\ \A i \in 1..Len(order) : /\ ToolEntries(content)[i].role = "tool"
                                     /\ ToolEntries(content)[i].id = order[i]
                                     /\ ToolEntries(content)[i].calls = <<>>
         /\ \A i \in 1..Len(UserEntries(content)) : UserEntries(content)[i].calls = <<>>
         /\ Told(ms \o (ToolEntries(content) \o UserEntries(content)))
               = (Told(ms) \o ResultItems(order, text)) \o HeardItems(heard)
<1> DEFINE tools == ToolEntries(content)
           users == UserEntries(content)
           told == ResultItems(order, text)
           heardItems == HeardItems(heard)
           results == Results(order, text)
<1>1. /\ results \in Seq(Blocks) /\ Len(results) = Len(order) /\ Len(order) \in Nat
      /\ DOMAIN order = 1..Len(order)
      /\ \A i \in 1..Len(order) : results[i].id = order[i] /\ results[i].value = text
  <2>1. results = Results(order, text)
    OBVIOUS
  <2> HIDE DEF results
  <2>2. QED
    BY <2>1, ResultsTyped
<1>14. \A i \in 1..Len(order) : order[i] \in Nat
  OBVIOUS
<1>15. results = OfType(content, {"tool_result"})
  OBVIOUS
<1> HIDE DEF results
<1>2. /\ tools \in Seq(MessageSet) /\ Len(tools) = Len(order)
      /\ \A i \in 1..Len(order) : tools[i] = Message("tool", order[i], <<Text(text)>>, <<>>)
  <2>1. /\ tools \in Seq(MessageSet) /\ Len(tools) = Len(results)
        /\ \A i \in 1..Len(results) :
              tools[i] = Message("tool", results[i].id, <<Text(results[i].value)>>, <<>>)
    BY <1>15, ToolEntriesParts
  <2>2. QED
    BY <1>1, <2>1
<1>3. Text(text) \in Blocks /\ Text(text).value = text
  BY TextTyped
<1>4. \A i \in 1..Len(order) : /\ tools[i].role = "tool" /\ tools[i].id = order[i]
                               /\ tools[i].calls = <<>>
                               /\ tools[i].content = <<Text(text)>>
  <2>1. ASSUME NEW i \in 1..Len(order)
        PROVE  /\ Message("tool", order[i], <<Text(text)>>, <<>>).role = "tool"
               /\ Message("tool", order[i], <<Text(text)>>, <<>>).id = order[i]
               /\ Message("tool", order[i], <<Text(text)>>, <<>>).calls = <<>>
               /\ Message("tool", order[i], <<Text(text)>>, <<>>).content = <<Text(text)>>
    BY DEF Message
  <2>2. QED
    BY <1>2, <2>1
<1>5. told \in Seq(Blocks) /\ Len(told) = Len(order)
      /\ \A i \in 1..Len(order) : told[i] = Item("result", order[i], text)
  <2>1. "result" \in Types
    BY DEF Types
  <2>2. \A i \in DOMAIN order : Item("result", order[i], text) \in Blocks
    BY <1>1, <1>14, <2>1, BlockTyped
  <2>3. told \in [DOMAIN order -> Blocks]
    BY <2>2 DEF ResultItems
  <2>4. \A i \in DOMAIN order : told[i] = Item("result", order[i], text)
    BY DEF ResultItems
  <2> HIDE DEF told
  <2>5. told \in Seq(Blocks) /\ Len(told) = Len(order)
    BY <2>3, MapTyped
  <2>6. QED
    BY <1>1, <2>4, <2>5
<1>6. \A i \in 1..Len(order) : ItemsOf(tools[i]) = <<told[i]>>
  <2>1. Head(<<Text(text)>>) = Text(text)
    OBVIOUS
  <2>2. ASSUME NEW i \in 1..Len(order) PROVE ItemsOf(tools[i]) = <<told[i]>>
    BY <1>3, <1>4, <1>5, <2>1 DEF ItemsOf
  <2>3. QED
    BY <2>2
<1> HIDE DEF tools, told
<1>7. Told(ms \o tools) = Told(ms) \o told
  BY <1>2, <1>5, <1>6, ToldEach
<1>8. /\ users = IF heard = <<>> THEN <<>> ELSE <<Message("user", 0, heard, <<>>)>>
      /\ Message("user", 0, heard, <<>>) \in MessageSet
      /\ heard \in Seq(Blocks)
  BY UserEntriesParts
<1>9. ms \o tools \in Seq(MessageSet) /\ Told(ms \o tools) \in Seq(Blocks)
  <2>1. ms \o tools \in Seq(MessageSet)
    BY <1>2
  <2>2. QED
    BY <2>1, ToldTyped
<1>10. /\ \A i \in 1..Len(users) : users[i].calls = <<>>
       /\ Told((ms \o tools) \o users) = Told(ms \o tools) \o heardItems
  <2>1. CASE heard = <<>>
    <3>1. users = <<>> /\ heardItems = <<>>
      BY <1>8, <2>1 DEF HeardItems
    <3> HIDE DEF users, heardItems
    <3>2. QED
      BY <1>9, <3>1
  <2>2. CASE heard # <<>>
    <3> DEFINE m == Message("user", 0, heard, <<>>)
    <3>1. users = <<m>> /\ m \in MessageSet
      BY <1>8, <2>2
    <3>2. m.calls = <<>> /\ ItemsOf(m) = heardItems
      BY DEF Message, ItemsOf, HeardItems
    <3> HIDE DEF m, users, heardItems
    <3> DEFINE d == ms \o tools
    <3>3. d \in Seq(MessageSet)
      BY <1>9
    <3> HIDE DEF d
    <3>4. d \o <<m>> = Append(d, m) /\ Told(Append(d, m)) = Told(d) \o ItemsOf(m)
      BY <3>1, <3>3, ConcatParts, ToldAppend
    <3>5. Told(d \o users) = Told(d) \o heardItems
      BY <3>1, <3>2, <3>4
    <3>6. \A i \in 1..Len(users) : users[i].calls = <<>>
      BY <3>1, <3>2
    <3>7. QED
      BY <3>5, <3>6 DEF d
  <2>3. QED
    BY <2>1, <2>2
<1>11. users \in Seq(MessageSet)
  BY <1>8
<1> HIDE DEF users
<1>12. (ms \o tools) \o users = ms \o (tools \o users)
  BY <1>2, <1>11
<1>13. QED
  BY <1>2, <1>4, <1>7, <1>10, <1>12 DEF tools, users, told

Uses(ids) == [i \in DOMAIN ids |-> Block("tool_use", ids[i], "")]

LEMMA UsesTyped ==
  ASSUME NEW ids \in Seq(Nat)
  PROVE  /\ Uses(ids) \in Seq(Blocks) /\ Len(Uses(ids)) = Len(ids)
         /\ \A i \in 1..Len(ids) : Uses(ids)[i].type = "tool_use" /\ Uses(ids)[i].id = ids[i]
         /\ Ids(Uses(ids)) = ids
<1>1. DOMAIN ids = 1..Len(ids) /\ \A i \in DOMAIN ids : ids[i] \in Nat
  OBVIOUS
<1>2. "tool_use" \in Types /\ "" \in Values
  BY DEF Types, Values
<1>3. \A i \in DOMAIN ids : Block("tool_use", ids[i], "") \in Blocks
  BY <1>1, <1>2, BlockTyped
<1>4. Uses(ids) \in [DOMAIN ids -> Blocks]
  BY <1>3 DEF Uses
<1>5. \A i \in DOMAIN ids : Uses(ids)[i] = Block("tool_use", ids[i], "")
  BY DEF Uses
<1>6. ASSUME NEW i \in DOMAIN ids
      PROVE  Uses(ids)[i].type = "tool_use" /\ Uses(ids)[i].id = ids[i]
  <2>1. /\ Block("tool_use", ids[i], "").type = "tool_use"
        /\ Block("tool_use", ids[i], "").id = ids[i]
    BY DEF Block
  <2>2. QED
    BY <1>5, <2>1
<1>7. Uses(ids) \in Seq(Blocks) /\ Len(Uses(ids)) = Len(ids) /\ DOMAIN Uses(ids) = DOMAIN ids
  BY <1>4, MapTyped
<1>8. Ids(Uses(ids)) = ids
  <2>1. Ids(Uses(ids)) = [i \in DOMAIN ids |-> ids[i]]
    BY <1>6, <1>7 DEF Ids
  <2>2. ids = [i \in DOMAIN ids |-> ids[i]]
    OBVIOUS
  <2>3. QED
    BY <2>1, <2>2
<1>9. QED
  BY <1>1, <1>6, <1>7, <1>8

Worded(text) == IF text # "" THEN <<Text(text)>> ELSE <<>>

\* The reply as the client keeps it: its text, where there is one, and its
\* calls are found again.
LEMMA ReplySorted ==
  ASSUME NEW text \in Values, NEW ids \in Seq(Nat)
  PROVE  /\ ResponseToAnthropic(text, ids) \in Seq(Blocks)
         /\ Kept(ResponseToAnthropic(text, ids), {"text"}, {""}) = Worded(text)
         /\ Ids(OfType(ResponseToAnthropic(text, ids), {"tool_use"})) = ids
<1> DEFINE w == Worded(text)
           u == Uses(ids)
           W == {"text"}
           D == {""}
           U == {"tool_use"}
<1>1. /\ Text(text) \in Blocks /\ Text(text).type = "text" /\ Text(text).value = text
      /\ Text("") \in Blocks /\ Text("").type = "text" /\ Text("").value = ""
  <2>1. "" \in Values
    BY DEF Values
  <2>2. QED
    BY <2>1, TextTyped
<1>2. /\ u \in Seq(Blocks) /\ Len(u) = Len(ids) /\ Ids(u) = ids
      /\ \A i \in 1..Len(u) : u[i].type = "tool_use"
  BY UsesTyped
<1>3. w \in Seq(Blocks) /\ \A i \in 1..Len(w) : w[i].type = "text" /\ w[i].value # ""
  <2>1. CASE text # ""
    <3>1. w = <<Text(text)>>
      BY <2>1 DEF Worded
    <3> HIDE DEF w
    <3>2. w \in Seq(Blocks) /\ \A i \in 1..Len(w) : w[i] = Text(text)
      BY <1>1, <3>1, SingleTyped
    <3>3. QED
      BY <1>1, <2>1, <3>2
  <2>2. CASE text = ""
    <3>1. w = <<>>
      BY <2>2 DEF Worded
    <3> HIDE DEF w
    <3>2. w \in Seq(Blocks) /\ Len(w) = 0
      BY <1>1, <3>1, SingleTyped
    <3>3. QED
      BY <3>2
  <2>3. QED
    BY <2>1, <2>2
<1>4. ResponseToAnthropic(text, ids) = IF w \o u = <<>> THEN <<Text("")>> ELSE w \o u
  BY DEF ResponseToAnthropic, Worded, Uses
<1> HIDE DEF w, u
<1>5. Kept(w, W, D) = w /\ Kept(u, W, D) = <<>>
  <2>1. /\ \A i \in 1..Len(w) : Wanted(w[i], W, D)
        /\ \A i \in 1..Len(u) : ~Wanted(u[i], W, D)
    BY <1>2, <1>3 DEF Wanted
  <2> HIDE DEF W, D
  <2>2. QED
    BY <1>2, <1>3, <2>1, KeptAll, KeptNone
<1>6. Kept(w, U, {}) = <<>> /\ Kept(u, U, {}) = u
  <2>1. /\ \A i \in 1..Len(w) : ~Wanted(w[i], U, {})
        /\ \A i \in 1..Len(u) : Wanted(u[i], U, {})
    BY <1>2, <1>3 DEF Wanted
  <2> HIDE DEF U
  <2>2. QED
    BY <1>2, <1>3, <2>1, KeptAll, KeptNone
<1>7. /\ w \o u \in Seq(Blocks) /\ w \o <<>> = w /\ <<>> \o u = u
  BY <1>2, <1>3, ConcatTyped
<1>8. Kept(w \o u, W, D) = w /\ Kept(w \o u, U, {}) = u
  <2> HIDE DEF W, D, U
  <2>1. w \in Seq(Blocks) /\ u \in Seq(Blocks)
    BY <1>2, <1>3
  <2>2. Kept(w \o u, W, D) = Kept(w, W, D) \o Kept(u, W, D)
    BY <2>1, KeptConcat
  <2>3. Kept(w \o u, U, {}) = Kept(w, U, {}) \o Kept(u, U, {})
    BY <2>1, KeptConcat
  <2>4. QED
    BY <1>5, <1>6, <1>7, <2>2, <2>3
<1>9. CASE w \o u # <<>>
  <2>1. ResponseToAnthropic(text, ids) = w \o u
    BY <1>4, <1>9
  <2>2. OfType(w \o u, {"tool_use"}) = u
    BY <1>8 DEF OfType
  <2>3. QED
    <3>1. Kept(w \o u, {"text"}, {""}) = Worded(text)
      BY <1>8 DEF w
    <3>2. w \o u \in Seq(Blocks) /\ Ids(u) = ids
      BY <1>2, <1>7
    <3> HIDE DEF w, u
    <3>3. QED
      BY <2>1, <2>2, <3>1, <3>2
<1>10. CASE w \o u = <<>>
  <2> DEFINE e == <<Text("")>>
  <2>1. w = <<>> /\ u = <<>>
    <3>1. w \in Seq(Blocks) /\ u \in Seq(Blocks)
      BY <1>2, <1>3
    <3>2. QED
      BY <1>10, <3>1, ConcatTyped
  <2>2. e \in Seq(Blocks) /\ \A i \in 1..Len(e) : e[i] = Text("")
    BY <1>1, SingleTyped
  <2> HIDE DEF e
  <2>3. \A i \in 1..Len(e) : ~Wanted(e[i], W, D) /\ ~Wanted(e[i], U, {})
    BY <1>1, <2>2 DEF Wanted
  <2>4. Kept(e, W, D) = <<>> /\ Kept(e, U, {}) = <<>>
    <3> HIDE DEF W, D, U
    <3>1. QED
      BY <2>2, <2>3, KeptNone
  <2>5. QED
    BY <1>2, <1>4, <1>10, <2>1, <2>2, <2>4 DEF OfType, w, e
<1>11. QED
  BY <1>9, <1>10

\* What the reply tells the upstream in every later request.
LEMMA ReplyTells ==
  ASSUME NEW ms \in Seq(MessageSet), NEW text \in Values, NEW ids \in Seq(Nat),
         NEW m, m = AssistantEntry(ResponseToAnthropic(text, ids))
  PROVE  /\ m \in MessageSet /\ m.calls = ids
         /\ Told(Append(ms, m))
               = (Told(ms) \o TextItems(text)) \o CallItems(ids)
<1> DEFINE w == Worded(text)
           a == TextItems(text)
           c == CallItems(ids)
<1>1. m \in MessageSet /\ m.role = "assistant" /\ m.content = w /\ m.calls = ids
  BY ReplySorted, AssistantEntryParts
<1>2. [i \in DOMAIN w |-> Item("answered", 0, w[i].value)] = a
  <2>1. CASE text # ""
    <3>1. w = <<Text(text)>> /\ Text(text).value = text
      BY <2>1, TextTyped DEF Worded
    <3>2. DOMAIN w = {1} /\ w[1].value = text
      BY <3>1
    <3> HIDE DEF w
    <3>3. [i \in DOMAIN w |-> Item("answered", 0, w[i].value)] = <<Item("answered", 0, text)>>
      BY <3>2
    <3>4. QED
      BY <2>1, <3>3 DEF TextItems
  <2>2. CASE text = ""
    <3>1. w = <<>> /\ a = <<>>
      BY <2>2 DEF Worded, TextItems
    <3> HIDE DEF w, a
    <3>2. DOMAIN w = {}
      BY <3>1
    <3>3. [i \in DOMAIN w |-> Item("answered", 0, w[i].value)] = <<>>
      BY <3>2
    <3>4. QED
      BY <3>1, <3>3
  <2>3. QED
    BY <2>1, <2>2
<1>3. ItemsOf(m) = a \o c
  <2> HIDE DEF w, a
  <2>1. QED
    BY <1>1, <1>2 DEF ItemsOf, CallItems
<1>4. a \in Seq(Blocks) /\ c \in Seq(Blocks)
  <2>1. "answered" \in Types /\ "call" \in Types /\ "" \in Values
    BY DEF Types, Values
  <2>2. Item("answered", 0, text) \in Blocks
    <3>1. 0 \in Nat
      OBVIOUS
    <3>2. QED
      BY <2>1, <3>1, BlockTyped
  <2>3. a \in Seq(Blocks)
    <3>1. <<Item("answered", 0, text)>> \in Seq(Blocks) /\ <<>> \in Seq(Blocks)
      BY <2>2, SingleTyped
    <3>2. QED
      BY <3>1 DEF TextItems
  <2>4. \A i \in DOMAIN ids : ids[i] \in Nat
    OBVIOUS
  <2>5. \A i \in DOMAIN ids : Item("call", ids[i], "") \in Blocks
    BY <2>1, <2>4, BlockTyped
  <2>6. c \in [DOMAIN ids -> Blocks]
    BY <2>5 DEF CallItems
  <2>7. QED
    BY <2>3, <2>6, MapTyped
<1>5. Told(Append(ms, m)) = Told(ms) \o ItemsOf(m) /\ Told(ms) \in Seq(Blocks)
  BY <1>1, ToldAppend, ToldTyped
<1> HIDE DEF a, c
<1>6. Told(ms) \o (a \o c) = (Told(ms) \o a) \o c
  BY <1>4, <1>5
<1>7. QED
  BY <1>1, <1>3, <1>5, <1>6 DEF a, c

-----------------------------------------------------------------------------
(* The inductive invariant.                                                *)

\* The calls of the i-th message are answered at once.
AnsweredAt(ms, i) ==
    LET answers == (i + 1)..(i + Len(ms[i].calls))
    IN  /\ answers \subseteq DOMAIN ms
        /\ \A j \in answers : ms[j].role = "tool"
        /\ {ms[j].id : j \in answers} = ToSet(ms[i].calls)

\* All calls are answered, but for those that are waiting, of the last message.
Settled(ms, waiting) ==
    \A i \in DOMAIN ms :
        AnsweredAt(ms, i) \/ (waiting # <<>> /\ i = Len(ms) /\ ms[i].calls = waiting)

Distinct(ids) == \A i, j \in DOMAIN ids : ids[i] = ids[j] => i = j

\* The conversation: only an assistant's last word leaves calls to be answered,
\* and the history tells what happened, whole and in order.
HistoryInv ==
    /\ history \in Seq(TurnSet)
    /\ calls \in Nat
    /\ pending \in Seq(Nat) /\ Distinct(pending)
    /\ pending # <<>> => history # <<>> /\ Last(history).role = "assistant"
    /\ Told(MessagesToOpenai(history)) = lived
    /\ Settled(MessagesToOpenai(history), pending)

\* The body under way is that of the history as it stands, where the client has
\* spoken last.
BodyInv ==
    body # NoBody =>
        \/ /\ body.dialect = "openai"
           /\ history = <<>>
           /\ body.upstream.messages = <<>>
        \/ /\ body.dialect = "anthropic"
           /\ history # <<>> /\ Last(history).role = "user"
           /\ body.upstream.messages = MessagesToOpenai(history)

DialectsInv == HistoryInv /\ BodyInv /\ SettingsReachUpstream

-----------------------------------------------------------------------------
(* Calls and their answers.                                                *)

\* The client answers each call once, in an order of its own.
LEMMA OrderParts ==
  ASSUME NEW ids \in Seq(Nat), Distinct(ids), NEW order \in SetToSeqs(ToSet(ids))
  PROVE  /\ order \in Seq(Nat) /\ Len(order) = Len(ids)
         /\ DOMAIN order = 1..Len(ids)
         /\ {order[j] : j \in 1..Len(ids)} = ToSet(ids)
<1> DEFINE n == Len(ids)
           S == ToSet(ids)
<1>1. n \in Nat /\ DOMAIN ids = 1..n /\ \A i \in 1..n : ids[i] \in Nat
      /\ ids = [k \in 1..n |-> ids[k]]
  OBVIOUS
<1>2. ids \in Surjection(1..n, S) /\ ids \in Injection(1..n, S)
  <2>1. ids \in [1..n -> S] /\ \A t \in S : \E i \in 1..n : ids[i] = t
    BY <1>1 DEF ToSet
  <2>2. \A i, j \in 1..n : ids[i] = ids[j] => i = j
    BY <1>1 DEF Distinct
  <2> HIDE DEF n, S
  <2>3. ids \in Surjection(1..n, S)
    BY <2>1 DEF Surjection
  <2>4. ids \in Injection(1..n, S)
    BY <2>1, <2>2 DEF Injection, IsInjective
  <2>5. QED
    BY <2>3, <2>4
<1>3. IsFiniteSet(1..n) /\ Cardinality(1..n) = n
  <2> HIDE DEF n
  <2>1. 1 \in Int /\ n \in Int /\ (IF 1 > n THEN 0 ELSE n - 1 + 1) = n
    BY <1>1
  <2>2. QED
    BY <2>1, FS_Interval
<1>4. IsFiniteSet(S) /\ Cardinality(S) = n
  BY <1>2, <1>3, FS_Surjection
<1>5. S \subseteq Nat
  BY <1>1 DEF ToSet
<1>6. order \in [1..n -> S] /\ \A i, j \in 1..n : i # j => order[i] # order[j]
  BY <1>4 DEF SetToSeqs
<1> HIDE DEF n, S
<1>7. order \in Injection(1..n, S)
  BY <1>6 DEF Injection, IsInjective
<1>8. order \in Surjection(1..n, S)
  BY <1>3, <1>4, <1>7, FS_Injection
<1>9. {order[j] : j \in 1..n} = S
  BY <1>6, <1>8 DEF Surjection
<1>10. order \in [1..n -> Nat]
  BY <1>5, <1>6
<1>11. order \in Seq(Nat) /\ Len(order) = n /\ DOMAIN order = 1..n
  BY <1>1, <1>10
<1>12. QED
  BY <1>9, <1>11 DEF n, S

\* More messages do not change what was answered.
LEMMA AnsweredStays ==
  ASSUME NEW ms \in Seq(MessageSet), NEW more \in Seq(MessageSet), NEW i \in DOMAIN ms,
         AnsweredAt(ms, i)
  PROVE  AnsweredAt(ms \o more, i)
<1> DEFINE s == ms \o more
           answers == (i + 1)..(i + Len(ms[i].calls))
<1>1. DOMAIN ms \subseteq DOMAIN s /\ \A j \in DOMAIN ms : s[j] = ms[j]
  OBVIOUS
<1>2. /\ answers \subseteq DOMAIN ms
      /\ \A j \in answers : ms[j].role = "tool"
      /\ {ms[j].id : j \in answers} = ToSet(ms[i].calls)
  BY DEF AnsweredAt
<1> HIDE DEF s
<1>3. s[i] = ms[i] /\ \A j \in answers : s[j] = ms[j]
  BY <1>1, <1>2
<1>4. {s[j].id : j \in answers} = {ms[j].id : j \in answers}
  BY <1>3
<1>5. AnsweredAt(s, i)
  BY <1>1, <1>2, <1>3, <1>4 DEF AnsweredAt
<1>6. QED
  BY <1>5 DEF s

LEMMA NothingToAnswer ==
  ASSUME NEW ms, NEW i \in Nat, ms[i].calls = <<>>
  PROVE  AnsweredAt(ms, i)
<1>1. (i + 1)..(i + Len(<<>>)) = {} /\ ToSet(<<>>) = {}
  BY DEF ToSet
<1>2. QED
  BY <1>1 DEF AnsweredAt

\* The results come right after the calls that waited for them.
LEMMA SettledByTurn ==
  ASSUME NEW ms \in Seq(MessageSet), NEW tools \in Seq(MessageSet),
         NEW users \in Seq(MessageSet), NEW waiting \in Seq(Nat),
         Settled(ms, waiting),
         Len(tools) = Len(waiting),
         \A j \in 1..Len(tools) : tools[j].role = "tool" /\ tools[j].calls = <<>>,
         {tools[j].id : j \in 1..Len(tools)} = ToSet(waiting),
         \A j \in 1..Len(users) : users[j].calls = <<>>
  PROVE  Settled(ms \o (tools \o users), <<>>)
<1> DEFINE n == Len(ms)
           m == Len(tools)
           k == Len(users)
           more == tools \o users
           s == ms \o more
<1>1. /\ n \in Nat /\ m \in Nat /\ k \in Nat
      /\ more \in Seq(MessageSet) /\ Len(more) = m + k
      /\ \A j \in 1..m : more[j] = tools[j]
      /\ \A j \in (m + 1)..(m + k) : more[j] = users[j - m]
  BY ConcatEntries
<1>2. \A j \in 1..(m + k) : more[j].calls = <<>>
  <2>1. ASSUME NEW j \in 1..(m + k) PROVE more[j].calls = <<>>
    <3>1. CASE j \in 1..m
      BY <1>1, <3>1
    <3>2. CASE j \in (m + 1)..(m + k)
      <4>1. j - m \in 1..k
        BY <1>1, <3>2
      <4>2. QED
        BY <1>1, <3>2, <4>1
    <3>3. QED
      BY <1>1, <3>1, <3>2
  <2>2. QED
    BY <2>1
<1> HIDE DEF more
<1>3. /\ DOMAIN ms = 1..n /\ Len(s) = n + (m + k) /\ DOMAIN s = 1..(n + (m + k))
      /\ \A i \in 1..n : s[i] = ms[i]
      /\ \A i \in (n + 1)..(n + (m + k)) : s[i] = more[i - n]
  <2>3. more \in Seq(MessageSet)
    BY <1>1
  <2>1. /\ DOMAIN ms = 1..Len(ms) /\ Len(s) = Len(ms) + Len(more)
        /\ DOMAIN s = 1..(Len(ms) + Len(more))
        /\ \A i \in 1..Len(ms) : s[i] = ms[i]
        /\ \A i \in (Len(ms) + 1)..(Len(ms) + Len(more)) : s[i] = more[i - Len(ms)]
    BY <2>3, ConcatEntries
  <2> HIDE DEF s
  <2>2. QED
    BY <1>1, <2>1
<1> HIDE DEF n, s, m, k
<1>4. ASSUME NEW i \in 1..n PROVE AnsweredAt(s, i)
  <2>1. CASE AnsweredAt(ms, i)
    BY <1>1, <1>3, <2>1, AnsweredStays DEF s
  <2>2. CASE i = n /\ ms[i].calls = waiting
    <3> DEFINE answers == (n + 1)..(n + m)
    <3>1. s[i].calls = waiting /\ Len(waiting) = m
      BY <1>3, <2>2 DEF m
    <3>2. answers \subseteq DOMAIN s
      BY <1>1, <1>3
    <3>3. \A j \in answers : j - n \in 1..m /\ s[j] = tools[j - n]
      <4>1. ASSUME NEW j \in answers PROVE j - n \in 1..m /\ s[j] = tools[j - n]
        <5>1. j \in (n + 1)..(n + (m + k)) /\ j - n \in 1..m
          BY <1>1
        <5>2. QED
          BY <1>1, <1>3, <5>1
      <4>2. QED
        BY <4>1
    <3>4. \A j \in answers : s[j].role = "tool"
      BY <3>3 DEF m
    <3>5. {s[j].id : j \in answers} = {tools[j].id : j \in 1..m}
      <4>1. \A j \in 1..m : n + j \in answers /\ (n + j) - n = j
        BY <1>1
      <4>2. \A j \in 1..m : s[n + j] = tools[j]
        BY <3>3, <4>1
      <4> HIDE DEF answers
      <4> DEFINE answered == {s[j].id : j \in answers}
                 results == {tools[j].id : j \in 1..m}
      <4>3. answered \subseteq results
        BY <3>3
      <4>4. results \subseteq answered
        <5>1. ASSUME NEW j \in 1..m PROVE tools[j].id \in answered
          BY <4>1, <4>2
        <5> HIDE DEF answered
        <5>2. QED
          BY <5>1
      <4> HIDE DEF answered, results
      <4>5. answered = results
        BY <4>3, <4>4
      <4>6. QED
        BY <4>5 DEF answered, results
    <3>6. {s[j].id : j \in answers} = ToSet(waiting)
      BY <3>5 DEF m
    <3>7. (i + 1)..(i + Len(s[i].calls)) = answers
      BY <2>2, <3>1
    <3> HIDE DEF answers
    <3>8. QED
      BY <3>1, <3>2, <3>4, <3>6, <3>7 DEF AnsweredAt
  <2>3. QED
    BY <1>3, <2>1, <2>2 DEF Settled, n
<1>5. ASSUME NEW i \in (n + 1)..(n + (m + k)) PROVE AnsweredAt(s, i)
  <2>1. i - n \in 1..(m + k) /\ i \in Nat
    BY <1>1
  <2>2. s[i].calls = <<>>
    BY <1>2, <1>3, <2>1
  <2>3. QED
    BY <2>1, <2>2, NothingToAnswer
<1>6. \A i \in DOMAIN s : AnsweredAt(s, i)
  <2>1. \A i \in DOMAIN s : i \in 1..n \/ i \in (n + 1)..(n + (m + k))
    BY <1>1, <1>3
  <2>2. QED
    BY <1>4, <1>5, <2>1
<1>7. QED
  BY <1>6 DEF Settled, s, more

\* A reply leaves its calls to be answered, and no others.
LEMMA SettledByReply ==
  ASSUME NEW ms \in Seq(MessageSet), NEW m \in MessageSet, Settled(ms, <<>>)
  PROVE  Settled(Append(ms, m), m.calls)
<1> DEFINE s == Append(ms, m)
<1>1. /\ Len(ms) \in Nat /\ DOMAIN ms = 1..Len(ms) /\ Len(s) = Len(ms) + 1
      /\ DOMAIN s = 1..(Len(ms) + 1) /\ s[Len(ms) + 1] = m
      /\ s = ms \o <<m>> /\ <<m>> \in Seq(MessageSet)
  OBVIOUS
<1> HIDE DEF s
<1>2. ASSUME NEW i \in DOMAIN ms PROVE AnsweredAt(s, i)
  <2>1. AnsweredAt(ms, i)
    BY DEF Settled
  <2>2. AnsweredAt(ms \o <<m>>, i)
    BY <1>1, <2>1, AnsweredStays
  <2>3. QED
    BY <1>1, <2>2
<1>3. ASSUME m.calls = <<>> PROVE AnsweredAt(s, Len(ms) + 1)
  <2>1. Len(ms) + 1 \in Nat /\ s[Len(ms) + 1].calls = <<>>
    BY <1>1, <1>3
  <2>2. QED
    BY <2>1, NothingToAnswer
<1>4. ASSUME NEW i \in DOMAIN s
      PROVE  AnsweredAt(s, i) \/ (m.calls # <<>> /\ i = Len(s) /\ s[i].calls = m.calls)
  <2>1. i \in DOMAIN ms \/ i = Len(ms) + 1
    BY <1>1
  <2>2. QED
    BY <1>1, <1>2, <1>3, <2>1
<1>5. Settled(s, m.calls)
  BY <1>4 DEF Settled
<1>6. QED
  BY <1>5 DEF s

-----------------------------------------------------------------------------
(* The controls.                                                           *)

EffortNames == {"reasoning_effort", "reasoningEffort", "effort"}
OffWords == {"none", "off", "disabled", "false"}

LEMMA EffortKeysParts ==
  /\ DOMAIN EffortKeys = 1..3 /\ ToSet(EffortKeys) = EffortNames
  /\ \A n \in 1..3 : EffortKeys[n] \in EffortNames
<1>1. /\ DOMAIN EffortKeys = 1..3
      /\ EffortKeys[1] = "reasoning_effort" /\ EffortKeys[2] = "reasoningEffort"
      /\ EffortKeys[3] = "effort"
  BY DEF EffortKeys
<1>2. ToSet(EffortKeys) = {EffortKeys[n] : n \in 1..3}
  BY <1>1 DEF ToSet
<1>3. \A n \in 1..3 : n = 1 \/ n = 2 \/ n = 3
  OBVIOUS
<1>4. QED
  BY <1>1, <1>2, <1>3 DEF EffortNames

\* The first of some places among the effort keys is one of them.
LEMMA LeastPlace ==
  ASSUME NEW T \in SUBSET (1..3), T # {}
  PROVE  Min(T) \in T
<1>1. T \in SUBSET Nat
  OBVIOUS
<1>2. \E x \in T : \A y \in T : x <= y
  BY <1>1, LeastNatural
<1>3. QED
  BY <1>2 DEF Min

\* The thinking controls of a payload that are set.
Said(payload) == {key \in ThinkingKeys : ~Absent(payload, key)}

LEMMA ThinkingParts ==
  ThinkingKeys = EffortNames \cup {"thinking", "enable_thinking", "reasoning"}
  BY EffortKeysParts DEF ThinkingKeys

\* No effort key is set: the effort is what `thinking` or the flag says.
LEMMA NoEffortNamed ==
  ASSUME NEW payload, \A key \in EffortNames : Absent(payload, key)
  PROVE  {n \in DOMAIN EffortKeys : ~Absent(payload, EffortKeys[n])} = {}
  BY EffortKeysParts

\* Where every control that is set says off, no `reasoning` object is in the way
\* and the effort is a word for off, unless that object itself says it.
LEMMA OffIsHeard ==
  ASSUME NEW req, Said(req) # {}, \A key \in Said(req) : SaysOff(req, key)
  PROVE  \/ req["reasoning"] = "disabled"
         \/ ClientEffort(req) \in OffWords /\ Absent(req, "reasoning")
<1> DEFINE named == {n \in DOMAIN EffortKeys : ~Absent(req, EffortKeys[n])}
<1>1. ASSUME NEW key \in EffortNames, ~Absent(req, key) PROVE req[key] \in OffWords
  <2>1. key \in Said(req) /\ key \notin {"thinking", "enable_thinking", "reasoning"}
    BY <1>1, ThinkingParts DEF Said, EffortNames
  <2>2. QED
    BY <2>1 DEF SaysOff, OffWords
<1>2. \A key \in {"thinking", "enable_thinking", "reasoning"} : key \notin ToSet(EffortKeys)
  BY EffortKeysParts DEF EffortNames
<1>3. /\ ~Absent(req, "thinking") => req["thinking"] = "disabled"
      /\ ~Absent(req, "reasoning") => req["reasoning"] = "disabled"
      /\ ~Absent(req, "enable_thinking") => req["enable_thinking"] = "false"
  BY <1>2, ThinkingParts DEF Said, SaysOff
<1> SUFFICES ASSUME Absent(req, "reasoning") PROVE ClientEffort(req) \in OffWords
  BY <1>3
<1>4. CASE named # {}
  <2>1. Min(named) \in named
    BY <1>4, EffortKeysParts, LeastPlace
  <2>2. req[EffortKeys[Min(named)]] \in OffWords
    BY <1>1, <2>1, EffortKeysParts
  <2>3. ClientEffort(req) = req[EffortKeys[Min(named)]]
    BY <1>4 DEF ClientEffort
  <2>4. QED
    BY <2>2, <2>3
<1>5. CASE named = {}
  <2>1. ASSUME NEW key \in EffortNames PROVE Absent(req, key)
    <3>1. PICK n \in 1..3 : EffortKeys[n] = key
      BY EffortKeysParts DEF ToSet
    <3>2. QED
      BY <1>5, <3>1, EffortKeysParts
  <2>2. ~Absent(req, "thinking") \/ ~Absent(req, "enable_thinking")
    BY <2>1, ThinkingParts DEF Said
  <2>3. ClientEffort(req) = "none"
    <3>1. CASE req["thinking"] = "disabled"
      <4>1. ~Absent(req, "thinking") /\ req["thinking"] # "enabled"
        BY <3>1 DEF Absent
      <4>2. QED
        BY <1>5, <3>1, <4>1 DEF ClientEffort
    <3>2. CASE Absent(req, "thinking")
      <4>1. req["enable_thinking"] = "false" /\ req["thinking"] # "disabled"
            /\ req["thinking"] # "enabled"
        BY <2>2, <1>3, <3>2 DEF Absent
      <4>2. QED
        BY <1>5, <3>2, <4>1 DEF ClientEffort
    <3>3. QED
      BY <1>3, <3>1, <3>2
  <2>4. QED
    BY <2>3 DEF OffWords
<1>6. QED
  BY <1>4, <1>5

\* Thinking is disabled in the body then, in every shape of it.
LEMMA OffIsKept ==
  ASSUME NEW req, NEW variant, NEW kimi,
         Said(req) # {}, \A key \in Said(req) : SaysOff(req, key)
  PROVE  Reasoning(req, variant, kimi) = "disabled"
<1>1. CASE req["reasoning"] = "disabled"
  BY <1>1 DEF Reasoning
<1>2. CASE ClientEffort(req) \in OffWords /\ Absent(req, "reasoning")
  <2> DEFINE effort == ClientEffort(req)
  <2>1. /\ effort \in OffWords /\ effort # "low" /\ effort # "absent"
        /\ Alias(effort) = "none"
    BY <1>2 DEF OffWords, Alias
  <2> HIDE DEF effort
  <2>2. NormaliseEffort(effort, variant, kimi) = "none"
    BY <2>1 DEF NormaliseEffort
  <2>3. req["reasoning"] = "absent"
    BY <1>2 DEF Absent
  <2>4. QED
    BY <2>1, <2>2, <2>3 DEF Reasoning, effort
<1>3. QED
  BY <1>1, <1>2, OffIsHeard

\* Where none is set, the body has the default of its shape.
LEMMA NothingIsDefault ==
  ASSUME NEW req, NEW variant, NEW kimi, Said(req) = {}
  PROVE  Reasoning(req, variant, kimi) = IF variant = "reasoning" THEN "disabled" ELSE "low"
<1>1. \A key \in ThinkingKeys : req[key] = "absent"
  BY DEF Said, Absent
<1>2. {n \in DOMAIN EffortKeys : ~Absent(req, EffortKeys[n])} = {}
  BY <1>1, ThinkingParts, NoEffortNamed DEF Absent
<1>3. /\ req["thinking"] = "absent" /\ req["enable_thinking"] = "absent"
      /\ req["reasoning"] = "absent"
  BY <1>1, ThinkingParts
<1>4. ClientEffort(req) = "absent"
  BY <1>2, <1>3 DEF ClientEffort, Absent
<1>5. QED
  BY <1>3, <1>4 DEF Reasoning

\* The payload a dialect makes of a request.
Payload(dialect, req) == IF dialect = "anthropic" THEN RequestToOpenai(req) ELSE req

\* It has the thinking controls the dialect understands, as they were set.
LEMMA ThinkingCarried ==
  ASSUME NEW dialect, NEW req \in [Controls -> STRING]
  PROVE  /\ Said(Payload(dialect, req)) = Chosen(dialect, req, ThinkingKeys)
         /\ \A key \in Chosen(dialect, req, ThinkingKeys) : Payload(dialect, req)[key] = req[key]
<1>1. ThinkingKeys \subseteq DOMAIN req /\ \A key \in ThinkingKeys : key \notin LimitKeys
  BY ThinkingParts DEF Controls, LimitKeys, EffortNames
<1>2. CASE dialect = "anthropic"
  <2>1. ASSUME NEW key \in ThinkingKeys
        PROVE  RequestToOpenai(req)[key] = IF key = "reasoning_effort" THEN req[key] ELSE "absent"
    BY <1>1, ThinkingParts DEF RequestToOpenai, EffortNames
  <2>2. "reasoning_effort" \in ThinkingKeys /\ "max_tokens" \notin ThinkingKeys
    BY ThinkingParts DEF EffortNames
  <2>3. Payload(dialect, req) = RequestToOpenai(req)
    BY <1>2 DEF Payload
  <2>4. \A key : key \in Chosen(dialect, req, ThinkingKeys)
                  <=> key = "reasoning_effort" /\ ~Absent(req, key)
    BY <1>2, <2>2 DEF Chosen, Understood
  <2>5. \A key : key \in Said(RequestToOpenai(req))
                  <=> key = "reasoning_effort" /\ ~Absent(req, key)
    BY <2>1, <2>2 DEF Said, Absent
  <2>6. QED
    BY <2>1, <2>2, <2>3, <2>4, <2>5
<1>3. CASE dialect # "anthropic"
  BY <1>3 DEF Said, Chosen, Understood, Payload
<1>4. QED
  BY <1>2, <1>3

\* What limit a body carries.
LEMMA LimitCarried ==
  ASSUME NEW dialect, NEW req \in [Controls -> STRING]
  PROVE  /\ Limit(Payload(dialect, req)) # "absent"
         /\ Chosen(dialect, req, LimitKeys) # {}
            => \E l \in Chosen(dialect, req, LimitKeys) : Limit(Payload(dialect, req)) = req[l]
<1>1. /\ LimitKeys = {"max_tokens", "max_completion_tokens"} /\ DefaultLimit # "absent"
      /\ DOMAIN req = Controls /\ "max_tokens" \in Controls
  BY DialectsAssumption DEF LimitKeys, Controls
<1>2. CASE dialect = "anthropic"
  <2>1. RequestToOpenai(req)["max_tokens"]
           = IF Absent(req, "max_tokens") THEN DefaultLimit ELSE req["max_tokens"]
    BY <1>1 DEF RequestToOpenai
  <2>2. RequestToOpenai(req)["max_tokens"] # "absent"
    BY <1>1, <2>1 DEF Absent
  <2>3. Limit(Payload(dialect, req)) = RequestToOpenai(req)["max_tokens"]
    BY <1>2, <2>2 DEF Limit, Absent, Payload
  <2>4. \A l \in Chosen(dialect, req, LimitKeys) : l = "max_tokens" /\ ~Absent(req, l)
    BY <1>1, <1>2 DEF Chosen, Understood
  <2>5. QED
    BY <2>1, <2>2, <2>3, <2>4
<1>3. CASE dialect # "anthropic"
  <2>1. Payload(dialect, req) = req
    BY <1>3 DEF Payload
  <2>2. \A l \in LimitKeys : l \in Chosen(dialect, req, LimitKeys) <=> ~Absent(req, l)
    BY <1>3 DEF Chosen, Understood
  <2>3. Chosen(dialect, req, LimitKeys) \subseteq LimitKeys
    BY DEF Chosen
  <2>4. CASE ~Absent(req, "max_tokens")
    BY <1>1, <2>1, <2>2, <2>4 DEF Limit, Absent
  <2>5. CASE Absent(req, "max_tokens") /\ ~Absent(req, "max_completion_tokens")
    BY <1>1, <2>1, <2>2, <2>5 DEF Limit, Absent
  <2>6. CASE Absent(req, "max_tokens") /\ Absent(req, "max_completion_tokens")
    BY <1>1, <2>1, <2>2, <2>3, <2>6 DEF Limit
  <2>7. QED
    BY <2>4, <2>5, <2>6
<1>4. QED
  BY <1>2, <1>3

Honoured(dialect, req, sent) ==
    /\ ThinkingHonoured(dialect, req, sent)
    /\ LimitHonoured(dialect, req, sent)
    /\ SamplingHonoured(dialect, req, sent)

\* The body made of a request honours it, whatever the dialect and the shape.
LEMMA SettingsSent ==
  ASSUME NEW dialect \in {"anthropic", "openai"}, NEW req \in [Controls -> STRING],
         NEW messages, NEW variant, NEW kimi, NEW sent,
         sent = BuildUpstreamBody(messages, Payload(dialect, req), variant, kimi)
  PROVE  sent.messages = messages /\ Honoured(dialect, req, sent)
<1> DEFINE payload == Payload(dialect, req)
<1>1. /\ sent.messages = messages /\ sent.variant = variant
      /\ sent.reasoning = Reasoning(payload, variant, kimi)
      /\ sent.limits = [key \in LimitKeys |->
                           IF key = LimitKey(variant) THEN Limit(payload) ELSE "absent"]
      /\ \A key \in SamplingKeys : sent.sampling[key] = payload[key]
  BY DEF BuildUpstreamBody
<1>2. ThinkingHonoured(dialect, req, sent)
  <2>1. /\ Said(payload) = Chosen(dialect, req, ThinkingKeys)
        /\ \A key \in Said(payload) : payload[key] = req[key]
    BY ThinkingCarried
  <2> HIDE DEF payload
  <2>2. \A key \in Said(payload) : SaysOff(req, key) => SaysOff(payload, key)
    BY <2>1 DEF SaysOff
  <2>3. Said(payload) # {} /\ (\A key \in Said(payload) : SaysOff(req, key))
        => sent.reasoning = "disabled"
    BY <1>1, <2>2, OffIsKept
  <2>4. Said(payload) = {}
        => sent.reasoning = IF variant = "reasoning" THEN "disabled" ELSE "low"
    BY <1>1, NothingIsDefault
  <2>5. QED
    BY <1>1, <2>1, <2>3, <2>4 DEF ThinkingHonoured
<1>3. LimitHonoured(dialect, req, sent)
  <2>1. /\ Limit(payload) # "absent"
        /\ Chosen(dialect, req, LimitKeys) # {}
           => \E l \in Chosen(dialect, req, LimitKeys) : Limit(payload) = req[l]
    BY LimitCarried
  <2> HIDE DEF payload
  <2>2. \A key \in LimitKeys :
           sent.limits[key] = IF key = LimitKey(variant) THEN Limit(payload) ELSE "absent"
    BY <1>1
  <2>3. {k \in LimitKeys : ~Absent(sent.limits, k)} = {k \in LimitKeys : k = LimitKey(variant)}
    BY <2>1, <2>2 DEF Absent
  <2>4. {k \in LimitKeys : k = LimitKey(variant)}
           = CASE variant = "reasoning"      -> {}
               [] variant = "openai-nextgen" -> {"max_completion_tokens"}
               [] OTHER                      -> {"max_tokens"}
    <3>1. CASE variant = "reasoning"
      BY <3>1 DEF LimitKey, LimitKeys
    <3>2. CASE variant = "openai-nextgen"
      BY <3>2 DEF LimitKey, LimitKeys
    <3>3. CASE variant # "reasoning" /\ variant # "openai-nextgen"
      BY <3>3 DEF LimitKey, LimitKeys
    <3>4. QED
      BY <3>1, <3>2, <3>3
  <2>5. \A k \in {j \in LimitKeys : ~Absent(sent.limits, j)} : sent.limits[k] = Limit(payload)
    BY <2>2, <2>3
  <2>6. QED
    BY <1>1, <2>1, <2>3, <2>4, <2>5 DEF LimitHonoured
<1>4. SamplingHonoured(dialect, req, sent)
  <2>1. /\ DOMAIN req = Controls /\ SamplingKeys \subseteq Controls
        /\ SamplingKeys = {"temperature", "top_p", "top_k", "stop", "seed"}
    BY DEF Controls, SamplingKeys
  <2>2. \A key \in SamplingKeys : key # "seed" => RequestToOpenai(req)[key] = req[key]
    BY <2>1 DEF RequestToOpenai
  <2>3. QED
    BY <1>1, <2>2 DEF SamplingHonoured, Payload
<1>5. QED
  BY <1>1, <1>2, <1>3, <1>4 DEF Honoured

-----------------------------------------------------------------------------
(* The invariant is inductive.                                             *)

LEMMA NothingTold ==
  MessagesToOpenai(<<>>) = <<>> /\ Told(<<>>) = <<>>
<1>1. [i \in DOMAIN <<>> |-> Translated(<<>>[i])] = <<>>
  OBVIOUS
<1>2. [i \in DOMAIN <<>> |-> ItemsOf(<<>>[i])] = <<>>
  OBVIOUS
<1>3. QED
  BY <1>1, <1>2, FlattenNothing DEF MessagesToOpenai, Told

Heard(said) == OfType(said, {"text", "image"})

UserSays(said, k, order, text) ==
    [role |-> "user", content |-> Turned(said, k, Results(order, text))]

\* The turn of a user who says `said` and answers the calls `waiting`.
LEMMA TurnSettles ==
  ASSUME NEW h \in Seq(TurnSet), NEW waiting \in Seq(Nat), Distinct(waiting),
         Settled(MessagesToOpenai(h), waiting),
         NEW said \in Seq(SaidBlocks), NEW k \in 0..Len(said),
         NEW order \in SetToSeqs(ToSet(waiting)), NEW text \in Values,
         NEW turn, turn = UserSays(said, k, order, text)
  PROVE  /\ turn \in TurnSet
         /\ Settled(MessagesToOpenai(Append(h, turn)), <<>>)
         /\ Told(MessagesToOpenai(Append(h, turn)))
               = (Told(MessagesToOpenai(h)) \o ResultItems(order, text))
                    \o HeardItems(Heard(said))
<1> DEFINE ms == MessagesToOpenai(h)
           heard == Heard(said)
           content == Turned(said, k, Results(order, text))
           tools == ToolEntries(content)
           users == UserEntries(content)
<1>1. /\ order \in Seq(Nat) /\ Len(order) = Len(waiting) /\ DOMAIN order = 1..Len(waiting)
      /\ {order[j] : j \in 1..Len(waiting)} = ToSet(waiting)
  BY OrderParts
<1>2. /\ Results(order, text) \in Seq(Blocks)
      /\ \A i \in 1..Len(Results(order, text)) : Results(order, text)[i].type = "tool_result"
  BY <1>1, ResultsTyped
<1>3. /\ content \in Seq(Blocks)
      /\ OfType(content, {"tool_result"}) = Results(order, text)
      /\ OfType(content, {"text", "image"}) = heard
  BY <1>2, TurnSorted DEF Heard
<1>4. turn.content = content /\ turn.role = "user" /\ turn = [role |-> "user", content |-> content]
  BY DEF UserSays
<1>5. turn \in TurnSet
  BY <1>3, <1>4 DEF TurnSet
<1> HIDE DEF content, heard
<1>6. ms \in Seq(MessageSet) /\ MessagesToOpenai(Append(h, turn)) = ms \o Translated(turn)
  BY <1>5, MessagesAppend
<1>7. Translated(turn) = tools \o users
  BY <1>4 DEF Translated
<1>8. tools \in Seq(MessageSet) /\ users \in Seq(MessageSet)
  BY <1>3, ToolEntriesParts, UserEntriesParts
<1> HIDE DEF ms
<1>9. /\ Len(tools) = Len(order)
      /\ \A i \in 1..Len(order) : /\ tools[i].role = "tool"
                                  /\ tools[i].id = order[i]
                                  /\ tools[i].calls = <<>>
      /\ \A i \in 1..Len(users) : users[i].calls = <<>>
      /\ Told(ms \o (tools \o users))
            = (Told(ms) \o ResultItems(order, text)) \o HeardItems(heard)
  BY <1>1, <1>3, <1>6, UserTurnTells
<1> HIDE DEF tools, users
<1>10. {tools[j].id : j \in 1..Len(tools)} = ToSet(waiting)
  <2>1. {tools[j].id : j \in 1..Len(waiting)} = {order[j] : j \in 1..Len(waiting)}
    BY <1>1, <1>9
  <2>2. QED
    BY <1>1, <1>9, <2>1
<1>11. Settled(ms \o (tools \o users), <<>>)
  <2>1. /\ Settled(ms, waiting) /\ Len(tools) = Len(waiting)
        /\ \A j \in 1..Len(tools) : tools[j].role = "tool" /\ tools[j].calls = <<>>
    BY <1>1, <1>9 DEF ms
  <2>2. QED
    BY <1>6, <1>8, <1>9, <1>10, <2>1, SettledByTurn
<1>12. QED
  BY <1>5, <1>6, <1>7, <1>9, <1>11 DEF ms, heard

\* The turn of an assistant who says `text` and calls for `ids`.
LEMMA ReplySettles ==
  ASSUME NEW h \in Seq(TurnSet), Settled(MessagesToOpenai(h), <<>>),
         NEW text \in Values, NEW ids \in Seq(Nat),
         NEW turn, turn = [role |-> "assistant", content |-> ResponseToAnthropic(text, ids)]
  PROVE  /\ turn \in TurnSet
         /\ Settled(MessagesToOpenai(Append(h, turn)), ids)
         /\ Told(MessagesToOpenai(Append(h, turn)))
               = (Told(MessagesToOpenai(h)) \o TextItems(text)) \o CallItems(ids)
<1> DEFINE ms == MessagesToOpenai(h)
           content == ResponseToAnthropic(text, ids)
           m == AssistantEntry(content)
<1>1. content \in Seq(Blocks)
  BY ReplySorted
<1>2. turn \in TurnSet /\ turn.content = content /\ turn.role = "assistant"
  BY <1>1 DEF TurnSet
<1> HIDE DEF content
<1>3. ms \in Seq(MessageSet) /\ MessagesToOpenai(Append(h, turn)) = ms \o Translated(turn)
  BY <1>2, MessagesAppend
<1>4. Translated(turn) = <<m>>
  BY <1>2 DEF Translated
<1> HIDE DEF ms
<1>5. /\ m \in MessageSet /\ m.calls = ids
      /\ Told(Append(ms, m)) = (Told(ms) \o TextItems(text)) \o CallItems(ids)
  <2>1. ms \in Seq(MessageSet) /\ m = AssistantEntry(ResponseToAnthropic(text, ids))
    BY <1>3 DEF content
  <2> HIDE DEF m
  <2>2. QED
    BY <2>1, ReplyTells
<1> HIDE DEF m
<1>6. ms \o <<m>> = Append(ms, m)
  <2>1. ms \in Seq(MessageSet) /\ m \in MessageSet
    BY <1>3, <1>5
  <2>2. QED
    BY <2>1, ConcatParts
<1>7. Settled(Append(ms, m), ids)
  BY <1>3, <1>5, SettledByReply DEF ms
<1>8. QED
  BY <1>2, <1>3, <1>4, <1>5, <1>6, <1>7 DEF ms

\* What is said and replied has the types of a conversation.
LEMMA SaidTyped ==
  /\ UserContents \subseteq Seq(SaidBlocks)
  /\ Texts \subseteq Values
<1> DEFINE B == [type : {"text", "image", "other"}, id : {0}, value : STRING]
<1>1. B \subseteq SaidBlocks
  <2>1. {"text", "image", "other"} \subseteq Types /\ STRING \subseteq Values /\ 0 \in Nat
    BY DEF Types, Values
  <2>2. ASSUME NEW b \in B PROVE b \in SaidBlocks
    BY <2>1 DEF SaidBlocks, Blocks
  <2>3. QED
    BY <2>2
<1>2. ASSUME NEW said \in UserContents PROVE said \in Seq(SaidBlocks)
  <2>1. said \in Seq(B)
    BY DialectsAssumption
  <2> HIDE DEF B
  <2>2. QED
    BY <1>1, <2>1
<1>3. Texts \subseteq Values
  BY DialectsAssumption DEF Values
<1>4. QED
  BY <1>2, <1>3

LEMMA LastAppended ==
  ASSUME NEW S, NEW s \in Seq(S), NEW x \in S
  PROVE  Append(s, x) \in Seq(S) /\ Append(s, x) # <<>> /\ Last(Append(s, x)) = x
  BY AppendParts DEF Last

LEMMA UserTurnKeeps ==
  DialectsInv /\ UserTurn => DialectsInv'
<1> SUFFICES ASSUME DialectsInv, UserTurn PROVE DialectsInv'
  OBVIOUS
<1>1. PICK said \in UserContents, order \in SetToSeqs(ToSet(pending)), text \in Texts :
        \E k \in 0..Len(said) :
          /\ history' = Append(history, UserSays(said, k, order, text))
          /\ lived' = (lived \o ResultItems(order, text)) \o HeardItems(Heard(said))
  BY DEF UserTurn, UserSays, Turned, Results, ResultItems, HeardItems, Heard
<1>2. PICK k \in 0..Len(said) :
          /\ history' = Append(history, UserSays(said, k, order, text))
          /\ lived' = (lived \o ResultItems(order, text)) \o HeardItems(Heard(said))
  BY <1>1
<1> DEFINE turn == UserSays(said, k, order, text)
<1>3. said \in Seq(SaidBlocks) /\ text \in Values
  BY SaidTyped
<1>4. /\ history \in Seq(TurnSet) /\ calls \in Nat /\ pending \in Seq(Nat)
      /\ Distinct(pending)
      /\ Told(MessagesToOpenai(history)) = lived
      /\ Settled(MessagesToOpenai(history), pending)
  BY DEF DialectsInv, HistoryInv
<1>5. /\ turn \in TurnSet
      /\ Settled(MessagesToOpenai(Append(history, turn)), <<>>)
      /\ Told(MessagesToOpenai(Append(history, turn)))
            = (Told(MessagesToOpenai(history)) \o ResultItems(order, text))
                 \o HeardItems(Heard(said))
  <2>1. turn = UserSays(said, k, order, text)
    OBVIOUS
  <2> HIDE DEF turn
  <2>2. QED
    BY <1>3, <1>4, <2>1, TurnSettles, ZenonT(40)
<1>6. history' = Append(history, turn)
  BY <1>2
<1> HIDE DEF turn
<1>7. history' \in Seq(TurnSet)
  BY <1>4, <1>5, <1>6, LastAppended
<1>8. calls' = calls /\ pending' = <<>> /\ body' = NoBody
  BY DEF UserTurn
<1>9. <<>> \in Seq(Nat) /\ Distinct(<<>>)
  BY DEF Distinct
<1>10. Told(MessagesToOpenai(history')) = lived' /\ Settled(MessagesToOpenai(history'), pending')
  BY <1>2, <1>4, <1>5, <1>6, <1>8
<1>11. HistoryInv'
  BY <1>4, <1>7, <1>8, <1>9, <1>10 DEF HistoryInv
<1>12. BodyInv' /\ SettingsReachUpstream'
  BY <1>8 DEF BodyInv, SettingsReachUpstream
<1>13. QED
  BY <1>11, <1>12 DEF DialectsInv

LEMMA RequestParts ==
  ASSUME NEW dialect, NEW asked, NEW upstream
  PROVE  /\ Request(dialect, asked, upstream).dialect = dialect
         /\ Request(dialect, asked, upstream).asked = asked
         /\ Request(dialect, asked, upstream).upstream = upstream
  BY DEF Request

LEMMA MessagesKeeps ==
  DialectsInv /\ Messages => DialectsInv'
<1> SUFFICES ASSUME DialectsInv, Messages PROVE DialectsInv'
  OBVIOUS
<1>1. PICK req \in Settings \cup {NoControls}, shape \in Shapes :
        body' = Request("anthropic", req,
                        BuildUpstreamBody(MessagesToOpenai(history),
                                          RequestToOpenai(req), shape[1], shape[2]))
  BY DEF Messages
<1> DEFINE ms == MessagesToOpenai(history)
           payload == RequestToOpenai(req)
           sent == BuildUpstreamBody(ms, payload, shape[1], shape[2])
<1>2. req \in [Controls -> STRING]
  BY DialectsAssumption
<1>3. /\ body'.dialect = "anthropic" /\ body'.asked = req /\ body'.upstream = sent
  BY <1>1, RequestParts
<1> HIDE DEF ms, payload
<1>4. payload = Payload("anthropic", req)
  BY DEF payload, Payload
<1>5. sent.messages = ms /\ Honoured("anthropic", req, sent)
  BY <1>2, <1>4, SettingsSent
<1> HIDE DEF sent
<1>6. history' = history /\ lived' = lived /\ pending' = pending /\ calls' = calls
  BY DEF Messages
<1>7. HistoryInv'
  BY <1>6 DEF DialectsInv, HistoryInv
<1>8. history # <<>> /\ Last(history).role = "user"
  <2>1. history # <<>> /\ Last(history).role # "assistant" /\ history \in Seq(TurnSet)
    BY DEF Messages, ClientsTurn, DialectsInv, HistoryInv
  <2>2. Last(history) \in TurnSet
    BY <2>1 DEF Last
  <2>3. QED
    BY <2>1, <2>2 DEF TurnSet
<1>9. BodyInv'
  BY <1>3, <1>5, <1>6, <1>8 DEF BodyInv, ms
<1>10. SettingsReachUpstream'
  BY <1>3, <1>5 DEF SettingsReachUpstream, Honoured
<1>11. QED
  BY <1>7, <1>9, <1>10 DEF DialectsInv

LEMMA ChatCompletionsKeeps ==
  DialectsInv /\ ChatCompletions => DialectsInv'
<1> SUFFICES ASSUME DialectsInv, ChatCompletions PROVE DialectsInv'
  OBVIOUS
<1>1. PICK req \in Settings, shape \in Shapes :
        body' = Request("openai", req, BuildUpstreamBody(<<>>, req, shape[1], shape[2]))
  BY DEF ChatCompletions
<1> DEFINE sent == BuildUpstreamBody(<<>>, req, shape[1], shape[2])
<1>2. req \in [Controls -> STRING]
  BY DialectsAssumption
<1>3. /\ body'.dialect = "openai" /\ body'.asked = req /\ body'.upstream = sent
  BY <1>1, RequestParts
<1>4. sent.messages = <<>> /\ Honoured("openai", req, sent)
  <2>1. req = Payload("openai", req)
    BY DEF Payload
  <2>2. QED
    BY <1>2, <2>1, SettingsSent
<1> HIDE DEF sent
<1>5. /\ history = <<>> /\ history' = history /\ lived' = lived
      /\ pending' = pending /\ calls' = calls
  BY DEF ChatCompletions
<1>6. HistoryInv'
  BY <1>5 DEF DialectsInv, HistoryInv
<1>7. BodyInv'
  BY <1>3, <1>4, <1>5 DEF BodyInv
<1>8. SettingsReachUpstream'
  BY <1>3, <1>4 DEF SettingsReachUpstream, Honoured
<1>9. QED
  BY <1>6, <1>7, <1>8 DEF DialectsInv

LEMMA ReplyKeeps ==
  DialectsInv /\ Reply => DialectsInv'
<1> SUFFICES ASSUME DialectsInv, Reply PROVE DialectsInv'
  OBVIOUS
<1>1. body # NoBody /\ body' = NoBody
  BY DEF Reply
<1>2. BodyInv' /\ SettingsReachUpstream'
  BY <1>1 DEF BodyInv, SettingsReachUpstream
<1>3. CASE UNCHANGED <<history, lived, pending, calls>>
  BY <1>2, <1>3 DEF DialectsInv, HistoryInv
<1>4. CASE body.dialect # "openai" /\ ~UNCHANGED <<history, lived, pending, calls>>
  <2>1. PICK text \in Texts, n \in 0..MaxCalls :
          LET ids == [i \in 1..n |-> calls + i]
          IN  /\ history' = Append(history, [role |-> "assistant",
                                             content |-> ResponseToAnthropic(text, ids)])
              /\ lived' = (lived \o TextItems(text))
                             \o [i \in 1..n |-> Item("call", ids[i], "")]
              /\ pending' = ids
              /\ calls' = calls + n
    BY <1>4 DEF Reply, TextItems
  <2> DEFINE ids == [i \in 1..n |-> calls + i]
             turn == [role |-> "assistant", content |-> ResponseToAnthropic(text, ids)]
  <2>2. /\ history \in Seq(TurnSet) /\ calls \in Nat
        /\ pending # <<>> => Last(history).role = "assistant"
        /\ Told(MessagesToOpenai(history)) = lived
        /\ Settled(MessagesToOpenai(history), pending)
    BY DEF DialectsInv, HistoryInv
  <2>3. n \in Nat /\ text \in Values
    BY DialectsAssumption, SaidTyped
  <2>4. ids \in Seq(Nat) /\ DOMAIN ids = 1..n /\ Distinct(ids)
    <3>1. \A i \in 1..n : calls + i \in Nat
      BY <2>2, <2>3
    <3>2. ids \in [1..n -> Nat]
      BY <3>1
    <3>3. \A i, j \in 1..n : ids[i] = ids[j] => i = j
      BY <2>2, <2>3
    <3> HIDE DEF ids
    <3>4. ids \in Seq(Nat) /\ DOMAIN ids = 1..n
      BY <2>3, <3>2
    <3>5. QED
      BY <3>3, <3>4 DEF Distinct
  <2>5. /\ history' = Append(history, turn)
        /\ lived' = (lived \o TextItems(text)) \o CallItems(ids)
        /\ pending' = ids /\ calls' = calls + n
    BY <2>1 DEF CallItems
  <2>6. pending = <<>>
    <3>1. Last(history).role = "user"
      BY <1>1, <1>4 DEF DialectsInv, BodyInv
    <3>2. QED
      BY <2>2, <3>1
  <2> HIDE DEF ids
  <2>7. /\ turn \in TurnSet
        /\ Settled(MessagesToOpenai(Append(history, turn)), ids)
        /\ Told(MessagesToOpenai(Append(history, turn)))
              = (Told(MessagesToOpenai(history)) \o TextItems(text)) \o CallItems(ids)
    BY <2>2, <2>3, <2>4, <2>6, ReplySettles
  <2>8. turn.role = "assistant"
    OBVIOUS
  <2> HIDE DEF turn
  <2>9. history' \in Seq(TurnSet) /\ history' # <<>> /\ Last(history') = turn
    BY <2>2, <2>5, <2>7, LastAppended
  <2>10. calls' \in Nat
    BY <2>2, <2>3, <2>5
  <2>11. Told(MessagesToOpenai(history')) = lived' /\ Settled(MessagesToOpenai(history'), pending')
    BY <2>2, <2>5, <2>7
  <2>12. HistoryInv'
    BY <2>4, <2>5, <2>8, <2>9, <2>10, <2>11 DEF HistoryInv
  <2>13. QED
    BY <1>2, <2>12 DEF DialectsInv
<1>5. QED
  BY <1>3, <1>4 DEF Reply

LEMMA InitHolds ==
  Init => DialectsInv
<1> SUFFICES ASSUME Init PROVE DialectsInv
  OBVIOUS
<1>1. /\ history = <<>> /\ lived = <<>> /\ pending = <<>> /\ calls = 0 /\ body = NoBody
  BY DEF Init
<1>2. <<>> \in Seq(TurnSet) /\ <<>> \in Seq(Nat) /\ DOMAIN <<>> = {}
  OBVIOUS
<1>3. Distinct(<<>>) /\ Settled(<<>>, <<>>)
  BY <1>2 DEF Distinct, Settled
<1>4. HistoryInv
  BY <1>1, <1>2, <1>3, NothingTold DEF HistoryInv
<1>5. BodyInv /\ SettingsReachUpstream
  BY <1>1 DEF BodyInv, SettingsReachUpstream
<1>6. QED
  BY <1>4, <1>5 DEF DialectsInv

\* The history tells what happened and leaves no call unanswered, and a body is
\* made of the history as it stands, in every reachable state.
THEOREM DialectsInvariant ==
  Spec => []DialectsInv
<1>1. Init => DialectsInv
  BY InitHolds
<1>2. DialectsInv /\ [Next]_vars => DialectsInv'
  <2> SUFFICES ASSUME DialectsInv, [Next]_vars PROVE DialectsInv'
    OBVIOUS
  <2>1. CASE UserTurn
    BY <2>1, UserTurnKeeps
  <2>2. CASE Messages
    BY <2>2, MessagesKeeps
  <2>3. CASE ChatCompletions
    BY <2>3, ChatCompletionsKeeps
  <2>4. CASE Reply
    BY <2>4, ReplyKeeps
  <2>5. CASE UNCHANGED vars
    BY <2>5 DEF vars, DialectsInv, HistoryInv, BodyInv, SettingsReachUpstream
  <2>6. QED
    BY <2>1, <2>2, <2>3, <2>4, <2>5 DEF Next
<1>3. QED
  BY <1>1, <1>2, PTL DEF Spec

-----------------------------------------------------------------------------
(* The theorems.                                                           *)

\* messages_to_openai never sends a history the upstream refuses: whatever the
\* client put between and around the results of its calls, in every body each
\* message's calls are followed at once by their results, each of them once.
THEOREM CallsAreAnswered ==
  Spec => []ResultsFollowCalls
<1>1. DialectsInv => ResultsFollowCalls
  <2> SUFFICES ASSUME DialectsInv, body # NoBody PROVE ResultsFollowCalls
    BY DEF ResultsFollowCalls
  <2> DEFINE ms == body.upstream.messages
  <2>1. CASE ms = <<>>
    <3>1. DOMAIN ms = {}
      BY <2>1
    <3>2. QED
      BY <3>1 DEF ResultsFollowCalls
  <2>2. CASE ms # <<>>
    <3>1. /\ history # <<>> /\ Last(history).role = "user"
          /\ ms = MessagesToOpenai(history)
      BY <2>2 DEF DialectsInv, BodyInv
    <3>2. pending = <<>> /\ Settled(ms, pending)
      BY <3>1 DEF DialectsInv, HistoryInv
    <3> HIDE DEF ms
    <3>3. \A i \in DOMAIN ms : AnsweredAt(ms, i)
      BY <3>2 DEF Settled
    <3>4. QED
      BY <3>3 DEF AnsweredAt, ResultsFollowCalls, ms
  <2>3. QED
    BY <2>1, <2>2
<1>2. QED
  BY <1>1, DialectsInvariant, PTL

\* messages_to_openai and response_to_anthropic lose, change and reorder nothing
\* between them: a body for an Anthropic client tells the conversation as it
\* happened, every text in its order, every call and every result under its id.
THEOREM NothingIsLost ==
  Spec => []ConversationIntact
<1>1. DialectsInv => ConversationIntact
  <2> SUFFICES ASSUME DialectsInv, body # NoBody, body.dialect = "anthropic"
               PROVE  ConversationIntact
    BY DEF ConversationIntact
  <2>1. body.upstream.messages = MessagesToOpenai(history)
    BY DEF DialectsInv, BodyInv
  <2>2. Told(body.upstream.messages) = lived
    BY <2>1 DEF DialectsInv, HistoryInv
  <2>3. QED
    BY <2>2 DEF ConversationIntact
<1>2. QED
  BY <1>1, DialectsInvariant, PTL

\* request_to_openai and build_upstream_body carry out what a client asked for,
\* in every combination of settings and every shape: thinking that every control
\* of the dialect turns off, or the `reasoning` object, is disabled, and the
\* shape's default is sent where none is set (Anthropic `thinking` is no control:
\* the translator drops it); the limit goes under the shape's own key and is one
\* the client set if it set any; no sampling control of the dialect is dropped.
THEOREM SettingsAreHeard ==
  Spec => []SettingsReachUpstream
<1>1. DialectsInv => SettingsReachUpstream
  BY DEF DialectsInv
<1>2. QED
  BY <1>1, DialectsInvariant, PTL

=============================================================================
