----------------------------- MODULE SequenceLemmas -----------------------------
(***************************************************************************)
(* What filtering and flattening sequences does, for every sequence.       *)
(*                                                                         *)
(* Both are recursive functions.  Induction is over the natural numbers,   *)
(* from their well-ordering: a least counterexample is contradicted.       *)
(***************************************************************************)
EXTENDS Filter, SequencesExt, TLAPS, WellFoundedInduction

\* A set of natural numbers has a least one.
LEMMA Least ==
    ASSUME NEW S \in SUBSET Nat, S # {}
    PROVE  \E m \in S : \A n \in S : m <= n
<1> DEFINE R == {p \in Nat \X Nat : p[1] < p[2]}
<1>1. IsWellFoundedOn(R, Nat)
  BY NatLessThanWellFounded DEF OpToRel
<1>2. PICK m \in S : \A n \in S : <<n, m>> \notin R
  BY <1>1, WFMin
<1>3. ASSUME NEW n \in S PROVE m <= n
  <2>1. <<n, m>> \in Nat \X Nat /\ <<n, m>>[1] = n /\ <<n, m>>[2] = m
    OBVIOUS
  <2>2. ~(n < m)
    BY <1>2, <2>1
  <2> QED
    BY <2>2
<1> QED
  BY <1>3

\* What is true of 0, and of the next number, is true of all up to a bound.
LEMMA Induction ==
    ASSUME NEW N \in Nat, NEW S, 0 \in S, \A n \in 0..(N - 1) : n \in S => n + 1 \in S
    PROVE  \A n \in 0..N : n \in S
<1> DEFINE Bad == {n \in 0..N : n \notin S}
<1> SUFFICES ASSUME Bad # {} PROVE FALSE
  OBVIOUS
<1>1. PICK m \in Bad : \A n \in Bad : m <= n
  <2>1. Bad \in SUBSET Nat
    OBVIOUS
  <2> HIDE DEF Bad
  <2> QED
    BY <2>1, Least
<1>2. m # 0 /\ m - 1 \in 0..(N - 1)
  BY <1>1
<1>3. m - 1 \in S
  BY <1>1, <1>2
<1> QED
  BY <1>1, <1>2, <1>3

----------------------------------------------------------------------------
(* Filtering.                                                              *)

\* What the definition of Filtered says of its function up to n.
Keeps(f, s, S, n) ==
    /\ f = [i \in 0..n |-> f[i]]
    /\ \A i \in 0..n : f[i] = IF i = 0 THEN <<>>
                              ELSE IF s[i] \in S THEN Append(f[i - 1], s[i])
                              ELSE f[i - 1]

LEMMA KeepsStep ==
    ASSUME NEW f, NEW s, NEW S, NEW N \in Nat, Keeps(f, s, S, N)
    PROVE  /\ f[0] = <<>>
           /\ \A n \in 0..(N - 1) : f[n + 1] = IF s[n + 1] \in S THEN Append(f[n], s[n + 1])
                                             ELSE f[n]
<1>1. 0 \in 0..N
  OBVIOUS
<1>2. ASSUME NEW n \in 0..(N - 1)
      PROVE  f[n + 1] = IF s[n + 1] \in S THEN Append(f[n], s[n + 1]) ELSE f[n]
  <2>1. n + 1 \in 0..N /\ n + 1 # 0 /\ (n + 1) - 1 = n
    OBVIOUS
  <2>2. f[n + 1] = IF n + 1 = 0 THEN <<>>
                   ELSE IF s[n + 1] \in S THEN Append(f[(n + 1) - 1], s[n + 1])
                   ELSE f[(n + 1) - 1]
    BY <2>1, Zenon DEF Keeps
  <2> QED
    BY <2>1, <2>2, Zenon
<1>3. f[0] = <<>>
  BY <1>1, Zenon DEF Keeps
<1> QED
  BY <1>2, <1>3

LEMMA KeepsExists ==
    ASSUME NEW X, NEW s \in Seq(X), NEW S
    PROVE  \E f : Keeps(f, s, S, Len(s))
<1> DEFINE Good == {n \in Nat : \E f : Keeps(f, s, S, n)}
<1>1. 0 \in Good
  <2>1. Keeps([i \in 0..0 |-> <<>>], s, S, 0)
    BY DEF Keeps
  <2> QED
    BY <2>1
<1>2. ASSUME NEW n \in Nat, n \in Good
      PROVE  n + 1 \in Good
  <2>1. PICK f : Keeps(f, s, S, n)
    BY <1>2
  <2> DEFINE last == IF s[n + 1] \in S THEN Append(f[n], s[n + 1]) ELSE f[n]
             g == [i \in 0..(n + 1) |-> IF i = n + 1 THEN last ELSE f[i]]
  <2>2. \A i \in 0..n : g[i] = f[i]
    OBVIOUS
  <2>3. \A i \in 0..(n + 1) :
          g[i] = IF i = 0 THEN <<>>
                 ELSE IF s[i] \in S THEN Append(g[i - 1], s[i]) ELSE g[i - 1]
    <3> TAKE i \in 0..(n + 1)
    <3>1. CASE i = n + 1
      <4>1. g[i] = last /\ g[i - 1] = f[n]
        BY <3>1, <2>2
      <4> QED
        BY <3>1, <4>1
    <3>2. CASE i \in 0..n
      <4>1. i # 0 => g[i - 1] = f[i - 1]
        BY <3>2, <2>2
      <4> HIDE DEF g
      <4> QED
        BY <2>1, <3>2, <2>2, <4>1 DEF Keeps
    <3> QED
      BY <3>1, <3>2
  <2>4. Keeps(g, s, S, n + 1)
    <3>1. g = [i \in 0..(n + 1) |-> g[i]]
      OBVIOUS
    <3> HIDE DEF g
    <3> QED
      BY <2>3, <3>1, Zenon DEF Keeps
  <2> QED
    BY <2>4
<1>3. \A n \in 0..Len(s) : n \in Good
  <2> HIDE DEF Good
  <2> QED
    BY <1>1, <1>2, Induction
<1> QED
  BY <1>3

LEMMA FilteredKeeps ==
    ASSUME NEW X, NEW s \in Seq(X), NEW S
    PROVE  \E f : Keeps(f, s, S, Len(s)) /\ Filtered(s, S) = f[Len(s)]
<1> DEFINE Body(f) == [i \in 0..Len(s) |-> IF i = 0 THEN <<>>
                                          ELSE IF s[i] \in S THEN Append(f[i - 1], s[i])
                                          ELSE f[i - 1]]
           h == CHOOSE f : f = Body(f)
<1>1. PICK g : Keeps(g, s, S, Len(s))
  BY KeepsExists
<1>2. g = Body(g)
  BY <1>1, Zenon DEF Keeps
<1>3. h = Body(h)
  <2> HIDE DEF Body
  <2> QED
    BY <1>2
<1>4. Keeps(h, s, S, Len(s))
  <2> HIDE DEF h
  <2>1. \A i \in 0..Len(s) : Body(h)[i] = IF i = 0 THEN <<>>
                                        ELSE IF s[i] \in S THEN Append(h[i - 1], s[i])
                                        ELSE h[i - 1]
    OBVIOUS
  <2>2. Body(h) = [i \in 0..Len(s) |-> Body(h)[i]]
    OBVIOUS
  <2> HIDE DEF Body
  <2> QED
    BY <1>3, <2>1, <2>2 DEF Keeps
<1>5. Filtered(s, S) = h[Len(s)]
  BY DEF Filtered
<1> HIDE DEF h
<1> QED
  BY <1>4, <1>5

\* t is made of the elements of s at the places in increasing order that e gives.
Chosen(e, s, t, n) ==
    /\ e \in [1..Len(t) -> 1..n]
    /\ \A k \in 1..Len(t) : t[k] = s[e[k]]
    /\ \A k, l \in 1..Len(t) : k < l => e[k] < e[l]

\* What is kept is what is in S, each element once, in the order of s.
LEMMA FilteredChooses ==
    ASSUME NEW X, NEW s \in Seq(X), NEW S
    PROVE  /\ Filtered(s, S) \in Seq(X)
           /\ \E e : /\ Chosen(e, s, Filtered(s, S), Len(s))
                    /\ \A i \in 1..Len(s) :
                         s[i] \in S <=> \E k \in 1..Len(Filtered(s, S)) : e[k] = i
<1>1. PICK f : Keeps(f, s, S, Len(s)) /\ Filtered(s, S) = f[Len(s)]
  BY FilteredKeeps
<1> DEFINE Right(n) == /\ f[n] \in Seq(X)
                       /\ \E e : /\ Chosen(e, s, f[n], n)
                                /\ \A i \in 1..n :
                                     s[i] \in S <=> \E k \in 1..Len(f[n]) : e[k] = i
           Good == {n \in 0..Len(s) : Right(n)}
<1>2. 0 \in Good
  <2>1. f[0] = <<>>
    BY <1>1, KeepsStep
  <2>2. Chosen(<<>>, s, f[0], 0)
    BY <2>1 DEF Chosen
  <2>3. f[0] \in Seq(X)
    BY <2>1
  <2> QED
    BY <2>2, <2>3
<1>3. ASSUME NEW n \in 0..(Len(s) - 1), n \in Good
      PROVE  n + 1 \in Good
  <2>1. PICK e : /\ Chosen(e, s, f[n], n)
                 /\ \A i \in 1..n : s[i] \in S <=> \E k \in 1..Len(f[n]) : e[k] = i
    BY <1>3
  <2>2. f[n] \in Seq(X) /\ n + 1 \in 0..Len(s) /\ n + 1 \in 1..Len(s) /\ s[n + 1] \in X
    BY <1>3
  <2>3. f[n + 1] = IF s[n + 1] \in S THEN Append(f[n], s[n + 1]) ELSE f[n]
    <3>1. Len(s) \in Nat
      OBVIOUS
    <3> QED
      BY <1>1, <3>1, KeepsStep
  <2>4. CASE s[n + 1] \in S
    <3> DEFINE d == [k \in 1..(Len(f[n]) + 1) |-> IF k = Len(f[n]) + 1 THEN n + 1 ELSE e[k]]
    <3>1. f[n + 1] \in Seq(X) /\ Len(f[n + 1]) = Len(f[n]) + 1
      BY <2>2, <2>3, <2>4
    <3>2. \A k \in 1..Len(f[n + 1]) : f[n + 1][k] = IF k = Len(f[n]) + 1 THEN s[n + 1] ELSE f[n][k]
      BY <2>2, <2>3, <2>4
    <3>3. \A k \in 1..Len(f[n + 1]) : d[k] = IF k = Len(f[n]) + 1 THEN n + 1 ELSE e[k]
      BY <3>1
    <3>4. \A k \in 1..Len(f[n]) : e[k] \in 1..n
      BY <2>1 DEF Chosen
    <3>5. d \in [1..Len(f[n + 1]) -> 1..(n + 1)]
      BY <2>2, <3>1, <3>4
    <3> HIDE DEF d
    <3>6. \A k \in 1..Len(f[n + 1]) : f[n + 1][k] = s[d[k]]
      BY <2>1, <2>2, <3>1, <3>2, <3>3 DEF Chosen
    <3>7. \A k, l \in 1..Len(f[n + 1]) : k < l => d[k] < d[l]
      BY <2>1, <2>2, <3>1, <3>3, <3>4 DEF Chosen
    <3>8. Chosen(d, s, f[n + 1], n + 1)
      BY <3>5, <3>6, <3>7 DEF Chosen
    <3>9. \A i \in 1..(n + 1) : s[i] \in S <=> \E k \in 1..Len(f[n + 1]) : d[k] = i
      <4> TAKE i \in 1..(n + 1)
      <4>1. CASE i = n + 1
        BY <2>2, <2>4, <3>1, <3>3, <4>1
      <4>2. CASE i \in 1..n
        <5>1. \A k \in 1..Len(f[n]) : d[k] = e[k]
          BY <2>2, <3>1, <3>3
        <5>2. \A k \in 1..Len(f[n + 1]) : k \in 1..Len(f[n]) \/ d[k] = n + 1
          BY <2>2, <3>1, <3>3
        <5>3. (\E k \in 1..Len(f[n + 1]) : d[k] = i) <=> (\E k \in 1..Len(f[n]) : e[k] = i)
          BY <2>2, <3>1, <4>2, <5>1, <5>2, SMTT(30)
        <5> QED
          BY <2>1, <4>2, <5>3
      <4> QED
        BY <4>1, <4>2
    <3> QED
      BY <2>2, <3>1, <3>8, <3>9
  <2>5. CASE s[n + 1] \notin S
    <3>1. f[n + 1] = f[n]
      BY <2>3, <2>5
    <3>2. Chosen(e, s, f[n + 1], n + 1)
      BY <2>1, <2>2, <3>1 DEF Chosen
    <3>3. \A i \in 1..(n + 1) : s[i] \in S <=> \E k \in 1..Len(f[n + 1]) : e[k] = i
      <4> TAKE i \in 1..(n + 1)
      <4>1. CASE i = n + 1
        <5>1. \A k \in 1..Len(f[n]) : e[k] \in 1..n
          BY <2>1 DEF Chosen
        <5> QED
          BY <2>2, <2>5, <3>1, <4>1, <5>1
      <4>2. CASE i \in 1..n
        BY <2>1, <3>1, <4>2
      <4> QED
        BY <4>1, <4>2
    <3> QED
      BY <2>2, <3>1, <3>2, <3>3
  <2> QED
    BY <2>4, <2>5
<1>4. \A n \in 0..Len(s) : n \in Good
  <2> HIDE DEF Good
  <2> QED
    BY <1>2, <1>3, Induction
<1>5. Right(Len(s))
  BY <1>4
<1> QED
  BY <1>1, <1>5

\* The elements that are kept.
LEMMA FilteredElements ==
    ASSUME NEW X, NEW s \in Seq(X), NEW S
    PROVE  /\ Filtered(s, S) \in Seq(X)
           /\ \A k \in 1..Len(Filtered(s, S)) :
                 Filtered(s, S)[k] \in S /\ \E i \in 1..Len(s) : s[i] = Filtered(s, S)[k]
           /\ \A i \in 1..Len(s) :
                 s[i] \in S => \E k \in 1..Len(Filtered(s, S)) : Filtered(s, S)[k] = s[i]
<1>1. PICK e : /\ Chosen(e, s, Filtered(s, S), Len(s))
               /\ \A i \in 1..Len(s) :
                     s[i] \in S <=> \E k \in 1..Len(Filtered(s, S)) : e[k] = i
  BY FilteredChooses
<1> QED
  BY <1>1, FilteredChooses, SMTT(30) DEF Chosen

\* Filtering a sequence that has grown.
LEMMA FilteredAppend ==
    ASSUME NEW X, NEW s \in Seq(X), NEW x \in X, NEW S
    PROVE  Filtered(Append(s, x), S) = IF x \in S THEN Append(Filtered(s, S), x)
                                       ELSE Filtered(s, S)
<1> DEFINE t == Append(s, x)
<1>1. /\ t \in Seq(X) /\ Len(t) = Len(s) + 1 /\ t[Len(s) + 1] = x /\ Len(s) \in Nat
      /\ \A i \in 1..Len(s) : t[i] = s[i]
  OBVIOUS
<1> HIDE DEF t
<1>2. PICK f : Keeps(f, s, S, Len(s)) /\ Filtered(s, S) = f[Len(s)]
  BY FilteredKeeps
<1>3. PICK g : Keeps(g, t, S, Len(t)) /\ Filtered(t, S) = g[Len(t)]
  BY <1>1, FilteredKeeps
<1> DEFINE Good == {n \in Nat : f[n] = g[n]}
<1>4. 0 \in Good
  BY <1>1, <1>2, <1>3, KeepsStep
<1>5. ASSUME NEW n \in 0..(Len(s) - 1), n \in Good
      PROVE  n + 1 \in Good
  <2>1. /\ n + 1 \in 1..Len(s) /\ t[n + 1] = s[n + 1] /\ f[n] = g[n]
        /\ Len(t) \in Nat /\ n \in 0..(Len(t) - 1)
    BY <1>1, <1>5
  <2>2. f[n + 1] = IF s[n + 1] \in S THEN Append(f[n], s[n + 1]) ELSE f[n]
    BY <1>1, <1>2, KeepsStep
  <2>3. g[n + 1] = IF t[n + 1] \in S THEN Append(g[n], t[n + 1]) ELSE g[n]
    BY <1>3, <2>1, KeepsStep
  <2>4. f[n + 1] = g[n + 1]
    BY <2>1, <2>2, <2>3
  <2> QED
    BY <2>4
<1>6. \A n \in 0..Len(s) : n \in Good
  <2> HIDE DEF Good
  <2> QED
    BY <1>1, <1>4, <1>5, Induction
<1>7. f[Len(s)] = g[Len(s)]
  BY <1>1, <1>6
<1>8. g[Len(t)] = IF x \in S THEN Append(g[Len(s)], x) ELSE g[Len(s)]
  <2>1. Len(t) \in Nat /\ Len(s) \in 0..(Len(t) - 1)
    BY <1>1
  <2> QED
    BY <1>1, <1>3, <2>1, KeepsStep
<1> QED
  BY <1>2, <1>3, <1>7, <1>8 DEF t

----------------------------------------------------------------------------
(* Flattening.                                                             *)

\* Concatenation, under a name that is expanded only where it matters what it does.
Joined(s, t) == s \o t

\* f[n] is what the first n sequences of ss come to, one after the other.
Sums(f, ss) ==
    /\ f[0] = <<>>
    /\ \A n \in 0..(Len(ss) - 1) : f[n + 1] = Joined(f[n], ss[n + 1])

LEMMA SumsExist ==
    ASSUME NEW ss, Len(ss) \in Nat
    PROVE  \E f : Sums(f, ss)
<1> DEFINE Partly(f, n) == f[0] = <<>> /\ \A i \in 0..(n - 1) : f[i + 1] = Joined(f[i], ss[i + 1])
           Good == {n \in Nat : \E f : Partly(f, n)}
<1>1. 0 \in Good
  <2>1. Partly([i \in 0..0 |-> <<>>], 0)
    OBVIOUS
  <2> QED
    BY <2>1
<1>2. ASSUME NEW n \in Nat, n \in Good
      PROVE  n + 1 \in Good
  <2>1. PICK f : Partly(f, n)
    BY <1>2
  <2> DEFINE g == [i \in 0..(n + 1) |-> IF i = n + 1 THEN Joined(f[n], ss[n + 1]) ELSE f[i]]
  <2>2. /\ \A i \in 0..n : g[i] = f[i]
        /\ g[n + 1] = Joined(f[n], ss[n + 1])
    OBVIOUS
  <2> HIDE DEF g
  <2>3. ASSUME NEW i \in 0..n
        PROVE  g[i + 1] = Joined(g[i], ss[i + 1])
    <3>1. CASE i = n
      BY <2>2, <3>1
    <3>2. CASE i \in 0..(n - 1)
      BY <2>1, <2>2, <3>2
    <3> QED
      BY <3>1, <3>2
  <2>4. Partly(g, n + 1)
    BY <2>1, <2>2, <2>3
  <2> QED
    BY <2>4
<1> HIDE DEF Good
<1>3. \A n \in 0..Len(ss) : n \in Good
  BY <1>1, <1>2, Induction, SMTT(30)
<1>4. \E f : Partly(f, Len(ss))
  <2>1. Len(ss) \in Good
    BY <1>3
  <2> HIDE DEF Partly
  <2> QED
    BY <2>1 DEF Good
<1> QED
  BY <1>4 DEF Sums

LEMMA SumsTyped ==
    ASSUME NEW X, NEW ss, Len(ss) \in Nat, \A i \in 1..Len(ss) : ss[i] \in Seq(X),
           NEW f, Sums(f, ss)
    PROVE  \A n \in 0..Len(ss) : f[n] \in Seq(X)
<1> DEFINE Good == {n \in Nat : f[n] \in Seq(X)}
<1>1. 0 \in Good
  <2>1. f[0] = <<>>
    BY DEF Sums
  <2>2. <<>> \in Seq(X)
    OBVIOUS
  <2>3. f[0] \in Seq(X)
    BY <2>1, <2>2, Zenon
  <2> QED
    BY <2>3
<1>2. ASSUME NEW n \in 0..(Len(ss) - 1), n \in Good
      PROVE  n + 1 \in Good
  <2>1. ss[n + 1] \in Seq(X) /\ f[n] \in Seq(X)
    BY <1>2
  <2>2. f[n + 1] = Joined(f[n], ss[n + 1])
    BY DEF Sums
  <2>3. Joined(f[n], ss[n + 1]) \in Seq(X)
    BY <2>1 DEF Joined
  <2> QED
    BY <2>2, <2>3
<1> HIDE DEF Good
<1>4. \A n \in 0..Len(ss) : n \in Good
  BY <1>1, <1>2, Induction
<1> QED
  BY <1>4 DEF Good

LEMMA FlattenSums ==
    ASSUME NEW X, NEW ss \in Seq(Seq(X))
    PROVE  /\ Len(ss) \in Nat
           /\ \A i \in 1..Len(ss) : ss[i] \in Seq(X)
           /\ \E f : Sums(f, ss) /\ FlattenSeq(ss) = f[Len(ss)]
<1>0. Len(ss) \in Nat /\ \A i \in 1..Len(ss) : ss[i] \in Seq(X)
  OBVIOUS
<1>1. PICK f : Sums(f, ss)
  BY <1>0, SumsExist
<1>2. CASE Len(ss) = 0
  <2>1. ss = <<>> /\ FlattenSeq(ss) = ss
    BY <1>2 DEF FlattenSeq
  <2> QED
    BY <1>1, <1>2, <2>1 DEF Sums
<1>3. ASSUME Len(ss) # 0
      PROVE  \E g : Sums(g, ss) /\ FlattenSeq(ss) = g[Len(ss)]
  <2> DEFINE Body(g) == [i \in 1..Len(ss) |-> IF i = 1 THEN ss[i] ELSE Joined(g[i - 1], ss[i])]
             h == CHOOSE g : g = Body(g)
             k == [i \in 1..Len(ss) |-> f[i]]
  <2>1. ASSUME NEW i \in 1..Len(ss)
        PROVE  f[i] = IF i = 1 THEN ss[i] ELSE Joined(k[i - 1], ss[i])
    <3>1. i - 1 \in 0..(Len(ss) - 1) /\ (i - 1) + 1 = i /\ ss[i] \in Seq(X)
      BY <1>0
    <3>2. f[(i - 1) + 1] = Joined(f[i - 1], ss[(i - 1) + 1])
      BY <1>1, <3>1, Zenon DEF Sums
    <3>3. i # 1 => k[i - 1] = f[i - 1]
      BY <1>0
    <3>4. i = 1 => Joined(f[i - 1], ss[i]) = ss[i]
      <4>1. f[0] = <<>>
        BY <1>1 DEF Sums
      <4>2. <<>> \o ss[i] = ss[i]
        BY <3>1
      <4>3. i = 1 => i - 1 = 0
        OBVIOUS
      <4> QED
        BY <4>1, <4>2, <4>3, Zenon DEF Joined
    <3> HIDE DEF k
    <3> QED
      BY <3>1, <3>2, <3>3, <3>4
  <2>2. k = Body(k)
    <3>1. Body(k) = [i \in 1..Len(ss) |-> f[i]]
      <4> HIDE DEF k
      <4> QED
        BY <2>1
    <3> QED
      BY <3>1, Zenon
  <2>3. h = Body(h)
    <3> HIDE DEF Body, k
    <3> QED
      BY <2>2
  <2>4. FlattenSeq(ss) = h[Len(ss)]
    BY <1>3 DEF FlattenSeq, Joined
  <2> HIDE DEF h
  <2>5. \A i \in 1..Len(ss) : h[i] = IF i = 1 THEN ss[i] ELSE Joined(h[i - 1], ss[i])
    BY <2>3
  <2> DEFINE g == [i \in 0..Len(ss) |-> IF i = 0 THEN <<>> ELSE h[i]]
  <2>6. Len(ss) \in Nat /\ \A i \in 1..Len(ss) : ss[i] \in Seq(X)
    BY <1>0
  <2>7. g[0] = <<>> /\ \A i \in 1..Len(ss) : g[i] = h[i]
    BY <2>6
  <2> HIDE DEF g, Body
  <2>8. ASSUME NEW n \in 0..(Len(ss) - 1)
        PROVE  g[n + 1] = Joined(g[n], ss[n + 1])
    <3>1. n + 1 \in 1..Len(ss) /\ (n + 1) - 1 = n /\ ss[n + 1] \in Seq(X)
      BY <2>6
    <3>2. CASE n = 0
      <4>1. g[n + 1] = ss[n + 1]
        BY <2>5, <2>7, <3>1, <3>2
      <4>2. <<>> \o ss[n + 1] = ss[n + 1]
        BY <3>1
      <4> QED
        BY <2>7, <3>2, <4>1, <4>2, Zenon DEF Joined
    <3>3. CASE n # 0
      <4>1. n \in 1..Len(ss) /\ n + 1 # 1
        BY <2>6, <3>3
      <4> QED
        BY <2>5, <2>7, <3>1, <4>1
    <3> QED
      BY <3>2, <3>3
  <2>9. Sums(g, ss)
    BY <2>7, <2>8 DEF Sums
  <2>10. FlattenSeq(ss) = g[Len(ss)]
    BY <1>3, <2>4, <2>6, <2>7
  <2> QED
    BY <2>9, <2>10
<1> QED
  BY <1>0, <1>2, <1>3

\* x of the i-th sequence of ss comes before y of the j-th.
InTurn(ss, i, j, x, y) ==
    \E a \in 1..Len(ss[i]), b \in 1..Len(ss[j]) :
       x = ss[i][a] /\ y = ss[j][b] /\ (i < j \/ (i = j /\ a < b))

\* The elements of t are those of the first n sequences of ss, in their order.
Joins(ss, t, n) ==
    /\ \A k \in 1..Len(t) : \E i \in 1..n : \E a \in 1..Len(ss[i]) : t[k] = ss[i][a]
    /\ \A i \in 1..n : \A a \in 1..Len(ss[i]) : \E k \in 1..Len(t) : t[k] = ss[i][a]
    /\ \A k, l \in 1..Len(t) : k < l => \E i, j \in 1..n : InTurn(ss, i, j, t[k], t[l])

\* The elements of what is flattened are those of its parts, in their order.
LEMMA FlattenElements ==
    ASSUME NEW X, NEW ss \in Seq(Seq(X))
    PROVE  FlattenSeq(ss) \in Seq(X) /\ Joins(ss, FlattenSeq(ss), Len(ss))
<1>1. /\ Len(ss) \in Nat
      /\ \A i \in 1..Len(ss) : ss[i] \in Seq(X)
  BY FlattenSums
<1>2. PICK f : Sums(f, ss) /\ FlattenSeq(ss) = f[Len(ss)]
  BY FlattenSums
<1>3. \A n \in 0..Len(ss) : f[n] \in Seq(X)
  BY <1>1, <1>2, SumsTyped
<1> DEFINE From(n) == \A k \in 1..Len(f[n]) :
                         \E i \in 1..n : \E a \in 1..Len(ss[i]) : f[n][k] = ss[i][a]
           All(n)  == \A i \in 1..n : \A a \in 1..Len(ss[i]) :
                         \E k \in 1..Len(f[n]) : f[n][k] = ss[i][a]
           Inorder(n) == \A k, l \in 1..Len(f[n]) :
                           k < l => \E i, j \in 1..n :
                                       \E a \in 1..Len(ss[i]), b \in 1..Len(ss[j]) :
                                          /\ f[n][k] = ss[i][a] /\ f[n][l] = ss[j][b]
                                          /\ i < j \/ (i = j /\ a < b)
           Good == {n \in Nat : From(n) /\ All(n) /\ Inorder(n)}
<1>4. 0 \in Good
  <2>1. f[0] = <<>>
    BY <1>2 DEF Sums
  <2>2. Len(f[0]) = 0
    BY <2>1
  <2>3. From(0) /\ All(0) /\ Inorder(0)
    BY <2>2
  <2> QED
    BY <2>3
<1>5. ASSUME NEW n \in 0..(Len(ss) - 1), n \in Good
      PROVE  n + 1 \in Good
  <2> DEFINE old == f[n]
             end == ss[n + 1]
             new == f[n + 1]
  <2>1. new = Joined(old, end)
    BY <1>2 DEF Sums
  <2>2. old \in Seq(X) /\ end \in Seq(X)
    BY <1>1, <1>3
  <2>3. From(n) /\ All(n) /\ Inorder(n) /\ n \in Nat
    BY <1>5
  <2> HIDE DEF old, end, new
  <2>4. /\ Len(old) \in Nat /\ Len(end) \in Nat /\ Len(new) = Len(old) + Len(end)
        /\ \A k \in 1..Len(old) : new[k] = old[k]
        /\ \A k \in (Len(old) + 1)..(Len(old) + Len(end)) : new[k] = end[k - Len(old)]
    BY <2>1, <2>2 DEF Joined
  <2>5. \A k \in 1..Len(new) : \/ k \in 1..Len(old) /\ new[k] = old[k]
                              \/ /\ k \notin 1..Len(old) /\ k - Len(old) \in 1..Len(end)
                                 /\ new[k] = end[k - Len(old)]
    BY <2>4
  <2>6. ASSUME NEW a \in 1..Len(end)
        PROVE  Len(old) + a \in 1..Len(new) /\ new[Len(old) + a] = end[a]
    <3>1. /\ Len(old) + a \in (Len(old) + 1)..(Len(old) + Len(end))
          /\ (Len(old) + a) - Len(old) = a
          /\ Len(old) + a \in 1..Len(new)
      BY <2>4
    <3> QED
      BY <2>4, <3>1
  <2>7. n + 1 \in 1..(n + 1) /\ \A i \in 1..n : i \in 1..(n + 1) /\ i < n + 1
    BY <2>3
  <2>8. From(n + 1)
    <3> SUFFICES ASSUME NEW k \in 1..Len(new)
                 PROVE  \E i \in 1..(n + 1) : \E a \in 1..Len(ss[i]) : new[k] = ss[i][a]
      BY DEF new
    <3>1. CASE k \in 1..Len(old) /\ new[k] = old[k]
      <4>1. PICK i \in 1..n : \E a \in 1..Len(ss[i]) : old[k] = ss[i][a]
        BY <2>3, <3>1 DEF old
      <4> QED
        BY <2>7, <3>1, <4>1
    <3>2. CASE k - Len(old) \in 1..Len(end) /\ new[k] = end[k - Len(old)]
      BY <2>7, <3>2 DEF end
    <3> QED
      BY <2>5, <3>1, <3>2
  <2>9. All(n + 1)
    <3> SUFFICES ASSUME NEW i \in 1..(n + 1), NEW a \in 1..Len(ss[i])
                 PROVE  \E k \in 1..Len(new) : new[k] = ss[i][a]
      BY DEF new
    <3>1. CASE i = n + 1
      BY <2>6, <3>1 DEF end
    <3>2. CASE i \in 1..n
      <4>1. PICK k \in 1..Len(old) : old[k] = ss[i][a]
        BY <2>3, <3>2 DEF old
      <4> QED
        BY <2>4, <4>1
    <3> QED
      BY <2>3, <3>1, <3>2
  <2>10. Inorder(n + 1)
    <3> SUFFICES ASSUME NEW k \in 1..Len(new), NEW l \in 1..Len(new), k < l
                 PROVE  \E i, j \in 1..(n + 1) :
                           \E a \in 1..Len(ss[i]), b \in 1..Len(ss[j]) :
                              /\ new[k] = ss[i][a] /\ new[l] = ss[j][b]
                              /\ i < j \/ (i = j /\ a < b)
      BY DEF new
    <3>1. CASE l \in 1..Len(old)
      <4>1. k \in 1..Len(old) /\ new[k] = old[k] /\ new[l] = old[l]
        BY <2>4, <3>1
      <4>2. PICK i \in 1..n, j \in 1..n : \E a \in 1..Len(ss[i]), b \in 1..Len(ss[j]) :
                              /\ old[k] = ss[i][a] /\ old[l] = ss[j][b]
                              /\ i < j \/ (i = j /\ a < b)
        BY <2>3, <3>1, <4>1, ZenonT(60) DEF old
      <4> QED
        BY <2>7, <4>1, <4>2
    <3>2. CASE k \in 1..Len(old) /\ l \notin 1..Len(old)
      <4>1. new[k] = old[k] /\ l - Len(old) \in 1..Len(end) /\ new[l] = end[l - Len(old)]
        BY <2>4, <2>5, <3>2
      <4>2. PICK i \in 1..n : \E a \in 1..Len(ss[i]) : old[k] = ss[i][a]
        BY <2>3, <3>2 DEF old
      <4> QED
        BY <2>7, <4>1, <4>2 DEF end
    <3>3. CASE k \notin 1..Len(old)
      <4>1. /\ k - Len(old) \in 1..Len(end) /\ new[k] = end[k - Len(old)]
            /\ l - Len(old) \in 1..Len(end) /\ new[l] = end[l - Len(old)]
            /\ k - Len(old) < l - Len(old)
        BY <2>4, <2>5, <3>3
      <4> QED
        BY <2>7, <4>1 DEF end
    <3> QED
      BY <2>4, <3>1, <3>2, <3>3
  <2> QED
    BY <2>3, <2>8, <2>9, <2>10
<1>6. \A n \in 0..Len(ss) : n \in Good
  <2> HIDE DEF Good
  <2> QED
    BY <1>1, <1>4, <1>5, Induction
<1>7. From(Len(ss)) /\ All(Len(ss)) /\ Inorder(Len(ss))
  <2> HIDE DEF Good
  <2>1. Len(ss) \in Good
    BY <1>1, <1>6
  <2> HIDE DEF From, All, Inorder
  <2> QED
    BY <2>1 DEF Good
<1>8. f[Len(ss)] \in Seq(X)
  BY <1>1, <1>3
<1>9. FlattenSeq(ss) = f[Len(ss)]
  BY <1>2
<1>10. ASSUME NEW k \in 1..Len(f[Len(ss)]), NEW l \in 1..Len(f[Len(ss)]), k < l
       PROVE  \E i, j \in 1..Len(ss) : InTurn(ss, i, j, f[Len(ss)][k], f[Len(ss)][l])
  BY <1>7, <1>10, ZenonT(60) DEF InTurn
<1>11. Joins(ss, f[Len(ss)], Len(ss))
  BY <1>7, <1>10 DEF Joins
<1> QED
  BY <1>8, <1>9, <1>11

\* Flattening sequences to which one was added.
LEMMA FlattenAppend ==
    ASSUME NEW X, NEW ss \in Seq(Seq(X)), NEW t \in Seq(X)
    PROVE  FlattenSeq(Append(ss, t)) = FlattenSeq(ss) \o t
<1> DEFINE tt == Append(ss, t)
<1>1. /\ tt \in Seq(Seq(X)) /\ Len(tt) = Len(ss) + 1 /\ tt[Len(ss) + 1] = t
      /\ \A i \in 1..Len(ss) : tt[i] = ss[i]
  OBVIOUS
<1>2. Len(ss) \in Nat /\ Len(tt) \in Nat
  BY <1>1, FlattenSums
<1> HIDE DEF tt
<1>3. PICK f : Sums(f, ss) /\ FlattenSeq(ss) = f[Len(ss)]
  BY FlattenSums
<1>4. PICK g : Sums(g, tt) /\ FlattenSeq(tt) = g[Len(tt)]
  BY <1>1, FlattenSums
<1> DEFINE Good == {n \in Nat : f[n] = g[n]}
<1>5. 0 \in Good
  BY <1>3, <1>4 DEF Sums
<1>6. ASSUME NEW n \in 0..(Len(ss) - 1), n \in Good
      PROVE  n + 1 \in Good
  <2>1. f[n] = g[n] /\ n \in 0..(Len(tt) - 1) /\ tt[n + 1] = ss[n + 1] /\ n + 1 \in Nat
    BY <1>1, <1>2, <1>6
  <2>2. f[n + 1] = Joined(f[n], ss[n + 1])
    BY <1>3 DEF Sums
  <2>3. g[n + 1] = Joined(g[n], tt[n + 1])
    BY <1>4, <2>1 DEF Sums
  <2>4. f[n + 1] = g[n + 1]
    BY <2>1, <2>2, <2>3, Zenon
  <2> QED
    BY <2>1, <2>4
<1>7. f[Len(ss)] = g[Len(ss)]
  <2> HIDE DEF Good
  <2>1. \A n \in 0..Len(ss) : n \in Good
    BY <1>2, <1>5, <1>6, Induction
  <2>2. Len(ss) \in Good
    BY <1>2, <2>1
  <2> QED
    BY <2>2 DEF Good
<1>8. g[Len(ss) + 1] = Joined(g[Len(ss)], tt[Len(ss) + 1])
  <2>1. Len(ss) \in 0..(Len(tt) - 1)
    BY <1>1, <1>2
  <2> QED
    BY <1>4, <2>1 DEF Sums
<1> QED
  BY <1>1, <1>3, <1>4, <1>7, <1>8, Zenon DEF Joined, tt

----------------------------------------------------------------------------
(* What is before what in a sequence of sequences put end to end.          *)

\* x is somewhere before y.
Before(t, x, y) == \E k, l \in 1..Len(t) : k < l /\ t[k] = x /\ t[l] = y

\* What comes in turn in the parts comes in that order.
LEMMA FlattenInTurn ==
    ASSUME NEW X, NEW ss \in Seq(Seq(X)),
           NEW i \in 1..Len(ss), NEW j \in 1..Len(ss), NEW a \in 1..Len(ss[i]), NEW b \in 1..Len(ss[j]),
           i < j \/ (i = j /\ a < b)
    PROVE  Before(FlattenSeq(ss), ss[i][a], ss[j][b])
<1>1. /\ Len(ss) \in Nat
      /\ \A m \in 1..Len(ss) : ss[m] \in Seq(X)
  BY FlattenSums
<1>2. PICK f : Sums(f, ss) /\ FlattenSeq(ss) = f[Len(ss)]
  BY FlattenSums
<1>3. \A n \in 0..Len(ss) : f[n] \in Seq(X)
  BY <1>1, <1>2, SumsTyped
<1> DEFINE x == ss[i][a]
           y == ss[j][b]
           Has1(n) == \E k \in 1..Len(f[n]) : f[n][k] = x
           Has2(n) == \E k, l \in 1..Len(f[n]) : k < l /\ f[n][k] = x /\ f[n][l] = y
           Good == {n \in Nat : (n >= i => Has1(n)) /\ (n >= j => Has2(n))}
<1>0. i \in Nat /\ j \in Nat /\ i >= 1 /\ j >= i
  BY <1>1
<1>4. 0 \in Good
  BY <1>0
<1>5. ASSUME NEW n \in 0..(Len(ss) - 1), n \in Good
      PROVE  n + 1 \in Good
  <2> DEFINE old == f[n]
             end == ss[n + 1]
             new == f[n + 1]
  <2>1. new = Joined(old, end)
    BY <1>2 DEF Sums
  <2>2. old \in Seq(X) /\ end \in Seq(X) /\ n \in Nat
    BY <1>1, <1>3
  <2>3. (n >= i => Has1(n)) /\ (n >= j => Has2(n))
    BY <1>5
  <2> HIDE DEF old, end, new, x, y
  <2>4. /\ Len(old) \in Nat /\ Len(end) \in Nat /\ Len(new) = Len(old) + Len(end)
        /\ \A k \in 1..Len(old) : k \in 1..Len(new) /\ new[k] = old[k]
        /\ \A k \in 1..Len(end) : Len(old) + k \in 1..Len(new) /\ new[Len(old) + k] = end[k]
    <3>1. /\ Len(old) \in Nat /\ Len(end) \in Nat /\ Len(new) = Len(old) + Len(end)
          /\ \A k \in 1..Len(old) : k \in 1..Len(new) /\ new[k] = old[k]
      BY <2>1, <2>2 DEF Joined
    <3>2. ASSUME NEW k \in 1..Len(end)
          PROVE  Len(old) + k \in 1..Len(new) /\ new[Len(old) + k] = end[k]
      <4>1. /\ Len(old) + k \in 1..(Len(old) + Len(end)) /\ (Len(old) + k) - Len(old) = k
            /\ ~(Len(old) + k <= Len(old))
        BY <3>1
      <4> QED
        BY <2>1, <2>2, <3>1, <4>1 DEF Joined
    <3> QED
      BY <3>1, <3>2
  <2>5. n >= i => \E k \in 1..Len(old) : old[k] = x
    BY <2>3 DEF old
  <2>6. n >= j => \E k, l \in 1..Len(old) : k < l /\ old[k] = x /\ old[l] = y
    BY <2>3 DEF old
  <2>7. n + 1 = i => a \in 1..Len(end) /\ end[a] = x
    BY DEF end, x
  <2>8. n + 1 = j => b \in 1..Len(end) /\ end[b] = y
    BY DEF end, y
  <2>9. n + 1 >= i => \E k \in 1..Len(new) : new[k] = x
    <3>1. CASE n + 1 = i
      BY <2>4, <2>7, <3>1
    <3>2. CASE n >= i
      BY <2>4, <2>5, <3>2
    <3> QED
      BY <1>0, <2>2, <3>1, <3>2
  <2>10. n + 1 >= j => \E k, l \in 1..Len(new) : k < l /\ new[k] = x /\ new[l] = y
    <3>1. CASE n >= j
      BY <2>4, <2>6, <3>1
    <3>2. CASE n + 1 = j /\ i < j
      <4>1. PICK k \in 1..Len(old) : old[k] = x
        BY <1>0, <2>2, <2>5, <3>2
      <4>2. b \in 1..Len(end) /\ end[b] = y
        BY <2>8, <3>2
      <4>3. k < Len(old) + b
        BY <2>4, <4>1, <4>2
      <4>4. k \in 1..Len(new) /\ Len(old) + b \in 1..Len(new) /\ new[k] = x /\ new[Len(old) + b] = y
        BY <2>4, <4>1, <4>2
      <4> QED
        BY <4>3, <4>4
    <3>3. CASE n + 1 = j /\ i = j /\ a < b
      <4>1. a \in 1..Len(end) /\ b \in 1..Len(end) /\ end[a] = x /\ end[b] = y
        BY <2>7, <2>8, <3>3
      <4>2. Len(old) + a < Len(old) + b
        BY <2>4, <3>3, <4>1
      <4> QED
        BY <2>4, <4>1, <4>2
    <3> QED
      BY <1>0, <2>2, <3>1, <3>2, <3>3
  <2> QED
    BY <2>2, <2>9, <2>10 DEF new
<1>6. \A n \in 0..Len(ss) : n \in Good
  <2> HIDE DEF Good
  <2> QED
    BY <1>1, <1>4, <1>5, Induction
<1>7. Len(ss) \in Good /\ Len(ss) >= j
  <2> HIDE DEF Good
  <2> QED
    BY <1>1, <1>6
<1>8. Has2(Len(ss))
  <2> HIDE DEF Has1, Has2
  <2> QED
    BY <1>7
<1> QED
  BY <1>2, <1>8 DEF Before

\* Flattening parts of one element each.
LEMMA FlattenSingles ==
    ASSUME NEW X, NEW s \in Seq(X)
    PROVE  FlattenSeq([i \in 1..Len(s) |-> <<s[i]>>]) = s
<1> DEFINE ss == [i \in 1..Len(s) |-> <<s[i]>>]
<1>1. /\ ss \in Seq(Seq(X)) /\ Len(ss) = Len(s) /\ Len(s) \in Nat
      /\ \A i \in 1..Len(s) : ss[i] = <<s[i]>> /\ s[i] \in X
  <2>1. Len(s) \in Nat /\ \A i \in 1..Len(s) : s[i] \in X /\ <<s[i]>> \in Seq(X)
    OBVIOUS
  <2>2. ss \in [1..Len(s) -> Seq(X)]
    BY <2>1
  <2> QED
    BY <2>1, <2>2
<1> HIDE DEF ss
<1>2. PICK f : Sums(f, ss) /\ FlattenSeq(ss) = f[Len(ss)]
  BY <1>1, FlattenSums
<1> DEFINE Good == {n \in Nat : f[n] = SubSeq(s, 1, n)}
<1>3. 0 \in Good
  <2>1. f[0] = <<>>
    BY <1>2 DEF Sums
  <2>2. SubSeq(s, 1, 0) = <<>>
    BY <1>1
  <2> QED
    BY <2>1, <2>2
<1>4. ASSUME NEW n \in 0..(Len(s) - 1), n \in Good
      PROVE  n + 1 \in Good
  <2>1. f[n + 1] = Joined(f[n], ss[n + 1])
    BY <1>1, <1>2 DEF Sums
  <2>2. f[n] = SubSeq(s, 1, n) /\ n + 1 \in 1..Len(s) /\ ss[n + 1] = <<s[n + 1]>> /\ n \in Nat
    BY <1>1, <1>4
  <2>3. SubSeq(s, 1, n) \in Seq(X) /\ s[n + 1] \in X
    BY <1>1, <2>2
  <2>4. SubSeq(s, 1, n) \o <<s[n + 1]>> = Append(SubSeq(s, 1, n), s[n + 1])
    BY <2>3
  <2>5. SubSeq(s, 1, n + 1) = Append(SubSeq(s, 1, n), s[n + 1])
    BY <1>1, <2>2
  <2> QED
    BY <2>1, <2>2, <2>4, <2>5 DEF Joined
<1>5. \A n \in 0..Len(s) : n \in Good
  <2> HIDE DEF Good
  <2> QED
    BY <1>1, <1>3, <1>4, Induction
<1>6. f[Len(s)] = SubSeq(s, 1, Len(s))
  BY <1>1, <1>5
<1>7. SubSeq(s, 1, Len(s)) = s
  BY <1>1
<1> QED
  BY <1>1, <1>2, <1>6, <1>7 DEF ss
=============================================================================
