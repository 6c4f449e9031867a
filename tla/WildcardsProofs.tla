--------------------------- MODULE WildcardsProofs ---------------------------
(***************************************************************************)
(* Proofs about the expansion of patterns, for any tree, any patterns and  *)
(* any paths: the recursion ends, what it finds are files that the         *)
(* beginning of the pattern matches, and for a pattern with one star it    *)
(* finds all of them.                                                      *)
(*                                                                         *)
(* The recursive functions are taken apart by the same steps every time: a *)
(* solution of the defining equation exists (Induction over its domain),   *)
(* so that the CHOOSE in the definition picks one, and then the facts      *)
(* about it follow by Induction again.                                     *)
(***************************************************************************)
EXTENDS Wildcards, InductionLemmas

-----------------------------------------------------------------------------
(* Filtering a sequence.                                                   *)

LEMMA RangeOfAppend ==
    ASSUME NEW S, NEW s \in Seq(S), NEW e \in S
    PROVE  Range(Append(s, e)) = Range(s) \cup {e}
<1>. DEFINE t == Append(s, e)
<1>1. /\ t \in Seq(S) /\ DOMAIN t = DOMAIN s \cup {Len(s) + 1}
      /\ \A i \in DOMAIN s : t[i] = s[i]
      /\ t[Len(s) + 1] = e
  OBVIOUS
<1>. HIDE DEF t
<1>2. \A x : x \in Range(t) <=> \E i \in DOMAIN t : x = t[i]
  BY DEF Range
<1>3. \A x : x \in Range(s) <=> \E i \in DOMAIN s : x = s[i]
  BY DEF Range
<1>4. Range(t) = Range(s) \cup {e}
  BY <1>1, <1>2, <1>3
<1>. QED BY <1>4 DEF t

\* The elements kept so far, the way Filter computes them.
Keeping(kept, s, T) ==
    /\ kept[0] = <<>>
    /\ \A n \in 0..Len(s) : n < Len(s) =>
          kept[n + 1] = IF s[n + 1] \in T THEN Append(kept[n], s[n + 1]) ELSE kept[n]

LEMMA FilterKept ==
    ASSUME NEW S, NEW s \in Seq(S), NEW T
    PROVE  \E kept : Keeping(kept, s, T) /\ Filter(s, T) = kept[Len(s)]
<1>. DEFINE Next1(f, n) == IF n = 0 THEN <<>>
                           ELSE IF s[n] \in T THEN Append(f[n - 1], s[n]) ELSE f[n - 1]
            Good(f, k) == f = [n \in 0..k |-> Next1(f, n)]
            D == {k \in 0..Len(s) : \E f : Good(f, k)}
<1>0. Len(s) \in Nat
  OBVIOUS
<1>1. 0 \in D
  <2>. DEFINE f == [n \in 0..0 |-> <<>>]
  <2>1. Good(f, 0)
    OBVIOUS
  <2>. HIDE DEF Good, f
  <2>. QED BY <1>0, <2>1
<1>2. ASSUME NEW k \in 0..Len(s), k < Len(s), k \in D
      PROVE  k + 1 \in D
  <2>1. PICK f : Good(f, k)
    BY <1>2
  <2>. DEFINE g == [n \in 0..(k + 1) |-> Next1(f, n)]
  <2>2. \A n \in 0..k : g[n] = f[n]
    <3>1. 0..k \subseteq 0..(k + 1)
      BY <1>0, <1>2
    <3>. HIDE DEF Next1
    <3>. QED BY <2>1, <3>1
  <2>3. \A n \in 0..(k + 1) : n # 0 => n - 1 \in 0..k
    BY <1>0, <1>2
  <2>4. Good(g, k + 1)
    BY <2>2, <2>3
  <2>5. k + 1 \in 0..Len(s)
    BY <1>0, <1>2
  <2>. HIDE DEF Good, g
  <2>. QED BY <2>4, <2>5
<1>3. Len(s) \in D
  <2>. HIDE DEF D
  <2>1. \A k \in 0..Len(s) : k \in D
    BY <1>0, <1>1, <1>2, Induction
  <2>. QED BY <1>0, <2>1
<1>. DEFINE kept == CHOOSE f : Good(f, Len(s))
<1>4. Filter(s, T) = kept[Len(s)]
  BY DEF Filter
<1>5. Good(kept, Len(s))
  <2>. HIDE DEF Good
  <2>. QED BY <1>3
<1>6. Keeping(kept, s, T)
  <2>. HIDE DEF kept
  <2>1. \A n \in 0..Len(s) : kept[n] = Next1(kept, n)
    BY <1>5
  <2>2. kept[0] = <<>>
    BY <1>0, <2>1
  <2>3. ASSUME NEW n \in 0..Len(s), n < Len(s)
        PROVE  kept[n + 1] = IF s[n + 1] \in T THEN Append(kept[n], s[n + 1]) ELSE kept[n]
    <3>1. n + 1 \in 0..Len(s) /\ n + 1 # 0 /\ (n + 1) - 1 = n
      BY <1>0, <2>3
    <3>. HIDE DEF Next1
    <3>2. kept[n + 1] = Next1(kept, n + 1)
      BY <2>1, <3>1
    <3>. QED BY <3>1, <3>2 DEF Next1
  <2>. QED BY <2>2, <2>3 DEF Keeping
<1>. QED BY <1>4, <1>6

\* What is kept is what was there and is in T.
LEMMA FilterElements ==
    ASSUME NEW S, NEW s \in Seq(S), NEW T
    PROVE  /\ Filter(s, T) \in Seq(S)
           /\ Range(Filter(s, T)) = Range(s) \cap T
<1>1. PICK kept : Keeping(kept, s, T) /\ Filter(s, T) = kept[Len(s)]
  BY FilterKept
<1>. DEFINE Upto(n) == {s[j] : j \in 1..n} \cap T
            D == {n \in 0..Len(s) : kept[n] \in Seq(S) /\ Range(kept[n]) = Upto(n)}
<1>2. Len(s) \in Nat
  OBVIOUS
<1>3. 0 \in D
  <2>1. kept[0] = <<>> /\ 0 \in 0..Len(s)
    BY <1>1, <1>2 DEF Keeping
  <2>2. Upto(0) = {} /\ Range(<<>>) = {} /\ <<>> \in Seq(S)
    BY DEF Range
  <2>. HIDE DEF Upto
  <2>. QED BY <2>1, <2>2
<1>4. ASSUME NEW n \in 0..Len(s), n < Len(s), n \in D
      PROVE  n + 1 \in D
  <2>1. n + 1 \in 1..Len(s) /\ s[n + 1] \in S /\ 1..(n + 1) = 1..n \cup {n + 1}
    BY <1>2, <1>4
  <2>2. kept[n + 1] = IF s[n + 1] \in T THEN Append(kept[n], s[n + 1]) ELSE kept[n]
    BY <1>1, <1>4 DEF Keeping
  <2>3. CASE s[n + 1] \in T
    <3>1. kept[n + 1] = Append(kept[n], s[n + 1]) /\ kept[n] \in Seq(S)
      BY <1>4, <2>2, <2>3
    <3>2. Range(kept[n + 1]) = Range(kept[n]) \cup {s[n + 1]}
      BY <2>1, <3>1, RangeOfAppend
    <3>3. Upto(n + 1) = Upto(n) \cup {s[n + 1]}
      BY <2>1, <2>3
    <3>4. kept[n + 1] \in Seq(S)
      BY <2>1, <3>1
    <3>5. Range(kept[n]) = Upto(n) /\ n + 1 \in 0..Len(s)
      BY <1>2, <1>4
    <3>. HIDE DEF Upto
    <3>. QED BY <3>2, <3>3, <3>4, <3>5
  <2>4. CASE s[n + 1] \notin T
    <3>1. Upto(n + 1) = Upto(n)
      BY <2>1, <2>4
    <3>. QED BY <1>4, <2>1, <2>2, <2>4, <3>1
  <2>. QED BY <2>3, <2>4
<1>5. Len(s) \in D
  <2>. HIDE DEF D
  <2>1. \A n \in 0..Len(s) : n \in D
    BY <1>2, <1>3, <1>4, Induction
  <2>. QED BY <1>2, <2>1
<1>6. Upto(Len(s)) = Range(s) \cap T
  BY <1>2 DEF Range
<1>. QED BY <1>1, <1>5, <1>6

LEMMA RangeIndexed ==
    ASSUME NEW S, NEW s \in Seq(S)
    PROVE  \A x : x \in Range(s) <=> \E i \in 1..Len(s) : x = s[i]
  BY DEF Range

LEMMA RangeOfConcat ==
    ASSUME NEW S, NEW s \in Seq(S), NEW t \in Seq(S)
    PROVE  s \o t \in Seq(S) /\ Range(s \o t) = Range(s) \cup Range(t)
<1>. DEFINE u == s \o t
<1>1. /\ u \in Seq(S) /\ Len(u) = Len(s) + Len(t) /\ Len(s) \in Nat /\ Len(t) \in Nat
      /\ \A i \in 1..Len(s) : u[i] = s[i]
      /\ \A i \in 1..Len(t) : u[Len(s) + i] = t[i]
  OBVIOUS
<1>. HIDE DEF u
<1>2. \A x : x \in Range(u) <=> \E i \in 1..Len(u) : x = u[i]
  BY <1>1, RangeIndexed
<1>3. \A x : x \in Range(s) <=> \E i \in 1..Len(s) : x = s[i]
  BY RangeIndexed
<1>4. \A x : x \in Range(t) <=> \E i \in 1..Len(t) : x = t[i]
  BY RangeIndexed
<1>5. \A i \in 1..Len(u) : i \in 1..Len(s) \/ (i - Len(s) \in 1..Len(t) /\ i = Len(s) + (i - Len(s)))
  BY <1>1
<1>6. ASSUME NEW x \in Range(u) PROVE x \in Range(s) \cup Range(t)
  <2>1. PICK i \in 1..Len(u) : x = u[i]
    BY <1>2
  <2>2. CASE i \in 1..Len(s)
    BY <1>1, <1>3, <2>1, <2>2
  <2>3. CASE i - Len(s) \in 1..Len(t) /\ i = Len(s) + (i - Len(s))
    <3>. DEFINE j == i - Len(s)
    <3>1. j \in 1..Len(t) /\ u[i] = u[Len(s) + j]
      BY <2>3
    <3>. HIDE DEF j
    <3>2. x = t[j]
      BY <1>1, <2>1, <3>1
    <3>. QED BY <1>4, <3>1, <3>2
  <2>. QED BY <1>5, <2>2, <2>3
<1>7. ASSUME NEW i \in 1..Len(t) PROVE Len(s) + i \in 1..Len(u)
  BY <1>1
<1>8. ASSUME NEW x \in Range(s) \cup Range(t) PROVE x \in Range(u)
  <2>1. CASE x \in Range(s)
    <3>1. PICK i \in 1..Len(s) : x = s[i]
      BY <1>3, <2>1
    <3>2. i \in 1..Len(u)
      BY <1>1
    <3>. QED BY <1>1, <1>2, <3>1, <3>2
  <2>2. CASE x \in Range(t)
    <3>1. PICK i \in 1..Len(t) : x = t[i]
      BY <1>4, <2>2
    <3>. QED BY <1>1, <1>2, <1>7, <3>1
  <2>. QED BY <2>1, <2>2
<1>9. Range(u) = Range(s) \cup Range(t)
  BY <1>6, <1>8
<1>. QED BY <1>1, <1>9 DEF u

\* The elements of sequences put one after the other.
LEMMA FlattenElements ==
    ASSUME NEW S, NEW m \in Nat, NEW q, DOMAIN q = 1..m, q \in Seq(Seq(S))
    PROVE  /\ FlattenSeq(q) \in Seq(S)
           /\ \A x : x \in Range(FlattenSeq(q)) <=> \E n \in 1..m : x \in Range(q[n])
<1>. DEFINE Step(f, n) == IF n = 1 THEN q[n] ELSE f[n - 1] \o q[n]
            Good(f, k) == f = [n \in 1..k |-> Step(f, n)]
            Is(t, k) == t \in Seq(S) /\ \A x : x \in Range(t) <=> \E n \in 1..k : x \in Range(q[n])
            D == {k \in 0..m : \E f : Good(f, k) /\ \A n \in 1..k : Is(f[n], n)}
<1>0. Len(q) = m /\ \A n \in 1..m : q[n] \in Seq(S)
  OBVIOUS
<1>1. 0 \in D
  <2>. DEFINE f == [n \in 1..0 |-> 0]
  <2>1. Good(f, 0)
    OBVIOUS
  <2>2. \A n \in 1..0 : FALSE
    OBVIOUS
  <2>. HIDE DEF Good, f, Is
  <2>. QED BY <2>1, <2>2
<1>2. ASSUME NEW k \in 0..m, k < m, k \in D
      PROVE  k + 1 \in D
  <2>1. PICK f : Good(f, k) /\ \A n \in 1..k : Is(f[n], n)
    BY <1>2
  <2>. DEFINE g == [n \in 1..(k + 1) |-> Step(f, n)]
  <2>2. \A n \in 1..k : g[n] = f[n]
    <3>1. 1..k \subseteq 1..(k + 1)
      BY <1>2
    <3>. HIDE DEF Step
    <3>. QED BY <2>1, <3>1
  <2>3. \A n \in 1..(k + 1) : n # 1 => n - 1 \in 1..k
    BY <1>2
  <2>4. Good(g, k + 1)
    BY <2>2, <2>3
  <2>5. k + 1 \in 0..m /\ k + 1 \in 1..m /\ 1..(k + 1) = 1..k \cup {k + 1}
    BY <1>2
  <2>6. g[k + 1] = IF k = 0 THEN q[1] ELSE f[k] \o q[k + 1]
    BY <1>2
  <2>7. Is(g[k + 1], k + 1)
    <3>. HIDE DEF g, Good
    <3>1. CASE k = 0
      <4>1. 1..(k + 1) = {1} /\ g[k + 1] = q[1] /\ q[1] \in Seq(S)
        BY <3>1, <2>5, <2>6, <1>0
      <4>. QED BY <4>1
    <3>2. CASE k # 0
      <4>1. k \in 1..k
        BY <1>2, <3>2
      <4>2. Is(f[k], k)
        BY <2>1, <4>1
      <4>3. q[k + 1] \in Seq(S) /\ f[k] \in Seq(S)
        BY <1>0, <2>5, <4>2
      <4>4. g[k + 1] \in Seq(S) /\ Range(g[k + 1]) = Range(f[k]) \cup Range(q[k + 1])
        BY <2>6, <3>2, <4>3, RangeOfConcat
      <4>. QED BY <4>2, <4>4, <2>5
    <3>. QED BY <3>1, <3>2
  <2>8. \A n \in 1..(k + 1) : Is(g[n], n)
    <3>. HIDE DEF g, Is, Good
    <3>. QED BY <2>1, <2>2, <2>5, <2>7
  <2>. HIDE DEF Good, g, Is
  <2>. QED BY <2>4, <2>5, <2>8
<1>3. m \in D
  <2>. HIDE DEF D
  <2>1. \A k \in 0..m : k \in D
    BY <1>1, <1>2, Induction
  <2>. QED BY <2>1
<1>4. CASE m = 0
  <2>1. FlattenSeq(q) = q /\ q = <<>>
    BY <1>0, <1>4 DEF FlattenSeq
  <2>2. Range(<<>>) = {} /\ <<>> \in Seq(S)
    BY DEF Range
  <2>3. 1..m = {}
    BY <1>4
  <2>. QED BY <2>1, <2>2, <2>3
<1>5. CASE m # 0
  <2>. DEFINE flat == CHOOSE f : Good(f, m)
  <2>1. FlattenSeq(q) = flat[m]
    BY <1>0, <1>5 DEF FlattenSeq
  <2>2. PICK f : Good(f, m) /\ \A n \in 1..m : Is(f[n], n)
    BY <1>3
  <2>3. Good(flat, m)
    <3>. HIDE DEF Good
    <3>. QED BY <2>2
  <2>4. \A n \in 1..m : flat[n] = f[n]
    <3>. DEFINE E == {n \in 0..m : n # 0 => flat[n] = f[n]}
    <3>. HIDE DEF flat
    <3>1. 0 \in E
      OBVIOUS
    <3>2. ASSUME NEW n \in 0..m, n < m, n \in E PROVE n + 1 \in E
      <4>1. n + 1 \in 1..m /\ (n + 1 # 1 => n # 0) /\ (n + 1) - 1 = n
        BY <3>2
      <4>2. flat[n + 1] = Step(flat, n + 1) /\ f[n + 1] = Step(f, n + 1)
        <5>. HIDE DEF Step
        <5>. QED BY <2>2, <2>3, <4>1
      <4>. QED BY <3>2, <4>1, <4>2
    <3>. HIDE DEF E
    <3>3. \A n \in 0..m : n \in E
      BY <3>1, <3>2, Induction
    <3>. QED BY <3>3 DEF E
  <2>5. m \in 1..m
    BY <1>5
  <2>. HIDE DEF flat, Good
  <2>. QED BY <2>1, <2>2, <2>4, <2>5
<1>. QED BY <1>4, <1>5

-----------------------------------------------------------------------------
(* Paths.                                                                  *)

\* A path as the configuration spells it: empty only in front.
FormedPath(p) == p \in Seq(Pieces) /\ \A j \in 2..Len(p) : p[j] # EmptyPiece
Lead(p) == IF p # <<>> /\ p[1] = EmptyPiece THEN 1 ELSE 0

LEMMA SameSequence ==
    ASSUME NEW S, NEW s \in Seq(S), NEW t \in Seq(S), Len(s) = Len(t),
           \A j \in 1..Len(s) : s[j] = t[j]
    PROVE  s = t
  OBVIOUS

LEMMA AppendFacts ==
    ASSUME NEW S, NEW s \in Seq(S), NEW x \in S
    PROVE  /\ Append(s, x) \in Seq(S) /\ Len(Append(s, x)) = Len(s) + 1 /\ Len(s) \in Nat
           /\ \A j \in 1..Len(s) : Append(s, x)[j] = s[j]
           /\ Append(s, x)[Len(s) + 1] = x
  OBVIOUS

LEMMA HeadIsFirst ==
    ASSUME NEW S, NEW s \in Seq(S), Len(s) # 0
    PROVE  s # <<>> /\ Head(s) = s[1]
  OBVIOUS

LEMMA PlainOfFormed ==
    ASSUME NEW p, FormedPath(p)
    PROVE  /\ Plain(p) \in Seq(Pieces)
           /\ Len(Plain(p)) = Len(p) - Lead(p)
           /\ \A j \in 1..Len(Plain(p)) : Plain(p)[j] = p[j + Lead(p)]
<1>. DEFINE T == Range(p) \ {EmptyPiece}
            e(n) == IF n = 0 THEN 0 ELSE Lead(p)
<1>0. p \in Seq(Pieces) /\ Len(p) \in Nat
  BY DEF FormedPath
<1>1. PICK kept : Keeping(kept, p, T) /\ Filter(p, T) = kept[Len(p)]
  BY <1>0, FilterKept
<1>. DEFINE D == {n \in 0..Len(p) : /\ kept[n] \in Seq(Pieces)
                                   /\ Len(kept[n]) = n - e(n)
                                   /\ \A j \in 1..(n - e(n)) : kept[n][j] = p[j + e(n)]}
<1>2. 0 \in D
  <2>1. kept[0] = <<>> /\ 0 \in 0..Len(p) /\ e(0) = 0
    BY <1>0, <1>1 DEF Keeping
  <2>2. <<>> \in Seq(Pieces) /\ Len(<<>>) = 0 /\ 1..0 = {} /\ 0 - 0 = 0
    OBVIOUS
  <2>. HIDE DEF e
  <2>3. Len(kept[0]) = 0 - e(0) /\ kept[0] \in Seq(Pieces) /\ 1..(0 - e(0)) = {}
    BY <2>1, <2>2
  <2>. QED BY <2>1, <2>3
<1>3. ASSUME NEW n \in 0..Len(p), n < Len(p), n \in D
      PROVE  n + 1 \in D
  <2>1. n + 1 \in 1..Len(p) /\ n + 1 \in 0..Len(p) /\ p[n + 1] \in Pieces
    BY <1>0, <1>3
  <2>2. kept[n + 1] = IF p[n + 1] \in T THEN Append(kept[n], p[n + 1]) ELSE kept[n]
    BY <1>1, <1>3 DEF Keeping
  <2>3. p[n + 1] \in T <=> p[n + 1] # EmptyPiece
    BY <1>0, <2>1, RangeIndexed
  <2>4. p[n + 1] = EmptyPiece <=> n = 0 /\ Lead(p) = 1
    <3>1. CASE n = 0
      BY <1>0, <2>1, <3>1 DEF Lead
    <3>2. CASE n # 0
      BY <1>0, <2>1, <3>2 DEF FormedPath
    <3>. QED BY <3>1, <3>2
  <2>5. Lead(p) \in {0, 1} /\ kept[n] \in Seq(Pieces) /\ Len(kept[n]) = n - e(n)
        /\ \A j \in 1..(n - e(n)) : kept[n][j] = p[j + e(n)]
    BY <1>3 DEF Lead
  <2>6. CASE p[n + 1] = EmptyPiece
    <3>1. n = 0 /\ e(n) = 0 /\ e(n + 1) = 1 /\ kept[n + 1] = kept[n]
      BY <2>2, <2>3, <2>4, <2>6
    <3>2. Len(kept[n + 1]) = (n + 1) - e(n + 1) /\ 1..((n + 1) - e(n + 1)) = {}
      BY <2>5, <3>1
    <3>. HIDE DEF e
    <3>. QED BY <2>1, <2>5, <3>1, <3>2
  <2>7. CASE p[n + 1] # EmptyPiece
    <3>1. e(n + 1) = e(n) /\ e(n) \in {0, 1} /\ e(n) <= n
      BY <2>4, <2>5, <2>7, <1>3
    <3>2. kept[n + 1] = Append(kept[n], p[n + 1])
      BY <2>2, <2>3, <2>7
    <3>. HIDE DEF e
    <3>3. /\ kept[n + 1] \in Seq(Pieces)
          /\ Len(kept[n + 1]) = (n + 1) - e(n + 1)
          /\ \A j \in 1..Len(kept[n]) : kept[n + 1][j] = kept[n][j]
          /\ kept[n + 1][Len(kept[n]) + 1] = p[n + 1]
      BY <2>1, <2>5, <3>1, <3>2
    <3>4. ASSUME NEW j \in 1..((n + 1) - e(n + 1))
          PROVE  kept[n + 1][j] = p[j + e(n + 1)]
      <4>1. CASE j \in 1..Len(kept[n])
        BY <2>5, <3>1, <3>3, <4>1
      <4>2. CASE j = Len(kept[n]) + 1
        <5>1. j + e(n + 1) = n + 1
          BY <2>5, <3>1, <4>2
        <5>. QED BY <3>3, <4>2, <5>1
      <4>. QED BY <2>5, <3>1, <4>1, <4>2
    <3>. QED BY <2>1, <3>3, <3>4
  <2>. QED BY <2>6, <2>7
<1>4. Len(p) \in D
  <2>. HIDE DEF D
  <2>1. \A n \in 0..Len(p) : n \in D
    BY <1>0, <1>2, <1>3, Induction
  <2>. QED BY <1>0, <2>1
<1>5. e(Len(p)) = Lead(p)
  BY <1>0 DEF Lead
<1>6. Plain(p) = kept[Len(p)]
  BY <1>1 DEF Plain
<1>. HIDE DEF e
<1>. QED BY <1>0, <1>4, <1>5, <1>6

LEMMA PlainOfAppend ==
    ASSUME NEW p, FormedPath(p), NEW piece \in Pieces, piece # EmptyPiece
    PROVE  /\ FormedPath(Append(p, piece))
           /\ Plain(Append(p, piece)) = Append(Plain(p), piece)
<1>. DEFINE q == Append(p, piece)
<1>1. /\ q \in Seq(Pieces) /\ Len(q) = Len(p) + 1 /\ Len(p) \in Nat
      /\ \A j \in 1..Len(p) : q[j] = p[j]
      /\ q[Len(p) + 1] = piece /\ p \in Seq(Pieces)
  <2>1. p \in Seq(Pieces)
    BY DEF FormedPath
  <2>. QED BY <2>1, AppendFacts
<1>. HIDE DEF q
<1>2. FormedPath(q)
  <2>1. ASSUME NEW j \in 2..Len(q) PROVE q[j] # EmptyPiece
    <3>1. CASE j = Len(p) + 1
      BY <1>1, <3>1
    <3>2. CASE j # Len(p) + 1
      <4>1. j \in 2..Len(p) /\ j \in 1..Len(p)
        BY <1>1, <3>2
      <4>. QED BY <1>1, <4>1 DEF FormedPath
    <3>. QED BY <3>1, <3>2
  <2>. QED BY <1>1, <2>1 DEF FormedPath
<1>3. Lead(q) = Lead(p) /\ Lead(p) \in {0, 1} /\ Lead(p) <= Len(p)
  <2>1. q # <<>>
    BY <1>1
  <2>2. CASE p = <<>>
    <3>1. Len(p) = 0
      BY <2>2
    <3>2. q[1] = piece
      BY <1>1, <3>1
    <3>. QED BY <2>1, <2>2, <3>2 DEF Lead
  <2>3. CASE p # <<>>
    <3>1. Len(p) # 0 /\ q[1] = p[1]
      BY <1>1, <2>3
    <3>. QED BY <1>1, <2>1, <2>3, <3>1 DEF Lead
  <2>. QED BY <2>2, <2>3
<1>4. /\ Plain(q) \in Seq(Pieces) /\ Len(Plain(q)) = Len(q) - Lead(q)
      /\ \A j \in 1..Len(Plain(q)) : Plain(q)[j] = q[j + Lead(q)]
  BY <1>2, PlainOfFormed
<1>5. /\ Plain(p) \in Seq(Pieces) /\ Len(Plain(p)) = Len(p) - Lead(p)
      /\ \A j \in 1..Len(Plain(p)) : Plain(p)[j] = p[j + Lead(p)]
  BY PlainOfFormed
<1>. DEFINE a == Append(Plain(p), piece)
<1>6. /\ a \in Seq(Pieces) /\ Len(a) = Len(Plain(p)) + 1 /\ a[Len(Plain(p)) + 1] = piece
      /\ \A j \in 1..Len(Plain(p)) : a[j] = Plain(p)[j]
  BY <1>5, AppendFacts
<1>. HIDE DEF a
<1>7. ASSUME NEW j \in 1..Len(a) PROVE Plain(q)[j] = a[j]
  <2>1. CASE j \in 1..Len(Plain(p))
    <3>1. j + Lead(p) \in 1..Len(p) /\ j \in 1..Len(Plain(q))
      BY <1>1, <1>3, <1>4, <1>5, <2>1
    <3>. QED BY <1>1, <1>3, <1>4, <1>5, <1>6, <2>1, <3>1
  <2>2. CASE j = Len(Plain(p)) + 1
    <3>1. j + Lead(q) = Len(p) + 1 /\ j \in 1..Len(Plain(q))
      BY <1>1, <1>3, <1>4, <1>5, <2>2
    <3>. QED BY <1>1, <1>4, <1>6, <2>2, <3>1
  <2>. QED BY <1>5, <1>6, <2>1, <2>2
<1>8. Plain(q) = a
  <2>1. Len(Plain(q)) = Len(a)
    BY <1>1, <1>3, <1>4, <1>5, <1>6
  <2>. QED BY <1>4, <1>6, <1>7, <2>1, SameSequence
<1>. QED BY <1>2, <1>8 DEF q, a

-----------------------------------------------------------------------------
(* The file system.                                                        *)

LEMMA AppendInjective ==
    ASSUME NEW S, NEW s \in Seq(S), NEW t \in Seq(S), NEW x \in S, NEW y \in S,
           Append(s, x) = Append(t, y)
    PROVE  s = t /\ x = y
<1>1. Len(s) = Len(t) /\ Len(s) \in Nat
  BY AppendFacts
<1>2. x = y
  BY <1>1, AppendFacts
<1>3. \A j \in 1..Len(s) : s[j] = t[j]
  BY <1>1, AppendFacts
<1>. QED BY <1>1, <1>2, <1>3, SameSequence

LEMMA Names ==
    ASSUME NEW d \in Directories, NEW name \in Range(Listing[d])
    PROVE  /\ d \in Seq(Pieces) /\ name \in Pieces
           /\ name # EmptyPiece /\ name \notin Patterns
<1>1. d \in Seq(Pieces) /\ Listing[d] \in Seq(Pieces)
  BY TreeAssumption DEF Directories
<1>2. name \in Pieces
  BY <1>1, RangeIndexed
<1>. QED BY <1>1, <1>2, TreeAssumption DEF Directories, Patterns

\* Whatever is there is in the listing of its directory.
LEMMA InDirectory ==
    ASSUME NEW d \in Seq(Pieces), NEW name \in Pieces,
           Append(d, name) \in Directories \cup RegularFiles
    PROVE  d \in Directories /\ name \in Range(Listing[d])
<1>. DEFINE p == Append(d, name)
<1>1. p \in Seq(Pieces) /\ p # <<>> /\ Len(p) = Len(d) + 1 /\ Len(d) \in Nat /\ p[Len(p)] = name
  BY AppendFacts
<1>2. CASE p \in Directories
  <2>1. Front(p) \in Directories /\ Last(p) \in Range(Listing[Front(p)])
    BY <1>1, <1>2, TreeAssumption DEF Directories
  <2>2. Last(p) = name
    BY <1>1 DEF Last
  <2>3. Front(p) = d
    <3>1. Front(p) = SubSeq(p, 1, Len(d))
      BY <1>1 DEF Front
    <3>2. \A j \in 1..Len(d) : p[j] = d[j]
      BY AppendFacts
    <3>. HIDE DEF p
    <3>3. SubSeq(p, 1, Len(d)) \in Seq(Pieces) /\ Len(SubSeq(p, 1, Len(d))) = Len(d)
          /\ \A j \in 1..Len(d) : SubSeq(p, 1, Len(d))[j] = p[j]
      BY <1>1
    <3>. QED BY <3>1, <3>2, <3>3, SameSequence
  <2>. QED BY <2>1, <2>2, <2>3
<1>3. CASE p \in RegularFiles
  <2>1. PICK e \in Directories : \E x \in Range(Listing[e]) : p = Append(e, x)
    BY <1>3 DEF RegularFiles
  <2>. QED BY <2>1, AppendInjective, Names
<1>. QED BY <1>2, <1>3

LEMMA ThereArePaths == Directories \cup RegularFiles \subseteq Seq(Pieces)
<1>1. Directories \subseteq Seq(Pieces)
  BY TreeAssumption DEF Directories
<1>2. ASSUME NEW p \in RegularFiles PROVE p \in Seq(Pieces)
  <2>1. PICK e \in Directories : \E x \in Range(Listing[e]) : p = Append(e, x)
    BY DEF RegularFiles
  <2>. QED BY <2>1, AppendFacts, Names
<1>. QED BY <1>1, <1>2

LEMMA NowhereIsNothing == Nowhere \notin Directories \cup RegularFiles
<1>1. SUFFICES ASSUME Nowhere \in Directories \cup RegularFiles PROVE FALSE
  OBVIOUS
<1>2. Nowhere = Append(<<>>, Nowhere[1]) /\ <<>> \in Seq(Pieces)
  BY DEF Nowhere
<1>3. Nowhere[1] \in Pieces
  <2>1. Nowhere \in Seq(Pieces)
    BY <1>1, ThereArePaths
  <2>2. Len(Nowhere) = 1
    BY DEF Nowhere
  <2>. QED BY <2>1, <2>2
<1>4. Nowhere[1] \in Range(Listing[<<>>])
  BY <1>1, <1>2, <1>3, InDirectory
<1>. QED BY <1>4, TreeAssumption

LEMMA PrefixFacts ==
    ASSUME NEW S, NEW s \in Seq(S), NEW k \in 0..Len(s)
    PROVE  /\ SubSeq(s, 1, k) \in Seq(S) /\ Len(SubSeq(s, 1, k)) = k
           /\ \A j \in 1..k : SubSeq(s, 1, k)[j] = s[j]
  OBVIOUS

LEMMA PrefixFormed ==
    ASSUME NEW p, FormedPath(p), NEW k \in 0..Len(p)
    PROVE  FormedPath(SubSeq(p, 1, k))
<1>1. p \in Seq(Pieces) /\ Len(p) \in Nat
  BY DEF FormedPath
<1>2. \A j \in 2..k : j \in 1..k /\ j \in 2..Len(p)
  BY <1>1
<1>. QED BY <1>1, <1>2, PrefixFacts DEF FormedPath

\* One step down from the directory the call is in.
LEMMA StepDown ==
    ASSUME NEW call \in Calls, FormedPath(call.pieces), call.i <= Len(call.pieces),
           NEW name \in Pieces, name # EmptyPiece
    PROVE  LET path == Append(getParentPath(call), name)
           IN  /\ FormedPath(path)
               /\ \/ Resolve(call.slash, path) = Nowhere
                  \/ /\ Resolve(call.slash, path) = Append(Here(call), name)
                     /\ Resolve(TRUE, path) = Append(Here(call), name)
                     /\ Here(call) \in Seq(Pieces)
<1>. DEFINE parent == getParentPath(call)
            path == Append(parent, name)
<1>1. call.i \in Nat \ {0} /\ call.i - 1 \in 0..Len(call.pieces) /\ call.pieces \in Seq(Pieces)
  BY DEF Calls
<1>2. FormedPath(parent) /\ parent \in Seq(Pieces)
  BY <1>1, PrefixFormed, PrefixFacts DEF getParentPath
<1>3. FormedPath(path) /\ Plain(path) = Append(Plain(parent), name)
  BY <1>2, PlainOfAppend
<1>4. path # <<>> /\ Len(path) = Len(parent) + 1 /\ Len(parent) \in Nat
      /\ (parent # <<>> => path[1] = parent[1]) /\ (parent = <<>> => path[1] = name)
  <2>1. Len(path) = Len(parent) + 1 /\ Len(parent) \in Nat
    BY <1>2, AppendFacts
  <2>2. CASE parent = <<>>
    <3>1. Len(parent) = 0 /\ path[Len(parent) + 1] = name
      BY <1>2, <2>2, AppendFacts
    <3>. QED BY <2>1, <2>2, <3>1
  <2>3. CASE parent # <<>>
    <3>1. 1 \in 1..Len(parent)
      BY <1>2, <2>3
    <3>2. path[1] = parent[1]
      BY <1>2, <3>1, AppendFacts
    <3>. QED BY <2>1, <2>3, <3>2
  <2>. QED BY <2>2, <2>3
<1>5. parent = <<>> => Plain(parent) = <<>>
  <2>1. parent = <<>> => Len(Plain(parent)) = 0 /\ Plain(parent) \in Seq(Pieces)
    BY <1>2, PlainOfFormed DEF Lead
  <2>. QED BY <2>1
<1>. HIDE DEF path, parent
<1>6. Head(path) = path[1] /\ (parent # <<>> => Head(parent) = parent[1])
  <2>1. path \in Seq(Pieces)
    BY <1>3 DEF FormedPath
  <2>. QED BY <1>2, <1>4, <2>1
<1>7. Here(call) = Resolve(call.slash, parent)
  BY DEF Here, parent
<1>8. \/ Resolve(call.slash, path) = Nowhere
      \/ /\ Resolve(call.slash, path) = Append(Here(call), name)
         /\ Resolve(TRUE, path) = Append(Here(call), name)
         /\ Here(call) \in Seq(Pieces)
  <2>0. Plain(parent) \in Seq(Pieces)
    BY <1>2, PlainOfFormed
  <2>1. Resolve(TRUE, path) = Plain(path)
    BY <1>4 DEF Resolve
  <2>2. CASE parent = <<>>
    BY <1>3, <1>4, <1>5, <1>6, <1>7, <2>0, <2>1, <2>2 DEF Resolve
  <2>3. CASE parent # <<>>
    BY <1>3, <1>4, <1>6, <1>7, <2>0, <2>1, <2>3 DEF Resolve
  <2>. QED BY <2>2, <2>3
<1>. QED BY <1>3, <1>8 DEF path, parent

-----------------------------------------------------------------------------
(* Visiting the directories that a pattern lets through.                   *)

Result == [paths : Seq(Seq(Pieces)), pieces : Seq(Pieces)]
VisitNames(call) == Filter(Listed(call), SubDirectories(call))
VisitCall(call, pieces, name) == [call EXCEPT !.pieces = [pieces EXCEPT ![call.i] = name]]
Collect(before, deeper) == Found(before.paths \o deeper.paths, deeper.pieces)

\* The results so far, the way VisitDirectories computes them.
Visiting(v, expand, call) ==
    /\ v[0] = Found(<<>>, call.pieces)
    /\ \A n \in 0..Len(VisitNames(call)) : n < Len(VisitNames(call)) =>
          v[n + 1] = Collect(v[n], expand[VisitCall(call, v[n].pieces, VisitNames(call)[n + 1])])

LEMMA VisitsExist ==
    ASSUME NEW expand, NEW call, VisitNames(call) \in Seq(Pieces)
    PROVE  \E v : /\ Visiting(v, expand, call)
                  /\ VisitDirectories(expand, call) = v[Len(VisitNames(call))]
<1>. DEFINE names == VisitNames(call)
            m == Len(names)
            Next1(f, n) ==
              IF n = 0 THEN Found(<<>>, call.pieces)
              ELSE Collect(f[n - 1], expand[VisitCall(call, f[n - 1].pieces, names[n])])
            Good(f, k) == f = [n \in 0..k |-> Next1(f, n)]
            D == {k \in 0..m : \E f : Good(f, k)}
<1>0. m \in Nat
  OBVIOUS
<1>. HIDE DEF m
<1>1. 0 \in D
  <2>. DEFINE f == [n \in 0..0 |-> Found(<<>>, call.pieces)]
  <2>1. Good(f, 0)
    OBVIOUS
  <2>. HIDE DEF Good, f
  <2>. QED BY <1>0, <2>1
<1>2. ASSUME NEW k \in 0..m, k < m, k \in D
      PROVE  k + 1 \in D
  <2>1. PICK f : Good(f, k)
    BY <1>2
  <2>. DEFINE g == [n \in 0..(k + 1) |-> Next1(f, n)]
  <2>2. \A n \in 0..k : g[n] = f[n]
    <3>1. 0..k \subseteq 0..(k + 1)
      BY <1>0, <1>2
    <3>. HIDE DEF Next1
    <3>. QED BY <2>1, <3>1
  <2>3. \A n \in 0..(k + 1) : n # 0 => n - 1 \in 0..k
    BY <1>0, <1>2
  <2>4. \A n \in 0..(k + 1) : Next1(f, n) = Next1(g, n)
    <3>. HIDE DEF g, Good
    <3>. QED BY <2>2, <2>3
  <2>5. Good(g, k + 1)
    <3>. HIDE DEF Next1
    <3>. QED BY <2>4
  <2>6. k + 1 \in 0..m
    BY <1>0, <1>2
  <2>. HIDE DEF Good, g
  <2>. QED BY <2>5, <2>6
<1>3. m \in D
  <2>. HIDE DEF D
  <2>1. \A k \in 0..m : k \in D
    BY <1>0, <1>1, <1>2, Induction
  <2>. QED BY <1>0, <2>1
<1>. DEFINE v == CHOOSE f : Good(f, m)
<1>4. VisitDirectories(expand, call) = v[m]
  BY DEF VisitDirectories, VisitNames, VisitCall, Collect, m
<1>5. Good(v, m)
  <2>. HIDE DEF Good
  <2>. QED BY <1>3
<1>6. Visiting(v, expand, call)
  <2>. HIDE DEF v
  <2>1. \A n \in 0..m : v[n] = Next1(v, n)
    <3>. HIDE DEF Next1
    <3>. QED BY <1>5
  <2>2. v[0] = Found(<<>>, call.pieces)
    BY <1>0, <2>1
  <2>3. ASSUME NEW n \in 0..m, n < m
        PROVE  v[n + 1] = Collect(v[n], expand[VisitCall(call, v[n].pieces, names[n + 1])])
    <3>1. n + 1 \in 0..m /\ n + 1 # 0 /\ (n + 1) - 1 = n
      BY <1>0, <2>3
    <3>2. v[n + 1] = Next1(v, n + 1)
      BY <2>1, <3>1
    <3>. QED BY <3>1, <3>2
  <2>. QED BY <2>2, <2>3 DEF Visiting, m
<1>. QED BY <1>4, <1>6 DEF m

\* What every visit keeps is kept by all of them.
LEMMA VisitInvariant ==
    ASSUME NEW expand, NEW call, VisitNames(call) \in Seq(Pieces),
           NEW I, Found(<<>>, call.pieces) \in I,
           \A before \in I, name \in Range(VisitNames(call)) :
              Collect(before, expand[VisitCall(call, before.pieces, name)]) \in I
    PROVE  VisitDirectories(expand, call) \in I
<1>. DEFINE names == VisitNames(call)
            m == Len(names)
<1>0. m \in Nat
  OBVIOUS
<1>1. PICK v : Visiting(v, expand, call) /\ VisitDirectories(expand, call) = v[m]
  BY VisitsExist
<1>. DEFINE D == {n \in 0..m : v[n] \in I}
<1>2. 0 \in D
  BY <1>0, <1>1 DEF Visiting
<1>3. ASSUME NEW n \in 0..m, n < m, n \in D PROVE n + 1 \in D
  <2>1. n + 1 \in 1..m /\ n + 1 \in 0..m
    BY <1>0, <1>3
  <2>2. names[n + 1] \in Range(names)
    BY <2>1, RangeIndexed
  <2>3. v[n + 1] = Collect(v[n], expand[VisitCall(call, v[n].pieces, names[n + 1])])
    BY <1>1, <1>3 DEF Visiting
  <2>. QED BY <1>3, <2>1, <2>2, <2>3
<1>4. m \in D
  <2>. HIDE DEF D, m
  <2>1. \A n \in 0..m : n \in D
    BY <1>0, <1>2, <1>3, Induction
  <2>. QED BY <1>0, <2>1
<1>. QED BY <1>1, <1>4

\* The result depends only on what the calls that are made return.
LEMMA VisitSame ==
    ASSUME NEW f, NEW g, NEW call, VisitNames(call) \in Seq(Pieces),
           NEW I, Found(<<>>, call.pieces) \in I,
           \A before \in I, name \in Range(VisitNames(call)) :
              /\ f[VisitCall(call, before.pieces, name)] = g[VisitCall(call, before.pieces, name)]
              /\ Collect(before, f[VisitCall(call, before.pieces, name)]) \in I
    PROVE  VisitDirectories(f, call) = VisitDirectories(g, call)
<1>. DEFINE names == VisitNames(call)
            m == Len(names)
<1>0. m \in Nat
  OBVIOUS
<1>1. PICK v : Visiting(v, f, call) /\ VisitDirectories(f, call) = v[m]
  BY VisitsExist
<1>2. PICK w : Visiting(w, g, call) /\ VisitDirectories(g, call) = w[m]
  BY VisitsExist
<1>. DEFINE D == {n \in 0..m : v[n] \in I /\ v[n] = w[n]}
<1>3. 0 \in D
  BY <1>0, <1>1, <1>2 DEF Visiting
<1>4. ASSUME NEW n \in 0..m, n < m, n \in D PROVE n + 1 \in D
  <2>1. n + 1 \in 1..m /\ n + 1 \in 0..m
    BY <1>0, <1>4
  <2>2. names[n + 1] \in Range(names)
    BY <2>1, RangeIndexed
  <2>3. v[n + 1] = Collect(v[n], f[VisitCall(call, v[n].pieces, names[n + 1])])
    BY <1>1, <1>4 DEF Visiting
  <2>4. w[n + 1] = Collect(w[n], g[VisitCall(call, w[n].pieces, names[n + 1])])
    BY <1>2, <1>4 DEF Visiting
  <2>. QED BY <1>4, <2>1, <2>2, <2>3, <2>4
<1>5. m \in D
  <2>. HIDE DEF D, m
  <2>1. \A n \in 0..m : n \in D
    BY <1>0, <1>3, <1>4, Induction
  <2>. QED BY <1>0, <2>1
<1>. QED BY <1>1, <1>2, <1>5

-----------------------------------------------------------------------------
(* One call of expandWildCardRecursive.                                    *)

LEMMA ListedFacts ==
    ASSUME NEW call \in Calls, call.i <= Len(call.pieces), Here(call) \in Directories
    PROVE  /\ Listed(call) \in Seq(Pieces) /\ VisitNames(call) \in Seq(Pieces)
           /\ Range(VisitNames(call)) \subseteq SubDirectories(call)
           /\ \A name \in Range(Listed(call)) :
                 /\ name \in Pieces /\ name # EmptyPiece /\ name \notin Patterns
                 /\ call.pieces[call.i] \in Patterns => Agrees(name, call.pieces[call.i])
<1>. DEFINE all == Listing[Here(call)]
            pattern == call.pieces[call.i]
<1>1. all \in Seq(Pieces) /\ \A name \in Range(all) :
                                name \in Pieces /\ name # EmptyPiece /\ name \notin Patterns
  BY TreeAssumption, Names DEF Directories
<1>2. /\ Listed(call) \in Seq(Pieces)
      /\ \A name \in Range(Listed(call)) :
            name \in Range(all) /\ (pattern = "*" \/ name \in Lets[pattern])
  <2>1. CASE pattern = "*"
    BY <1>1, <2>1 DEF Listed, filterFileNames
  <2>2. CASE pattern # "*"
    <3>1. Listed(call) = Filter(all, Lets[pattern])
      BY <2>2 DEF Listed, filterFileNames
    <3>. HIDE DEF pattern, all
    <3>. QED BY <1>1, <3>1, FilterElements
  <2>. QED BY <2>1, <2>2
<1>3. VisitNames(call) \in Seq(Pieces) /\ Range(VisitNames(call)) \subseteq SubDirectories(call)
  <2>. HIDE DEF pattern, all
  <2>. QED BY <1>2, FilterElements DEF VisitNames
<1>. HIDE DEF all
<1>. QED BY <1>1, <1>2, <1>3 DEF Agrees

LEMMA FilesHereFacts ==
    ASSUME NEW call \in Calls, call.i <= Len(call.pieces), Here(call) \in Directories
    PROVE  /\ FilesHere(call) \in Seq(Seq(Pieces))
           /\ \A path \in Range(FilesHere(call)) :
                 /\ call.i = Len(call.pieces)
                 /\ exists(call.slash, path)
                 /\ \E name \in Range(Listed(call)) \ SubDirectories(call) :
                       path = Append(getParentPath(call), name)
<1>. DEFINE names == Filter(Listed(call), Range(Listed(call)) \ SubDirectories(call))
            paths == [j \in DOMAIN names |-> Append(getParentPath(call), names[j])]
            there == {path \in Range(paths) : exists(call.slash, path)}
<1>1. getParentPath(call) \in Seq(Pieces)
  <2>1. call.pieces \in Seq(Pieces) /\ call.i - 1 \in 0..Len(call.pieces)
    BY DEF Calls
  <2>. QED BY <2>1, PrefixFacts DEF getParentPath
<1>2. names \in Seq(Pieces) /\ Range(names) \subseteq Range(Listed(call)) \ SubDirectories(call)
  BY ListedFacts, FilterElements
<1>. HIDE DEF names
<1>3. paths \in Seq(Seq(Pieces))
  <2>1. \A j \in DOMAIN names : Append(getParentPath(call), names[j]) \in Seq(Pieces)
    BY <1>1, <1>2, AppendFacts
  <2>2. DOMAIN names = 1..Len(names) /\ Len(names) \in Nat
    BY <1>2
  <2>. QED BY <2>1, <2>2
<1>4. \A path \in Range(paths) : \E name \in Range(names) : path = Append(getParentPath(call), name)
  BY DEF Range
<1>. HIDE DEF paths
<1>5. Filter(paths, there) \in Seq(Seq(Pieces)) /\ Range(Filter(paths, there)) = Range(paths) \cap there
  BY <1>3, FilterElements
<1>6. FilesHere(call) = IF call.i = Len(call.pieces) THEN Filter(paths, there) ELSE <<>>
  BY DEF FilesHere, names, paths
<1>7. Range(<<>>) = {} /\ <<>> \in Seq(Seq(Pieces))
  BY DEF Range
<1>. HIDE DEF there
<1>8. CASE call.i = Len(call.pieces)
  BY <1>2, <1>4, <1>5, <1>6, <1>8 DEF there
<1>9. CASE call.i # Len(call.pieces)
  <2>1. FilesHere(call) = <<>>
    BY <1>6, <1>9
  <2>. QED BY <1>7, <2>1
<1>. QED BY <1>8, <1>9

\* How much there is left to do: two steps for a pattern, one for a name.
Rank(call) ==
    IF call.i > Len(call.pieces) THEN 0
    ELSE 2 * (Len(call.pieces) - call.i + 1)
         + IF isValidWildCard(call.pieces[call.i]) THEN 1 ELSE 0

LEMMA RankType ==
    ASSUME NEW call \in Calls
    PROVE  Rank(call) \in 0..(2 * Len(call.pieces) + 1)
<1>1. call.i \in Nat \ {0} /\ Len(call.pieces) \in Nat
  BY DEF Calls
<1>2. CASE call.i > Len(call.pieces)
  BY <1>1, <1>2 DEF Rank
<1>3. CASE ~(call.i > Len(call.pieces))
  <2>1. Rank(call) = 2 * (Len(call.pieces) - call.i + 1)
        \/ Rank(call) = 2 * (Len(call.pieces) - call.i + 1) + 1
    BY <1>1, <1>3 DEF Rank
  <2>. QED BY <1>1, <1>3, <2>1
<1>. QED BY <1>2, <1>3

\* The call for a directory, and the one for the next piece, have less to do.
LEMMA VisitCallFacts ==
    ASSUME NEW call \in Calls, call.i <= Len(call.pieces),
           isValidWildCard(call.pieces[call.i]),
           NEW q \in Seq(Pieces), Len(q) = Len(call.pieces),
           NEW name \in Pieces, name \notin Patterns
    PROVE  LET d == VisitCall(call, q, name)
           IN  /\ d \in Calls /\ d.i = call.i /\ d.slash = call.slash
               /\ d.pieces = [q EXCEPT ![call.i] = name]
               /\ Len(d.pieces) = Len(call.pieces)
               /\ Rank(d) < Rank(call)
<1>. DEFINE p == [q EXCEPT ![call.i] = name]
            d == VisitCall(call, q, name)
<1>1. call.i \in 1..Len(q) /\ call.i \in Nat \ {0} /\ Len(q) \in Nat /\ call.slash \in BOOLEAN
  BY DEF Calls
<1>2. p \in Seq(Pieces) /\ Len(p) = Len(q) /\ p[call.i] = name
  BY <1>1
<1>. HIDE DEF p
<1>3. d \in Calls /\ d.i = call.i /\ d.slash = call.slash /\ d.pieces = p
  BY <1>2 DEF VisitCall, Calls, p
<1>. HIDE DEF d
<1>4. ~isValidWildCard(d.pieces[d.i])
  BY <1>2, <1>3 DEF isValidWildCard, StarsOf
<1>5. Rank(d) < Rank(call)
  <2>1. Rank(d) = 2 * (Len(q) - call.i + 1) + 0
    BY <1>1, <1>2, <1>3, <1>4 DEF Rank
  <2>2. Rank(call) = 2 * (Len(q) - call.i + 1) + 1
    BY <1>1 DEF Rank
  <2>. QED BY <1>1, <2>1, <2>2
<1>. QED BY <1>2, <1>3, <1>5 DEF d, p

LEMMA NextCallFacts ==
    ASSUME NEW call \in Calls, call.i <= Len(call.pieces)
    PROVE  LET d == [call EXCEPT !.i = @ + 1]
           IN  /\ d \in Calls /\ d.i = call.i + 1 /\ d.slash = call.slash
               /\ d.pieces = call.pieces
               /\ Rank(d) < Rank(call)
<1>. DEFINE d == [call EXCEPT !.i = @ + 1]
            m == Len(call.pieces)
<1>1. call.i \in 1..m /\ call.i \in Nat \ {0} /\ m \in Nat
  BY DEF Calls
<1>2. d \in Calls /\ d.i = call.i + 1 /\ d.slash = call.slash /\ d.pieces = call.pieces
  BY <1>1 DEF Calls
<1>. HIDE DEF d
<1>3. Rank(call) >= 2 * (m - call.i + 1)
  BY <1>1 DEF Rank
<1>4. Rank(d) <= 2 * (m - (call.i + 1) + 1) + 1
  <2>1. CASE d.i > Len(d.pieces)
    BY <1>1, <1>2, <2>1 DEF Rank
  <2>2. CASE ~(d.i > Len(d.pieces))
    <3>1. Rank(d) = 2 * (m - (call.i + 1) + 1) \/ Rank(d) = 2 * (m - (call.i + 1) + 1) + 1
      BY <1>1, <1>2, <2>2 DEF Rank
    <3>. QED BY <1>1, <3>1
  <2>. QED BY <2>1, <2>2
<1>5. Rank(d) \in Nat /\ Rank(call) \in Nat
  BY <1>2, RankType
<1>6. Rank(d) < Rank(call)
  <2>. HIDE DEF m
  <2>. QED BY <1>1, <1>3, <1>4, <1>5
<1>. QED BY <1>2, <1>6 DEF d

\* A call that has something to visit, and what it visits.
Globs(call) ==
    /\ call.i <= Len(call.pieces) /\ Here(call) \in Directories
    /\ isValidWildCard(call.pieces[call.i])

\* What a call returns depends only on what calls with less to do return, and
\* has the type of a result if theirs has.
LEMMA CallSame ==
    ASSUME NEW call \in Calls, NEW f, NEW g,
           \A d \in Calls : Len(d.pieces) = Len(call.pieces) /\ Rank(d) < Rank(call) =>
              f[d] = g[d] /\ f[d] \in Result /\ Len(f[d].pieces) = Len(d.pieces)
    PROVE  LET r == expandWildCardRecursive(f, call)
           IN  /\ r = expandWildCardRecursive(g, call)
               /\ r \in Result /\ Len(r.pieces) = Len(call.pieces)
<1>. DEFINE current == getCurrentPath(call)
            r == expandWildCardRecursive(f, call)
            I == {x \in Result : Len(x.pieces) = Len(call.pieces)}
<1>1. call.pieces \in Seq(Pieces) /\ call.i \in Nat \ {0} /\ Found(<<>>, call.pieces) \in I
  BY DEF Calls, Result, Found
<1>2. CASE call.i > Len(call.pieces)
  BY <1>1, <1>2 DEF expandWildCardRecursive
<1>3. CASE call.i <= Len(call.pieces) /\ ~Globs(call)
  <2>1. current \in Seq(Pieces)
    BY <1>1, <1>3, PrefixFacts DEF getCurrentPath
  <2>2. Found(<<current>>, call.pieces) \in I
    <3>. HIDE DEF current
    <3>. QED BY <1>1, <2>1 DEF Found, Result
  <2>. DEFINE d == [call EXCEPT !.i = @ + 1]
  <2>3. f[d] = g[d] /\ f[d] \in I
    BY <1>3, NextCallFacts
  <2>4. expandWildCardRecursive(f, call) \in {Found(<<>>, call.pieces), Found(<<current>>, call.pieces), f[d]}
        /\ expandWildCardRecursive(f, call) = expandWildCardRecursive(g, call)
    <3>. HIDE DEF current, d, I
    <3>. QED BY <1>1, <1>3, <2>3 DEF expandWildCardRecursive, Globs, current, d
  <2>. HIDE DEF d, current
  <2>. QED BY <1>1, <2>2, <2>3, <2>4
<1>4. CASE Globs(call)
  <2>1. /\ VisitNames(call) \in Seq(Pieces)
        /\ \A name \in Range(VisitNames(call)) : name \in Pieces /\ name \notin Patterns
    BY <1>4, ListedFacts DEF Globs, SubDirectories
  <2>2. ASSUME NEW before \in I, NEW name \in Range(VisitNames(call))
        PROVE  LET d == VisitCall(call, before.pieces, name)
               IN  f[d] = g[d] /\ Collect(before, f[d]) \in I
    <3>. DEFINE d == VisitCall(call, before.pieces, name)
    <3>1. before.pieces \in Seq(Pieces) /\ Len(before.pieces) = Len(call.pieces)
          /\ before.paths \in Seq(Seq(Pieces))
      BY DEF Result
    <3>0. d \in Calls /\ Len(d.pieces) = Len(call.pieces) /\ Rank(d) < Rank(call)
      <4>. HIDE DEF I
      <4>. QED BY <1>4, <2>1, <3>1, VisitCallFacts DEF Globs
    <3>. HIDE DEF d
    <3>2. f[d] = g[d] /\ f[d] \in Result /\ Len(f[d].pieces) = Len(call.pieces)
      BY <3>0
    <3>3. f[d].paths \in Seq(Seq(Pieces)) /\ f[d].pieces \in Seq(Pieces)
      BY <3>2 DEF Result
    <3>4. Collect(before, f[d]) \in I
      BY <3>1, <3>2, <3>3 DEF Collect, Found, Result
    <3>. QED BY <3>2, <3>4 DEF d
  <2>3. VisitDirectories(f, call) \in I
    <3>. HIDE DEF I
    <3>. QED BY <1>1, <2>1, <2>2, VisitInvariant
  <2>4. VisitDirectories(f, call) = VisitDirectories(g, call)
    <3>. HIDE DEF I
    <3>. QED BY <1>1, <2>1, <2>2, VisitSame
  <2>5. \A h : expandWildCardRecursive(h, call) =
          Found(VisitDirectories(h, call).paths \o FilesHere(call), VisitDirectories(h, call).pieces)
    BY <1>1, <1>4 DEF expandWildCardRecursive, Globs
  <2>6. FilesHere(call) \in Seq(Seq(Pieces))
    BY <1>4, FilesHereFacts DEF Globs
  <2>7. r \in I
    <3>. DEFINE vis == VisitDirectories(f, call)
    <3>1. vis.paths \in Seq(Seq(Pieces)) /\ vis.pieces \in Seq(Pieces) /\ Len(vis.pieces) = Len(call.pieces)
      BY <2>3 DEF Result
    <3>2. r = Found(vis.paths \o FilesHere(call), vis.pieces)
      BY <2>5
    <3>. HIDE DEF vis, r
    <3>. QED BY <2>6, <3>1, <3>2 DEF Found, Result
  <2>. HIDE DEF r, I
  <2>8. r = expandWildCardRecursive(g, call)
    BY <2>4, <2>5 DEF r
  <2>. QED BY <2>7, <2>8 DEF I, r
<1>. QED BY <1>1, <1>2, <1>3, <1>4

-----------------------------------------------------------------------------
(* The recursion ends.                                                     *)

CallsUpTo(m, r) == {call \in Calls : Len(call.pieces) = m /\ Rank(call) <= r}

\* What f returns for the calls in D is what expandWildCardRecursive returns.
Solves(f, D) ==
    /\ f = [call \in D |-> expandWildCardRecursive(f, call)]
    /\ \A call \in D : f[call] \in Result /\ Len(f[call].pieces) = Len(call.pieces)

LEMMA SolvedOneMore ==
    ASSUME NEW m \in Nat, NEW r \in Nat, NEW D, NEW f, Solves(f, D),
           D \subseteq CallsUpTo(m, r),
           \A call \in CallsUpTo(m, r) :
              \A d \in Calls : Len(d.pieces) = m /\ Rank(d) < Rank(call) => d \in D
    PROVE  \E g : Solves(g, CallsUpTo(m, r))
<1>. DEFINE C == CallsUpTo(m, r)
            g == [call \in C |-> expandWildCardRecursive(f, call)]
<1>1. \A call \in C : call \in Calls /\ Len(call.pieces) = m
  BY DEF CallsUpTo
<1>2. \A call \in D : f[call] = g[call] /\ f[call] \in Result /\ Len(f[call].pieces) = Len(call.pieces)
  BY DEF Solves
<1>3. \A call \in C : g[call] = expandWildCardRecursive(f, call)
  OBVIOUS
<1>4. g = [call \in C |-> g[call]]
  BY <1>3
<1>. HIDE DEF g
<1>5. ASSUME NEW call \in C
      PROVE  /\ g[call] = expandWildCardRecursive(g, call)
             /\ g[call] \in Result /\ Len(g[call].pieces) = Len(call.pieces)
  <2>1. \A d \in Calls : Len(d.pieces) = Len(call.pieces) /\ Rank(d) < Rank(call) =>
              f[d] = g[d] /\ f[d] \in Result /\ Len(f[d].pieces) = Len(d.pieces)
    BY <1>1, <1>2
  <2>. HIDE DEF C
  <2>. QED BY <1>1, <1>3, <2>1, CallSame
<1>6. Solves(g, C)
  <2>. HIDE DEF C
  <2>1. g = [call \in C |-> expandWildCardRecursive(g, call)]
    BY <1>4, <1>5
  <2>. QED BY <1>5, <2>1 DEF Solves
<1>. QED BY <1>6

LEMMA Solvable ==
    ASSUME NEW m \in Nat
    PROVE  \A r \in 0..(2 * m + 1) : \E f : Solves(f, CallsUpTo(m, r))
<1>. DEFINE S == {r \in 0..(2 * m + 1) : \E f : Solves(f, CallsUpTo(m, r))}
<1>1. 0 \in S
  <2>. DEFINE f == [call \in {} |-> expandWildCardRecursive(<<>>, call)]
  <2>1. Solves(f, {})
    BY DEF Solves
  <2>2. \A call \in CallsUpTo(m, 0) : \A d \in Calls : ~(Rank(d) < Rank(call))
    BY RankType DEF CallsUpTo
  <2>. HIDE DEF f
  <2>3. \E g : Solves(g, CallsUpTo(m, 0))
    BY <2>1, <2>2, SolvedOneMore
  <2>. QED BY <2>3
<1>2. ASSUME NEW r \in 0..(2 * m + 1), r < 2 * m + 1, r \in S
      PROVE  r + 1 \in S
  <2>1. PICK f : Solves(f, CallsUpTo(m, r))
    BY <1>2
  <2>2. CallsUpTo(m, r) \subseteq CallsUpTo(m, r + 1)
    BY RankType DEF CallsUpTo
  <2>3. \A call \in CallsUpTo(m, r + 1) :
           \A d \in Calls : Len(d.pieces) = m /\ Rank(d) < Rank(call) => d \in CallsUpTo(m, r)
    BY RankType DEF CallsUpTo
  <2>4. \E g : Solves(g, CallsUpTo(m, r + 1))
    BY <2>1, <2>2, <2>3, SolvedOneMore
  <2>. QED BY <1>2, <2>4
<1>. HIDE DEF S
<1>3. \A r \in 0..(2 * m + 1) : r \in S
  BY <1>1, <1>2, Induction
<1>. QED BY <1>3 DEF S

LEMMA ExpandDef ==
    \A call \in Calls : Expand[call] = expandWildCardRecursive(Expand, call)
<1>. DEFINE All(m) == CallsUpTo(m, 2 * m + 1)
            solution(m) == CHOOSE f : Solves(f, All(m))
            F == [call \in Calls |-> solution(Len(call.pieces))[call]]
<1>1. ASSUME NEW m \in Nat PROVE Solves(solution(m), All(m))
  <2>1. \E f : Solves(f, All(m))
    BY Solvable
  <2>. HIDE DEF All
  <2>. QED BY <2>1
<1>2. ASSUME NEW m \in Nat
      PROVE  \A call \in Calls : Len(call.pieces) = m <=> call \in All(m)
  BY RankType DEF CallsUpTo
<1>. HIDE DEF solution, All
<1>3. \A call \in Calls : F[call] = solution(Len(call.pieces))[call]
  OBVIOUS
<1>. HIDE DEF F
<1>4. ASSUME NEW call \in Calls PROVE F[call] = expandWildCardRecursive(F, call)
  <2>. DEFINE m == Len(call.pieces)
              f == solution(m)
  <2>1. m \in Nat
    BY DEF Calls
  <2>2. /\ \A d \in All(m) : f[d] = expandWildCardRecursive(f, d)
        /\ \A d \in All(m) : f[d] \in Result /\ Len(f[d].pieces) = Len(d.pieces)
    BY <1>1, <2>1 DEF Solves
  <2>3. \A d \in Calls : Len(d.pieces) = m => F[d] = f[d]
    BY <1>3
  <2>. HIDE DEF f
  <2>4. \A d \in Calls : Len(d.pieces) = Len(call.pieces) /\ Rank(d) < Rank(call) =>
              f[d] = F[d] /\ f[d] \in Result /\ Len(f[d].pieces) = Len(d.pieces)
    BY <1>2, <2>1, <2>2, <2>3
  <2>5. expandWildCardRecursive(f, call) = expandWildCardRecursive(F, call)
    BY <2>4, CallSame
  <2>. QED BY <1>2, <2>1, <2>2, <2>3, <2>5
<1>5. F = [call \in Calls |-> expandWildCardRecursive(F, call)]
  <2>1. F = [call \in Calls |-> F[call]]
    BY DEF F
  <2>. QED BY <1>4, <2>1
<1>6. Expand = [call \in Calls |-> expandWildCardRecursive(Expand, call)]
  BY <1>5 DEF Expand
<1>. QED BY <1>6

-----------------------------------------------------------------------------
(* What an expansion can come to.                                          *)

\* Pieces of q are those of p, or names in the place of patterns.
Refines(q, p) ==
    /\ q \in Seq(Pieces) /\ Len(q) = Len(p)
    /\ \A j \in 1..Len(p) :
          \/ q[j] = p[j]
          \/ /\ p[j] \in Patterns /\ q[j] \notin Patterns /\ q[j] # EmptyPiece
             /\ Agrees(q[j], p[j])

\* A file that comes from the first pieces of p.
Comes(path, p) ==
    /\ path \in Seq(Pieces) /\ Len(path) \in 1..Len(p)
    /\ Resolve(TRUE, path) \in RegularFiles
    /\ Refines(path, SubSeq(p, 1, Len(path)))

SoundResult(call, x) ==
    /\ x \in Result
    /\ Refines(x.pieces, call.pieces)
    /\ \A j \in 1..Len(call.pieces) : j < call.i => x.pieces[j] = call.pieces[j]
    /\ \A path \in Range(x.paths) : Comes(path, call.pieces)

LEMMA RefinesTransitive ==
    ASSUME NEW p, NEW q, NEW r, Refines(r, q), Refines(q, p)
    PROVE  Refines(r, p)
  BY DEF Refines

LEMMA RefinesFormed ==
    ASSUME NEW p, FormedPath(p), NEW q, Refines(q, p)
    PROVE  FormedPath(q)
<1>1. p \in Seq(Pieces) /\ Len(p) \in Nat /\ \A j \in 2..Len(p) : j \in 1..Len(p)
  BY DEF FormedPath
<1>. QED BY <1>1 DEF Refines, FormedPath

LEMMA ComesVia ==
    ASSUME NEW p \in Seq(Pieces), NEW q, Refines(q, p), NEW path, Comes(path, q)
    PROVE  Comes(path, p)
<1>. DEFINE k == Len(path)
<1>1. q \in Seq(Pieces) /\ Len(q) = Len(p) /\ k \in 1..Len(p) /\ k \in 0..Len(q) /\ k \in 0..Len(p)
      /\ Len(p) \in Nat
  BY DEF Refines, Comes
<1>. HIDE DEF k
<1>2. Refines(SubSeq(q, 1, k), SubSeq(p, 1, k))
  <2>. DEFINE qk == SubSeq(q, 1, k)
              pk == SubSeq(p, 1, k)
  <2>1. /\ qk \in Seq(Pieces) /\ Len(qk) = k /\ Len(pk) = k
        /\ \A j \in 1..k : qk[j] = q[j] /\ pk[j] = p[j] /\ j \in 1..Len(p)
    BY <1>1, PrefixFacts
  <2>. HIDE DEF qk, pk
  <2>2. Refines(qk, pk)
    BY <2>1 DEF Refines
  <2>. QED BY <2>2 DEF qk, pk
<1>3. Refines(path, SubSeq(q, 1, k))
  BY DEF Comes, k
<1>4. Refines(path, SubSeq(p, 1, k))
  BY <1>2, <1>3, RefinesTransitive
<1>. QED BY <1>1, <1>4 DEF Comes, k

\* The path to the piece the call is at.
LEMMA CurrentPath ==
    ASSUME NEW call \in Calls, call.i <= Len(call.pieces)
    PROVE  /\ getCurrentPath(call) = Append(getParentPath(call), call.pieces[call.i])
           /\ getParentPath(call) \in Seq(Pieces) /\ Len(getParentPath(call)) = call.i - 1
           /\ \A j \in 1..(call.i - 1) : getParentPath(call)[j] = call.pieces[j]
           /\ call.pieces[call.i] \in Pieces
<1>. DEFINE p == call.pieces
            i == call.i
            parent == getParentPath(call)
            current == getCurrentPath(call)
            a == Append(parent, p[i])
<1>1. p \in Seq(Pieces) /\ i \in Nat \ {0} /\ i \in 0..Len(p) /\ i - 1 \in 0..Len(p) /\ i \in 1..Len(p)
  BY DEF Calls
<1>2. p[i] \in Pieces
  BY <1>1
<1>3. /\ parent \in Seq(Pieces) /\ Len(parent) = i - 1
      /\ \A j \in 1..(i - 1) : parent[j] = p[j]
  BY <1>1, PrefixFacts DEF getParentPath
<1>4. /\ current \in Seq(Pieces) /\ Len(current) = i
      /\ \A j \in 1..i : current[j] = p[j]
  BY <1>1, PrefixFacts DEF getCurrentPath
<1>. HIDE DEF p, i, parent, current
<1>5. /\ a \in Seq(Pieces) /\ Len(a) = i /\ a[i] = p[i]
      /\ \A j \in 1..(i - 1) : a[j] = parent[j]
  BY <1>1, <1>2, <1>3, AppendFacts
<1>. HIDE DEF a
<1>6. \A j \in 1..i : a[j] = current[j]
  <2>1. \A j \in 1..i : j = i \/ j \in 1..(i - 1)
    BY <1>1
  <2>. QED BY <1>1, <1>3, <1>4, <1>5, <2>1
<1>7. current = a
  BY <1>4, <1>5, <1>6, SameSequence
<1>. QED BY <1>2, <1>3, <1>7 DEF p, i, parent, current, a

\* Outside of all directories there is nothing.
LEMMA NothingOutside ==
    ASSUME NEW call \in Calls, FormedPath(call.pieces), call.i <= Len(call.pieces),
           Here(call) \notin Directories
    PROVE  ~exists(call.slash, getCurrentPath(call))
<1>1. call.i \in Nat \ {0} /\ call.pieces \in Seq(Pieces)
  BY DEF Calls
<1>2. call.i # 1
  <2>1. SUFFICES ASSUME call.i = 1 PROVE FALSE
    OBVIOUS
  <2>2. Len(getParentPath(call)) = 0 /\ getParentPath(call) \in Seq(Pieces)
    BY <2>1, CurrentPath
  <2>3. getParentPath(call) = <<>>
    BY <2>2
  <2>4. Here(call) = <<>>
    BY <2>3 DEF Here, Resolve
  <2>. QED BY <2>4, TreeAssumption DEF Directories
<1>3. call.pieces[call.i] # EmptyPiece /\ call.pieces[call.i] \in Pieces
  BY <1>1, <1>2, CurrentPath DEF FormedPath
<1>4. \/ Resolve(call.slash, getCurrentPath(call)) = Nowhere
      \/ /\ Resolve(call.slash, getCurrentPath(call)) = Append(Here(call), call.pieces[call.i])
         /\ Here(call) \in Seq(Pieces)
  BY <1>3, StepDown, CurrentPath
<1>5. Append(Here(call), call.pieces[call.i]) \notin Directories \cup RegularFiles
      \/ Here(call) \notin Seq(Pieces)
  BY <1>3, InDirectory
<1>. QED BY <1>4, <1>5, NowhereIsNothing DEF exists

\* A path that is there and that does not lead to a directory is a file of
\* the project.
LEMMA CurrentIsFile ==
    ASSUME NEW call \in Calls, FormedPath(call.pieces), call.i <= Len(call.pieces),
           ~isDirectory(call.slash, getCurrentPath(call)), exists(call.slash, getCurrentPath(call))
    PROVE  Comes(getCurrentPath(call), call.pieces)
<1>. DEFINE current == getCurrentPath(call)
            i == call.i
<1>1. i \in Nat \ {0} /\ call.pieces \in Seq(Pieces) /\ i \in 1..Len(call.pieces) /\ i \in 0..Len(call.pieces)
  BY DEF Calls
<1>2. /\ current \in Seq(Pieces) /\ Len(current) = i /\ current = SubSeq(call.pieces, 1, i)
  BY <1>1, PrefixFacts DEF getCurrentPath
<1>3. call.pieces[i] # EmptyPiece
  <2>1. SUFFICES ASSUME call.pieces[i] = EmptyPiece PROVE FALSE
    OBVIOUS
  <2>2. i = 1
    BY <1>1, <2>1 DEF FormedPath
  <2>3. FormedPath(current) /\ current[1] = EmptyPiece /\ Len(current) = 1
    BY <1>1, <1>2, <2>1, <2>2, PrefixFormed, PrefixFacts
  <2>. HIDE DEF current
  <2>4. current # <<>> /\ Head(current) = EmptyPiece
    <3>1. current \in Seq(Pieces) /\ Len(current) = 1 /\ current[1] = EmptyPiece
      BY <1>2, <2>3
    <3>. QED BY <3>1, HeadIsFirst
  <2>5. Lead(current) = 1
    BY <2>3, <2>4 DEF Lead
  <2>6. Plain(current) \in Seq(Pieces) /\ Len(Plain(current)) = 0
    <3>1. Plain(current) \in Seq(Pieces) /\ Len(Plain(current)) = Len(current) - Lead(current)
      BY <2>3, PlainOfFormed
    <3>2. Len(current) - Lead(current) = 0
      BY <2>3, <2>5
    <3>. QED BY <3>1, <3>2
  <2>7. Resolve(call.slash, current) = <<>>
    BY <2>4, <2>6 DEF Resolve
  <2>. QED BY <2>7, TreeAssumption DEF isDirectory, Directories, current
<1>4. \/ Resolve(call.slash, current) = Nowhere
      \/ Resolve(call.slash, current) = Resolve(TRUE, current)
  BY <1>3, StepDown, CurrentPath
<1>5. Resolve(TRUE, current) \in RegularFiles
  BY <1>4, NowhereIsNothing DEF exists, isDirectory
<1>6. Refines(current, SubSeq(call.pieces, 1, i))
  <2>. HIDE DEF current
  <2>. QED BY <1>2 DEF Refines
<1>. QED BY <1>1, <1>2, <1>5, <1>6 DEF Comes

\* A file listed for a pattern in the last place.
LEMMA ListedFile ==
    ASSUME NEW call \in Calls, FormedPath(call.pieces), Globs(call),
           NEW path \in Range(FilesHere(call))
    PROVE  Comes(path, call.pieces)
<1>. DEFINE p == call.pieces
            i == call.i
            parent == getParentPath(call)
<1>0. i = Len(p) /\ exists(call.slash, path)
  <2>1. call.i <= Len(call.pieces) /\ Here(call) \in Directories
    BY DEF Globs
  <2>. QED BY <2>1, FilesHereFacts
<1>1. p \in Seq(Pieces) /\ i \in Nat \ {0} /\ i = Len(p) /\ i \in 1..Len(p) /\ exists(call.slash, path)
  <2>1. p \in Seq(Pieces) /\ i \in Nat \ {0}
    BY DEF Calls
  <2>. HIDE DEF p, i
  <2>. QED BY <1>0, <2>1
<1>2. PICK name \in Range(Listed(call)) \ SubDirectories(call) : path = Append(parent, name)
  BY FilesHereFacts DEF Globs
<1>3. /\ name \in Pieces /\ name # EmptyPiece /\ name \notin Patterns
      /\ p[i] \in Patterns => Agrees(name, p[i])
      /\ Append(Here(call), name) \notin Directories
  BY <1>2, ListedFacts DEF Globs, SubDirectories
<1>4. p[i] \in Patterns
  BY DEF Globs, isValidWildCard, StarsOf
<1>5. /\ parent \in Seq(Pieces) /\ Len(parent) = i - 1
      /\ \A j \in 1..(i - 1) : parent[j] = p[j]
  BY CurrentPath DEF Globs
<1>6. \/ Resolve(call.slash, path) = Nowhere
      \/ /\ Resolve(call.slash, path) = Append(Here(call), name)
         /\ Resolve(TRUE, path) = Append(Here(call), name)
  BY <1>2, <1>3, StepDown DEF Globs
<1>7. Resolve(TRUE, path) \in RegularFiles
  BY <1>1, <1>3, <1>6, NowhereIsNothing DEF exists
<1>. HIDE DEF p, i, parent
<1>8. /\ path \in Seq(Pieces) /\ Len(path) = i /\ path[i] = name
      /\ \A j \in 1..(i - 1) : path[j] = parent[j]
  BY <1>1, <1>2, <1>3, <1>5, AppendFacts
<1>9. Refines(path, SubSeq(p, 1, i))
  <2>. DEFINE q == SubSeq(p, 1, i)
  <2>1. q \in Seq(Pieces) /\ Len(q) = i /\ \A j \in 1..i : q[j] = p[j]
    BY <1>1, PrefixFacts
  <2>2. \A j \in 1..i : j = i \/ j \in 1..(i - 1)
    BY <1>1
  <2>. HIDE DEF q
  <2>3. Refines(path, q)
    BY <1>3, <1>4, <1>5, <1>8, <2>1, <2>2 DEF Refines
  <2>. QED BY <2>3 DEF q
<1>. QED BY <1>1, <1>7, <1>8, <1>9 DEF Comes, p

LEMMA RangeSingle == \A x : Range(<<x>>) = {x} /\ Range(<<>>) = {}
  BY DEF Range

LEMMA CallSound ==
    ASSUME NEW call \in Calls, FormedPath(call.pieces),
           \A d \in Calls : FormedPath(d.pieces) /\ Rank(d) < Rank(call) => SoundResult(d, Expand[d])
    PROVE  SoundResult(call, expandWildCardRecursive(Expand, call))
<1>. DEFINE p == call.pieces
            i == call.i
            current == getCurrentPath(call)
            r == expandWildCardRecursive(Expand, call)
            I == {x \in Result : SoundResult(call, x)}
<1>1. p \in Seq(Pieces) /\ i \in Nat \ {0} /\ Len(p) \in Nat
  BY DEF Calls
<1>2. Found(<<>>, p) \in I
  <2>1. Found(<<>>, p) \in Result
    BY <1>1 DEF Found, Result
  <2>. HIDE DEF p, i
  <2>2. Refines(p, p)
    BY <1>1 DEF Refines
  <2>. QED BY <2>1, <2>2, RangeSingle DEF SoundResult, Found, p
<1>3. CASE i > Len(p)
  BY <1>1, <1>2, <1>3 DEF expandWildCardRecursive
<1>4. CASE i <= Len(p) /\ Here(call) \notin Directories
  <2>1. ~exists(call.slash, current)
    BY <1>4, NothingOutside
  <2>2. r = Found(<<>>, p)
    BY <1>1, <1>4, <2>1 DEF expandWildCardRecursive
  <2>. HIDE DEF p, r
  <2>. QED BY <1>2, <2>2 DEF r
<1>5. CASE i <= Len(p) /\ Here(call) \in Directories /\ ~isValidWildCard(p[i])
  <2>1. CASE ~isDirectory(call.slash, current) /\ exists(call.slash, current)
    <3>1. r = Found(<<current>>, p)
      BY <1>1, <1>5, <2>1 DEF expandWildCardRecursive
    <3>2. Comes(current, p)
      BY <1>5, <2>1, CurrentIsFile
    <3>. HIDE DEF current, p, i, r
    <3>3. current \in Seq(Pieces) /\ Refines(p, p)
      BY <1>1, <3>2 DEF Comes, Refines
    <3>4. Found(<<current>>, p) \in Result
      BY <1>1, <3>3 DEF Found, Result
    <3>5. SoundResult(call, Found(<<current>>, p))
      BY <3>2, <3>3, <3>4, RangeSingle DEF SoundResult, Found, p
    <3>. QED BY <3>1, <3>5 DEF r
  <2>2. CASE ~(~isDirectory(call.slash, current) /\ exists(call.slash, current))
    <3>. DEFINE d == [call EXCEPT !.i = @ + 1]
    <3>1. d \in Calls /\ d.i = i + 1 /\ d.pieces = p /\ Rank(d) < Rank(call)
      BY <1>5, NextCallFacts
    <3>2. r = Expand[d]
      <4>1. ~(i > Len(p))
        BY <1>1, <1>5
      <4>. HIDE DEF d, p, i, current
      <4>2. Expand[[call EXCEPT !.i = @ + 1]] = expandWildCardRecursive(Expand, call)
        BY <1>5, <2>2, <4>1 DEF expandWildCardRecursive, p, i, current
      <4>. QED BY <4>2 DEF d, r
    <3>. HIDE DEF d, r
    <3>3. SoundResult(d, Expand[d])
      BY <3>1
    <3>. QED BY <1>1, <3>1, <3>2, <3>3 DEF SoundResult, r
  <2>. QED BY <2>1, <2>2
<1>6. CASE Globs(call)
  <2>0. i \in 1..Len(p) /\ p[i] \in Patterns
    BY <1>1, <1>6 DEF Globs, isValidWildCard, StarsOf
  <2>1. /\ VisitNames(call) \in Seq(Pieces)
        /\ \A name \in Range(VisitNames(call)) :
              /\ name \in Pieces /\ name \notin Patterns /\ name # EmptyPiece
              /\ Agrees(name, p[i])
    BY <1>6, <2>0, ListedFacts DEF Globs, SubDirectories
  <2>2. ASSUME NEW before \in I, NEW name \in Range(VisitNames(call))
        PROVE  Collect(before, Expand[VisitCall(call, before.pieces, name)]) \in I
    <3>. DEFINE d == VisitCall(call, before.pieces, name)
                b == before.pieces
    <3>1. /\ before \in Result /\ Refines(b, p) /\ b \in Seq(Pieces) /\ Len(b) = Len(p)
          /\ \A j \in 1..Len(p) : j < i => b[j] = p[j]
          /\ \A path \in Range(before.paths) : Comes(path, p)
      BY DEF SoundResult, Refines
    <3>. HIDE DEF I
    <3>2. d \in Calls /\ d.i = i /\ d.pieces = [b EXCEPT ![i] = name] /\ Rank(d) < Rank(call)
      BY <1>6, <2>1, <3>1, VisitCallFacts DEF Globs
    <3>3. Refines(d.pieces, p) /\ Len(d.pieces) = Len(p)
          /\ \A j \in 1..Len(p) : j < i => d.pieces[j] = p[j]
      <4>. DEFINE q == [b EXCEPT ![i] = name]
      <4>1. /\ q \in Seq(Pieces) /\ Len(q) = Len(p) /\ q[i] = name
            /\ \A j \in 1..Len(p) : j # i => q[j] = b[j]
        BY <2>0, <2>1, <3>1
      <4>. HIDE DEF q, d, b, p, i
      <4>2. Refines(q, p)
        BY <2>0, <2>1, <3>1, <4>1 DEF Refines
      <4>3. \A j \in 1..Len(p) : j < i => q[j] = p[j]
        BY <1>1, <2>0, <3>1, <4>1
      <4>. QED BY <3>2, <4>1, <4>2, <4>3 DEF q
    <3>. HIDE DEF d, b
    <3>. DEFINE x == Expand[d]
    <3>4. SoundResult(d, x)
      BY <3>2, <3>3, RefinesFormed
    <3>. HIDE DEF x, p, i
    <3>5. /\ x \in Result /\ Refines(x.pieces, d.pieces)
          /\ \A j \in 1..Len(p) : j < i => x.pieces[j] = d.pieces[j]
          /\ \A path \in Range(x.paths) : Comes(path, d.pieces)
      BY <3>2, <3>3, <3>4 DEF SoundResult
    <3>6. Refines(x.pieces, p) /\ \A j \in 1..Len(p) : j < i => x.pieces[j] = p[j]
      BY <3>3, <3>5, RefinesTransitive
    <3>7. \A path \in Range(x.paths) : Comes(path, p)
      BY <1>1, <3>3, <3>5, ComesVia
    <3>8. before.paths \in Seq(Seq(Pieces)) /\ x.paths \in Seq(Seq(Pieces)) /\ x.pieces \in Seq(Pieces)
      BY <3>1, <3>5 DEF Result
    <3>9. /\ before.paths \o x.paths \in Seq(Seq(Pieces))
          /\ Range(before.paths \o x.paths) = Range(before.paths) \cup Range(x.paths)
      BY <3>8, RangeOfConcat
    <3>. DEFINE y == Collect(before, x)
    <3>10. y.paths = before.paths \o x.paths /\ y.pieces = x.pieces /\ y \in Result
      BY <3>8, <3>9 DEF Collect, Found, Result
    <3>. HIDE DEF y
    <3>11. SoundResult(call, y)
      BY <3>1, <3>6, <3>7, <3>9, <3>10 DEF SoundResult, p, i
    <3>. QED BY <3>10, <3>11 DEF I, y, x, d, b
  <2>. DEFINE v == VisitDirectories(Expand, call)
  <2>3. v \in I
    <3>. HIDE DEF I
    <3>. QED BY <1>2, <2>1, <2>2, VisitInvariant
  <2>4. r = Found(v.paths \o FilesHere(call), v.pieces)
    BY <1>1, <1>6 DEF expandWildCardRecursive, Globs
  <2>5. FilesHere(call) \in Seq(Seq(Pieces)) /\ \A path \in Range(FilesHere(call)) : Comes(path, p)
    BY <1>6, FilesHereFacts, ListedFile DEF Globs
  <2>6. /\ v \in Result /\ v.paths \in Seq(Seq(Pieces)) /\ v.pieces \in Seq(Pieces)
        /\ SoundResult(call, v)
    BY <2>3 DEF Result
  <2>. HIDE DEF v, r, I
  <2>7. /\ v.paths \o FilesHere(call) \in Seq(Seq(Pieces))
        /\ Range(v.paths \o FilesHere(call)) = Range(v.paths) \cup Range(FilesHere(call))
    BY <2>5, <2>6, RangeOfConcat
  <2>8. r.paths = v.paths \o FilesHere(call) /\ r.pieces = v.pieces /\ r \in Result
    BY <2>4, <2>6, <2>7 DEF Found, Result
  <2>9. SoundResult(call, r)
    BY <2>5, <2>6, <2>7, <2>8 DEF SoundResult
  <2>. QED BY <2>9 DEF r
<1>. QED BY <1>1, <1>3, <1>4, <1>5, <1>6 DEF Globs

LEMMA ExpandSound ==
    ASSUME NEW call \in Calls, FormedPath(call.pieces)
    PROVE  SoundResult(call, Expand[call])
<1>. DEFINE N == Rank(call)
            S == {n \in 0..N : \A d \in Calls :
                    FormedPath(d.pieces) /\ Rank(d) <= n => SoundResult(d, Expand[d])}
<1>0. N \in Nat /\ \A d \in Calls : Rank(d) \in Nat
  BY RankType
<1>. HIDE DEF N
<1>1. 0 \in S
  <2>1. ASSUME NEW d \in Calls, FormedPath(d.pieces), Rank(d) <= 0
        PROVE  SoundResult(d, Expand[d])
    <3>1. \A c \in Calls : ~(Rank(c) < Rank(d))
      BY <1>0, <2>1
    <3>. QED BY <2>1, <3>1, CallSound, ExpandDef
  <2>. QED BY <1>0, <2>1
<1>2. ASSUME NEW n \in 0..N, n < N, n \in S PROVE n + 1 \in S
  <2>1. ASSUME NEW d \in Calls, FormedPath(d.pieces), Rank(d) <= n + 1
        PROVE  SoundResult(d, Expand[d])
    <3>1. \A c \in Calls : FormedPath(c.pieces) /\ Rank(c) < Rank(d) => SoundResult(c, Expand[c])
      BY <1>0, <1>2, <2>1
    <3>. QED BY <2>1, <3>1, CallSound, ExpandDef
  <2>. QED BY <1>0, <1>2, <2>1
<1>3. N \in S
  <2>. HIDE DEF S
  <2>1. \A n \in 0..N : n \in S
    BY <1>0, <1>1, <1>2, Induction
  <2>. QED BY <1>0, <2>1
<1>. QED BY <1>0, <1>3 DEF N

\* What an expansion comes to is a file that the first pieces of the pattern
\* match.
LEMMA ComesMatches ==
    ASSUME NEW p, FormedPath(p), NEW path, Comes(path, p)
    PROVE  /\ Resolve(TRUE, path) \in RegularFiles /\ Len(path) <= Len(p)
           /\ Matches(path, SubSeq(p, 1, Len(path)))
<1>. DEFINE k == Len(path)
            q == SubSeq(p, 1, k)
<1>1. /\ p \in Seq(Pieces) /\ path \in Seq(Pieces) /\ k \in 1..Len(p) /\ k \in 0..Len(p)
      /\ Len(p) \in Nat /\ Resolve(TRUE, path) \in RegularFiles /\ Refines(path, q)
  <2>1. p \in Seq(Pieces) /\ Len(p) \in Nat
    BY DEF FormedPath
  <2>2. path \in Seq(Pieces) /\ k \in 1..Len(p) /\ Resolve(TRUE, path) \in RegularFiles /\ Refines(path, q)
    BY DEF Comes
  <2>. HIDE DEF k, q
  <2>3. k \in 0..Len(p)
    BY <2>1, <2>2
  <2>. QED BY <2>1, <2>2, <2>3, Zenon
<1>2. FormedPath(q) /\ FormedPath(path) /\ q \in Seq(Pieces) /\ Len(q) = k
  BY <1>1, PrefixFormed, PrefixFacts, RefinesFormed
<1>. HIDE DEF q, k
<1>3. k = Len(path) /\ \A j \in 1..k : Agrees(path[j], q[j])
  BY <1>1, <1>2 DEF Refines, Agrees, k
<1>4. (path[1] = EmptyPiece) <=> (q[1] = EmptyPiece)
  <2>1. \/ path[1] = q[1]
        \/ path[1] # EmptyPiece /\ q[1] \in Patterns
    BY <1>1, <1>2 DEF Refines
  <2>. QED BY <2>1, PatternAssumption DEF Patterns
<1>5. /\ path # <<>> /\ q # <<>> /\ Head(path) = path[1] /\ Head(q) = q[1]
  BY <1>1, <1>2, <1>3, HeadIsFirst
<1>6. Lead(path) = Lead(q) /\ Lead(q) \in {0, 1}
  BY <1>4, <1>5 DEF Lead
<1>. DEFINE x == Plain(path)
            y == Plain(q)
            e == Lead(q)
<1>7. /\ x \in Seq(Pieces) /\ y \in Seq(Pieces) /\ Len(x) = k - e /\ Len(y) = k - e
      /\ \A j \in 1..Len(x) : x[j] = path[j + e]
      /\ \A j \in 1..Len(y) : y[j] = q[j + e]
  BY <1>2, <1>3, <1>6, PlainOfFormed
<1>. HIDE DEF x, y, e
<1>8. DOMAIN x = 1..Len(x) /\ \A j \in 1..Len(x) : j + e \in 1..k
  BY <1>1, <1>6, <1>7 DEF e
<1>9. \A j \in DOMAIN x : Agrees(x[j], y[j])
  BY <1>3, <1>7, <1>8
<1>10. Matches(path, q)
  <2>1. Len(x) = Len(y) /\ ((Head(path) = EmptyPiece) = (Head(q) = EmptyPiece))
    BY <1>4, <1>5, <1>7
  <2>2. Len(Plain(path)) = Len(Plain(q))
    BY <2>1 DEF x, y
  <2>3. \A j \in DOMAIN Plain(path) : Agrees(Plain(path)[j], Plain(q)[j])
    BY <1>9 DEF x, y
  <2>. QED BY <2>1, <2>2, <2>3, Zenon DEF Matches
<1>11. k <= Len(p)
  BY <1>1
<1>12. Len(path) <= Len(p) /\ Matches(path, SubSeq(p, 1, Len(path)))
  BY <1>10, <1>11, Zenon DEF q, k
<1>. QED BY <1>1, <1>12, Zenon

\* What the lists of the configuration become: paths that were on them, and
\* what comes of the patterns.
LEMMA ListsExpanded ==
    ASSUME NEW slash \in BOOLEAN, NEW list \in Seq(Seq(Pieces)),
           \A p \in Range(list) : FormedPath(p)
    PROVE  /\ expandWildCards(slash, list) \in Seq(Seq(Pieces))
           /\ \A path : path \in Range(expandWildCards(slash, list)) <=>
                 \/ path \in Range(list) /\ StarsIn(path) # 1
                 \/ \E p \in Range(list) : StarsIn(p) > 0 /\ path \in Range(expandWildCard(slash, p))
           /\ \A p \in Range(list) : \A path \in Range(expandWildCard(slash, p)) : Comes(path, p)
<1>. DEFINE starred == {path \in Range(list) : StarsIn(path) > 0}
            literal == {path \in Range(list) : StarsIn(path) # 1}
            patterns == Filter(list, starred)
            q == [n \in DOMAIN patterns |-> expandWildCard(slash, patterns[n])]
            m == Len(patterns)
<1>1. /\ patterns \in Seq(Seq(Pieces)) /\ Range(patterns) = starred
      /\ Filter(list, literal) \in Seq(Seq(Pieces)) /\ Range(Filter(list, literal)) = literal
  <2>1. Range(list) \cap starred = starred /\ Range(list) \cap literal = literal
    OBVIOUS
  <2>. HIDE DEF starred, literal
  <2>. QED BY <2>1, FilterElements
<1>2. ASSUME NEW p \in Range(list)
      PROVE  /\ expandWildCard(slash, p) \in Seq(Seq(Pieces))
             /\ \A path \in Range(expandWildCard(slash, p)) : Comes(path, p)
  <2>. DEFINE call == [slash |-> slash, pieces |-> p, i |-> 1]
  <2>1. call \in Calls /\ call.pieces = p
    BY <1>2 DEF Calls, FormedPath
  <2>. HIDE DEF call
  <2>2. SoundResult(call, Expand[call])
    BY <1>2, <2>1, ExpandSound
  <2>3. expandWildCard(slash, p) = Expand[call].paths
    BY DEF expandWildCard, call
  <2>. QED BY <2>1, <2>2, <2>3 DEF SoundResult, Result
<1>3. m \in Nat /\ DOMAIN patterns = 1..m /\ \A n \in 1..m : patterns[n] \in Range(patterns)
  <2>1. patterns \in Seq(Seq(Pieces))
    BY <1>1
  <2>. HIDE DEF patterns
  <2>. QED BY <2>1 DEF Range
<1>4. \A x : x \in starred <=> \E n \in 1..m : patterns[n] = x
  BY <1>1, <1>3 DEF Range
<1>. HIDE DEF patterns, m
<1>5. DOMAIN q = 1..m /\ \A n \in 1..m : q[n] = expandWildCard(slash, patterns[n])
  BY <1>3
<1>6. \A n \in 1..m : q[n] \in Seq(Seq(Pieces))
  BY <1>1, <1>2, <1>3, <1>5
<1>7. q = [n \in 1..m |-> q[n]]
  BY <1>5
<1>. HIDE DEF q
<1>8. q \in Seq(Seq(Seq(Pieces)))
  BY <1>3, <1>6, <1>7
<1>9. /\ FlattenSeq(q) \in Seq(Seq(Pieces))
      /\ \A x : x \in Range(FlattenSeq(q)) <=> \E n \in 1..m : x \in Range(q[n])
  BY <1>3, <1>5, <1>8, FlattenElements
<1>10. expandWildCards(slash, list) = Filter(list, literal) \o FlattenSeq(q)
  BY DEF expandWildCards, removeWildCardPaths, patterns, q
<1>11. /\ expandWildCards(slash, list) \in Seq(Seq(Pieces))
       /\ Range(expandWildCards(slash, list)) = literal \cup Range(FlattenSeq(q))
  <2>. HIDE DEF literal
  <2>. QED BY <1>1, <1>9, <1>10, RangeOfConcat
<1>12. \A x : x \in Range(FlattenSeq(q)) <=> \E p \in starred : x \in Range(expandWildCard(slash, p))
  <2>. DEFINE w(p) == Range(expandWildCard(slash, p))
  <2>1. \A n \in 1..m : Range(q[n]) = w(patterns[n])
    BY <1>5
  <2>2. \A x : x \in Range(FlattenSeq(q)) <=> \E n \in 1..m : x \in w(patterns[n])
    BY <1>9, <2>1
  <2>. HIDE DEF starred, w
  <2>3. \A x : (\E n \in 1..m : x \in w(patterns[n])) <=> \E p \in starred : x \in w(p)
    BY <1>4
  <2>. QED BY <2>2, <2>3 DEF w
<1>. QED BY <1>2, <1>11, <1>12

-----------------------------------------------------------------------------
(* What there is on the way to a file.                                     *)

LEMMA PrefixStep ==
    ASSUME NEW S, NEW s \in Seq(S), NEW k \in 0..Len(s), k < Len(s)
    PROVE  /\ SubSeq(s, 1, k + 1) = Append(SubSeq(s, 1, k), s[k + 1])
           /\ s[k + 1] \in S
<1>. DEFINE t == SubSeq(s, 1, k)
            u == SubSeq(s, 1, k + 1)
            a == Append(t, s[k + 1])
<1>1. k \in Nat /\ k + 1 \in 0..Len(s) /\ k + 1 \in 1..Len(s) /\ s[k + 1] \in S
  OBVIOUS
<1>2. t \in Seq(S) /\ Len(t) = k /\ \A j \in 1..k : t[j] = s[j]
  BY PrefixFacts
<1>3. u \in Seq(S) /\ Len(u) = k + 1 /\ \A j \in 1..(k + 1) : u[j] = s[j]
  BY <1>1, PrefixFacts
<1>4. a \in Seq(S) /\ Len(a) = k + 1 /\ a[k + 1] = s[k + 1] /\ \A j \in 1..k : a[j] = t[j]
  BY <1>1, <1>2, AppendFacts
<1>. HIDE DEF t, u, a
<1>5. \A j \in 1..(k + 1) : j = k + 1 \/ j \in 1..k
  BY <1>1
<1>6. \A j \in 1..(k + 1) : u[j] = a[j]
  BY <1>1, <1>2, <1>3, <1>4, <1>5
<1>7. u = a
  BY <1>3, <1>4, <1>6, SameSequence
<1>. QED BY <1>1, <1>7 DEF u, a, t

LEMMA WholePrefix ==
    ASSUME NEW S, NEW s \in Seq(S)
    PROVE  SubSeq(s, 1, Len(s)) = s
<1>1. Len(s) \in 0..Len(s)
  OBVIOUS
<1>. QED BY <1>1, PrefixFacts, SameSequence

\* The directories above what is there are there, with what leads to it.
LEMMA Ancestors ==
    ASSUME NEW f \in Directories \cup RegularFiles, NEW k \in 0..Len(f), k < Len(f)
    PROVE  /\ SubSeq(f, 1, k) \in Directories
           /\ f[k + 1] \in Range(Listing[SubSeq(f, 1, k)])
<1>. DEFINE N == Len(f) - 1
            Up(j) == /\ SubSeq(f, 1, j) \in Directories
                     /\ f[j + 1] \in Range(Listing[SubSeq(f, 1, j)])
            D == {n \in 0..N : Up(N - n)}
<1>1. f \in Seq(Pieces) /\ Len(f) \in Nat /\ N \in Nat /\ N \in 0..Len(f) /\ N < Len(f) /\ N + 1 = Len(f)
      /\ k \in 0..N
  <2>1. f \in Seq(Pieces)
    BY ThereArePaths
  <2>2. Len(f) \in Nat
    BY <2>1
  <2>. QED BY <2>1, <2>2
<1>2. ASSUME NEW j \in 0..N, SubSeq(f, 1, j + 1) \in Directories \cup RegularFiles
      PROVE  Up(j)
  <2>1. j \in 0..Len(f) /\ j < Len(f)
    BY <1>1
  <2>2. SubSeq(f, 1, j + 1) = Append(SubSeq(f, 1, j), f[j + 1]) /\ f[j + 1] \in Pieces
        /\ SubSeq(f, 1, j) \in Seq(Pieces)
    BY <1>1, <2>1, PrefixStep, PrefixFacts
  <2>. DEFINE t == SubSeq(f, 1, j)
              name == f[j + 1]
  <2>3. t \in Seq(Pieces) /\ name \in Pieces /\ Append(t, name) \in Directories \cup RegularFiles
    BY <1>2, <2>2
  <2>. HIDE DEF t, name
  <2>4. t \in Directories /\ name \in Range(Listing[t])
    BY <2>3, InDirectory
  <2>. QED BY <2>4 DEF t, name
<1>3. 0 \in D
  <2>1. SubSeq(f, 1, N + 1) = f
    BY <1>1, WholePrefix
  <2>2. N \in 0..N /\ 0 \in 0..N /\ N - 0 = N
    BY <1>1
  <2>3. Up(N)
    BY <1>2, <2>1, <2>2
  <2>. HIDE DEF Up, N
  <2>. QED BY <2>2, <2>3
<1>4. ASSUME NEW n \in 0..N, n < N, n \in D PROVE n + 1 \in D
  <2>. DEFINE j == N - (n + 1)
  <2>1. j \in 0..N /\ j + 1 = N - n /\ n + 1 \in 0..N
    BY <1>1, <1>4
  <2>2. SubSeq(f, 1, N - n) \in Directories
    BY <1>4
  <2>. HIDE DEF j, N, Up
  <2>3. Up(j)
    BY <1>2, <2>1, <2>2
  <2>. QED BY <2>1, <2>3 DEF j
<1>5. N - k \in D
  <2>. HIDE DEF D, N
  <2>1. \A n \in 0..N : n \in D
    BY <1>1, <1>3, <1>4, Induction
  <2>2. N - k \in 0..N
    BY <1>1
  <2>. QED BY <2>1, <2>2
<1>6. N - (N - k) = k
  BY <1>1
<1>. HIDE DEF N
<1>. QED BY <1>5, <1>6

\* A file of the project is named by names.
LEMMA NamesOfFile ==
    ASSUME NEW f \in RegularFiles
    PROVE  /\ f \in Seq(Pieces) /\ Len(f) \in Nat /\ f # <<>> /\ Len(f) # 0
           /\ \A j \in 1..Len(f) : f[j] \in Pieces /\ f[j] # EmptyPiece /\ f[j] \notin Patterns
<1>1. f \in Seq(Pieces) /\ f # <<>>
  <2>1. <<>> \in Directories
    BY TreeAssumption DEF Directories
  <2>2. f \notin Directories
    BY DEF RegularFiles
  <2>. QED BY <2>1, <2>2, ThereArePaths
<1>2. Len(f) \in Nat /\ Len(f) # 0
  BY <1>1
<1>3. ASSUME NEW j \in 1..Len(f)
      PROVE  f[j] \in Pieces /\ f[j] # EmptyPiece /\ f[j] \notin Patterns
  <2>1. j - 1 \in 0..Len(f) /\ j - 1 < Len(f) /\ (j - 1) + 1 = j
    BY <1>2
  <2>2. SubSeq(f, 1, j - 1) \in Directories /\ f[j] \in Range(Listing[SubSeq(f, 1, j - 1)])
    BY <2>1, Ancestors
  <2>. QED BY <2>2, Names
<1>. QED BY <1>1, <1>2, <1>3

\* The path to a file goes through directories only.
LEMMA OnTheWay ==
    ASSUME NEW slash \in BOOLEAN, NEW path, FormedPath(path), path # <<>>,
           Resolve(slash, path) \in RegularFiles,
           NEW k \in 0..Len(path), k < Len(path)
    PROVE  Resolve(slash, SubSeq(path, 1, k)) \in Directories
<1>. DEFINE f == Plain(path)
            e == Lead(path)
            h == SubSeq(path, 1, k)
<1>1. path \in Seq(Pieces) /\ Len(path) \in Nat /\ Len(path) # 0 /\ Head(path) = path[1]
  <2>1. path \in Seq(Pieces) /\ Len(path) # 0
    BY DEF FormedPath
  <2>. QED BY <2>1, HeadIsFirst
<1>2. Resolve(slash, path) = f /\ (slash \/ Head(path) = EmptyPiece)
  BY NowhereIsNothing DEF Resolve
<1>3. /\ f \in Seq(Pieces) /\ Len(f) = Len(path) - e /\ e \in {0, 1}
      /\ \A j \in 1..Len(f) : f[j] = path[j + e]
  BY PlainOfFormed DEF Lead
<1>4. FormedPath(h) /\ h \in Seq(Pieces) /\ Len(h) = k /\ \A j \in 1..k : h[j] = path[j]
  BY <1>1, PrefixFormed, PrefixFacts
<1>. HIDE DEF f, h
<1>5. CASE k = 0
  <2>1. h = <<>>
    BY <1>4, <1>5
  <2>. QED BY <2>1, TreeAssumption DEF Resolve, Directories, h
<1>6. CASE k # 0
  <2>1. Len(h) # 0 /\ 1 \in 1..k /\ k \in Nat
    BY <1>1, <1>4, <1>6
  <2>2. h # <<>> /\ Head(h) = path[1] /\ h[1] = path[1]
    BY <1>4, <2>1, HeadIsFirst
  <2>3. Resolve(slash, h) = Plain(h)
    BY <1>1, <1>2, <2>2 DEF Resolve
  <2>4. Lead(h) = e
    BY <2>2 DEF Lead
  <2>. HIDE DEF e
  <2>. DEFINE x == Plain(h)
              y == SubSeq(f, 1, k - e)
  <2>5. x \in Seq(Pieces) /\ Len(x) = k - e /\ \A j \in 1..Len(x) : x[j] = h[j + e]
    BY <1>4, <2>4, PlainOfFormed
  <2>6. k - e \in 0..Len(f) /\ k - e < Len(f)
    BY <1>1, <1>3, <2>1
  <2>7. y \in Seq(Pieces) /\ Len(y) = k - e /\ \A j \in 1..(k - e) : y[j] = f[j]
    BY <1>3, <2>6, PrefixFacts
  <2>8. y \in Directories
    BY <1>2, <2>6, Ancestors
  <2>. HIDE DEF x, y
  <2>9. ASSUME NEW j \in 1..(k - e) PROVE x[j] = y[j]
    <3>1. j + e \in 1..k /\ j \in 1..Len(f)
      BY <1>3, <2>1, <2>6
    <3>. QED BY <1>3, <1>4, <2>5, <2>7, <3>1
  <2>10. x = y
    BY <2>5, <2>7, <2>9, SameSequence
  <2>. QED BY <2>3, <2>8, <2>10 DEF x, h
<1>. QED BY <1>5, <1>6

-----------------------------------------------------------------------------
(* Counting stars.                                                         *)

LEMMA StarsType ==
    \A piece : /\ StarsOf(piece) \in Nat
               /\ StarsOf(piece) = 0 <=> piece \notin Patterns
  BY PatternAssumption DEF StarsOf, Patterns

\* The stars up to a piece, the way StarsIn adds them up.
Adding(sum, p) ==
    /\ sum[0] = 0
    /\ \A n \in 0..Len(p) : n < Len(p) => sum[n + 1] = sum[n] + StarsOf(p[n + 1])

LEMMA StarsAdded ==
    ASSUME NEW p \in Seq(Pieces)
    PROVE  \E sum : Adding(sum, p) /\ StarsIn(p) = sum[Len(p)]
<1>. DEFINE Next1(f, n) == IF n = 0 THEN 0 ELSE f[n - 1] + StarsOf(p[n])
            Good(f, k) == f = [n \in 0..k |-> Next1(f, n)]
            D == {k \in 0..Len(p) : \E f : Good(f, k)}
<1>0. Len(p) \in Nat
  OBVIOUS
<1>1. 0 \in D
  <2>. DEFINE f == [n \in 0..0 |-> 0]
  <2>1. Good(f, 0)
    OBVIOUS
  <2>. HIDE DEF Good, f
  <2>. QED BY <1>0, <2>1
<1>2. ASSUME NEW k \in 0..Len(p), k < Len(p), k \in D
      PROVE  k + 1 \in D
  <2>1. PICK f : Good(f, k)
    BY <1>2
  <2>. DEFINE g == [n \in 0..(k + 1) |-> Next1(f, n)]
  <2>2. \A n \in 0..k : g[n] = f[n]
    <3>1. 0..k \subseteq 0..(k + 1)
      BY <1>0, <1>2
    <3>. HIDE DEF Next1
    <3>. QED BY <2>1, <3>1
  <2>3. \A n \in 0..(k + 1) : n # 0 => n - 1 \in 0..k
    BY <1>0, <1>2
  <2>4. \A n \in 0..(k + 1) : Next1(f, n) = Next1(g, n)
    <3>. HIDE DEF g, Good
    <3>. QED BY <2>2, <2>3
  <2>5. Good(g, k + 1)
    <3>. HIDE DEF Next1
    <3>. QED BY <2>4
  <2>6. k + 1 \in 0..Len(p)
    BY <1>0, <1>2
  <2>. HIDE DEF Good, g
  <2>. QED BY <2>5, <2>6
<1>3. Len(p) \in D
  <2>. HIDE DEF D
  <2>1. \A k \in 0..Len(p) : k \in D
    BY <1>0, <1>1, <1>2, Induction
  <2>. QED BY <1>0, <2>1
<1>. DEFINE sum == CHOOSE f : Good(f, Len(p))
<1>4. StarsIn(p) = sum[Len(p)]
  BY DEF StarsIn
<1>5. Good(sum, Len(p))
  <2>. HIDE DEF Good
  <2>. QED BY <1>3
<1>6. Adding(sum, p)
  <2>. HIDE DEF sum
  <2>1. \A n \in 0..Len(p) : sum[n] = Next1(sum, n)
    <3>. HIDE DEF Next1
    <3>. QED BY <1>5
  <2>2. sum[0] = 0
    BY <1>0, <2>1
  <2>3. ASSUME NEW n \in 0..Len(p), n < Len(p)
        PROVE  sum[n + 1] = sum[n] + StarsOf(p[n + 1])
    <3>1. n + 1 \in 0..Len(p) /\ n + 1 # 0 /\ (n + 1) - 1 = n
      BY <1>0, <2>3
    <3>2. sum[n + 1] = Next1(sum, n + 1)
      BY <2>1, <3>1
    <3>. QED BY <3>1, <3>2
  <2>. QED BY <2>2, <2>3 DEF Adding
<1>. QED BY <1>4, <1>6

\* A path with one star has one piece that is a pattern.
LEMMA OneStar ==
    ASSUME NEW p \in Seq(Pieces), StarsIn(p) = 1
    PROVE  \E i \in 1..Len(p) : /\ isValidWildCard(p[i]) /\ p[i] \in Patterns
                                /\ \A j \in 1..Len(p) : j # i => p[j] \notin Patterns
<1>1. PICK sum : Adding(sum, p) /\ StarsIn(p) = sum[Len(p)]
  BY StarsAdded
<1>. DEFINE None(n) == \A j \in 1..n : StarsOf(p[j]) = 0
            One(n) == \E i \in 1..n : /\ StarsOf(p[i]) = 1
                                      /\ \A j \in 1..n : j # i => StarsOf(p[j]) = 0
            D == {n \in 0..Len(p) : /\ sum[n] \in Nat
                                    /\ sum[n] = 0 => None(n)
                                    /\ sum[n] = 1 => One(n)}
<1>2. Len(p) \in Nat
  OBVIOUS
<1>3. 0 \in D
  BY <1>1, <1>2 DEF Adding
<1>4. ASSUME NEW n \in 0..Len(p), n < Len(p), n \in D PROVE n + 1 \in D
  <2>. DEFINE a == sum[n]
              b == StarsOf(p[n + 1])
  <2>1. n + 1 \in 0..Len(p) /\ n + 1 \in 1..(n + 1) /\ n \in Nat
        /\ (\A j \in 1..(n + 1) : j = n + 1 \/ j \in 1..n)
        /\ (\A j \in 1..n : j \in 1..(n + 1) /\ j # n + 1)
    BY <1>2, <1>4
  <2>2. sum[n + 1] = a + b
    BY <1>1, <1>4 DEF Adding
  <2>3. a \in Nat /\ b \in Nat /\ (a = 0 => None(n)) /\ (a = 1 => One(n))
    BY <1>4, StarsType
  <2>. HIDE DEF None, One
  <2>4. a = 0 /\ b = 0 => None(n + 1)
    BY <2>1, <2>3 DEF None
  <2>5. a = 0 /\ b = 1 => One(n + 1)
    BY <2>1, <2>3 DEF None, One
  <2>6. a = 1 /\ b = 0 => One(n + 1)
    BY <2>1, <2>3 DEF One
  <2>. HIDE DEF a, b
  <2>7. /\ a + b \in Nat /\ (a + b = 0 => a = 0 /\ b = 0)
        /\ (a + b = 1 => (a = 0 /\ b = 1) \/ (a = 1 /\ b = 0))
    BY <2>3
  <2>. QED BY <2>1, <2>2, <2>4, <2>5, <2>6, <2>7
<1>5. Len(p) \in D
  <2>. HIDE DEF D
  <2>1. \A n \in 0..Len(p) : n \in D
    BY <1>2, <1>3, <1>4, Induction
  <2>. QED BY <1>2, <2>1
<1>6. One(Len(p))
  BY <1>1, <1>5
<1>7. PICK i \in 1..Len(p) : StarsOf(p[i]) = 1 /\ \A j \in 1..Len(p) : j # i => StarsOf(p[j]) = 0
  BY <1>6
<1>8. isValidWildCard(p[i]) /\ p[i] \in Patterns
  BY <1>7, StarsType DEF isValidWildCard
<1>9. \A j \in 1..Len(p) : j # i => p[j] \notin Patterns
  BY <1>7, StarsType
<1>. QED BY <1>8, <1>9

-----------------------------------------------------------------------------
(* What a pattern with one star finds.                                     *)

At(slash, p, i) == [slash |-> slash, pieces |-> p, i |-> i]

LEMMA AtFacts ==
    ASSUME NEW slash \in BOOLEAN, NEW p \in Seq(Pieces), NEW i \in 1..Len(p)
    PROVE  /\ At(slash, p, i) \in Calls
           /\ At(slash, p, i).i = i /\ At(slash, p, i).pieces = p /\ At(slash, p, i).slash = slash
           /\ Here(At(slash, p, i)) = Resolve(slash, SubSeq(p, 1, i - 1))
           /\ getCurrentPath(At(slash, p, i)) = SubSeq(p, 1, i)
           /\ getParentPath(At(slash, p, i)) = SubSeq(p, 1, i - 1)
  BY DEF At, Calls, Here, getCurrentPath, getParentPath

\* A name that leads on to a directory is stepped over.
LEMMA StepOver ==
    ASSUME NEW slash \in BOOLEAN, NEW p \in Seq(Pieces), NEW i \in 1..Len(p),
           p[i] \notin Patterns,
           Resolve(slash, SubSeq(p, 1, i - 1)) \in Directories,
           Resolve(slash, SubSeq(p, 1, i)) \in Directories
    PROVE  Expand[At(slash, p, i)] = Expand[At(slash, p, i + 1)]
<1>. DEFINE call == At(slash, p, i)
<1>1. /\ call \in Calls /\ call.i = i /\ call.pieces = p /\ call.slash = slash
      /\ Here(call) \in Directories /\ getCurrentPath(call) = SubSeq(p, 1, i)
  BY AtFacts
<1>0. [call EXCEPT !.i = @ + 1] = At(slash, p, i + 1)
  BY DEF At
<1>2. ~(i > Len(p)) /\ ~isValidWildCard(p[i]) /\ isDirectory(slash, SubSeq(p, 1, i))
  BY DEF isValidWildCard, StarsOf, isDirectory
<1>. HIDE DEF call
<1>3. expandWildCardRecursive(Expand, call) = Expand[[call EXCEPT !.i = @ + 1]]
  BY <1>1, <1>2 DEF expandWildCardRecursive
<1>. QED BY <1>0, <1>1, <1>3, ExpandDef DEF call

\* A path without patterns finds the file it is the path of.
LEMMA LiteralFound ==
    ASSUME NEW slash \in BOOLEAN, NEW path, FormedPath(path), path # <<>>,
           Resolve(slash, path) \in RegularFiles,
           NEW i \in 1..Len(path), \A j \in i..Len(path) : path[j] \notin Patterns
    PROVE  Expand[At(slash, path, i)] = Found(<<path>>, path)
<1>. DEFINE m == Len(path)
            found == Found(<<path>>, path)
            D == {n \in 0..(m - i) : Expand[At(slash, path, m - n)] = found}
<1>1. path \in Seq(Pieces) /\ m \in Nat /\ m # 0 /\ i \in 1..m /\ m \in 1..m
  BY DEF FormedPath
<1>2. \A k \in 0..m : k < m => Resolve(slash, SubSeq(path, 1, k)) \in Directories
  BY OnTheWay
<1>3. SubSeq(path, 1, m) = path
  BY <1>1, WholePrefix
<1>. HIDE DEF m
<1>4. 0 \in D
  <2>. DEFINE call == At(slash, path, m)
  <2>1. /\ call \in Calls /\ call.i = m /\ call.pieces = path /\ call.slash = slash
        /\ Here(call) = Resolve(slash, SubSeq(path, 1, m - 1)) /\ getCurrentPath(call) = path
    <3>1. m \in 1..Len(path)
      BY <1>1 DEF m
    <3>2. /\ call \in Calls /\ call.i = m /\ call.pieces = path /\ call.slash = slash
          /\ Here(call) = Resolve(slash, SubSeq(path, 1, m - 1))
          /\ getCurrentPath(call) = SubSeq(path, 1, m)
      BY <1>1, <3>1, AtFacts
    <3>. HIDE DEF call
    <3>. QED BY <1>3, <3>2
  <2>2. m - 1 \in 0..m /\ m - 1 < m /\ m \in i..m /\ m - 0 = m /\ 0 \in 0..(m - i)
    BY <1>1
  <2>3. Here(call) \in Directories
    BY <1>2, <2>1, <2>2
  <2>4. ~isValidWildCard(path[m])
    BY <2>2 DEF isValidWildCard, StarsOf, m
  <2>5. ~isDirectory(slash, path) /\ exists(slash, path)
    BY DEF isDirectory, exists, RegularFiles
  <2>6. ~(m > Len(path))
    BY <1>1 DEF m
  <2>. HIDE DEF call
  <2>7. expandWildCardRecursive(Expand, call) = found
    BY <2>1, <2>3, <2>4, <2>5, <2>6 DEF expandWildCardRecursive
  <2>8. Expand[call] = found
    BY <2>1, <2>7, ExpandDef
  <2>. QED BY <2>2, <2>8 DEF call
<1>5. ASSUME NEW n \in 0..(m - i), n < m - i, n \in D PROVE n + 1 \in D
  <2>. DEFINE k == m - (n + 1)
  <2>1. k \in 1..m /\ k + 1 = m - n /\ k - 1 \in 0..m /\ k - 1 < m /\ k \in 0..m /\ k < m
        /\ k \in i..m /\ n + 1 \in 0..(m - i)
    BY <1>1, <1>5
  <2>. HIDE DEF k
  <2>2. Expand[At(slash, path, k)] = Expand[At(slash, path, k + 1)]
    BY <1>1, <1>2, <2>1, StepOver DEF m
  <2>3. Expand[At(slash, path, k + 1)] = found
    BY <1>5, <2>1
  <2>. QED BY <2>1, <2>2, <2>3 DEF k
<1>6. m - i \in D
  <2>. HIDE DEF D
  <2>1. m - i \in Nat
    BY <1>1
  <2>2. \A n \in 0..(m - i) : n \in D
    BY <1>4, <1>5, <2>1, Induction
  <2>. QED BY <2>1, <2>2
<1>7. m - (m - i) = i
  BY <1>1
<1>. QED BY <1>6, <1>7

\* A name that agrees with the pattern is let through.
LEMMA ListedAll ==
    ASSUME NEW call \in Calls, Here(call) \in Directories,
           NEW name \in Range(Listing[Here(call)]), name # call.pieces[call.i],
           Agrees(name, call.pieces[call.i])
    PROVE  name \in Range(Listed(call))
<1>. DEFINE all == Listing[Here(call)]
            pattern == call.pieces[call.i]
<1>1. all \in Seq(Pieces)
  BY TreeAssumption DEF Directories
<1>2. CASE pattern = "*"
  BY <1>2 DEF Listed, filterFileNames
<1>3. CASE pattern # "*"
  <2>1. Listed(call) = Filter(all, Lets[pattern])
    BY <1>3 DEF Listed, filterFileNames
  <2>2. name \in Lets[pattern]
    BY <1>3 DEF Agrees
  <2>. HIDE DEF all, pattern
  <2>3. Range(Listed(call)) = Range(all) \cap Lets[pattern]
    BY <1>1, <2>1, FilterElements
  <2>. QED BY <2>2, <2>3 DEF all
<1>. QED BY <1>2, <1>3

\* No file that the last piece lets through is left out.
LEMMA FilesHereAll ==
    ASSUME NEW call \in Calls, call.i = Len(call.pieces), Here(call) \in Directories,
           NEW name \in Range(Listed(call)), name \notin SubDirectories(call),
           exists(call.slash, Append(getParentPath(call), name))
    PROVE  Append(getParentPath(call), name) \in Range(FilesHere(call))
<1>. DEFINE parent == getParentPath(call)
            names == Filter(Listed(call), Range(Listed(call)) \ SubDirectories(call))
            paths == [j \in DOMAIN names |-> Append(parent, names[j])]
            there == {path \in Range(paths) : exists(call.slash, path)}
<1>0. call.i <= Len(call.pieces) /\ call.pieces \in Seq(Pieces) /\ call.i - 1 \in 0..Len(call.pieces)
  BY DEF Calls
<1>1. parent \in Seq(Pieces)
  BY <1>0, PrefixFacts DEF getParentPath
<1>2. names \in Seq(Pieces) /\ name \in Range(names)
  BY <1>0, ListedFacts, FilterElements
<1>3. FilesHere(call) = Filter(paths, there)
  BY DEF FilesHere
<1>. HIDE DEF names, parent
<1>4. PICK j \in DOMAIN names : name = names[j]
  BY <1>2 DEF Range
<1>5. Append(parent, name) \in Range(paths)
  <2>1. j \in DOMAIN paths /\ paths[j] = Append(parent, name)
    BY <1>4
  <2>. HIDE DEF paths
  <2>. QED BY <2>1 DEF Range
<1>6. paths \in Seq(Seq(Pieces))
  <2>1. \A n \in DOMAIN names : Append(parent, names[n]) \in Seq(Pieces)
    BY <1>1, <1>2, AppendFacts
  <2>2. DOMAIN names = 1..Len(names) /\ Len(names) \in Nat
    BY <1>2
  <2>. QED BY <2>1, <2>2
<1>. HIDE DEF paths
<1>7. Append(parent, name) \in there
  BY <1>5 DEF parent
<1>. HIDE DEF there
<1>8. Range(Filter(paths, there)) = Range(paths) \cap there
  BY <1>6, FilterElements
<1>. QED BY <1>3, <1>5, <1>7, <1>8 DEF parent

\* What the call for one of the directories finds is not lost.
LEMMA VisitsAll ==
    ASSUME NEW expand, NEW call, VisitNames(call) \in Seq(Pieces),
           NEW I, I \subseteq Result, Found(<<>>, call.pieces) \in I,
           \A before \in I, name \in Range(VisitNames(call)) :
              /\ expand[VisitCall(call, before.pieces, name)] \in Result
              /\ Collect(before, expand[VisitCall(call, before.pieces, name)]) \in I,
           NEW name \in Range(VisitNames(call)), NEW path,
           \A before \in I : path \in Range(expand[VisitCall(call, before.pieces, name)].paths)
    PROVE  path \in Range(VisitDirectories(expand, call).paths)
<1>. DEFINE names == VisitNames(call)
            m == Len(names)
<1>0. m \in Nat
  OBVIOUS
<1>1. PICK v : Visiting(v, expand, call) /\ VisitDirectories(expand, call) = v[m]
  BY VisitsExist
<1>2. PICK at \in 1..m : names[at] = name
  BY RangeIndexed
<1>. DEFINE D == {n \in 0..m : v[n] \in I /\ (n >= at => path \in Range(v[n].paths))}
<1>3. 0 \in D
  BY <1>0, <1>1, <1>2 DEF Visiting
<1>4. ASSUME NEW n \in 0..m, n < m, n \in D PROVE n + 1 \in D
  <2>1. n + 1 \in 1..m /\ n + 1 \in 0..m
    BY <1>0, <1>4
  <2>2. names[n + 1] \in Range(names)
    BY <2>1, RangeIndexed
  <2>. DEFINE deeper == expand[VisitCall(call, v[n].pieces, names[n + 1])]
  <2>3. v[n + 1] = Collect(v[n], deeper)
    BY <1>1, <1>4 DEF Visiting
  <2>4. v[n] \in I /\ v[n] \in Result
    BY <1>4
  <2>5. deeper \in Result /\ v[n + 1] \in I
    BY <2>2, <2>3, <2>4
  <2>6. n + 1 = at => path \in Range(deeper.paths)
    BY <1>2, <2>4
  <2>. HIDE DEF deeper
  <2>7. v[n].paths \in Seq(Seq(Pieces)) /\ deeper.paths \in Seq(Seq(Pieces))
    BY <2>4, <2>5 DEF Result
  <2>8. Range(v[n].paths \o deeper.paths) = Range(v[n].paths) \cup Range(deeper.paths)
    BY <2>7, RangeOfConcat
  <2>9. v[n + 1].paths = v[n].paths \o deeper.paths
    <3>1. Collect(v[n], deeper).paths = v[n].paths \o deeper.paths
      BY DEF Collect, Found
    <3>. QED BY <2>3, <3>1, Zenon
  <2>10. n + 1 >= at => n >= at \/ n + 1 = at
    BY <1>0, <1>2, <1>4
  <2>11. n >= at => path \in Range(v[n].paths)
    BY <1>4
  <2>. QED BY <2>1, <2>5, <2>6, <2>8, <2>9, <2>10, <2>11
<1>5. m \in D
  <2>. HIDE DEF D, m
  <2>1. \A n \in 0..m : n \in D
    BY <1>0, <1>3, <1>4, Induction
  <2>. QED BY <1>0, <2>1
<1>6. m >= at
  BY <1>0, <1>2
<1>. QED BY <1>1, <1>5, <1>6

\* A pattern with one star finds the file that differs from it only there.
LEMMA CompleteForOne ==
    ASSUME NEW slash \in BOOLEAN, NEW p, FormedPath(p),
           NEW i \in 1..Len(p), isValidWildCard(p[i]), p[i] \in Patterns,
           \A j \in 1..Len(p) : j # i => p[j] \notin Patterns,
           NEW path, FormedPath(path), Len(path) = Len(p),
           Resolve(slash, path) \in RegularFiles,
           path[i] \notin Patterns, path[i] # EmptyPiece, Agrees(path[i], p[i]),
           \A j \in 1..Len(p) : j # i => path[j] = p[j]
    PROVE  path \in Range(expandWildCard(slash, p))
<1>. DEFINE m == Len(p)
            name == path[i]
            call == At(slash, p, i)
            parent == SubSeq(p, 1, i - 1)
            up == SubSeq(path, 1, i)
<1>1. /\ p \in Seq(Pieces) /\ path \in Seq(Pieces) /\ m \in Nat /\ i \in Nat /\ i # 0
      /\ path # <<>> /\ name \in Pieces
  <2>1. p \in Seq(Pieces) /\ path \in Seq(Pieces)
    BY DEF FormedPath
  <2>. QED BY <2>1
<1>2. \A k \in 0..m : k < m => Resolve(slash, SubSeq(path, 1, k)) \in Directories
  BY <1>1, OnTheWay
<1>3. \A k \in 0..m : k < i => SubSeq(p, 1, k) = SubSeq(path, 1, k)
  <2>. SUFFICES ASSUME NEW k \in 0..m, k < i PROVE SubSeq(p, 1, k) = SubSeq(path, 1, k)
    OBVIOUS
  <2>1. \A j \in 1..k : p[j] = path[j]
    BY <1>1
  <2>2. /\ SubSeq(p, 1, k) \in Seq(Pieces) /\ Len(SubSeq(p, 1, k)) = k
        /\ \A j \in 1..k : SubSeq(p, 1, k)[j] = p[j]
    BY <1>1, PrefixFacts
  <2>3. /\ SubSeq(path, 1, k) \in Seq(Pieces) /\ Len(SubSeq(path, 1, k)) = k
        /\ \A j \in 1..k : SubSeq(path, 1, k)[j] = path[j]
    BY <1>1, PrefixFacts
  <2>. QED BY <2>1, <2>2, <2>3, SameSequence
<1>. HIDE DEF m, name
<1>4. \A k \in 0..m : k < i => Resolve(slash, SubSeq(p, 1, k)) \in Directories
  <2>. SUFFICES ASSUME NEW k \in 0..m, k < i PROVE Resolve(slash, SubSeq(p, 1, k)) \in Directories
    OBVIOUS
  <2>1. i <= m /\ m \in Nat
    BY <1>1 DEF m
  <2>2. k < m
    BY <1>1, <2>1
  <2>3. Resolve(slash, SubSeq(path, 1, k)) \in Directories
    BY <1>2, <2>2
  <2>4. SubSeq(p, 1, k) = SubSeq(path, 1, k)
    BY <1>3
  <2>. QED BY <2>3, <2>4
\* The names in front are stepped over.
<1>5. Expand[At(slash, p, 1)] = Expand[call]
  <2>. DEFINE D == {n \in 0..(i - 1) : Expand[At(slash, p, 1)] = Expand[At(slash, p, n + 1)]}
  <2>1. i - 1 \in Nat /\ (i - 1) + 1 = i /\ i <= m
    BY <1>1 DEF m
  <2>2. 0 \in D
    BY <2>1
  <2>3. ASSUME NEW n \in 0..(i - 1), n < i - 1, n \in D PROVE n + 1 \in D
    <3>1. n + 1 \in 1..m /\ n + 1 \in 0..m /\ n \in 0..m /\ n < i /\ n + 1 < i /\ n + 1 # i /\ (n + 1) - 1 = n
          /\ n + 1 \in 0..(i - 1)
      BY <1>1, <2>1, <2>3
    <3>2. p[n + 1] \notin Patterns
      BY <3>1 DEF m
    <3>3. Expand[At(slash, p, n + 1)] = Expand[At(slash, p, (n + 1) + 1)]
      <4>. DEFINE k == n + 1
      <4>1. /\ k \in 1..m /\ p[k] \notin Patterns
            /\ Resolve(slash, SubSeq(p, 1, k - 1)) \in Directories
            /\ Resolve(slash, SubSeq(p, 1, k)) \in Directories
        BY <1>4, <3>1, <3>2
      <4>. HIDE DEF k
      <4>2. Expand[At(slash, p, k)] = Expand[At(slash, p, k + 1)]
        BY <1>1, <4>1, StepOver DEF m
      <4>. QED BY <4>2 DEF k
    <3>. QED BY <2>3, <3>1, <3>3
  <2>4. i - 1 \in D
    <3>. HIDE DEF D
    <3>1. \A n \in 0..(i - 1) : n \in D
      BY <2>1, <2>2, <2>3, Induction
    <3>. QED BY <2>1, <3>1
  <2>. QED BY <2>1, <2>4
<1>6. expandWildCard(slash, p) = Expand[call].paths
  BY <1>5 DEF expandWildCard, At
<1>7. /\ call \in Calls /\ call.i = i /\ call.pieces = p /\ call.slash = slash
      /\ Here(call) = Resolve(slash, parent) /\ getParentPath(call) = parent
  BY <1>1, AtFacts
<1>8. Here(call) \in Directories /\ Globs(call) /\ i <= m /\ i \in 0..m
  <2>1. i - 1 \in 0..m /\ i - 1 < i /\ i <= m /\ i \in 0..m
    BY <1>1 DEF m
  <2>2. Here(call) \in Directories
    BY <1>4, <1>7, <2>1
  <2>. HIDE DEF call
  <2>. QED BY <1>7, <2>1, <2>2 DEF Globs, m
\* The name at the star is one that the pattern lets through.
<1>9. up = Append(parent, name)
  <2>1. i - 1 \in 0..Len(path) /\ i - 1 < Len(path) /\ (i - 1) + 1 = i /\ i - 1 \in 0..m /\ i - 1 < i
    BY <1>1 DEF m
  <2>2. SubSeq(path, 1, i) = Append(SubSeq(path, 1, i - 1), path[i])
    BY <1>1, <2>1, PrefixStep
  <2>. QED BY <1>3, <2>1, <2>2 DEF name
<1>10. Resolve(slash, up) \in Directories \cup RegularFiles
       /\ (i = m => up = path) /\ (i # m => Resolve(slash, up) \in Directories)
  <2>1. CASE i = m
    <3>1. up = path
      BY <1>1, <2>1, WholePrefix DEF m
    <3>. QED BY <2>1, <3>1
  <2>2. CASE i # m
    <3>1. i \in 0..m /\ i < m
      BY <1>1, <1>8, <2>2
    <3>. QED BY <1>2, <2>2, <3>1
  <2>. QED BY <2>1, <2>2
<1>. HIDE DEF call, up, parent
<1>11. Resolve(slash, up) = Append(Here(call), name) /\ Here(call) \in Seq(Pieces)
  <2>1. name \in Pieces /\ name # EmptyPiece /\ call.i <= Len(call.pieces) /\ FormedPath(call.pieces)
    BY <1>1, <1>7, <1>8 DEF name, m
  <2>2. \/ Resolve(slash, up) = Nowhere
        \/ Resolve(slash, up) = Append(Here(call), name) /\ Here(call) \in Seq(Pieces)
    BY <1>7, <1>9, <2>1, StepDown
  <2>. QED BY <1>10, <2>2, NowhereIsNothing
<1>12. name \in Range(Listed(call))
  <2>1. name \in Range(Listing[Here(call)])
    BY <1>1, <1>10, <1>11, InDirectory
  <2>2. name # p[i] /\ Agrees(name, p[i])
    BY DEF name
  <2>. QED BY <1>7, <1>8, <2>1, <2>2, ListedAll
<1>. DEFINE v == VisitDirectories(Expand, call)
<1>13. Expand[call].paths = v.paths \o FilesHere(call)
  <2>1. ~(call.i > Len(call.pieces))
    BY <1>1, <1>7, <1>8 DEF m
  <2>2. expandWildCardRecursive(Expand, call) = Found(v.paths \o FilesHere(call), v.pieces)
    BY <1>8, <2>1 DEF expandWildCardRecursive, Globs
  <2>3. Expand[call] = Found(v.paths \o FilesHere(call), v.pieces)
    BY <1>7, <2>2, ExpandDef
  <2>. HIDE DEF v
  <2>. QED BY <2>3 DEF Found
\* A visit leaves the path as it is but for the name in the place of the star.
<1>. DEFINE I == {x \in Result : Len(x.pieces) = m /\ \A j \in 1..m : j # i => x.pieces[j] = p[j]}
<1>14. Found(<<>>, call.pieces) \in I
  BY <1>1, <1>7 DEF Found, Result, m
<1>15. /\ VisitNames(call) \in Seq(Pieces)
       /\ \A x \in Range(VisitNames(call)) : x \in Pieces /\ x \notin Patterns /\ x # EmptyPiece
  BY <1>7, <1>8, ListedFacts DEF Globs, SubDirectories
<1>16. ASSUME NEW before \in I, NEW x \in Range(VisitNames(call))
       PROVE  LET d == VisitCall(call, before.pieces, x)
              IN  /\ Expand[d] \in Result
                  /\ Collect(before, Expand[d]) \in I
                  /\ x = name => d = At(slash, path, i)
  <2>. DEFINE b == before.pieces
              d == VisitCall(call, b, x)
              q == [b EXCEPT ![i] = x]
  <2>1. /\ before \in Result /\ b \in Seq(Pieces) /\ Len(b) = m
        /\ \A j \in 1..m : j # i => b[j] = p[j]
    BY DEF Result
  <2>. HIDE DEF I
  <2>2. x \in Pieces /\ x \notin Patterns /\ x # EmptyPiece
    BY <1>15
  <2>3. d \in Calls /\ d.i = i /\ d.pieces = q
    <3>1. Len(b) = Len(call.pieces)
      BY <1>7, <2>1 DEF m
    <3>2. isValidWildCard(call.pieces[call.i]) /\ call.i <= Len(call.pieces)
      BY <1>8 DEF Globs
    <3>. QED BY <1>7, <2>1, <2>2, <3>1, <3>2, VisitCallFacts
  <2>4. i \in 1..m /\ m = Len(p)
    BY DEF m
  <2>5. /\ q \in Seq(Pieces) /\ Len(q) = m /\ q[i] = x
        /\ \A j \in 1..m : j # i => q[j] = p[j]
    <3>. HIDE DEF b
    <3>. QED BY <2>1, <2>2, <2>4
  <2>6. d.slash = slash /\ d = At(slash, q, i)
    BY <1>7 DEF VisitCall, At, call
  <2>. HIDE DEF q, d, b
  <2>7. FormedPath(q)
    <3>1. \A j \in 2..m : j \in 1..m
      BY <1>1
    <3>2. \A j \in 2..m : q[j] # EmptyPiece
      BY <2>2, <2>4, <2>5, <3>1 DEF FormedPath
    <3>. QED BY <2>5, <3>2 DEF FormedPath
  <2>. DEFINE y == Expand[d]
  <2>8. SoundResult(d, y)
    BY <2>3, <2>7, ExpandSound
  <2>. HIDE DEF y
  <2>9. y \in Result /\ Refines(y.pieces, q)
    BY <2>3, <2>8 DEF SoundResult
  <2>10. \A j \in 1..m : q[j] \notin Patterns
    BY <2>2, <2>4, <2>5
  <2>11. Len(y.pieces) = m /\ \A j \in 1..m : y.pieces[j] = q[j]
    BY <2>5, <2>9, <2>10 DEF Refines
  <2>12. y.paths \in Seq(Seq(Pieces)) /\ y.pieces \in Seq(Pieces) /\ before.paths \in Seq(Seq(Pieces))
    BY <2>1, <2>9 DEF Result
  <2>13. before.paths \o y.paths \in Seq(Seq(Pieces))
    BY <2>12, RangeOfConcat
  <2>. DEFINE z == Collect(before, y)
  <2>14. z \in Result /\ z.pieces = y.pieces
    BY <2>12, <2>13 DEF Collect, Found, Result
  <2>. HIDE DEF z
  <2>15. z \in I
    BY <2>5, <2>11, <2>14 DEF I
  <2>16. ASSUME x = name PROVE d = At(slash, path, i)
    <3>1. \A j \in 1..m : q[j] = path[j]
      BY <2>4, <2>5, <2>16 DEF name
    <3>2. Len(path) = m
      BY DEF m
    <3>3. q = path
      BY <1>1, <2>5, <3>1, <3>2, SameSequence
    <3>. QED BY <2>6, <3>3
  <2>. QED BY <2>9, <2>15, <2>16 DEF y, z, d, b
<1>17. v \in I
  <2>. HIDE DEF I
  <2>1. \A before \in I, x \in Range(VisitNames(call)) :
            Collect(before, Expand[VisitCall(call, before.pieces, x)]) \in I
    BY <1>16
  <2>. QED BY <1>14, <1>15, <2>1, VisitInvariant
<1>18. /\ v.paths \in Seq(Seq(Pieces)) /\ FilesHere(call) \in Seq(Seq(Pieces))
  <2>1. v.paths \in Seq(Seq(Pieces))
    BY <1>17 DEF Result
  <2>. QED BY <1>7, <1>8, <2>1, FilesHereFacts DEF Globs
<1>. HIDE DEF v, I
<1>19. Range(Expand[call].paths) = Range(v.paths) \cup Range(FilesHere(call))
  BY <1>13, <1>18, RangeOfConcat
<1>20. CASE i = m
  <2>1. name \notin SubDirectories(call)
    BY <1>10, <1>11, <1>20 DEF SubDirectories, RegularFiles
  <2>2. call.i = Len(call.pieces) /\ exists(call.slash, Append(getParentPath(call), name))
    BY <1>7, <1>9, <1>10, <1>20 DEF exists, m
  <2>3. Append(getParentPath(call), name) \in Range(FilesHere(call))
    BY <1>7, <1>8, <1>12, <2>1, <2>2, FilesHereAll
  <2>. QED BY <1>6, <1>7, <1>9, <1>10, <1>19, <1>20, <2>3
<1>21. CASE i # m
  <2>1. name \in SubDirectories(call)
    BY <1>10, <1>11, <1>12, <1>21 DEF SubDirectories
  <2>2. name \in Range(VisitNames(call))
    <3>1. Listed(call) \in Seq(Pieces)
      BY <1>7, <1>8, ListedFacts DEF Globs
    <3>. QED BY <1>12, <2>1, <3>1, FilterElements DEF VisitNames
  <2>3. Expand[At(slash, path, i)] = Found(<<path>>, path)
    <3>1. i \in 1..Len(path) /\ \A j \in i..Len(path) : j \in 1..Len(p)
      BY <1>1 DEF m
    <3>2. \A j \in i..Len(path) : path[j] \notin Patterns
      BY <3>1
    <3>. QED BY <1>1, <3>1, <3>2, LiteralFound
  <2>4. path \in Range(Expand[At(slash, path, i)].paths)
    <3>1. Found(<<path>>, path).paths = <<path>>
      BY DEF Found
    <3>. QED BY <2>3, <3>1, RangeSingle
  <2>5. I \subseteq Result
    BY DEF I
  <2>6. \A before \in I, x \in Range(VisitNames(call)) :
           /\ Expand[VisitCall(call, before.pieces, x)] \in Result
           /\ Collect(before, Expand[VisitCall(call, before.pieces, x)]) \in I
    BY <1>16
  <2>7. \A before \in I : VisitCall(call, before.pieces, name) = At(slash, path, i)
    BY <1>16, <2>2
  <2>8. \A before \in I : path \in Range(Expand[VisitCall(call, before.pieces, name)].paths)
    BY <2>4, <2>7
  <2>9. path \in Range(v.paths)
    BY <1>14, <1>15, <2>2, <2>5, <2>6, <2>8, VisitsAll DEF v
  <2>. QED BY <1>6, <1>19, <2>9
<1>. QED BY <1>20, <1>21

\* A file of the project under either of its spellings.
LEMMA Spelled ==
    ASSUME NEW path \in RegularFiles \cup {<<EmptyPiece>> \o f : f \in RegularFiles}
    PROVE  /\ FormedPath(path) /\ path # <<>> /\ Len(path) # 0 /\ Head(path) = path[1]
           /\ Plain(path) \in RegularFiles
           /\ (Head(path) = EmptyPiece) <=> (Lead(path) = 1)
           /\ Lead(path) \in {0, 1}
<1>1. CASE path \in RegularFiles
  <2>1. /\ path \in Seq(Pieces) /\ Len(path) \in Nat /\ path # <<>> /\ Len(path) # 0
        /\ \A j \in 1..Len(path) : path[j] # EmptyPiece
    BY <1>1, NamesOfFile
  <2>2. FormedPath(path) /\ path[1] # EmptyPiece /\ Lead(path) = 0
    <3>1. 1 \in 1..Len(path) /\ \A j \in 2..Len(path) : j \in 1..Len(path)
      BY <2>1
    <3>. QED BY <2>1, <3>1 DEF FormedPath, Lead
  <2>3. Head(path) = path[1]
    BY <2>1, HeadIsFirst
  <2>4. /\ Plain(path) \in Seq(Pieces) /\ Len(Plain(path)) = Len(path)
        /\ \A j \in 1..Len(Plain(path)) : Plain(path)[j] = path[j]
    <3>1. /\ Plain(path) \in Seq(Pieces) /\ Len(Plain(path)) = Len(path) - 0
          /\ \A j \in 1..Len(Plain(path)) : Plain(path)[j] = path[j + 0]
      BY <2>2, PlainOfFormed
    <3>2. Len(path) - 0 = Len(path) /\ \A j \in 1..Len(path) : j + 0 = j
      BY <2>1
    <3>. QED BY <3>1, <3>2
  <2>5. Plain(path) = path
    BY <2>1, <2>4, SameSequence
  <2>. QED BY <1>1, <2>1, <2>2, <2>3, <2>5
<1>2. CASE path \in {<<EmptyPiece>> \o f : f \in RegularFiles}
  <2>1. PICK f \in RegularFiles : path = <<EmptyPiece>> \o f
    BY <1>2
  <2>2. /\ f \in Seq(Pieces) /\ Len(f) \in Nat
        /\ \A j \in 1..Len(f) : f[j] \in Pieces /\ f[j] # EmptyPiece
    BY NamesOfFile
  <2>3. EmptyPiece \in Pieces
    BY PatternAssumption
  <2>4. /\ path \in Seq(Pieces) /\ Len(path) = Len(f) + 1 /\ path[1] = EmptyPiece
        /\ \A j \in 1..Len(f) : path[j + 1] = f[j]
    BY <2>1, <2>2, <2>3
  <2>5. FormedPath(path) /\ path # <<>> /\ Len(path) # 0 /\ Lead(path) = 1
    <3>1. \A j \in 2..Len(path) : j - 1 \in 1..Len(f) /\ (j - 1) + 1 = j
      BY <2>2, <2>4
    <3>2. \A j \in 2..Len(path) : path[j] # EmptyPiece
      <4>. SUFFICES ASSUME NEW j \in 2..Len(path) PROVE path[j] # EmptyPiece
        OBVIOUS
      <4>1. path[(j - 1) + 1] = f[j - 1] /\ f[j - 1] # EmptyPiece
        BY <2>2, <2>4, <3>1
      <4>. QED BY <3>1, <4>1
    <3>3. Len(path) # 0
      BY <2>2, <2>4
    <3>4. path # <<>>
      BY <2>4, <3>3
    <3>. QED BY <2>4, <3>2, <3>3, <3>4 DEF FormedPath, Lead
  <2>6. Head(path) = path[1]
    BY <2>4, <2>5, HeadIsFirst
  <2>7. /\ Plain(path) \in Seq(Pieces) /\ Len(Plain(path)) = Len(path) - 1
        /\ \A j \in 1..Len(Plain(path)) : Plain(path)[j] = path[j + 1]
    BY <2>5, PlainOfFormed
  <2>8. Len(Plain(path)) = Len(f)
    BY <2>2, <2>4, <2>7
  <2>9. Plain(path) = f
    BY <2>2, <2>4, <2>7, <2>8, SameSequence
  <2>. QED BY <2>4, <2>5, <2>6, <2>9
<1>. QED BY <1>1, <1>2

\* A pattern with one star, in a path that the file system can be asked for,
\* finds every file that it stands for (expandWildCardRecursive).
THEOREM SimpleComplete ==
    ASSUME NEW slash \in BOOLEAN, NEW p, FormedPath(p), p # <<>>, Simple(slash, p),
           NEW path \in Meant({p})
    PROVE  path \in Range(expandWildCard(slash, p))
<1>. DEFINE f == Plain(path)
            g == Plain(p)
            m == Len(p)
            e == Lead(p)
<1>1. /\ p \in Seq(Pieces) /\ m \in Nat /\ m # 0 /\ Head(p) = p[1] /\ StarsIn(p) = 1
      /\ (slash \/ Head(p) = EmptyPiece)
  <2>1. p \in Seq(Pieces) /\ Len(p) # 0
    BY DEF FormedPath
  <2>. QED BY <2>1, HeadIsFirst DEF Simple
<1>2. path \in RegularFiles \cup {<<EmptyPiece>> \o x : x \in RegularFiles} /\ Matches(path, p)
  BY DEF Meant
<1>3. /\ FormedPath(path) /\ path \in Seq(Pieces) /\ path # <<>> /\ f \in RegularFiles
      /\ (Head(path) = EmptyPiece) <=> (Lead(path) = 1)
      /\ Lead(path) \in {0, 1}
      /\ Head(path) = path[1]
  BY <1>2, Spelled DEF FormedPath
<1>4. (Head(path) = EmptyPiece) <=> (Head(p) = EmptyPiece)
  BY <1>2 DEF Matches
<1>5. e \in {0, 1} /\ ((Head(p) = EmptyPiece) <=> (e = 1)) /\ Lead(path) = e
  <2>1. e \in {0, 1} /\ ((Head(p) = EmptyPiece) <=> (e = 1))
    BY <1>1 DEF Lead
  <2>. QED BY <1>3, <1>4, <2>1
<1>. HIDE DEF e
<1>6. /\ f \in Seq(Pieces) /\ Len(f) = Len(path) - e /\ \A j \in 1..Len(f) : f[j] = path[j + e]
  BY <1>3, <1>5, PlainOfFormed
<1>7. /\ g \in Seq(Pieces) /\ Len(g) = m - e /\ \A j \in 1..Len(g) : g[j] = p[j + e]
  BY <1>5, PlainOfFormed DEF e
<1>8. Len(f) = Len(g) /\ \A j \in DOMAIN f : Agrees(f[j], g[j])
  BY <1>2 DEF Matches
<1>9. \A j \in 1..Len(f) : f[j] # EmptyPiece /\ f[j] \notin Patterns
  BY <1>3, NamesOfFile
<1>10. Resolve(slash, path) \in RegularFiles
  BY <1>1, <1>3, <1>4 DEF Resolve
<1>. HIDE DEF f, g, m
<1>11. Len(path) = m /\ Len(path) \in Nat
  <2>1. Len(path) \in Nat
    BY <1>3
  <2>. QED BY <1>1, <1>5, <1>6, <1>7, <1>8, <2>1
\* Piece by piece.
<1>12. ASSUME NEW j \in 1..m
       PROVE  \/ p[j] = EmptyPiece /\ path[j] = EmptyPiece
              \/ Agrees(path[j], p[j]) /\ path[j] # EmptyPiece /\ path[j] \notin Patterns
  <2>1. CASE j - e \in 1..Len(f)
    <3>1. j - e \in DOMAIN f /\ (j - e) + e = j /\ j - e \in 1..Len(g)
      BY <1>1, <1>5, <1>6, <1>8, <2>1
    <3>2. f[j - e] = path[j] /\ g[j - e] = p[j]
      BY <1>6, <1>7, <2>1, <3>1
    <3>. QED BY <1>8, <1>9, <2>1, <3>1, <3>2
  <2>2. CASE j - e \notin 1..Len(f)
    <3>1. j = 1 /\ e = 1
      BY <1>1, <1>5, <1>6, <1>11, <2>2
    <3>2. Head(p) = EmptyPiece /\ Head(path) = EmptyPiece
      BY <1>4, <1>5, <3>1
    <3>3. p[1] = EmptyPiece /\ path[1] = EmptyPiece
      BY <1>1, <1>3, <3>2
    <3>. QED BY <3>1, <3>3
  <2>. QED BY <2>1, <2>2
<1>13. PICK i \in 1..m : /\ isValidWildCard(p[i]) /\ p[i] \in Patterns
                         /\ \A j \in 1..m : j # i => p[j] \notin Patterns
  BY <1>1, OneStar DEF m
<1>14. EmptyPiece \notin Patterns
  BY PatternAssumption DEF Patterns
<1>15. Agrees(path[i], p[i]) /\ path[i] # EmptyPiece /\ path[i] \notin Patterns
  BY <1>12, <1>13, <1>14
<1>16. \A j \in 1..m : j # i => path[j] = p[j]
  BY <1>12, <1>13 DEF Agrees
<1>. QED BY <1>3, <1>10, <1>11, <1>13, <1>15, <1>16, CompleteForOne DEF m

\* What an expansion comes to has no pattern left in it.
LEMMA NoPatternLeft ==
    ASSUME NEW p, FormedPath(p), NEW path, Comes(path, p)
    PROVE  path \in Seq(Pieces) /\ StarsIn(path) # 1
<1>1. path \in Seq(Pieces) /\ FormedPath(path) /\ Len(path) \in Nat /\ path # <<>>
      /\ Plain(path) \in RegularFiles
  <2>1. /\ path \in Seq(Pieces) /\ Len(path) \in 1..Len(p) /\ Refines(path, SubSeq(p, 1, Len(path)))
        /\ Resolve(TRUE, path) \in RegularFiles
    BY DEF Comes
  <2>2. p \in Seq(Pieces) /\ Len(p) \in Nat
    BY DEF FormedPath
  <2>3. Len(path) \in 0..Len(p) /\ Len(path) \in Nat /\ path # <<>>
    BY <2>1, <2>2
  <2>4. FormedPath(path)
    BY <2>1, <2>3, PrefixFormed, RefinesFormed
  <2>. QED BY <2>1, <2>3, <2>4 DEF Resolve
<1>. DEFINE f == Plain(path)
            e == Lead(path)
<1>2. /\ f \in Seq(Pieces) /\ Len(f) = Len(path) - e /\ e \in {0, 1}
      /\ \A j \in 1..Len(f) : f[j] = path[j + e]
  BY <1>1, PlainOfFormed DEF Lead
<1>3. \A j \in 1..Len(f) : f[j] \notin Patterns
  BY <1>1, NamesOfFile
<1>4. e = 1 => path[1] = EmptyPiece
  BY <1>1 DEF Lead
<1>. HIDE DEF f, e
<1>5. ASSUME NEW j \in 1..Len(path) PROVE path[j] \notin Patterns
  <2>1. CASE j - e \in 1..Len(f)
    <3>1. f[j - e] = path[j]
      <4>1. (j - e) + e = j
        BY <1>2
      <4>. QED BY <1>2, <2>1, <4>1
    <3>. QED BY <1>3, <2>1, <3>1
  <2>2. CASE j - e \notin 1..Len(f)
    <3>1. j = 1 /\ e = 1
      BY <1>1, <1>2, <2>2
    <3>. QED BY <1>4, <3>1, PatternAssumption DEF Patterns
  <2>. QED BY <2>1, <2>2
<1>. QED BY <1>1, <1>5, OneStar
=============================================================================
