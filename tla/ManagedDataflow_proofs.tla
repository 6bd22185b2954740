----------------------- MODULE ManagedDataflow_proofs -----------------------
(***************************************************************************)
(* Proofs about OpenGraphSource and ManagedDataflow, for rows, edges,      *)
(* pages, batches, jobs and attempts of any number.  The first part shows  *)
(* that conversion loses and repeats nothing at the ends of batches and    *)
(* pages; the second, which rows it is that a job converts.                *)
(***************************************************************************)
EXTENDS ManagedDataflow, SequenceTheorems, WellFoundedInduction, TLAPS

---------------------------------------------------------------------------
(* Sequences. *)

\* A set of naturals has a first one.
LEMMA FirstExists ==
  ASSUME NEW T \in SUBSET Nat, T # {}
  PROVE  \E n \in T : \A m \in T : n <= m
<1> DEFINE Less == {ss \in Nat \X Nat : ss[1] < ss[2]}
<1>1. IsWellFoundedOn(Less, Nat)
  BY NatLessThanWellFounded DEF OpToRel
<1>2. PICK n \in T : \A m \in T : <<m, n>> \notin Less
  BY <1>1, WFMin
<1>3. \A m \in T : ~(m < n) /\ m \in Nat /\ n \in Nat
  BY <1>2
<1> QED BY <1>3

\* A set of naturals up to N that has 0 and the successor of each of its
\* elements has all of them.
LEMMA UpTo ==
  ASSUME NEW N \in Nat, NEW T, 0 \in T, \A n \in 1..N : n - 1 \in T => n \in T
  PROVE  \A n \in 0..N : n \in T
<1> DEFINE F == {n \in 0..N : n \notin T}
<1>1. ASSUME F # {}
      PROVE  FALSE
  <2>1. F \in SUBSET Nat
    OBVIOUS
  <2>2. PICK n \in F : \A m \in F : n <= m
    BY <1>1, <2>1, FirstExists
  <2>3. n \in 1..N /\ n \notin T
    BY <2>2
  <2>4. n - 1 \in 0..N /\ ~(n <= n - 1)
    BY <2>3
  <2>5. n - 1 \notin F
    BY <2>2, <2>4
  <2>6. n - 1 \in T
    BY <2>4, <2>5
  <2> QED BY <2>3, <2>6
<1> QED BY <1>1

LEMMA FunctionIsSeq ==
  ASSUME NEW S, NEW n \in Nat, NEW f \in [1..n -> S]
  PROVE  f \in Seq(S) /\ Len(f) = n
OBVIOUS

\* The first n elements.
Prefix(s, n) == [i \in 1..n |-> s[i]]

LEMMA PrefixIsSeq ==
  ASSUME NEW S, NEW s \in Seq(S)
  PROVE  /\ Prefix(s, 0) = <<>> /\ Prefix(s, Len(s)) = s
         /\ \A n \in 0..Len(s) : Prefix(s, n) \in Seq(S) /\ Len(Prefix(s, n)) = n
         /\ \A n \in 1..Len(s) : Prefix(s, n) = Append(Prefix(s, n - 1), s[n])
<1>1. Prefix(s, 0) = <<>> /\ Prefix(s, Len(s)) = s
  BY DEF Prefix
<1>2. ASSUME NEW n \in 0..Len(s)
      PROVE  Prefix(s, n) \in Seq(S) /\ Len(Prefix(s, n)) = n /\ \A i \in 1..n : Prefix(s, n)[i] = s[i]
  BY DEF Prefix
<1>3. ASSUME NEW n \in 1..Len(s)
      PROVE  Prefix(s, n) = Append(Prefix(s, n - 1), s[n])
  <2> DEFINE a == Append(Prefix(s, n - 1), s[n])
  <2>1. n - 1 \in 0..Len(s) /\ n \in 0..Len(s) /\ n \in Nat /\ s[n] \in S
    OBVIOUS
  <2>2. /\ Prefix(s, n - 1) \in Seq(S) /\ Len(Prefix(s, n - 1)) = n - 1
        /\ \A i \in 1..(n - 1) : Prefix(s, n - 1)[i] = s[i]
    BY <1>2, <2>1
  <2>3. /\ a \in Seq(S) /\ Len(a) = n /\ a[n] = s[n]
        /\ \A i \in 1..(n - 1) : a[i] = s[i]
    BY <2>1, <2>2, AppendProperties
  <2>4. Prefix(s, n) \in Seq(S) /\ Len(Prefix(s, n)) = n /\ \A i \in 1..n : Prefix(s, n)[i] = s[i]
    BY <1>2, <2>1
  <2> HIDE DEF a
  <2>5. ASSUME NEW i \in 1..Len(a)
        PROVE  a[i] = Prefix(s, n)[i]
    <3>1. i \in 1..n /\ Prefix(s, n)[i] = s[i]
      BY <2>3, <2>4
    <3>2. i = n \/ i \in 1..(n - 1)
      BY <2>1, <3>1
    <3>3. a[i] = s[i]
      BY <2>3, <3>2
    <3> QED BY <3>1, <3>3
  <2>6. a = Prefix(s, n)
    BY <2>3, <2>4, <2>5, SeqEqual
  <2> QED BY <2>6 DEF a
<1> QED BY <1>1, <1>2, <1>3

\* h has the first n results of joining seqs.
FlatSteps(S, seqs, n, h) ==
  /\ n \in Nat \ {0}
  /\ h \in [1..n -> Seq(S)]
  /\ h[1] = seqs[1]
  /\ \A i \in 2..n : h[i] = h[i - 1] \o seqs[i]

\* What FlattenSeq computes is determined by its first element and its steps.
LEMMA FlattenIs ==
  ASSUME NEW S, NEW seqs, NEW N, NEW h, FlatSteps(S, seqs, N, h), Len(seqs) = N
  PROVE  FlattenSeq(seqs) = h[N]
<1>0. /\ N \in Nat \ {0} /\ h \in [1..N -> Seq(S)] /\ h[1] = seqs[1]
      /\ \A i \in 2..N : h[i] = h[i - 1] \o seqs[i]
  BY DEF FlatSteps
<1> DEFINE R(g) == [i \in 1..N |-> IF i = 1 THEN seqs[i] ELSE g[i - 1] \o seqs[i]]
           flat == CHOOSE g : g = R(g)
<1>1. FlattenSeq(seqs) = flat[N]
  BY <1>0 DEF FlattenSeq
<1>2. h = R(h)
  <2>1. ASSUME NEW i \in 1..N
        PROVE  h[i] = IF i = 1 THEN seqs[i] ELSE h[i - 1] \o seqs[i]
    <3>1. i # 1 => i \in 2..N
      BY <1>0
    <3> QED BY <1>0, <3>1
  <2> QED BY <1>0, <2>1
<1>3. flat = R(flat)
  BY <1>2
<1> HIDE DEF flat
<1>4. \A i \in 1..N : flat[i] = IF i = 1 THEN seqs[i] ELSE flat[i - 1] \o seqs[i]
  BY <1>3
<1> HIDE DEF R
<1> DEFINE T == {n \in 0..N : n # 0 => flat[n] = h[n]}
<1>5. 0 \in T
  BY <1>0
<1>6. ASSUME NEW n \in 1..N, n - 1 \in T
      PROVE  n \in T
  <2>1. CASE n = 1
    BY <1>0, <1>4, <2>1
  <2>2. CASE n # 1
    <3>1. n \in 2..N /\ n - 1 # 0
      BY <1>0, <2>2
    <3>2. flat[n - 1] = h[n - 1]
      BY <1>6, <3>1
    <3>3. flat[n] = flat[n - 1] \o seqs[n] /\ h[n] = h[n - 1] \o seqs[n]
      BY <1>0, <1>4, <2>2, <3>1
    <3>4. ASSUME flat[n - 1] = h[n - 1]
          PROVE  flat[n] = h[n]
      <4> HIDE DEF T
      <4> QED BY <3>3, <3>4
    <3> QED BY <1>0, <3>2, <3>4
  <2> QED BY <2>1, <2>2
<1> HIDE DEF T
<1>7. N \in T
  <2>1. N \in Nat /\ N \in 0..N
    BY <1>0
  <2>2. \A n \in 0..N : n \in T
    BY <1>5, <1>6, <2>1, UpTo
  <2> QED BY <2>1, <2>2
<1> QED BY <1>0, <1>1, <1>7 DEF T

\* longer begins with the first n of seqs, and has one more.
Longer(S, seqs, n, longer) ==
  longer[n + 1] \in Seq(S) /\ \A i \in 1..n : longer[i] = seqs[i]

\* One step more.
NextResult(longer, n, f, h) == h[n + 1] = f[n] \o longer[n + 1]

LEMMA FlatStep ==
  ASSUME NEW S, NEW seqs, NEW n \in Nat \ {0}, NEW f, FlatSteps(S, seqs, n, f),
         NEW longer, Longer(S, seqs, n, longer)
  PROVE  \E h : FlatSteps(S, longer, n + 1, h) /\ NextResult(longer, n, f, h)
<1> USE DEF Longer, NextResult
<1> DEFINE v == f[n] \o longer[n + 1]
           h == [i \in 1..(n + 1) |-> IF i = n + 1 THEN v ELSE f[i]]
<1>1. /\ f \in [1..n -> Seq(S)] /\ f[1] = seqs[1]
      /\ \A i \in 2..n : f[i] = f[i - 1] \o seqs[i]
  BY DEF FlatSteps
<1>2. n \in 1..n /\ 1 \in 1..n /\ n + 1 \in 1..(n + 1) /\ n + 1 \in Nat \ {0}
  OBVIOUS
<1>3. v \in Seq(S)
  <2>1. f[n] \in Seq(S)
    BY <1>1, <1>2
  <2> QED BY <2>1, ConcatProperties
<1>4. h = [i \in 1..(n + 1) |-> IF i = n + 1 THEN v ELSE f[i]] /\ v = f[n] \o longer[n + 1]
  OBVIOUS
<1> HIDE DEF v, h
<1>5. \A i \in 1..(n + 1) : i # n + 1 => i \in 1..n
  OBVIOUS
<1>6. h[n + 1] = v /\ \A i \in 1..n : h[i] = f[i]
  <2>1. \A i \in 1..(n + 1) : h[i] = IF i = n + 1 THEN v ELSE f[i]
    BY <1>4
  <2>2. \A i \in 1..n : i \in 1..(n + 1) /\ i # n + 1
    OBVIOUS
  <2> QED BY <1>2, <2>1, <2>2
<1>7. h \in [1..(n + 1) -> Seq(S)]
  <2>1. \A i \in 1..n : f[i] \in Seq(S)
    BY <1>1
  <2>2. \A i \in 1..(n + 1) : (IF i = n + 1 THEN v ELSE f[i]) \in Seq(S)
    BY <1>3, <1>5, <2>1
  <2> QED BY <1>4, <2>2
<1>8. h[1] = longer[1]
  BY <1>1, <1>2, <1>6
<1>9. ASSUME NEW i \in 2..(n + 1)
      PROVE  h[i] = h[i - 1] \o longer[i]
  <2>1. i - 1 \in 1..n /\ (i # n + 1 => i \in 2..n /\ i \in 1..n) /\ (i = n + 1 => i - 1 = n)
    OBVIOUS
  <2>2. h[i - 1] = f[i - 1]
    BY <1>6, <2>1
  <2>3. CASE i = n + 1
    <3>1. h[i] = v /\ i - 1 = n
      BY <1>6, <2>1, <2>3
    <3> QED BY <1>4, <2>2, <2>3, <3>1
  <2>4. CASE i # n + 1
    <3>1. f[i] = f[i - 1] \o seqs[i] /\ longer[i] = seqs[i] /\ h[i] = f[i]
      BY <1>1, <1>6, <2>1, <2>4
    <3> QED BY <2>2, <3>1
  <2> QED BY <2>3, <2>4
<1>10. FlatSteps(S, longer, n + 1, h)
  BY <1>2, <1>7, <1>8, <1>9 DEF FlatSteps
<1> QED BY <1>4, <1>6, <1>10

LEMMA FirstFlatStep ==
  ASSUME NEW S, NEW seqs, seqs[1] \in Seq(S)
  PROVE  FlatSteps(S, seqs, 1, [i \in 1..1 |-> seqs[1]])
<1>1. \A i \in 2..1 : FALSE
  OBVIOUS
<1>2. [i \in 1..1 |-> seqs[1]] \in [1..1 -> Seq(S)] /\ [i \in 1..1 |-> seqs[1]][1] = seqs[1]
  OBVIOUS
<1> QED BY <1>1, <1>2 DEF FlatSteps

\* There are such steps for every sequence of sequences.
LEMMA FlattenSteps ==
  ASSUME NEW S, NEW seqs \in Seq(Seq(S)), seqs # <<>>
  PROVE  \E h : FlatSteps(S, seqs, Len(seqs), h) /\ h[Len(seqs)] = FlattenSeq(seqs)
<1> DEFINE N == Len(seqs)
           Stepped(n) == \E h : FlatSteps(S, seqs, n, h)
           T == {n \in 0..N : n # 0 => Stepped(n)}
<1>1. N \in Nat \ {0} /\ \A i \in 1..N : seqs[i] \in Seq(S)
  OBVIOUS
<1> HIDE DEF N
<1>2. 0 \in T
  BY <1>1
<1>3. ASSUME NEW n \in 1..N, n - 1 \in T
      PROVE  n \in T
  <2>1. CASE n = 1
    <3>1. seqs[1] \in Seq(S)
      BY <1>1
    <3>2. Stepped(1)
      BY <3>1, FirstFlatStep
    <3> HIDE DEF Stepped
    <3> QED BY <1>1, <2>1, <3>2
  <2>2. CASE n # 1
    <3>1. n - 1 \in Nat \ {0} /\ n \in 0..N /\ n - 1 + 1 = n
      BY <1>1, <2>2
    <3>2. PICK f : FlatSteps(S, seqs, n - 1, f)
      BY <1>3, <3>1
    <3> DEFINE m == n - 1
    <3>3. Longer(S, seqs, m, seqs)
      BY <1>1, <3>1 DEF Longer
    <3>4. m \in Nat \ {0} /\ FlatSteps(S, seqs, m, f) /\ m + 1 = n
      BY <3>1, <3>2
    <3> HIDE DEF m
    <3>5. \E h : FlatSteps(S, seqs, m + 1, h)
      BY <3>3, <3>4, FlatStep
    <3>6. Stepped(n)
      BY <3>4, <3>5
    <3> HIDE DEF Stepped
    <3> QED BY <3>1, <3>6
  <2> QED BY <2>1, <2>2
<1>4. Stepped(N)
  <2> HIDE DEF T, Stepped
  <2>1. N \in Nat /\ N \in 0..N
    BY <1>1
  <2>2. \A n \in 0..N : n \in T
    BY <1>2, <1>3, <2>1, UpTo
  <2>3. N \in T
    BY <2>1, <2>2
  <2> QED BY <1>1, <2>3 DEF T
<1>5. PICK h : FlatSteps(S, seqs, N, h)
  BY <1>4
<1>6. Len(seqs) = N
  BY DEF N
<1>7. FlattenSeq(seqs) = h[N]
  BY <1>5, <1>6, FlattenIs
<1> QED BY <1>5, <1>7 DEF N

LEMMA FlattenAppend ==
  ASSUME NEW S, NEW seqs, NEW x, seqs \in Seq(Seq(S)), x \in Seq(S)
  PROVE  /\ FlattenSeq(seqs) \in Seq(S)
         /\ FlattenSeq(<<>>) = <<>>
         /\ FlattenSeq(Append(seqs, x)) = FlattenSeq(seqs) \o x
<1> DEFINE n == Len(seqs)
           longer == Append(seqs, x)
<1>1. FlattenSeq(<<>>) = <<>>
  BY DEF FlattenSeq
<1>2. /\ n \in Nat /\ Len(longer) = n + 1 /\ longer[n + 1] = x
      /\ \A i \in 1..n : longer[i] = seqs[i]
  BY AppendProperties
<1>3. CASE seqs = <<>>
  <2>1. Len(longer) = 1 /\ longer[1] = x
    BY <1>2, <1>3
  <2> HIDE DEF longer
  <2>2. FlatSteps(S, longer, 1, [i \in 1..1 |-> longer[1]])
    BY <2>1, FirstFlatStep
  <2>3. FlattenSeq(longer) = [i \in 1..1 |-> longer[1]][1]
    <3> DEFINE g == [i \in 1..1 |-> longer[1]]
    <3>1. FlatSteps(S, longer, 1, g)
      BY <2>2
    <3> HIDE DEF g
    <3>2. FlattenSeq(longer) = g[1]
      BY ONLY <2>1, <3>1, FlattenIs, Zenon
    <3> QED BY <3>2 DEF g
  <2>4. FlattenSeq(longer) = x
    BY <2>1, <2>3
  <2>5. <<>> \o x = x /\ <<>> \in Seq(S)
    BY EmptySeq, ConcatEmptySeq
  <2> QED BY <1>1, <1>3, <2>4, <2>5 DEF longer
<1>4. CASE seqs # <<>>
  <2>1. PICK f : FlatSteps(S, seqs, n, f) /\ f[n] = FlattenSeq(seqs)
    BY <1>4, FlattenSteps
  <2> HIDE DEF n, longer
  <2>2. n \in Nat \ {0} /\ f[n] \in Seq(S)
    BY <2>1 DEF FlatSteps
  <2>3. PICK h : FlatSteps(S, longer, n + 1, h) /\ NextResult(longer, n, f, h)
    <3>1. Longer(S, seqs, n, longer)
      BY <1>2 DEF Longer
    <3>2. n \in Nat \ {0}
      BY <2>2
    <3>3. FlatSteps(S, seqs, n, f)
      BY <2>1
    <3> QED BY ONLY <3>1, <3>2, <3>3, FlatStep
  <2>4. h[n + 1] = f[n] \o x
    BY <1>2, <2>3 DEF NextResult
  <2>5. FlattenSeq(longer) = h[n + 1]
    BY <1>2, <2>3, FlattenIs
  <2> QED BY <1>1, <2>1, <2>2, <2>4, <2>5 DEF longer
<1> QED BY <1>3, <1>4

\* Appending to the second of two sequences is appending to both.
LEMMA AppendToSecond ==
  ASSUME NEW S, NEW s \in Seq(S), NEW p \in Seq(S), NEW x \in S
  PROVE  s \o p \in Seq(S) /\ s \o Append(p, x) = Append(s \o p, x)
<1> DEFINE u == <<x>>
<1>1. u \in Seq(S)
  OBVIOUS
<1>2. s \o p \in Seq(S)
  BY ConcatProperties
<1>3. Append(p, x) = p \o u /\ Append(s \o p, x) = (s \o p) \o u
  BY <1>2, AppendIsConcat
<1> HIDE DEF u
<1>4. (s \o p) \o u = s \o (p \o u)
  BY <1>1, ConcatAssociative
<1> QED BY <1>2, <1>3, <1>4

LEMMA FlattenConcat ==
  ASSUME NEW S, NEW s, NEW t, s \in Seq(Seq(S)), t \in Seq(Seq(S))
  PROVE  FlattenSeq(s \o t) = FlattenSeq(s) \o FlattenSeq(t)
<1> DEFINE N == Len(t)
           Q == Seq(S)
           T == {n \in 0..N : FlattenSeq(s \o Prefix(t, n)) = FlattenSeq(s) \o FlattenSeq(Prefix(t, n))}
<1>0. s \in Seq(Q) /\ t \in Seq(Q) /\ N = Len(t) /\ N \in Nat
  OBVIOUS
<1> HIDE DEF N, Q
<1>1. /\ Prefix(t, 0) = <<>> /\ Prefix(t, N) = t
      /\ \A n \in 0..N : Prefix(t, n) \in Seq(Q)
      /\ \A n \in 1..N : Prefix(t, n) = Append(Prefix(t, n - 1), t[n])
  BY <1>0, PrefixIsSeq
<1>2. 0 \in T
  <2>1. <<>> \in Seq(S)
    BY EmptySeq
  <2>2. FlattenSeq(s) \in Seq(S) /\ FlattenSeq(<<>>) = <<>>
    BY <2>1, FlattenAppend
  <2>3. s \o <<>> = s
    BY <1>0, ConcatEmptySeq
  <2>4. FlattenSeq(s) \o <<>> = FlattenSeq(s)
    BY <2>2, ConcatEmptySeq
  <2>5. FlattenSeq(s \o Prefix(t, 0)) = FlattenSeq(s) \o FlattenSeq(Prefix(t, 0))
    BY <1>1, <2>2, <2>3, <2>4
  <2> QED BY <1>0, <2>5
<1>3. ASSUME NEW n \in 1..N, n - 1 \in T
      PROVE  n \in T
  <2> DEFINE p == Prefix(t, n - 1)
             a == FlattenSeq(s)
             b == FlattenSeq(p)
             x == t[n]
  <2>1. n - 1 \in 0..N /\ n \in 0..N /\ p \in Seq(Q) /\ x \in Q /\ Prefix(t, n) = Append(p, x)
    <3>1. n - 1 \in 0..N /\ n \in 0..N
      BY <1>0
    <3>2. t[n] \in Q
      BY <1>0, ElementOfSeq
    <3> QED BY <1>1, <3>1, <3>2
  <2>2. FlattenSeq(s \o p) = a \o b
    BY <1>3
  <2> HIDE DEF p, x
  <2>3. /\ s \o Append(p, x) = Append(s \o p, x) /\ s \o p \in Seq(Q)
    <3>1. s \in Seq(Q) /\ p \in Seq(Q) /\ x \in Q
      BY <1>0, <2>1
    <3> QED BY ONLY <3>1, AppendToSecond
  <2>4. FlattenSeq(Append(s \o p, x)) = FlattenSeq(s \o p) \o x
    <3> DEFINE q == s \o p
    <3>1. q \in Seq(Seq(S)) /\ x \in Seq(S)
      BY <2>1, <2>3 DEF Q
    <3> HIDE DEF q
    <3>2. FlattenSeq(Append(q, x)) = FlattenSeq(q) \o x
      BY ONLY <3>1, FlattenAppend
    <3> QED BY <3>2 DEF q
  <2>5. FlattenSeq(Append(p, x)) = b \o x /\ a \in Seq(S) /\ b \in Seq(S) /\ x \in Seq(S)
    <3>1. s \in Seq(Seq(S)) /\ p \in Seq(Seq(S)) /\ x \in Seq(S)
      BY <1>0, <2>1 DEF Q
    <3> QED BY ONLY <3>1, FlattenAppend
  <2> HIDE DEF a, b
  <2>6. (a \o b) \o x = a \o (b \o x)
    <3>1. a \in Seq(S) /\ b \in Seq(S) /\ x \in Seq(S)
      BY <2>5
    <3> QED BY ONLY <3>1
  <2>7. FlattenSeq(s \o Append(p, x)) = a \o FlattenSeq(Append(p, x))
    BY <2>2, <2>3, <2>4, <2>5, <2>6
  <2> QED BY <2>1, <2>7 DEF a
<1> HIDE DEF T
<1>4. N \in 0..N /\ N \in Nat
  BY <1>0
<1>5. \A n \in 0..N : n \in T
  BY <1>2, <1>3, <1>4, UpTo
<1>6. N \in T
  BY <1>4, <1>5
<1> QED BY <1>1, <1>6 DEF T

\* m has a sequence over S for each of D.
Maps(m, D, S) == m \in [D -> Seq(S)]

\* The sequences m has for the elements of s, and those one after another.
Mapped(m, s) == [i \in DOMAIN s |-> m[s[i]]]
Gathered(m, s) == FlattenSeq(Mapped(m, s))

LEMMA MappedIsSeq ==
  ASSUME NEW D, NEW S, NEW m, Maps(m, D, S), NEW s \in Seq(D)
  PROVE  /\ Mapped(m, s) \in Seq(Seq(S))
         /\ Len(Mapped(m, s)) = Len(s)
         /\ \A i \in 1..Len(s) : Mapped(m, s)[i] = m[s[i]]
<1>1. DOMAIN s = 1..Len(s) /\ Len(s) \in Nat
  OBVIOUS
<1>2. \A i \in 1..Len(s) : m[s[i]] \in Seq(S)
  BY ElementOfSeq DEF Maps
<1>3. Mapped(m, s) = [i \in 1..Len(s) |-> m[s[i]]]
  BY <1>1 DEF Mapped
<1>4. [i \in 1..Len(s) |-> m[s[i]]] \in Seq(Seq(S))
  BY <1>1, <1>2, IsASeq
<1> QED BY <1>1, <1>3, <1>4

LEMMA MappedConcat ==
  ASSUME NEW D, NEW S, NEW m, Maps(m, D, S), NEW s \in Seq(D), NEW t \in Seq(D)
  PROVE  Mapped(m, s \o t) = Mapped(m, s) \o Mapped(m, t)
<1> DEFINE Q == Seq(S)
           a == Mapped(m, s)
           b == Mapped(m, t)
           st == s \o t
           c == Mapped(m, st)
           ab == a \o b
<1>1. /\ st \in Seq(D) /\ Len(st) = Len(s) + Len(t) /\ Len(s) \in Nat /\ Len(t) \in Nat
      /\ \A i \in 1..(Len(s) + Len(t)) : st[i] = IF i <= Len(s) THEN s[i] ELSE t[i - Len(s)]
  BY ConcatProperties
<1>0. st \in Seq(D)
  BY <1>1
<1> HIDE DEF st
<1>2. a \in Seq(Q) /\ Len(a) = Len(s) /\ \A i \in 1..Len(s) : a[i] = m[s[i]]
  BY MappedIsSeq
<1>3. b \in Seq(Q) /\ Len(b) = Len(t) /\ \A i \in 1..Len(t) : b[i] = m[t[i]]
  BY MappedIsSeq
<1>4. c \in Seq(Q) /\ Len(c) = Len(st) /\ \A i \in 1..Len(st) : c[i] = m[st[i]]
  BY <1>0, MappedIsSeq
<1> HIDE DEF a, b, c, Q
<1>5. ab \in Seq(Q) /\ Len(ab) = Len(a) + Len(b)
      /\ \A i \in 1..(Len(a) + Len(b)) : ab[i] = IF i <= Len(a) THEN a[i] ELSE b[i - Len(a)]
  <2>1. a \in Seq(Q) /\ b \in Seq(Q)
    BY <1>2, <1>3
  <2> QED BY ONLY <2>1, ConcatProperties
<1> HIDE DEF ab
<1>6. ASSUME NEW i \in 1..Len(c)
      PROVE  c[i] = ab[i]
  <2>1. i \in 1..(Len(s) + Len(t)) /\ i \in 1..Len(st) /\ i \in 1..(Len(a) + Len(b))
    BY <1>1, <1>2, <1>3, <1>4
  <2>2. c[i] = m[st[i]]
    BY <1>4, <2>1
  <2>3. CASE i <= Len(s)
    <3>1. i \in 1..Len(s)
      BY <1>1, <2>1, <2>3
    <3>2. st[i] = s[i] /\ ab[i] = a[i] /\ a[i] = m[s[i]]
      BY <1>1, <1>2, <1>5, <2>1, <2>3, <3>1
    <3> QED BY <2>2, <3>2
  <2>4. CASE ~(i <= Len(s))
    <3>1. i - Len(s) \in 1..Len(t)
      BY <1>1, <2>1, <2>4
    <3>2. st[i] = t[i - Len(s)] /\ ab[i] = b[i - Len(s)] /\ b[i - Len(s)] = m[t[i - Len(s)]]
      BY <1>1, <1>2, <1>3, <1>5, <2>1, <2>4, <3>1
    <3> QED BY <2>2, <3>2
  <2> QED BY <2>3, <2>4
<1>7. Len(c) = Len(ab)
  BY <1>1, <1>2, <1>3, <1>4, <1>5
<1>8. c = ab
  BY <1>4, <1>5, <1>6, <1>7, SeqEqual
<1> QED BY <1>8 DEF a, b, c, st, ab

LEMMA GatheredConcat ==
  ASSUME NEW D, NEW S, NEW m, Maps(m, D, S), NEW s \in Seq(D), NEW t \in Seq(D)
  PROVE  Gathered(m, s) \in Seq(S) /\ Gathered(m, s \o t) = Gathered(m, s) \o Gathered(m, t)
<1>1. Mapped(m, s \o t) = Mapped(m, s) \o Mapped(m, t)
  BY MappedConcat
<1>2. Mapped(m, s) \in Seq(Seq(S)) /\ Mapped(m, t) \in Seq(Seq(S))
  BY MappedIsSeq
<1>3. <<>> \in Seq(S)
  BY EmptySeq
<1>4. FlattenSeq(Mapped(m, s)) \in Seq(S)
  BY <1>2, <1>3, FlattenAppend
<1>5. FlattenSeq(Mapped(m, s) \o Mapped(m, t)) = FlattenSeq(Mapped(m, s)) \o FlattenSeq(Mapped(m, t))
  BY <1>2, FlattenConcat
<1> QED BY <1>1, <1>4, <1>5 DEF Gathered

LEMMA GatheredAppend ==
  ASSUME NEW D, NEW S, NEW m, Maps(m, D, S)
  PROVE  /\ Gathered(m, <<>>) = <<>>
         /\ \A x \in D : Gathered(m, <<x>>) = m[x]
         /\ \A s \in Seq(D) : \A x \in D : Gathered(m, Append(s, x)) = Gathered(m, s) \o m[x]
<1>1. Gathered(m, <<>>) = <<>>
  <2>1. Mapped(m, <<>>) = <<>> /\ <<>> \in Seq(S) /\ <<>> \in Seq(Seq(S))
    BY DEF Mapped
  <2>2. FlattenSeq(<<>>) = <<>>
    BY <2>1, FlattenAppend
  <2> QED BY <2>1, <2>2 DEF Gathered
<1>2. ASSUME NEW x \in D
      PROVE  Gathered(m, <<x>>) = m[x]
  <2> DEFINE y == m[x]
  <2>1. y \in Seq(S) /\ <<>> \in Seq(Seq(S))
    BY DEF Maps
  <2>2. Mapped(m, <<x>>) = <<y>>
    BY DEF Mapped
  <2> HIDE DEF y
  <2>4. <<y>> = Append(<<>>, y)
    OBVIOUS
  <2>5. FlattenSeq(Append(<<>>, y)) = FlattenSeq(<<>>) \o y /\ FlattenSeq(<<>>) = <<>>
    <3> DEFINE e == <<>>
    <3>1. e \in Seq(Seq(S)) /\ y \in Seq(S)
      BY <2>1
    <3>2. FlattenSeq(<<>>) = <<>>
      BY <1>1 DEF Gathered, Mapped
    <3> HIDE DEF e
    <3>3. FlattenSeq(Append(e, y)) = FlattenSeq(e) \o y
      BY ONLY <3>1, FlattenAppend
    <3> QED BY <3>2, <3>3 DEF e
  <2>6. <<>> \o y = y
    BY <2>1, ConcatEmptySeq
  <2> QED BY <2>2, <2>4, <2>5, <2>6 DEF Gathered, y
<1>3. ASSUME NEW s \in Seq(D), NEW x \in D
      PROVE  Gathered(m, Append(s, x)) = Gathered(m, s) \o m[x]
  <2> DEFINE t == <<x>>
  <2>1. t \in Seq(D)
    OBVIOUS
  <2>2. Append(s, x) = s \o t
    BY AppendIsConcat
  <2>3. Gathered(m, t) = m[x]
    BY <1>2
  <2> HIDE DEF t
  <2>4. Gathered(m, s \o t) = Gathered(m, s) \o Gathered(m, t)
    BY <2>1, GatheredConcat
  <2> QED BY <2>2, <2>3, <2>4
<1> QED BY <1>1, <1>2, <1>3

---------------------------------------------------------------------------
(* What is yielded for rows of R. *)

\* It is known how many edges each row has.
Numbered(R) == \A r \in R : r.n \in DOMAIN EdgeCount

Items(R) == R \cup [row : R, edge : Nat]
Entries(R) == [type : {"node", "edge"}, content : Seq(Items(R))]

OfType(R, type) == [b \in Entries(R) |-> IF b.type = type THEN b.content ELSE <<>>]
NodesBy(R) == [r \in R |-> IF r.n \in HasNode THEN <<r>> ELSE <<>>]
EdgesBy(R) == [r \in R |-> EdgesOf(r)]

NodesIn(R, graph) == Gathered(OfType(R, "node"), graph)
EdgesIn(R, graph) == Gathered(OfType(R, "edge"), graph)

\* No batch is empty or too long.
Bounded(graph) == \A i \in DOMAIN graph : Len(graph[i].content) \in 1..BatchSize

LEMMA TheMaps ==
  ASSUME NEW R, Numbered(R)
  PROVE  /\ Maps(OfType(R, "node"), Entries(R), Items(R))
         /\ Maps(OfType(R, "edge"), Entries(R), Items(R))
         /\ Maps(NodesBy(R), R, Items(R))
         /\ Maps(EdgesBy(R), R, Items(R))
<1> DEFINE S == Items(R)
<1>1. \A x \in R : x \in S
  BY DEF Items
<1>2. \A r \in R : \A e \in Nat : [row |-> r, edge |-> e] \in S
  BY DEF Items
<1>3. ASSUME NEW type, NEW b \in Entries(R)
      PROVE  (IF b.type = type THEN b.content ELSE <<>>) \in Seq(S)
  <2>1. b.content \in Seq(S)
    BY DEF Entries
  <2> HIDE DEF S
  <2> QED BY <2>1
<1>4. ASSUME NEW r \in R
      PROVE  (IF r.n \in HasNode THEN <<r>> ELSE <<>>) \in Seq(S)
  <2> HIDE DEF S
  <2> QED BY <1>1
<1>5. ASSUME NEW r \in R
      PROVE  EdgesOf(r) \in Seq(S)
  <2> HIDE DEF S
  <2>1. EdgeCount[r.n] \in Nat
    BY SourceAssumption DEF Numbered
  <2> DEFINE k == EdgeCount[r.n]
  <2>2. EdgesOf(r) = [i \in 1..k |-> [row |-> r, edge |-> i]] /\ k \in Nat
    BY <2>1 DEF EdgesOf
  <2> HIDE DEF k
  <2>3. \A i \in 1..k : [row |-> r, edge |-> i] \in S
    BY <1>2, <2>2
  <2>4. [i \in 1..k |-> [row |-> r, edge |-> i]] \in Seq(S)
    BY <2>2, <2>3, IsASeq
  <2> QED BY <2>2, <2>4
<1> HIDE DEF S
<1>6. Maps(OfType(R, "node"), Entries(R), S) /\ Maps(OfType(R, "edge"), Entries(R), S)
  BY <1>3 DEF Maps, OfType
<1>7. Maps(NodesBy(R), R, S)
  BY <1>4 DEF Maps, NodesBy
<1>8. Maps(EdgesBy(R), R, S)
  BY <1>5 DEF Maps, EdgesBy
<1> QED BY <1>6, <1>7, <1>8 DEF S

\* A part of the result, with the nodes and edges in it.
Graph(R, graph, nodes, edges) ==
  /\ graph \in Seq(Entries(R))
  /\ NodesIn(R, graph) = nodes /\ nodes \in Seq(Items(R))
  /\ EdgesIn(R, graph) = edges /\ edges \in Seq(Items(R))
  /\ Bounded(graph)

LEMMA NoGraph ==
  ASSUME NEW R, Numbered(R)
  PROVE  Graph(R, <<>>, <<>>, <<>>)
<1>1. NodesIn(R, <<>>) = <<>> /\ EdgesIn(R, <<>>) = <<>>
  BY TheMaps, GatheredAppend DEF NodesIn, EdgesIn
<1>2. <<>> \in Seq(Entries(R)) /\ <<>> \in Seq(Items(R))
  BY EmptySeq
<1> QED BY <1>1, <1>2 DEF Graph, Bounded

LEMMA GraphConcat ==
  ASSUME NEW R, Numbered(R), NEW g, NEW h, NEW gn, NEW ge, NEW hn, NEW he,
         Graph(R, g, gn, ge), Graph(R, h, hn, he)
  PROVE  Graph(R, g \o h, gn \o hn, ge \o he)
<1>1. g \in Seq(Entries(R)) /\ h \in Seq(Entries(R))
  BY DEF Graph
<1>2. NodesIn(R, g \o h) = gn \o hn
  <2>1. NodesIn(R, g \o h) = NodesIn(R, g) \o NodesIn(R, h)
    BY <1>1, TheMaps, GatheredConcat DEF NodesIn
  <2> QED BY <2>1 DEF Graph
<1>3. EdgesIn(R, g \o h) = ge \o he
  <2>1. EdgesIn(R, g \o h) = EdgesIn(R, g) \o EdgesIn(R, h)
    BY <1>1, TheMaps, GatheredConcat DEF EdgesIn
  <2> QED BY <2>1 DEF Graph
<1>4. gn \o hn \in Seq(Items(R)) /\ ge \o he \in Seq(Items(R))
  <2> DEFINE Q == Items(R)
  <2>1. gn \in Seq(Q) /\ hn \in Seq(Q) /\ ge \in Seq(Q) /\ he \in Seq(Q)
    BY DEF Graph
  <2> HIDE DEF Q
  <2>2. gn \o hn \in Seq(Q) /\ ge \o he \in Seq(Q)
    BY <2>1, ConcatProperties
  <2> QED BY <2>2 DEF Q
<1>5. /\ g \o h \in Seq(Entries(R)) /\ Bounded(g \o h)
  <2> DEFINE E == Entries(R)
             gh == g \o h
  <2>1. g \in Seq(E) /\ h \in Seq(E)
    BY <1>1
  <2> HIDE DEF E
  <2>2. /\ gh \in Seq(E) /\ Len(gh) = Len(g) + Len(h) /\ Len(g) \in Nat /\ Len(h) \in Nat
        /\ \A i \in 1..(Len(g) + Len(h)) : gh[i] = IF i <= Len(g) THEN g[i] ELSE h[i - Len(g)]
    BY <2>1, ConcatProperties
  <2>3. DOMAIN g = 1..Len(g) /\ DOMAIN h = 1..Len(h)
    BY <2>1
  <2>4. /\ \A i \in 1..Len(g) : Len(g[i].content) \in 1..BatchSize
        /\ \A i \in 1..Len(h) : Len(h[i].content) \in 1..BatchSize
    BY <2>3 DEF Graph, Bounded
  <2> HIDE DEF gh
  <2>5. ASSUME NEW i \in DOMAIN gh
        PROVE  Len(gh[i].content) \in 1..BatchSize
    <3>1. i \in 1..(Len(g) + Len(h))
      BY <2>2
    <3>2. CASE i <= Len(g)
      <4>1. i \in 1..Len(g) /\ gh[i] = g[i]
        BY <2>2, <3>1, <3>2
      <4> QED BY <2>4, <4>1
    <3>3. CASE ~(i <= Len(g))
      <4>1. i - Len(g) \in 1..Len(h) /\ gh[i] = h[i - Len(g)]
        BY <2>2, <3>1, <3>3
      <4> QED BY <2>4, <4>1
    <3> QED BY <3>2, <3>3
  <2> QED BY <2>2, <2>5 DEF E, gh, Bounded
<1> QED BY <1>2, <1>3, <1>4, <1>5 DEF Graph

LEMMA NodeGraph ==
  ASSUME NEW R, Numbered(R), NEW r \in R
  PROVE  Graph(R, NodeOf(r), NodesBy(R)[r], <<>>)
<1> DEFINE node == [type |-> "node", content |-> <<r>>]
<1>1. CASE r.n \in HasNode
  <2>1. NodeOf(r) = <<node>> /\ NodesBy(R)[r] = <<r>>
    BY <1>1 DEF NodeOf, NodesBy
  <2>2. r \in Items(R)
    BY DEF Items
  <2>3. <<r>> \in Seq(Items(R)) /\ <<>> \in Seq(Items(R))
    BY <2>2
  <2>4. node \in Entries(R)
    BY <2>3 DEF Entries
  <2>5. OfType(R, "node")[node] = <<r>> /\ OfType(R, "edge")[node] = <<>>
    BY <2>4 DEF OfType
  <2>6. Len(node.content) = 1 /\ 1 \in 1..BatchSize
    BY SourceAssumption
  <2> HIDE DEF node
  <2>7. NodesIn(R, <<node>>) = <<r>> /\ EdgesIn(R, <<node>>) = <<>>
    BY <2>4, <2>5, TheMaps, GatheredAppend DEF NodesIn, EdgesIn
  <2>8. Bounded(<<node>>) /\ <<node>> \in Seq(Entries(R))
    <3>1. DOMAIN <<node>> = {1} /\ <<node>>[1] = node
      OBVIOUS
    <3>2. Bounded(<<node>>)
      BY <2>6, <3>1 DEF Bounded
    <3> QED BY <2>4, <3>2
  <2> QED BY <2>1, <2>3, <2>7, <2>8 DEF Graph
<1>2. CASE r.n \notin HasNode
  <2>1. NodeOf(r) = <<>> /\ NodesBy(R)[r] = <<>>
    BY <1>2 DEF NodeOf, NodesBy
  <2> QED BY <2>1, NoGraph
<1> QED BY <1>1, <1>2

LEMMA BatchGraph ==
  ASSUME NEW R, Numbered(R), NEW c \in Seq(Items(R)), Len(c) \in 1..BatchSize
  PROVE  Graph(R, <<EdgeBatch(c)>>, <<>>, c)
<1> DEFINE b == EdgeBatch(c)
<1>1. b \in Entries(R) /\ b.content = c /\ b.type = "edge"
  BY DEF EdgeBatch, Entries
<1>2. OfType(R, "node")[b] = <<>> /\ OfType(R, "edge")[b] = c
  BY <1>1 DEF OfType
<1> HIDE DEF b
<1>3. NodesIn(R, <<b>>) = <<>> /\ EdgesIn(R, <<b>>) = c
  BY <1>1, <1>2, TheMaps, GatheredAppend DEF NodesIn, EdgesIn
<1>4. Bounded(<<b>>) /\ <<b>> \in Seq(Entries(R)) /\ <<>> \in Seq(Items(R))
  BY <1>1 DEF Bounded
<1> QED BY <1>3, <1>4 DEF Graph, b

\* What is yielded has the nodes; what is yielded and the open batch have the edges.
Accumulated(R, acc, nodes, edges) ==
  /\ acc.parts \in Seq(Items(R))
  /\ Len(acc.parts) < BatchSize
  /\ \E sent : Graph(R, acc.out, nodes, sent) /\ edges = sent \o acc.parts

LEMMA ConcatAppend ==
  ASSUME NEW S, NEW s \in Seq(S), NEW t \in Seq(S), NEW x \in S
  PROVE  /\ s \o Append(t, x) = Append(s \o t, x) /\ Append(t, x) \in Seq(S)
         /\ s \o <<>> = s /\ <<>> \o s = s /\ s \o t \in Seq(S)
         /\ Append(s, x) = s \o <<x>>
<1> DEFINE u == <<x>>
<1>1. u \in Seq(S) /\ s \o t \in Seq(S)
  BY ConcatProperties
<1>2. Append(t, x) = t \o u /\ Append(s \o t, x) = (s \o t) \o u /\ Append(s, x) = s \o u
  BY <1>1, AppendIsConcat
<1>3. Append(t, x) \in Seq(S)
  OBVIOUS
<1>4. s \o <<>> = s /\ <<>> \o s = s
  BY ConcatEmptySeq
<1> HIDE DEF u
<1>5. (s \o t) \o u = s \o (t \o u)
  BY ONLY s \in Seq(S), t \in Seq(S), <1>1, ConcatAssociative
<1> QED BY <1>1, <1>2, <1>3, <1>4, <1>5 DEF u

LEMMA EdgeAdded ==
  ASSUME NEW R, Numbered(R), NEW acc, NEW nodes, NEW edges, Accumulated(R, acc, nodes, edges),
         NEW e \in Items(R)
  PROVE  Accumulated(R, AddEdge(acc, e), nodes, Append(edges, e)) /\ edges \in Seq(Items(R))
<1> DEFINE Q == Items(R)
           p == Append(acc.parts, e)
           next == AddEdge(acc, e)
<1>1. PICK sent : Graph(R, acc.out, nodes, sent) /\ edges = sent \o acc.parts
  BY DEF Accumulated
<1>2. sent \in Seq(Q) /\ acc.parts \in Seq(Q) /\ nodes \in Seq(Q) /\ acc.out \in Seq(Entries(R)) /\ e \in Q
  BY <1>1 DEF Graph, Accumulated
<1>3. Len(acc.parts) < BatchSize /\ BatchSize \in Nat \ {0}
  BY SourceAssumption DEF Accumulated
<1> HIDE DEF Q
<1>4. Len(p) = Len(acc.parts) + 1 /\ Len(acc.parts) \in Nat
  BY <1>2
<1>5. sent \o p = Append(edges, e) /\ p \in Seq(Q) /\ edges \in Seq(Q)
  BY <1>1, <1>2, ConcatAppend
<1>6. CASE Len(p) = BatchSize
  <2>1. next.out = Append(acc.out, EdgeBatch(p)) /\ next.parts = <<>>
    BY <1>6 DEF AddEdge
  <2> HIDE DEF p, next
  <2>2. Graph(R, <<EdgeBatch(p)>>, <<>>, p)
    <3>1. Len(p) \in 1..BatchSize
      BY <1>3, <1>6
    <3> QED BY <1>5, <3>1, BatchGraph DEF Q
  <2>3. Graph(R, acc.out \o <<EdgeBatch(p)>>, nodes \o <<>>, sent \o p)
    BY <1>1, <2>2, GraphConcat
  <2>4. EdgeBatch(p) \in Entries(R)
    BY <1>5 DEF EdgeBatch, Entries, Q
  <2>5. Append(acc.out, EdgeBatch(p)) = acc.out \o <<EdgeBatch(p)>>
    BY <1>2, <2>4, AppendIsConcat
  <2>6. nodes \o <<>> = nodes
    BY <1>2, ConcatEmptySeq
  <2>7. Append(edges, e) \in Seq(Q)
    BY <1>2, <1>5
  <2>8. Append(edges, e) \o <<>> = Append(edges, e) /\ <<>> \in Seq(Q) /\ Len(<<>>) = 0
    BY <2>7, ConcatEmptySeq
  <2>9. Graph(R, next.out, nodes, Append(edges, e))
    BY <1>5, <2>1, <2>3, <2>5, <2>6
  <2>10. Accumulated(R, next, nodes, Append(edges, e))
    <3>1. \E rest : Graph(R, next.out, nodes, rest) /\ Append(edges, e) = rest \o next.parts
      BY <2>1, <2>8, <2>9
    <3>2. next.parts \in Seq(Items(R)) /\ Len(next.parts) < BatchSize
      BY <1>3, <2>1, <2>8 DEF Q
    <3> QED BY <3>1, <3>2 DEF Accumulated
  <2> QED BY <1>5, <2>10 DEF Q, next
<1>7. CASE Len(p) # BatchSize
  <2>1. next.out = acc.out /\ next.parts = p
    BY <1>7 DEF AddEdge
  <2> HIDE DEF p, next
  <2>2. Len(p) < BatchSize
    BY <1>3, <1>4, <1>7
  <2>3. Accumulated(R, next, nodes, Append(edges, e))
    BY <1>1, <1>5, <2>1, <2>2 DEF Accumulated, Q
  <2> QED BY <1>5, <2>3 DEF Q, next
<1> QED BY <1>6, <1>7

\* The steps of AddRow.
Opened(acc, r) == [out |-> acc.out \o NodeOf(r), parts |-> acc.parts]
RowSteps(acc, r, n, f) ==
  f = [i \in 0..n |-> IF i = 0 THEN Opened(acc, r) ELSE AddEdge(f[i - 1], EdgesOf(r)[i])]

LEMMA RowStepsExist ==
  ASSUME NEW acc, NEW r, NEW N \in Nat
  PROVE  \E f : RowSteps(acc, r, N, f)
<1> DEFINE Exists(n) == \E f : RowSteps(acc, r, n, f)
           T == {n \in 0..N : Exists(n)}
<1>1. 0 \in T
  <2> DEFINE f == [i \in 0..0 |-> Opened(acc, r)]
  <2>1. f = [i \in 0..0 |-> IF i = 0 THEN Opened(acc, r) ELSE AddEdge(f[i - 1], EdgesOf(r)[i])]
    OBVIOUS
  <2>2. Exists(0)
    BY <2>1 DEF RowSteps
  <2> HIDE DEF Exists
  <2> QED BY <2>2
<1>2. ASSUME NEW n \in 1..N, n - 1 \in T
      PROVE  n \in T
  <2>1. PICK f : RowSteps(acc, r, n - 1, f)
    BY <1>2
  <2> DEFINE v == AddEdge(f[n - 1], EdgesOf(r)[n])
             h == [i \in 0..n |-> IF i = n THEN v ELSE f[i]]
  <2>2. \A i \in 0..(n - 1) : f[i] = IF i = 0 THEN Opened(acc, r) ELSE AddEdge(f[i - 1], EdgesOf(r)[i])
    BY <2>1 DEF RowSteps
  <2>3. h[n] = v /\ \A i \in 0..(n - 1) : h[i] = f[i]
    <3>1. n \in 0..n /\ \A i \in 0..(n - 1) : i \in 0..n /\ i # n
      OBVIOUS
    <3> HIDE DEF v
    <3>2. \A i \in 0..n : h[i] = IF i = n THEN v ELSE f[i]
      OBVIOUS
    <3> HIDE DEF h
    <3> QED BY <3>1, <3>2
  <2>4. v = AddEdge(f[n - 1], EdgesOf(r)[n]) /\ DOMAIN h = 0..n
    OBVIOUS
  <2>5. h = [i \in 0..n |-> h[i]]
    OBVIOUS
  <2> HIDE DEF v, h
  <2>6. ASSUME NEW i \in 0..n
        PROVE  h[i] = IF i = 0 THEN Opened(acc, r) ELSE AddEdge(h[i - 1], EdgesOf(r)[i])
    <3>1. CASE i = n
      <4>1. i # 0 /\ n - 1 \in 0..(n - 1)
        BY <3>1
      <4>2. h[i - 1] = f[n - 1]
        BY <2>3, <3>1, <4>1
      <4> QED BY <2>3, <2>4, <3>1, <4>1, <4>2
    <3>2. CASE i # n /\ i # 0
      <4>1. i \in 0..(n - 1) /\ i - 1 \in 0..(n - 1)
        BY <3>2
      <4>2. h[i] = f[i] /\ h[i - 1] = f[i - 1]
        BY <2>3, <4>1
      <4>3. f[i] = AddEdge(f[i - 1], EdgesOf(r)[i])
        BY <2>2, <3>2, <4>1
      <4> QED BY <3>2, <4>2, <4>3
    <3>3. CASE i # n /\ i = 0
      <4>1. i \in 0..(n - 1)
        BY <3>3
      <4> QED BY <2>2, <2>3, <3>3, <4>1
    <3> QED BY <3>1, <3>2, <3>3
  <2>7. h = [i \in 0..n |-> IF i = 0 THEN Opened(acc, r) ELSE AddEdge(h[i - 1], EdgesOf(r)[i])]
    BY <2>5, <2>6
  <2>8. Exists(n)
    BY <2>7 DEF RowSteps
  <2> HIDE DEF Exists
  <2> QED BY <2>8
<1> HIDE DEF T
<1>3. N \in 0..N
  OBVIOUS
<1>4. \A n \in 0..N : n \in T
  BY <1>1, <1>2, UpTo
<1>5. N \in T
  BY <1>3, <1>4
<1> QED BY <1>5 DEF T

LEMMA RowAdded ==
  ASSUME NEW R, Numbered(R), NEW acc, NEW nodes, NEW edges, Accumulated(R, acc, nodes, edges),
         NEW r \in R
  PROVE  Accumulated(R, AddRow(acc, r), nodes \o NodesBy(R)[r], edges \o EdgesBy(R)[r])
<1> DEFINE Q == Items(R)
           es == EdgesOf(r)
           N == Len(es)
           ns == nodes \o NodesBy(R)[r]
           start == Opened(acc, r)
           added == CHOOSE f : RowSteps(acc, r, N, f)
           So(n) == Accumulated(R, added[n], ns, edges \o Prefix(es, n))
           T == {n \in 0..N : So(n)}
<1>1. es \in Seq(Q) /\ N \in Nat /\ EdgesBy(R)[r] = es
  <2>1. Maps(EdgesBy(R), R, Q)
    BY TheMaps
  <2>2. EdgesBy(R)[r] = es
    BY DEF EdgesBy
  <2>3. EdgesBy(R)[r] \in Seq(Q)
    BY <2>1 DEF Maps
  <2> QED BY <2>2, <2>3
<1>2. AddRow(acc, r) = added[N]
  BY DEF AddRow, RowSteps, Opened
<1>3. PICK sent : Graph(R, acc.out, nodes, sent) /\ edges = sent \o acc.parts
  BY DEF Accumulated
<1>4. sent \in Seq(Q) /\ acc.parts \in Seq(Q) /\ edges \in Seq(Q)
  <2>1. sent \in Seq(Q) /\ acc.parts \in Seq(Q)
    BY <1>3 DEF Graph, Accumulated
  <2>2. sent \o acc.parts \in Seq(Q)
    <3> HIDE DEF Q
    <3> QED BY <2>1, ConcatProperties
  <2> QED BY <1>3, <2>1, <2>2
<1>5. Accumulated(R, start, ns, edges)
  <2>1. Graph(R, NodeOf(r), NodesBy(R)[r], <<>>)
    BY NodeGraph
  <2>2. Graph(R, acc.out \o NodeOf(r), ns, sent \o <<>>)
    BY <1>3, <2>1, GraphConcat
  <2>3. sent \o <<>> = sent
    BY <1>4, ConcatEmptySeq
  <2>4. start.out = acc.out \o NodeOf(r) /\ start.parts = acc.parts
    BY DEF Opened
  <2> HIDE DEF start, ns
  <2>5. \E rest : Graph(R, start.out, ns, rest) /\ edges = rest \o start.parts
    BY <1>3, <2>2, <2>3, <2>4
  <2>6. start.parts \in Seq(Items(R)) /\ Len(start.parts) < BatchSize
    BY <2>4 DEF Accumulated
  <2> QED BY <2>5, <2>6 DEF Accumulated
<1>6. RowSteps(acc, r, N, added)
  BY <1>1, RowStepsExist
<1>7. added[0] = start /\ \A i \in 1..N : added[i] = AddEdge(added[i - 1], es[i])
  <2> HIDE DEF N, added
  <2>1. \A i \in 0..N : added[i] = IF i = 0 THEN start ELSE AddEdge(added[i - 1], es[i])
    BY <1>6 DEF RowSteps
  <2>2. 0 \in 0..N /\ \A i \in 1..N : i \in 0..N /\ i # 0
    BY <1>1
  <2> HIDE DEF start, es
  <2> QED BY <2>1, <2>2
<1> HIDE DEF N, added, start, ns
<1>8. /\ Prefix(es, 0) = <<>> /\ Prefix(es, N) = es
      /\ \A n \in 0..N : Prefix(es, n) \in Seq(Q)
      /\ \A n \in 1..N : Prefix(es, n) = Append(Prefix(es, n - 1), es[n]) /\ es[n] \in Q
  <2>1. N = Len(es)
    BY DEF N
  <2> HIDE DEF es, Q
  <2>2. /\ Prefix(es, 0) = <<>> /\ Prefix(es, N) = es
        /\ \A n \in 0..N : Prefix(es, n) \in Seq(Q)
        /\ \A n \in 1..N : Prefix(es, n) = Append(Prefix(es, n - 1), es[n])
    BY <1>1, <2>1, PrefixIsSeq
  <2>3. \A n \in 1..N : es[n] \in Q
    BY <1>1, <2>1, ElementOfSeq
  <2> QED BY <2>2, <2>3
<1> HIDE DEF es
<1>9. 0 \in T
  <2>1. edges \o <<>> = edges
    <3> HIDE DEF Q
    <3> QED BY <1>4, ConcatEmptySeq
  <2>2. So(0)
    BY <1>5, <1>7, <1>8, <2>1
  <2> HIDE DEF So
  <2> QED BY <1>1, <2>2
<1>10. ASSUME NEW n \in 1..N, n - 1 \in T
       PROVE  n \in T
  <2> DEFINE sofar == edges \o Prefix(es, n - 1)
  <2>1. Accumulated(R, added[n - 1], ns, sofar)
    BY <1>10
  <2>2. n - 1 \in 0..N /\ n \in 0..N /\ es[n] \in Items(R)
    BY <1>1, <1>8
  <2>3. edges \o Prefix(es, n) = Append(sofar, es[n])
    <3>1. Prefix(es, n - 1) \in Seq(Q) /\ Prefix(es, n) = Append(Prefix(es, n - 1), es[n]) /\ es[n] \in Q
      BY <1>8, <2>2
    <3> HIDE DEF Q
    <3> QED BY <1>4, <3>1, ConcatAppend
  <2> HIDE DEF sofar
  <2>4. Accumulated(R, AddEdge(added[n - 1], es[n]), ns, Append(sofar, es[n]))
    BY <2>1, <2>2, EdgeAdded
  <2>5. So(n)
    BY <1>7, <2>3, <2>4
  <2> HIDE DEF So
  <2> QED BY <2>2, <2>5
<1> HIDE DEF T
<1>11. N \in 0..N
  BY <1>1
<1>12. \A n \in 0..N : n \in T
  BY <1>1, <1>9, <1>10, UpTo
<1>13. So(N)
  BY <1>11, <1>12 DEF T
<1> QED BY <1>1, <1>2, <1>8, <1>13 DEF ns

\* The steps of PageContent.
PageSteps(rows, n, f) ==
  f = [i \in 0..n |-> IF i = 0 THEN Nothing ELSE AddRow(f[i - 1], rows[i])]

LEMMA PageStepsExist ==
  ASSUME NEW rows, NEW N \in Nat
  PROVE  \E f : PageSteps(rows, N, f)
<1> DEFINE Exists(n) == \E f : PageSteps(rows, n, f)
           T == {n \in 0..N : Exists(n)}
<1>1. 0 \in T
  <2> DEFINE f == [i \in 0..0 |-> Nothing]
  <2>1. f = [i \in 0..0 |-> IF i = 0 THEN Nothing ELSE AddRow(f[i - 1], rows[i])]
    OBVIOUS
  <2>2. Exists(0)
    BY <2>1 DEF PageSteps
  <2> HIDE DEF Exists
  <2> QED BY <2>2
<1>2. ASSUME NEW n \in 1..N, n - 1 \in T
      PROVE  n \in T
  <2>1. PICK f : PageSteps(rows, n - 1, f)
    BY <1>2
  <2> DEFINE v == AddRow(f[n - 1], rows[n])
             h == [i \in 0..n |-> IF i = n THEN v ELSE f[i]]
  <2>2. \A i \in 0..(n - 1) : f[i] = IF i = 0 THEN Nothing ELSE AddRow(f[i - 1], rows[i])
    BY <2>1 DEF PageSteps
  <2>3. h[n] = v /\ \A i \in 0..(n - 1) : h[i] = f[i]
    <3>1. n \in 0..n /\ \A i \in 0..(n - 1) : i \in 0..n /\ i # n
      OBVIOUS
    <3> HIDE DEF v
    <3>2. \A i \in 0..n : h[i] = IF i = n THEN v ELSE f[i]
      OBVIOUS
    <3> HIDE DEF h
    <3> QED BY <3>1, <3>2
  <2>4. v = AddRow(f[n - 1], rows[n])
    OBVIOUS
  <2>5. h = [i \in 0..n |-> h[i]]
    OBVIOUS
  <2> HIDE DEF v, h
  <2>6. ASSUME NEW i \in 0..n
        PROVE  h[i] = IF i = 0 THEN Nothing ELSE AddRow(h[i - 1], rows[i])
    <3>1. CASE i = n
      <4>1. i # 0 /\ n - 1 \in 0..(n - 1)
        BY <3>1
      <4>2. h[i - 1] = f[n - 1]
        BY <2>3, <3>1, <4>1
      <4> QED BY <2>3, <2>4, <3>1, <4>1, <4>2
    <3>2. CASE i # n /\ i # 0
      <4>1. i \in 0..(n - 1) /\ i - 1 \in 0..(n - 1)
        BY <3>2
      <4>2. h[i] = f[i] /\ h[i - 1] = f[i - 1]
        BY <2>3, <4>1
      <4>3. f[i] = AddRow(f[i - 1], rows[i])
        BY <2>2, <3>2, <4>1
      <4> QED BY <3>2, <4>2, <4>3
    <3>3. CASE i # n /\ i = 0
      <4>1. i \in 0..(n - 1)
        BY <3>3
      <4> QED BY <2>2, <2>3, <3>3, <4>1
    <3> QED BY <3>1, <3>2, <3>3
  <2>7. h = [i \in 0..n |-> IF i = 0 THEN Nothing ELSE AddRow(h[i - 1], rows[i])]
    BY <2>5, <2>6
  <2>8. Exists(n)
    BY <2>7 DEF PageSteps
  <2> HIDE DEF Exists
  <2> QED BY <2>8
<1> HIDE DEF T
<1>3. N \in 0..N
  OBVIOUS
<1>4. \A n \in 0..N : n \in T
  BY <1>1, <1>2, UpTo
<1>5. N \in T
  BY <1>3, <1>4
<1> QED BY <1>5 DEF T

NodesFor(R, rows) == Gathered(NodesBy(R), rows)
EdgesFor(R, rows) == Gathered(EdgesBy(R), rows)

\* A page becomes a graph of its rows.
LEMMA PageGraph ==
  ASSUME NEW R, Numbered(R), NEW rows \in Seq(R)
  PROVE  Graph(R, PageContent(rows), NodesFor(R, rows), EdgesFor(R, rows))
<1> DEFINE N == Len(rows)
           Q == Items(R)
           read == CHOOSE f : PageSteps(rows, N, f)
           So(n) == Accumulated(R, read[n], NodesFor(R, Prefix(rows, n)), EdgesFor(R, Prefix(rows, n)))
           T == {n \in 0..N : So(n)}
<1>1. N \in Nat
  OBVIOUS
<1>2. PageContent(rows) = Flush(read[N])
  BY DEF PageContent, PageSteps
<1>3. PageSteps(rows, N, read)
  BY <1>1, PageStepsExist
<1>4. /\ Prefix(rows, 0) = <<>> /\ Prefix(rows, N) = rows
      /\ \A n \in 0..N : Prefix(rows, n) \in Seq(R)
      /\ \A n \in 1..N : Prefix(rows, n) = Append(Prefix(rows, n - 1), rows[n])
  BY PrefixIsSeq
<1>5. \A n \in 1..N : rows[n] \in R
  BY ElementOfSeq
<1> HIDE DEF N, read
<1>6. read[0] = Nothing /\ \A i \in 1..N : read[i] = AddRow(read[i - 1], rows[i])
  <2>1. \A i \in 0..N : read[i] = IF i = 0 THEN Nothing ELSE AddRow(read[i - 1], rows[i])
    BY <1>3 DEF PageSteps
  <2>2. 0 \in 0..N /\ \A i \in 1..N : i \in 0..N /\ i # 0
    BY <1>1
  <2> QED BY <2>1, <2>2
<1>7. 0 \in T
  <2>1. NodesFor(R, <<>>) = <<>> /\ EdgesFor(R, <<>>) = <<>>
    BY TheMaps, GatheredAppend DEF NodesFor, EdgesFor
  <2>2. Nothing.out = <<>> /\ Nothing.parts = <<>> /\ Len(<<>>) = 0 /\ <<>> \in Seq(Q) /\ <<>> \o <<>> = <<>>
    BY DEF Nothing
  <2>3. Graph(R, <<>>, <<>>, <<>>)
    BY NoGraph
  <2>4. \E sent : Graph(R, Nothing.out, <<>>, sent) /\ <<>> = sent \o Nothing.parts
    BY <2>2, <2>3
  <2>5. Accumulated(R, Nothing, <<>>, <<>>)
    BY <2>2, <2>4, SourceAssumption DEF Accumulated
  <2>6. So(0)
    BY <1>4, <1>6, <2>1, <2>5
  <2> HIDE DEF So
  <2> QED BY <1>1, <2>6
<1>8. ASSUME NEW n \in 1..N, n - 1 \in T
      PROVE  n \in T
  <2> DEFINE p == Prefix(rows, n - 1)
             r == rows[n]
  <2>1. Accumulated(R, read[n - 1], NodesFor(R, p), EdgesFor(R, p))
    BY <1>8
  <2>2. n \in 0..N /\ p \in Seq(R) /\ r \in R /\ Prefix(rows, n) = Append(p, r)
    <3>1. n \in 0..N /\ n - 1 \in 0..N
      BY <1>1
    <3> QED BY <1>4, <1>5, <3>1
  <2>3. read[n] = AddRow(read[n - 1], r)
    BY <1>6
  <2> HIDE DEF p, r
  <2>4. Accumulated(R, AddRow(read[n - 1], r), NodesFor(R, p) \o NodesBy(R)[r], EdgesFor(R, p) \o EdgesBy(R)[r])
    BY <2>1, <2>2, RowAdded
  <2>5. NodesFor(R, Append(p, r)) = NodesFor(R, p) \o NodesBy(R)[r]
    BY <2>2, TheMaps, GatheredAppend DEF NodesFor
  <2>6. EdgesFor(R, Append(p, r)) = EdgesFor(R, p) \o EdgesBy(R)[r]
    BY <2>2, TheMaps, GatheredAppend DEF EdgesFor
  <2>7. So(n)
    BY <2>2, <2>3, <2>4, <2>5, <2>6
  <2> HIDE DEF So
  <2> QED BY <2>2, <2>7
<1> HIDE DEF T
<1>9. N \in 0..N
  BY <1>1
<1>10. \A n \in 0..N : n \in T
  BY <1>1, <1>7, <1>8, UpTo
<1>11. Accumulated(R, read[N], NodesFor(R, rows), EdgesFor(R, rows))
  BY <1>4, <1>9, <1>10 DEF T
<1> DEFINE acc == read[N]
           ns == NodesFor(R, rows)
           es == EdgesFor(R, rows)
<1>12. PICK sent : Graph(R, acc.out, ns, sent) /\ es = sent \o acc.parts
  BY <1>11 DEF Accumulated
<1>13. acc.parts \in Seq(Q) /\ Len(acc.parts) < BatchSize
  BY <1>11 DEF Accumulated
<1>14. sent \in Seq(Q) /\ ns \in Seq(Q) /\ acc.out \in Seq(Entries(R))
  BY <1>12 DEF Graph
<1> HIDE DEF acc, ns, es
<1>15. CASE acc.parts = <<>>
  <2>1. Flush(acc) = acc.out
    BY <1>15 DEF Flush
  <2>2. sent \o <<>> = sent
    <3> HIDE DEF Q
    <3> QED BY <1>14, ConcatEmptySeq
  <2>3. Graph(R, Flush(acc), ns, es)
    BY <1>12, <1>15, <2>1, <2>2
  <2> QED BY <1>2, <2>3 DEF acc, ns, es
<1>16. CASE acc.parts # <<>>
  <2> DEFINE c == acc.parts
  <2>1. Flush(acc) = Append(acc.out, EdgeBatch(c))
    BY <1>16 DEF Flush
  <2>2. Len(c) \in 1..BatchSize /\ c \in Seq(Items(R))
    <3>1. Len(c) \in Nat /\ Len(c) # 0
      BY <1>13, <1>16
    <3> QED BY <1>13, <3>1, SourceAssumption
  <2> HIDE DEF c
  <2>3. Graph(R, <<EdgeBatch(c)>>, <<>>, c)
    BY <2>2, BatchGraph
  <2>4. Graph(R, acc.out \o <<EdgeBatch(c)>>, ns \o <<>>, sent \o c)
    BY <1>12, <2>3, GraphConcat
  <2>5. EdgeBatch(c) \in Entries(R)
    BY <2>2 DEF EdgeBatch, Entries
  <2>6. Append(acc.out, EdgeBatch(c)) = acc.out \o <<EdgeBatch(c)>>
    BY <1>14, <2>5, AppendIsConcat
  <2>7. ns \o <<>> = ns
    <3> HIDE DEF Q
    <3> QED BY <1>14, ConcatEmptySeq
  <2>8. Graph(R, Flush(acc), ns, es)
    BY <1>12, <2>1, <2>4, <2>6, <2>7 DEF c
  <2> QED BY <1>2, <2>8 DEF acc, ns, es
<1> QED BY <1>15, <1>16

---------------------------------------------------------------------------
(* Pages. *)

\* Division leaves less than the divisor.
LEMMA Division ==
  ASSUME NEW a \in Nat, NEW d \in Nat \ {0}
  PROVE  a \div d \in Nat /\ (a \div d) * d <= a /\ a < (a \div d) * d + d
<1> DEFINE T == {n \in Nat : a < n * d + d}
<1>1. a \in T
  OBVIOUS
<1>2. PICK q \in T : \A n \in T : q <= n
  BY <1>1, FirstExists
<1>3. q * d <= a
  <2>1. CASE q = 0
    BY <2>1
  <2>2. CASE q # 0
    <3>1. q - 1 \in Nat /\ q - 1 < q /\ (q - 1) * d + d = q * d
      BY <2>2
    <3>2. q - 1 \notin T
      BY <1>2, <3>1
    <3>3. ~(a < (q - 1) * d + d)
      BY <3>1, <3>2
    <3> QED BY <3>1, <3>3
  <2> QED BY <2>1, <2>2
<1>4. q \in Nat /\ a < q * d + d
  BY <1>2
<1>5. a - q * d \in 0..(d - 1) /\ a = q * d + (a - q * d)
  BY <1>3, <1>4
<1>6. \A r \in 0..(d - 1) : (q * d + r) \div d = q
  BY <1>4
<1> HIDE DEF T
<1>7. a \div d = q
  BY <1>5, <1>6
<1> QED BY <1>3, <1>4, <1>7

PageCount(rows) == (Len(rows) + PageSize - 1) \div PageSize

\* There is a page after m of them just if a row is left.
LEMMA PagesAreNeeded ==
  ASSUME NEW rows, Len(rows) \in Nat
  PROVE  /\ PageCount(rows) \in Nat
         /\ \A m \in Nat : m * PageSize \in Nat /\ (m * PageSize < Len(rows) <=> m < PageCount(rows))
<1> DEFINE C == Len(rows)
           P == PageSize
           q == PageCount(rows)
<1>1. C \in Nat /\ P \in Nat \ {0}
  BY SourceAssumption
<1>2. C + P - 1 \in Nat /\ q = (C + P - 1) \div P
  BY <1>1 DEF PageCount
<1>3. q \in Nat /\ q * P <= C + P - 1 /\ C + P - 1 < q * P + P
  BY <1>1, <1>2, Division
<1> HIDE DEF q, C, P
<1>4. ASSUME NEW m \in Nat
      PROVE  m * P \in Nat /\ (m * P < C <=> m < q)
  <2>1. m * P \in Nat /\ q * P \in Nat
    BY <1>1, <1>3
  <2>2. ASSUME m < q
        PROVE  m * P < C
    <3>1. m * P + P <= q * P
      BY <1>1, <1>3, <2>2
    <3> QED BY <1>1, <1>3, <2>1, <3>1
  <2>3. ASSUME ~(m < q)
        PROVE  ~(m * P < C)
    <3>1. q * P <= m * P
      BY <1>1, <1>3, <2>3
    <3> QED BY <1>1, <1>3, <2>1, <3>1
  <2> QED BY <2>1, <2>2, <2>3
<1> QED BY <1>3, <1>4 DEF q, C, P

\* The number of the last row of page p.
LastRow(rows, p) == IF p * PageSize < Len(rows) THEN p * PageSize ELSE Len(rows)
RowsTo(rows, p) == SubSeq(rows, 1, LastRow(rows, p))

\* The pages follow one another.
LEMMA PagesJoin ==
  ASSUME NEW R, NEW rows \in Seq(R)
  PROVE  /\ RowsTo(rows, 0) = <<>> /\ RowsTo(rows, PageCount(rows)) = rows
         /\ \A p \in 1..PageCount(rows) :
              /\ RowsTo(rows, p - 1) \in Seq(R) /\ PageOf(rows, p) \in Seq(R)
              /\ RowsTo(rows, p) = RowsTo(rows, p - 1) \o PageOf(rows, p)
<1> DEFINE N == PageCount(rows)
           L == Len(rows)
<1>1. L \in Nat /\ N \in Nat /\ PageSize \in Nat \ {0}
  BY PagesAreNeeded, SourceAssumption
<1>2. \A m \in Nat : m * PageSize \in Nat /\ (m * PageSize < Len(rows) <=> m < N)
  BY <1>1, PagesAreNeeded
<1>3. RowsTo(rows, 0) = <<>>
  <2>1. LastRow(rows, 0) = 0
    BY <1>1 DEF LastRow
  <2> QED BY <2>1, SubSeqEmpty DEF RowsTo
<1>4. RowsTo(rows, N) = rows
  <2>1. LastRow(rows, N) = L
    BY <1>1, <1>2 DEF LastRow
  <2> QED BY <2>1, SubSeqFull DEF RowsTo
<1>5. ASSUME NEW p \in 1..N
      PROVE  /\ RowsTo(rows, p - 1) \in Seq(R) /\ PageOf(rows, p) \in Seq(R)
             /\ RowsTo(rows, p) = RowsTo(rows, p - 1) \o PageOf(rows, p)
  <2> DEFINE k == (p - 1) * PageSize
             l == LastRow(rows, p)
  <2> HIDE DEF N
  <2>1. p \in Nat /\ p - 1 \in Nat /\ p - 1 < N /\ p * PageSize = k + PageSize
    BY <1>1
  <2>2. k \in Nat /\ k < L /\ LastRow(rows, p - 1) = k
    BY <1>2, <2>1 DEF LastRow
  <2>3. l \in Nat /\ k < l /\ l <= L
    <3> HIDE DEF k
    <3> QED BY <1>1, <2>1, <2>2 DEF LastRow
  <2>4. RowsTo(rows, p) = SubSeq(rows, 1, l) /\ RowsTo(rows, p - 1) = SubSeq(rows, 1, k)
        /\ PageOf(rows, p) = SubSeq(rows, k + 1, l)
    BY <2>2 DEF RowsTo, PageOf, LastRow
  <2> HIDE DEF k, l, L
  <2>5. L = Len(rows)
    BY DEF L
  <2>6. SubSeq(rows, 1, k) \in Seq(R) /\ SubSeq(rows, k + 1, l) \in Seq(R)
    <3>1. \A i \in 1..k : i \in 1..L
      BY <1>1, <2>2
    <3>2. \A i \in (k + 1)..l : i \in 1..L
      BY <1>1, <2>2, <2>3
    <3>3. \A i \in 1..L : rows[i] \in R
      BY <2>5, ElementOfSeq
    <3> QED BY <2>2, <2>3, <3>1, <3>2, <3>3, SubSeqProperties
  <2>7. SubSeq(rows, 1, k) \o SubSeq(rows, k + 1, l) = SubSeq(rows, 1, l)
    BY <1>1, <2>2, <2>3, <2>5, ConcatAdjacentSubSeq
  <2> QED BY <2>4, <2>6, <2>7
<1> QED BY <1>3, <1>4, <1>5

LEMMA RowsBecomeGraph ==
  ASSUME NEW R, Numbered(R), NEW rows \in Seq(R)
  PROVE  Graph(R, GraphContent(rows), NodesFor(R, rows), EdgesFor(R, rows))
<1> DEFINE N == PageCount(rows)
           E == Entries(R)
           page == [p \in 1..N |-> PageContent(PageOf(rows, p))]
           So(p) == Graph(R, FlattenSeq(Prefix(page, p)), NodesFor(R, RowsTo(rows, p)), EdgesFor(R, RowsTo(rows, p)))
           T == {p \in 0..N : So(p)}
<1>1. N \in Nat /\ GraphContent(rows) = FlattenSeq(page)
  <2>1. Len(rows) \in Nat
    OBVIOUS
  <2> QED BY <2>1, PagesAreNeeded DEF GraphContent, PageCount
<1>2. /\ RowsTo(rows, 0) = <<>> /\ RowsTo(rows, N) = rows
      /\ \A p \in 1..N : /\ RowsTo(rows, p - 1) \in Seq(R) /\ PageOf(rows, p) \in Seq(R)
                         /\ RowsTo(rows, p) = RowsTo(rows, p - 1) \o PageOf(rows, p)
  BY PagesJoin
<1> HIDE DEF N
<1>3. \A p \in 1..N : Graph(R, page[p], NodesFor(R, PageOf(rows, p)), EdgesFor(R, PageOf(rows, p)))
  BY <1>2, PageGraph
<1>4. page \in Seq(Seq(E)) /\ Len(page) = N /\ \A p \in 1..N : page[p] \in Seq(E)
  <2>1. \A p \in 1..N : page[p] = PageContent(PageOf(rows, p))
    OBVIOUS
  <2>2. page = [p \in 1..N |-> page[p]] /\ DOMAIN page = 1..N
    OBVIOUS
  <2> HIDE DEF page
  <2>3. \A p \in 1..N : page[p] \in Seq(E)
    BY <1>3 DEF Graph
  <2> HIDE DEF E
  <2> DEFINE Q == Seq(E)
  <2>4. \A p \in 1..N : page[p] \in Q
    BY <2>3
  <2> HIDE DEF Q
  <2>5. page \in [1..N -> Q]
    BY <2>2, <2>4
  <2>6. page \in Seq(Q) /\ Len(page) = N
    BY <1>1, <2>5, FunctionIsSeq
  <2> QED BY <2>3, <2>6 DEF Q
<1> HIDE DEF page
<1>5. /\ Prefix(page, 0) = <<>> /\ Prefix(page, N) = page
      /\ \A p \in 0..N : Prefix(page, p) \in Seq(Seq(E))
      /\ \A p \in 1..N : Prefix(page, p) = Append(Prefix(page, p - 1), page[p])
  <2> DEFINE Q == Seq(E)
  <2>1. page \in Seq(Q) /\ N = Len(page)
    BY <1>4
  <2> HIDE DEF Q
  <2>2. /\ Prefix(page, 0) = <<>> /\ Prefix(page, N) = page
        /\ \A p \in 0..N : Prefix(page, p) \in Seq(Q)
        /\ \A p \in 1..N : Prefix(page, p) = Append(Prefix(page, p - 1), page[p])
    BY <2>1, PrefixIsSeq
  <2> QED BY <2>2 DEF Q
<1>6. 0 \in T
  <2>1. NodesFor(R, <<>>) = <<>> /\ EdgesFor(R, <<>>) = <<>>
    BY TheMaps, GatheredAppend DEF NodesFor, EdgesFor
  <2>2. FlattenSeq(<<>>) = <<>>
    BY DEF FlattenSeq
  <2>3. So(0)
    BY <1>2, <1>5, <2>1, <2>2, NoGraph
  <2> HIDE DEF So
  <2> QED BY <1>1, <2>3
<1>7. ASSUME NEW p \in 1..N, p - 1 \in T
      PROVE  p \in T
  <2> DEFINE a == Prefix(page, p - 1)
             s == RowsTo(rows, p - 1)
             t == PageOf(rows, p)
             x == page[p]
  <2>1. p \in 0..N /\ p - 1 \in 0..N
    BY <1>1
  <2>2. Graph(R, FlattenSeq(a), NodesFor(R, s), EdgesFor(R, s))
    BY <1>7
  <2>3. Graph(R, x, NodesFor(R, t), EdgesFor(R, t))
    BY <1>3
  <2>4. a \in Seq(Seq(E)) /\ x \in Seq(E) /\ Prefix(page, p) = Append(a, x)
    BY <1>4, <1>5, <2>1
  <2>5. s \in Seq(R) /\ t \in Seq(R) /\ RowsTo(rows, p) = s \o t
    BY <1>2
  <2> HIDE DEF a, s, t, x, E
  <2>6. FlattenSeq(Append(a, x)) = FlattenSeq(a) \o x
    BY <2>4, FlattenAppend
  <2>7. NodesFor(R, s \o t) = NodesFor(R, s) \o NodesFor(R, t)
    <3>1. Maps(NodesBy(R), R, Items(R)) /\ s \in Seq(R) /\ t \in Seq(R)
      BY <2>5, TheMaps
    <3> QED BY ONLY <3>1, GatheredConcat DEF NodesFor
  <2>8. EdgesFor(R, s \o t) = EdgesFor(R, s) \o EdgesFor(R, t)
    <3>1. Maps(EdgesBy(R), R, Items(R)) /\ s \in Seq(R) /\ t \in Seq(R)
      BY <2>5, TheMaps
    <3> QED BY ONLY <3>1, GatheredConcat DEF EdgesFor
  <2>9. Graph(R, FlattenSeq(a) \o x, NodesFor(R, s) \o NodesFor(R, t), EdgesFor(R, s) \o EdgesFor(R, t))
    BY <2>2, <2>3, GraphConcat
  <2>10. So(p)
    BY <2>4, <2>5, <2>6, <2>7, <2>8, <2>9
  <2> HIDE DEF So
  <2> QED BY <2>1, <2>10
<1> HIDE DEF T
<1>8. N \in 0..N
  BY <1>1
<1>9. \A p \in 0..N : p \in T
  BY <1>1, <1>6, <1>7, UpTo
<1>10. So(N)
  BY <1>8, <1>9 DEF T
<1> QED BY <1>1, <1>2, <1>5, <1>10

\* However long a table is, and however its pages and batches fall, conversion
\* yields each node and each edge of its rows once and in order, in batches that
\* are neither empty nor too long (_generate_graph_content).
THEOREM ConversionIsExact ==
  ASSUME NEW R, \A r \in R : r.n \in DOMAIN EdgeCount, NEW rows \in Seq(R)
  PROVE  IsGraphOf(GraphContent(rows), rows)
<1> DEFINE graph == GraphContent(rows)
<1>1. Numbered(R)
  BY DEF Numbered
<1>2. Graph(R, graph, NodesFor(R, rows), EdgesFor(R, rows))
  BY <1>1, RowsBecomeGraph
<1>3. graph \in Seq(Entries(R)) /\ NodesIn(R, graph) = NodesFor(R, rows)
      /\ EdgesIn(R, graph) = EdgesFor(R, rows) /\ Bounded(graph)
  BY <1>2 DEF Graph
<1> HIDE DEF graph
<1>4. ASSUME NEW type
      PROVE  Contents(graph, type) = Gathered(OfType(R, type), graph)
  <2>1. \A i \in DOMAIN graph : graph[i] \in Entries(R)
    BY <1>3
  <2>2. Mapped(OfType(R, type), graph) =
          [i \in DOMAIN graph |-> IF graph[i].type = type THEN graph[i].content ELSE <<>>]
    BY <2>1 DEF Mapped, OfType
  <2> QED BY <2>2 DEF Contents, Gathered
<1>5. \A i \in DOMAIN rows : rows[i] \in R
  OBVIOUS
<1>6. Mapped(NodesBy(R), rows) = [i \in DOMAIN rows |-> IF rows[i].n \in HasNode THEN <<rows[i]>> ELSE <<>>]
  BY <1>5 DEF Mapped, NodesBy
<1>7. Mapped(EdgesBy(R), rows) = [i \in DOMAIN rows |-> EdgesOf(rows[i])]
  BY <1>5 DEF Mapped, EdgesBy
<1>8. Contents(graph, "node") = FlattenSeq([i \in DOMAIN rows |-> IF rows[i].n \in HasNode THEN <<rows[i]>> ELSE <<>>])
  BY <1>3, <1>4, <1>6 DEF NodesIn, NodesFor, Gathered
<1>9. Contents(graph, "edge") = FlattenSeq([i \in DOMAIN rows |-> EdgesOf(rows[i])])
  BY <1>3, <1>4, <1>7 DEF EdgesIn, EdgesFor, Gathered
<1> QED BY <1>3, <1>8, <1>9 DEF IsGraphOf, Bounded, graph

---------------------------------------------------------------------------
(* The inductive invariant of the jobs. *)

StateInv ==
  /\ host \in Hosts
  /\ job \in 0..MaxJobs
  /\ status \in {"none", "running", "completed", "failed"}
  /\ selected \subseteq Tables
  /\ stage \in Stages
  /\ phase \in {"begin", "load"}
  /\ attempt \in 1..MaxAttempts
  /\ DOMAIN pending = Stages
  /\ store \in [Tables -> [job : 0..MaxJobs, rows : Seq(Rows)]]
  /\ lookup \in [LookupTables -> 0..MaxJobs]
  /\ DOMAIN output = Tables
  /\ source \in 0..MaxRows
  /\ yielded \in [Tables -> Seq(Rows)]
  /\ cut \subseteq Tables
  /\ tainted \in BOOLEAN
  /\ before \in {"none", "completed", "failed"}

\* There is a package of stage s: it is pending, or this run loads it.
Live(s) == pending[s] # NoPackage \/ (status = "running" /\ phase = "load" /\ stage = s)

IsPackage(p, s) ==
  /\ p = [content |-> p.content, todo |-> p.todo, fresh |-> p.fresh, job |-> p.job]
  /\ p.todo \subseteq DOMAIN p.content
  /\ DOMAIN p.content \subseteq Tables
  /\ p.fresh \in BOOLEAN
  /\ p.fresh => p.todo = DOMAIN p.content
  /\ p.job \in 0..MaxJobs
  /\ s = "collect" => \A t \in DOMAIN p.content : p.content[t] \in Seq(Rows)
  /\ s = "preprocess" => \A t \in DOMAIN p.content : p.content[t] \in 0..MaxJobs

PackageInv == \A s \in Stages : Live(s) => IsPackage(pending[s], s)

\* A job passes its stages in their order and leaves no package of a stage it has
\* passed; so one that follows a job that completed finds none.
StageInv ==
  /\ stage = "preprocess" => host.preprocessor
  /\ pending["preprocess"] # NoPackage => host.preprocessor
  /\ stage \in {"preprocess", "convert"} => pending["collect"] = NoPackage
  /\ stage = "convert" => pending["preprocess"] = NoPackage
  /\ status = "completed" => stage = "convert"
  /\ status \in {"none", "completed"} => \A s \in Stages : pending[s] = NoPackage
  /\ before # "failed" => ~tainted

\* What was yielded of table t is all there is, unless its resource raised.
Whole(t) == t \in cut \/ yielded[t] = SourceRows(source)

\* The rows of table t have been collected by this job.
Collected(t) == store[t] = [job |-> job, rows |-> yielded[t]] /\ Whole(t)

\* What this job is to deliver for table t, and what that was looked up in: of a
\* table that it did not collect the lookup has what the files have.
IsOwn(c, t) ==
  /\ c.graph = GraphContent(RowsYielded(t))
  /\ host.preprocessor => \A u \in Tables : c.lookedUp[u] = store[u].job
Delivered(t) == Len(output[t]) = 1 /\ IsOwn(output[t][1], t)

CollectInv ==
  LET p == pending["collect"]
  IN Live("collect") =>
       /\ DOMAIN p.content = selected
       /\ p.job = job
       /\ \A t \in selected : p.content[t] = yielded[t] /\ Whole(t)
       /\ ~p.fresh => \A t \in selected \ p.todo : Collected(t)

PreprocessInv ==
  LET p == pending["preprocess"]
  IN Live("preprocess") =>
       /\ DOMAIN p.content = Tables
       /\ \A t \in Tables : p.content[t] = store[t].job
       /\ ~p.fresh => \A t \in Tables \ p.todo : lookup[t] = store[t].job

ConvertInv ==
  LET p == pending["convert"]
  IN Live("convert") =>
       /\ DOMAIN p.content = selected
       /\ \A t \in selected : IsOwn(p.content[t], t)
       /\ ~p.fresh => \A t \in selected \ p.todo : Delivered(t)

\* A job that found nothing pending has to do with its own rows only.
OwnInv ==
  status \in {"running", "completed"} /\ ~tainted =>
    /\ \A s \in Stages \ {stage} : pending[s] = NoPackage
    /\ stage = "collect" => CollectInv
    /\ stage = "preprocess" => PreprocessInv
    /\ stage = "convert" => ConvertInv
    /\ stage \in {"preprocess", "convert"} => \A t \in selected : Collected(t)
    /\ stage = "convert" /\ host.preprocessor => \A u \in Tables : lookup[u] = store[u].job
    /\ \A t \in Tables : stage # "convert" \/ t \notin selected => output[t] = <<>>
    /\ status = "completed" => \A t \in selected : Delivered(t)

DataflowInv == StateInv /\ PackageInv /\ StageInv /\ OwnInv

\* Sequences of one element each join to their elements.
LEMMA SinglesJoin ==
  ASSUME NEW D, NEW m, Maps(m, D, D), \A x \in D : m[x] = <<x>>, NEW q \in Seq(D)
  PROVE  Gathered(m, q) = q
<1> DEFINE N == Len(q)
           T == {n \in 0..N : Gathered(m, Prefix(q, n)) = Prefix(q, n)}
<1>1. N \in Nat
  OBVIOUS
<1>3. /\ Prefix(q, 0) = <<>> /\ Prefix(q, N) = q
      /\ \A n \in 0..N : Prefix(q, n) \in Seq(D)
      /\ \A n \in 1..N : Prefix(q, n) = Append(Prefix(q, n - 1), q[n])
  BY PrefixIsSeq
<1>4. /\ Gathered(m, <<>>) = <<>>
      /\ \A a \in Seq(D) : \A x \in D : Gathered(m, Append(a, x)) = Gathered(m, a) \o m[x]
  BY GatheredAppend
<1>5. 0 \in T
  BY <1>1, <1>3, <1>4
<1>6. ASSUME NEW n \in 1..N, n - 1 \in T
      PROVE  n \in T
  <2> DEFINE a == Prefix(q, n - 1)
  <2>1. a \in Seq(D) /\ Gathered(m, a) = a /\ q[n] \in D /\ n \in 0..N
    BY <1>3, <1>6
  <2>2. Prefix(q, n) = Append(a, q[n])
    BY <1>3
  <2> HIDE DEF a
  <2>3. Gathered(m, Append(a, q[n])) = a \o <<q[n]>>
    BY <1>4, <2>1
  <2>4. Append(a, q[n]) = a \o <<q[n]>>
    BY ONLY <2>1, AppendIsConcat
  <2> QED BY <2>1, <2>2, <2>3, <2>4
<1>7. \A n \in 0..N : n \in T
  <2> HIDE DEF T, N
  <2> QED BY ONLY <1>1, <1>5, <1>6, UpTo
<1> QED BY <1>1, <1>3, <1>7

\* What a source yields of a table are row numbers, wherever it raised, and all
\* there are unless it did.
LEMMA YieldsAreTyped ==
  ASSUME NEW size \in 0..MaxRows, NEW last \in 0..size, NEW raising, selected \subseteq Tables
  PROVE  /\ DOMAIN Yields(size, last, raising) = selected
         /\ \A t \in selected : Yields(size, last, raising)[t] \in Seq(Rows)
         /\ \A t \in selected : \/ t \in CutBy(size, last, raising)
                               \/ Yields(size, last, raising)[t] = SourceRows(size)
<1> DEFINE all == SourceRows(size)
           parents == SubSeq(all, 1, last)
           m == [n \in Rows |-> IF n \in raising THEN <<>> ELSE <<n>>]
<1>1. MaxRows \in Nat /\ Rows = 1..MaxRows /\ size \in Nat /\ size <= MaxRows /\ last \in Nat
      /\ last <= size
  BY DataflowAssumption DEF Rows
<1>2. all \in Seq(Rows) /\ Len(all) = size
  <2>1. all \in [1..size -> Rows]
    BY <1>1 DEF SourceRows
  <2> HIDE DEF all
  <2> QED BY <1>1, <2>1, FunctionIsSeq
<1>3. parents \in Seq(Rows) /\ (last = size => parents = all)
  <2> HIDE DEF all
  <2>1. \A i \in 1..last : all[i] \in Rows
    <3>1. \A i \in 1..last : i \in 1..Len(all)
      BY <1>1, <1>2
    <3> QED BY <1>2, <3>1, ElementOfSeq
  <2>2. /\ parents \in Seq(Rows)
        /\ Len(parents) = last
        /\ \A i \in 1..last : parents[i] = all[i]
    <3>1. last \in Int /\ 1 \in Int /\ last <= Len(all)
      BY <1>1, <1>2
    <3> QED BY <1>1, <1>2, <2>1, <3>1, SubSeqProperties
  <2> HIDE DEF parents
  <2>3. ASSUME last = size
        PROVE  parents = all
    BY <1>2, <2>2, <2>3, SeqEqual
  <2> QED BY <2>2, <2>3
<1>4. Maps(m, Rows, Rows)
  <2>1. \A n \in Rows : (IF n \in raising THEN <<>> ELSE <<n>>) \in Seq(Rows)
    OBVIOUS
  <2> QED BY <2>1 DEF Maps
<1>5. GuardedItems(parents, raising) = Gathered(m, parents)
  <2>1. \A i \in DOMAIN parents : parents[i] \in Rows
    BY <1>3, ElementOfSeq
  <2> HIDE DEF parents
  <2> QED BY <2>1 DEF GuardedItems, Gathered, Mapped
<1>6. GuardedItems(parents, raising) \in Seq(Rows)
  <2> HIDE DEF parents, m
  <2>1. Maps(m, Rows, Rows) /\ parents \in Seq(Rows)
    BY <1>3, <1>4
  <2>2. Gathered(m, parents) \in Seq(Rows)
    BY ONLY <2>1, GatheredConcat
  <2> QED BY <1>5, <2>2
<1>7. Yields(size, last, raising) =
        [t \in selected |-> IF t = Root THEN parents ELSE GuardedItems(parents, raising)]
  BY DEF Yields, Guarded
<1>8. ASSUME raising = {}
      PROVE  GuardedItems(parents, raising) = parents
  <2>1. \A n \in Rows : m[n] = <<n>>
    BY <1>8
  <2> HIDE DEF m, parents
  <2>2. Gathered(m, parents) = parents
    BY <1>3, <1>4, <2>1, SinglesJoin
  <2> QED BY <1>5, <2>2
<1> HIDE DEF parents, m, all
<1>9. ASSUME NEW t \in selected, t \notin CutBy(size, last, raising)
      PROVE  Yields(size, last, raising)[t] = SourceRows(size)
  <2>1. last = size /\ (t = Child => raising = {})
    BY <1>1, <1>9 DEF CutBy
  <2>2. t = Root \/ t = Child
    BY DEF Tables
  <2> QED BY <1>3, <1>7, <1>8, <2>1, <2>2 DEF all
<1> QED BY <1>3, <1>6, <1>7, <1>9

LEMMA InitKeeps == Init => DataflowInv
<1> SUFFICES ASSUME Init PROVE DataflowInv
  OBVIOUS
<1>1. StateInv
  <2>1. <<>> \in Seq(Rows) /\ 0 \in 0..MaxJobs /\ 1 \in 1..MaxAttempts /\ 0 \in 0..MaxRows
    BY DataflowAssumption
  <2> QED BY <2>1 DEF Init, StateInv, Stages, NoFiles, NoRows
<1>2. PackageInv
  BY DEF Init, PackageInv, Live
<1>3. StageInv
  BY DEF Init, StageInv, Stages
<1>4. OwnInv
  BY DEF Init, OwnInv
<1> QED BY <1>1, <1>2, <1>3, <1>4 DEF DataflowInv

\* Whatever was pending at the time, a worker that is gone leaves a state that a
\* next job can begin in.
LEMMA GoneKeeps ==
  ASSUME DataflowInv, status = "running", Gone,
         UNCHANGED <<host, job, store, lookup, tainted, before>>,
         pending' = pending \/ pending' = [pending EXCEPT ![stage] = NoPackage]
  PROVE  DataflowInv'
<1> USE DEF DataflowInv
<1>1. DOMAIN pending' = Stages /\ \A s \in Stages : pending'[s] # NoPackage => pending'[s] = pending[s]
  BY DEF StateInv
<1>2. StateInv'
  <2>1. <<>> \in Seq(Rows) /\ 1 \in 1..MaxAttempts /\ 0 \in 0..MaxRows
    BY DataflowAssumption
  <2>2. /\ output' = NoFiles /\ yielded' = NoRows /\ source' = 0 /\ cut' = {}
        /\ DOMAIN NoFiles = Tables /\ NoRows \in [Tables -> Seq(Rows)]
    BY <2>1 DEF Gone, NothingYielded, NoFiles, NoRows
  <2> QED BY <1>1, <2>1, <2>2 DEF StateInv, Gone, Stages
<1>3. PackageInv'
  <2>1. \A s \in Stages : Live(s)' => Live(s) /\ pending'[s] = pending[s]
    BY <1>1 DEF Live, Gone
  <2>2. \A s \in Stages : Live(s)' => IsPackage(pending'[s], s)
    BY <2>1 DEF PackageInv
  <2> QED BY <2>2 DEF PackageInv, IsPackage, Rows
<1>4. StageInv'
  BY <1>1 DEF StageInv, Gone, Stages
<1>5. OwnInv'
  BY DEF OwnInv, Gone
<1> QED BY <1>2, <1>3, <1>4, <1>5

\* A run is repeated: it finds what the one before has committed.
LEMMA RepeatKeeps ==
  ASSUME DataflowInv, status = "running", attempt < MaxAttempts,
         attempt' = attempt + 1, phase' = "begin",
         UNCHANGED <<host, place, status, stage, pending, data, origin, tainted, before>>
  PROVE  DataflowInv'
<1> USE DEF DataflowInv
<1>1. StateInv'
  <2>1. attempt + 1 \in 1..MaxAttempts
    BY DataflowAssumption DEF StateInv
  <2> QED BY <2>1 DEF StateInv, place, data, origin
<1>2. \A s \in Stages : Live(s)' => Live(s)
  BY DEF Live
<1>3. PackageInv'
  BY <1>2 DEF PackageInv, IsPackage
<1>4. StageInv'
  BY DEF StageInv, place
<1>5. OwnInv'
  <2> SUFFICES ASSUME status \in {"running", "completed"}, ~tainted
               PROVE  OwnInv'
    BY DEF OwnInv
  <2>1. (stage = "collect" => CollectInv') /\ (stage = "preprocess" => PreprocessInv')
        /\ (stage = "convert" => ConvertInv')
    <3>1. stage = "collect" => CollectInv'
      BY <1>2 DEF OwnInv, CollectInv, Collected, Whole, Stages, place, data, origin
    <3>2. stage = "preprocess" => PreprocessInv'
      BY <1>2 DEF OwnInv, PreprocessInv, Stages, place, data, origin
    <3>3. stage = "convert" => ConvertInv'
      BY <1>2 DEF OwnInv, ConvertInv, Delivered, IsOwn, RowsYielded, Stages, place, data, origin
    <3> QED BY <3>1, <3>2, <3>3
  <2> QED BY <2>1 DEF OwnInv, Collected, Whole, Delivered, IsOwn, RowsYielded, place, data, origin
<1> QED BY <1>1, <1>3, <1>4, <1>5

LEMMA RaisesKeeps ==
  ASSUME DataflowInv, status = "running", NEW error, Raises(error),
         UNCHANGED <<host, job, pending, store, lookup, tainted, before>>
  PROVE  DataflowInv'
<1>1. CASE Retried(error)
  <2>1. /\ attempt < MaxAttempts /\ attempt' = attempt + 1 /\ phase' = "begin"
        /\ UNCHANGED <<host, place, status, stage, pending, data, origin, tainted, before>>
    BY <1>1 DEF Raises, Retried, place, data, origin
  <2> QED BY <2>1, RepeatKeeps
<1>2. CASE ~Retried(error)
  <2>1. Gone
    BY <1>2 DEF Raises
  <2> QED BY <2>1, GoneKeeps
<1> QED BY <1>1, <1>2

LEMMA LoadAbortedKeeps ==
  ASSUME DataflowInv, LoadAborted
  PROVE  DataflowInv'
<1>1. Gone /\ status = "running"
  BY DEF LoadAborted, Raises, Retried, Loading
<1> QED BY <1>1, GoneKeeps DEF LoadAborted

\* The new worker is told nothing of the one before, and finds what it left pending.
LEMMA StartJobKeeps ==
  ASSUME DataflowInv, StartJob
  PROVE  DataflowInv'
<1> USE DEF DataflowInv
<1>1. StateInv'
  <2>1. <<>> \in Seq(Rows) /\ 1 \in 1..MaxAttempts /\ job' \in 0..MaxJobs /\ 0 \in 0..MaxRows
    BY DataflowAssumption DEF StartJob, StateInv
  <2>2. /\ output' = NoFiles /\ yielded' = NoRows /\ source' = 0 /\ cut' = {}
        /\ DOMAIN NoFiles = Tables /\ NoRows \in [Tables -> Seq(Rows)]
    BY <2>1 DEF StartJob, NothingYielded, NoFiles, NoRows
  <2> QED BY <2>1, <2>2 DEF StateInv, StartJob, Stages
<1>2. \A s \in Stages : Live(s)' => Live(s) /\ pending'[s] # NoPackage
  BY DEF Live, StartJob
<1>3. PackageInv'
  BY <1>2 DEF PackageInv, IsPackage, StartJob
<1>4. StageInv'
  BY DEF StageInv, StartJob, Stages, StateInv
<1>5. OwnInv'
  <2> SUFFICES ASSUME ~tainted'
               PROVE  OwnInv'
    BY DEF OwnInv
  <2>1. \A s \in Stages : pending'[s] = NoPackage
    BY DEF StartJob
  <2>2. stage' = "collect" /\ status' = "running" /\ output' = NoFiles
    BY DEF StartJob
  <2>3. CollectInv'
    BY <1>2, <2>1 DEF CollectInv, Stages
  <2>4. \A t \in Tables : output'[t] = <<>>
    BY <2>2 DEF NoFiles
  <2> QED BY <2>1, <2>2, <2>3, <2>4 DEF OwnInv
<1> QED BY <1>1, <1>3, <1>4, <1>5

\* What every commit leaves alone; what it commits is the business of its stage.
LEMMA CommitKeeps ==
  ASSUME DataflowInv, Extracting(stage), NEW content, Commit(content),
         source' \in 0..MaxRows, yielded' \in [Tables -> Seq(Rows)], cut' \subseteq Tables,
         DOMAIN content \subseteq Tables,
         stage = "collect" => \A t \in DOMAIN content : content[t] \in Seq(Rows),
         stage = "preprocess" => \A t \in DOMAIN content : content[t] \in 0..MaxJobs,
         OwnInv'
  PROVE  DataflowInv'
<1> USE DEF DataflowInv
<1>1. DOMAIN pending' = Stages /\ \A s \in Stages : s # stage => pending'[s] = pending[s]
  BY DEF StateInv, Commit
<1>2. StateInv'
  BY <1>1 DEF StateInv, Commit, place, data, origin
<1>3. PackageInv'
  <2>1. pending'[stage] = Package(content)
    BY DEF StateInv, Commit
  <2>2. IsPackage(Package(content), stage)
    BY DEF Package, IsPackage, StateInv
  <2>3. \A s \in Stages : s # stage /\ Live(s)' => Live(s) /\ pending'[s] = pending[s]
    BY <1>1 DEF Live, Commit
  <2>4. \A s \in Stages : Live(s)' => IsPackage(pending'[s], s)
    BY <2>1, <2>2, <2>3 DEF PackageInv
  <2> QED BY <2>4 DEF PackageInv, IsPackage, Rows
<1>4. StageInv'
  BY <1>1 DEF StageInv, Commit, Extracting, StateInv, Stages, place
<1> QED BY <1>2, <1>3, <1>4

LEMMA ExtractCollectedKeeps ==
  ASSUME DataflowInv, ExtractCollected
  PROVE  DataflowInv'
<1> USE DEF DataflowInv
<1>1. Extracting("collect") /\ stage = "collect"
  BY DEF ExtractCollected, Extracting
<1> DEFINE Yielding(size, last, raising) ==
        /\ Commit(Yields(size, last, raising))
        /\ source' = size
        /\ yielded' = [t \in Tables |-> IF t \in selected THEN Yields(size, last, raising)[t] ELSE <<>>]
        /\ cut' = CutBy(size, last, raising)
<1>0. PICK size \in 0..MaxRows : \E last \in 0..size : \E raising \in SUBSET (1..last) :
        Yielding(size, last, raising)
  BY DEF ExtractCollected
<1>2. PICK last \in 0..size : \E raising \in SUBSET (1..last) : Yielding(size, last, raising)
  BY <1>0
<1>2a. PICK raising \in SUBSET (1..last) : Yielding(size, last, raising)
  BY <1>2
<1> DEFINE rows == Yields(size, last, raising)
<1>3. /\ DOMAIN rows = selected /\ \A t \in selected : rows[t] \in Seq(Rows)
      /\ \A t \in selected : t \in CutBy(size, last, raising) \/ rows[t] = SourceRows(size)
  BY YieldsAreTyped DEF StateInv
<1>4. Commit(rows) /\ yielded' = [t \in Tables |-> IF t \in selected THEN rows[t] ELSE <<>>]
  BY <1>2a
<1> HIDE DEF rows
<1>5. /\ yielded' \in [Tables -> Seq(Rows)] /\ \A t \in selected : yielded'[t] = rows[t]
      /\ source' \in 0..MaxRows /\ cut' \subseteq Tables
      /\ \A t \in selected : Whole(t)'
  <2>1. \A t \in Tables : (IF t \in selected THEN rows[t] ELSE <<>>) \in Seq(Rows)
    BY <1>3
  <2>2. yielded' \in [Tables -> Seq(Rows)] /\ \A t \in selected : yielded'[t] = rows[t]
    BY <1>4, <2>1 DEF StateInv
  <2>3. source' \in 0..MaxRows /\ cut' \subseteq Tables
    BY <1>2a DEF CutBy, StateInv
  <2>4. \A t \in selected : Whole(t)'
    BY <1>2a, <1>3, <2>2 DEF Whole, SourceRows
  <2> QED BY <2>2, <2>3, <2>4
<1>6. OwnInv'
  <2> SUFFICES ASSUME ~tainted, status = "running"
               PROVE  OwnInv'
    BY <1>1, <1>4 DEF OwnInv, Commit, Extracting
  <2>1. \A s \in Stages : s # "collect" => pending[s] = NoPackage /\ pending'[s] = pending[s]
    BY <1>1, <1>4 DEF OwnInv, Commit, StateInv
  <2>2. pending'["collect"] = [content |-> rows, todo |-> DOMAIN rows, fresh |-> TRUE, job |-> job]
    BY <1>1, <1>4 DEF StateInv, Commit, Package, Stages
  <2>3. UNCHANGED <<host, place, status, stage, data>>
    BY <1>4 DEF Commit
  <2>4. CollectInv'
    BY <1>3, <1>5, <2>2, <2>3 DEF CollectInv, place
  <2> QED BY <1>1, <2>1, <2>3, <2>4 DEF OwnInv, Commit, place, data, origin
<1> QED BY <1>1, <1>3, <1>4, <1>5, <1>6, CommitKeeps DEF StateInv

LEMMA ExtractPreprocessedKeeps ==
  ASSUME DataflowInv, ExtractPreprocessed
  PROVE  DataflowInv'
<1> USE DEF DataflowInv
<1> DEFINE jobs == [t \in Tables |-> store[t].job]
<1>1. Extracting("preprocess") /\ stage = "preprocess" /\ Commit(jobs) /\ origin' = origin
  BY DEF ExtractPreprocessed, Extracting
<1>2. DOMAIN jobs = Tables /\ \A t \in Tables : jobs[t] = store[t].job /\ jobs[t] \in 0..MaxJobs
  BY DEF StateInv
<1> HIDE DEF jobs
<1>3. UNCHANGED <<host, place, status, stage, data, tainted>>
  BY <1>1 DEF Commit
<1>4. OwnInv'
  <2> SUFFICES ASSUME ~tainted, status = "running"
               PROVE  OwnInv'
    BY <1>1, <1>3 DEF OwnInv, Extracting
  <2>1. \A s \in Stages : s # "preprocess" => pending[s] = NoPackage /\ pending'[s] = pending[s]
    BY <1>1 DEF OwnInv, Commit, StateInv
  <2>2. pending'["preprocess"] = [content |-> jobs, todo |-> DOMAIN jobs, fresh |-> TRUE, job |-> job]
    BY <1>1 DEF StateInv, Commit, Package, Stages
  <2>3. PreprocessInv'
    BY <1>2, <1>3, <2>2 DEF PreprocessInv, data
  <2>4. \A t \in selected : Collected(t) /\ Collected(t)'
    BY <1>1, <1>3 DEF OwnInv, Collected, Whole, place, data, origin
  <2>5. UNCHANGED <<host, job, selected, status, stage, output, tainted>>
    BY <1>3 DEF place, data
  <2> QED BY <1>1, <1>3, <2>1, <2>3, <2>4, <2>5 DEF OwnInv
<1>5. source' \in 0..MaxRows /\ yielded' \in [Tables -> Seq(Rows)] /\ cut' \subseteq Tables
  BY <1>1 DEF StateInv, origin
<1> QED BY <1>1, <1>2, <1>4, <1>5, CommitKeeps DEF StateInv

LEMMA ExtractConvertedKeeps ==
  ASSUME DataflowInv, ExtractConverted
  PROVE  DataflowInv'
<1> USE DEF DataflowInv
<1> DEFINE graphs == [t \in ValidResources |-> [graph |-> GraphContent(RowsOf(t)), lookedUp |-> LookedUp]]
<1>1. Extracting("convert") /\ stage = "convert" /\ Commit(graphs) /\ origin' = origin
  BY DEF ExtractConverted, Extracting
<1>2. DOMAIN graphs = selected
      /\ \A t \in selected : graphs[t] = [graph |-> GraphContent(RowsOf(t)), lookedUp |-> LookedUp]
  BY DEF ValidResources
<1> HIDE DEF graphs
<1>3. UNCHANGED <<host, place, status, stage, data, tainted>>
  BY <1>1 DEF Commit
<1>4. OwnInv'
  <2> SUFFICES ASSUME ~tainted, status = "running"
               PROVE  OwnInv'
    BY <1>1, <1>3 DEF OwnInv, Extracting
  <2>1. \A s \in Stages : s # "convert" => pending[s] = NoPackage /\ pending'[s] = pending[s]
    BY <1>1 DEF OwnInv, Commit, StateInv
  <2>2. pending'["convert"] = [content |-> graphs, todo |-> DOMAIN graphs, fresh |-> TRUE, job |-> job]
    BY <1>1 DEF StateInv, Commit, Package, Stages
  <2>3. /\ \A t \in selected : Collected(t)
        /\ host.preprocessor => \A u \in Tables : lookup[u] = store[u].job
    BY <1>1 DEF OwnInv
  <2>4. \A t \in selected : IsOwn(graphs[t], t)
    <3>1. ASSUME NEW t \in selected
          PROVE  RowsOf(t) = RowsYielded(t)
      <4>1. store[t].job = job /\ store[t].rows = yielded[t]
        <5>1. Collected(t)
          BY <2>3
        <5> QED BY <5>1 DEF Collected
      <4> DEFINE Labelled(j, rows) == [i \in DOMAIN rows |-> [job |-> j, table |-> t, n |-> rows[i]]]
      <4>2. RowsOf(t) = Labelled(store[t].job, store[t].rows) /\ RowsYielded(t) = Labelled(job, yielded[t])
        BY DEF RowsOf, RowsYielded
      <4> HIDE DEF Labelled
      <4> QED BY <4>1, <4>2
    <3> QED BY <1>2, <2>3, <3>1 DEF IsOwn, LookedUp
  <2>5. ConvertInv'
    <3>1. \A t \in selected : RowsYielded(t)' = RowsYielded(t)
      BY <1>1, <1>3 DEF RowsYielded, place, origin
    <3>2. \A t \in selected : IsOwn(pending["convert"].content[t], t)'
      BY <1>3, <2>2, <2>4, <3>1 DEF IsOwn, place, data, origin
    <3> QED BY <1>2, <1>3, <2>2, <3>2 DEF ConvertInv, place
  <2>6. \A t \in selected : Collected(t)'
    BY <1>1, <1>3, <2>3 DEF Collected, Whole, place, data, origin
  <2>7. UNCHANGED <<host, job, selected, status, stage, store, lookup, output, tainted>>
    BY <1>3 DEF place, data
  <2> QED BY <1>1, <2>1, <2>3, <2>5, <2>6, <2>7 DEF OwnInv
<1>5. source' \in 0..MaxRows /\ yielded' \in [Tables -> Seq(Rows)] /\ cut' \subseteq Tables
  BY <1>1 DEF StateInv, origin
<1> QED BY <1>1, <1>2, <1>4, <1>5, CommitKeeps DEF StateInv

\* A run that finds a package loads it.
LEMMA ResumeKeeps ==
  ASSUME DataflowInv, Resume
  PROVE  DataflowInv'
<1> USE DEF DataflowInv
<1>1. status = "running" /\ phase' = "load"
      /\ UNCHANGED <<host, place, status, stage, attempt, pending, data, origin, tainted, before>>
  BY DEF Resume
<1>2. \A s \in Stages : Live(s)' => Live(s)
  BY DEF Live, Resume
<1>3. StateInv'
  BY <1>1 DEF StateInv, place, data, origin
<1>4. PackageInv'
  BY <1>1, <1>2 DEF PackageInv, IsPackage
<1>5. StageInv'
  BY <1>1 DEF StageInv, place
<1>6. OwnInv'
  <2> SUFFICES ASSUME ~tainted
               PROVE  OwnInv'
    BY <1>1 DEF OwnInv
  <2>1. stage = "collect" => CollectInv'
    BY <1>1, <1>2 DEF OwnInv, CollectInv, Collected, Whole, Stages, place, data, origin
  <2>2. stage = "preprocess" => PreprocessInv'
    BY <1>1, <1>2 DEF OwnInv, PreprocessInv, Stages, place, data, origin
  <2>3. stage = "convert" => ConvertInv'
    BY <1>1, <1>2 DEF OwnInv, ConvertInv, Delivered, IsOwn, RowsYielded, Stages, place, data, origin
  <2> QED BY <1>1, <2>1, <2>2, <2>3 DEF OwnInv, Collected, Whole, Delivered, IsOwn, RowsYielded, place, data, origin
<1> QED BY <1>3, <1>4, <1>5, <1>6

\* What is pending besides the package that a run loads is left alone.
LEMMA OthersKept ==
  ASSUME StateInv, PackageInv, Loading, NEW package,
         pending' = [pending EXCEPT ![stage] = package],
         UNCHANGED <<status, stage, phase>>
  PROVE  /\ stage \in Stages /\ DOMAIN pending' = Stages /\ pending'[stage] = package
         /\ \A s \in Stages : s # stage => pending'[s] = pending[s]
         /\ \A s \in Stages : Live(s)' => Live(s)
         /\ Live(stage) /\ IsPackage(Pack, stage)
         /\ IsPackage(package, stage) => PackageInv'
<1>1. /\ stage \in Stages /\ DOMAIN pending' = Stages /\ pending'[stage] = package
      /\ \A s \in Stages : s # stage => pending'[s] = pending[s]
  BY DEF StateInv
<1>2. Live(stage) /\ \A s \in Stages : Live(s)' => Live(s)
  BY <1>1 DEF Live, Loading
<1>3. IsPackage(Pack, stage)
  BY <1>1, <1>2 DEF PackageInv, Pack
<1>4. ASSUME IsPackage(package, stage)
      PROVE  PackageInv'
  <2>1. \A s \in Stages : Live(s)' => IsPackage(pending'[s], s)
    BY <1>1, <1>2, <1>4 DEF PackageInv
  <2> QED BY <2>1 DEF PackageInv, IsPackage, Rows
<1> QED BY <1>1, <1>2, <1>3, <1>4

LEMMA FreshSet ==
  ASSUME NEW content, NEW todo, NEW fresh, NEW owner, NEW value
  PROVE  [[content |-> content, todo |-> todo, fresh |-> fresh, job |-> owner] EXCEPT !.fresh = value]
           = [content |-> content, todo |-> todo, fresh |-> value, job |-> owner]
OBVIOUS

\* The tables are emptied: all of them are still to be loaded.
LEMMA TruncateKeeps ==
  ASSUME DataflowInv, Truncate
  PROVE  DataflowInv'
<1> USE DEF DataflowInv
<1> DEFINE emptied == [content |-> Pack.content, todo |-> Pack.todo, fresh |-> FALSE, job |-> Pack.job]
<1>1. /\ Loading /\ Pack.fresh
      /\ UNCHANGED <<host, place, status, stage, phase, attempt, output, origin, tainted, before>>
  BY DEF Truncate
<1>2. stage \in Stages /\ Live(stage) /\ IsPackage(Pack, stage)
  BY <1>1 DEF Live, Loading, PackageInv, StateInv, Pack
<1>3. pending' = [pending EXCEPT ![stage] = emptied]
  <2>1. pending' = [pending EXCEPT ![stage] = [Pack EXCEPT !.fresh = FALSE]]
    BY DEF Truncate, Pack
  <2>2. [Pack EXCEPT !.fresh = FALSE] = emptied
    <3> DEFINE content == Pack.content  todo == Pack.todo  fresh == Pack.fresh  owner == Pack.job
    <3>1. Pack = [content |-> content, todo |-> todo, fresh |-> fresh, job |-> owner]
      BY <1>2 DEF IsPackage
    <3>2. emptied = [content |-> content, todo |-> todo, fresh |-> FALSE, job |-> owner]
      OBVIOUS
    <3> DEFINE no == FALSE
    <3> HIDE DEF content, todo, fresh, owner, emptied, no, Pack
    <3>3. [Pack EXCEPT !.fresh = no] = [content |-> content, todo |-> todo, fresh |-> no, job |-> owner]
      BY <3>1, FreshSet
    <3> QED BY <3>2, <3>3 DEF no
  <2> QED BY <2>1, <2>2
<1>4. /\ emptied.content = Pack.content /\ emptied.todo = Pack.todo /\ ~emptied.fresh
      /\ emptied.job = Pack.job
  OBVIOUS
<1>5. IsPackage(emptied, stage) /\ Pack.todo = DOMAIN Pack.content
  BY <1>1, <1>2 DEF IsPackage
<1> HIDE DEF emptied
<1>6. /\ DOMAIN pending' = Stages /\ pending'[stage] = emptied
      /\ \A s \in Stages : s # stage => pending'[s] = pending[s]
      /\ \A s \in Stages : Live(s)' => Live(s)
      /\ PackageInv'
  BY <1>1, <1>3, <1>5, OthersKept
<1>7. StateInv'
  <2>1. store' \in [Tables -> [job : 0..MaxJobs, rows : Seq(Rows)]]
    <3>1. <<>> \in Seq(Rows) /\ 0 \in 0..MaxJobs
      BY DataflowAssumption
    <3>2. [job |-> 0, rows |-> <<>>] \in [job : 0..MaxJobs, rows : Seq(Rows)]
      BY <3>1
    <3> QED BY <3>2 DEF Truncate, StateInv
  <2>2. lookup' \in [LookupTables -> 0..MaxJobs]
    BY DataflowAssumption DEF Truncate, StateInv
  <2> QED BY <1>1, <1>6, <2>1, <2>2 DEF StateInv, place, origin
<1>8. StageInv'
  BY <1>1, <1>2, <1>6 DEF StageInv, Loading, place, Stages
<1>9. OwnInv'
  <2> SUFFICES ASSUME ~tainted
               PROVE  OwnInv'
    BY <1>1 DEF OwnInv
  <2>0. status = "running" /\ UNCHANGED <<host, job, selected, status, stage, output, source, yielded, cut, tainted>>
    BY <1>1 DEF Loading, place, origin
  <2>1. \A s \in Stages \ {stage} : pending'[s] = NoPackage
    BY <1>6, <2>0 DEF OwnInv
  <2>2. CASE stage = "collect"
    <3>1. CollectInv
      BY <2>0, <2>2 DEF OwnInv
    <3>2. DOMAIN Pack.content = selected /\ Pack.job = job /\ \A t \in selected : Pack.content[t] = yielded[t] /\ Whole(t)
      BY <1>2, <2>2, <3>1 DEF CollectInv, Pack
    <3>3. CollectInv'
      BY <1>4, <1>5, <1>6, <2>0, <2>2, <3>2 DEF CollectInv, Whole
    <3> QED BY <2>0, <2>1, <2>2, <3>3 DEF OwnInv
  <2>3. CASE stage = "preprocess"
    <3>1. store' = store
      BY <2>3 DEF Truncate
    <3>2. PreprocessInv
      BY <2>0, <2>3 DEF OwnInv
    <3>3. DOMAIN Pack.content = Tables /\ \A t \in Tables : Pack.content[t] = store[t].job
      BY <1>2, <2>3, <3>2 DEF PreprocessInv, Pack
    <3>4. PreprocessInv'
      BY <1>4, <1>5, <1>6, <2>0, <2>3, <3>1, <3>3 DEF PreprocessInv
    <3> QED BY <2>0, <2>1, <2>3, <3>1, <3>4 DEF OwnInv, Collected, Whole, origin
  <2>4. CASE stage = "convert"
    <3>1. store' = store /\ lookup' = lookup
      BY <2>4 DEF Truncate
    <3>2. ConvertInv
      BY <2>0, <2>4 DEF OwnInv
    <3>3. DOMAIN Pack.content = selected /\ \A t \in selected : IsOwn(Pack.content[t], t)
      BY <1>2, <2>4, <3>2 DEF ConvertInv, Pack
    <3>4. ConvertInv'
      BY <1>4, <1>5, <1>6, <2>0, <2>4, <3>1, <3>3 DEF ConvertInv, IsOwn, RowsYielded
    <3> QED BY <2>0, <2>1, <2>4, <3>1, <3>4 DEF OwnInv, Collected, Whole, origin
  <2> QED BY <1>2, <2>2, <2>3, <2>4 DEF Stages
<1> QED BY <1>6, <1>7, <1>8, <1>9

\* A table is loaded: it has what its package has for it.
LEMMA LoadTableKeeps ==
  ASSUME DataflowInv, NEW table \in Tables, LoadTable(table)
  PROVE  DataflowInv'
<1> USE DEF DataflowInv
<1> DEFINE rest == [content |-> Pack.content, todo |-> Pack.todo \ {table}, fresh |-> Pack.fresh, job |-> Pack.job]
<1>1. /\ Loading /\ ~Pack.fresh /\ table \in Pack.todo
      /\ UNCHANGED <<host, place, status, stage, phase, attempt, origin, tainted, before>>
  BY DEF LoadTable
<1>2. stage \in Stages /\ Live(stage) /\ IsPackage(Pack, stage)
  BY <1>1 DEF Live, Loading, PackageInv, StateInv, Pack
<1>3. pending' = [pending EXCEPT ![stage] = rest]
  <2>1. pending' = [pending EXCEPT ![stage] = [Pack EXCEPT !.todo = Pack.todo \ {table}]]
    BY DEF LoadTable, Pack
  <2>2. [Pack EXCEPT !.todo = Pack.todo \ {table}] = rest
    <3>1. Pack = [content |-> Pack.content, todo |-> Pack.todo, fresh |-> Pack.fresh, job |-> Pack.job]
      BY <1>2 DEF IsPackage
    <3> HIDE DEF Pack
    <3> QED BY <3>1
  <2> QED BY <2>1, <2>2
<1>4. /\ rest.content = Pack.content /\ rest.todo = Pack.todo \ {table} /\ rest.fresh = Pack.fresh
      /\ rest.job = Pack.job
  OBVIOUS
<1>5. IsPackage(rest, stage)
  BY <1>1, <1>2 DEF IsPackage
<1> HIDE DEF rest
<1>6. /\ DOMAIN pending' = Stages /\ pending'[stage] = rest
      /\ \A s \in Stages : s # stage => pending'[s] = pending[s]
      /\ \A s \in Stages : Live(s)' => Live(s)
      /\ PackageInv'
  BY <1>1, <1>3, <1>5, OthersKept
<1>7. StateInv'
  <2>1. store' \in [Tables -> [job : 0..MaxJobs, rows : Seq(Rows)]]
    <3>1. stage = "collect" => [job |-> Pack.job, rows |-> Pack.content[table]] \in [job : 0..MaxJobs, rows : Seq(Rows)]
      BY <1>1, <1>2 DEF IsPackage
    <3> QED BY <3>1 DEF LoadTable, StateInv
  <2>2. lookup' \in [LookupTables -> 0..MaxJobs]
    <3>1. stage = "preprocess" => Pack.content[table] \in 0..MaxJobs
      BY <1>1, <1>2 DEF IsPackage
    <3> QED BY <3>1 DEF LoadTable, StateInv
  <2>3. DOMAIN output' = Tables
    BY DEF LoadTable, StateInv
  <2> QED BY <1>1, <1>6, <2>1, <2>2, <2>3 DEF StateInv, place, origin
<1>8. StageInv'
  BY <1>1, <1>2, <1>6 DEF StageInv, Loading, place, Stages
<1>9. OwnInv'
  <2> SUFFICES ASSUME ~tainted
               PROVE  OwnInv'
    BY <1>1 DEF OwnInv
  <2>0. status = "running" /\ UNCHANGED <<host, job, selected, status, stage, source, yielded, cut, tainted>>
    BY <1>1 DEF Loading, place, origin
  <2>1. \A s \in Stages \ {stage} : pending'[s] = NoPackage
    BY <1>6, <2>0 DEF OwnInv
  <2>2. CASE stage = "collect"
    <3>1. CollectInv
      BY <2>0, <2>2 DEF OwnInv
    <3>2. /\ DOMAIN Pack.content = selected /\ Pack.job = job
          /\ \A t \in selected : Pack.content[t] = yielded[t] /\ Whole(t)
          /\ \A t \in selected \ Pack.todo : Collected(t)
      BY <1>1, <1>2, <2>2, <3>1 DEF CollectInv, Pack
    <3>3. table \in selected
      BY <1>1, <1>2, <3>2 DEF IsPackage
    <3>4. /\ store'[table] = [job |-> job, rows |-> yielded[table]]
          /\ \A t \in Tables : t # table => store'[t] = store[t]
          /\ output' = output
      BY <2>2, <3>2, <3>3 DEF LoadTable, StateInv
    <3>5. \A t \in selected \ (Pack.todo \ {table}) : Collected(t)'
      BY <2>0, <3>2, <3>4 DEF Collected, Whole, StateInv
    <3>6. CollectInv'
      BY <1>4, <1>6, <2>0, <2>2, <3>2, <3>5 DEF CollectInv, Whole
    <3> QED BY <2>0, <2>1, <2>2, <3>4, <3>6 DEF OwnInv
  <2>3. CASE stage = "preprocess"
    <3>1. store' = store /\ output' = output
      BY <2>3 DEF LoadTable
    <3>2. PreprocessInv
      BY <2>0, <2>3 DEF OwnInv
    <3>3. /\ DOMAIN Pack.content = Tables
          /\ \A t \in Tables : Pack.content[t] = store[t].job
          /\ \A t \in Tables \ Pack.todo : lookup[t] = store[t].job
      BY <1>1, <1>2, <2>3, <3>2 DEF PreprocessInv, Pack
    <3>4. lookup'[table] = store[table].job /\ \A t \in Tables : t # table => lookup'[t] = lookup[t]
      BY <2>3, <3>3 DEF LoadTable, StateInv, LookupTables
    <3>5. \A t \in Tables \ (Pack.todo \ {table}) : lookup'[t] = store[t].job
      BY <3>3, <3>4
    <3>6. PreprocessInv'
      BY <1>4, <1>6, <2>0, <2>3, <3>1, <3>3, <3>5 DEF PreprocessInv
    <3> QED BY <2>0, <2>1, <2>3, <3>1, <3>6 DEF OwnInv, Collected, Whole, origin
  <2>4. CASE stage = "convert"
    <3>1. store' = store /\ lookup' = lookup
      BY <2>4 DEF LoadTable
    <3>2. ConvertInv
      BY <2>0, <2>4 DEF OwnInv
    <3>3. /\ DOMAIN Pack.content = selected
          /\ \A t \in selected : IsOwn(Pack.content[t], t)
          /\ \A t \in selected \ Pack.todo : Delivered(t)
      BY <1>1, <1>2, <2>4, <3>2 DEF ConvertInv, Pack
    <3>4. table \in selected
      BY <1>1, <1>2, <3>3 DEF IsPackage
    <3>5. output'[table] = <<Pack.content[table]>> /\ \A t \in Tables : t # table => output'[t] = output[t]
      BY <2>4 DEF LoadTable, StateInv
    <3>6. \A t : RowsYielded(t)' = RowsYielded(t)
      BY <2>0 DEF RowsYielded
    <3>7. ASSUME NEW t \in selected \ (Pack.todo \ {table})
          PROVE  Delivered(t)'
      <4>1. CASE t = table
        <5> DEFINE c == Pack.content[table]
        <5>1. output'[t] = <<c>> /\ IsOwn(c, t)
          BY <3>3, <3>4, <3>5, <4>1
        <5> HIDE DEF c
        <5>2. Len(output'[t]) = 1 /\ output'[t][1] = c
          BY <5>1
        <5> QED BY <2>0, <3>1, <3>6, <5>1, <5>2 DEF Delivered, IsOwn
      <4>2. CASE t # table
        <5>1. Delivered(t) /\ output'[t] = output[t]
          BY <3>3, <3>5, <4>2 DEF StateInv
        <5> QED BY <2>0, <3>1, <3>6, <5>1 DEF Delivered, IsOwn
      <4> QED BY <4>1, <4>2
    <3>8. ConvertInv'
      <4>1. \A t \in selected : IsOwn(pending["convert"].content[t], t)'
        BY <1>4, <1>6, <2>0, <2>4, <3>1, <3>3, <3>6 DEF IsOwn
      <4> QED BY <1>4, <1>6, <2>0, <2>4, <3>3, <3>7, <4>1 DEF ConvertInv
    <3>9. \A t \in Tables : t \notin selected => output'[t] = <<>>
      BY <2>0, <2>4, <3>4, <3>5 DEF OwnInv
    <3> QED BY <2>0, <2>1, <2>4, <3>1, <3>8, <3>9 DEF OwnInv, Collected, Whole, origin
  <2> QED BY <1>2, <2>2, <2>3, <2>4 DEF Stages
<1> QED BY <1>6, <1>7, <1>8, <1>9

\* A stage ends with nothing left to load of its package, and so with every table
\* as the package has it.
LEMMA FinishLoadKeeps ==
  ASSUME DataflowInv, FinishLoad
  PROVE  DataflowInv'
<1> USE DEF DataflowInv
<1>1. /\ Loading /\ ~Pack.fresh /\ Pack.todo = {}
      /\ pending' = [pending EXCEPT ![stage] = NoPackage]
      /\ UNCHANGED <<host, place, store, output, origin, tainted, before>>
      /\ lookup' \in [LookupTables -> 0..MaxJobs]
      /\ \A t \in Tables : lookup'[t] = lookup[t]
  <2>1. lookup' = lookup \/ lookup' = [lookup EXCEPT ![Made] = job]
    BY DEF FinishLoad, Transform
  <2>2. lookup' \in [LookupTables -> 0..MaxJobs] /\ \A t \in Tables : lookup'[t] = lookup[t]
    BY <2>1, DataflowAssumption DEF StateInv, LookupTables, Tables
  <2> QED BY <2>2 DEF FinishLoad
<1>2. stage \in Stages /\ Live(stage) /\ status = "running"
  BY <1>1 DEF Live, Loading, StateInv
<1>3. /\ DOMAIN pending' = Stages /\ pending'[stage] = NoPackage
      /\ \A s \in Stages : s # stage => pending'[s] = pending[s]
  BY <1>1, <1>2 DEF StateInv
<1>4. /\ stage = "convert" => status' = "completed" /\ stage' = stage /\ UNCHANGED <<phase, attempt>>
      /\ stage # "convert" => /\ stage' = Following /\ phase' = "begin" /\ attempt' = 1
                              /\ status' = status
  BY DEF FinishLoad, Advance
<1>5. StateInv'
  <2>1. 1 \in 1..MaxAttempts
    BY DataflowAssumption
  <2> QED BY <1>1, <1>3, <1>4, <2>1 DEF StateInv, Following, Stages, place, data, origin
<1>6. \A s \in Stages : Live(s)' => Live(s) /\ pending'[s] = pending[s] /\ pending'[s] # NoPackage
  BY <1>2, <1>3, <1>4 DEF Live
<1>7. PackageInv'
  <2>1. \A s \in Stages : Live(s)' => IsPackage(pending'[s], s)
    BY <1>6 DEF PackageInv
  <2> QED BY <2>1 DEF PackageInv, IsPackage, Rows
<1>8. StageInv'
  BY <1>1, <1>2, <1>3, <1>4 DEF StageInv, Following, Stages
<1>9. OwnInv'
  <2> SUFFICES ASSUME ~tainted
               PROVE  OwnInv'
    BY <1>1 DEF OwnInv
  <2>0. UNCHANGED <<host, job, selected, store, output, source, yielded, cut, tainted>>
    BY <1>1 DEF place, origin
  <2>1. \A s \in Stages : pending'[s] = NoPackage
    BY <1>2, <1>3 DEF OwnInv
  <2>2. CASE stage = "collect"
    <3>1. CollectInv
      BY <1>2, <2>2 DEF OwnInv
    <3>2. \A t \in selected : Collected(t)
      BY <1>1, <1>2, <2>2, <3>1 DEF CollectInv, Pack
    <3>3. \A t \in Tables : output[t] = <<>>
      BY <1>2, <2>2 DEF OwnInv
    <3>4. status' = "running" /\ stage' = Following /\ phase' = "begin"
          /\ (stage' = "preprocess" \/ (stage' = "convert" /\ ~host.preprocessor))
      <4>1. status' = "running" /\ stage' = Following /\ phase' = "begin"
        BY <1>2, <1>4, <2>2
      <4>2. CASE host.preprocessor
        BY <2>2, <4>1, <4>2 DEF Following
      <4>3. CASE ~host.preprocessor
        BY <2>2, <4>1, <4>3 DEF Following
      <4> QED BY <4>1, <4>2, <4>3
    <3>5. PreprocessInv' /\ ConvertInv'
      <4>1. \A s \in Stages : ~Live(s)'
        BY <1>6, <2>1
      <4> QED BY <4>1 DEF PreprocessInv, ConvertInv, Stages
    <3> QED BY <2>0, <2>1, <3>2, <3>3, <3>4, <3>5 DEF OwnInv, Collected, Whole, origin
  <2>3. CASE stage = "preprocess"
    <3>1. PreprocessInv
      BY <1>2, <2>3 DEF OwnInv
    <3>2. \A t \in Tables : lookup[t] = store[t].job
      BY <1>1, <1>2, <2>3, <3>1 DEF PreprocessInv, Pack
    <3>3. \A t \in selected : Collected(t)
      BY <1>2, <2>3 DEF OwnInv
    <3>4. \A u \in Tables : lookup'[u] = store'[u].job
      BY <1>1, <3>2
    <3>5. \A t \in Tables : output[t] = <<>>
      BY <1>2, <2>3 DEF OwnInv
    <3>6. status' = "running" /\ stage' = "convert" /\ phase' = "begin"
      BY <1>2, <1>4, <2>3 DEF Following
    <3>7. ConvertInv'
      <4>1. \A s \in Stages : ~Live(s)'
        BY <1>6, <2>1
      <4> QED BY <4>1 DEF ConvertInv, Stages
    <3> QED BY <2>0, <2>1, <3>3, <3>4, <3>5, <3>6, <3>7 DEF OwnInv, Collected, Whole, origin
  <2>4. CASE stage = "convert"
    <3>1. ConvertInv
      BY <1>2, <2>4 DEF OwnInv
    <3>2. \A t \in selected : Delivered(t)
      BY <1>1, <1>2, <2>4, <3>1 DEF ConvertInv, Pack
    <3>3. \A t \in selected : Delivered(t)'
      BY <2>0, <3>2 DEF Delivered, IsOwn, RowsYielded
    <3>4. status' = "completed" /\ stage' = "convert"
      BY <1>4, <2>4
    <3>5. ConvertInv'
      <4>1. \A s \in Stages : ~Live(s)'
        BY <1>6, <2>1
      <4> QED BY <4>1 DEF ConvertInv, Stages
    <3>6. /\ \A t \in selected : Collected(t)
          /\ host.preprocessor => \A u \in Tables : lookup'[u] = store'[u].job
          /\ \A t \in Tables : t \notin selected => output[t] = <<>>
      BY <1>1, <1>2, <2>4 DEF OwnInv
    <3> QED BY <2>0, <2>1, <3>3, <3>4, <3>5, <3>6 DEF OwnInv, Collected, Whole, origin
  <2> QED BY <1>2, <2>2, <2>3, <2>4 DEF Stages
<1> QED BY <1>5, <1>7, <1>8, <1>9

LEMMA StutterKeeps ==
  ASSUME DataflowInv, UNCHANGED vars
  PROVE  DataflowInv'
<1> USE DEF vars, place, data, origin
<1>1. StateInv' /\ StageInv'
  BY DEF DataflowInv, StateInv, StageInv
<1>2. \A s \in Stages : Live(s)' <=> Live(s)
  BY DEF Live
<1>3. PackageInv'
  BY <1>2 DEF DataflowInv, PackageInv, IsPackage
<1>4. OwnInv'
  <2>1. (CollectInv' <=> CollectInv) /\ (PreprocessInv' <=> PreprocessInv) /\ (ConvertInv' <=> ConvertInv)
    <3>1. CollectInv' <=> CollectInv
      BY <1>2 DEF CollectInv, Collected, Whole, Stages
    <3>2. PreprocessInv' <=> PreprocessInv
      BY <1>2 DEF PreprocessInv, Stages
    <3>3. ConvertInv' <=> ConvertInv
      BY <1>2 DEF ConvertInv, Delivered, IsOwn, RowsYielded, Stages
    <3> QED BY <3>1, <3>2, <3>3
  <2> QED BY <2>1 DEF DataflowInv, OwnInv, Collected, Whole, Delivered, IsOwn, RowsYielded
<1> QED BY <1>1, <1>3, <1>4 DEF DataflowInv

LEMMA StepsKeep ==
  ASSUME DataflowInv, [Next]_vars
  PROVE  DataflowInv'
<1>1. CASE StartJob
  BY <1>1, StartJobKeeps
<1>2. CASE ExtractCollected
  BY <1>2, ExtractCollectedKeeps
<1>3. CASE ExtractPreprocessed
  BY <1>3, ExtractPreprocessedKeeps
<1>4. CASE ExtractConverted
  BY <1>4, ExtractConvertedKeeps
<1>5. CASE Resume
  BY <1>5, ResumeKeeps
<1>6. CASE Truncate
  BY <1>6, TruncateKeeps
<1>7. CASE \E t \in Tables : LoadTable(t)
  BY <1>7, LoadTableKeeps
<1>8. CASE FinishLoad
  BY <1>8, FinishLoadKeeps
<1>9. CASE ExtractionRaises
  <2>1. status = "running" /\ UNCHANGED <<host, job, pending, store, lookup, tainted, before>>
    BY <1>9 DEF ExtractionRaises, Extracting
  <2>2. PICK error : Raises(error)
    BY <1>9 DEF ExtractionRaises
  <2> QED BY <2>1, <2>2, RaisesKeeps
<1>10. CASE LoadRaises
  <2>1. status = "running" /\ UNCHANGED <<host, job, pending, store, lookup, tainted, before>>
    BY <1>10 DEF LoadRaises, Loading
  <2>2. PICK error : Raises(error)
    BY <1>10 DEF LoadRaises
  <2> QED BY <2>1, <2>2, RaisesKeeps
<1>11. CASE LoadAborted
  BY <1>11, LoadAbortedKeeps
<1>12. CASE Kill
  BY <1>12, GoneKeeps DEF Kill
<1>13. CASE UNCHANGED vars
  BY <1>13, StutterKeeps
<1> QED
  BY <1>1, <1>2, <1>3, <1>4, <1>5, <1>6, <1>7, <1>8, <1>9, <1>10, <1>11, <1>12, <1>13
  DEF Next, Extract, Load

LEMMA InvariantHolds == Spec => []DataflowInv
<1>1. DataflowInv /\ [Next]_vars => DataflowInv'
  BY StepsKeep
<1> QED BY InitKeeps, <1>1, PTL DEF Spec

---------------------------------------------------------------------------
(* What follows. *)

\* Whatever is killed, repeated or left pending, the state keeps its types.
THEOREM DataflowIsTyped == Spec => []TypeOK
<1>1. DataflowInv => TypeOK
  <2> SUFFICES ASSUME DataflowInv PROVE TypeOK
    OBVIOUS
  <2>1. \A s \in Stages : pending[s] # NoPackage => IsPackage(pending[s], s)
    BY DEF DataflowInv, PackageInv, Live
  <2> QED BY <2>1 DEF DataflowInv, StateInv, IsPackage, TypeOK
<1> QED BY <1>1, InvariantHolds, PTL

LEMMA OwnIsExact == DataflowInv => DeliversItsOwn
<1> SUFFICES ASSUME DataflowInv, status = "completed", ~tainted \/ before # "failed", NEW t \in Tables
             PROVE  IF t \in selected
                    THEN /\ Len(output[t]) = 1
                         /\ IsGraphOf(output[t][1].graph, RowsYielded(t))
                         /\ Whole(t)
                         /\ host.preprocessor =>
                              \A u \in Tables :
                                output[t][1].lookedUp[u] = IF u \in selected THEN job ELSE store[u].job
                    ELSE output[t] = <<>>
  BY DEF DeliversItsOwn, Whole
<1>1. ~tainted /\ stage = "convert"
  BY DEF DataflowInv, StageInv
<1>2. CASE t \notin selected
  BY <1>1, <1>2 DEF DataflowInv, OwnInv
<1>3. CASE t \in selected
  <2>1. Delivered(t) /\ \A u \in selected : Collected(u)
    BY <1>1, <1>3 DEF DataflowInv, OwnInv
  <2>2. /\ Len(output[t]) = 1 /\ output[t][1].graph = GraphContent(RowsYielded(t))
        /\ host.preprocessor => \A u \in Tables : output[t][1].lookedUp[u] = store[u].job
        /\ Whole(t)
        /\ \A u \in selected : store[u].job = job
    <3>1. ASSUME NEW u \in selected
          PROVE  store[u].job = job /\ Whole(u)
      <4>1. Collected(u)
        BY <2>1
      <4> QED BY <4>1 DEF Collected
    <3>2. Len(output[t]) = 1 /\ IsOwn(output[t][1], t)
      BY <2>1 DEF Delivered
    <3> QED BY <1>3, <3>1, <3>2 DEF IsOwn
  <2> DEFINE R == [job : {job}, table : {t}, n : Rows]
  <2>3. \A r \in R : r.n \in DOMAIN EdgeCount
    BY DataflowAssumption DEF Rows
  <2>4. RowsYielded(t) \in Seq(R)
    <3> DEFINE ns == yielded[t]
               made == [i \in 1..Len(ns) |-> [job |-> job, table |-> t, n |-> ns[i]]]
    <3>1. ns \in Seq(Rows) /\ RowsYielded(t) = [i \in DOMAIN ns |-> [job |-> job, table |-> t, n |-> ns[i]]]
      BY DEF DataflowInv, StateInv, RowsYielded
    <3> HIDE DEF ns
    <3>2. \A i \in 1..Len(ns) : [job |-> job, table |-> t, n |-> ns[i]] \in R
      BY <3>1
    <3>3. Len(ns) \in Nat /\ DOMAIN ns = 1..Len(ns)
      BY <3>1
    <3> HIDE DEF R
    <3>4. made \in [1..Len(ns) -> R]
      BY <3>2
    <3>5. made \in Seq(R)
      BY <3>3, <3>4, FunctionIsSeq
    <3> QED BY <3>1, <3>3, <3>5
  <2> HIDE DEF R
  <2>5. IsGraphOf(GraphContent(RowsYielded(t)), RowsYielded(t))
    BY <2>3, <2>4, ConversionIsExact
  <2> QED BY <1>3, <2>2, <2>5
<1> QED BY <1>2, <1>3

\* A job that completes hands over what its own source has yielded, which is all
\* there is unless its resource raised, each node and edge once and in order and no
\* row of another job, unless it took over what a failed one had left pending; and
\* in the tables it collected it looked up its own rows only: for every number of
\* jobs, rows and attempts and every page and batch size (scheduler/dataflow.py).
THEOREM JobsDeliverTheirOwn == Spec => []DeliversItsOwn
BY InvariantHolds, OwnIsExact, PTL

=============================================================================
