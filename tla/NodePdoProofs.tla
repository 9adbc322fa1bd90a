---------------------------- MODULE NodePdoProofs ----------------------------
(***************************************************************************)
(* Process data for any number of PDOs, objects, layouts and frames: the   *)
(* PDOs in force have layouts the master finished, and every frame sent or *)
(* taken follows one of these.                                             *)
(***************************************************************************)
EXTENDS NodePdo, WellFoundedInduction, TLAPS

-----------------------------------------------------------------------------
(* Natural numbers                                                         *)

\* A set of naturals with some member has a least one.
LEMMA Least ==
    ASSUME NEW T \in SUBSET Nat, T # {}
    PROVE  \E n \in T : \A m \in T : n <= m
<1> DEFINE R == OpToRel(<, Nat)
<1>1. IsWellFoundedOn(R, Nat)
  BY NatLessThanWellFounded
<1>2. \A x, y \in Nat : x < y => << x, y >> \in R
  BY DEF OpToRel
<1> HIDE DEF R
<1>3. \E x \in T : \A y \in T : ~(<< y, x >> \in R)
  BY <1>1, WFMin
<1>4. PICK x \in T : \A y \in T : ~(<<y, x>> \in R)
  BY <1>3
<1>5. \A y \in T : ~(y < x)
  BY <1>2, <1>4
<1>6. QED
  BY <1>5

\* Induction, for a set of naturals.
LEMMA Induction ==
    ASSUME NEW S \in SUBSET Nat, 0 \in S, \A n \in S : n + 1 \in S
    PROVE  Nat \subseteq S
<1> SUFFICES ASSUME NEW T \in SUBSET Nat, T = Nat \ S, T # {} PROVE FALSE
  OBVIOUS
<1>1. PICK n \in T : \A m \in T : n <= m
  BY Least
<1>2. n # 0 /\ n - 1 \in Nat
  BY <1>1
<1>3. n - 1 \in S
  BY <1>1, <1>2
<1>4. (n - 1) + 1 = n
  BY <1>1
<1>5. QED
  BY <1>1, <1>3, <1>4

\* A set of naturals below some bound has a greatest member.
LEMMA Greatest ==
    ASSUME NEW T \in SUBSET Nat, T # {}, NEW b \in Nat, \A n \in T : n <= b
    PROVE  Max(T) \in T /\ \A n \in T : n <= Max(T)
<1> DEFINE U == {n \in Nat : \A m \in T : m <= n}
<1>1. PICK u \in U : \A n \in U : u <= n
  BY Least
<1>2. u \in T
  <2> SUFFICES ASSUME u \notin T PROVE FALSE
    OBVIOUS
  <2>1. \A m \in T : m < u
    OBVIOUS
  <2>2. u # 0
    <3>1. PICK t \in T : TRUE
      OBVIOUS
    <3>2. t \in Nat /\ t < u
      BY <2>1, <3>1
    <3>3. QED
      BY <3>2
  <2>3. u - 1 \in Nat /\ \A m \in T : m <= u - 1
    BY <2>1, <2>2
  <2>4. QED
    BY <1>1, <2>3
<1>3. \E x \in T : \A y \in T : x >= y
  BY <1>2
<1>4. Max(T) \in T /\ \A y \in T : Max(T) >= y
  BY <1>3 DEF Max
<1>5. QED
  BY <1>4

-----------------------------------------------------------------------------
(* Sequences                                                               *)

LEMMA Concat ==
    ASSUME NEW S, NEW s \in Seq(S), NEW t \in Seq(S)
    PROVE  /\ s \o t \in Seq(S) /\ Len(s \o t) = Len(s) + Len(t)
           /\ \A k \in 1..Len(s) : (s \o t)[k] = s[k]
           /\ \A k \in 1..Len(t) : (s \o t)[Len(s) + k] = t[k]
OBVIOUS

LEMMA Same ==
    ASSUME NEW S, NEW s \in Seq(S), NEW t \in Seq(S), Len(s) = Len(t),
           \A k \in 1..Len(t) : s[k] = t[k]
    PROVE  s = t
<1>1. s = [k \in 1..Len(s) |-> s[k]] /\ t = [k \in 1..Len(t) |-> t[k]]
  OBVIOUS
<1>2. QED
  BY <1>1

LEMMA Listed ==
    ASSUME NEW S, NEW n \in Nat, NEW f \in [1..n -> S]
    PROVE  f \in Seq(S) /\ Len(f) = n
OBVIOUS

LEMMA Slice ==
    ASSUME NEW S, NEW s \in Seq(S), NEW from \in Nat, NEW len \in Nat, from + len <= Len(s)
    PROVE  /\ SubSeq(s, from + 1, from + len) \in Seq(S)
           /\ Len(SubSeq(s, from + 1, from + len)) = len
           /\ \A k \in 1..len : SubSeq(s, from + 1, from + len)[k] = s[from + k]
<1> DEFINE part == SubSeq(s, from + 1, from + len)
<1>1. part = [k \in 1..len |-> s[from + k]]
  <2>1. part = [k \in 1..((from + len) - (from + 1) + 1) |-> s[(from + 1) + k - 1]]
    OBVIOUS
  <2>2. (from + len) - (from + 1) + 1 = len /\ \A k \in 1..len : (from + 1) + k - 1 = from + k
    OBVIOUS
  <2>3. QED
    BY <2>1, <2>2
<1>2. \A k \in 1..len : s[from + k] \in S
  <2>1. \A k \in 1..len : from + k \in 1..Len(s)
    OBVIOUS
  <2>2. QED
    BY <2>1
<1>3. QED
  BY <1>1, <1>2

-----------------------------------------------------------------------------
(* Sequences of sequences                                                  *)

\* The recursion of FlattenSeq.
Flattening(f, seqs, n) ==
    f = [i \in 1..n |-> IF i = 1 THEN seqs[i] ELSE f[i - 1] \o seqs[i]]

LEMMA FlatteningExists ==
    ASSUME NEW seqs, NEW n \in Nat
    PROVE  \E f : Flattening(f, seqs, n)
<1> DEFINE S == {m \in Nat : \E f : Flattening(f, seqs, m)}
<1>1. 0 \in S
  <2> DEFINE g == [i \in 1..0 |-> seqs[i]]
  <2>1. g = [i \in 1..0 |-> IF i = 1 THEN seqs[i] ELSE g[i - 1] \o seqs[i]]
    OBVIOUS
  <2>2. QED
    BY <2>1 DEF Flattening
<1>2. ASSUME NEW m \in S PROVE m + 1 \in S
  <2>1. PICK f : Flattening(f, seqs, m)
    OBVIOUS
  <2> DEFINE g == [i \in 1..(m + 1) |->
                      IF i = m + 1 THEN IF i = 1 THEN seqs[i] ELSE f[m] \o seqs[i] ELSE f[i]]
             h == [i \in 1..(m + 1) |-> IF i = 1 THEN seqs[i] ELSE g[i - 1] \o seqs[i]]
  <2>2. ASSUME NEW i \in 1..(m + 1) PROVE g[i] = h[i]
    <3>1. CASE i = m + 1
      <4>1. CASE i = 1
        BY <3>1, <4>1
      <4>2. CASE i # 1
        <5>1. m \in 1..(m + 1) /\ m # m + 1 /\ i - 1 = m
          BY <3>1, <4>2
        <5>2. g[m] = f[m]
          BY <5>1
        <5>3. QED
          BY <3>1, <4>2, <5>1, <5>2
      <4>3. QED
        BY <4>1, <4>2
    <3>2. CASE i # m + 1
      <4>1. i \in 1..m
        BY <3>2
      <4>2. f[i] = IF i = 1 THEN seqs[i] ELSE f[i - 1] \o seqs[i]
        BY <2>1, <4>1 DEF Flattening
      <4>3. i # 1 => i - 1 \in 1..(m + 1) /\ i - 1 # m + 1
        BY <4>1
      <4>4. i # 1 => g[i - 1] = f[i - 1]
        BY <4>3
      <4>5. g[i] = f[i]
        BY <3>2
      <4>6. h[i] = IF i = 1 THEN seqs[i] ELSE g[i - 1] \o seqs[i]
        OBVIOUS
      <4> HIDE DEF g, h
      <4>7. QED
        BY <4>2, <4>4, <4>5, <4>6, Zenon
    <3>3. QED
      BY <3>1, <3>2
  <2>3. g = h
    BY <2>2
  <2>4. Flattening(g, seqs, m + 1)
    BY <2>3, Zenon DEF Flattening
  <2>5. QED
    BY <2>4
<1>3. Nat \subseteq S
  BY <1>1, <1>2, Induction
<1>4. QED
  BY <1>3

\* What FlattenSeq computes, prefix by prefix.
LEMMA Flattened ==
    ASSUME NEW S, NEW seqs \in Seq(Seq(S))
    PROVE  \E f :
              /\ f[0] = << >> /\ FlattenSeq(seqs) = f[Len(seqs)]
              /\ \A i \in 1..Len(seqs) : f[i] = f[i - 1] \o seqs[i]
<1>1. CASE Len(seqs) = 0
  <2> DEFINE f == [i \in 0..0 |-> <<>>]
  <2>1. seqs = <<>>
    BY <1>1
  <2>2. FlattenSeq(seqs) = <<>>
    BY <1>1, <2>1 DEF FlattenSeq
  <2>3. f[0] = <<>>
    OBVIOUS
  <2> HIDE DEF f
  <2>4. /\ f[0] = <<>> /\ FlattenSeq(seqs) = f[Len(seqs)]
        /\ \A i \in 1..Len(seqs) : f[i] = f[i - 1] \o seqs[i]
    BY <1>1, <2>2, <2>3
  <2>5. QED
    BY <2>4
<1>2. CASE Len(seqs) # 0
  <2> DEFINE n == Len(seqs)
             g == CHOOSE f : Flattening(f, seqs, n)
             f == [i \in 0..n |-> IF i = 0 THEN <<>> ELSE g[i]]
  <2>1. n \in Nat /\ n \in 1..n
    BY <1>2
  <2>2. Flattening(g, seqs, n)
    BY <2>1, FlatteningExists, Zenon
  <2>3. FlattenSeq(seqs) = g[n]
    BY <1>2, Zenon DEF FlattenSeq, Flattening
  <2> HIDE DEF n, g
  <2>4. \A i \in 1..n : g[i] = IF i = 1 THEN seqs[i] ELSE g[i - 1] \o seqs[i]
    BY <2>2 DEF Flattening
  <2>5. f[0] = <<>> /\ f[n] = g[n]
    BY <2>1
  <2>6. ASSUME NEW i \in 1..n PROVE f[i] = f[i - 1] \o seqs[i]
    <3>1. CASE i = 1
      <4>1. seqs[1] \in Seq(S)
        BY <2>1 DEF n
      <4>2. <<>> \o seqs[1] = seqs[1]
        BY <4>1
      <4>3. f[1] = g[1] /\ f[0] = <<>>
        BY <2>1
      <4>4. g[1] = seqs[1]
        BY <2>1, <2>4, <3>1
      <4>5. i - 1 = 0
        BY <3>1
      <4> HIDE DEF f
      <4>6. QED
        BY <3>1, <4>2, <4>3, <4>4, <4>5
    <3>2. CASE i # 1
      <4>1. i \in 0..n /\ i - 1 \in 0..n /\ i # 0 /\ i - 1 # 0
        BY <2>1, <3>2
      <4>2. f[i] = g[i] /\ f[i - 1] = g[i - 1]
        BY <4>1
      <4>3. QED
        BY <2>4, <3>2, <4>2
    <3>3. QED
      BY <3>1, <3>2
  <2> HIDE DEF f
  <2>7. QED
    BY <2>3, <2>5, <2>6 DEF n
<1>3. QED
  BY <1>1, <1>2

\* The members of a sequence.
In(x, s) == \E k \in 1..Len(s) : s[k] = x

LEMMA InConcat ==
    ASSUME NEW S, NEW s \in Seq(S), NEW t \in Seq(S), NEW x
    PROVE  In(x, s \o t) <=> In(x, s) \/ In(x, t)
<1>1. /\ Len(s) \in Nat /\ Len(t) \in Nat /\ Len(s \o t) = Len(s) + Len(t)
      /\ \A k \in 1..Len(s) : (s \o t)[k] = s[k]
      /\ \A k \in 1..Len(t) : (s \o t)[Len(s) + k] = t[k]
  BY Concat
<1>2. ASSUME In(x, s \o t) PROVE In(x, s) \/ In(x, t)
  <2>1. PICK k \in 1..(Len(s) + Len(t)) : (s \o t)[k] = x
    BY <1>1, <1>2 DEF In
  <2>2. CASE k <= Len(s)
    BY <1>1, <2>1, <2>2 DEF In
  <2>3. CASE ~(k <= Len(s))
    <3>1. k - Len(s) \in 1..Len(t) /\ Len(s) + (k - Len(s)) = k
      BY <1>1, <2>1, <2>3
    <3>2. t[k - Len(s)] = x
      BY <1>1, <2>1, <3>1
    <3>3. QED
      BY <3>1, <3>2 DEF In
  <2>4. QED
    BY <2>2, <2>3
<1>3. ASSUME In(x, s) PROVE In(x, s \o t)
  <2>1. PICK k \in 1..Len(s) : s[k] = x
    BY <1>3 DEF In
  <2>2. k \in 1..Len(s \o t) /\ (s \o t)[k] = x
    BY <1>1, <2>1
  <2>3. QED
    BY <2>2 DEF In
<1>4. ASSUME In(x, t) PROVE In(x, s \o t)
  <2>1. PICK k \in 1..Len(t) : t[k] = x
    BY <1>4 DEF In
  <2>2. Len(s) + k \in 1..Len(s \o t) /\ (s \o t)[Len(s) + k] = x
    BY <1>1, <2>1
  <2>3. QED
    BY <2>2 DEF In
<1>5. QED
  BY <1>2, <1>3, <1>4

\* The members of a flattened sequence are those of its sequences.
LEMMA FlattenedMembers ==
    ASSUME NEW S, NEW seqs \in Seq(Seq(S))
    PROVE  /\ FlattenSeq(seqs) \in Seq(S)
           /\ \A x : In(x, FlattenSeq(seqs)) <=> \E j \in 1..Len(seqs) : In(x, seqs[j])
<1>1. PICK f : /\ f[0] = <<>> /\ FlattenSeq(seqs) = f[Len(seqs)]
               /\ \A i \in 1..Len(seqs) : f[i] = f[i - 1] \o seqs[i]
  BY Flattened, Zenon
<1> DEFINE P(m) == /\ f[m] \in Seq(S)
                   /\ \A x : In(x, f[m]) <=> \E j \in 1..m : In(x, seqs[j])
           T == {m \in Nat : m <= Len(seqs) => P(m)}
<1>2. Len(seqs) \in Nat /\ \A i \in 1..Len(seqs) : seqs[i] \in Seq(S)
  OBVIOUS
<1>3. 0 \in T
  <2>1. <<>> \in Seq(S) /\ Len(<<>>) = 0
    OBVIOUS
  <2>2. \A x : ~In(x, <<>>)
    BY <2>1 DEF In
  <2>3. P(0)
    BY <1>1, <2>1, <2>2
  <2> HIDE DEF P
  <2>4. QED
    BY <2>3
<1>4. ASSUME NEW m \in T PROVE m + 1 \in T
  <2> SUFFICES ASSUME m + 1 <= Len(seqs) PROVE P(m + 1)
    OBVIOUS
  <2>1. m \in Nat /\ m + 1 \in 1..Len(seqs) /\ (m + 1) - 1 = m /\ m <= Len(seqs)
    BY <1>2
  <2>2. P(m)
    BY <2>1
  <2>3. f[m + 1] = f[m] \o seqs[m + 1] /\ seqs[m + 1] \in Seq(S)
    BY <1>1, <1>2, <2>1
  <2>4. f[m + 1] \in Seq(S)
    BY <2>2, <2>3
  <2>5. \A x : In(x, f[m + 1]) <=> In(x, f[m]) \/ In(x, seqs[m + 1])
    BY <2>2, <2>3, InConcat
  <2>6. \A j : j \in 1..(m + 1) <=> j \in 1..m \/ j = m + 1
    BY <2>1
  <2>7. \A x : In(x, f[m + 1]) <=> \E j \in 1..(m + 1) : In(x, seqs[j])
    BY <2>2, <2>5, <2>6, Zenon
  <2>8. QED
    BY <2>4, <2>7
<1> HIDE DEF P
<1>5. Len(seqs) \in T
  BY <1>2, <1>3, <1>4, Induction
<1>6. P(Len(seqs))
  BY <1>2, <1>5
<1>7. QED
  BY <1>1, <1>6, Zenon DEF P

\* Where in a flattened sequence its sequences are, `end` being their ends.
LEMMA FlattenedParts ==
    ASSUME NEW S, NEW seqs \in Seq(Seq(S)), NEW end, end[0] = 0,
           \A i \in 1..Len(seqs) : end[i] = end[i - 1] + Len(seqs[i])
    PROVE  /\ Len(FlattenSeq(seqs)) = end[Len(seqs)]
           /\ \A j \in 1..Len(seqs) :
                 SubSeq(FlattenSeq(seqs), end[j - 1] + 1, end[j - 1] + Len(seqs[j])) = seqs[j]
<1>1. PICK f : /\ f[0] = <<>> /\ FlattenSeq(seqs) = f[Len(seqs)]
               /\ \A i \in 1..Len(seqs) : f[i] = f[i - 1] \o seqs[i]
  BY Flattened, Zenon
<1> DEFINE Part(m, j) == /\ end[j - 1] \in Nat /\ end[j - 1] + Len(seqs[j]) <= end[m]
                         /\ \A k \in 1..Len(seqs[j]) : f[m][end[j - 1] + k] = seqs[j][k]
           P(m) == /\ f[m] \in Seq(S) /\ end[m] \in Nat /\ Len(f[m]) = end[m]
                   /\ \A j \in 1..m : Part(m, j)
           T == {m \in Nat : m <= Len(seqs) => P(m)}
<1>2. Len(seqs) \in Nat /\ \A i \in 1..Len(seqs) : seqs[i] \in Seq(S) /\ Len(seqs[i]) \in Nat
  OBVIOUS
<1>3. 0 \in T
  <2>1. <<>> \in Seq(S) /\ Len(<<>>) = 0
    OBVIOUS
  <2>2. P(0)
    BY <1>1, <2>1
  <2> HIDE DEF P
  <2>3. QED
    BY <2>2
<1>4. ASSUME NEW m \in T PROVE m + 1 \in T
  <2> SUFFICES ASSUME m + 1 <= Len(seqs) PROVE P(m + 1)
    OBVIOUS
  <2>1. m \in Nat /\ m + 1 \in 1..Len(seqs) /\ (m + 1) - 1 = m /\ m <= Len(seqs)
    BY <1>2
  <2>2. P(m)
    BY <2>1
  <2>3. f[m + 1] = f[m] \o seqs[m + 1] /\ seqs[m + 1] \in Seq(S)
    BY <1>1, <1>2, <2>1
  <2>4. end[m + 1] = end[m] + Len(seqs[m + 1]) /\ Len(seqs[m + 1]) \in Nat
    BY <1>2, <2>1
  <2> HIDE DEF Part
  <2>11. f[m] \in Seq(S) /\ end[m] \in Nat /\ Len(f[m]) = end[m]
    BY <2>2
  <2>12. /\ f[m + 1] \in Seq(S) /\ Len(f[m + 1]) = end[m] + Len(seqs[m + 1])
         /\ \A k \in 1..end[m] : f[m + 1][k] = f[m][k]
         /\ \A k \in 1..Len(seqs[m + 1]) : f[m + 1][end[m] + k] = seqs[m + 1][k]
    <3>1. \A u, v \in Seq(S) :
             /\ u \o v \in Seq(S) /\ Len(u \o v) = Len(u) + Len(v)
             /\ \A k \in 1..Len(u) : (u \o v)[k] = u[k]
             /\ \A k \in 1..Len(v) : (u \o v)[Len(u) + k] = v[k]
      BY Concat
    <3>2. PICK u \in Seq(S) : u = f[m]
      BY <2>11
    <3>3. PICK v \in Seq(S) : v = seqs[m + 1]
      BY <2>3
    <3>4. f[m + 1] = u \o v /\ Len(u) = end[m]
      BY <2>3, <2>11, <3>2, <3>3
    <3>5. /\ u \o v \in Seq(S) /\ Len(u \o v) = Len(u) + Len(v)
          /\ \A k \in 1..Len(u) : (u \o v)[k] = u[k]
          /\ \A k \in 1..Len(v) : (u \o v)[Len(u) + k] = v[k]
      BY <3>1, Zenon
    <3>6. QED
      BY <3>2, <3>3, <3>4, <3>5, Zenon
  <2>5. f[m + 1] \in Seq(S) /\ end[m + 1] \in Nat /\ Len(f[m + 1]) = end[m + 1]
    BY <2>4, <2>11, <2>12
  <2>6. /\ \A k \in 1..end[m] : f[m + 1][k] = f[m][k]
        /\ \A k \in 1..Len(seqs[m + 1]) : f[m + 1][end[m] + k] = seqs[m + 1][k]
    BY <2>12
  <2>7. ASSUME NEW j \in 1..m PROVE Part(m + 1, j)
    <3>1. Part(m, j)
      BY <2>2
    <3>2. Len(seqs[j]) \in Nat
      BY <1>2, <2>1
    <3>3. /\ end[j - 1] \in Nat /\ end[j - 1] + Len(seqs[j]) <= end[m]
          /\ \A k \in 1..Len(seqs[j]) : f[m][end[j - 1] + k] = seqs[j][k]
      BY <3>1 DEF Part
    <3>4. \A k \in 1..Len(seqs[j]) : end[j - 1] + k \in 1..end[m]
      <4>1. \A e, len \in Nat : e + len <= end[m] => \A k \in 1..len : e + k \in 1..end[m]
        BY <2>11
      <4>2. QED
        BY <3>2, <3>3, <4>1, Zenon
    <3>5. \A k \in 1..Len(seqs[j]) : f[m + 1][end[j - 1] + k] = seqs[j][k]
      BY <2>6, <3>3, <3>4
    <3>6. end[j - 1] + Len(seqs[j]) <= end[m + 1]
      <4>1. \A e, len, more \in Nat : e + len <= end[m] => e + len <= end[m] + more
        BY <2>11
      <4>2. end[m + 1] = end[m] + Len(seqs[m + 1]) /\ Len(seqs[m + 1]) \in Nat
        BY <2>4
      <4>3. QED
        BY <3>2, <3>3, <4>1, <4>2, Zenon
    <3>7. QED
      BY <3>3, <3>5, <3>6 DEF Part
  <2>8. Part(m + 1, m + 1)
    <3>1. end[(m + 1) - 1] = end[m]
      BY <2>1
    <3>2. QED
      BY <2>4, <2>6, <2>11, <3>1 DEF Part
  <2>9. \A j \in 1..(m + 1) : Part(m + 1, j)
    BY <2>1, <2>7, <2>8
  <2>10. QED
    BY <2>5, <2>9
<1> HIDE DEF P
<1>5. Len(seqs) \in T
  BY <1>2, <1>3, <1>4, Induction
<1>6. P(Len(seqs))
  BY <1>2, <1>5
<1>7. ASSUME NEW j \in 1..Len(seqs)
      PROVE  SubSeq(f[Len(seqs)], end[j - 1] + 1, end[j - 1] + Len(seqs[j])) = seqs[j]
  <2> DEFINE flat == f[Len(seqs)]
             part == SubSeq(flat, end[j - 1] + 1, end[j - 1] + Len(seqs[j]))
  <2>1. /\ flat \in Seq(S) /\ Len(flat) = end[Len(seqs)] /\ Len(flat) \in Nat
        /\ end[j - 1] \in Nat /\ end[j - 1] + Len(seqs[j]) <= Len(flat)
        /\ \A k \in 1..Len(seqs[j]) : flat[end[j - 1] + k] = seqs[j][k]
    BY <1>6 DEF P
  <2>2. seqs[j] \in Seq(S) /\ Len(seqs[j]) \in Nat
    BY <1>2
  <2> HIDE DEF flat
  <2>3. /\ part \in Seq(S) /\ Len(part) = Len(seqs[j])
        /\ \A k \in 1..Len(seqs[j]) : part[k] = flat[end[j - 1] + k]
    <3>0. flat \in Seq(S)
      BY <2>1
    <3>1. PICK from \in Nat : from = end[j - 1]
      BY <2>1
    <3>2. PICK len \in Nat : len = Len(seqs[j])
      BY <2>2
    <3>3. from + len <= Len(flat) /\ part = SubSeq(flat, from + 1, from + len)
      BY <2>1, <3>1, <3>2
    <3> HIDE DEF part
    <3>4. /\ part \in Seq(S) /\ Len(part) = len
          /\ \A k \in 1..len : part[k] = flat[from + k]
      BY <3>0, <3>3, Slice
    <3>5. QED
      BY <3>1, <3>2, <3>4, Zenon
  <2> HIDE DEF part
  <2>4. \A k \in 1..Len(seqs[j]) : part[k] = seqs[j][k]
    BY <2>1, <2>3
  <2>5. part = seqs[j]
    BY <2>2, <2>3, <2>4, Same
  <2>6. QED
    BY <2>5 DEF part, flat
<1>8. QED
  BY <1>1, <1>6, <1>7 DEF P

-----------------------------------------------------------------------------
(* The bytes of a mapping                                                  *)

\* The recursion of PrefixBytes.
Summing(f, mapping, n) ==
    f = [i \in 0..n |-> IF i = 0 THEN 0 ELSE f[i - 1] + mapping[i].width]

LEMMA SummingExists ==
    ASSUME NEW mapping, NEW n \in Nat
    PROVE  \E f : Summing(f, mapping, n)
<1> DEFINE S == {m \in Nat : \E f : Summing(f, mapping, m)}
<1>1. 0 \in S
  <2> DEFINE g == [i \in 0..0 |-> 0]
  <2>1. g = [i \in 0..0 |-> IF i = 0 THEN 0 ELSE g[i - 1] + mapping[i].width]
    OBVIOUS
  <2>2. QED
    BY <2>1 DEF Summing
<1>2. ASSUME NEW m \in S PROVE m + 1 \in S
  <2>1. PICK f : Summing(f, mapping, m)
    OBVIOUS
  <2> DEFINE g == [i \in 0..(m + 1) |->
                      IF i = m + 1 THEN f[m] + mapping[i].width ELSE f[i]]
             h == [i \in 0..(m + 1) |-> IF i = 0 THEN 0 ELSE g[i - 1] + mapping[i].width]
  <2>2. ASSUME NEW i \in 0..(m + 1) PROVE g[i] = h[i]
    <3>1. CASE i = m + 1
      <4>1. m \in 0..(m + 1) /\ m # m + 1 /\ i - 1 = m /\ i # 0
        BY <3>1
      <4>2. g[m] = f[m]
        BY <4>1
      <4>3. QED
        BY <3>1, <4>1, <4>2
    <3>2. CASE i # m + 1
      <4>1. i \in 0..m
        BY <3>2
      <4>2. f[i] = IF i = 0 THEN 0 ELSE f[i - 1] + mapping[i].width
        BY <2>1, <4>1 DEF Summing
      <4>3. i # 0 => i - 1 \in 0..(m + 1) /\ i - 1 # m + 1
        BY <4>1
      <4>4. i # 0 => g[i - 1] = f[i - 1]
        BY <4>3
      <4>5. g[i] = f[i]
        BY <3>2
      <4>6. h[i] = IF i = 0 THEN 0 ELSE g[i - 1] + mapping[i].width
        OBVIOUS
      <4> HIDE DEF g, h
      <4>7. QED
        BY <4>2, <4>4, <4>5, <4>6, Zenon
    <3>3. QED
      BY <3>1, <3>2
  <2>3. g = h
    BY <2>2
  <2>4. Summing(g, mapping, m + 1)
    BY <2>3, Zenon DEF Summing
  <2>5. QED
    BY <2>4
<1>3. Nat \subseteq S
  BY <1>1, <1>2, Induction
<1>4. QED
  BY <1>3

\* The bytes of a prefix are those of its entries, one after another.
LEMMA BytesOfPrefixes ==
    ASSUME NEW mapping, Len(mapping) \in Nat
    PROVE  /\ PrefixBytes(mapping)[0] = 0
           /\ \A i \in 1..Len(mapping) :
                 PrefixBytes(mapping)[i] = PrefixBytes(mapping)[i - 1] + mapping[i].width
<1> DEFINE n == Len(mapping)
           g == PrefixBytes(mapping)
<1>1. Summing(CHOOSE f : Summing(f, mapping, n), mapping, n)
  BY SummingExists, Zenon
<1>2. g = CHOOSE f : Summing(f, mapping, n)
  BY Zenon DEF PrefixBytes, Summing
<1>3. Summing(g, mapping, n)
  BY <1>1, <1>2, Zenon
<1>4. n \in Nat
  OBVIOUS
<1> HIDE DEF g, n
<1>5. g = [i \in 0..n |-> IF i = 0 THEN 0 ELSE g[i - 1] + mapping[i].width]
  BY <1>3, Zenon DEF Summing
<1>6. g[0] = 0 /\ \A i \in 1..n : g[i] = g[i - 1] + mapping[i].width
  BY <1>4, <1>5
<1>7. QED
  BY <1>6, Zenon DEF g, n

LEMMA BytesBounded ==
    ASSUME NEW mapping \in Seq(Entry)
    PROVE  /\ \A i \in 0..Len(mapping) : /\ PrefixBytes(mapping)[i] \in Nat
                                         /\ PrefixBytes(mapping)[i] <= TotalBytes(mapping)
           /\ TotalBytes(mapping) \in Nat
<1> DEFINE n == Len(mapping)
           P == PrefixBytes(mapping)
           width(i) == mapping[i].width
<1>1. n \in Nat /\ \A i \in 1..n : width(i) \in Nat
  <2>1. n \in Nat /\ \A i \in 1..n : mapping[i] \in Entry
    OBVIOUS
  <2>2. \A entry \in Entry : entry.width \in Nat
    BY DEF Entry
  <2>3. QED
    BY <2>1, <2>2, Zenon
<1>2. P[0] = 0 /\ \A i \in 1..n : P[i] = P[i - 1] + width(i)
  BY <1>1, BytesOfPrefixes, Zenon
<1> HIDE DEF n, P, width
<1> DEFINE S == {i \in Nat : i <= n => P[i] \in Nat}
<1>3. \A i \in 0..n : P[i] \in Nat
  <2>1. 0 \in S
    BY <1>2
  <2>2. ASSUME NEW i \in S PROVE i + 1 \in S
    <3> SUFFICES ASSUME i + 1 <= n PROVE P[i + 1] \in Nat
      BY DEF S
    <3>1. i \in Nat /\ i <= n /\ P[i] \in Nat /\ i + 1 \in 1..n /\ (i + 1) - 1 = i
      BY <1>1 DEF S
    <3>2. P[i + 1] = P[i] + width(i + 1) /\ width(i + 1) \in Nat
      BY <1>1, <1>2, <3>1
    <3>3. QED
      BY <3>1, <3>2
  <2> HIDE DEF S
  <2>3. Nat \subseteq S
    <3>1. S \in SUBSET Nat
      BY DEF S
    <3>2. QED
      BY <2>1, <2>2, <3>1, Induction
  <2>4. QED
    BY <1>1, <2>3 DEF S
<1>4. ASSUME NEW i \in 0..n PROVE P[i] <= P[n]
  <2> DEFINE T == {d \in Nat : i + d <= n => P[i] <= P[i + d]}
  <2>1. P[i] \in Nat /\ i \in Nat
    BY <1>1, <1>3
  <2>2. 0 \in T
    BY <2>1
  <2>3. ASSUME NEW d \in T PROVE d + 1 \in T
    <3> SUFFICES ASSUME i + (d + 1) <= n PROVE P[i] <= P[i + (d + 1)]
      BY DEF T
    <3>1. /\ d \in Nat /\ i + (d + 1) \in 1..n /\ (i + (d + 1)) - 1 = i + d
          /\ i + d \in 0..n /\ i + d <= n
      BY <1>1, <2>1 DEF T
    <3>2. P[i] <= P[i + d] /\ P[i + d] \in Nat
      BY <1>3, <3>1 DEF T
    <3>3. P[i + (d + 1)] = P[i + d] + width(i + (d + 1)) /\ width(i + (d + 1)) \in Nat
      BY <1>1, <1>2, <3>1
    <3>4. QED
      BY <2>1, <3>2, <3>3
  <2> HIDE DEF T
  <2>4. Nat \subseteq T
    <3>1. T \in SUBSET Nat
      BY DEF T
    <3>2. QED
      BY <2>2, <2>3, <3>1, Induction
  <2>5. PICK d \in Nat : i + d = n
    <3>1. n - i \in Nat /\ i + (n - i) = n
      BY <1>1, <2>1
    <3>2. QED
      BY <3>1
  <2>6. d \in T /\ i + d <= n
    BY <1>1, <2>4, <2>5
  <2>7. P[i] <= P[i + d]
    BY <2>6 DEF T
  <2>8. QED
    BY <2>5, <2>7, Zenon
<1>5. TotalBytes(mapping) = P[n] /\ n \in 0..n
  BY <1>1 DEF TotalBytes, P, n
<1>6. QED
  BY <1>3, <1>4, <1>5 DEF P, n

-----------------------------------------------------------------------------
(* The invariant                                                           *)

\* What an entry of a mapping record holds before anything is mapped there.
Blank == [addr |-> CHOOSE o \in Objects : TRUE, width |-> 0]
Parameters == [valid : BOOLEAN, count : Nat, type : TransmissionType,
               entry : [1..MaxEntries -> Entry \cup {Blank}]]

\* The first entries of a layout are in the mapping record.
HoldsEntries(parameters, layout, n) ==
    \A i \in 1..n : i <= MaxEntries => parameters.entry[i] = layout.mapping[i]
Holds(parameters, layout) ==
    /\ parameters.count = Len(layout.mapping)
    /\ parameters.type = layout.type
    /\ HoldsEntries(parameters, layout, Len(layout.mapping))

Wanted(p) == Layouts[p] \cup {Default[p]}

\* What the master has written so far of the layout it is configuring.
JobInv ==
    job # NoJob =>
      /\ job.pdo \in Pdos /\ job.layout \in Layouts[job.pdo]
      /\ job.step \in 0..(Len(job.layout.mapping) + 3)
      /\ job = [pdo |-> job.pdo, layout |-> job.layout, step |-> job.step]
      /\ job.step > 0 => ~param[job.pdo].valid
      /\ \A i \in 1..Len(job.layout.mapping) : i < job.step /\ i <= MaxEntries =>
             param[job.pdo].entry[i] = job.layout.mapping[i]
      /\ job.step > Len(job.layout.mapping) + 1 => param[job.pdo].type = job.layout.type
      /\ job.step > Len(job.layout.mapping) + 2 =>
             param[job.pdo].count = Len(job.layout.mapping)

PdoInv ==
    /\ param \in [Pdos -> Parameters]
    /\ intended \in [Pdos -> Layout]
    /\ \A p \in Pdos : intended[p] \in Wanted(p)
    /\ \A p \in Pdos : param[p].valid => Holds(param[p], intended[p])
    /\ JobInv
    /\ rpdos = Configured(param, "rpdo") /\ tpdos = Configured(param, "tpdo")

DataInv ==
    /\ data = [o \in Objects |-> data[o]]
    /\ \A o \in Objects : data[o] \in Seq(Byte) /\ Len(data[o]) = Width[o]

-----------------------------------------------------------------------------
(* The master's writes                                                     *)

\* The layout of a mapping that was delivered is that of its parameters.
LEMMA DeliveredHolds ==
    ASSUME NEW layout \in Layout, MaxEntries \in Nat
    PROVE  Delivered(layout) \in Parameters /\ Holds(Delivered(layout), layout)
<1> DEFINE k == Len(layout.mapping)
           entries == [i \in 1..MaxEntries |-> IF i <= k THEN layout.mapping[i] ELSE Blank]
<1>1. Delivered(layout) = [valid |-> TRUE, count |-> k, type |-> layout.type, entry |-> entries]
  BY DEF Delivered, Blank
<1>2. layout.mapping \in Seq(Entry) /\ layout.type \in TransmissionType
  BY DEF Layout
<1>3. k \in Nat /\ \A i \in 1..k : layout.mapping[i] \in Entry
  BY <1>2
<1> HIDE DEF k
<1>4. \A i \in 1..MaxEntries : entries[i] \in Entry \cup {Blank}
  BY <1>3
<1>5. entries \in [1..MaxEntries -> Entry \cup {Blank}]
  BY <1>4
<1>6. \A i \in 1..k : i <= MaxEntries => entries[i] = layout.mapping[i]
  BY <1>3
<1> HIDE DEF entries
<1>7. Delivered(layout) \in Parameters
  BY <1>1, <1>2, <1>3, <1>5 DEF Parameters
<1>8. Holds(Delivered(layout), layout)
  BY <1>1, <1>6 DEF Holds, HoldsEntries, k
<1>9. QED
  BY <1>7, <1>8

\* What the write for a step of a job leaves of the parameters r.
Wrote(w, r, layout, k, step) ==
    /\ w \in Parameters
    /\ w.valid = IF step = 0 THEN FALSE ELSE IF step = k + 3 THEN TRUE ELSE r.valid
    /\ w.type = IF step = k + 1 THEN layout.type ELSE r.type
    /\ w.count = IF step = k + 2 THEN k ELSE r.count
    /\ \A i \in 1..MaxEntries : i # step => w.entry[i] = r.entry[i]
    /\ step \in 1..k /\ step <= MaxEntries => w.entry[step] = layout.mapping[step]
    /\ step \notin 1..k => w.entry = r.entry

LEMMA Writes ==
    ASSUME NEW r \in Parameters, NEW layout \in Layout, MaxEntries \in Nat,
           NEW k, k = Len(layout.mapping), NEW step \in 0..(k + 3),
           NEW w, w = NextWrite(r, layout, step)
    PROVE  Wrote(w, r, layout, k, step)
<1>1. layout.mapping \in Seq(Entry) /\ layout.type \in TransmissionType
  BY DEF Layout
<1>2. k \in Nat /\ \A i \in 1..k : layout.mapping[i] \in Entry
  BY <1>1
<1>3. /\ r = [valid |-> r.valid, count |-> r.count, type |-> r.type, entry |-> r.entry]
      /\ r.valid \in BOOLEAN /\ r.count \in Nat /\ r.type \in TransmissionType
      /\ r.entry \in [1..MaxEntries -> Entry \cup {Blank}]
  BY DEF Parameters
<1>4. ASSUME NEW v \in BOOLEAN, NEW c \in Nat, NEW t \in TransmissionType,
             NEW e \in [1..MaxEntries -> Entry \cup {Blank}],
             w = [valid |-> v, count |-> c, type |-> t, entry |-> e]
      PROVE  w \in Parameters /\ w.valid = v /\ w.count = c /\ w.type = t /\ w.entry = e
  BY <1>4 DEF Parameters
<1>5. CASE step = 0
  <2>1. w = [r EXCEPT !.valid = FALSE]
    BY <1>2, <1>5 DEF NextWrite
  <2>2. w = [valid |-> FALSE, count |-> r.count, type |-> r.type, entry |-> r.entry]
    BY <1>3, <2>1
  <2>3. /\ w \in Parameters /\ w.valid = FALSE /\ w.count = r.count /\ w.type = r.type
        /\ w.entry = r.entry
    BY <1>3, <1>4, <2>2
  <2>4. step # k + 1 /\ step # k + 2 /\ step \notin 1..k
    BY <1>2, <1>5
  <2>5. QED
    BY <1>5, <2>3, <2>4, Zenon DEF Wrote
<1>6. CASE step \in 1..k
  <2>1. w = [r EXCEPT !.entry[step] = layout.mapping[step]]
    BY <1>2, <1>6 DEF NextWrite
  <2>2. layout.mapping[step] \in Entry
    BY <1>2, <1>6
  <2> DEFINE entries == [r.entry EXCEPT ![step] = layout.mapping[step]]
  <2>3. entries \in [1..MaxEntries -> Entry \cup {Blank}]
    BY <1>3, <2>2
  <2>4. /\ \A i \in 1..MaxEntries : i # step => entries[i] = r.entry[i]
        /\ step <= MaxEntries => entries[step] = layout.mapping[step]
    BY <1>3, <1>6
  <2> HIDE DEF entries
  <2>5. w = [valid |-> r.valid, count |-> r.count, type |-> r.type, entry |-> entries]
    BY <1>3, <2>1 DEF entries
  <2>6. /\ w \in Parameters /\ w.valid = r.valid /\ w.count = r.count /\ w.type = r.type
        /\ w.entry = entries
    BY <1>3, <1>4, <2>3, <2>5
  <2>7. step # 0 /\ step # k + 1 /\ step # k + 2 /\ step # k + 3
    BY <1>2, <1>6
  <2>8. QED
    BY <1>6, <2>4, <2>6, <2>7, Zenon DEF Wrote
<1>7. CASE step = k + 1
  <2>1. w = [r EXCEPT !.type = layout.type]
    BY <1>2, <1>7 DEF NextWrite
  <2>2. w = [valid |-> r.valid, count |-> r.count, type |-> layout.type, entry |-> r.entry]
    BY <1>3, <2>1
  <2>3. /\ w \in Parameters /\ w.valid = r.valid /\ w.count = r.count /\ w.type = layout.type
        /\ w.entry = r.entry
    BY <1>1, <1>3, <1>4, <2>2
  <2>4. step # 0 /\ step # k + 2 /\ step # k + 3 /\ step \notin 1..k
    BY <1>2, <1>7
  <2>5. QED
    BY <1>7, <2>3, <2>4, Zenon DEF Wrote
<1>8. CASE step = k + 2
  <2>1. w = [r EXCEPT !.count = k]
    BY <1>2, <1>8 DEF NextWrite
  <2>2. w = [valid |-> r.valid, count |-> k, type |-> r.type, entry |-> r.entry]
    BY <1>3, <2>1
  <2>3. /\ w \in Parameters /\ w.valid = r.valid /\ w.count = k /\ w.type = r.type
        /\ w.entry = r.entry
    BY <1>2, <1>3, <1>4, <2>2
  <2>4. step # 0 /\ step # k + 1 /\ step # k + 3 /\ step \notin 1..k
    BY <1>2, <1>8
  <2>5. QED
    BY <1>8, <2>3, <2>4, Zenon DEF Wrote
<1>9. CASE step = k + 3
  <2>1. w = [r EXCEPT !.valid = TRUE]
    BY <1>2, <1>9 DEF NextWrite
  <2>2. w = [valid |-> TRUE, count |-> r.count, type |-> r.type, entry |-> r.entry]
    BY <1>3, <2>1
  <2>3. /\ w \in Parameters /\ w.valid = TRUE /\ w.count = r.count /\ w.type = r.type
        /\ w.entry = r.entry
    BY <1>3, <1>4, <2>2
  <2>4. step # 0 /\ step # k + 1 /\ step # k + 2 /\ step \notin 1..k
    BY <1>2, <1>9
  <2>5. QED
    BY <1>9, <2>3, <2>4, Zenon DEF Wrote
<1>10. step = 0 \/ step \in 1..k \/ step = k + 1 \/ step = k + 2 \/ step = k + 3
  BY <1>2
<1>11. QED
  BY <1>5, <1>6, <1>7, <1>8, <1>9, <1>10, Zenon

-----------------------------------------------------------------------------
(* The invariant holds                                                     *)

LEMMA PdoInvInit == Init => PdoInv
<1> SUFFICES ASSUME Init PROVE PdoInv
  OBVIOUS
<1>1. /\ MaxEntries \in Nat /\ Default \in [Pdos -> Layout]
      /\ param = [p \in Pdos |-> Delivered(Default[p])] /\ intended = Default
  BY NodePdoAssumption DEF Init
<1>2. \A p \in Pdos : Delivered(Default[p]) \in Parameters /\ Holds(Delivered(Default[p]), Default[p])
  BY <1>1, DeliveredHolds
<1>3. param \in [Pdos -> Parameters] /\ \A p \in Pdos : Holds(param[p], intended[p])
  BY <1>1, <1>2, Zenon
<1>4. intended \in [Pdos -> Layout] /\ \A p \in Pdos : intended[p] \in Wanted(p)
  BY <1>1 DEF Wanted
<1>5. JobInv /\ rpdos = Configured(param, "rpdo") /\ tpdos = Configured(param, "tpdo")
  BY Zenon DEF Init, JobInv
<1>6. QED
  BY <1>3, <1>4, <1>5, Zenon DEF PdoInv

\* A write of the master leaves the invariant.
LEMMA ConfigureKeeps == PdoInv /\ Configure => PdoInv'
<1> SUFFICES ASSUME PdoInv, Configure PROVE PdoInv'
  OBVIOUS
<1> DEFINE p == job.pdo
           layout == job.layout
           step == job.step
           k == Len(layout.mapping)
           r == param[p]
           w == NextWrite(r, layout, step)
<1>1. /\ p \in Pdos /\ layout \in Layouts[p] /\ step \in 0..(k + 3)
      /\ job = [pdo |-> p, layout |-> layout, step |-> step]
      /\ step > 0 => ~r.valid
      /\ \A i \in 1..k : i < step /\ i <= MaxEntries => r.entry[i] = layout.mapping[i]
      /\ step > k + 1 => r.type = layout.type
      /\ step > k + 2 => r.count = k
  BY Zenon DEF PdoInv, JobInv, Configure
<1>2. /\ param' = [param EXCEPT ![p] = w]
      /\ rpdos' = Configured(param', "rpdo") /\ tpdos' = Configured(param', "tpdo")
      /\ IF step = k + 3
         THEN job' = NoJob /\ intended' = [intended EXCEPT ![p] = layout]
         ELSE job' = [job EXCEPT !.step = @ + 1] /\ intended' = intended
  BY Zenon DEF Configure, WriteParameter
<1>3. /\ param \in [Pdos -> Parameters] /\ intended \in [Pdos -> Layout]
      /\ \A q \in Pdos : intended[q] \in Wanted(q)
      /\ \A q \in Pdos : param[q].valid => Holds(param[q], intended[q])
  BY DEF PdoInv
<1>4. MaxEntries \in Nat /\ layout \in Layout
  BY <1>1, NodePdoAssumption
<1>5. r \in Parameters
  BY <1>1, <1>3
<1>6. layout.mapping \in Seq(Entry) /\ k \in Nat
  BY <1>4 DEF Layout
<1> HIDE DEF k, r, w
<1>7. /\ w \in Parameters
      /\ w.valid = IF step = 0 THEN FALSE ELSE IF step = k + 3 THEN TRUE ELSE r.valid
      /\ w.type = IF step = k + 1 THEN layout.type ELSE r.type
      /\ w.count = IF step = k + 2 THEN k ELSE r.count
      /\ \A i \in 1..MaxEntries : i # step => w.entry[i] = r.entry[i]
      /\ step \in 1..k /\ step <= MaxEntries => w.entry[step] = layout.mapping[step]
      /\ step \notin 1..k => w.entry = r.entry
  <2>1. k = Len(layout.mapping) /\ w = NextWrite(r, layout, step)
    BY DEF k, w
  <2>2. step \in 0..(k + 3)
    BY <1>1
  <2> HIDE DEF p, layout, step
  <2>3. Wrote(w, r, layout, k, step)
    BY <1>4, <1>5, <2>1, <2>2, Writes
  <2>4. QED
    BY <2>3, Zenon DEF Wrote
<1> HIDE DEF p, layout, step
<1>8. /\ param' \in [Pdos -> Parameters] /\ param'[p] = w
      /\ \A q \in Pdos : q # p => param'[q] = param[q]
  BY <1>1, <1>2, <1>3, <1>7
<1>9. step < k + 3 => ~w.valid
  <2>1. CASE step = 0
    BY <1>6, <1>7, <2>1
  <2>2. CASE step > 0 /\ step < k + 3
    BY <1>1, <1>6, <1>7, <2>2
  <2>3. QED
    BY <1>1, <1>6, <2>1, <2>2
<1>10. ASSUME NEW i \in 1..k, i < step + 1, i <= MaxEntries PROVE w.entry[i] = layout.mapping[i]
  <2>1. i \in 1..MaxEntries
    BY <1>4, <1>6, <1>10
  <2>2. CASE i = step
    BY <1>7, <1>10, <2>2
  <2>3. CASE i # step
    <3>1. i < step
      BY <1>1, <1>6, <1>10, <2>3
    <3>2. QED
      BY <1>1, <1>7, <1>10, <2>1, <2>3, <3>1
  <2>4. QED
    BY <2>2, <2>3
<1>11. step + 1 > k + 1 => w.type = layout.type
  BY <1>1, <1>6, <1>7
<1>12. step + 1 > k + 2 => w.count = k
  BY <1>1, <1>6, <1>7
<1>13. CASE step = k + 3
  <2>1. Holds(w, layout)
    <3>1. \A i \in 1..k : i < step + 1
      BY <1>6, <1>13
    <3>2. HoldsEntries(w, layout, k)
      BY <1>10, <3>1 DEF HoldsEntries
    <3>3. w.type = layout.type /\ w.count = k
      BY <1>6, <1>11, <1>12, <1>13
    <3>4. QED
      BY <3>2, <3>3 DEF Holds, k
  <2>2. /\ intended' \in [Pdos -> Layout] /\ intended'[p] = layout
        /\ \A q \in Pdos : q # p => intended'[q] = intended[q]
    BY <1>1, <1>2, <1>3, <1>4, <1>13
  <2>3. \A q \in Pdos : intended'[q] \in Wanted(q)
    BY <1>1, <1>3, <2>2 DEF Wanted
  <2>4. \A q \in Pdos : param'[q].valid => Holds(param'[q], intended'[q])
    BY <1>3, <1>8, <2>1, <2>2, Zenon
  <2>5. JobInv'
    BY <1>2, <1>13 DEF JobInv
  <2>6. QED
    BY <1>2, <1>8, <2>2, <2>3, <2>4, <2>5, Zenon DEF PdoInv
<1>14. CASE step # k + 3
  <2>1. intended' = intended /\ job' = [pdo |-> p, layout |-> layout, step |-> step + 1]
    BY <1>1, <1>2, <1>14
  <2>2. ~w.valid /\ step + 1 \in 0..(k + 3) /\ step + 1 > 0
    BY <1>1, <1>6, <1>9, <1>14
  <2>3. \A q \in Pdos : param'[q].valid => Holds(param'[q], intended'[q])
    BY <1>3, <1>8, <2>1, <2>2, Zenon
  <2>4. job'.pdo = p /\ job'.layout = layout /\ job'.step = step + 1
    BY <2>1
  <2>5. JobInv'
    BY <1>1, <1>8, <1>10, <1>11, <1>12, <2>1, <2>2, <2>4, Zenon DEF JobInv, k
  <2>6. QED
    BY <1>2, <1>3, <1>8, <2>1, <2>3, <2>5, Zenon DEF PdoInv
<1>15. QED
  BY <1>13, <1>14

LEMMA PdoInvStep == PdoInv /\ [Next]_vars => PdoInv'
<1> SUFFICES ASSUME PdoInv, [Next]_vars PROVE PdoInv'
  OBVIOUS
<1>1. CASE Configure
  BY <1>1, ConfigureKeeps
<1>2. CASE StartJob
  <2>1. UNCHANGED << param, rpdos, tpdos, intended >>
    BY <1>2 DEF StartJob, nodeVars
  <2>2. PICK p \in Pdos : \E layout \in Layouts[p] :
            job' = [pdo |-> p, layout |-> layout, step |-> 0]
    BY <1>2, Zenon DEF StartJob
  <2>3. PICK layout \in Layouts[p] : job' = [pdo |-> p, layout |-> layout, step |-> 0]
    BY <2>2
  <2>4. job'.pdo = p /\ job'.layout = layout /\ job'.step = 0
    BY <2>3
  <2>5. layout.mapping \in Seq(Entry)
    BY NodePdoAssumption DEF Layout
  <2> DEFINE k == Len(layout.mapping)
  <2>6. k \in Nat
    BY <2>5
  <2> HIDE DEF k
  <2>7. 0 \in 0..(k + 3) /\ ~(0 > 0) /\ ~(0 > k + 1) /\ ~(0 > k + 2) /\ \A i \in 1..k : ~(i < 0)
    BY <2>6
  <2>8. JobInv'
    BY <2>3, <2>4, <2>7, Zenon DEF JobInv, k
  <2>9. QED
    BY <2>1, <2>8, Zenon DEF PdoInv
<1>3. CASE GiveUp
  BY <1>3, Zenon DEF GiveUp, nodeVars, PdoInv, JobInv
<1>4. ASSUME UNCHANGED << param, rpdos, tpdos, intended, job >> PROVE PdoInv'
  BY <1>4, Zenon DEF PdoInv, JobInv
<1>5. CASE OnNmt \/ Boot \/ OnRpdo \/ OnSync \/ OnDemand \/ Publish \/ UNCHANGED vars
  BY <1>4, <1>5, Zenon DEF OnNmt, Boot, OnRpdo, OnSync, OnDemand, Publish, vars, nodeVars
<1>6. QED
  BY <1>1, <1>2, <1>3, <1>5 DEF Next

LEMMA AlwaysPdoInv == Spec => []PdoInv
  BY PdoInvInit, PdoInvStep, PTL DEF Spec

-----------------------------------------------------------------------------
(* The slots that the node builds                                          *)

\* A mapping record that holds a layout is read as this layout.
LEMMA HeldMapping ==
    ASSUME NEW r \in Parameters, NEW layout \in Layout, MaxEntries \in Nat,
           Holds(r, layout), r.count <= MaxEntries
    PROVE  Mapping(r) = layout.mapping
<1> DEFINE k == Len(layout.mapping)
           E == Entry \cup {Blank}
           s == r.entry
           t == layout.mapping
           part == SubSeq(s, 0 + 1, 0 + k)
<1>1. /\ r.count = k /\ \A i \in 1..k : i <= MaxEntries => s[i] = t[i]
  BY DEF Holds, HoldsEntries
<1>2. t \in Seq(Entry) /\ k \in Nat
  BY DEF Layout
<1>3. t \in Seq(E)
  BY <1>2
<1>4. s \in Seq(E) /\ Len(s) = MaxEntries
  BY DEF Parameters
<1>5. 0 + k <= Len(s) /\ k <= MaxEntries
  BY <1>1, <1>2, <1>4
<1>6. Mapping(r) = part
  BY <1>1, <1>2 DEF Mapping
<1> HIDE DEF E, s, t, part
<1>7. part \in Seq(E) /\ Len(part) = k /\ \A i \in 1..k : part[i] = s[0 + i]
  BY <1>2, <1>4, <1>5, Slice DEF part
<1>8. \A i \in 1..k : part[i] = t[i]
  BY <1>1, <1>2, <1>5, <1>7 DEF s, t
<1>9. Len(t) = k
  BY DEF t
<1>10. part = t
  BY <1>3, <1>7, <1>8, <1>9, Same
<1>11. QED
  BY <1>6, <1>10 DEF t

Slot(parameters, p) == [cob |-> Cob[p], mapping |-> Mapping(parameters[p]),
                        type |-> parameters[p].type]
InForce(parameters, p) == p \in Pdos /\ parameters[p].valid /\ MappingOK(parameters[p])

\* The slots of a kind are those of the PDOs in force.
LEMMA Slots ==
    ASSUME NEW parameters, NEW kind, MaxPdos \in Nat,
           NEW S, S = {Slot(parameters, p) : p \in Pdos}
    PROVE  /\ Configured(parameters, kind) \in Seq(S)
           /\ \A x : In(x, Configured(parameters, kind)) <=>
                 \E n \in 1..MaxPdos : /\ InForce(parameters, <<kind, n>>)
                                       /\ x = Slot(parameters, <<kind, n>>)
<1> DEFINE one(n) == Build(parameters, <<kind, n>>)
           seqs == [n \in 1..MaxPdos |-> one(n)]
<1>1. \A n \in 1..MaxPdos :
         one(n) = IF InForce(parameters, <<kind, n>>) THEN <<Slot(parameters, <<kind, n>>)>>
                  ELSE <<>>
  BY Zenon DEF Build, InForce, Slot
<1> HIDE DEF one
<1>2. \A n \in 1..MaxPdos : InForce(parameters, <<kind, n>>) => Slot(parameters, <<kind, n>>) \in S
  BY Zenon DEF InForce
<1>3. \A x \in S : <<x>> \in Seq(S) /\ \A y : In(y, <<x>>) <=> y = x
  BY DEF In
<1>4. <<>> \in Seq(S) /\ \A y : ~In(y, <<>>)
  BY DEF In
<1>5. ASSUME NEW n \in 1..MaxPdos
      PROVE  /\ one(n) \in Seq(S)
             /\ \A x : In(x, one(n)) <=> InForce(parameters, <<kind, n>>)
                                         /\ x = Slot(parameters, <<kind, n>>)
  <2>1. CASE InForce(parameters, <<kind, n>>)
    <3>1. one(n) = <<Slot(parameters, <<kind, n>>)>> /\ Slot(parameters, <<kind, n>>) \in S
      BY <1>1, <1>2, <2>1, Zenon
    <3>2. QED
      BY <1>3, <2>1, <3>1, Zenon
  <2>2. CASE ~InForce(parameters, <<kind, n>>)
    <3>1. one(n) = <<>>
      BY <1>1, <2>2, Zenon
    <3>2. QED
      BY <1>4, <2>2, <3>1, Zenon
  <2>3. QED
    BY <2>1, <2>2, Zenon
<1>6. seqs \in Seq(Seq(S)) /\ Len(seqs) = MaxPdos /\ \A n \in 1..MaxPdos : seqs[n] = one(n)
  <2>1. \A n \in 1..MaxPdos : seqs[n] = one(n)
    BY Zenon
  <2>2. seqs \in [1..MaxPdos -> Seq(S)]
    BY <1>5, Zenon
  <2> HIDE DEF seqs
  <2>3. QED
    BY <2>1, <2>2, Listed
<1>7. Configured(parameters, kind) = FlattenSeq(seqs)
  BY Zenon DEF Configured, one
<1> HIDE DEF seqs
<1>8. /\ FlattenSeq(seqs) \in Seq(S)
      /\ \A x : In(x, FlattenSeq(seqs)) <=> \E n \in 1..Len(seqs) : In(x, seqs[n])
  BY <1>6, FlattenedMembers
<1>9. QED
  BY <1>5, <1>6, <1>7, <1>8, Zenon

\* A PDO's slot, by the layout that the master finished for it.
Finished(p) == [cob |-> Cob[p], mapping |-> intended[p].mapping, type |-> intended[p].type]

\* What an enabled PDO's parameters hold, and that they are accepted.
LEMMA EnabledHolds ==
    ASSUME PdoInv, NEW p \in Pdos, param[p].valid
    PROVE  /\ param[p].count <= MaxEntries => Slot(param, p) = Finished(p)
           /\ LayoutsFit => MappingOK(param[p])
           /\ intended[p].mapping \in Seq(Entry)
<1>1. MaxEntries \in Nat /\ param[p] \in Parameters /\ intended[p] \in Layout
  BY NodePdoAssumption DEF PdoInv
<1>2. Holds(param[p], intended[p]) /\ intended[p] \in Wanted(p)
  BY DEF PdoInv
<1>3. param[p].count <= MaxEntries => Mapping(param[p]) = intended[p].mapping
  BY <1>1, <1>2, HeldMapping
<1>4. param[p].type = intended[p].type /\ param[p].count = Len(intended[p].mapping)
  BY <1>2, Zenon DEF Holds
<1>5. ASSUME LayoutsFit PROVE MappingOK(param[p])
  <2>1. /\ Len(intended[p].mapping) <= MaxEntries
        /\ TotalBytes(intended[p].mapping) <= MaxBytes
    BY <1>2, <1>5, Zenon DEF LayoutsFit, Wanted
  <2>2. param[p].count <= MaxEntries
    BY <1>4, <2>1, Zenon
  <2>3. QED
    BY <1>3, <2>1, <2>2, Zenon DEF MappingOK
<1>6. param[p].count <= MaxEntries => Slot(param, p) = Finished(p)
  BY <1>3, <1>4, Zenon DEF Slot, Finished
<1>7. intended[p].mapping \in Seq(Entry)
  BY <1>1 DEF Layout
<1>8. QED
  BY <1>5, <1>6, <1>7, Zenon

\* The slots of a kind are the layouts finished for its enabled PDOs: for no
\* others, and for each of them if the layouts fit.
LEMMA SlotsFinished ==
    ASSUME PdoInv, NEW kind, NEW slots, slots = Configured(param, kind)
    PROVE  /\ Len(slots) \in Nat /\ DOMAIN slots = 1..Len(slots)
           /\ \A i \in DOMAIN slots : \E p \in Pdos :
                 /\ p[1] = kind /\ param[p].valid /\ slots[i] = Finished(p)
                 /\ intended[p].mapping \in Seq(Entry)
           /\ LayoutsFit => \A p \in Pdos : p[1] = kind /\ param[p].valid =>
                 \E i \in DOMAIN slots : slots[i] = Finished(p)
<1> DEFINE S == {Slot(param, p) : p \in Pdos}
<1>1. MaxPdos \in Nat /\ Pdos \subseteq Kinds \X (1..MaxPdos) /\ MaxEntries \in Nat
  BY NodePdoAssumption
<1>2. /\ slots \in Seq(S)
      /\ \A x : In(x, slots) <=> \E n \in 1..MaxPdos : /\ InForce(param, <<kind, n>>)
                                                       /\ x = Slot(param, <<kind, n>>)
  BY <1>1, Slots
<1>3. Len(slots) \in Nat /\ DOMAIN slots = 1..Len(slots)
  BY <1>2
<1> HIDE DEF S
<1>4. ASSUME NEW p \in Pdos, param[p].valid, MappingOK(param[p])
      PROVE  Slot(param, p) = Finished(p)
  BY <1>4, EnabledHolds DEF MappingOK
<1>5. ASSUME NEW i \in DOMAIN slots
      PROVE  \E p \in Pdos : /\ p[1] = kind /\ param[p].valid /\ slots[i] = Finished(p)
                             /\ intended[p].mapping \in Seq(Entry)
  <2>1. In(slots[i], slots)
    BY <1>3 DEF In
  <2>2. PICK n \in 1..MaxPdos : InForce(param, <<kind, n>>) /\ slots[i] = Slot(param, <<kind, n>>)
    BY <1>2, <2>1, Zenon
  <2>3. PICK p \in Pdos : p = <<kind, n>>
    BY <2>2 DEF InForce
  <2>4. p[1] = kind
    BY <2>3
  <2>5. param[p].valid /\ MappingOK(param[p]) /\ slots[i] = Slot(param, p)
    BY <2>2, <2>3, Zenon DEF InForce
  <2>6. slots[i] = Finished(p)
    BY <1>4, <2>5, Zenon
  <2>7. intended[p].mapping \in Seq(Entry)
    BY <2>5, EnabledHolds
  <2>8. QED
    BY <2>4, <2>5, <2>6, <2>7
<1>6. ASSUME LayoutsFit, NEW p \in Pdos, p[1] = kind, param[p].valid
      PROVE  \E i \in DOMAIN slots : slots[i] = Finished(p)
  <2>1. MappingOK(param[p])
    BY <1>6, EnabledHolds
  <2>2. p = <<kind, p[2]>> /\ p[2] \in 1..MaxPdos
    BY <1>1, <1>6
  <2>3. InForce(param, p)
    BY <1>6, <2>1, Zenon DEF InForce
  <2>4. In(Slot(param, p), slots)
    BY <1>2, <2>2, <2>3, Zenon
  <2>5. Slot(param, p) = Finished(p)
    BY <1>4, <1>6, <2>1
  <2>6. In(Finished(p), slots)
    BY <2>4, <2>5, Zenon
  <2>7. QED
    BY <1>3, <2>6 DEF In
<1>7. QED
  BY <1>3, <1>5, <1>6, Zenon

LEMMA PdoInvInForce == ASSUME LayoutsFit, PdoInv PROVE LayoutsInForce
<1>1. rpdos = Configured(param, "rpdo") /\ tpdos = Configured(param, "tpdo")
  BY Zenon DEF PdoInv
<1>2. ASSUME NEW p \in Pdos, param[p].valid
      PROVE  \E slots \in {rpdos, tpdos} : \E i \in DOMAIN slots : slots[i].cob = Cob[p]
  <2>1. p[1] = "rpdo" \/ p[1] = "tpdo"
    BY NodePdoAssumption DEF Kinds
  <2>2. \E slots \in {rpdos, tpdos} : \E i \in DOMAIN slots : slots[i] = Finished(p)
    BY <1>1, <1>2, <2>1, SlotsFinished
  <2>3. Finished(p).cob = Cob[p]
    BY DEF Finished
  <2>4. QED
    BY <2>2, <2>3, Zenon
<1>3. ASSUME NEW slots \in {rpdos, tpdos}, NEW i \in DOMAIN slots
      PROVE  \E p \in Pdos : /\ slots[i].cob = Cob[p]
                             /\ slots[i].mapping = intended[p].mapping
                             /\ slots[i].type = intended[p].type
  <2>1. PICK p \in Pdos : slots[i] = Finished(p)
    BY <1>1, SlotsFinished
  <2>2. /\ slots[i].cob = Cob[p] /\ slots[i].mapping = intended[p].mapping
        /\ slots[i].type = intended[p].type
    BY <2>1 DEF Finished
  <2>3. QED
    BY <2>2
<1>4. QED
  BY <1>2, <1>3, Zenon DEF LayoutsInForce

\* The PDOs in force are those the master has enabled, each with a layout it
\* finished writing (configure_pdos_from_od): for any PDOs and any layouts that
\* fit a mapping record and a frame, whenever the master gives up and starts anew.
THEOREM InForceAsFinished ==
    ASSUME LayoutsFit PROVE Spec => []LayoutsInForce
<1>1. PdoInv => LayoutsInForce
  BY PdoInvInForce
<1>2. QED
  BY AlwaysPdoInv, <1>1, PTL

-----------------------------------------------------------------------------
(* Frames                                                                  *)

\* pack lays the mapped objects one after another, each in its own field.
LEMMA Packed ==
    ASSUME DataInv, NEW mapping \in Seq(Entry), CanPack(mapping)
    PROVE  /\ Len(Pack(mapping)) = TotalBytes(mapping)
           /\ \A j \in DOMAIN mapping : Field(Pack(mapping), mapping, j) = data[mapping[j].addr]
<1> DEFINE n == Len(mapping)
           end == PrefixBytes(mapping)
           value(i) == data[mapping[i].addr]
           seqs == [i \in 1..n |-> value(i)]
<1>1. n \in Nat /\ DOMAIN mapping = 1..n
  OBVIOUS
<1>2. ASSUME NEW i \in 1..n
      PROVE  value(i) \in Seq(Byte) /\ Len(value(i)) = mapping[i].width
  BY <1>1, Zenon DEF DataInv, CanPack, Fits
<1>3. end[0] = 0 /\ \A i \in 1..n : end[i] = end[i - 1] + mapping[i].width
  BY <1>1, BytesOfPrefixes, Zenon
<1>4. Pack(mapping) = FlattenSeq(seqs)
  BY <1>1, Zenon DEF Pack
<1>5. TotalBytes(mapping) = end[n]
  BY DEF TotalBytes
<1>6. \A i \in 1..n : seqs[i] = value(i)
  BY Zenon
<1>7. seqs \in [1..n -> Seq(Byte)]
  BY <1>2, Zenon
<1> HIDE DEF n, end, seqs, value
<1>8. seqs \in Seq(Seq(Byte)) /\ Len(seqs) = n
  BY <1>1, <1>7, Listed
<1>9. \A i \in 1..Len(seqs) : end[i] = end[i - 1] + Len(seqs[i])
  BY <1>2, <1>3, <1>6, <1>8, Zenon
<1>10. /\ Len(FlattenSeq(seqs)) = end[Len(seqs)]
       /\ \A j \in 1..Len(seqs) :
             SubSeq(FlattenSeq(seqs), end[j - 1] + 1, end[j - 1] + Len(seqs[j])) = seqs[j]
  BY <1>3, <1>8, <1>9, FlattenedParts
<1>11. \A j \in 1..n :
          SubSeq(Pack(mapping), end[j - 1] + 1, end[j - 1] + mapping[j].width) = value(j)
  BY <1>2, <1>4, <1>6, <1>8, <1>10, Zenon
<1>12. \A j \in DOMAIN mapping : Field(Pack(mapping), mapping, j) = data[mapping[j].addr]
  BY <1>1, <1>11, Zenon DEF Field, Offset, end, value
<1>13. QED
  BY <1>4, <1>5, <1>8, <1>10, <1>12, Zenon

\* What unpack writes: to each object the last field for it, which is of its size.
LEMMA Unpacked ==
    ASSUME DataInv, NEW mapping \in Seq(Entry), NEW bytes \in Seq(Byte)
    PROVE  /\ \A o \in Objects : /\ Unpack(mapping, bytes)[o] \in Seq(Byte)
                                 /\ Len(Unpack(mapping, bytes)[o]) = Width[o]
           /\ \A o \in Objects : Unpack(mapping, bytes)[o] # data[o] =>
                 /\ Len(bytes) >= TotalBytes(mapping)
                 /\ \E i \in DOMAIN mapping :
                       /\ mapping[i].addr = o
                       /\ Unpack(mapping, bytes)[o] = Field(bytes, mapping, i)
           /\ Len(bytes) >= TotalBytes(mapping) /\ (\A i \in DOMAIN mapping : Takes(mapping[i])) =>
                 \A i \in DOMAIN mapping :
                    (\A j \in DOMAIN mapping : mapping[j].addr = mapping[i].addr => j <= i) =>
                        Unpack(mapping, bytes)[mapping[i].addr] = Field(bytes, mapping, i)
<1> DEFINE n == Len(mapping)
           taken(o) == TakenFor(o, mapping, bytes)
           u(o) == Unpack(mapping, bytes)[o]
           last(o) == Max(taken(o))
<1>1. n \in Nat /\ DOMAIN mapping = 1..n
  OBVIOUS
<1>2. \A o \in Objects : u(o) = IF taken(o) = {} THEN data[o] ELSE Field(bytes, mapping, last(o))
  BY Zenon DEF Unpack
<1>3. \A o : \A i : i \in taken(o) <=>
         /\ i \in 1..n /\ mapping[i].addr = o /\ Len(bytes) >= TotalBytes(mapping)
         /\ \A j \in 1..i : Takes(mapping[j])
  BY <1>1, Zenon DEF TakenFor, Taken
<1>4. ASSUME NEW o, taken(o) # {}
      PROVE  last(o) \in taken(o) /\ \A i \in taken(o) : i <= last(o)
  <2>1. \A i \in taken(o) : i \in 1..n
    BY <1>3, Zenon
  <2>2. PICK T \in SUBSET Nat : T = taken(o)
    BY <1>1, <2>1
  <2>3. T # {} /\ \A i \in T : i <= n
    BY <1>1, <1>4, <2>1, <2>2
  <2>4. Max(T) \in T /\ \A i \in T : i <= Max(T)
    BY <1>1, <2>3, Greatest
  <2>5. QED
    BY <2>2, <2>4, Zenon
<1>5. ASSUME NEW o, taken(o) # {}
      PROVE  /\ last(o) \in 1..n /\ mapping[last(o)].addr = o /\ Takes(mapping[last(o)])
             /\ Len(bytes) >= TotalBytes(mapping)
  <2>1. /\ last(o) \in 1..n /\ mapping[last(o)].addr = o /\ Len(bytes) >= TotalBytes(mapping)
        /\ \A j \in 1..last(o) : Takes(mapping[j])
    BY <1>3, <1>4, <1>5, Zenon
  <2> HIDE DEF last
  <2>2. last(o) \in 1..last(o)
    BY <1>1, <2>1
  <2>3. QED
    BY <2>1, <2>2, Zenon
<1>6. ASSUME NEW i \in 1..n, Takes(mapping[i]), Len(bytes) >= TotalBytes(mapping)
      PROVE  /\ Field(bytes, mapping, i) \in Seq(Byte)
             /\ Len(Field(bytes, mapping, i)) = Width[mapping[i].addr]
  <2> DEFINE off == PrefixBytes(mapping)[i - 1]
             width == mapping[i].width
  <2>1. \A k \in 0..n : /\ PrefixBytes(mapping)[k] \in Nat
                        /\ PrefixBytes(mapping)[k] <= TotalBytes(mapping)
    BY BytesBounded
  <2>2. TotalBytes(mapping) \in Nat
    BY BytesBounded
  <2>3. \A k \in 1..n : PrefixBytes(mapping)[k] = PrefixBytes(mapping)[k - 1] + mapping[k].width
    BY <1>1, BytesOfPrefixes, Zenon
  <2>4. i - 1 \in 0..n /\ i \in 0..n
    BY <1>1
  <2>5. off \in Nat /\ off + width <= TotalBytes(mapping)
    <3>1. PrefixBytes(mapping)[i] = off + width
      BY <2>3, Zenon
    <3>2. PrefixBytes(mapping)[i] <= TotalBytes(mapping) /\ off \in Nat
      BY <2>1, <2>4, Zenon
    <3>3. QED
      BY <3>1, <3>2, Zenon
  <2>6. width \in Nat /\ width = Width[mapping[i].addr]
    <3>1. mapping[i] \in Entry
      BY <1>1
    <3>2. QED
      BY <1>6, <3>1 DEF Entry, Takes, Fits
  <2>7. Field(bytes, mapping, i) = SubSeq(bytes, off + 1, off + width)
    BY Zenon DEF Field, Offset
  <2> HIDE DEF off, width
  <2>8. Len(bytes) \in Nat
    OBVIOUS
  <2>9. off + width <= Len(bytes)
    BY <1>6, <2>2, <2>5, <2>6, <2>8
  <2>10. /\ SubSeq(bytes, off + 1, off + width) \in Seq(Byte)
         /\ Len(SubSeq(bytes, off + 1, off + width)) = width
    BY <2>5, <2>6, <2>9, Slice
  <2>11. QED
    BY <2>6, <2>7, <2>10, Zenon
<1> HIDE DEF n, taken, u, last
<1>7. ASSUME NEW o \in Objects
      PROVE  u(o) \in Seq(Byte) /\ Len(u(o)) = Width[o]
  <2>1. CASE taken(o) = {}
    BY <1>2, <2>1, Zenon DEF DataInv
  <2>2. CASE taken(o) # {}
    BY <1>2, <1>5, <1>6, <2>2, Zenon
  <2>3. QED
    BY <2>1, <2>2
<1>8. ASSUME NEW o \in Objects, u(o) # data[o]
      PROVE  /\ Len(bytes) >= TotalBytes(mapping)
             /\ \E i \in 1..n : mapping[i].addr = o /\ u(o) = Field(bytes, mapping, i)
  BY <1>2, <1>5, <1>8, Zenon
<1>9. ASSUME Len(bytes) >= TotalBytes(mapping), \A i \in 1..n : Takes(mapping[i]),
             NEW i \in 1..n, \A j \in 1..n : mapping[j].addr = mapping[i].addr => j <= i
      PROVE  u(mapping[i].addr) = Field(bytes, mapping, i)
  <2> DEFINE o == mapping[i].addr
  <2>1. o \in Objects
    BY <1>9, Zenon DEF Takes, Fits
  <2>2. \A j \in 1..i : j \in 1..n
    BY <1>1
  <2>3. i \in taken(o)
    BY <1>3, <1>9, <2>2, Zenon
  <2>4. last(o) \in 1..n /\ mapping[last(o)].addr = o /\ i <= last(o)
    BY <1>4, <1>5, <2>3, Zenon
  <2>5. last(o) <= i
    BY <1>9, <2>4, Zenon
  <2>6. last(o) = i
    BY <1>1, <2>4, <2>5
  <2>7. QED
    BY <1>2, <2>1, <2>3, <2>6, Zenon
<1>10. QED
  BY <1>1, <1>7, <1>8, <1>9, Zenon DEF u

\* on_rpdo finds a slot with the COB-ID if there is one.
FirstOn(slots, cob) == SelectInSeq(slots, LAMBDA slot : slot.cob = cob)

LEMMA Found ==
    ASSUME NEW slots, Len(slots) \in Nat, NEW cob, NEW i, i = FirstOn(slots, cob)
    PROVE  \/ i = 0 /\ \A j \in 1..Len(slots) : slots[j].cob # cob
           \/ i # 0 /\ i \in 1..Len(slots) /\ slots[i].cob = cob
<1> DEFINE I == {j \in 1..Len(slots) : slots[j].cob = cob}
<1>1. i = IF I # {} THEN Min(I) ELSE 0
  BY Zenon DEF FirstOn, SelectInSeq
<1>2. CASE I = {}
  BY <1>1, <1>2
<1>3. CASE I # {}
  <2>1. I \in SUBSET Nat
    OBVIOUS
  <2> HIDE DEF I
  <2>2. \E x \in I : \A y \in I : x <= y
    BY <1>3, <2>1, Least
  <2>3. Min(I) \in I
    BY <2>2, Zenon DEF Min
  <2>4. i \in I
    BY <1>1, <1>3, <2>3, Zenon
  <2>5. i \in 1..Len(slots) /\ slots[i].cob = cob
    BY <2>4 DEF I
  <2>6. QED
    BY <2>5
<1>4. QED
  BY <1>2, <1>3

\* An RPDO frame that arrives either reaches an enabled RPDO of an operational
\* node, and is unpacked by the layout finished for it, or changes nothing.
LEMMA Arrives ==
    ASSUME PdoInv, OnRpdo
    PROVE  \E p \in Pdos, bytes \in RpdoData :
              /\ p[1] = "rpdo" /\ heard' = Frame(Cob[p], bytes)
              /\ \/ /\ param[p].valid /\ nmt = "Operational"
                    /\ intended[p].mapping \in Seq(Entry)
                    /\ data' = Unpack(intended[p].mapping, bytes)
                 \/ /\ data' = data
                    /\ ~(LayoutsFit /\ param[p].valid /\ nmt = "Operational")
<1> DEFINE index(p) == FirstOn(rpdos, Cob[p])
<1>1. PICK p \in Pdos, bytes \in RpdoData :
         /\ p[1] = "rpdo" /\ heard' = Frame(Cob[p], bytes)
         /\ data' = IF PdoActive(nmt) /\ index(p) # 0
                    THEN Unpack(rpdos[index(p)].mapping, bytes) ELSE data
  BY Zenon DEF OnRpdo, FirstOn
<1> DEFINE i == index(p)
<1>2. rpdos = Configured(param, "rpdo")
  BY Zenon DEF PdoInv
<1>3. /\ Len(rpdos) \in Nat /\ DOMAIN rpdos = 1..Len(rpdos)
      /\ \A j \in DOMAIN rpdos : \E q \in Pdos :
            /\ q[1] = "rpdo" /\ param[q].valid /\ rpdos[j] = Finished(q)
            /\ intended[q].mapping \in Seq(Entry)
      /\ LayoutsFit => \A q \in Pdos : q[1] = "rpdo" /\ param[q].valid =>
            \E j \in DOMAIN rpdos : rpdos[j] = Finished(q)
  BY <1>2, SlotsFinished
<1>4. \/ i = 0 /\ \A j \in 1..Len(rpdos) : rpdos[j].cob # Cob[p]
      \/ i # 0 /\ i \in 1..Len(rpdos) /\ rpdos[i].cob = Cob[p]
  BY <1>3, Found
<1> HIDE DEF index, i
<1>5. data' = IF PdoActive(nmt) /\ i # 0 THEN Unpack(rpdos[i].mapping, bytes) ELSE data
  BY <1>1, Zenon DEF i
<1>6. \A q : Finished(q).cob = Cob[q] /\ Finished(q).mapping = intended[q].mapping
  BY DEF Finished
<1>7. CASE PdoActive(nmt) /\ i # 0
  <2>1. i \in DOMAIN rpdos /\ rpdos[i].cob = Cob[p]
    BY <1>3, <1>4, <1>7, Zenon
  <2>2. PICK q \in Pdos : /\ param[q].valid /\ rpdos[i] = Finished(q)
                          /\ intended[q].mapping \in Seq(Entry)
    BY <1>3, <2>1, Zenon
  <2>3. q = p
    <3>1. \A a, b \in Pdos : Cob[a] = Cob[b] => a = b
      BY NodePdoAssumption
    <3>2. Cob[q] = Cob[p]
      BY <1>6, <2>1, <2>2, Zenon
    <3>3. QED
      BY <3>1, <3>2, Zenon
  <2>4. param[p].valid /\ intended[p].mapping \in Seq(Entry)
    BY <2>2, <2>3, Zenon
  <2>5. data' = Unpack(intended[p].mapping, bytes)
    BY <1>5, <1>6, <1>7, <2>2, <2>3, Zenon
  <2>6. nmt = "Operational"
    BY <1>7, Zenon DEF PdoActive
  <2>7. QED
    BY <1>1, <2>4, <2>5, <2>6, Zenon
<1>8. CASE ~(PdoActive(nmt) /\ i # 0)
  <2>1. data' = data
    BY <1>5, <1>8, Zenon
  <2>2. ASSUME LayoutsFit, param[p].valid, nmt = "Operational" PROVE FALSE
    <3>1. i = 0
      BY <1>8, <2>2, Zenon DEF PdoActive
    <3>2. PICK j \in DOMAIN rpdos : rpdos[j] = Finished(p)
      BY <1>1, <1>3, <2>2, Zenon
    <3>3. rpdos[j].cob = Cob[p]
      BY <1>6, <3>2, Zenon
    <3>4. QED
      BY <1>3, <1>4, <3>1, <3>3
  <2>3. QED
    BY <1>1, <2>1, <2>2, Zenon
<1>9. QED
  BY <1>7, <1>8, Zenon

LEMMA DataInvInit == Init => DataInv
<1> SUFFICES ASSUME Init PROVE DataInv
  OBVIOUS
<1>1. data = [o \in Objects |-> [i \in 1..Width[o] |-> 0]] /\ 0 \in Byte
  BY NodePdoAssumption DEF Init
<1>2. \A o \in Objects : Width[o] \in Nat
  BY NodePdoAssumption
<1>3. ASSUME NEW o \in Objects PROVE data[o] \in Seq(Byte) /\ Len(data[o]) = Width[o]
  <2>1. data[o] \in [1..Width[o] -> Byte]
    BY <1>1
  <2>2. QED
    BY <1>2, <2>1, Listed
<1>4. data = [o \in Objects |-> data[o]]
  BY <1>1
<1>5. QED
  BY <1>3, <1>4, Zenon DEF DataInv

LEMMA DataInvStep == PdoInv /\ DataInv /\ [Next]_vars => DataInv'
<1> SUFFICES ASSUME PdoInv, DataInv, [Next]_vars PROVE DataInv'
  OBVIOUS
<1>1. ASSUME data' = data PROVE DataInv'
  BY <1>1, Zenon DEF DataInv
<1>2. CASE OnRpdo
  <2>1. CASE data' = data
    BY <1>1, <2>1
  <2>2. CASE data' # data
    <3>1. PICK p \in Pdos, bytes \in RpdoData :
             intended[p].mapping \in Seq(Entry) /\ data' = Unpack(intended[p].mapping, bytes)
      BY <1>2, <2>2, Arrives
    <3>2. bytes \in Seq(Byte)
      BY NodePdoAssumption
    <3>3. \A o \in Objects : data'[o] \in Seq(Byte) /\ Len(data'[o]) = Width[o]
      BY <3>1, <3>2, Unpacked
    <3>4. data' = [o \in Objects |-> data'[o]]
      BY <3>1 DEF Unpack
    <3>5. QED
      BY <3>3, <3>4, Zenon DEF DataInv
  <2>3. QED
    BY <2>1, <2>2
<1>3. CASE Publish
  <2>1. PICK o \in Objects : \E value \in Published[o] : data' = [data EXCEPT ![o] = value]
    BY <1>3, Zenon DEF Publish
  <2>2. PICK value \in Published[o] : data' = [data EXCEPT ![o] = value]
    BY <2>1
  <2>3. value \in [1..Width[o] -> Byte] /\ Width[o] \in Nat
    BY NodePdoAssumption
  <2>4. value \in Seq(Byte) /\ Len(value) = Width[o]
    BY <2>3, Listed
  <2>5. data = [x \in Objects |-> data[x]] /\ \A x \in Objects : data[x] \in Seq(Byte) /\ Len(data[x]) = Width[x]
    BY Zenon DEF DataInv
  <2>6. data' = [x \in Objects |-> IF x = o THEN value ELSE data[x]]
    BY <2>2, <2>5
  <2>7. \A x \in Objects : data'[x] \in Seq(Byte) /\ Len(data'[x]) = Width[x]
    BY <2>4, <2>5, <2>6
  <2>8. data' = [x \in Objects |-> data'[x]]
    BY <2>6
  <2>9. QED
    BY <2>7, <2>8, Zenon DEF DataInv
<1>4. CASE OnNmt \/ Boot \/ OnSync \/ OnDemand \/ StartJob \/ Configure \/ GiveUp \/ UNCHANGED vars
  <2>1. data' = data
    BY <1>4, Zenon DEF OnNmt, Boot, OnSync, OnDemand, StartJob, Configure, WriteParameter,
                       GiveUp, vars, nodeVars
  <2>2. QED
    BY <1>1, <2>1
<1>5. QED
  BY <1>2, <1>3, <1>4 DEF Next

LEMMA AlwaysDataInv == Spec => [](PdoInv /\ DataInv)
  BY PdoInvInit, PdoInvStep, DataInvInit, DataInvStep, PTL DEF Spec

-----------------------------------------------------------------------------
(* What is written, and what is sent                                       *)

LEMMA OnRpdoAsIntended == ASSUME LayoutsFit, PdoInv, DataInv, OnRpdo
                         PROVE  \E p \in Pdos : TakenBy(p, heard')
<1>1. PICK p \in Pdos, bytes \in RpdoData :
         /\ p[1] = "rpdo" /\ heard' = Frame(Cob[p], bytes)
         /\ \/ /\ param[p].valid /\ nmt = "Operational"
               /\ intended[p].mapping \in Seq(Entry)
               /\ data' = Unpack(intended[p].mapping, bytes)
            \/ /\ data' = data
               /\ ~(LayoutsFit /\ param[p].valid /\ nmt = "Operational")
  BY Arrives
<1>2. heard'.cob = Cob[p] /\ heard'.data = bytes
  BY <1>1 DEF Frame
<1> DEFINE m == intended[p].mapping
<1>3. CASE /\ param[p].valid /\ nmt = "Operational" /\ m \in Seq(Entry)
           /\ data' = Unpack(m, bytes)
  <2>1. bytes \in Seq(Byte)
    BY NodePdoAssumption
  <2>2. /\ \A o \in Objects : data'[o] # data[o] =>
              /\ Len(bytes) >= TotalBytes(m)
              /\ \E i \in DOMAIN m : m[i].addr = o /\ data'[o] = Field(bytes, m, i)
        /\ Len(bytes) >= TotalBytes(m) /\ (\A i \in DOMAIN m : Takes(m[i])) =>
              \A i \in DOMAIN m :
                 (\A j \in DOMAIN m : m[j].addr = m[i].addr => j <= i) =>
                     data'[m[i].addr] = Field(bytes, m, i)
    <3>1. PICK mapping \in Seq(Entry) : mapping = m
      BY <1>3
    <3>2. data' = Unpack(mapping, bytes)
      BY <1>3, <3>1, Zenon
    <3> HIDE DEF m
    <3>3. /\ \A o \in Objects : Unpack(mapping, bytes)[o] # data[o] =>
                /\ Len(bytes) >= TotalBytes(mapping)
                /\ \E i \in DOMAIN mapping :
                      /\ mapping[i].addr = o
                      /\ Unpack(mapping, bytes)[o] = Field(bytes, mapping, i)
          /\ Len(bytes) >= TotalBytes(mapping) /\ (\A i \in DOMAIN mapping : Takes(mapping[i])) =>
                \A i \in DOMAIN mapping :
                   (\A j \in DOMAIN mapping : mapping[j].addr = mapping[i].addr => j <= i) =>
                       Unpack(mapping, bytes)[mapping[i].addr] = Field(bytes, mapping, i)
      BY <2>1, Unpacked
    <3>4. QED
      BY <3>1, <3>2, <3>3, Zenon
  <2>3. p[1] = "rpdo" /\ param[p].valid /\ nmt = "Operational"
    BY <1>1, <1>3, Zenon
  <2> DEFINE d == heard'.data
  <2>4. d = bytes
    BY <1>2
  <2> HIDE DEF d
  <2>5. /\ \A o \in Objects : data'[o] # data[o] =>
              /\ Len(d) >= TotalBytes(m)
              /\ \E i \in DOMAIN m : m[i].addr = o /\ data'[o] = Field(d, m, i)
        /\ Len(d) >= TotalBytes(m) /\ (\A i \in DOMAIN m : Takes(m[i])) =>
              \A i \in DOMAIN m :
                 (\A j \in DOMAIN m : m[j].addr = m[i].addr => j <= i) =>
                     data'[m[i].addr] = Field(d, m, i)
    BY <2>2, <2>4, Zenon
  <2>6. heard'.cob = Cob[p]
    BY <1>2
  <2>7. TakenBy(p, heard')
    BY <2>3, <2>5, <2>6, Zenon DEF TakenBy, d
  <2>8. QED
    BY <2>7
<1>4. CASE data' = data /\ ~(param[p].valid /\ nmt = "Operational")
  <2>1. TakenBy(p, heard')
    BY <1>1, <1>2, <1>4, Zenon DEF TakenBy
  <2>2. QED
    BY <2>1
<1>5. QED
  BY <1>1, <1>3, <1>4

\* An RPDO frame writes the objects of the layout that the master finished, each
\* with its own field, and nothing else, and all of them or none if all may be
\* written (on_rpdo through unpack): for any RPDOs, layouts that fit a mapping
\* record and a frame, and frames, those too short for their layout included.
THEOREM RpdosWriteAsIntended ==
    ASSUME LayoutsFit PROVE Spec => RpdoAsIntended
<1> DEFINE Step == heard' # NoFrame => \E p \in Pdos : TakenBy(p, heard')
<1>1. PdoInv /\ DataInv /\ [Next]_vars => [Step]_vars
  <2> SUFFICES ASSUME PdoInv, DataInv, [Next]_vars PROVE Step \/ UNCHANGED vars
    OBVIOUS
  <2>1. CASE OnRpdo
    BY <2>1, OnRpdoAsIntended
  <2>2. CASE OnNmt \/ Boot \/ OnSync \/ OnDemand \/ Publish \/ StartJob \/ Configure \/ GiveUp
    <3>1. heard' = NoFrame
      BY <2>2, Zenon DEF OnNmt, Boot, OnSync, OnDemand, Publish, StartJob, Configure,
                         WriteParameter, GiveUp, Quiet
    <3>2. QED
      BY <3>1, Zenon
  <2>3. QED
    BY <2>1, <2>2 DEF Next
<1>2. RpdoAsIntended <=> [][Step]_vars
  BY DEF RpdoAsIntended
<1> HIDE DEF Step
<1>3. QED
  BY AlwaysDataInv, <1>1, <1>2, PTL DEF Spec

\* The frame of a slot, and what of it is sent.
FrameOf(slot) == Frame(slot.cob, Pack(slot.mapping))

LEMMA FrameAsIntended ==
    ASSUME PdoInv, DataInv, NEW i \in DOMAIN tpdos, CanPack(tpdos[i].mapping)
    PROVE  \E p \in Pdos : SentBy(p, FrameOf(tpdos[i]))
<1>1. tpdos = Configured(param, "tpdo")
  BY Zenon DEF PdoInv
<1>2. PICK p \in Pdos : /\ p[1] = "tpdo" /\ param[p].valid /\ tpdos[i] = Finished(p)
                        /\ intended[p].mapping \in Seq(Entry)
  BY <1>1, SlotsFinished
<1> DEFINE m == intended[p].mapping
           frame == FrameOf(tpdos[i])
<1>3. tpdos[i].cob = Cob[p] /\ tpdos[i].mapping = m
  BY <1>2 DEF Finished
<1>4. frame.cob = Cob[p] /\ frame.data = Pack(m)
  BY <1>3 DEF FrameOf, Frame
<1>5. CanPack(m)
  BY <1>3, Zenon
<1>6. /\ Len(Pack(m)) = TotalBytes(m)
      /\ \A j \in DOMAIN m : Field(Pack(m), m, j) = data[m[j].addr]
  <2>1. m \in Seq(Entry)
    BY <1>2
  <2> HIDE DEF m
  <2>2. QED
    BY <1>5, <2>1, Packed
<1>7. SentBy(p, frame)
  <2>1. /\ Len(frame.data) = TotalBytes(m)
        /\ \A j \in DOMAIN m : Field(frame.data, m, j) = data[m[j].addr]
    BY <1>4, <1>6, Zenon
  <2> HIDE DEF frame
  <2>2. QED
    BY <1>2, <1>4, <2>1, Zenon DEF SentBy
<1>8. QED
  BY <1>7

LEMMA Built ==
    ASSUME NEW slot
    PROVE  \/ BuildTpdo(slot) = << >>
           \/ CanPack(slot.mapping) /\ BuildTpdo(slot) = << FrameOf(slot) >>
  BY Zenon DEF BuildTpdo, FrameOf

\* What sync_tpdos sends: frames of slots, and of none that does not pack.
LEMMA SyncSends ==
    ASSUME PdoInv, OnSync, NEW x \in DOMAIN out'
    PROVE  \E i \in DOMAIN tpdos : CanPack(tpdos[i].mapping) /\ out'[x] = FrameOf(tpdos[i])
<1> DEFINE n == Len(tpdos)
           S == {FrameOf(tpdos[i]) : i \in 1..n}
           one(i) == IF Synchronous(tpdos[i]) THEN BuildTpdo(tpdos[i]) ELSE <<>>
           seqs == [i \in 1..n |-> one(i)]
<1>1. tpdos = Configured(param, "tpdo")
  BY Zenon DEF PdoInv
<1>2. n \in Nat /\ DOMAIN tpdos = 1..n
  BY <1>1, SlotsFinished
<1>3. out' = IF PdoActive(nmt) THEN FlattenSeq(seqs) ELSE <<>>
  BY <1>2, Zenon DEF OnSync
<1>4. \A y \in S : <<y>> \in Seq(S) /\ \A z : In(z, <<y>>) <=> z = y
  BY DEF In
<1>5. <<>> \in Seq(S) /\ \A z : ~In(z, <<>>)
  BY DEF In
<1>6. ASSUME NEW i \in 1..n
      PROVE  /\ one(i) \in Seq(S)
             /\ \A z : In(z, one(i)) => CanPack(tpdos[i].mapping) /\ z = FrameOf(tpdos[i])
  <2>1. FrameOf(tpdos[i]) \in S
    BY Zenon
  <2>2. \/ one(i) = <<>>
        \/ CanPack(tpdos[i].mapping) /\ one(i) = <<FrameOf(tpdos[i])>>
    BY Built, Zenon
  <2> DEFINE f == FrameOf(tpdos[i])
             s == one(i)
  <2>3. f \in S /\ (s = <<>> \/ (CanPack(tpdos[i].mapping) /\ s = <<f>>))
    BY <2>1, <2>2, Zenon
  <2> HIDE DEF one, S, f, s
  <2>4. CASE s = <<>>
    <3>1. s \in Seq(S) /\ \A z : ~In(z, s)
      BY <1>5, <2>4, Zenon
    <3>2. QED
      BY <3>1, Zenon DEF s
  <2>5. CASE CanPack(tpdos[i].mapping) /\ s = <<f>>
    <3>1. s \in Seq(S) /\ \A z : In(z, s) <=> z = f
      BY <1>4, <2>3, <2>5, Zenon
    <3>2. QED
      BY <2>5, <3>1, Zenon DEF s, f
  <2>6. QED
    BY <2>3, <2>4, <2>5, Zenon
<1>7. \A i \in 1..n : seqs[i] = one(i)
  BY Zenon
<1>8. seqs \in [1..n -> Seq(S)]
  BY <1>6, Zenon
<1> HIDE DEF n, S, one, seqs
<1>9. seqs \in Seq(Seq(S)) /\ Len(seqs) = n
  BY <1>2, <1>8, Listed
<1>10. /\ FlattenSeq(seqs) \in Seq(S)
       /\ \A z : In(z, FlattenSeq(seqs)) <=> \E i \in 1..Len(seqs) : In(z, seqs[i])
  BY <1>9, FlattenedMembers
<1>11. PdoActive(nmt)
  BY <1>3
<1>12. out' = FlattenSeq(seqs)
  BY <1>3, <1>11, Zenon
<1>13. PICK flat \in Seq(S) : flat = FlattenSeq(seqs)
  BY <1>10
<1>14. x \in 1..Len(flat)
  BY <1>12, <1>13
<1>15. In(out'[x], FlattenSeq(seqs))
  BY <1>12, <1>13, <1>14, Zenon DEF In
<1>16. PICK i \in 1..n : In(out'[x], one(i))
  BY <1>7, <1>9, <1>10, <1>15, Zenon
<1>17. QED
  BY <1>2, <1>6, <1>16, Zenon

\* Every frame sent comes from an enabled TPDO and carries, field by field, what
\* the objects of the layout that the master finished for it hold at that moment
\* (sync_tpdos and tpdo through pack): for any TPDOs and layouts, those that fit
\* no frame and those that do not match their objects included.
THEOREM FramesSentAsIntended == Spec => FramesAsIntended
<1> DEFINE Step == \A i \in DOMAIN out' : \E p \in Pdos : SentBy(p, out'[i])
<1>1. PdoInv /\ DataInv /\ [Next]_vars => [Step]_vars
  <2> SUFFICES ASSUME PdoInv, DataInv, [Next]_vars PROVE Step \/ UNCHANGED vars
    OBVIOUS
  <2>1. CASE OnSync
    <3> SUFFICES ASSUME NEW x \in DOMAIN out' PROVE \E p \in Pdos : SentBy(p, out'[x])
      OBVIOUS
    <3>1. PICK i \in DOMAIN tpdos : CanPack(tpdos[i].mapping) /\ out'[x] = FrameOf(tpdos[i])
      BY <2>1, SyncSends
    <3>2. \E p \in Pdos : SentBy(p, FrameOf(tpdos[i]))
      BY <3>1, FrameAsIntended
    <3>3. QED
      BY <3>1, <3>2, Zenon
  <2>2. CASE OnDemand
    <3>1. PICK i \in DOMAIN tpdos : out' = BuildTpdo(tpdos[i])
      BY <2>2, Zenon DEF OnDemand
    <3>2. CASE out' = <<>>
      BY <3>2
    <3>3. CASE CanPack(tpdos[i].mapping) /\ out' = <<FrameOf(tpdos[i])>>
      <4>1. \E p \in Pdos : SentBy(p, FrameOf(tpdos[i]))
        BY <3>3, FrameAsIntended
      <4>2. \A x \in DOMAIN out' : out'[x] = FrameOf(tpdos[i])
        BY <3>3
      <4>3. QED
        BY <4>1, <4>2, Zenon
    <3>4. QED
      BY <3>1, <3>2, <3>3, Built, Zenon
  <2>3. CASE OnNmt \/ Boot \/ OnRpdo \/ Publish \/ StartJob \/ Configure \/ GiveUp
    <3>1. out' = <<>>
      BY <2>3, Zenon DEF OnNmt, Boot, OnRpdo, Publish, StartJob, Configure,
                         WriteParameter, GiveUp, Quiet
    <3>2. QED
      BY <3>1
  <2>4. QED
    BY <2>1, <2>2, <2>3 DEF Next
<1>2. FramesAsIntended <=> [][Step]_vars
  BY DEF FramesAsIntended
<1> HIDE DEF Step
<1>3. QED
  BY AlwaysDataInv, <1>1, <1>2, PTL DEF Spec
=============================================================================
