----------------------------- MODULE TextLemmas -----------------------------
(***************************************************************************)
(* Lemmas on natural numbers and sequences that the proofs about texts     *)
(* need: least and greatest elements, and induction over positions, stated *)
(* with sets so that it can be cited.                                      *)
(***************************************************************************)
EXTENDS Integers, SequencesExt, SequenceTheorems, WellFoundedInduction, TLAPS

LEMMA Least ==
  ASSUME NEW T \in SUBSET Nat, T # {}
  PROVE  Min(T) \in T /\ \A m \in T : Min(T) <= m
  <1> DEFINE R == OpToRel(<, Nat)
  <1>1. IsWellFoundedOn(R, Nat)
    BY NatLessThanWellFounded
  <1>2. \A m, n \in Nat : <<m, n>> \in R <=> m < n
    BY DEF OpToRel
  <1> HIDE DEF R
  <1>3. PICK n \in T : \A m \in T : <<m, n>> \notin R
    BY <1>1, WFMin
  <1>4. ASSUME NEW m \in T
        PROVE  n <= m
    <2>1. m \in Nat /\ n \in Nat
      OBVIOUS
    <2>2. ~(m < n)
      BY <1>2, <1>3, <2>1, Zenon
    <2>3. QED
      BY <2>1, <2>2
  <1>5. QED
    BY <1>4 DEF Min

LEMMA Greatest ==
  ASSUME NEW T \in SUBSET Nat, T # {}, NEW n \in Nat, \A m \in T : m <= n
  PROVE  Max(T) \in T /\ \A m \in T : m <= Max(T)
  <1> DEFINE D == {k \in 0..n : n - k \in T}
  <1>1. D \in SUBSET Nat /\ D # {}
    <2>1. PICK m \in T : m \in Nat /\ m <= n
      OBVIOUS
    <2>2. n - m \in 0..n /\ n - (n - m) = m
      BY <2>1
    <2>3. n - m \in D
      BY <2>2
    <2>4. D \in SUBSET Nat
      OBVIOUS
    <2> HIDE DEF D
    <2>5. QED
      BY <2>3, <2>4
  <1>2. Min(D) \in D /\ \A k \in D : Min(D) <= k
    BY <1>1, Least
  <1>3. n - Min(D) \in T
    BY <1>2
  <1>4. ASSUME NEW m \in T
        PROVE  m <= n - Min(D)
    <2>1. m \in Nat /\ m <= n
      OBVIOUS
    <2>2. n - m \in 0..n /\ n - (n - m) = m
      BY <2>1
    <2>3. n - m \in D
      BY <2>2
    <2>4. QED
      BY <1>2, <2>1, <2>3
  <1> HIDE DEF D
  <1>5. \A m \in T : n - Min(D) >= m
    BY <1>3, <1>4
  <1>6. QED
    BY <1>3, <1>5 DEF Max

LEMMA Induction ==
  ASSUME NEW n \in Nat, NEW T, 0 \in T, \A k \in 0..(n - 1) : k \in T => k + 1 \in T
  PROVE  \A k \in 0..n : k \in T
  <1> DEFINE D == {k \in 0..n : k \notin T}
  <1>1. SUFFICES ASSUME D # {}
                 PROVE  FALSE
    OBVIOUS
  <1>2. Min(D) \in D /\ \A k \in D : Min(D) <= k
    BY <1>1, Least
  <1> DEFINE m == Min(D)
  <1>3. m \in 0..n /\ m \notin T
    BY <1>2
  <1> HIDE DEF m
  <1>4. m # 0 /\ m - 1 \in 0..(n - 1) /\ (m - 1) + 1 = m
    BY <1>3
  <1>5. m - 1 \in T
    BY <1>2, <1>4 DEF m
  <1>6. QED
    BY <1>3, <1>4, <1>5

\* A function may be defined by saying how each value follows from those before.
LooksBack(step, n, S) ==
    \A k \in 0..n : \A f, g \in [0..n -> S] :
        (\A j \in 0..(k - 1) : f[j] = g[j]) => step[k][f] = step[k][g]

Follows(f, step, n) == \A k \in 0..n : f[k] = step[k][f]

LEMMA Recursion ==
  ASSUME NEW n \in Nat, NEW S, S # {}, NEW step \in [0..n -> [[0..n -> S] -> S]],
         LooksBack(step, n, S)
  PROVE  \E f \in [0..n -> S] : Follows(f, step, n)
  <1> DEFINE T == {m \in 0..(n + 1) : \E f \in [0..n -> S] :
                                         \A k \in 0..(m - 1) : f[k] = step[k][f]}
  <1>1. 0 \in T
    <2>1. PICK v \in S : TRUE
      OBVIOUS
    <2>2. [k \in 0..n |-> v] \in [0..n -> S]
      OBVIOUS
    <2>3. \A k \in 0..(0 - 1) : FALSE
      OBVIOUS
    <2>4. 0 \in 0..(n + 1)
      OBVIOUS
    <2>5. QED
      BY <2>2, <2>3, <2>4
  <1>2. ASSUME NEW m \in 0..((n + 1) - 1), m \in T
        PROVE  m + 1 \in T
    <2>1. PICK f \in [0..n -> S] : \A k \in 0..(m - 1) : f[k] = step[k][f]
      BY <1>2
    <2> DEFINE g == [f EXCEPT ![m] = step[m][f]]
    <2>2. m \in 0..n
      OBVIOUS
    <2>3. g \in [0..n -> S]
      BY <2>2
    <2>4. g[m] = step[m][f] /\ \A k \in 0..n : k # m => g[k] = f[k]
      BY <2>2
    <2> HIDE DEF g
    <2>5. ASSUME NEW k \in 0..m
          PROVE  g[k] = step[k][g]
      <3>1. k \in 0..n /\ \A j \in 0..(k - 1) : j \in 0..n /\ j # m
        BY <2>2
      <3>2. step[k][f] = step[k][g]
        BY <2>3, <2>4, <3>1 DEF LooksBack
      <3>3. CASE k = m
        BY <2>4, <3>2, <3>3
      <3>4. CASE k # m
        <4>1. k \in 0..(m - 1)
          BY <3>4
        <4>2. QED
          BY <2>1, <2>4, <3>1, <3>2, <3>4, <4>1
      <3>5. QED
        BY <3>3, <3>4
    <2>6. m + 1 \in 0..(n + 1) /\ (m + 1) - 1 = m
      BY <2>2
    <2>7. QED
      BY <2>3, <2>5, <2>6
  <1>3. n + 1 \in T
    <2>1. n + 1 \in Nat /\ n + 1 \in 0..(n + 1)
      OBVIOUS
    <2> HIDE DEF T
    <2>2. QED
      BY <1>1, <1>2, <2>1, Induction
  <1>4. (n + 1) - 1 = n
    OBVIOUS
  <1>5. QED
    BY <1>3, <1>4 DEF Follows

-----------------------------------------------------------------------------
(* Texts *)

LEMMA Part ==
  ASSUME NEW text \in Seq(Nat), NEW i \in 1..(Len(text) + 1), NEW j \in (i - 1)..Len(text)
  PROVE  /\ SubSeq(text, i, j) \in Seq(Nat)
         /\ Len(SubSeq(text, i, j)) = j - i + 1
         /\ \A k \in 1..(j - i + 1) : SubSeq(text, i, j)[k] = text[i + k - 1]
  <1>1. \A k \in i..j : text[k] \in Nat
    OBVIOUS
  <1>2. CASE i <= j
    BY <1>1, <1>2, SubSeqProperties
  <1>3. CASE j < i
    BY <1>1, <1>3, SubSeqProperties
  <1>4. QED
    BY <1>2, <1>3

\* One text behind another.
LEMMA Joined ==
  ASSUME NEW s \in Seq(Nat), NEW t \in Seq(Nat)
  PROVE  /\ s \o t \in Seq(Nat) /\ Len(s \o t) = Len(s) + Len(t)
         /\ \A j \in 1..Len(s) : (s \o t)[j] = s[j]
         /\ \A j \in 1..Len(t) : (s \o t)[Len(s) + j] = t[j]
  OBVIOUS

LEMMA JoinedWithout ==
  ASSUME NEW s \in Seq(Nat), NEW t \in Seq(Nat), NEW c,
         \A j \in 1..Len(s) : s[j] # c, \A j \in 1..Len(t) : t[j] # c
  PROVE  \A j \in 1..Len(s \o t) : (s \o t)[j] # c
  <1>1. Len(s) \in Nat /\ Len(t) \in Nat
    OBVIOUS
  <1>2. ASSUME NEW j \in 1..Len(s \o t)
        PROVE  (s \o t)[j] # c
    <2>1. CASE j <= Len(s)
      BY <1>1, <2>1, Joined
    <2>2. CASE j > Len(s)
      <3>1. j - Len(s) \in 1..Len(t) /\ Len(s) + (j - Len(s)) = j
        BY <1>1, <2>2, Joined
      <3>2. (s \o t)[j] = t[j - Len(s)]
        BY <3>1, Joined
      <3>3. QED
        BY <3>1, <3>2
    <2>3. QED
      BY <1>1, <2>1, <2>2, Joined
  <1>3. QED
    BY <1>2

\* What FlattenSeq computes, piece after piece.
LEMMA Flatten ==
  ASSUME NEW n \in Nat, NEW pieces \in [1..n -> Seq(Nat)]
  PROVE  \E f \in [0..n -> Seq(Nat)] : /\ f[0] = <<>>
                                       /\ \A k \in 1..n : f[k] = f[k - 1] \o pieces[k]
                                       /\ FlattenSeq(pieces) = f[n]
  <1> DEFINE Fs == [0..n -> Seq(Nat)]
             step == [k \in 0..n |-> [f \in Fs |-> IF k = 0 THEN <<>> ELSE f[k - 1] \o pieces[k]]]
  <1>1. \A k \in 0..n, f \in Fs : step[k][f] = IF k = 0 THEN <<>> ELSE f[k - 1] \o pieces[k]
    OBVIOUS
  <1>2. \A k \in 1..n : k \in 0..n /\ k - 1 \in 0..n /\ k - 1 \in 0..(k - 1) /\ k # 0
    OBVIOUS
  <1>3. \A k \in 0..n : k = 0 \/ k \in 1..n
    OBVIOUS
  <1>4. step \in [0..n -> [Fs -> Seq(Nat)]]
    <2>1. ASSUME NEW k \in 0..n, NEW f \in Fs
          PROVE  (IF k = 0 THEN <<>> ELSE f[k - 1] \o pieces[k]) \in Seq(Nat)
      <3>1. CASE k = 0
        BY <3>1
      <3>2. CASE k # 0
        <4>1. f[k - 1] \in Seq(Nat) /\ pieces[k] \in Seq(Nat)
          BY <1>2, <1>3, <3>2
        <4>2. QED
          BY <3>2, <4>1
      <3>3. QED
        BY <3>1, <3>2
    <2>2. QED
      BY <2>1
  <1>5. ASSUME NEW k \in 0..n, NEW f \in Fs, NEW g \in Fs, \A j \in 0..(k - 1) : f[j] = g[j]
        PROVE  step[k][f] = step[k][g]
    BY <1>1, <1>2, <1>3, <1>5
  <1> HIDE DEF step
  <1>6. PICK f \in Fs : \A k \in 0..n : f[k] = step[k][f]
    <2> DEFINE S == Seq(Nat)
    <2>1. S # {}
      OBVIOUS
    <2>2. LooksBack(step, n, S)
      BY <1>5 DEF LooksBack
    <2>3. step \in [0..n -> [[0..n -> S] -> S]]
      BY <1>4
    <2> HIDE DEF S
    <2>4. \E f \in [0..n -> S] : Follows(f, step, n)
      BY <2>1, <2>2, <2>3, Recursion
    <2>5. QED
      BY <2>4 DEF S, Follows
  <1>7. f[0] = <<>> /\ \A k \in 1..n : f[k] = f[k - 1] \o pieces[k]
    <2>1. 0 \in 0..n
      OBVIOUS
    <2>2. QED
      BY <1>1, <1>2, <1>6, <2>1
  <1>8. n # 0 => f[1] = pieces[1]
    <2>1. n # 0 => 1 \in 1..n /\ 1 - 1 = 0
      OBVIOUS
    <2>2. n # 0 => f[1] = <<>> \o pieces[1] /\ pieces[1] \in Seq(Nat)
      BY <1>7, <2>1
    <2>3. QED
      BY <2>2
  <1>9. pieces \in Seq(Seq(Nat)) /\ Len(pieces) = n
    OBVIOUS
  <1>10. CASE n = 0
    <2>1. pieces = <<>>
      BY <1>9, <1>10
    <2>2. QED
      BY <1>7, <1>9, <1>10, <2>1 DEF FlattenSeq
  <1>11. CASE n # 0
    <2> DEFINE h == [i \in 1..n |-> f[i]]
               flatten == CHOOSE c : c = [i \in 1..n |-> IF i = 1 THEN pieces[i]
                                                         ELSE c[i - 1] \o pieces[i]]
               T == {k \in 0..n : k = 0 \/ flatten[k] = f[k]}
    <2>1. h = [i \in 1..n |-> IF i = 1 THEN pieces[i] ELSE h[i - 1] \o pieces[i]]
      <3>1. ASSUME NEW i \in 1..n
            PROVE  f[i] = IF i = 1 THEN pieces[i] ELSE h[i - 1] \o pieces[i]
        <4>1. CASE i = 1
          BY <1>8, <1>11, <4>1
        <4>2. CASE i # 1
          <5>1. i - 1 \in 1..n
            BY <4>2
          <5>2. QED
            BY <1>7, <4>2, <5>1
        <4>3. QED
          BY <4>1, <4>2
      <3>2. QED
        BY <3>1
    <2> HIDE DEF h
    <2>2. flatten = [i \in 1..n |-> IF i = 1 THEN pieces[i] ELSE flatten[i - 1] \o pieces[i]]
      BY <2>1
    <2>3. FlattenSeq(pieces) = flatten[n]
      BY <1>9, <1>11 DEF FlattenSeq
    <2> HIDE DEF flatten
    <2>4. 0 \in T
      OBVIOUS
    <2>5. ASSUME NEW k \in 0..(n - 1), k \in T
          PROVE  k + 1 \in T
      <3>1. k + 1 \in 1..n /\ k + 1 \in 0..n /\ (k + 1) - 1 = k
        OBVIOUS
      <3>2. f[k + 1] = f[k] \o pieces[k + 1]
        BY <1>7, <3>1
      <3>3. CASE k = 0
        <4>1. flatten[1] = pieces[1]
          BY <2>2, <3>1, <3>3
        <4>2. QED
          BY <1>8, <1>11, <3>1, <3>3, <4>1
      <3>4. CASE k # 0
        <4>1. flatten[k] = f[k] /\ k + 1 # 1
          BY <2>5, <3>4
        <4>2. flatten[k + 1] = flatten[k] \o pieces[k + 1]
          BY <2>2, <3>1, <4>1
        <4>3. QED
          BY <3>1, <3>2, <4>1, <4>2
      <3>5. QED
        BY <3>3, <3>4
    <2> HIDE DEF T
    <2>6. \A k \in 0..n : k \in T
      BY <2>4, <2>5, Induction
    <2>7. flatten[n] = f[n]
      <3>1. n \in 0..n
        OBVIOUS
      <3>2. QED
        BY <1>11, <2>6, <3>1 DEF T
    <2>8. QED
      BY <1>7, <2>3, <2>7
  <1>12. QED
    BY <1>10, <1>11

\* Where the pieces are in what they are put together to.
LEMMA WherePiecesAre ==
  ASSUME NEW n \in Nat, NEW pieces \in [1..n -> Seq(Nat)], NEW f \in [0..n -> Seq(Nat)],
         \A k \in 1..n : f[k] = f[k - 1] \o pieces[k]
  PROVE  \A k \in 1..n : /\ Len(f[k]) = Len(f[k - 1]) + Len(pieces[k])
                         /\ Len(f[k]) <= Len(f[n])
                         /\ \A j \in 1..Len(pieces[k]) : f[n][Len(f[k - 1]) + j] = pieces[k][j]
  <1>1. ASSUME NEW k \in 1..n
        PROVE  /\ f[k - 1] \in Seq(Nat) /\ f[k] \in Seq(Nat) /\ pieces[k] \in Seq(Nat)
               /\ Len(f[k]) = Len(f[k - 1]) + Len(pieces[k])
               /\ \A j \in 1..Len(f[k - 1]) : f[k][j] = f[k - 1][j]
               /\ \A j \in 1..Len(pieces[k]) : f[k][Len(f[k - 1]) + j] = pieces[k][j]
    <2> DEFINE s == f[k - 1]
               t == pieces[k]
    <2>1. k - 1 \in 0..n /\ k \in 0..n
      OBVIOUS
    <2>2. s \in Seq(Nat) /\ t \in Seq(Nat) /\ f[k] \in Seq(Nat)
      BY <2>1
    <2>3. f[k] = s \o t
      OBVIOUS
    <2> HIDE DEF s, t
    <2>4. /\ Len(s \o t) = Len(s) + Len(t)
          /\ \A j \in 1..Len(s) : (s \o t)[j] = s[j]
          /\ \A j \in 1..Len(t) : (s \o t)[Len(s) + j] = t[j]
      BY <2>2
    <2>5. QED
      BY <2>2, <2>3, <2>4 DEF s, t
  <1> DEFINE Begins(m) == /\ Len(f[n - m]) <= Len(f[n])
                          /\ \A j \in 1..Len(f[n - m]) : f[n][j] = f[n - m][j]
             T == {m \in 0..n : Begins(m)}
  <1>2. 0 \in T
    <2>1. n - 0 = n /\ n \in 0..n /\ 0 \in 0..n
      OBVIOUS
    <2>2. Len(f[n]) \in Nat
      BY <2>1
    <2>3. QED
      BY <2>1, <2>2
  <1>3. ASSUME NEW m \in 0..(n - 1), m \in T
        PROVE  m + 1 \in T
    <2> DEFINE k == n - m
    <2>1. k \in 1..n /\ n - (m + 1) = k - 1 /\ m + 1 \in 0..n /\ n \in 0..n
      OBVIOUS
    <2>2. /\ Len(f[k]) <= Len(f[n])
          /\ \A j \in 1..Len(f[k]) : f[n][j] = f[k][j]
      BY <1>3
    <2> HIDE DEF k
    <2>3. Len(f[k - 1]) \in Nat /\ Len(pieces[k]) \in Nat /\ Len(f[n]) \in Nat
      BY <1>1, <2>1
    <2>4. Len(f[k - 1]) <= Len(f[n])
      BY <1>1, <2>1, <2>2, <2>3
    <2>5. ASSUME NEW j \in 1..Len(f[k - 1])
          PROVE  f[n][j] = f[k - 1][j]
      <3>1. j \in 1..Len(f[k])
        BY <1>1, <2>1, <2>3
      <3>2. QED
        BY <1>1, <2>1, <2>2, <3>1
    <2>6. Begins(m + 1)
      BY <2>1, <2>4, <2>5
    <2>7. QED
      BY <2>1, <2>6
  <1> HIDE DEF T
  <1>4. \A m \in 0..n : m \in T
    BY <1>2, <1>3, Induction
  <1>5. TAKE k \in 1..n
  <1>6. n - k \in 0..n /\ n - (n - k) = k
    OBVIOUS
  <1>7. /\ Len(f[k]) <= Len(f[n])
        /\ \A j \in 1..Len(f[k]) : f[n][j] = f[k][j]
    BY <1>4, <1>6 DEF T
  <1>8. ASSUME NEW j \in 1..Len(pieces[k])
        PROVE  f[n][Len(f[k - 1]) + j] = pieces[k][j]
    <2>1. Len(f[k - 1]) \in Nat /\ Len(pieces[k]) \in Nat
      BY <1>1
    <2>2. Len(f[k - 1]) + j \in 1..Len(f[k])
      BY <1>1, <2>1
    <2>3. QED
      BY <1>1, <1>7, <2>2
  <1>9. QED
    BY <1>1, <1>7, <1>8

LEMMA HeadAndTail ==
  ASSUME NEW text \in Seq(Nat), NEW k \in 1..Len(text)
  PROVE  <<text[k]>> \o SubSeq(text, k + 1, Len(text)) = SubSeq(text, k, Len(text))
  <1> DEFINE n == Len(text)
             m == k + 1
             s == SubSeq(text, m, n)
             t == SubSeq(text, k, n)
  <1>1. /\ m \in 1..(n + 1) /\ n \in (m - 1)..n /\ n - m + 1 = n - k /\ n - k \in Nat
        /\ k \in 1..(n + 1) /\ n \in (k - 1)..n
    OBVIOUS
  <1>2. \A j \in 1..(n - k) : m + j - 1 = k + j
    OBVIOUS
  <1>3. text[k] \in Nat
    OBVIOUS
  <1> HIDE DEF n, m
  <1>4. /\ s \in Seq(Nat) /\ Len(s) = n - k
        /\ \A j \in 1..(n - k) : s[j] = text[k + j]
    <2>1. /\ s \in Seq(Nat) /\ Len(s) = n - m + 1
          /\ \A j \in 1..(n - m + 1) : s[j] = text[m + j - 1]
      BY <1>1, Part DEF n
    <2>2. QED
      BY <1>1, <1>2, <2>1
  <1>5. /\ t \in Seq(Nat) /\ Len(t) = n - k + 1
        /\ \A j \in 1..(n - k + 1) : t[j] = text[k + j - 1]
    BY <1>1, Part DEF n
  <1> HIDE DEF s, t
  <1>6. /\ <<text[k]>> \o s \in Seq(Nat) /\ Len(<<text[k]>> \o s) = n - k + 1
        /\ (<<text[k]>> \o s)[1] = text[k]
        /\ \A j \in 2..(n - k + 1) : (<<text[k]>> \o s)[j] = s[j - 1]
    BY <1>1, <1>3, <1>4
  <1>7. ASSUME NEW j \in 1..(n - k + 1)
        PROVE  (<<text[k]>> \o s)[j] = t[j]
    <2>1. CASE j = 1
      BY <1>5, <1>6, <2>1
    <2>2. CASE j # 1
      <3>1. j \in 2..(n - k + 1) /\ j - 1 \in 1..(n - k) /\ k + (j - 1) = k + j - 1
        BY <1>1, <2>2
      <3>2. QED
        BY <1>4, <1>5, <1>6, <3>1
    <2>3. QED
      BY <2>1, <2>2
  <1>8. <<text[k]>> \o s = t
    BY <1>5, <1>6, <1>7, SeqEqual
  <1>9. QED
    BY <1>8 DEF s, t, m, n
=============================================================================
