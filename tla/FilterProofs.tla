---------------------------- MODULE FilterProofs ----------------------------
(***************************************************************************)
(* Proofs about the word filter for every text SetFilterFromCsv can be     *)
(* given: what its loop over the characters finds are the words that stand *)
(* in the list by themselves.                                              *)
(***************************************************************************)
EXTENDS Parsing, TextLemmas, TLAPS

-----------------------------------------------------------------------------
(* Items by their places *)

Commas(csv, n) == {k \in 1..n : csv[k] = Comma}

\* The edge at which the item begins that is being read after n characters.
LastEdge(csv, n) == Max({0} \cup Commas(csv, n))

\* The item that the edge at b ends.
ItemBefore(csv, b) == SubSeq(csv, LastEdge(csv, b - 1) + 1, b - 1)

\* What has been read after n characters, without the characters before.
Read(csv, n) == [done |-> {ItemBefore(csv, b) : b \in Commas(csv, n)},
                 item |-> SubSeq(csv, LastEdge(csv, n) + 1, n)]

LEMMA LastEdgeIs ==
  ASSUME NEW csv \in Seq(Nat), NEW n \in 0..Len(csv)
  PROVE  /\ LastEdge(csv, n) \in 0..n
         /\ LastEdge(csv, n) # 0 => csv[LastEdge(csv, n)] = Comma
         /\ \A k \in (LastEdge(csv, n) + 1)..n : csv[k] # Comma
  <1> DEFINE edges == {0} \cup Commas(csv, n)
  <1>1. /\ edges \in SUBSET Nat /\ edges # {}
        /\ \A k \in edges : k \in 0..n /\ (k # 0 => csv[k] = Comma)
        /\ \A k \in 1..n : csv[k] = Comma => k \in edges
    BY DEF Commas
  <1> HIDE DEF edges
  <1> DEFINE e == Max(edges)
  <1>2. e \in edges /\ \A k \in edges : k <= e
    <2>1. n \in Nat /\ \A k \in edges : k <= n
      BY <1>1
    <2>2. QED
      BY <1>1, <2>1, Greatest
  <1>3. LastEdge(csv, n) = e
    BY DEF LastEdge, edges
  <1> HIDE DEF e
  <1>4. ASSUME NEW k \in (e + 1)..n
        PROVE  csv[k] # Comma
    <2>1. e \in 0..n
      BY <1>1, <1>2
    <2>2. k \in 1..n /\ ~(k <= e)
      BY <2>1
    <2>3. QED
      BY <1>1, <1>2, <2>2
  <1>5. QED
    BY <1>1, <1>2, <1>3, <1>4

\* There is only one such edge.
LEMMA LastEdgeOnly ==
  ASSUME NEW csv \in Seq(Nat), NEW n \in 0..Len(csv), NEW a \in 0..n,
         a # 0 => csv[a] = Comma, \A k \in (a + 1)..n : csv[k] # Comma
  PROVE  LastEdge(csv, n) = a
  <1> DEFINE e == LastEdge(csv, n)
  <1>1. /\ e \in 0..n
        /\ e # 0 => csv[e] = Comma
        /\ \A k \in (e + 1)..n : csv[k] # Comma
    BY LastEdgeIs
  <1> HIDE DEF e
  <1>2. ~(e < a)
    <2>1. e < a => a \in (e + 1)..n /\ a # 0
      BY <1>1
    <2>2. QED
      BY <1>1, <2>1
  <1>3. ~(a < e)
    <2>1. a < e => e \in (a + 1)..n /\ e # 0
      BY <1>1
    <2>2. QED
      BY <1>1, <2>1
  <1>4. QED
    BY <1>1, <1>2, <1>3 DEF e

-----------------------------------------------------------------------------
(* The loop over the characters *)

LEMMA ReadFirst ==
  ASSUME NEW csv \in Seq(Nat)
  PROVE  Read(csv, 0) = [done |-> {}, item |-> <<>>]
  <1>1. Commas(csv, 0) = {}
    BY DEF Commas
  <1>2. LastEdge(csv, 0) = 0
    <2>1. 0 \in 0..Len(csv)
      OBVIOUS
    <2>2. LastEdge(csv, 0) \in 0..0
      BY <2>1, LastEdgeIs
    <2>3. QED
      BY <2>2
  <1>3. SubSeq(csv, LastEdge(csv, 0) + 1, 0) = <<>>
    <2>1. LastEdge(csv, 0) + 1 = 1
      BY <1>2
    <2>2. SubSeq(csv, 1, 0) = <<>>
      BY Part
    <2>3. QED
      BY <2>1, <2>2
  <1>4. {ItemBefore(csv, b) : b \in Commas(csv, 0)} = {}
    BY <1>1
  <1>5. QED
    BY <1>3, <1>4 DEF Read

LEMMA ReadComma ==
  ASSUME NEW csv \in Seq(Nat), NEW n \in 1..Len(csv), csv[n] = Comma
  PROVE  Read(csv, n) = [done |-> Read(csv, n - 1).done \cup {Read(csv, n - 1).item},
                         item |-> <<>>]
  <1>1. Commas(csv, n) = Commas(csv, n - 1) \cup {n}
    BY DEF Commas
  <1>2. LastEdge(csv, n) = n
    BY LastEdgeOnly
  <1>3. SubSeq(csv, n + 1, n) = <<>>
    BY Part
  <1>4. Read(csv, n - 1).item = ItemBefore(csv, n)
    BY DEF Read, ItemBefore
  <1>5. {ItemBefore(csv, b) : b \in Commas(csv, n)}
           = {ItemBefore(csv, b) : b \in Commas(csv, n - 1)} \cup {ItemBefore(csv, n)}
    BY <1>1
  <1>6. QED
    BY <1>2, <1>3, <1>4, <1>5 DEF Read

LEMMA ReadOther ==
  ASSUME NEW csv \in Seq(Nat), NEW n \in 1..Len(csv), csv[n] # Comma
  PROVE  Read(csv, n) = [done |-> Read(csv, n - 1).done,
                         item |-> Append(Read(csv, n - 1).item, csv[n])]
  <1> DEFINE a == LastEdge(csv, n - 1)
             s == SubSeq(csv, a + 1, n - 1)
             t == SubSeq(csv, a + 1, n)
  <1>1. n - 1 \in 0..Len(csv)
    OBVIOUS
  <1>2. /\ a \in 0..(n - 1)
        /\ a # 0 => csv[a] = Comma
        /\ \A k \in (a + 1)..(n - 1) : csv[k] # Comma
    BY <1>1, LastEdgeIs
  <1> HIDE DEF a
  <1>3. Commas(csv, n) = Commas(csv, n - 1)
    BY DEF Commas
  <1>4. LastEdge(csv, n) = a
    <2>1. a \in 0..n /\ \A k \in (a + 1)..n : csv[k] # Comma
      BY <1>2
    <2>2. QED
      BY <1>2, <2>1, LastEdgeOnly
  <1>5. /\ s \in Seq(Nat) /\ Len(s) = n - 1 - a
        /\ \A k \in 1..(n - 1 - a) : s[k] = csv[a + 1 + k - 1]
    BY <1>2, Part
  <1>6. /\ t \in Seq(Nat) /\ Len(t) = n - a
        /\ \A k \in 1..(n - a) : t[k] = csv[a + 1 + k - 1]
    BY <1>2, Part
  <1>7. csv[n] \in Nat
    OBVIOUS
  <1>8. Append(s, csv[n]) = t
    <2> HIDE DEF s, t
    <2>1. /\ Append(s, csv[n]) \in Seq(Nat)
          /\ Len(Append(s, csv[n])) = n - a
      BY <1>2, <1>5, <1>7
    <2>2. ASSUME NEW k \in 1..(n - a)
          PROVE  Append(s, csv[n])[k] = t[k]
      <3>1. CASE k = n - a
        <4>1. Append(s, csv[n])[k] = csv[n]
          BY <1>2, <1>5, <1>7, <3>1
        <4>2. a + 1 + k - 1 = n
          BY <1>2, <3>1
        <4>3. QED
          BY <1>6, <4>1, <4>2
      <3>2. CASE k # n - a
        <4>1. k \in 1..(n - 1 - a)
          BY <1>2, <3>2
        <4>2. Append(s, csv[n])[k] = s[k]
          BY <1>5, <1>7, <4>1
        <4>3. QED
          BY <1>5, <1>6, <4>1, <4>2
      <3>3. QED
        BY <3>1, <3>2
    <2>3. QED
      BY <1>6, <2>1, <2>2, SeqEqual
  <1>9. QED
    BY <1>3, <1>4, <1>8 DEF Read, a

\* The loop computes just that.
LEMMA ReadingIs ==
  ASSUME NEW csv \in Seq(Nat)
  PROVE  \A n \in 0..Len(csv) : Reading(csv)[n] = Read(csv, n)
  <1> DEFINE f == [n \in 0..Len(csv) |-> Read(csv, n)]
  <1>1. f = [n \in 0..Len(csv) |->
               IF n = 0 THEN [done |-> {}, item |-> <<>>]
               ELSE IF csv[n] = Comma
                    THEN [done |-> f[n - 1].done \cup {f[n - 1].item}, item |-> <<>>]
                    ELSE [done |-> f[n - 1].done, item |-> Append(f[n - 1].item, csv[n])]]
    <2>1. ASSUME NEW n \in 0..Len(csv)
          PROVE  f[n] = IF n = 0 THEN [done |-> {}, item |-> <<>>]
                        ELSE IF csv[n] = Comma
                             THEN [done |-> f[n - 1].done \cup {f[n - 1].item}, item |-> <<>>]
                             ELSE [done |-> f[n - 1].done,
                                   item |-> Append(f[n - 1].item, csv[n])]
      <3>1. CASE n = 0
        BY <3>1, ReadFirst
      <3>2. CASE n # 0
        <4>1. n \in 1..Len(csv) /\ f[n - 1] = Read(csv, n - 1)
          BY <3>2
        <4>2. QED
          BY <3>2, <4>1, ReadComma, ReadOther
      <3>3. QED
        BY <3>1, <3>2
    <2>2. QED
      BY <2>1
  <1> HIDE DEF f
  <1>2. Reading(csv) =
           [n \in 0..Len(csv) |->
               IF n = 0 THEN [done |-> {}, item |-> <<>>]
               ELSE IF csv[n] = Comma
                    THEN [done |-> Reading(csv)[n - 1].done \cup {Reading(csv)[n - 1].item},
                          item |-> <<>>]
                    ELSE [done |-> Reading(csv)[n - 1].done,
                          item |-> Append(Reading(csv)[n - 1].item, csv[n])]]
    BY <1>1 DEF Reading
  <1> DEFINE T == {n \in 0..Len(csv) : Reading(csv)[n] = Read(csv, n)}
  <1>3. 0 \in T
    BY <1>2, ReadFirst
  <1>4. ASSUME NEW n \in 0..(Len(csv) - 1), n \in T
        PROVE  n + 1 \in T
    <2>1. /\ n + 1 \in 1..Len(csv) /\ n + 1 \in 0..Len(csv) /\ n + 1 # 0
          /\ (n + 1) - 1 = n
      OBVIOUS
    <2>2. Reading(csv)[n] = Read(csv, n)
      BY <1>4
    <2>3. Reading(csv)[n + 1] =
             IF csv[n + 1] = Comma
             THEN [done |-> Read(csv, n).done \cup {Read(csv, n).item}, item |-> <<>>]
             ELSE [done |-> Read(csv, n).done, item |-> Append(Read(csv, n).item, csv[n + 1])]
      BY <1>2, <2>1, <2>2
    <2>4. Reading(csv)[n + 1] = Read(csv, n + 1)
      BY <2>1, <2>3, ReadComma, ReadOther
    <2>5. QED
      BY <2>1, <2>4
  <1> HIDE DEF T
  <1>5. \A n \in 0..Len(csv) : n \in T
    <2>1. Len(csv) \in Nat
      OBVIOUS
    <2>2. QED
      BY <1>3, <1>4, <2>1, Induction
  <1>6. QED
    BY <1>5 DEF T

-----------------------------------------------------------------------------
(* What trim_copy leaves *)

Solid(s) == {k \in 1..Len(s) : ~IsSpace(s[k])}

LEMMA TrimIs ==
  ASSUME NEW s \in Seq(Nat)
  PROVE  /\ Solid(s) = {} => TrimCopy(s) = <<>>
         /\ Solid(s) # {} =>
               \E i, j \in Solid(s) : /\ TrimCopy(s) = SubSeq(s, i, j)
                                      /\ \A k \in Solid(s) : i <= k /\ k <= j
  <1>1. Solid(s) = {} => TrimCopy(s) = <<>>
    BY DEF TrimCopy, Solid
  <1>2. ASSUME Solid(s) # {}
        PROVE  \E i, j \in Solid(s) : /\ TrimCopy(s) = SubSeq(s, i, j)
                                      /\ \A k \in Solid(s) : i <= k /\ k <= j
    <2>1. /\ Solid(s) \in SUBSET Nat /\ Len(s) \in Nat
          /\ \A k \in Solid(s) : k <= Len(s)
      BY DEF Solid
    <2>2. Min(Solid(s)) \in Solid(s) /\ \A k \in Solid(s) : Min(Solid(s)) <= k
      BY <1>2, <2>1, Least
    <2>3. Max(Solid(s)) \in Solid(s) /\ \A k \in Solid(s) : k <= Max(Solid(s))
      BY <1>2, <2>1, Greatest
    <2>4. TrimCopy(s) = SubSeq(s, Min(Solid(s)), Max(Solid(s)))
      BY <1>2 DEF TrimCopy, Solid
    <2>5. QED
      BY <2>2, <2>3, <2>4
  <1>3. QED
    BY <1>1, <1>2

\* The places where an item ends.
Ends(csv) == Commas(csv, Len(csv)) \cup {Len(csv) + 1}

LEMMA FilterOfIs ==
  ASSUME NEW csv \in Seq(Nat)
  PROVE  FilterOf(csv) = {TrimCopy(ItemBefore(csv, b)) : b \in Ends(csv)} \ {<<>>}
  <1> DEFINE last == ItemBefore(csv, Len(csv) + 1)
             read == {ItemBefore(csv, b) : b \in Commas(csv, Len(csv))}
  <1>1. Reading(csv)[Len(csv)] = [done |-> read, item |-> last]
    <2>1. Len(csv) \in 0..Len(csv) /\ (Len(csv) + 1) - 1 = Len(csv)
      OBVIOUS
    <2>2. QED
      BY <2>1, ReadingIs DEF Read, ItemBefore
  <1>2. {ItemBefore(csv, b) : b \in Ends(csv)} = read \cup {last}
    BY DEF Ends
  <1> HIDE DEF read, last
  <1>3. Items(csv) = IF last = <<>> THEN read ELSE read \cup {last}
    BY <1>1 DEF Items
  <1>4. TrimCopy(<<>>) = <<>>
    <2>1. Solid(<<>>) = {} /\ <<>> \in Seq(Nat)
      BY DEF Solid
    <2>2. QED
      BY <2>1, TrimIs
  <1>5. FilterOf(csv) = {TrimCopy(item) : item \in read \cup {last}} \ {<<>>}
    BY <1>3, <1>4 DEF FilterOf
  <1>6. {TrimCopy(item) : item \in read \cup {last}}
           = {TrimCopy(ItemBefore(csv, b)) : b \in Ends(csv)}
    BY <1>2
  <1>7. QED
    BY <1>5, <1>6

\* What an item is, by the edges around it.
LEMMA ItemIs ==
  ASSUME NEW csv \in Seq(Nat), NEW b \in Ends(csv)
  PROVE  LET a == LastEdge(csv, b - 1)
             item == ItemBefore(csv, b)
         IN  /\ b \in 1..(Len(csv) + 1) /\ Edge(csv, b)
             /\ a \in 0..(b - 1) /\ Edge(csv, a)
             /\ \A k \in (a + 1)..(b - 1) : csv[k] # Comma
             /\ item \in Seq(Nat) /\ Len(item) = b - 1 - a
             /\ \A k \in 1..(b - 1 - a) : item[k] = csv[a + k]
  <1> DEFINE a == LastEdge(csv, b - 1)
             item == ItemBefore(csv, b)
  <1>1. b \in 1..(Len(csv) + 1) /\ Edge(csv, b)
    BY DEF Ends, Commas, Edge
  <1>2. b - 1 \in 0..Len(csv)
    BY <1>1
  <1>3. /\ a \in 0..(b - 1)
        /\ a # 0 => csv[a] = Comma
        /\ \A k \in (a + 1)..(b - 1) : csv[k] # Comma
    BY <1>2, LastEdgeIs
  <1>4. item = SubSeq(csv, a + 1, b - 1)
    BY DEF ItemBefore
  <1> HIDE DEF a, item
  <1>5. Edge(csv, a)
    BY <1>3 DEF Edge
  <1> DEFINE first == a + 1
             last == b - 1
  <1>6. /\ first \in 1..(Len(csv) + 1) /\ last \in (first - 1)..Len(csv)
        /\ last - first + 1 = b - 1 - a /\ \A k \in 1..(b - 1 - a) : first + k - 1 = a + k
    BY <1>1, <1>3
  <1>7. item = SubSeq(csv, first, last)
    BY <1>4
  <1> HIDE DEF first, last
  <1>8. /\ item \in Seq(Nat) /\ Len(item) = last - first + 1
        /\ \A k \in 1..(last - first + 1) : item[k] = csv[first + k - 1]
    BY <1>6, <1>7, Part
  <1>9. Len(item) = b - 1 - a /\ \A k \in 1..(b - 1 - a) : item[k] = csv[a + k]
    BY <1>6, <1>8
  <1>10. QED
    BY <1>1, <1>3, <1>5, <1>8, <1>9 DEF a, item

-----------------------------------------------------------------------------
(* The words of the filter *)

\* A part of a part.
LEMMA PartOfPart ==
  ASSUME NEW csv \in Seq(Nat), NEW item \in Seq(Nat), NEW a \in Nat,
         \A k \in 1..Len(item) : item[k] = csv[a + k],
         NEW i \in 1..Len(item), NEW j \in i..Len(item),
         NEW p \in 1..Len(csv), NEW q \in p..Len(csv), p = a + i, q = a + j
  PROVE  SubSeq(item, i, j) = SubSeq(csv, p, q)
  <1> DEFINE s == SubSeq(item, i, j)
             t == SubSeq(csv, p, q)
  <1>1. /\ i \in 1..(Len(item) + 1) /\ j \in (i - 1)..Len(item)
        /\ p \in 1..(Len(csv) + 1) /\ q \in (p - 1)..Len(csv)
    OBVIOUS
  <1>2. /\ s \in Seq(Nat) /\ Len(s) = j - i + 1
        /\ \A k \in 1..(j - i + 1) : s[k] = item[i + k - 1]
    BY <1>1, Part
  <1>3. /\ t \in Seq(Nat) /\ Len(t) = q - p + 1
        /\ \A k \in 1..(q - p + 1) : t[k] = csv[p + k - 1]
    BY <1>1, Part
  <1> HIDE DEF s, t
  <1>4. q - p + 1 = j - i + 1
    OBVIOUS
  <1>5. ASSUME NEW k \in 1..(j - i + 1)
        PROVE  s[k] = t[k]
    <2>1. i + k - 1 \in 1..Len(item) /\ a + (i + k - 1) = p + k - 1
      OBVIOUS
    <2>2. item[i + k - 1] = csv[p + k - 1]
      BY <2>1
    <2>3. QED
      BY <1>2, <1>3, <1>4, <2>2
  <1>6. s = t
    BY <1>2, <1>3, <1>4, <1>5, SeqEqual
  <1>7. QED
    BY <1>6 DEF s, t

\* A word that could stand in the list: no comma in it, no blanks around it.
Plain(word) == /\ word # <<>> /\ \A k \in 1..Len(word) : word[k] # Comma
               /\ ~IsSpace(word[1]) /\ ~IsSpace(word[Len(word)])

\* The word stands at p..q, between the edges a and b.
Stands(csv, word, a, p, q, b) ==
    /\ p \in 1..Len(csv) /\ q \in p..Len(csv) /\ SubSeq(csv, p, q) = word
    /\ a \in 0..(p - 1) /\ Edge(csv, a) /\ Blank(csv, a + 1, p - 1)
    /\ b \in (q + 1)..(Len(csv) + 1) /\ Edge(csv, b) /\ Blank(csv, q + 1, b - 1)

LEMMA ListedMeans ==
  ASSUME NEW csv \in Seq(Nat), NEW word \in Seq(Nat)
  PROVE  Listed(csv, word) <=>
            Plain(word) /\ \E a, p, q, b \in Nat : Stands(csv, word, a, p, q, b)
  <1>1. ASSUME NEW a \in Nat, NEW p \in Nat, NEW q \in Nat, NEW b \in Nat,
               Stands(csv, word, a, p, q, b), Plain(word)
        PROVE  Listed(csv, word)
    <2>1. p + Len(word) - 1 = q
      <3>1. p \in 1..(Len(csv) + 1) /\ q \in (p - 1)..Len(csv) /\ SubSeq(csv, p, q) = word
        BY <1>1 DEF Stands
      <3>2. Len(word) = q - p + 1
        BY <3>1, Part
      <3>3. QED
        BY <3>2
    <2>2. p \in 1..Len(csv) /\ q <= Len(csv)
      BY <1>1 DEF Stands
    <2>3. QED
      BY <1>1, <2>1, <2>2 DEF Stands, Plain, Listed
  <1>2. ASSUME Listed(csv, word)
        PROVE  Plain(word) /\ \E a, p, q, b \in Nat : Stands(csv, word, a, p, q, b)
    <2>1. Plain(word)
      BY <1>2 DEF Listed, Plain
    <2>2. PICK p \in 1..Len(csv) :
             LET j == p + Len(word) - 1
             IN  /\ j <= Len(csv) /\ SubSeq(csv, p, j) = word
                 /\ \E a \in 0..(p - 1) : Edge(csv, a) /\ Blank(csv, a + 1, p - 1)
                 /\ \E b \in (j + 1)..(Len(csv) + 1) : Edge(csv, b) /\ Blank(csv, j + 1, b - 1)
      BY <1>2 DEF Listed
    <2> DEFINE q == p + Len(word) - 1
    <2>3. q \in p..Len(csv) /\ q \in Nat
      <3>1. Len(word) \in Nat /\ Len(word) # 0
        BY <2>1 DEF Plain
      <3>2. QED
        BY <2>2, <3>1
    <2>4. /\ SubSeq(csv, p, q) = word
          /\ \E a \in 0..(p - 1) : Edge(csv, a) /\ Blank(csv, a + 1, p - 1)
          /\ \E b \in (q + 1)..(Len(csv) + 1) : Edge(csv, b) /\ Blank(csv, q + 1, b - 1)
      BY <2>2
    <2> HIDE DEF q
    <2>5. QED
      BY <2>1, <2>3, <2>4 DEF Stands
  <1>3. QED
    BY <1>1, <1>2

LEMMA WordIsListed ==
  ASSUME NEW csv \in Seq(Nat), NEW b \in Ends(csv), NEW word \in Seq(Nat),
         word = TrimCopy(ItemBefore(csv, b)), word # <<>>
  PROVE  Listed(csv, word)
  <1> DEFINE a == LastEdge(csv, b - 1)
             item == ItemBefore(csv, b)
  <1>1. /\ b \in 1..(Len(csv) + 1) /\ Edge(csv, b)
        /\ a \in 0..(b - 1) /\ Edge(csv, a)
        /\ \A k \in (a + 1)..(b - 1) : csv[k] # Comma
        /\ item \in Seq(Nat) /\ Len(item) = b - 1 - a
        /\ \A k \in 1..(b - 1 - a) : item[k] = csv[a + k]
    BY ItemIs
  <1>2. word = TrimCopy(item)
    OBVIOUS
  <1> HIDE DEF a, item
  <1>3. PICK i, j \in Solid(item) : /\ word = SubSeq(item, i, j)
                                    /\ \A k \in Solid(item) : i <= k /\ k <= j
    BY <1>1, <1>2, TrimIs
  <1>4. /\ i \in 1..(b - 1 - a) /\ j \in i..(b - 1 - a)
        /\ ~IsSpace(csv[a + i]) /\ ~IsSpace(csv[a + j])
    <2>1. /\ i \in 1..Len(item) /\ j \in 1..Len(item) /\ i <= j
          /\ ~IsSpace(item[i]) /\ ~IsSpace(item[j])
      BY <1>3 DEF Solid
    <2>2. QED
      BY <1>1, <2>1
  <1> DEFINE p == a + i
             q == a + j
  <1>5. /\ a \in Nat /\ b \in Nat /\ b <= Len(csv) + 1
        /\ p \in (a + 1)..(b - 1) /\ q \in p..(b - 1)
        /\ p \in 1..Len(csv) /\ q \in p..Len(csv)
    <2>1. a \in 0..(b - 1) /\ b \in 1..(Len(csv) + 1)
      BY <1>1
    <2>2. i \in 1..(b - 1 - a) /\ j \in i..(b - 1 - a)
      BY <1>4
    <2>3. QED
      BY <2>1, <2>2
  <1>6. \A k \in (a + 1)..(b - 1) : k < p \/ q < k => IsSpace(csv[k])
    <2>1. SUFFICES ASSUME NEW k \in (a + 1)..(b - 1), ~IsSpace(csv[k]), k < p \/ q < k
                   PROVE  FALSE
      OBVIOUS
    <2>2. k - a \in 1..(b - 1 - a) /\ a + (k - a) = k /\ (k - a < i \/ j < k - a)
      <3>1. a \in 0..(b - 1) /\ b \in 1..(Len(csv) + 1)
        BY <1>1
      <3>2. i \in 1..(b - 1 - a) /\ j \in i..(b - 1 - a)
        BY <1>4
      <3>3. QED
        BY <2>1, <3>1, <3>2
    <2>3. item[k - a] = csv[k]
      BY <1>1, <2>2
    <2>4. k - a \in Solid(item)
      BY <1>1, <2>1, <2>2, <2>3 DEF Solid
    <2>5. i <= k - a /\ k - a <= j
      BY <1>3, <2>4
    <2>6. QED
      BY <1>4, <2>2, <2>5
  <1>7. word = SubSeq(csv, p, q)
    <2>1. i \in 1..Len(item) /\ j \in i..Len(item) /\ \A k \in 1..Len(item) : item[k] = csv[a + k]
      BY <1>1, <1>4
    <2>2. QED
      BY <1>1, <1>3, <1>5, <2>1, PartOfPart
  <1>8. ~IsSpace(csv[p]) /\ ~IsSpace(csv[q])
    BY <1>4
  <1> HIDE DEF p, q
  <1>9. /\ Len(word) = q - p + 1
        /\ \A k \in 1..(q - p + 1) : word[k] = csv[p + k - 1]
    <2>1. p \in 1..(Len(csv) + 1) /\ q \in (p - 1)..Len(csv)
      BY <1>5
    <2>2. QED
      BY <1>7, <2>1, Part
  <1>10. Plain(word)
    <2>1. ASSUME NEW k \in 1..Len(word)
          PROVE  word[k] # Comma
      <3>1. k \in 1..(q - p + 1) /\ p + k - 1 \in (a + 1)..(b - 1)
        BY <1>5, <1>9
      <3>2. QED
        BY <1>1, <1>9, <3>1
    <2>2. word[1] = csv[p]
      <3>1. 1 \in 1..(q - p + 1) /\ p + 1 - 1 = p
        BY <1>5
      <3>2. QED
        BY <1>9, <3>1
    <2>3. word[Len(word)] = csv[q]
      <3>1. q - p + 1 \in 1..(q - p + 1) /\ p + (q - p + 1) - 1 = q
        BY <1>5
      <3>2. word[q - p + 1] = csv[p + (q - p + 1) - 1]
        BY <1>9, <3>1
      <3>3. QED
        BY <1>9, <3>1, <3>2
    <2>4. QED
      BY <1>8, <2>1, <2>2, <2>3 DEF Plain
  <1>11. Blank(csv, a + 1, p - 1) /\ Blank(csv, q + 1, b - 1)
    <2>1. /\ \A k \in (a + 1)..(p - 1) : k \in (a + 1)..(b - 1) /\ k < p
          /\ \A k \in (q + 1)..(b - 1) : k \in (a + 1)..(b - 1) /\ q < k
      BY <1>5
    <2>2. QED
      BY <1>6, <2>1 DEF Blank
  <1>12. /\ a \in 0..(p - 1) /\ b \in (q + 1)..(Len(csv) + 1)
         /\ p \in Nat /\ q \in Nat
    BY <1>5
  <1>13. Stands(csv, word, a, p, q, b)
    BY <1>1, <1>5, <1>7, <1>11, <1>12 DEF Stands
  <1>14. QED
    BY <1>5, <1>10, <1>12, <1>13, ListedMeans

LEMMA ListedIsWord ==
  ASSUME NEW csv \in Seq(Nat), NEW word \in Seq(Nat), Listed(csv, word)
  PROVE  \E b \in Ends(csv) : word = TrimCopy(ItemBefore(csv, b))
  <1>1. PICK a \in Nat, p \in Nat, q \in Nat, b \in Nat :
           Plain(word) /\ Stands(csv, word, a, p, q, b)
    BY ListedMeans
  <1>2. /\ p \in 1..Len(csv) /\ q \in p..Len(csv) /\ SubSeq(csv, p, q) = word
        /\ a \in 0..(p - 1) /\ Edge(csv, a) /\ Blank(csv, a + 1, p - 1)
        /\ b \in (q + 1)..(Len(csv) + 1) /\ Edge(csv, b) /\ Blank(csv, q + 1, b - 1)
    BY <1>1 DEF Stands
  <1>3. /\ Len(word) = q - p + 1
        /\ \A k \in 1..(q - p + 1) : word[k] = csv[p + k - 1]
    <2>1. p \in 1..(Len(csv) + 1) /\ q \in (p - 1)..Len(csv)
      BY <1>2
    <2>2. QED
      BY <1>2, <2>1, Part
  <1>4. ASSUME NEW k \in p..q
        PROVE  csv[k] # Comma
    <2>1. k - p + 1 \in 1..(q - p + 1) /\ p + (k - p + 1) - 1 = k
      BY <1>2
    <2>2. QED
      BY <1>1, <1>3, <2>1 DEF Plain
  <1>5. ~IsSpace(csv[p]) /\ ~IsSpace(csv[q])
    <2>1. /\ 1 \in 1..(q - p + 1) /\ p + 1 - 1 = p
          /\ q - p + 1 \in 1..(q - p + 1) /\ p + (q - p + 1) - 1 = q
      BY <1>2
    <2>2. word[1] = csv[p]
      BY <1>3, <2>1
    <2>3. word[q - p + 1] = csv[p + (q - p + 1) - 1]
      BY <1>3, <2>1
    <2>4. word[Len(word)] = csv[q]
      BY <1>3, <2>1, <2>3
    <2>5. QED
      BY <1>1, <2>2, <2>4 DEF Plain
  <1>6. \A k \in (a + 1)..(b - 1) : k < p \/ q < k => IsSpace(csv[k])
    <2>1. \A k \in (a + 1)..(b - 1) : /\ k < p => k \in (a + 1)..(p - 1)
                                      /\ q < k => k \in (q + 1)..(b - 1)
      BY <1>2
    <2>2. QED
      BY <1>2, <2>1 DEF Blank
  <1>7. \A k \in (a + 1)..(b - 1) : csv[k] # Comma
    <2>1. \A k \in (a + 1)..(b - 1) : k < p \/ q < k \/ k \in p..q
      BY <1>2
    <2>2. ~IsSpace(Comma)
      BY DEF IsSpace, Comma
    <2>3. QED
      BY <1>4, <1>6, <2>1, <2>2
  <1>8. b \in Ends(csv) /\ b \in 1..(Len(csv) + 1)
    <2>1. /\ b \in 1..(Len(csv) + 1) /\ b # 0
          /\ b # Len(csv) + 1 => b \in 1..Len(csv)
      <3>1. q \in Nat /\ Len(csv) \in Nat /\ b \in (q + 1)..(Len(csv) + 1)
        BY <1>2
      <3>2. QED
        BY <3>1
    <2>2. b = Len(csv) + 1 \/ (b \in 1..Len(csv) /\ csv[b] = Comma)
      <3>1. Edge(csv, b)
        BY <1>2
      <3>2. QED
        BY <2>1, <3>1 DEF Edge
    <2>3. QED
      BY <2>1, <2>2 DEF Ends, Commas
  <1>9. LastEdge(csv, b - 1) = a
    <2> DEFINE n == b - 1
    <2>1. n \in 0..Len(csv) /\ a \in 0..n /\ a # Len(csv) + 1
      BY <1>2
    <2>2. a # 0 => csv[a] = Comma
      BY <1>2, <2>1 DEF Edge
    <2>3. \A k \in (a + 1)..n : csv[k] # Comma
      BY <1>7
    <2> HIDE DEF n
    <2>4. LastEdge(csv, n) = a
      BY <2>1, <2>2, <2>3, LastEdgeOnly
    <2>5. QED
      BY <2>4 DEF n
  <1> DEFINE item == ItemBefore(csv, b)
  <1>10. /\ item \in Seq(Nat) /\ Len(item) = b - 1 - a
         /\ \A k \in 1..(b - 1 - a) : item[k] = csv[a + k]
    BY <1>8, <1>9, ItemIs
  <1> HIDE DEF item
  <1> DEFINE i == p - a
             j == q - a
  <1>11. /\ i \in 1..Len(item) /\ j \in i..Len(item) /\ i \in Nat /\ j \in Nat
         /\ p = a + i /\ q = a + j
    <2>1. i \in 1..(b - 1 - a) /\ j \in i..(b - 1 - a) /\ p = a + i /\ q = a + j
      BY <1>2
    <2>2. QED
      BY <1>10, <2>1
  <1>12. i \in Solid(item) /\ j \in Solid(item)
    <2>1. item[i] = csv[p] /\ item[j] = csv[q]
      <3>1. /\ i \in 1..(b - 1 - a) /\ j \in 1..(b - 1 - a)
            /\ a + i = p /\ a + j = q
        BY <1>2
      <3>2. QED
        BY <1>10, <3>1
    <2>2. j \in 1..Len(item)
      BY <1>11
    <2>3. QED
      BY <1>5, <1>11, <2>1, <2>2 DEF Solid
  <1>13. ASSUME NEW k \in Solid(item)
         PROVE  i <= k /\ k <= j
    <2>1. k \in 1..(b - 1 - a) /\ ~IsSpace(item[k])
      BY <1>10 DEF Solid
    <2>2. ~IsSpace(csv[a + k])
      BY <1>10, <2>1
    <2>3. a + k \in (a + 1)..(b - 1)
      BY <1>2, <2>1
    <2>4. ~(a + k < p) /\ ~(q < a + k)
      BY <1>6, <2>2, <2>3
    <2>5. QED
      BY <1>2, <2>1, <2>4
  <1> HIDE DEF i, j
  <1>14. TrimCopy(item) = SubSeq(item, i, j)
    <2>1. PICK m, n \in Solid(item) : /\ TrimCopy(item) = SubSeq(item, m, n)
                                      /\ \A k \in Solid(item) : m <= k /\ k <= n
      BY <1>10, <1>12, TrimIs
    <2>2. m \in Nat /\ n \in Nat
      BY DEF Solid
    <2>3. m = i /\ n = j
      BY <1>11, <1>12, <1>13, <2>1, <2>2
    <2>4. QED
      BY <2>1, <2>3
  <1>15. SubSeq(item, i, j) = SubSeq(csv, p, q)
    <2>1. \A k \in 1..Len(item) : item[k] = csv[a + k]
      BY <1>10
    <2>2. item \in Seq(Nat) /\ p \in 1..Len(csv) /\ q \in p..Len(csv)
      BY <1>2, <1>10
    <2>3. QED
      BY <1>11, <2>1, <2>2, PartOfPart
  <1>16. QED
    BY <1>2, <1>8, <1>14, <1>15 DEF item

\* Where there is anything but commas and blanks, there is a word.
LEMMA WordAround ==
  ASSUME NEW csv \in Seq(Nat), NEW k \in 1..Len(csv),
         csv[k] # Comma, ~IsSpace(csv[k])
  PROVE  \E b \in Ends(csv) : TrimCopy(ItemBefore(csv, b)) # <<>>
  <1> DEFINE after == {b \in Ends(csv) : k < b}
             b == Min(after)
  <1>1. after \in SUBSET Nat /\ Len(csv) + 1 \in after
    BY DEF Ends, Commas
  <1>2. b \in after /\ \A c \in after : b <= c
    BY <1>1, Least
  <1>3. b \in Ends(csv) /\ k < b
    BY <1>2
  <1>4. \A c \in Commas(csv, Len(csv)) : k < c => b <= c
    BY <1>2 DEF Ends
  <1> HIDE DEF b
  <1> DEFINE a == LastEdge(csv, b - 1)
             item == ItemBefore(csv, b)
  <1>5. /\ b \in 1..(Len(csv) + 1)
        /\ a \in 0..(b - 1) /\ Edge(csv, a)
        /\ item \in Seq(Nat) /\ Len(item) = b - 1 - a
        /\ \A m \in 1..(b - 1 - a) : item[m] = csv[a + m]
    BY <1>3, ItemIs
  <1> HIDE DEF a, item
  <1>6. ~(k <= a)
    <2>1. SUFFICES ASSUME k <= a
                   PROVE  FALSE
      OBVIOUS
    <2>2. a \in 1..Len(csv) /\ a < b
      BY <1>5, <2>1
    <2>3. csv[a] = Comma
      BY <2>2, <1>5 DEF Edge
    <2>4. a \in Commas(csv, Len(csv)) /\ k # a
      BY <2>2, <2>3 DEF Commas
    <2>5. k < a
      BY <2>1, <2>2, <2>4
    <2>6. b <= a
      BY <1>4, <2>4, <2>5
    <2>7. QED
      BY <1>5, <2>2, <2>6
  <1>7. k - a \in 1..(b - 1 - a) /\ a + (k - a) = k
    BY <1>3, <1>5, <1>6
  <1>8. item[k - a] = csv[k] /\ k - a \in 1..Len(item)
    BY <1>5, <1>7
  <1>9. k - a \in Solid(item)
    BY <1>8 DEF Solid
  <1>10. TrimCopy(item) # <<>>
    <2>1. PICK i, j \in Solid(item) : /\ TrimCopy(item) = SubSeq(item, i, j)
                                      /\ \A m \in Solid(item) : i <= m /\ m <= j
      BY <1>5, <1>9, TrimIs
    <2>2. i \in 1..(Len(item) + 1) /\ j \in (i - 1)..Len(item) /\ j - i + 1 # 0
      BY <2>1 DEF Solid
    <2>3. Len(SubSeq(item, i, j)) = j - i + 1
      BY <1>5, <2>2, Part
    <2>4. QED
      BY <2>1, <2>2, <2>3
  <1>11. QED
    BY <1>3, <1>10 DEF item

LEMMA FilterIs ==
  ASSUME NEW csv \in Seq(Nat), NEW word \in Seq(Nat), HasWord(csv)
  PROVE  IsWordAllowed(FilterOf(csv), word) <=> Listed(csv, word)
  <1>1. word \in FilterOf(csv) => Listed(csv, word)
    BY FilterOfIs, WordIsListed
  <1>2. Listed(csv, word) => word \in FilterOf(csv)
    <2>1. Listed(csv, word) => word # <<>>
      BY DEF Listed
    <2>2. QED
      BY <2>1, FilterOfIs, ListedIsWord
  <1>3. FilterOf(csv) # {}
    BY FilterOfIs, WordAround DEF HasWord
  <1>4. QED
    BY <1>1, <1>2, <1>3 DEF IsWordAllowed

-----------------------------------------------------------------------------
FilterInv == call.kind = "filter" => /\ call.csv \in Csvs
                                     /\ done => result = FilterOf(call.csv)

LEMMA FilterInductive == Spec => []FilterInv
  <1>1. Init => FilterInv
    BY DEF Init, FilterInv
  <1>2. FilterInv /\ [Next]_vars => FilterInv'
    BY DEF FilterInv, Next, HandleWrite, SetFilter, vars
  <1>3. QED
    BY <1>1, <1>2, PTL DEF Spec

\* Whatever text SetFilterFromCsv is given, if it has a word at all, a word passes
\* IsWordAllowed exactly if it stands in the text between two commas with nothing
\* but blanks around it.
THEOREM FilterIsExact == Spec => []FilterIsTheList
  <1>1. FilterInv => FilterIsTheList
    <2>1. Csvs \subseteq Seq(Nat) /\ Words \subseteq Seq(Nat)
      BY TextAssumption
    <2>2. QED
      BY <2>1, FilterIs DEF FilterInv, FilterIsTheList, HasWord, Returned
  <1>2. QED
    BY <1>1, FilterInductive, PTL
=============================================================================
