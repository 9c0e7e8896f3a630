--------------------------- MODULE ParsingProofs ---------------------------
(***************************************************************************)
(* Proofs about Parsing for any parameter names, any form and any query:   *)
(* POST /write stores what the device has encoded, whole or not at all,    *)
(* and takes any query apart into items that do not reach into each other. *)
(***************************************************************************)
EXTENDS Parsing, TextLemmas, TLAPS

-----------------------------------------------------------------------------
(* Items of a query *)

\* Where the item ends that begins at p: at the next &, or behind the query.
EndOf(query, p) == Min({k \in p..Len(query) : query[k] = And} \cup {Len(query) + 1})

LEMMA EndIs ==
  ASSUME NEW query \in Seq(Nat), NEW p \in 1..(Len(query) + 1)
  PROVE  /\ EndOf(query, p) \in p..(Len(query) + 1)
         /\ \A k \in p..(EndOf(query, p) - 1) : query[k] # And
         /\ EndOf(query, p) <= Len(query) => query[EndOf(query, p)] = And
  <1> DEFINE ends == {k \in p..Len(query) : query[k] = And} \cup {Len(query) + 1}
  <1>1. ends \in SUBSET Nat /\ ends # {}
    OBVIOUS
  <1>2. EndOf(query, p) \in ends /\ \A k \in ends : EndOf(query, p) <= k
    BY <1>1, Least DEF EndOf
  <1>3. \A k \in p..Len(query) : query[k] = And => k \in ends
    OBVIOUS
  <1>4. EndOf(query, p) \in p..(Len(query) + 1)
    BY <1>2
  <1>5. ASSUME NEW k \in p..(EndOf(query, p) - 1)
        PROVE  query[k] # And
    BY <1>2, <1>3, <1>4
  <1>6. QED
    BY <1>2, <1>4, <1>5

\* The same end from any place of the item.
LEMMA EndSame ==
  ASSUME NEW query \in Seq(Nat), NEW p \in 1..(Len(query) + 1),
         NEW r \in p..EndOf(query, p)
  PROVE  EndOf(query, r) = EndOf(query, p)
  <1>1. r \in 1..(Len(query) + 1)
    BY EndIs
  <1>2. ~(EndOf(query, r) < EndOf(query, p))
    <2>1. SUFFICES ASSUME EndOf(query, r) < EndOf(query, p)
                   PROVE  FALSE
      OBVIOUS
    <2>2. EndOf(query, r) \in p..(EndOf(query, p) - 1) /\ EndOf(query, r) <= Len(query)
      BY <1>1, <2>1, EndIs
    <2>3. QED
      BY <1>1, <2>2, EndIs
  <1>3. ~(EndOf(query, p) < EndOf(query, r))
    <2>1. SUFFICES ASSUME EndOf(query, p) < EndOf(query, r)
                   PROVE  FALSE
      OBVIOUS
    <2>2. EndOf(query, p) \in r..(EndOf(query, r) - 1) /\ EndOf(query, p) <= Len(query)
      BY <1>1, <2>1, EndIs
    <2>3. QED
      BY <1>1, <2>2, EndIs
  <1>4. EndOf(query, p) \in Nat /\ EndOf(query, r) \in Nat
    BY <1>1, EndIs
  <1>5. QED
    BY <1>2, <1>3, <1>4

LEMMA ItemIs ==
  ASSUME NEW query \in Seq(Nat), NEW p \in 1..(Len(query) + 1)
  PROVE  /\ ItemFrom(query, p) \in Seq(Nat)
         /\ Len(ItemFrom(query, p)) = EndOf(query, p) - p
         /\ \A k \in 1..(EndOf(query, p) - p) : ItemFrom(query, p)[k] = query[p + k - 1]
  <1>1. ItemFrom(query, p) = SubSeq(query, p, EndOf(query, p) - 1)
    BY DEF ItemFrom, EndOf
  <1>2. EndOf(query, p) \in p..(Len(query) + 1)
    BY EndIs
  <1>3. \A i \in p..(EndOf(query, p) - 1) : query[i] \in Nat
    BY <1>2
  <1>4. QED
    BY <1>1, <1>2, <1>3, SubSeqProperties

-----------------------------------------------------------------------------
(* Names *)

LEMMA NameIs ==
  ASSUME NEW name \in Names
  PROVE  /\ name \in Seq(Nat) /\ name \in Seq(Letters) /\ Len(name) \in Nat
         /\ \A k \in 1..Len(name) : name[k] # And /\ name[k] # Equals
  <1>1. name \in Seq(Letters)
    BY NamesAssumption
  <1>2. \A k \in 1..Len(name) : name[k] \in Letters
    BY <1>1
  <1>3. Letters \subseteq Nat /\ And \notin Letters /\ Equals \notin Letters
    BY DEF Letters, And, Equals
  <1>4. name \in Seq(Nat)
    <2>1. \A k \in 1..Len(name) : name[k] \in Nat
      BY <1>2, <1>3
    <2>2. name \in [1..Len(name) -> Nat]
      BY <1>1, <2>1
    <2>3. QED
      BY <1>1, <2>2, SeqDef
  <1>5. QED
    BY <1>1, <1>2, <1>3, <1>4

Begins(text, p, name) ==
    \A k \in 1..Len(name) : Lower(name[k]) = Lower(text[p + k - 1])

LEMMA NameAtMeans ==
  ASSUME NEW query \in Seq(Nat), NEW name \in Seq(Nat), NEW p \in 1..Len(query)
  PROVE  NameAt(query, name, p) <=>
            /\ p + Len(name) <= Len(query)
            /\ p = 1 \/ query[p - 1] = And
            /\ query[p + Len(name)] = Equals
            /\ Begins(query, p, name)
  <1>1. ASSUME p + Len(name) <= Len(query)
        PROVE  SameIgnoringCase(name, SubSeq(query, p, p + Len(name) - 1))
                  <=> Begins(query, p, name)
    <2> DEFINE part == SubSeq(query, p, p + Len(name) - 1)
    <2>1. \A i \in p..(p + Len(name) - 1) : query[i] \in Nat
      BY <1>1
    <2>2. /\ Len(part) = Len(name)
          /\ \A k \in 1..Len(name) : part[k] = query[p + k - 1]
      BY <2>1, SubSeqProperties
    <2>3. QED
      BY <2>2 DEF SameIgnoringCase, Begins
  <1>2. QED
    BY <1>1 DEF NameAt

LEMMA LowerIs ==
  ASSUME NEW c \in Nat, NEW d \in Nat, Lower(c) = Lower(d)
  PROVE  (c = And <=> d = And) /\ (c = Equals <=> d = Equals)
  BY DEF Lower, And, Equals

LEMMA HoldsMeans ==
  ASSUME NEW item \in Seq(Nat), NEW name \in Seq(Nat)
  PROVE  Holds(item, name) <=>
            /\ Len(name) < Len(item)
            /\ item[Len(name) + 1] = Equals
            /\ Begins(item, 1, name)
  <1> DEFINE n == Len(name)
             key == name \o <<Equals>>
             part == SubSeq(item, 1, n + 1)
  <1>1. Equals \in Nat /\ n \in Nat
    BY DEF Equals
  <1>2. /\ Len(key) = n + 1
        /\ \A k \in 1..n : key[k] = name[k]
        /\ key[n + 1] = Equals
    BY <1>1
  <1>3. ASSUME n < Len(item)
        PROVE  SameIgnoringCase(key, part) <=>
                  item[n + 1] = Equals /\ Begins(item, 1, name)
    <2>1. \A i \in 1..(n + 1) : item[i] \in Nat
      BY <1>1, <1>3
    <2>2. /\ Len(part) = n + 1
          /\ \A k \in 1..(n + 1) : part[k] = item[k]
      BY <1>1, <2>1, SubSeqProperties
    <2>3. Lower(key[n + 1]) = Lower(part[n + 1]) <=> item[n + 1] = Equals
      BY <1>1, <1>2, <2>1, <2>2, LowerIs
    <2>4. SameIgnoringCase(key, part) <=>
             \A k \in 1..(n + 1) : Lower(key[k]) = Lower(part[k])
      BY <1>2, <2>2 DEF SameIgnoringCase
    <2>5. (\A k \in 1..(n + 1) : Lower(key[k]) = Lower(part[k])) <=>
             /\ Lower(key[n + 1]) = Lower(part[n + 1])
             /\ \A k \in 1..n : Lower(key[k]) = Lower(part[k])
      BY <1>1
    <2>6. (\A k \in 1..n : Lower(key[k]) = Lower(part[k])) <=> Begins(item, 1, name)
      BY <1>1, <1>2, <2>2 DEF Begins
    <2>7. QED
      BY <2>3, <2>4, <2>5, <2>6
  <1>4. QED
    BY <1>3 DEF Holds

-----------------------------------------------------------------------------
(* Where mg_get_var finds a name *)

Places(query, name) == {p \in 1..Len(query) : NameAt(query, name, p)}

\* A name that stands at p, with its =, is within the item that begins there.
LEMMA NameInside ==
  ASSUME NEW query \in Seq(Nat), NEW name \in Names, NEW p \in 1..Len(query),
         NameAt(query, name, p)
  PROVE  p + Len(name) < EndOf(query, p)
  <1>1. name \in Seq(Nat) /\ \A k \in 1..Len(name) : name[k] # And
    BY NameIs
  <1>2. /\ p + Len(name) <= Len(query)
        /\ query[p + Len(name)] = Equals
        /\ Begins(query, p, name)
    BY <1>1, NameAtMeans
  <1>3. p \in 1..(Len(query) + 1) /\ Equals # And
    BY DEF Equals, And
  <1> DEFINE e == EndOf(query, p)
  <1>4. e \in p..(Len(query) + 1) /\ (e <= Len(query) => query[e] = And)
    BY <1>3, EndIs
  <1> HIDE DEF e
  <1>5. SUFFICES ASSUME e <= p + Len(name)
                 PROVE  FALSE
    BY <1>1, <1>4 DEF e
  <1>6. query[e] = And /\ e # p + Len(name)
    BY <1>1, <1>2, <1>3, <1>4, <1>5
  <1>7. e - p + 1 \in 1..Len(name) /\ p + (e - p + 1) - 1 = e
    BY <1>1, <1>4, <1>5, <1>6
  <1>8. Lower(name[e - p + 1]) = Lower(query[e])
    BY <1>2, <1>7 DEF Begins
  <1>9. name[e - p + 1] \in Nat /\ query[e] \in Nat
    <2>1. e \in 1..Len(query)
      BY <1>1, <1>2, <1>4, <1>5
    <2>2. QED
      BY <1>1, <1>7, <2>1, ElementOfSeq
  <1>10. QED
    BY <1>1, <1>6, <1>7, <1>8, <1>9, LowerIs

\* What stands in an item is what stands in the query.
LEMMA BeginsInItem ==
  ASSUME NEW query \in Seq(Nat), NEW name \in Seq(Nat),
         NEW p \in 1..(Len(query) + 1), Len(name) < EndOf(query, p) - p
  PROVE  /\ Begins(ItemFrom(query, p), 1, name) <=> Begins(query, p, name)
         /\ ItemFrom(query, p)[Len(name) + 1] = query[p + Len(name)]
  <1>1. EndOf(query, p) \in p..(Len(query) + 1) /\ Len(name) \in Nat
    BY EndIs
  <1>2. \A k \in 1..(Len(name) + 1) : ItemFrom(query, p)[k] = query[p + k - 1]
    BY <1>1, ItemIs
  <1>3. \A k \in 1..Len(name) : ItemFrom(query, p)[1 + k - 1] = query[p + k - 1]
    <2>1. \A k \in 1..Len(name) : 1 + k - 1 = k /\ k \in 1..(Len(name) + 1)
      BY <1>1
    <2>2. QED
      BY <1>2, <2>1
  <1>4. ItemFrom(query, p)[Len(name) + 1] = query[p + Len(name)]
    <2>1. Len(name) + 1 \in 1..(Len(name) + 1) /\ p + (Len(name) + 1) - 1 = p + Len(name)
      BY <1>1
    <2>2. QED
      BY <1>2, <2>1
  <1>5. QED
    BY <1>3, <1>4 DEF Begins

\* mg_get_var finds a name exactly where an item begins that holds it.
LEMMA PlacesAreItems ==
  ASSUME NEW query \in Seq(Nat), NEW name \in Names
  PROVE  Places(query, name) =
            {s \in Starts(query) : Holds(ItemFrom(query, s), name)}
  <1>1. name \in Seq(Nat) /\ Len(name) \in Nat
    BY NameIs
  <1>2. \A s \in Starts(query) : s \in 1..(Len(query) + 1) /\ (s = 1 \/ query[s - 1] = And)
    BY DEF Starts
  <1>3. ASSUME NEW p \in Places(query, name)
        PROVE  p \in Starts(query) /\ Holds(ItemFrom(query, p), name)
    <2>1. p \in 1..Len(query) /\ NameAt(query, name, p)
      BY DEF Places
    <2>2. /\ p = 1 \/ query[p - 1] = And
          /\ query[p + Len(name)] = Equals
          /\ Begins(query, p, name)
      BY <1>1, <2>1, NameAtMeans
    <2>3. p \in Starts(query)
      <3>1. CASE p = 1
        BY <3>1 DEF Starts
      <3>2. CASE p # 1
        <4>1. p - 1 \in 1..Len(query) /\ query[p - 1] = And /\ p = (p - 1) + 1
          BY <2>1, <2>2, <3>2
        <4>2. QED
          BY <4>1 DEF Starts
      <3>3. QED
        BY <3>1, <3>2
    <2>4. EndOf(query, p) \in p..(Len(query) + 1) /\ p + Len(name) < EndOf(query, p)
      BY <2>1, EndIs, NameInside
    <2>5. /\ ItemFrom(query, p) \in Seq(Nat)
          /\ Len(name) < Len(ItemFrom(query, p))
          /\ Len(name) < EndOf(query, p) - p
      BY <1>1, <2>1, <2>4, ItemIs
    <2>6. /\ Begins(ItemFrom(query, p), 1, name)
          /\ ItemFrom(query, p)[Len(name) + 1] = Equals
      BY <1>1, <2>1, <2>2, <2>5, BeginsInItem
    <2>7. Holds(ItemFrom(query, p), name)
      BY <1>1, <2>5, <2>6, HoldsMeans
    <2>8. QED
      BY <2>3, <2>7
  <1>4. ASSUME NEW s \in Starts(query), Holds(ItemFrom(query, s), name)
        PROVE  s \in Places(query, name)
    <2>1. /\ ItemFrom(query, s) \in Seq(Nat)
          /\ Len(ItemFrom(query, s)) = EndOf(query, s) - s
          /\ EndOf(query, s) \in s..(Len(query) + 1)
      BY <1>2, ItemIs, EndIs
    <2>2. /\ Len(name) < EndOf(query, s) - s
          /\ ItemFrom(query, s)[Len(name) + 1] = Equals
          /\ Begins(ItemFrom(query, s), 1, name)
      BY <1>1, <1>4, <2>1, HoldsMeans
    <2>3. query[s + Len(name)] = Equals /\ Begins(query, s, name)
      BY <1>1, <1>2, <2>2, BeginsInItem
    <2>4. s \in 1..Len(query) /\ s + Len(name) <= Len(query)
      BY <1>1, <1>2, <2>1, <2>2
    <2>5. QED
      BY <1>1, <1>2, <2>3, <2>4, NameAtMeans DEF Places
  <1>5. QED
    BY <1>3, <1>4

-----------------------------------------------------------------------------
(* An item by itself *)

\* The rest of an item is the same, found in the query or in the item alone.
LEMMA RestOfItem ==
  ASSUME NEW query \in Seq(Nat), NEW p \in 1..(Len(query) + 1),
         NEW n \in 0..(EndOf(query, p) - p)
  PROVE  ItemFrom(ItemFrom(query, p), n + 1) = ItemFrom(query, p + n)
  <1> DEFINE item == ItemFrom(query, p)
             e == EndOf(query, p)
             m == EndOf(item, n + 1)
             s == ItemFrom(item, n + 1)
             t == ItemFrom(query, p + n)
  <1>1. e \in p..(Len(query) + 1) /\ \A k \in p..(e - 1) : query[k] # And
    BY EndIs
  <1>2. /\ item \in Seq(Nat)
        /\ Len(item) = e - p
        /\ \A k \in 1..(e - p) : item[k] = query[p + k - 1]
    BY ItemIs
  <1>3. n \in 0..(e - p)
    OBVIOUS
  <1> HIDE DEF item, e
  <1>4. p + n \in p..e /\ p + n \in 1..(Len(query) + 1) /\ n + 1 \in 1..(Len(item) + 1)
    BY <1>1, <1>2, <1>3
  <1>5. EndOf(query, p + n) = e
    BY <1>4, EndSame DEF e
  <1>6. m = e - p + 1
    <2>1. ASSUME NEW k \in 1..(e - p)
          PROVE  item[k] # And
      <3>1. p + k - 1 \in p..(e - 1)
        BY <1>1
      <3>2. QED
        BY <1>1, <1>2, <3>1
    <2>2. /\ m \in (n + 1)..(Len(item) + 1)
          /\ m <= Len(item) => item[m] = And
      BY <1>2, <1>4, EndIs
    <2> HIDE DEF m
    <2>3. m <= Len(item) => m \in 1..(e - p)
      BY <1>1, <1>2, <1>3, <2>2
    <2>4. QED
      BY <1>1, <1>2, <2>1, <2>2, <2>3
  <1>7. /\ s \in Seq(Nat) /\ Len(s) = m - (n + 1)
        /\ \A k \in 1..(m - (n + 1)) : s[k] = item[n + 1 + k - 1]
    BY <1>2, <1>4, ItemIs
  <1>8. /\ t \in Seq(Nat) /\ Len(t) = e - (p + n)
        /\ \A k \in 1..(e - (p + n)) : t[k] = query[p + n + k - 1]
    BY <1>4, <1>5, ItemIs
  <1> HIDE DEF m, s, t
  <1>9. Len(s) = e - p - n /\ Len(t) = e - p - n
    BY <1>1, <1>3, <1>6, <1>7, <1>8
  <1>10. ASSUME NEW k \in 1..Len(s)
         PROVE  s[k] = t[k]
    <2>1. k \in 1..(e - p - n)
      BY <1>9
    <2>2. /\ k \in 1..(m - (n + 1)) /\ k \in 1..(e - (p + n))
          /\ n + 1 + k - 1 \in 1..(e - p)
          /\ p + (n + 1 + k - 1) - 1 = p + n + k - 1
      BY <1>1, <1>3, <1>6, <2>1
    <2>3. item[n + 1 + k - 1] = query[p + (n + 1 + k - 1) - 1]
      BY <1>2, <2>2
    <2>4. QED
      BY <1>7, <1>8, <2>2, <2>3
  <1>11. s = t
    BY <1>7, <1>8, <1>9, <1>10, SeqEqual
  <1>12. QED
    BY <1>11 DEF s, t, item

\* mg_get_var finds in the item that holds the name what it finds in the query.
LEMMA ItemAlone ==
  ASSUME NEW query \in Seq(Nat), NEW name \in Names,
         NEW s \in Places(query, name), \A p \in Places(query, name) : s <= p
  PROVE  GetVar(ItemFrom(query, s), name) = GetVar(query, name)
  <1> DEFINE item == ItemFrom(query, s)
             n == Len(name)
  <1>1. name \in Seq(Nat) /\ n \in Nat
    BY NameIs
  <1>2. s \in 1..Len(query) /\ NameAt(query, name, s)
    BY DEF Places
  <1>3. EndOf(query, s) \in s..(Len(query) + 1) /\ s + n < EndOf(query, s)
    BY <1>2, EndIs, NameInside
  <1>4. item \in Seq(Nat) /\ Len(item) = EndOf(query, s) - s
    BY <1>2, ItemIs
  <1>5. 1 \in Places(item, name)
    <2>1. Holds(item, name)
      BY PlacesAreItems
    <2>2. /\ item[n + 1] = Equals
          /\ Begins(item, 1, name)
      BY <1>1, <1>4, <2>1, HoldsMeans
    <2>3. 1 + n <= Len(item) /\ 1 \in 1..Len(item)
      BY <1>1, <1>2, <1>3, <1>4
    <2>4. NameAt(item, name, 1)
      BY <1>1, <1>4, <2>2, <2>3, NameAtMeans
    <2>5. QED
      BY <2>3, <2>4 DEF Places
  <1>6. Min(Places(item, name)) = 1
    <2>1. Places(item, name) \in SUBSET Nat /\ \A p \in Places(item, name) : 1 <= p
      BY <1>4 DEF Places
    <2>2. QED
      BY <1>5, <2>1, Least
  <1>7. Min(Places(query, name)) = s
    <2>1. Places(query, name) \in SUBSET Nat
      BY DEF Places
    <2>2. QED
      BY <1>2, <2>1, Least
  <1>8. ItemFrom(item, 1 + n + 1) = ItemFrom(query, s + n + 1)
    <2>1. n + 1 \in 0..(EndOf(query, s) - s) /\ s \in 1..(Len(query) + 1)
      BY <1>1, <1>2, <1>3
    <2>2. ItemFrom(item, (n + 1) + 1) = ItemFrom(query, s + (n + 1))
      BY <2>1, RestOfItem
    <2>3. 1 + n + 1 = (n + 1) + 1 /\ s + n + 1 = s + (n + 1)
      BY <1>1, <1>2
    <2>4. QED
      BY <2>2, <2>3
  <1> HIDE DEF item
  <1>9. GetVar(item, name) = Decode(ItemFrom(item, 1 + n + 1))
    BY <1>5, <1>6 DEF GetVar, Places
  <1>10. GetVar(query, name) = Decode(ItemFrom(query, s + n + 1))
    BY <1>7 DEF GetVar, Places
  <1>11. QED
    BY <1>8, <1>9, <1>10 DEF item

LEMMA StoresByItem ==
  ASSUME NEW query \in Seq(Nat), NEW name \in Names
  PROVE  LET Item(s) == ItemFrom(query, s)
             mine == {s \in Starts(query) : Holds(Item(s), name)}
         IN  Stores(query)[name] = IF mine = {} THEN {}
                                   ELSE Stores(Item(Min(mine)))[name]
  <1>1. Places(query, name) = {s \in Starts(query) : Holds(ItemFrom(query, s), name)}
    BY PlacesAreItems
  <1>2. CASE Places(query, name) = {}
    <2>1. GetVar(query, name) = NotFound
      BY <1>2 DEF GetVar, Places
    <2>2. Stores(query)[name] = {}
      BY <2>1 DEF Stores, NotFound
    <2>3. QED
      BY <1>1, <1>2, <2>2
  <1>3. CASE Places(query, name) # {}
    <2> DEFINE first == Min(Places(query, name))
    <2>1. Places(query, name) \in SUBSET Nat
      BY DEF Places
    <2>2. first \in Places(query, name) /\ \A p \in Places(query, name) : first <= p
      BY <1>3, <2>1, Least
    <2>3. GetVar(ItemFrom(query, first), name) = GetVar(query, name)
      BY <2>2, ItemAlone
    <2>4. Stores(ItemFrom(query, first))[name] = Stores(query)[name]
      BY <2>3 DEF Stores
    <2>5. QED
      BY <1>1, <1>3, <2>4
  <1>4. QED
    BY <1>2, <1>3

-----------------------------------------------------------------------------
(* The decoder *)

Code(src, i) == 16 * HexToI(src[i + 1]) + HexToI(src[i + 2])
Char(c) == IF c = Plus THEN Space ELSE c

\* mg_url_decode from each position on.
Decodes(d, src) ==
    /\ d[Len(src) + 1] = <<>>
    /\ \A i \in 1..Len(src) :
          d[i] = IF IsEscape(src, i) THEN <<Code(src, i)>> \o d[i + 3]
                 ELSE <<Char(src[i])>> \o d[i + 1]

Fitted(all) == [text |-> IF Len(all) <= Room THEN all ELSE SubSeq(all, 1, Room),
                whole |-> Len(all) <= Room]

\* From the end of the text to its start, every position has its value.
LEMMA DecodingExists ==
  ASSUME NEW src \in Seq(Nat)
  PROVE  \E f \in [0..Len(src) -> Seq(Int)] :
            \A k \in 0..Len(src) :
               f[k] = IF k = 0 THEN <<>>
                      ELSE IF IsEscape(src, Len(src) + 1 - k)
                           THEN <<Code(src, Len(src) + 1 - k)>> \o f[k - 3]
                           ELSE <<Char(src[Len(src) + 1 - k])>> \o f[k - 1]
  <1> DEFINE n == Len(src)
             S == Seq(Int)
             Fs == [0..n -> S]
             Value(k, f) == IF k = 0 THEN <<>>
                            ELSE IF IsEscape(src, n + 1 - k)
                                 THEN <<Code(src, n + 1 - k)>> \o f[k - 3]
                                 ELSE <<Char(src[n + 1 - k])>> \o f[k - 1]
             step == [k \in 0..n |-> [f \in Fs |-> Value(k, f)]]
  <1>1. n \in Nat
    OBVIOUS
  <1>2. ASSUME NEW k \in 0..n, k # 0
        PROVE  /\ n + 1 - k \in 1..n /\ k - 1 \in 0..n /\ k - 1 \in 0..(k - 1)
               /\ IsEscape(src, n + 1 - k) => k - 3 \in 0..n /\ k - 3 \in 0..(k - 1)
    BY <1>1, <1>2 DEF IsEscape
  <1>3. ASSUME NEW k \in 0..n, k # 0
        PROVE  /\ <<Char(src[n + 1 - k])>> \in S
               /\ IsEscape(src, n + 1 - k) => <<Code(src, n + 1 - k)>> \in S
    <2>1. n + 1 - k \in 1..n
      BY <1>2, <1>3
    <2>2. src[n + 1 - k] \in Nat
      BY <2>1
    <2>3. Char(src[n + 1 - k]) \in Int
      BY <2>2 DEF Char, Space
    <2>4. ASSUME IsEscape(src, n + 1 - k)
          PROVE  Code(src, n + 1 - k) \in Int
      <3>1. n + 1 - k + 1 \in 1..n /\ n + 1 - k + 2 \in 1..n
        BY <2>1, <2>4 DEF IsEscape
      <3>2. src[n + 1 - k + 1] \in Nat /\ src[n + 1 - k + 2] \in Nat
        BY <3>1
      <3>3. \A c \in Nat : HexToI(c) \in Int
        BY DEF HexToI, Digits, Lower
      <3>4. HexToI(src[n + 1 - k + 1]) \in Int /\ HexToI(src[n + 1 - k + 2]) \in Int
        BY <3>2, <3>3
      <3>5. QED
        BY <3>4 DEF Code
    <2>5. QED
      BY <2>3, <2>4
  <1> HIDE DEF n
  <1>4. ASSUME NEW k \in 0..n, NEW f \in Fs
        PROVE  Value(k, f) \in S
    <2>1. CASE k = 0
      BY <2>1
    <2>2. CASE k # 0 /\ IsEscape(src, n + 1 - k)
      <3>1. f[k - 3] \in S /\ <<Code(src, n + 1 - k)>> \in S
        BY <1>2, <1>3, <2>2
      <3>2. QED
        BY <2>2, <3>1
    <2>3. CASE k # 0 /\ ~IsEscape(src, n + 1 - k)
      <3>1. f[k - 1] \in S /\ <<Char(src[n + 1 - k])>> \in S
        BY <1>2, <1>3, <2>3
      <3>2. QED
        BY <2>3, <3>1
    <2>4. QED
      BY <2>1, <2>2, <2>3
  <1>5. ASSUME NEW k \in 0..n, NEW f \in Fs, NEW g \in Fs, \A j \in 0..(k - 1) : f[j] = g[j]
        PROVE  Value(k, f) = Value(k, g)
    BY <1>2, <1>5
  <1> HIDE DEF Value
  <1>6. \A k \in 0..n : \A f \in Fs : step[k][f] = Value(k, f)
    OBVIOUS
  <1>7. step \in [0..n -> [Fs -> S]]
    BY <1>4
  <1> HIDE DEF step
  <1>8. LooksBack(step, n, S)
    <2>1. SUFFICES ASSUME NEW k \in 0..n, NEW f \in Fs, NEW g \in Fs,
                          \A j \in 0..(k - 1) : f[j] = g[j]
                   PROVE  step[k][f] = step[k][g]
      BY DEF LooksBack
    <2>2. Value(k, f) = Value(k, g)
      BY <1>5, <2>1
    <2>3. QED
      BY <1>6, <2>2
  <1>9. S # {}
    OBVIOUS
  <1> HIDE DEF S
  <1>10. \E f \in Fs : Follows(f, step, n)
    BY <1>1, <1>7, <1>8, <1>9, Recursion
  <1>11. \E f \in Fs : \A k \in 0..n : f[k] = Value(k, f)
    BY <1>6, <1>10 DEF Follows
  <1>12. QED
    BY <1>11 DEF n, S, Value

LEMMA DecodeIs ==
  ASSUME NEW src \in Seq(Nat)
  PROVE  \E d : Decodes(d, src) /\ Decode(src) = Fitted(d[1])
  <1> DEFINE n == Len(src)
             from == CHOOSE d : d = [i \in 1..(n + 1) |->
                        IF i > n THEN <<>>
                        ELSE IF IsEscape(src, i)
                        THEN <<16 * HexToI(src[i + 1]) + HexToI(src[i + 2])>> \o d[i + 3]
                        ELSE <<IF src[i] = Plus THEN Space ELSE src[i]>> \o d[i + 1]]
  <1>1. n \in Nat
    OBVIOUS
  <1>2. PICK f \in [0..n -> Seq(Int)] :
           \A k \in 0..n :
              f[k] = IF k = 0 THEN <<>>
                     ELSE IF IsEscape(src, n + 1 - k)
                          THEN <<Code(src, n + 1 - k)>> \o f[k - 3]
                          ELSE <<Char(src[n + 1 - k])>> \o f[k - 1]
    BY DecodingExists
  <1> DEFINE h == [i \in 1..(n + 1) |-> f[n + 1 - i]]
  <1>3. h = [i \in 1..(n + 1) |->
               IF i > n THEN <<>>
               ELSE IF IsEscape(src, i) THEN <<Code(src, i)>> \o h[i + 3]
               ELSE <<Char(src[i])>> \o h[i + 1]]
    <2>1. ASSUME NEW i \in 1..(n + 1)
          PROVE  f[n + 1 - i] = IF i > n THEN <<>>
                                ELSE IF IsEscape(src, i) THEN <<Code(src, i)>> \o h[i + 3]
                                ELSE <<Char(src[i])>> \o h[i + 1]
      <3> DEFINE k == n + 1 - i
      <3>1. k \in 0..n /\ (i > n <=> k = 0) /\ n + 1 - k = i
        BY <1>1
      <3>2. ASSUME i <= n
            PROVE  h[i + 1] = f[k - 1]
        BY <1>1, <3>2
      <3>3. ASSUME IsEscape(src, i)
            PROVE  h[i + 3] = f[k - 3]
        <4>1. i + 3 \in 1..(n + 1) /\ n + 1 - (i + 3) = k - 3
          BY <1>1, <3>3 DEF IsEscape
        <4>2. QED
          BY <4>1
      <3> HIDE DEF k, h
      <3>4. f[k] = IF k = 0 THEN <<>>
                   ELSE IF IsEscape(src, i) THEN <<Code(src, i)>> \o f[k - 3]
                   ELSE <<Char(src[i])>> \o f[k - 1]
        BY <1>2, <3>1
      <3>5. f[k] = IF i > n THEN <<>>
                   ELSE IF IsEscape(src, i) THEN <<Code(src, i)>> \o h[i + 3]
                   ELSE <<Char(src[i])>> \o h[i + 1]
        BY <1>1, <3>1, <3>2, <3>3, <3>4
      <3>6. QED
        BY <3>5 DEF k
    <2>2. QED
      BY <2>1
  <1> HIDE DEF h
  <1>4. from = [i \in 1..(n + 1) |->
                  IF i > n THEN <<>>
                  ELSE IF IsEscape(src, i)
                  THEN <<16 * HexToI(src[i + 1]) + HexToI(src[i + 2])>> \o from[i + 3]
                  ELSE <<IF src[i] = Plus THEN Space ELSE src[i]>> \o from[i + 1]]
    BY <1>3 DEF Code, Char
  <1>5. Decode(src) = Fitted(from[1])
    BY DEF Decode, Fitted
  <1> HIDE DEF from
  <1>6. Decodes(from, src)
    <2>1. n + 1 \in 1..(n + 1) /\ n + 1 > n /\ \A i \in 1..n : i \in 1..(n + 1) /\ ~(i > n)
      BY <1>1
    <2>2. QED
      BY <1>4, <2>1 DEF Decodes, Code, Char
  <1>7. QED
    BY <1>5, <1>6

-----------------------------------------------------------------------------
(* Decoding what the device has encoded *)

LEMMA HexIs ==
  ASSUME NEW d \in 0..15, NEW upper \in BOOLEAN
  PROVE  /\ HexDigit(d, upper) \in Nat \ {And} /\ IsHex(HexDigit(d, upper))
         /\ HexToI(HexDigit(d, upper)) = d
  <1>1. CASE d < 10
    <2>1. HexDigit(d, upper) = 48 + d
      BY <1>1 DEF HexDigit
    <2>2. 48 + d \in Digits /\ 48 + d # And /\ (48 + d) - 48 = d
      BY <1>1 DEF Digits, And
    <2>3. QED
      BY <2>1, <2>2 DEF IsHex, HexToI
  <1>2. CASE ~(d < 10) /\ upper
    <2>1. HexDigit(d, upper) = 55 + d
      BY <1>2 DEF HexDigit
    <2>2. /\ 55 + d \in 65..90 /\ 55 + d \notin 48..57 /\ 55 + d # 38
          /\ 55 + d + 32 \in 97..102 /\ 55 + d + 32 - 87 = d
      BY <1>2
    <2>3. QED
      BY <2>1, <2>2 DEF IsHex, HexToI, Digits, Lower, And
  <1>3. CASE ~(d < 10) /\ ~upper
    <2>1. HexDigit(d, upper) = 87 + d
      BY <1>3 DEF HexDigit
    <2>2. /\ 87 + d \notin 65..90 /\ 87 + d \notin 48..57 /\ 87 + d # 38
          /\ 87 + d \in 97..102 /\ 87 + d - 87 = d
      BY <1>3
    <2>3. QED
      BY <2>1, <2>2 DEF IsHex, HexToI, Digits, Lower, And
  <1>4. QED
    BY <1>1, <1>2, <1>3

LEMMA CharIs ==
  ASSUME NEW c \in Bytes, NEW style \in Styles
  PROVE  LET w == EncodeChar(c, style)
         IN  /\ w \in Seq(Nat) /\ \A k \in 1..Len(w) : w[k] # And
             /\ \/ /\ Len(w) = 3 /\ w[1] = Percent /\ IsHex(w[2]) /\ IsHex(w[3])
                   /\ 16 * HexToI(w[2]) + HexToI(w[3]) = c
                \/ Len(w) = 1 /\ w[1] # Percent /\ Char(w[1]) = c
  <1>1. style.upper \in BOOLEAN /\ c \in Nat
    BY DEF Styles, Bytes
  <1>2. CASE c \in Meaning \/ style.all
    <2> DEFINE a == HexDigit(c \div 16, style.upper)
               b == HexDigit(c % 16, style.upper)
    <2>1. c \div 16 \in 0..15 /\ c % 16 \in 0..15 /\ (16 * (c \div 16)) + (c % 16) = c
      <3>1. c \in 0..255
        BY DEF Bytes
      <3>2. c % 16 \in 0..15
        BY <3>1
      <3>3. c \div 16 \in 0..15
        BY <3>1
      <3>4. (16 * (c \div 16)) + (c % 16) = c
        BY <3>1
      <3>5. QED
        BY <3>2, <3>3, <3>4
    <2>2. /\ a \in Nat \ {And} /\ IsHex(a) /\ HexToI(a) = c \div 16
          /\ b \in Nat \ {And} /\ IsHex(b) /\ HexToI(b) = c % 16
      BY <1>1, <2>1, HexIs
    <2>3. EncodeChar(c, style) = <<Percent, a, b>>
      BY <1>2 DEF EncodeChar
    <2> HIDE DEF a, b
    <2>4. Percent \in Nat \ {And}
      BY DEF Percent, And
    <2> DEFINE w == <<Percent, a, b>>
    <2>5. /\ w \in Seq(Nat) /\ Len(w) = 3
          /\ w[1] = Percent /\ w[2] = a /\ w[3] = b
      BY <2>2, <2>4
    <2> HIDE DEF w
    <2>6. \A k \in 1..Len(w) : w[k] # And
      <3>1. \A k \in 1..3 : k = 1 \/ k = 2 \/ k = 3
        OBVIOUS
      <3>2. QED
        BY <2>2, <2>4, <2>5, <3>1
    <2>7. (16 * HexToI(w[2])) + HexToI(w[3]) = c
      BY <2>1, <2>2, <2>5
    <2>8. QED
      BY <2>2, <2>3, <2>5, <2>6, <2>7 DEF w
  <1>3. CASE ~(c \in Meaning \/ style.all) /\ c = Space
    <2>1. EncodeChar(c, style) = <<Plus>>
      BY <1>3 DEF EncodeChar
    <2>2. Plus \in Nat /\ Plus # And /\ Plus # Percent /\ Char(Plus) = c
      BY <1>3 DEF Plus, And, Percent, Char
    <2>3. QED
      BY <2>1, <2>2
  <1>4. CASE ~(c \in Meaning \/ style.all) /\ c # Space
    <2>1. EncodeChar(c, style) = <<c>>
      BY <1>4 DEF EncodeChar
    <2>2. c # And /\ c # Percent /\ Char(c) = c
      BY <1>4 DEF Meaning, Char
    <2>3. QED
      BY <1>1, <2>1, <2>2
  <1>5. QED
    BY <1>2, <1>3, <1>4

\* The text again, or what of it fits.
LEMMA DecodeUndoes ==
  ASSUME NEW text \in Seq(Bytes), NEW style \in Styles
  PROVE  /\ EncodeText(text, style) \in Seq(Nat)
         /\ \A k \in 1..Len(EncodeText(text, style)) : EncodeText(text, style)[k] # And
         /\ Decode(EncodeText(text, style)) = Fitted(text)
  <1> DEFINE n == Len(text)
             pieces == [k \in 1..n |-> EncodeChar(text[k], style)]
             src == EncodeText(text, style)
  <1>1. n \in Nat /\ \A k \in 1..n : text[k] \in Bytes
    OBVIOUS
  <1>2. text \in Seq(Nat)
    <2>1. Bytes \subseteq Nat
      BY DEF Bytes
    <2>2. \A k \in 1..n : text[k] \in Nat
      BY <1>1, <2>1
    <2>3. text \in [1..n -> Bytes]
      OBVIOUS
    <2> HIDE DEF n
    <2>4. text \in [1..n -> Nat]
      BY <2>2, <2>3
    <2>5. QED
      BY <1>1, <2>4, SeqDef
  <1>3. \A k \in 1..n : pieces[k] = EncodeChar(text[k], style)
    OBVIOUS
  <1>4. \A k \in 1..n :
           /\ pieces[k] \in Seq(Nat) /\ \A j \in 1..Len(pieces[k]) : pieces[k][j] # And
           /\ \/ /\ Len(pieces[k]) = 3 /\ pieces[k][1] = Percent
                 /\ IsHex(pieces[k][2]) /\ IsHex(pieces[k][3])
                 /\ 16 * HexToI(pieces[k][2]) + HexToI(pieces[k][3]) = text[k]
              \/ Len(pieces[k]) = 1 /\ pieces[k][1] # Percent /\ Char(pieces[k][1]) = text[k]
    BY <1>1, <1>3, CharIs
  <1>5. pieces \in [1..n -> Seq(Nat)]
    BY <1>4
  <1>6. src = FlattenSeq(pieces)
    BY DEF EncodeText
  <1> HIDE DEF n, pieces, src
  <1>7. PICK f \in [0..n -> Seq(Nat)] : /\ f[0] = <<>>
                                        /\ \A k \in 1..n : f[k] = f[k - 1] \o pieces[k]
                                        /\ src = f[n]
    BY <1>1, <1>5, <1>6, Flatten
  <1>8. \A k \in 1..n : /\ Len(f[k]) = Len(f[k - 1]) + Len(pieces[k])
                        /\ Len(f[k]) <= Len(src)
                        /\ \A j \in 1..Len(pieces[k]) : src[Len(f[k - 1]) + j] = pieces[k][j]
    BY <1>1, <1>5, <1>7, WherePiecesAre
  <1>9. src \in Seq(Nat) /\ Len(src) \in Nat /\ \A k \in 0..n : Len(f[k]) \in Nat
    BY <1>1, <1>7
  <1>10. PICK d : Decodes(d, src) /\ Decode(src) = Fitted(d[1])
    BY <1>9, DecodeIs
  <1>11. \A k \in 1..n : k \in 0..n /\ k - 1 \in 0..n
    BY <1>1
  <1>12. ASSUME NEW k \in 1..n
         PROVE  d[Len(f[k - 1]) + 1] = <<text[k]>> \o d[Len(f[k]) + 1]
    <2> DEFINE p == Len(f[k - 1]) + 1
               w == pieces[k]
    <2>1. /\ Len(f[k]) = p - 1 + Len(w) /\ Len(f[k]) <= Len(src)
          /\ \A j \in 1..Len(w) : src[p - 1 + j] = w[j]
      <3>1. p - 1 = Len(f[k - 1])
        BY <1>9, <1>11
      <3>2. QED
        BY <1>8, <3>1
    <2>2. p \in Nat \ {0} /\ Len(f[k]) \in Nat
      BY <1>9, <1>11
    <2> HIDE DEF p, w
    <2>3. CASE /\ Len(w) = 3 /\ w[1] = Percent /\ IsHex(w[2]) /\ IsHex(w[3])
               /\ 16 * HexToI(w[2]) + HexToI(w[3]) = text[k]
      <3>1. src[p] = w[1] /\ src[p + 1] = w[2] /\ src[p + 2] = w[3]
        <4>1. /\ 1 \in 1..3 /\ 2 \in 1..3 /\ 3 \in 1..3
              /\ p - 1 + 1 = p /\ p - 1 + 2 = p + 1 /\ p - 1 + 3 = p + 2
          BY <2>2
        <4>2. QED
          BY <2>1, <2>3, <4>1
      <3>2. p \in 1..Len(src) /\ p + 2 <= Len(src) /\ Len(f[k]) + 1 = p + 3
        BY <1>9, <2>1, <2>2, <2>3
      <3>3. IsEscape(src, p) /\ Code(src, p) = text[k]
        BY <2>3, <3>1, <3>2 DEF IsEscape, Code
      <3>4. d[p] = <<text[k]>> \o d[p + 3]
        BY <1>10, <3>2, <3>3 DEF Decodes
      <3>5. QED
        BY <3>2, <3>4 DEF p
    <2>4. CASE Len(w) = 1 /\ w[1] # Percent /\ Char(w[1]) = text[k]
      <3>1. src[p] = w[1]
        <4>1. 1 \in 1..1 /\ p - 1 + 1 = p
          BY <2>2
        <4>2. QED
          BY <2>1, <2>4, <4>1
      <3>2. p \in 1..Len(src) /\ Len(f[k]) + 1 = p + 1
        BY <1>9, <2>1, <2>2, <2>4
      <3>3. ~IsEscape(src, p) /\ Char(src[p]) = text[k]
        BY <2>4, <3>1 DEF IsEscape
      <3>4. d[p] = <<text[k]>> \o d[p + 1]
        BY <1>10, <3>2, <3>3 DEF Decodes
      <3>5. QED
        BY <3>2, <3>4 DEF p
    <2>5. QED
      BY <1>4, <2>3, <2>4 DEF w
  <1> DEFINE T == {m \in 0..n : d[Len(f[n - m]) + 1] = SubSeq(text, n - m + 1, n)}
  <1>13. 0 \in T
    <2>1. 0 \in 0..n /\ n - 0 = n /\ n + 1 \in 1..(n + 1) /\ n \in (n + 1 - 1)..n
          /\ n - (n + 1) + 1 = 0
      BY <1>1
    <2>2. d[Len(f[n]) + 1] = <<>>
      BY <1>7, <1>10 DEF Decodes
    <2>3. SubSeq(text, n + 1, n) = <<>>
      BY <1>2, <2>1, Part DEF n
    <2>4. QED
      BY <2>1, <2>2, <2>3
  <1>14. ASSUME NEW m \in 0..(n - 1), m \in T
         PROVE  m + 1 \in T
    <2> DEFINE k == n - m
    <2>1. /\ k \in 1..n /\ n - (m + 1) = k - 1 /\ n - (m + 1) + 1 = k
          /\ m + 1 \in 0..n
      BY <1>1
    <2>2. d[Len(f[k]) + 1] = SubSeq(text, k + 1, n)
      BY <1>14
    <2> HIDE DEF k
    <2>3. <<text[k]>> \o SubSeq(text, k + 1, n) = SubSeq(text, k, n)
      BY <1>2, <2>1, HeadAndTail DEF n
    <2>4. d[Len(f[k - 1]) + 1] = SubSeq(text, k, n)
      BY <1>12, <2>1, <2>2, <2>3
    <2>5. QED
      BY <2>1, <2>4
  <1>15. d[1] = text
    <2> HIDE DEF T
    <2>1. \A m \in 0..n : m \in T
      BY <1>1, <1>13, <1>14, Induction
    <2>2. n \in 0..n /\ n - n = 0 /\ 0 + 1 = 1 /\ Len(<<>>) = 0
      BY <1>1
    <2>3. d[Len(f[0]) + 1] = SubSeq(text, 1, n)
      BY <2>1, <2>2 DEF T
    <2>4. SubSeq(text, 1, n) = text
      BY <1>2 DEF n
    <2>5. QED
      BY <1>7, <2>2, <2>3, <2>4
  <1>16. ASSUME NEW i \in 1..Len(src)
         PROVE  src[i] # And
    <2> DEFINE U == {k \in 0..n : \A j \in 1..Len(f[k]) : f[k][j] # And}
    <2>1. 0 \in U
      BY <1>1, <1>7
    <2>2. ASSUME NEW m \in 0..(n - 1), m \in U
          PROVE  m + 1 \in U
      <3> DEFINE k == m + 1
      <3>1. k \in 1..n /\ k \in 0..n /\ k - 1 = m /\ m \in 0..n
        BY <1>1
      <3>2. f[k] = f[m] \o pieces[k]
        BY <1>7, <3>1
      <3> HIDE DEF k
      <3>3. f[m] \in Seq(Nat) /\ pieces[k] \in Seq(Nat)
        BY <1>4, <1>7, <3>1
      <3>4. \A j \in 1..Len(f[m]) : f[m][j] # And
        BY <2>2
      <3>5. \A j \in 1..Len(pieces[k]) : pieces[k][j] # And
        BY <1>4, <3>1
      <3>6. \A j \in 1..Len(f[m] \o pieces[k]) : (f[m] \o pieces[k])[j] # And
        BY <3>3, <3>4, <3>5, JoinedWithout
      <3>7. QED
        BY <3>1, <3>2, <3>6 DEF k
    <2> HIDE DEF U
    <2>3. \A k \in 0..n : k \in U
      BY <1>1, <2>1, <2>2, Induction
    <2>4. n \in 0..n
      BY <1>1
    <2>5. QED
      BY <1>7, <2>3, <2>4 DEF U
  <1>17. QED
    BY <1>9, <1>10, <1>15, <1>16 DEF src

-----------------------------------------------------------------------------
(* One item behind others *)

LEMMA EndFound ==
  ASSUME NEW query \in Seq(Nat), NEW p \in 1..(Len(query) + 1),
         NEW e \in p..(Len(query) + 1),
         \A k \in p..(e - 1) : query[k] # And,
         e <= Len(query) => query[e] = And
  PROVE  EndOf(query, p) = e
  <1> DEFINE m == EndOf(query, p)
  <1>1. /\ m \in p..(Len(query) + 1)
        /\ \A k \in p..(m - 1) : query[k] # And
        /\ m <= Len(query) => query[m] = And
    BY EndIs
  <1> HIDE DEF m
  <1>2. ~(m < e)
    BY <1>1
  <1>3. ~(e < m)
    BY <1>1
  <1>4. QED
    BY <1>1, <1>2, <1>3 DEF m

\* A text without an & is one item.
LEMMA SingleItem ==
  ASSUME NEW item \in Seq(Nat), \A j \in 1..Len(item) : item[j] # And
  PROVE  /\ Starts(item) = {1}
         /\ ItemFrom(item, 1) = item
         /\ \A p \in 1..(Len(item) + 1) : EndOf(item, p) = Len(item) + 1
  <1>1. Starts(item) = {1}
    BY DEF Starts
  <1>2. Len(item) \in Nat
    OBVIOUS
  <1>3. ASSUME NEW p \in 1..(Len(item) + 1)
        PROVE  EndOf(item, p) = Len(item) + 1
    <2>1. Len(item) + 1 \in p..(Len(item) + 1) /\ ~(Len(item) + 1 <= Len(item))
      BY <1>2
    <2>2. \A k \in p..(Len(item) + 1 - 1) : item[k] # And
      BY <1>2
    <2>3. QED
      BY <2>1, <2>2, EndFound
  <1> DEFINE s == ItemFrom(item, 1)
  <1>4. s \in Seq(Nat) /\ Len(s) = Len(item) /\ \A k \in 1..Len(item) : s[k] = item[k]
    <2>1. 1 \in 1..(Len(item) + 1) /\ Len(item) + 1 - 1 = Len(item)
          /\ \A k \in 1..Len(item) : 1 + k - 1 = k
      BY <1>2
    <2>2. EndOf(item, 1) = Len(item) + 1
      BY <1>3, <2>1
    <2>3. QED
      BY <2>1, <2>2, ItemIs
  <1> HIDE DEF s
  <1>5. s = item
    BY <1>4, SeqEqual
  <1>6. QED
    BY <1>1, <1>3, <1>5 DEF s

Adds(both, query, item) == both = query \o (<<And>> \o item)

\* An item that is added to a query is found by itself, and changes none before it.
LEMMA ItemsOfBoth ==
  ASSUME NEW query \in Seq(Nat), NEW item \in Seq(Nat), NEW both \in Seq(Nat),
         \A j \in 1..Len(item) : item[j] # And, Adds(both, query, item)
  PROVE  /\ Starts(both) = Starts(query) \cup {Len(query) + 2}
         /\ \A s \in Starts(query) : ItemFrom(both, s) = ItemFrom(query, s)
         /\ ItemFrom(both, Len(query) + 2) = item
  <1> DEFINE m == Len(query)
             n == Len(item)
             last == ItemFrom(both, m + 2)
  <1>1. m \in Nat /\ n \in Nat
    OBVIOUS
  <1>2. /\ Len(both) = m + n + 1
        /\ \A j \in 1..m : both[j] = query[j]
        /\ both[m + 1] = And
        /\ \A j \in 1..n : both[m + 1 + j] = item[j]
    <2> DEFINE t == <<And>> \o item
    <2>1. <<And>> \in Seq(Nat) /\ Len(<<And>>) = 1 /\ <<And>>[1] = And
      BY DEF And
    <2>2. /\ t \in Seq(Nat) /\ Len(t) = 1 + n
          /\ t[1] = And /\ \A j \in 1..n : t[1 + j] = item[j]
      <3>1. 1 \in 1..1
        OBVIOUS
      <3>2. QED
        BY <2>1, <3>1, Joined
    <2>3. both = query \o t
      BY DEF Adds
    <2> HIDE DEF t
    <2>4. /\ Len(both) = m + (1 + n)
          /\ \A j \in 1..m : both[j] = query[j]
          /\ \A j \in 1..(1 + n) : both[m + j] = t[j]
      <3>1. /\ Len(query \o t) = Len(query) + Len(t)
            /\ \A j \in 1..Len(query) : (query \o t)[j] = query[j]
            /\ \A j \in 1..Len(t) : (query \o t)[Len(query) + j] = t[j]
        BY <2>2, Joined
      <3>2. QED
        BY <2>2, <2>3, <3>1
    <2>5. \A j \in 1..n : 1 + j \in 1..(1 + n) /\ m + (1 + j) = m + 1 + j
      BY <1>1
    <2>6. 1 \in 1..(1 + n) /\ m + (1 + n) = m + n + 1
      BY <1>1
    <2>7. QED
      BY <2>2, <2>4, <2>5, <2>6
  <1>3. \A j \in 1..n : item[j] # And
    OBVIOUS
  <1> HIDE DEF n
  <1>4. ASSUME NEW k \in (m + 2)..(m + n + 1)
        PROVE  both[k] # And
    <2>1. k - m - 1 \in 1..n /\ m + 1 + (k - m - 1) = k
      BY <1>1
    <2>2. QED
      BY <1>2, <1>3, <2>1
  <1>5. Starts(both) = Starts(query) \cup {m + 2}
    <2>1. ASSUME NEW k \in 1..Len(both)
          PROVE  both[k] = And <=> k = m + 1 \/ (k \in 1..m /\ query[k] = And)
      <3>1. k \in 1..m \/ k = m + 1 \/ k \in (m + 2)..(m + n + 1)
        BY <1>1, <1>2
      <3>2. m + 1 \notin 1..m /\ \A j \in (m + 2)..(m + n + 1) : j # m + 1 /\ j \notin 1..m
        BY <1>1
      <3>3. QED
        BY <1>2, <1>4, <3>1, <3>2
    <2>2. m + 1 \in 1..Len(both) /\ m + 1 + 1 = m + 2 /\ 1..m \subseteq 1..Len(both)
      BY <1>1, <1>2
    <2>3. {k \in 1..Len(both) : both[k] = And} = {k \in 1..m : query[k] = And} \cup {m + 1}
      BY <2>1, <2>2
    <2> DEFINE A == {k \in 1..m : query[k] = And}
               B == {k \in 1..Len(both) : both[k] = And}
    <2>4. Starts(query) = {1} \cup {k + 1 : k \in A} /\ Starts(both) = {1} \cup {k + 1 : k \in B}
      BY DEF Starts
    <2>5. B = A \cup {m + 1}
      BY <2>3
    <2> HIDE DEF A, B
    <2>6. {k + 1 : k \in B} = {k + 1 : k \in A} \cup {m + 2}
      BY <2>2, <2>5
    <2>7. QED
      BY <2>4, <2>6
  <1>6. ASSUME NEW s \in Starts(query)
        PROVE  ItemFrom(both, s) = ItemFrom(query, s)
    <2> DEFINE e == EndOf(query, s)
               a == ItemFrom(both, s)
               b == ItemFrom(query, s)
    <2>1. s \in 1..(m + 1) /\ s \in 1..(Len(both) + 1)
      BY <1>1, <1>2 DEF Starts
    <2>2. /\ e \in s..(m + 1)
          /\ \A k \in s..(e - 1) : query[k] # And
          /\ e <= m => query[e] = And
      BY <2>1, EndIs
    <2>3. /\ b \in Seq(Nat) /\ Len(b) = e - s
          /\ \A k \in 1..(e - s) : b[k] = query[s + k - 1]
      BY <2>1, ItemIs
    <2> HIDE DEF e
    <2>4. EndOf(both, s) = e
      <3>1. e \in s..(Len(both) + 1)
        BY <1>1, <1>2, <2>1, <2>2
      <3>2. ASSUME NEW k \in s..(e - 1)
            PROVE  both[k] # And
        <4>1. k \in 1..m
          BY <1>1, <2>1, <2>2
        <4>2. QED
          BY <1>2, <2>2, <4>1
      <3>3. both[e] = And
        <4>1. CASE e = m + 1
          BY <1>2, <4>1
        <4>2. CASE e # m + 1
          <5>1. e \in 1..m /\ e <= m
            BY <1>1, <2>1, <2>2, <4>2
          <5>2. QED
            BY <1>2, <2>2, <5>1
        <4>3. QED
          BY <4>1, <4>2
      <3>4. QED
        BY <2>1, <3>1, <3>2, <3>3, EndFound
    <2>5. /\ a \in Seq(Nat) /\ Len(a) = e - s
          /\ \A k \in 1..(e - s) : a[k] = both[s + k - 1]
      BY <2>1, <2>4, ItemIs
    <2> HIDE DEF a, b
    <2>6. ASSUME NEW k \in 1..Len(a)
          PROVE  a[k] = b[k]
      <3>1. k \in 1..(e - s) /\ s + k - 1 \in 1..m
        BY <1>1, <2>1, <2>2, <2>5
      <3>2. QED
        BY <1>2, <2>3, <2>5, <3>1
    <2>7. a = b
      BY <2>3, <2>5, <2>6, SeqEqual
    <2>8. QED
      BY <2>7 DEF a, b
  <1>7. last = item
    <2> DEFINE p == m + 2
               e == Len(both) + 1
    <2>1. /\ p \in 1..(Len(both) + 1) /\ e - p = n
          /\ e \in p..(Len(both) + 1) /\ ~(e <= Len(both))
      BY <1>1, <1>2
    <2>2. \A k \in p..(e - 1) : both[k] # And
      BY <1>1, <1>2, <1>4
    <2>3. last = ItemFrom(both, p) /\ \A k \in 1..n : p + k - 1 = m + 1 + k
      BY <1>1
    <2> HIDE DEF p, e, last, m
    <2>4. EndOf(both, p) = e
      BY <2>1, <2>2, EndFound
    <2>5. /\ last \in Seq(Nat) /\ Len(last) = n
          /\ \A k \in 1..n : last[k] = both[p + k - 1]
      <3>1. /\ ItemFrom(both, p) \in Seq(Nat)
            /\ Len(ItemFrom(both, p)) = e - p
            /\ \A k \in 1..(e - p) : ItemFrom(both, p)[k] = both[p + k - 1]
        BY <2>1, <2>4, ItemIs
      <3>2. QED
        BY <2>1, <2>3, <3>1
    <2>6. Len(last) = Len(item) /\ \A k \in 1..Len(last) : last[k] = item[k]
      BY <1>2, <2>3, <2>5 DEF n
    <2>7. QED
      BY <2>5, <2>6, SeqEqual
  <1>8. QED
    BY <1>5, <1>6, <1>7

\* An item that is added only counts for a name that was not there before.
FoundIn(both, query, item, name) ==
    /\ Places(query, name) # {} \/ Places(item, name) # {} <=> Places(both, name) # {}
    /\ GetVar(both, name) = IF Places(query, name) # {} THEN GetVar(query, name)
                            ELSE GetVar(item, name)

LEMMA AddItem ==
  ASSUME NEW query \in Seq(Nat), NEW item \in Seq(Nat), NEW both \in Seq(Nat),
         NEW name \in Names,
         \A j \in 1..Len(item) : item[j] # And, Adds(both, query, item)
  PROVE  FoundIn(both, query, item, name)
  <1> USE DEF FoundIn
  <1> DEFINE last == Len(query) + 2
  <1>1. /\ Starts(both) = Starts(query) \cup {last}
        /\ \A s \in Starts(query) : ItemFrom(both, s) = ItemFrom(query, s)
        /\ ItemFrom(both, last) = item
    BY ItemsOfBoth
  <1> DEFINE q == Places(query, name)
             i == Places(item, name)
             b == Places(both, name)
  <1>2. q = {s \in Starts(query) : Holds(ItemFrom(query, s), name)}
    BY PlacesAreItems
  <1>3. b = {s \in Starts(both) : Holds(ItemFrom(both, s), name)}
    BY PlacesAreItems
  <1>4. i = IF Holds(item, name) THEN {1} ELSE {}
    <2>1. i = {s \in {1} : Holds(ItemFrom(item, s), name)}
      BY SingleItem, PlacesAreItems
    <2>2. QED
      BY <2>1, SingleItem
  <1>5. last \in Nat /\ \A s \in q : s \in Nat /\ s < last
    BY DEF Places
  <1> HIDE DEF q, i, b, last
  <1>6. b = IF i # {} THEN q \cup {last} ELSE q
    BY <1>1, <1>2, <1>3, <1>4
  <1>7. CASE q # {}
    <2>1. q \in SUBSET Nat
      BY <1>5
    <2>2. Min(q) \in q /\ \A p \in q : Min(q) <= p
      BY <1>7, <2>1, Least
    <2> DEFINE s == Min(q)
    <2>3. s \in q /\ s \in b /\ \A p \in q : s <= p
      BY <1>6, <2>2
    <2> HIDE DEF s
    <2>4. \A p \in b : s <= p
      BY <1>5, <1>6, <2>3
    <2>5. GetVar(ItemFrom(both, s), name) = GetVar(both, name)
      BY <2>3, <2>4, ItemAlone DEF b
    <2>6. GetVar(ItemFrom(query, s), name) = GetVar(query, name)
      BY <2>3, ItemAlone DEF q
    <2>7. QED
      BY <1>1, <1>2, <1>6, <1>7, <2>3, <2>5, <2>6 DEF q, i, b
  <1>8. CASE q = {} /\ i # {}
    <2>1. b = {last}
      BY <1>6, <1>8
    <2>2. last \in b /\ \A p \in b : last <= p
      BY <1>5, <2>1
    <2>3. GetVar(ItemFrom(both, last), name) = GetVar(both, name)
      BY <2>2, ItemAlone DEF b
    <2>4. QED
      BY <1>1, <1>8, <2>1, <2>3 DEF q, i, b
  <1>9. CASE q = {} /\ i = {}
    <2>1. b = {}
      BY <1>6, <1>9
    <2>2. GetVar(both, name) = NotFound /\ GetVar(item, name) = NotFound
      BY <1>9, <2>1 DEF GetVar, Places, b, i
    <2>3. QED
      BY <1>9, <2>1, <2>2 DEF q, i, b
  <1>10. QED
    BY <1>7, <1>8, <1>9

LEMMA AnyItem ==
  \A name \in Names : \A query, item, both \in Seq(Nat) :
     (\A j \in 1..Len(item) : item[j] # And) /\ Adds(both, query, item)
        => FoundIn(both, query, item, name)
  BY AddItem

-----------------------------------------------------------------------------
(* What the device sends *)

FormItem == [name : Names, text : Seq(Bytes)]

LEMMA EncodedName ==
  ASSUME NEW name \in Names, NEW style \in Styles
  PROVE  LET w == EncodeName(name, style)
         IN  /\ w \in Seq(Nat) /\ Len(w) = Len(name)
             /\ \A k \in 1..Len(name) : /\ w[k] # And /\ w[k] # Equals
                                        /\ Lower(w[k]) = Lower(name[k])
  <1> DEFINE n == Len(name)
             Code1(k) == IF style.upper /\ name[k] \in 97..122 THEN name[k] - 32 ELSE name[k]
  <1>1. n \in Nat /\ \A k \in 1..n : name[k] \in Letters
    BY NameIs
  <1>2. ASSUME NEW k \in 1..n
        PROVE  Code1(k) \in Letters /\ Lower(Code1(k)) = Lower(name[k])
    <2>1. name[k] \in 65..90 \/ name[k] \in 97..122
      BY <1>1 DEF Letters
    <2>2. CASE style.upper /\ name[k] \in 97..122
      <3> DEFINE c == name[k]
      <3>1. Code1(k) = c - 32 /\ c \in 97..122
        BY <2>2
      <3> HIDE DEF c, Code1
      <3>2. c - 32 \in 65..90 /\ c - 32 + 32 = c /\ c \notin 65..90
        BY <3>1
      <3>3. QED
        BY <3>1, <3>2 DEF Letters, Lower, c
    <2>3. CASE ~(style.upper /\ name[k] \in 97..122)
      BY <1>1, <2>3
    <2>4. QED
      BY <2>2, <2>3
  <1>3. EncodeName(name, style) = [k \in 1..n |-> Code1(k)]
    BY DEF EncodeName
  <1> HIDE DEF Code1, n
  <1>4. \A k \in 1..n : Code1(k) \in Nat /\ Code1(k) # And /\ Code1(k) # Equals
    <2>1. \A c \in Letters : c \in Nat /\ c # And /\ c # Equals
      BY DEF Letters, And, Equals
    <2>2. QED
      BY <1>2, <2>1
  <1>5. /\ [k \in 1..n |-> Code1(k)] \in Seq(Nat)
        /\ Len([k \in 1..n |-> Code1(k)]) = n
        /\ \A k \in 1..n : [j \in 1..n |-> Code1(j)][k] = Code1(k)
    BY <1>1, <1>4
  <1>6. QED
    BY <1>2, <1>3, <1>4, <1>5 DEF n

\* An item is found by its name and no other, and decodes to its text.
LEMMA ItemDecoded ==
  ASSUME NEW item \in FormItem, NEW style \in Styles
  PROVE  /\ EncodeItem(item, style) \in Seq(Nat)
         /\ \A j \in 1..Len(EncodeItem(item, style)) : EncodeItem(item, style)[j] # And
         /\ \A name \in Names :
               /\ Places(EncodeItem(item, style), name) # {} <=> item.name = name
               /\ item.name = name =>
                     GetVar(EncodeItem(item, style), name) = Fitted(item.text)
  <1> DEFINE own == item.name
             n == Len(own)
             a == EncodeName(own, style)
             key == a \o <<Equals>>
             t == EncodeText(item.text, style)
             src == EncodeItem(item, style)
  <1>1. own \in Names /\ item.text \in Seq(Bytes)
    BY DEF FormItem
  <1>2. /\ a \in Seq(Nat) /\ Len(a) = n
        /\ \A k \in 1..n : a[k] # And /\ a[k] # Equals /\ Lower(a[k]) = Lower(own[k])
    BY <1>1, EncodedName
  <1>3. /\ t \in Seq(Nat) /\ \A k \in 1..Len(t) : t[k] # And
        /\ Decode(t) = Fitted(item.text)
    BY <1>1, DecodeUndoes
  <1>4. src = key \o t
    BY DEF EncodeItem
  <1>5. n \in Nat /\ own \in Seq(Nat) /\ \A k \in 1..n : own[k] # Equals
    BY <1>1, NameIs
  <1> HIDE DEF a, t, src, n
  <1>6. /\ key \in Seq(Nat) /\ Len(key) = n + 1
        /\ \A k \in 1..n : key[k] = a[k]
        /\ key[n + 1] = Equals
    <2> DEFINE u == <<Equals>>
    <2>1. u \in Seq(Nat) /\ Len(u) = 1 /\ u[1] = Equals /\ 1 \in 1..1
      BY DEF Equals
    <2> HIDE DEF u
    <2>2. /\ a \o u \in Seq(Nat) /\ Len(a \o u) = Len(a) + Len(u)
          /\ \A j \in 1..Len(a) : (a \o u)[j] = a[j]
          /\ \A j \in 1..Len(u) : (a \o u)[Len(a) + j] = u[j]
      BY <1>2, <2>1, Joined
    <2>3. QED
      BY <1>2, <2>1, <2>2 DEF u
  <1>7. \A k \in 1..Len(key) : key[k] # And
    <2>1. \A k \in 1..(n + 1) : k \in 1..n \/ k = n + 1
      BY <1>5
    <2>2. Equals # And
      BY DEF Equals, And
    <2>3. QED
      BY <1>2, <1>6, <2>1, <2>2
  <1> HIDE DEF key
  <1>8. /\ src \in Seq(Nat) /\ Len(src) = n + 1 + Len(t)
        /\ \A k \in 1..(n + 1) : src[k] = key[k]
        /\ \A k \in 1..Len(t) : src[n + 1 + k] = t[k]
    <2>1. /\ key \o t \in Seq(Nat) /\ Len(key \o t) = Len(key) + Len(t)
          /\ \A j \in 1..Len(key) : (key \o t)[j] = key[j]
          /\ \A j \in 1..Len(t) : (key \o t)[Len(key) + j] = t[j]
      BY <1>3, <1>6, Joined
    <2>2. QED
      BY <1>4, <1>6, <2>1
  <1>9. \A k \in 1..Len(src) : src[k] # And
    BY <1>3, <1>4, <1>6, <1>7, JoinedWithout
  <1>10. Len(t) \in Nat /\ n + 1 \in 1..(n + 1) /\ \A k \in 1..n : k \in 1..(n + 1)
    BY <1>3, <1>5
  <1>11. src[n + 1] = Equals /\ \A k \in 1..n : src[k] = a[k]
    BY <1>6, <1>8, <1>10
  <1>12. /\ Starts(src) = {1} /\ ItemFrom(src, 1) = src
         /\ \A p \in 1..(Len(src) + 1) : EndOf(src, p) = Len(src) + 1
    BY <1>8, <1>9, SingleItem
  <1>13. ASSUME NEW name \in Names, Holds(src, name)
         PROVE  name = own
    <2>1. /\ name \in Seq(Nat) /\ Len(name) \in Nat
          /\ \A k \in 1..Len(name) : name[k] # Equals
      BY NameIs
    <2>2. /\ Len(name) < Len(src) /\ src[Len(name) + 1] = Equals
          /\ \A k \in 1..Len(name) : Lower(name[k]) = Lower(src[k])
      <3>1. /\ Len(name) < Len(src) /\ src[Len(name) + 1] = Equals
            /\ Begins(src, 1, name)
        BY <1>8, <1>13, <2>1, HoldsMeans
      <3>2. \A k \in 1..Len(name) : 1 + k - 1 = k
        BY <2>1
      <3>3. QED
        BY <3>1, <3>2 DEF Begins
    <2>3. ~(Len(name) < n)
      <3>1. SUFFICES ASSUME Len(name) < n
                     PROVE  FALSE
        OBVIOUS
      <3>2. Len(name) + 1 \in 1..n
        BY <1>5, <2>1, <3>1
      <3>3. QED
        BY <1>2, <1>11, <2>2, <3>2
    <2>4. ~(n < Len(name))
      <3>1. SUFFICES ASSUME n < Len(name)
                     PROVE  FALSE
        OBVIOUS
      <3>2. n + 1 \in 1..Len(name)
        BY <1>5, <2>1, <3>1
      <3>3. Lower(name[n + 1]) = Lower(Equals) /\ name[n + 1] # Equals
        BY <1>11, <2>1, <2>2, <3>2
      <3>4. name[n + 1] \in Nat /\ Equals \in Nat
        BY <2>1, <3>2, ElementOfSeq DEF Equals
      <3>5. QED
        BY <3>3, <3>4, LowerIs
    <2>5. Len(name) = n
      BY <1>5, <2>1, <2>3, <2>4
    <2>6. SameIgnoringCase(name, own)
      <3>1. \A k \in 1..Len(name) : Lower(name[k]) = Lower(own[k])
        BY <1>2, <1>11, <2>2, <2>5
      <3>2. QED
        BY <2>5, <3>1 DEF SameIgnoringCase, n
    <2>7. QED
      BY <1>1, <2>6, NamesAssumption
  <1>14. Holds(src, own)
    <2>1. n < Len(src)
      BY <1>5, <1>8, <1>10
    <2>2. Begins(src, 1, own)
      <3>1. \A k \in 1..n : 1 + k - 1 = k
        BY <1>5
      <3>2. QED
        BY <1>2, <1>11, <3>1 DEF Begins, n
    <2>3. QED
      BY <1>5, <1>8, <1>11, <2>1, <2>2, HoldsMeans DEF n
  <1>15. \A name \in Names : Places(src, name) = IF name = own THEN {1} ELSE {}
    <2>1. TAKE name \in Names
    <2>2. Places(src, name) = {s \in {1} : Holds(src, name)}
      <3>1. Places(src, name) = {s \in Starts(src) : Holds(ItemFrom(src, s), name)}
        BY <1>8, PlacesAreItems
      <3>2. QED
        BY <1>12, <3>1
    <2>3. Holds(src, name) <=> name = own
      BY <1>13, <1>14
    <2> HIDE DEF own
    <2>4. QED
      BY <2>2, <2>3
  <1>16. GetVar(src, own) = Decode(ItemFrom(src, n + 2))
    <2>1. Places(src, own) = {1}
      BY <1>1, <1>15
    <2>2. Min({1}) = 1
      BY Least
    <2>3. 1 + n + 1 = n + 2
      BY <1>5
    <2> HIDE DEF own
    <2>4. QED
      BY <2>1, <2>2, <2>3 DEF GetVar, Places, n
  <1>17. ItemFrom(src, n + 2) = t
    <2> DEFINE p == n + 2
               r == ItemFrom(src, p)
    <2>1. p \in 1..(Len(src) + 1) /\ Len(src) + 1 - p = Len(t)
      BY <1>5, <1>8, <1>10
    <2>2. \A k \in 1..Len(t) : p + k - 1 = n + 1 + k
      BY <1>5
    <2> HIDE DEF p
    <2>3. EndOf(src, p) = Len(src) + 1
      BY <1>12, <2>1
    <2>4. /\ r \in Seq(Nat) /\ Len(r) = Len(t)
          /\ \A k \in 1..Len(t) : r[k] = src[p + k - 1]
      <3>1. /\ r \in Seq(Nat) /\ Len(r) = EndOf(src, p) - p
            /\ \A k \in 1..(EndOf(src, p) - p) : r[k] = src[p + k - 1]
        BY <1>8, <2>1, ItemIs
      <3>2. QED
        BY <2>1, <2>3, <3>1
    <2> HIDE DEF r
    <2>5. \A k \in 1..Len(t) : r[k] = t[k]
      BY <1>8, <2>2, <2>4
    <2>6. r = t
      BY <1>3, <2>4, <2>5, SeqEqual
    <2>7. QED
      BY <2>6 DEF r, p
  <1>18. QED
    BY <1>3, <1>8, <1>9, <1>15, <1>16, <1>17 DEF src

\* Of the items with a name, the first one is what mg_get_var finds.
FirstOf(form, k, name) ==
    form[k].name = name /\ \A j \in 1..(k - 1) : form[j].name # name

LEMMA FormDecoded ==
  ASSUME NEW form \in Seq(FormItem), NEW style \in Styles, NEW name \in Names
  PROVE  /\ Encode(form, style) \in Seq(Nat)
         /\ (\A k \in 1..Len(form) : form[k].name # name) =>
               GetVar(Encode(form, style), name) = NotFound
         /\ \A k \in 1..Len(form) : FirstOf(form, k, name) =>
               GetVar(Encode(form, style), name) = Fitted(form[k].text)
  <1> DEFINE n == Len(form)
             I(k) == EncodeItem(form[k], style)
             pieces == [k \in 1..n |-> IF k = 1 THEN I(1) ELSE <<And>> \o I(k)]
             src == Encode(form, style)
  <1>1. n \in Nat /\ \A k \in 1..n : form[k] \in FormItem
    OBVIOUS
  <1>2. \A k \in 1..n :
           /\ I(k) \in Seq(Nat) /\ \A j \in 1..Len(I(k)) : I(k)[j] # And
           /\ Places(I(k), name) # {} <=> form[k].name = name
           /\ form[k].name = name => GetVar(I(k), name) = Fitted(form[k].text)
    BY <1>1, ItemDecoded
  <1>3. src = FlattenSeq(pieces)
    BY DEF Encode
  <1> HIDE DEF I, src
  <1>4. pieces \in [1..n -> Seq(Nat)]
    <2>1. ASSUME NEW k \in 1..n
          PROVE  (IF k = 1 THEN I(1) ELSE <<And>> \o I(k)) \in Seq(Nat)
      <3>1. I(k) \in Seq(Nat) /\ <<And>> \in Seq(Nat)
        BY <1>2 DEF And
      <3>2. QED
        BY <3>1
    <2> HIDE DEF n
    <2>2. QED
      BY <2>1
  <1>5. \A k \in 1..n : pieces[k] = IF k = 1 THEN I(k) ELSE <<And>> \o I(k)
    OBVIOUS
  <1> HIDE DEF n, pieces
  <1>6. PICK f \in [0..n -> Seq(Nat)] : /\ f[0] = <<>>
                                        /\ \A k \in 1..n : f[k] = f[k - 1] \o pieces[k]
                                        /\ src = f[n]
    BY <1>1, <1>3, <1>4, Flatten
  <1> DEFINE Absent(m) == \A k \in 1..m : form[k].name # name
             Got(m) == /\ Absent(m) => /\ Places(f[m], name) = {}
                                       /\ GetVar(f[m], name) = NotFound
                       /\ \A k \in 1..m : FirstOf(form, k, name) =>
                             /\ Places(f[m], name) # {}
                             /\ GetVar(f[m], name) = Fitted(form[k].text)
             T == {m \in 0..n : Got(m)}
  <1>7. 0 \in T
    <2>1. Places(<<>>, name) = {}
      BY DEF Places
    <2>2. GetVar(<<>>, name) = NotFound
      BY <2>1 DEF GetVar, Places
    <2>3. 0 \in 0..n /\ \A k \in 1..0 : FALSE
      BY <1>1
    <2>4. QED
      BY <1>6, <2>1, <2>2, <2>3
  <1>8. ASSUME NEW m \in 0..(n - 1), m \in T
        PROVE  m + 1 \in T
    <2> DEFINE k == m + 1
               w == I(k)
               old == f[m]
               new == f[k]
    <2>1. k \in 1..n /\ k \in 0..n /\ k - 1 = m /\ m \in 0..n /\ m \in Nat
      BY <1>1
    <2>2. /\ \A j \in 1..k : j \in 1..m \/ j = k
          /\ \A j \in 1..m : j \in 1..k
          /\ (m = 0 => k = 1) /\ (m # 0 => k # 1)
      BY <2>1
    <2>3. Got(m)
      BY <1>8
    <2> HIDE DEF k
    <2>4. /\ w \in Seq(Nat) /\ \A j \in 1..Len(w) : w[j] # And
          /\ Places(w, name) # {} <=> form[k].name = name
          /\ form[k].name = name => GetVar(w, name) = Fitted(form[k].text)
      BY <1>2, <2>1
    <2>5. old \in Seq(Nat) /\ new \in Seq(Nat)
      BY <1>6, <2>1
    <2>6. new = old \o (IF k = 1 THEN w ELSE <<And>> \o w)
      BY <1>5, <1>6, <2>1
    <2> HIDE DEF w
    <2>7. /\ Places(old, name) # {} \/ Places(w, name) # {} <=> Places(new, name) # {}
          /\ GetVar(new, name) = IF Places(old, name) # {} THEN GetVar(old, name)
                                 ELSE GetVar(w, name)
      <3>1. CASE m = 0
        <4>1. old = <<>> /\ new = old \o w
          BY <1>6, <2>2, <2>6, <3>1
        <4>2. Places(<<>>, name) = {}
          BY DEF Places
        <4> HIDE DEF old, new
        <4>3. new = w
          BY <2>4, <4>1
        <4>4. QED
          BY <4>1, <4>2, <4>3
      <3>2. CASE m # 0
        <4>1. Adds(new, old, w)
          BY <2>2, <2>6, <3>2 DEF Adds
        <4> HIDE DEF old, new
        <4>2. /\ old \in Seq(Nat) /\ new \in Seq(Nat)
              /\ w \in Seq(Nat) /\ \A j \in 1..Len(w) : w[j] # And
          BY <2>4, <2>5
        <4>3. FoundIn(new, old, w, name)
          BY <4>1, <4>2, AnyItem, Zenon
        <4>4. QED
          BY <4>3 DEF FoundIn
      <3>3. QED
        BY <3>1, <3>2
    <2> HIDE DEF new
    <2>8. ASSUME Absent(k)
          PROVE  Places(new, name) = {} /\ GetVar(new, name) = NotFound
      <3>1. Absent(m) /\ form[k].name # name
        BY <2>1, <2>2, <2>8
      <3>2. Places(old, name) = {} /\ Places(w, name) = {}
        BY <2>3, <2>4, <3>1
      <3>3. GetVar(w, name) = NotFound
        BY <3>2 DEF GetVar, Places
      <3>4. QED
        BY <2>7, <3>2, <3>3
    <2>9. ASSUME NEW j \in 1..k, FirstOf(form, j, name)
          PROVE  Places(new, name) # {} /\ GetVar(new, name) = Fitted(form[j].text)
      <3>1. CASE j = k
        <4>1. Absent(m) /\ form[k].name = name
          BY <2>1, <2>9, <3>1 DEF FirstOf
        <4>2. Places(old, name) = {} /\ Places(w, name) # {}
          BY <2>3, <2>4, <4>1
        <4>3. QED
          BY <2>4, <2>7, <3>1, <4>1, <4>2
      <3>2. CASE j \in 1..m
        BY <2>3, <2>7, <2>9, <3>2
      <3>3. QED
        BY <2>2, <3>1, <3>2
    <2>10. Got(k)
      BY <2>8, <2>9 DEF new
    <2>11. QED
      BY <2>1, <2>10 DEF k
  <1>9. Got(n)
    <2> HIDE DEF T
    <2>1. \A m \in 0..n : m \in T
      BY <1>1, <1>7, <1>8, Induction
    <2>2. n \in 0..n
      BY <1>1
    <2>3. n \in T
      BY <2>1, <2>2
    <2>4. QED
      BY <2>3 DEF T
  <1>10. src \in Seq(Nat)
    <2>1. n \in 0..n
      BY <1>1
    <2>2. QED
      BY <1>6, <2>1
  <1>11. QED
    BY <1>6, <1>9, <1>10 DEF src, n

LEMMA NoNul ==
  ASSUME NEW text \in Seq(Bytes)
  PROVE  CString(text) = text
  <1>1. \A k \in 1..Len(text) : text[k] \in Bytes
    OBVIOUS
  <1>2. {k \in 1..Len(text) : text[k] = 0} = {}
    <2>1. \A c \in Bytes : c # 0
      BY DEF Bytes
    <2>2. \A k \in 1..Len(text) : text[k] # 0
      BY <1>1, <2>1
    <2>3. QED
      BY <2>2
  <1>3. Len(text) + 1 \in Nat /\ Len(text) + 1 - 1 = Len(text)
    OBVIOUS
  <1>4. Min({Len(text) + 1}) = Len(text) + 1
    BY <1>3, Least
  <1>5. SubSeq(text, 1, Len(text)) = text
    OBVIOUS
  <1>6. CString(text) = SubSeq(text, 1, Min({Len(text) + 1}) - 1)
    BY <1>2 DEF CString
  <1>7. QED
    BY <1>3, <1>4, <1>5, <1>6

\* What POST /write stores of a form.
LEMMA FormStores ==
  ASSUME NEW form \in Seq(FormItem), NEW style \in Styles, NEW name \in Names
  PROVE  LET mine == {k \in 1..Len(form) : form[k].name = name}
             text == form[Min(mine)].text
         IN  Stores(Encode(form, style))[name] =
                IF mine # {} /\ Len(text) \in 1..Room THEN {text} ELSE {}
  <1> DEFINE mine == {k \in 1..Len(form) : form[k].name = name}
             got == GetVar(Encode(form, style), name)
  <1>1. Stores(Encode(form, style))[name] =
           IF got.whole /\ got.text # <<>> THEN {CString(got.text)} ELSE {}
    BY DEF Stores
  <1>2. CASE mine = {}
    <2>1. \A k \in 1..Len(form) : form[k].name # name
      BY <1>2
    <2>2. got = NotFound
      BY <2>1, FormDecoded
    <2> HIDE DEF got
    <2>3. QED
      BY <1>1, <1>2, <2>2 DEF NotFound
  <1>3. CASE mine # {}
    <2> DEFINE k == Min(mine)
               text == form[k].text
    <2>1. mine \in SUBSET Nat
      OBVIOUS
    <2>2. k \in mine /\ \A j \in mine : k <= j
      BY <1>3, <2>1, Least
    <2> HIDE DEF k
    <2>3. k \in 1..Len(form) /\ form[k].name = name /\ k \in Nat /\ Len(form) \in Nat
      BY <2>2
    <2>4. ASSUME NEW j \in 1..(k - 1)
          PROVE  form[j].name # name
      <3>1. j \in 1..Len(form) /\ ~(k <= j)
        BY <2>3
      <3>2. QED
        BY <2>2, <3>1
    <2>5. FirstOf(form, k, name)
      BY <2>3, <2>4 DEF FirstOf
    <2>6. got = Fitted(text)
      BY <2>3, <2>5, FormDecoded
    <2>7. text \in Seq(Bytes)
      <3>1. form[k] \in FormItem
        BY <2>3, ElementOfSeq
      <3>2. QED
        BY <3>1 DEF FormItem
    <2> HIDE DEF got, text
    <2>8. Len(text) \in Nat /\ (text = <<>> <=> Len(text) = 0)
      BY <2>7
    <2>9. (IF got.whole /\ got.text # <<>> THEN {CString(got.text)} ELSE {}) =
             IF Len(text) \in 1..Room THEN {text} ELSE {}
      <3>1. CASE Len(text) <= Room
        <4>1. got.whole /\ got.text = text
          BY <2>6, <3>1 DEF Fitted
        <4>2. Len(text) \in 1..Room <=> Len(text) # 0
          BY <2>8, <3>1, RoomAssumption
        <4>3. CString(text) = text
          BY <2>7, NoNul
        <4>4. QED
          BY <2>8, <4>1, <4>2, <4>3
      <3>2. CASE ~(Len(text) <= Room)
        <4>1. ~got.whole
          <5>1. got.whole = (Len(text) <= Room)
            BY <2>6 DEF Fitted
          <5>2. QED
            BY <3>2, <5>1
        <4>2. Len(text) \notin 1..Room
          BY <2>8, <3>2, RoomAssumption
        <4>3. QED
          BY <4>1, <4>2
      <3>3. QED
        BY <3>1, <3>2
    <2>10. Stores(Encode(form, style))[name] = IF Len(text) \in 1..Room THEN {text} ELSE {}
      BY <1>1, <2>9
    <2>11. QED
      BY <1>3, <2>10 DEF text, k
  <1>4. QED
    BY <1>2, <1>3

-----------------------------------------------------------------------------
QueryInv == call.kind = "query" => /\ call.query \in Queries
                                   /\ done => result = Stores(call.query)

LEMMA QueryInductive == Spec => []QueryInv
  <1>1. Init => QueryInv
    BY DEF Init, QueryInv
  <1>2. QueryInv /\ [Next]_vars => QueryInv'
    BY DEF QueryInv, Next, HandleWrite, SetFilter, vars
  <1>3. QED
    BY <1>1, <1>2, PTL DEF Spec

\* However a query is built, POST /write stores under a name what the first item
\* that begins with the name and a = gives by itself: a name is not found within
\* another name or value, and a value does not reach into the next item.
THEOREM ItemsApart == Spec => []ItemsStandAlone
  <1>1. QueryInv => ItemsStandAlone
    BY TextAssumption, StoresByItem DEF QueryInv, ItemsStandAlone, Returned
  <1>2. QED
    BY <1>1, QueryInductive, PTL
-----------------------------------------------------------------------------
FormInv ==
    call.kind = "form" =>
        \E style \in Styles : /\ call.form \in Forms
                              /\ call.query = Encode(call.form, style)
                              /\ done => result = Stores(call.query)

LEMMA FormInductive == Spec => []FormInv
  <1>1. Init => FormInv
    BY DEF Init, FormInv
  <1>2. FormInv /\ [Next]_vars => FormInv'
    BY DEF FormInv, Next, HandleWrite, SetFilter, vars
  <1>3. QED
    BY <1>1, <1>2, PTL DEF Spec

\* Whatever a form holds, and however the device has encoded it, POST /write
\* stores under each name the text of its first item, whole and unchanged, or
\* nothing when that text is empty or longer than the buffer.
THEOREM FormsStored == Spec => []StoresWhatWasSent
  <1>1. ASSUME FormInv
        PROVE  StoresWhatWasSent
    <2>1. SUFFICES ASSUME Returned("form"), NEW name \in Names
                   PROVE  LET mine == {k \in 1..Len(call.form) : call.form[k].name = name}
                              text == call.form[Min(mine)].text
                          IN  result[name] = IF mine # {} /\ Len(text) \in 1..Room THEN {text}
                                             ELSE {}
      BY DEF StoresWhatWasSent
    <2>2. PICK style \in Styles : /\ call.form \in Forms
                                  /\ call.query = Encode(call.form, style)
                                  /\ result = Stores(call.query)
      BY <1>1, <2>1 DEF FormInv, Returned
    <2>3. call.form \in Seq(FormItem)
      BY <2>2, FormAssumption DEF FormItem
    <2> DEFINE form == call.form
               mine == {k \in 1..Len(form) : form[k].name = name}
               text == form[Min(mine)].text
    <2>4. form \in Seq(FormItem) /\ result = Stores(Encode(form, style))
      BY <2>2, <2>3
    <2> HIDE DEF form
    <2>5. Stores(Encode(form, style))[name] =
             IF mine # {} /\ Len(text) \in 1..Room THEN {text} ELSE {}
      BY <2>4, FormStores
    <2> HIDE DEF mine, text
    <2>6. result[name] = IF mine # {} /\ Len(text) \in 1..Room THEN {text} ELSE {}
      BY <2>4, <2>5
    <2>7. QED
      BY <2>6 DEF mine, text, form
  <1>2. QED
    BY <1>1, FormInductive, PTL
=============================================================================
