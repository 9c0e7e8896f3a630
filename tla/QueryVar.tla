------------------------------ MODULE QueryVar ------------------------------
(***************************************************************************)
(* How handle_write finds its parameters: mg_get_var of civetweb looks for *)
(* each name in the query string and decodes what follows it into a small  *)
(* buffer.  A character is its ASCII code, a text a sequence of them.      *)
(***************************************************************************)
EXTENDS Naturals, Sequences, FiniteSetsExt

CONSTANTS Names,         \* the parameters handle_write asks for
          Room           \* characters value_buf holds beside its NUL: 31

Space == 32
Percent == 37
Plus == 43
Equals == 61
And == 38

ASSUME RoomAssumption == Room \in Nat \ {0}

Digits == 48..57
Lower(c) == IF c \in 65..90 THEN c + 32 ELSE c
IsHex(c) == c \in Digits \/ Lower(c) \in 97..102
HexToI(c) == IF c \in Digits THEN c - 48 ELSE Lower(c) - 87

\* %xx at position i; a % that is not followed by two digits is an ordinary
\* character.
IsEscape(src, i) ==
    /\ i + 2 <= Len(src)
    /\ src[i] = Percent
    /\ IsHex(src[i + 1]) /\ IsHex(src[i + 2])

\* mg_url_decode: the text that fits into the buffer, and whether src went into it
\* to the end.
Decode(src) ==
    LET from[i \in 1..(Len(src) + 1)] ==
            IF i > Len(src) THEN <<>>
            ELSE IF IsEscape(src, i)
            THEN <<16 * HexToI(src[i + 1]) + HexToI(src[i + 2])>> \o from[i + 3]
            ELSE <<IF src[i] = Plus THEN Space ELSE src[i]>> \o from[i + 1]
        all == from[1]
    IN  [text |-> IF Len(all) <= Room THEN all ELSE SubSeq(all, 1, Room),
         whole |-> Len(all) <= Room]

SameIgnoringCase(s, t) ==
    /\ Len(s) = Len(t)
    /\ \A k \in 1..Len(s) : Lower(s[k]) = Lower(t[k])

\* The names are literals of main.cpp: letters only, and different whatever their case.
Letters == 65..90 \cup 97..122
ASSUME NamesAssumption ==
    /\ Names \subseteq Seq(Letters)
    /\ \A m, n \in Names : SameIgnoringCase(m, n) => m = n

\* A change that must be caught: a name may begin anywhere.
NameAt_Anywhere(data, name, p) ==
    /\ p + Len(name) <= Len(data)
    /\ data[p + Len(name)] = Equals
    /\ SameIgnoringCase(name, SubSeq(data, p, p + Len(name) - 1))

\* `name=` stands at position p of the query, at its start or after an &.
NameAt(data, name, p) ==
    /\ p + Len(name) <= Len(data)
    /\ p = 1 \/ data[p - 1] = And
    /\ data[p + Len(name)] = Equals
    /\ SameIgnoringCase(name, SubSeq(data, p, p + Len(name) - 1))

\* From position p up to the next &.
ItemFrom(data, p) ==
    LET ends == {k \in p..Len(data) : data[k] = And} \cup {Len(data) + 1}
    IN  SubSeq(data, p, Min(ends) - 1)

NotFound == [text |-> <<>>, whole |-> FALSE]

\* mg_get_var: the value after the first place where the name stands.
GetVar(data, name) ==
    LET places == {p \in 1..Len(data) : NameAt(data, name, p)}
    IN  IF places = {} THEN NotFound
        ELSE Decode(ItemFrom(data, Min(places) + Len(name) + 1))

\* What SetValue, atoi and atof see of value_buf: it ends before the first NUL,
\* which a query can hold as %00.
CString(text) ==
    SubSeq(text, 1, Min({k \in 1..Len(text) : text[k] = 0} \cup {Len(text) + 1}) - 1)

\* A change that must be caught: the result is only compared with -1, which
\* lets a text through that did not fit.
Stores_Cut(data) ==
    [name \in Names |-> LET got == GetVar(data, name)
                        IN  IF got.text # <<>> THEN {CString(got.text)} ELSE {}]

\* What handle_write stores for each name, a text or nothing: only a result
\* greater than 0, that is, a text that is not empty.
Stores(data) ==
    [name \in Names |-> LET got == GetVar(data, name)
                        IN  IF got.whole /\ got.text # <<>> THEN {CString(got.text)}
                            ELSE {}]
=============================================================================
