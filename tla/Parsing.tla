------------------------------ MODULE Parsing ------------------------------
(***************************************************************************)
(* The two places where the program takes a text apart, as calls with an   *)
(* input and a result: POST /write with a query the device has encoded, or *)
(* with any query at all, and SetFilterFromCsv followed by a client's word.*)
(*                                                                         *)
(* The device's encoder is outside of src/.  It sends name=text items, the *)
(* names in any case, and escapes what has a meaning in a query or, at its *)
(* choice, everything.                                                     *)
(***************************************************************************)
EXTENDS QueryVar, FilterCsv, SequencesExt

CONSTANTS Forms,         \* inputs: sequences of [name, text] items
          Queries,       \* inputs: query strings
          Csvs,          \* inputs: filters
          Words          \* inputs: words a client writes

\* What the device sends is a C string: no NUL.
Bytes == 1..255

ASSUME FormAssumption == Forms \subseteq Seq([name : Names, text : Seq(Bytes)])
ASSUME TextAssumption == Queries \cup Csvs \cup Words \subseteq Seq(Nat)

Styles == [all : BOOLEAN, upper : BOOLEAN]

VARIABLES call,          \* what is called, with its input
          done,          \* whether it has returned
          result

vars == <<call, done, result>>

-----------------------------------------------------------------------------
(* The device's encoder *)

Meaning == {And, Plus, Percent, Equals}

HexDigit(d, upper) == IF d < 10 THEN 48 + d ELSE (IF upper THEN 55 ELSE 87) + d

EncodeChar(c, style) ==
    IF c \in Meaning \/ style.all
    THEN <<Percent, HexDigit(c \div 16, style.upper), HexDigit(c % 16, style.upper)>>
    ELSE IF c = Space THEN <<Plus>> ELSE <<c>>

EncodeName(name, style) ==
    [k \in 1..Len(name) |->
        IF style.upper /\ name[k] \in 97..122 THEN name[k] - 32 ELSE name[k]]

EncodeText(text, style) == FlattenSeq([k \in 1..Len(text) |-> EncodeChar(text[k], style)])

EncodeItem(item, style) ==
    EncodeName(item.name, style) \o <<Equals>> \o EncodeText(item.text, style)

Encode(form, style) ==
    FlattenSeq([k \in 1..Len(form) |-> IF k = 1 THEN EncodeItem(form[1], style)
                                       ELSE <<And>> \o EncodeItem(form[k], style)])

-----------------------------------------------------------------------------
Init == /\ \/ \E form \in Forms, style \in Styles :
                 call = [kind |-> "form", form |-> form,
                         query |-> Encode(form, style)]
           \/ \E query \in Queries : call = [kind |-> "query", query |-> query]
           \/ \E csv \in Csvs : call = [kind |-> "filter", csv |-> csv]
        /\ done = FALSE
        /\ result = <<>>

HandleWrite ==
    /\ ~done
    /\ done' = TRUE
    /\ call.kind \in {"form", "query"}
    /\ result' = Stores(call.query)
    /\ UNCHANGED call

SetFilter ==
    /\ ~done
    /\ done' = TRUE
    /\ call.kind = "filter"
    /\ result' = FilterOf(call.csv)
    /\ UNCHANGED call

Next == HandleWrite \/ SetFilter

Spec == Init /\ [][Next]_vars

Returned(kind) == call.kind = kind /\ done

-----------------------------------------------------------------------------
\* Each parameter is stored as the device meant it, however it is encoded; of a
\* name sent twice the first text counts.  A text that is empty or longer than
\* the buffer is not stored - never a part of it - and hides a second one.
StoresWhatWasSent ==
    Returned("form") =>
        \A name \in Names :
            LET mine == {k \in 1..Len(call.form) : call.form[k].name = name}
                text == call.form[Min(mine)].text
            IN  result[name] = IF mine # {} /\ Len(text) \in 1..Room THEN {text}
                               ELSE {}

\* Where items start; an item that begins with the name and a =.
Starts(query) == {1} \cup {k + 1 : k \in {k \in 1..Len(query) : query[k] = And}}
Holds(item, name) ==
    /\ Len(name) < Len(item)
    /\ SameIgnoringCase(name \o <<Equals>>, SubSeq(item, 1, Len(name) + 1))

\* In any query, well-formed or not, a parameter is only looked for at the start
\* of an item, and its value ends with the item: names that are part of other
\* names (requestProduct, requestProductionCmd), values that look like items
\* and items without a value are told apart.
ItemsStandAlone ==
    Returned("query") =>
        \A name \in Names :
            LET Item(s) == ItemFrom(call.query, s)
                mine == {s \in Starts(call.query) : Holds(Item(s), name)}
            IN  result[name] = IF mine = {} THEN {}
                               ELSE Stores(Item(Min(mine)))[name]

\* The word stands in the list by itself, with nothing but blanks around it.
Edge(csv, k) == k \in {0, Len(csv) + 1} \/ csv[k] = Comma
Blank(csv, i, j) == \A k \in i..j : IsSpace(csv[k])
Listed(csv, word) ==
    /\ word # <<>> /\ \A k \in 1..Len(word) : word[k] # Comma
    /\ ~IsSpace(word[1]) /\ ~IsSpace(word[Len(word)])
    /\ \E i \in 1..Len(csv) :
          LET j == i + Len(word) - 1
          IN  /\ j <= Len(csv) /\ SubSeq(csv, i, j) = word
              /\ \E a \in 0..(i - 1) : Edge(csv, a) /\ Blank(csv, a + 1, i - 1)
              /\ \E b \in (j + 1)..(Len(csv) + 1) : Edge(csv, b) /\ Blank(csv, j + 1, b - 1)

HasWord(csv) == \E k \in 1..Len(csv) : csv[k] # Comma /\ ~IsSpace(csv[k])

\* A filter made of a text that has a word (main.cpp:286 gives five) allows
\* exactly the words that stand between two commas with nothing but blanks around
\* them.
FilterIsTheList ==
    Returned("filter") /\ HasWord(call.csv) =>
        \A word \in Words : IsWordAllowed(result, word) <=> Listed(call.csv, word)

\* OpcuaDataBase.cpp:215, in IsWordAllowed: if the filter is empty, refuse by
\* default.  Empty items are skipped, so a text of blanks and commas alone makes
\* an empty filter.
EmptyRefusesAll ==
    Returned("filter") /\ result = {} =>
        \A word \in Words : ~IsWordAllowed(result, word)
=============================================================================
