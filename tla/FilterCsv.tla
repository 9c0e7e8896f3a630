----------------------------- MODULE FilterCsv -----------------------------
(***************************************************************************)
(* SetFilterFromCsv, which main gives "none,start,stop,pause,resume", and  *)
(* IsWordAllowed, which tests a client's word against the words it found.  *)
(* Their order makes no difference: a list of words is modelled by a set.  *)
(***************************************************************************)
EXTENDS Naturals, Sequences, FiniteSetsExt

Comma == 44
IsSpace(c) == c \in 9..13 \cup {32}

\* A change that must be caught: only the front is trimmed.
TrimCopy_Front(s) ==
    LET solid == {k \in 1..Len(s) : ~IsSpace(s[k])}
    IN  IF solid = {} THEN <<>> ELSE SubSeq(s, Min(solid), Len(s))

TrimCopy(s) ==
    LET solid == {k \in 1..Len(s) : ~IsSpace(s[k])}
    IN  IF solid = {} THEN <<>> ELSE SubSeq(s, Min(solid), Max(solid))

\* getline(ss, item, ','), position by position: the items that are complete, and
\* the one that is being read.
Reading(csv) ==
    LET read[n \in 0..Len(csv)] ==
            IF n = 0 THEN [done |-> {}, item |-> <<>>]
            ELSE LET before == read[n - 1]
                 IN  IF csv[n] = Comma
                     THEN [done |-> before.done \cup {before.item}, item |-> <<>>]
                     ELSE [done |-> before.done, item |-> Append(before.item, csv[n])]
    IN  read

\* Nothing after the last comma is no item.
Items(csv) ==
    LET all == Reading(csv)[Len(csv)]
    IN  IF all.item = <<>> THEN all.done ELSE all.done \cup {all.item}

\* The words of the filter: blank items are skipped.
FilterOf(csv) == {TrimCopy(item) : item \in Items(csv)} \ {<<>>}

\* An empty filter allows every word.
IsWordAllowed(words, word) == words = {} \/ word \in words
=============================================================================
