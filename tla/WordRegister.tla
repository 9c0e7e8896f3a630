---------------------------- MODULE WordRegister ----------------------------
(***************************************************************************)
(* What a string variable of the bridge promises as long as no post meets  *)
(* another access: it is one word that the device sets, that a client sets *)
(* to what the filter lets through, and that everybody copies whole.       *)
(*                                                                         *)
(* Nothing serialises posts, so the promise may end: with `broken` nothing *)
(* is promised any more.                                                   *)
(***************************************************************************)
CONSTANTS Threads,       \* who sets and copies the word
          PostWords,     \* what the device sets
          ClientWords,   \* what clients set
          First,         \* the word at the start
          NoCopy         \* a thread that has copied nothing yet

VARIABLES word,
          copy,          \* what each thread has copied last
          broken

vars == <<word, copy, broken>>

Init == /\ word = First
        /\ copy = [t \in Threads |-> NoCopy]
        /\ broken = FALSE

SetWord(v) == /\ word' = v
              /\ UNCHANGED <<copy, broken>>

CopyWord(t) == /\ copy' = [copy EXCEPT ![t] = word]
               /\ UNCHANGED <<word, broken>>

\* A post met another access.
Break == broken' = TRUE

Next == \/ \E v \in PostWords \cup ClientWords : SetWord(v)
        \/ \E t \in Threads : CopyWord(t)
        \/ Break

Spec == Init /\ [][Next]_vars
=============================================================================
