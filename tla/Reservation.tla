---------------------------- MODULE Reservation ----------------------------
(***************************************************************************)
(* What doc/forcon_opcua.md promises of a request variable C-X and its     *)
(* response variable S-X: while the response is `none` a client may ask;   *)
(* the device answers the request that was asked, once; an answer that     *)
(* says it is in process may be followed by another about the same         *)
(* request; a response stands until the device closes it, and nobody asks  *)
(* meanwhile.                                                              *)
(*                                                                         *)
(* The promise is made to clients that ask only when it is open.  As soon  *)
(* as one does not, `broken` is set and nothing is promised any more.      *)
(***************************************************************************)
CONSTANTS Requests,      \* what clients ask for
          Answers,       \* what the device answers
          Processing,    \* the answers that another may follow
          None           \* the word of an empty request and of no response

VARIABLES what,          \* the request not answered yet, or None
          answer,        \* the response, or None
          about,         \* the request that was answered, or None
          broken

vars == <<what, answer, about, broken>>

Init == /\ what = None
        /\ answer = None
        /\ about = None
        /\ broken = FALSE

Ask(v) == /\ what = None
          /\ answer = None
          /\ what' = v
          /\ UNCHANGED <<answer, about, broken>>

Answer(a) == /\ what # None
             /\ what' = None
             /\ answer' = a
             /\ about' = what
             /\ UNCHANGED broken

Revise(a) == /\ what = None
             /\ answer \in Processing
             /\ answer' = a
             /\ UNCHANGED <<what, about, broken>>

Close == /\ what = None
         /\ answer # None
         /\ answer' = None
         /\ about' = None
         /\ UNCHANGED <<what, broken>>

\* Somebody asked although it was not open.
Break == /\ broken' = TRUE
         /\ what' \in Requests \cup {None}
         /\ answer' \in Answers \cup {None}
         /\ about' \in Requests \cup {None}

Next == \/ \E v \in Requests : Ask(v)
        \/ \E a \in Answers : Answer(a) \/ Revise(a)
        \/ Close
        \/ Break

Spec == Init /\ [][Next]_vars

\* Every request is answered, and every answer closed.
Lively == /\ WF_vars(\E a \in Answers : ~broken /\ Answer(a))
          /\ WF_vars(~broken /\ Close)

FairSpec == Spec /\ Lively
=============================================================================
