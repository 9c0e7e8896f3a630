---------------------------- MODULE NodeContract ----------------------------
(***************************************************************************)
(* What a scalar variable of the bridge promises to the two sides that     *)
(* share it: the device, which posts values over HTTP, and the OPC UA      *)
(* clients, whose calls the server answers one at a time.                  *)
(*                                                                         *)
(* The variable is a register `cur`.  A call that is being answered keeps  *)
(* in `seen` every value the register held since the call began.  A read   *)
(* answers with one of them.  The one weakness the contract admits: while  *)
(* a call is open the register may fall back to a value of `seen`, so a    *)
(* post may be undone by a call that overlaps it - by nothing else, and    *)
(* never to a value older than the call.                                   *)
(***************************************************************************)
CONSTANTS PostValues,    \* what the device posts
          ClientValues,  \* what clients write
          Refusals       \* status codes of a refused write

VARIABLES writable,      \* clients may write
          cur,           \* the register
          seen,          \* values of cur since the open call began, {} if none
          reply          \* answer of the last call

vars == <<writable, cur, seen, reply>>

NoReply == "NoReply"

Init == /\ writable \in BOOLEAN
        /\ cur \in PostValues \cup ClientValues
        /\ seen = {}
        /\ reply = NoReply

Post(v) == /\ cur' = v
           /\ seen' = IF seen = {} THEN {} ELSE seen \cup {v}
           /\ UNCHANGED <<writable, reply>>

Begin == /\ seen = {}
         /\ seen' = {cur}
         /\ UNCHANGED <<writable, cur, reply>>

Undo(v) == /\ v \in seen
           /\ cur' = v
           /\ UNCHANGED <<writable, seen, reply>>

Assign(v) == /\ writable
             /\ seen # {}
             /\ cur' = v
             /\ seen' = seen \cup {v}
             /\ UNCHANGED <<writable, reply>>

AnswerRead == /\ seen # {}
              /\ reply' \in seen
              /\ seen' = {}
              /\ UNCHANGED <<writable, cur>>

AnswerWrite == /\ seen # {}
               /\ reply' = "Good"
               /\ seen' = {}
               /\ UNCHANGED <<writable, cur>>

Refuse(status) == /\ seen = {}
                  /\ reply' = status
                  /\ UNCHANGED <<writable, cur, seen>>

Next == \/ \E v \in PostValues : Post(v)
        \/ Begin
        \/ \E v \in seen : Undo(v)
        \/ \E v \in ClientValues : Assign(v)
        \/ AnswerRead
        \/ AnswerWrite
        \/ \E status \in Refusals : Refuse(status)

Spec == Init /\ [][Next]_vars
=============================================================================
