-------------------------- MODULE ScalarNodeProofs --------------------------
(***************************************************************************)
(* Proofs about ScalarNode for any sets of values and both access levels. *)
(* IInv is the inductive invariant: its parts say what the server thread's *)
(* position tells about the node, the callback's register and the history. *)
(***************************************************************************)
EXTENDS ScalarNode, TLAPS

\* The history of the open call holds everything the call still works with.
SeenInv ==
    /\ pc = "Idle" <=> seen = {}
    /\ pc # "Idle" => mData \in seen
    /\ pc \in {"Load", "Store", "Reply"} => nodeValue \in seen
    /\ pc = "Store" => reg \in seen

\* What the callback of an accepted write is about to store.
WriteInv == pc = "AfterWrite" => writable /\ reg \in ClientValues

\* Everything held or kept for the open call was once offered.
OfferInv == mData \in offered /\ seen \subseteq offered

\* A stored client value stays in every copy a read makes.
StickInv == lastWrite # Nothing =>
    /\ mData = lastWrite
    /\ pc \in {"Load", "Store", "Reply"} => nodeValue = lastWrite
    /\ pc = "Store" => reg = lastWrite

IInv == TypeOK /\ SeenInv /\ WriteInv /\ OfferInv /\ StickInv

-----------------------------------------------------------------------------
(* The type invariant does not need the rest, except at the two stores: what *)
(* they store is known through SeenInv and WriteInv.                         *)

LEMMA InitIInv == Init => IInv
  BY NothingAssumption
     DEF Init, IInv, TypeOK, SeenInv, WriteInv, OfferInv, StickInv, Values,
         NoReply

LEMMA PostIInv == ASSUME IInv, NEW v \in PostValues, SetValue(v)
                  PROVE  IInv'
  BY DEF IInv, TypeOK, SeenInv, WriteInv, OfferInv, StickInv, Values, SetValue

\* Every step of a read keeps the invariant.
LEMMA ReadIInv == ASSUME IInv, ReadStep
                  PROVE  IInv'
  <1> USE DEF IInv, TypeOK, SeenInv, WriteInv, OfferInv, StickInv
  <1>1. CASE BeginRead
    BY <1>1 DEF BeginRead
  <1>2. CASE Update
    BY <1>2 DEF Update
  <1>3. CASE LoadSelf
    BY <1>3 DEF LoadSelf
  <1>4. CASE StoreSelf
    BY <1>4 DEF StoreSelf
  <1>5. CASE ReadReply
    <2>1. nodeValue \in Values
      BY <1>5 DEF ReadReply
    <2>2. QED
      BY <1>5, <2>1 DEF ReadReply
  <1>6. QED
    BY <1>1, <1>2, <1>3, <1>4, <1>5 DEF ReadStep

\* Every step of a write keeps the invariant.
LEMMA WriteIInv == ASSUME IInv, WriteStep
                   PROVE  IInv'
  <1> USE DEF IInv, TypeOK, SeenInv, WriteInv, OfferInv, StickInv
  <1>1. CASE RefuseWrite
    BY <1>1 DEF RefuseWrite, Refusals
  <1>2. ASSUME NEW v \in ClientValues, WriteValue(v)
        PROVE  IInv'
    BY <1>2 DEF WriteValue, Values
  <1>3. CASE WriteEmpty
    BY <1>3 DEF WriteEmpty
  <1>4. CASE AfterWrite
    BY <1>4 DEF AfterWrite, Values
  <1>5. CASE WriteReply
    BY <1>5 DEF WriteReply
  <1>6. CASE WriteTypeless
    BY <1>6 DEF WriteTypeless
  <1>7. QED
    BY <1>1, <1>2, <1>3, <1>4, <1>5, <1>6 DEF WriteStep

THEOREM Inductive == Spec => []IInv
  <1>1. IInv /\ [Next]_vars => IInv'
    <2> SUFFICES ASSUME IInv, [Next]_vars
                 PROVE  IInv'
      OBVIOUS
    <2>1. CASE Next
      BY <2>1, PostIInv, ReadIInv, WriteIInv DEF Next, Post
    <2>2. CASE UNCHANGED vars
      BY <2>2 DEF vars, IInv, TypeOK, SeenInv, WriteInv, OfferInv, StickInv
    <2>3. QED
      BY <2>1, <2>2
  <1>2. QED
    BY InitIInv, <1>1, PTL DEF Spec

\* Every variable stays in its domain: in particular m_data always holds a
\* value of the node's type, whatever clients send.
THEOREM TypeCorrect == Spec => []TypeOK
  <1>1. IInv => TypeOK
    BY DEF IInv
  <1>2. QED
    BY Inductive, <1>1, PTL

\* A read never answers with what the node kept from an earlier call.
THEOREM Fresh == Spec => []ReadIsFresh
  <1>1. IInv => ReadIsFresh
    BY DEF IInv, SeenInv, ReadIsFresh
  <1>2. QED
    BY Inductive, <1>1, PTL

\* m_data holds offered values only: no client write lands on an S- node.
THEOREM Offered == Spec => []OnlyOfferedValues
  <1>1. IInv => OnlyOfferedValues
    BY DEF IInv, OfferInv, OnlyOfferedValues
  <1>2. QED
    BY Inductive, <1>1, PTL

\* A client reads its own write until the device posts.
THEOREM OwnWrite == Spec => []ReadYourWrite
  <1>1. IInv => ReadYourWrite
    BY DEF IInv, StickInv, ReadYourWrite
  <1>2. QED
    BY Inductive, <1>1, PTL

-----------------------------------------------------------------------------
(* Refinement: mData is the contract's register; refreshing the node and the *)
(* callback's load are stutters, its store is Undo.                          *)

LEMMA InitMaps == Init => Contract!Init
  BY DEF Init, Values, NoReply, Contract!Init, Contract!NoReply

LEMMA ReadMaps == ASSUME IInv, ReadStep
                  PROVE  [Contract!Next]_(Contract!vars)
  <1> USE DEF IInv, SeenInv
  <1>1. CASE BeginRead
    BY <1>1 DEF BeginRead, Contract!Next, Contract!Begin
  <1>2. CASE Update
    BY <1>2 DEF Update, Contract!vars
  <1>3. CASE LoadSelf
    BY <1>3 DEF LoadSelf, Contract!vars
  <1>4. CASE StoreSelf
    <2>1. reg \in seen /\ Contract!Undo(reg)
      BY <1>4 DEF StoreSelf, Contract!Undo
    <2>2. QED
      BY <2>1 DEF Contract!Next
  <1>5. CASE ReadReply
    BY <1>5 DEF ReadReply, Contract!Next, Contract!AnswerRead
  <1>6. QED
    BY <1>1, <1>2, <1>3, <1>4, <1>5 DEF ReadStep

LEMMA WriteMaps == ASSUME IInv, WriteStep
                   PROVE  [Contract!Next]_(Contract!vars)
  <1> USE DEF IInv, SeenInv, WriteInv
  <1>1. CASE RefuseWrite
    <2>1. PICK status \in Refusals : Contract!Refuse(status)
      BY <1>1 DEF RefuseWrite, Refusals, Contract!Refuse
    <2>2. QED
      BY <2>1 DEF Contract!Next
  <1>2. ASSUME NEW v \in ClientValues, WriteValue(v)
        PROVE  Contract!Begin
    BY <1>2 DEF WriteValue, Contract!Begin
  <1>3. CASE WriteEmpty
    BY <1>3 DEF WriteEmpty, Contract!Next, Contract!Begin
  <1>4. CASE AfterWrite
    <2>1. reg \in ClientValues /\ Contract!Assign(reg)
      BY <1>4 DEF AfterWrite, Contract!Assign
    <2>2. QED
      BY <2>1 DEF Contract!Next
  <1>5. CASE WriteReply
    BY <1>5 DEF WriteReply, Contract!Next, Contract!AnswerWrite
  <1>6. CASE WriteTypeless
    BY <1>6 DEF WriteTypeless, Contract!Next, Contract!Begin
  <1>7. QED
    BY <1>1, <1>2, <1>3, <1>4, <1>5, <1>6 DEF WriteStep, Contract!Next

\* The node behaves as the contract's register: a post can be undone only by a
\* call that overlaps it, and every answer was the register's value meanwhile.
THEOREM Refinement == Spec => KeepsContract
  <1>1. IInv /\ [Next]_vars => [Contract!Next]_(Contract!vars)
    <2> SUFFICES ASSUME IInv, [Next]_vars
                 PROVE  [Contract!Next]_(Contract!vars)
      OBVIOUS
    <2>1. ASSUME NEW v \in PostValues, SetValue(v)
          PROVE  Contract!Post(v)
      BY <2>1 DEF SetValue, Contract!Post
    <2>2. CASE Next
      BY <2>1, <2>2, ReadMaps, WriteMaps DEF Next, Post, Contract!Next
    <2>3. CASE UNCHANGED vars
      BY <2>3 DEF vars, Contract!vars
    <2>4. QED
      BY <2>2, <2>3
  <1>2. QED
    BY Inductive, InitMaps, <1>1, PTL DEF Spec, KeepsContract, Contract!Spec
=============================================================================
