-------------------------- MODULE StringNodeProofs --------------------------
(***************************************************************************)
(* Proofs about StringNode for any workers, blocks, words and filter:      *)
(* types; and, as long as no SetValue has met another access, that copies  *)
(* are whole, that m_data owns exactly its block, that refused words stay  *)
(* out, and that the node is the single word of WordRegister.  Liveness    *)
(* stays with TLC.                                                         *)
(***************************************************************************)
EXTENDS StringNode, TLAPS

\* What the filter lets through, and what may be in the node's m_data.
Allowed == {v \in ClientWords : IsWordAllowed(v)}
Offered == PostWords \cup {First} \cup Allowed

\* Where the server thread and the workers never are.
PlaceInv == /\ pc[Server] # "test"
            /\ \A w \in Workers : pc[w] \notin {"compare", "same", "probe", "filter"}

\* Who has s_filterMutex: GetValue while it copies, the write callback while it
\* replaces.  SetValue and the refresh of the node never do.
Holding(t) == IF t = Server
              THEN pc[t] \in {"clear", "wipe", "data", "length", "unlock"}
              ELSE pc[t] \in Copying \cup {"unlock"}
LockInv == \A t \in Threads : Holding(t) <=> mutex = t

CompanyInv == ~clash => \A s, u \in Threads :
                 s # u /\ SettingValue(s, pc) => ~Touching(u, pc)

PostInv == \A w \in Workers : pc[w] \in Replacing => arg[w] \in PostWords

\* The rest holds as long as no SetValue has had company.

\* What the write callback is about to store, the filter has let through, and
\* the refresh never gets as far.
FilterInv == /\ pc[Server] \in {"probe", "filter"} => arg[Server] \in ClientWords
             /\ pc[Server] \in {"lock"} \cup Replacing => arg[Server] \in Allowed
             /\ pc[Server] = "same" => taken[Server].data = mData.data

Only(b, v) == [c \in Buffers |-> IF c = b THEN v ELSE Freed]
Whole == /\ mData.len = value
         /\ mData.data \in Buffers
         /\ heap = Only(mData.data, value)
Bare == heap = [b \in Buffers |-> Freed]

Halfway == {"wipe", "data", "length"}

\* m_data and the heap, by how far a replacement is.
StoreInv ==
    /\ (\A t \in Threads : pc[t] \notin Halfway) => Whole
    /\ \A t \in Threads :
          /\ pc[t] \in {"wipe", "data"} => Bare
          /\ pc[t] = "length" => /\ mData.data \in Buffers
                                 /\ heap = Only(mData.data, arg[t])

\* A copy is of what m_data holds all the time; GetValue gives out what was there.
CopyPart(t) ==
    /\ pc[t] \in {"copy", "copylen"} => taken[t] = mData
    /\ pc[t] = "copylen" => result[t] = value
    /\ pc[t] = "unlock" /\ t # Server => result[t] \in Offered
CopyInv == \A t \in Threads : CopyPart(t)

QuietInv == FilterInv /\ StoreInv /\ CopyInv /\ value \in Offered

ControlInv == PlaceInv /\ LockInv /\ CompanyInv /\ PostInv

IInv == TypeOK /\ ControlInv /\ (~clash => QuietInv)

-----------------------------------------------------------------------------
(* Types *)

LEMMA Constants ==
  /\ Null \notin Buffers
  /\ Empty \notin Words /\ Garbage \notin Words /\ Freed \notin Words
  /\ Empty # Garbage /\ Empty # Freed /\ Garbage # Freed
  /\ Server \notin Workers /\ NoOne \notin Threads
  BY ServerAssumption, BufferAssumption, WordAssumption DEF Empty, Garbage, Freed

LEMMA BlockGiven ==
  ASSUME TypeOK, NEW t \in Threads
  PROVE  NewBlock(t) \in Buffers
  <1> DEFINE inUse == [u \in Threads |-> IF u = t THEN mData.data ELSE taken[u].data]
  <1>1. inUse \in [Threads -> Buffers \cup {Null}]
    BY DEF TypeOK
  <1>2. PICK b \in Buffers : \A u \in Threads : b # inUse[u]
    BY <1>1, HeapAssumption
  <1>3. b \in Spare(t)
    BY <1>2 DEF Spare, InUse
  <1>4. \E c \in Spare(t) : heap[c] = Freed \/ \A d \in Spare(t) : heap[d] # Freed
    BY <1>3
  <1>5. NewBlock(t) \in Spare(t)
    BY <1>4 DEF NewBlock
  <1>6. QED
    BY <1>5 DEF Spare

LEMMA InitType == Init => TypeOK
  <1> SUFFICES ASSUME Init
               PROVE  TypeOK
    OBVIOUS
  <1>1. FirstBlock \in Buffers
    BY BufferAssumption DEF FirstBlock
  <1>2. First \in Words
    BY DEF Words
  <1>3. QED
    BY <1>1, <1>2 DEF Init, TypeOK, Zero, Labels

LEMMA GotoType ==
  ASSUME TypeOK, NEW t \in Threads, NEW label \in Labels, Goto(t, label)
  PROVE  pc' \in [Threads -> Labels] /\ clash' \in BOOLEAN
  BY DEF Goto, TypeOK

LEMMA StoreType ==
  ASSUME TypeOK, NEW t \in Threads, Store(t)
  PROVE  TypeOK'
  <1> USE DEF TypeOK, Labels, Replacing
  <1>1. CASE Clear(t)
    <2>1. pc' \in [Threads -> Labels] /\ clash' \in BOOLEAN
      BY <1>1, GotoType DEF Clear
    <2>2. QED
      BY <1>1, <2>1 DEF Clear
  <1>2. CASE Wipe(t)
    <2>1. pc' \in [Threads -> Labels] /\ clash' \in BOOLEAN
      BY <1>2, GotoType DEF Wipe
    <2>2. QED
      BY <1>2, <2>1 DEF Wipe, Zero
  <1>3. CASE SetData(t)
    <2>1. pc' \in [Threads -> Labels] /\ clash' \in BOOLEAN
      BY <1>3, GotoType DEF SetData
    <2>2. heap' \in [Buffers -> Words \cup {Freed}]
      BY <1>3 DEF SetData
    <2>3. mData' \in [data : Buffers \cup {Null}, len : Words \cup {Empty}]
      BY <1>3, BlockGiven DEF SetData
    <2>4. QED
      BY <1>3, <2>1, <2>2, <2>3 DEF SetData
  <1>4. CASE SetLength(t)
    <2>1. pc' \in [Threads -> Labels] /\ clash' \in BOOLEAN
      BY <1>4, GotoType DEF SetLength
    <2>2. QED
      BY <1>4, <2>1 DEF SetLength
  <1>5. QED
    BY <1>1, <1>2, <1>3, <1>4 DEF Store

LEMMA CopyType ==
  ASSUME TypeOK, NEW t \in Threads, Copy(t)
  PROVE  TypeOK'
  <1> USE DEF TypeOK, Labels, Copying
  <1>1. CASE Take(t)
    <2>1. pc' \in [Threads -> Labels] /\ clash' \in BOOLEAN
      BY <1>1, GotoType DEF Take
    <2>2. QED
      BY <1>1, <2>1 DEF Take
  <1>2. CASE Bytes(t)
    <2>1. pc' \in [Threads -> Labels] /\ clash' \in BOOLEAN
      BY <1>2, GotoType DEF Bytes
    <2>2. BytesOf(taken[t]) \in Words \cup {Empty, Garbage}
      BY DEF BytesOf
    <2>3. QED
      BY <1>2, <2>1, <2>2 DEF Bytes
  <1>3. CASE CopyLength(t)
    <2>1. pc' \in [Threads -> Labels] /\ clash' \in BOOLEAN
      BY <1>3, GotoType DEF CopyLength
    <2>2. result' \in [Threads -> Words \cup {Empty, Garbage}]
      BY <1>3 DEF CopyLength, Relength
    <2>3. nodeValue' \in Words \cup {Empty, Garbage}
      BY <1>3, <2>2 DEF CopyLength
    <2>4. taken' \in [Threads -> [data : Buffers \cup {Null},
                                  len : Words \cup {Empty}]]
      BY <1>3 DEF CopyLength, Zero
    <2>5. QED
      BY <1>3, <2>1, <2>2, <2>3, <2>4 DEF CopyLength
  <1>4. QED
    BY <1>1, <1>2, <1>3 DEF Copy

LEMMA WorkerType ==
  ASSUME TypeOK, NEW w \in Workers, BeginSet(w) \/ BeginGet(w) \/ Test(w)
  PROVE  TypeOK'
  <1> USE DEF TypeOK, Labels, Replacing
  <1>1. w \in Threads
    BY DEF Threads
  <1>2. pc' \in [Threads -> Labels] /\ clash' \in BOOLEAN
    BY <1>1, GotoType DEF BeginSet, BeginGet, Test
  <1>3. arg' \in [Threads -> Words \cup {Empty}]
    BY <1>1 DEF BeginSet, BeginGet, Test, Words
  <1>4. QED
    BY <1>2, <1>3 DEF BeginSet, BeginGet, Test

LEMMA LockType ==
  ASSUME TypeOK, NEW t \in Threads, Lock(t) \/ Unlock(t)
  PROVE  TypeOK'
  <1>1. pc' \in [Threads -> Labels] /\ clash' \in BOOLEAN
    BY GotoType DEF Lock, Unlock, Labels, Replacing, Copying
  <1>2. QED
    BY <1>1 DEF Lock, Unlock, TypeOK

LEMMA ServerType ==
  ASSUME TypeOK, \/ BeginRead \/ WriteEmpty \/ Compare \/ SamePointer \/ Probe \/ CheckWord
                 \/ WriteTypeless \/ \E v \in ClientWords : BeginWrite(v)
  PROVE  TypeOK'
  <1> USE DEF TypeOK, Labels, Copying
  <1>1. Server \in Threads /\ Empty \in Words \cup {Empty} /\ ClientWords \subseteq Words
    BY DEF Threads, Words
  <1>2. pc' \in [Threads -> Labels] /\ clash' \in BOOLEAN
    BY <1>1, GotoType
       DEF BeginRead, WriteEmpty, Compare, SamePointer,
           Probe, WriteTypeless, CheckWord, BeginWrite, history
  <1>3. arg' \in [Threads -> Words \cup {Empty}]
    BY <1>1 DEF BeginRead, WriteEmpty, Compare, SamePointer,
                Probe, WriteTypeless, CheckWord, BeginWrite
  <1>4. taken' \in [Threads -> [data : Buffers \cup {Null}, len : Words \cup {Empty}]]
    BY <1>1 DEF BeginRead, WriteEmpty, Compare, SamePointer,
                Probe, WriteTypeless, CheckWord, BeginWrite, Zero
  <1>5. nodeValue' \in Words \cup {Empty, Garbage}
    BY <1>1 DEF BeginRead, WriteEmpty, Compare, SamePointer,
                Probe, WriteTypeless, CheckWord, BeginWrite
  <1>6. /\ UNCHANGED <<mData, heap, mutex, result, value>>
    BY DEF BeginRead, WriteEmpty, Compare, SamePointer,
           Probe, WriteTypeless, CheckWord, BeginWrite, history
  <1>7. QED
    BY <1>2, <1>3, <1>4, <1>5, <1>6

LEMMA NextType == TypeOK /\ [Next]_vars => TypeOK'
  <1> SUFFICES ASSUME TypeOK, [Next]_vars
               PROVE  TypeOK'
    OBVIOUS
  <1>1. CASE UNCHANGED vars
    BY <1>1 DEF vars, history, TypeOK
  <1>2. Workers \subseteq Threads /\ Server \in Threads
    BY DEF Threads
  <1>3. QED
    BY <1>1, <1>2, WorkerType, LockType, ServerType, StoreType, CopyType
       DEF Next, Work, Serve

-----------------------------------------------------------------------------
(* Control: who is where, and who has the mutex *)

LEMMA InitControl == Init => ControlInv
  <1> SUFFICES ASSUME Init
               PROVE  ControlInv
    OBVIOUS
  <1>1. /\ \A t \in Threads : pc[t] = "idle"
        /\ Workers \subseteq Threads /\ Server \in Threads
        /\ mutex \notin Threads
    BY Constants DEF Init, Threads
  <1>2. \A t \in Threads : ~Holding(t)
    BY <1>1 DEF Holding, Copying
  <1>3. \A t \in Threads : ~SettingValue(t, pc)
    BY <1>1 DEF SettingValue, Replacing
  <1>4. QED
    BY <1>1, <1>2, <1>3 DEF ControlInv, PlaceInv, LockInv, CompanyInv, PostInv, Replacing

\* Whoever moves, the history notes it when a SetValue has company.
LEMMA GotoCompany ==
  ASSUME NEW t \in Threads, NEW label, Goto(t, label)
  PROVE  CompanyInv' /\ (~clash' => ~clash)
  BY DEF Goto, CompanyInv

\* A step of t that is none of the mutex keeps the mutex's invariant if t holds
\* it at the new place just as at the old one.
LEMMA GotoLock ==
  ASSUME TypeOK, LockInv, NEW t \in Threads, NEW label, Goto(t, label),
         UNCHANGED mutex, Holding(t)' <=> Holding(t)
  PROVE  LockInv'
  <1>1. \A u \in Threads : u # t => pc'[u] = pc[u]
    BY DEF Goto, TypeOK
  <1>2. \A u \in Threads : Holding(u)' <=> Holding(u)
    BY <1>1 DEF Holding
  <1>3. QED
    BY <1>2 DEF LockInv

LEMMA MutexControl ==
  ASSUME TypeOK, ControlInv, NEW t \in Threads, Lock(t) \/ Unlock(t)
  PROVE  ControlInv'
  <1> USE DEF ControlInv, TypeOK
  <1>1. PICK label \in {"clear", "take", "idle"} :
           /\ Goto(t, label)
           /\ pc' = [pc EXCEPT ![t] = label]
           /\ label = "clear" => t = Server
    BY DEF Lock, Unlock, Goto
  <1>2. CompanyInv'
    BY <1>1, GotoCompany
  <1>3. arg' = arg
    BY DEF Lock, Unlock
  <1>4. PlaceInv' /\ PostInv'
    BY <1>1, <1>3, Constants DEF PlaceInv, PostInv, Replacing, Threads
  <1>5. LockInv'
    <2>1. CASE Lock(t)
      BY <2>1, Constants DEF Lock, Goto, LockInv, Holding, Copying
    <2>2. CASE Unlock(t)
      BY <2>2, Constants DEF Unlock, Goto, LockInv, Holding, Copying
    <2>3. QED
      BY <2>1, <2>2
  <1>6. QED
    BY <1>2, <1>4, <1>5

LEMMA StoreControl ==
  ASSUME TypeOK, ControlInv, NEW t \in Threads, Store(t)
  PROVE  ControlInv'
  <1> USE DEF ControlInv, TypeOK
  <1>1. PICK label \in {"wipe", "data", "length", "unlock", "idle"} :
           /\ Goto(t, label)
           /\ pc' = [pc EXCEPT ![t] = label]
           /\ label = "idle" => t # Server
           /\ label = "unlock" => t = Server
    BY DEF Store, Clear, Wipe, SetData, SetLength, Goto
  <1>2. /\ pc[t] \in {"clear", "wipe", "data", "length"}
        /\ UNCHANGED <<arg, mutex>>
    BY DEF Store, Clear, Wipe, SetData, SetLength
  <1>3. CompanyInv'
    BY <1>1, GotoCompany
  <1>4. PlaceInv' /\ PostInv'
    BY <1>1, <1>2, Constants DEF PlaceInv, PostInv, Replacing, Threads
  <1>5. Holding(t)' <=> Holding(t)
    BY <1>1, <1>2 DEF Holding, Copying
  <1>6. QED
    BY <1>1, <1>2, <1>3, <1>4, <1>5, GotoLock

LEMMA CopyControl ==
  ASSUME TypeOK, ControlInv, NEW t \in Threads, Copy(t)
  PROVE  ControlInv'
  <1> USE DEF ControlInv, TypeOK
  <1>1. PICK label \in {"copy", "copylen", "unlock", "idle", "compare"} :
           /\ Goto(t, label)
           /\ pc' = [pc EXCEPT ![t] = label]
           /\ label \in {"idle", "compare"} => t = Server
           /\ label = "unlock" => t # Server
    BY DEF Copy, Take, Bytes, CopyLength, Goto
  <1>2. pc[t] \in Copying /\ UNCHANGED <<arg, mutex>>
    BY DEF Copy, Take, Bytes, CopyLength, Copying
  <1>3. CompanyInv'
    BY <1>1, GotoCompany
  <1>4. PlaceInv' /\ PostInv'
    BY <1>1, <1>2, Constants DEF PlaceInv, PostInv, Replacing, Threads
  <1>5. Holding(t)' <=> Holding(t)
    BY <1>1, <1>2 DEF Holding, Copying
  <1>6. QED
    BY <1>1, <1>2, <1>3, <1>4, <1>5, GotoLock

LEMMA WorkerControl ==
  ASSUME TypeOK, ControlInv, NEW w \in Workers, BeginSet(w) \/ BeginGet(w) \/ Test(w)
  PROVE  ControlInv'
  <1> USE DEF ControlInv, TypeOK
  <1>1. w \in Threads /\ w # Server
    BY Constants DEF Threads
  <1>2. PICK label \in {"test", "lock", "clear", "wipe"} :
           /\ Goto(w, label)
           /\ pc' = [pc EXCEPT ![w] = label]
    BY DEF BeginSet, BeginGet, Test, Goto
  <1>3. pc[w] \in {"idle", "test"} /\ UNCHANGED mutex
    BY DEF BeginSet, BeginGet, Test
  <1>4. CompanyInv'
    BY <1>1, <1>2, GotoCompany
  <1>5. PlaceInv'
    BY <1>1, <1>2, Constants DEF PlaceInv, Threads
  <1>6. PostInv'
    <2>1. CASE BeginSet(w)
      BY <1>1, <1>2, <2>1 DEF BeginSet, PostInv, Threads
    <2>2. CASE BeginGet(w)
      BY <1>1, <2>2 DEF BeginGet, Goto, PostInv, Threads, Replacing
    <2>3. CASE Test(w)
      BY <1>1, <1>2, <2>3 DEF Test, PostInv, Threads, Replacing
    <2>4. QED
      BY <2>1, <2>2, <2>3
  <1>7. Holding(w)' <=> Holding(w)
    BY <1>1, <1>2, <1>3 DEF Holding, Copying
  <1>8. QED
    BY <1>1, <1>2, <1>3, <1>4, <1>5, <1>6, <1>7, GotoLock

LEMMA ServerControl ==
  ASSUME TypeOK, ControlInv,
         \/ BeginRead \/ Compare \/ SamePointer \/ Probe \/ CheckWord
         \/ WriteTypeless \/ \E v \in ClientWords : BeginWrite(v)
  PROVE  ControlInv'
  <1> USE DEF ControlInv, TypeOK
  <1>1. Server \in Threads /\ Server \notin Workers
    BY Constants DEF Threads
  <1>2. PICK label \in {"take", "idle", "same", "lock", "probe", "filter", "crashed"} :
           /\ Goto(Server, label)
           /\ pc' = [pc EXCEPT ![Server] = label]
    BY DEF BeginRead, Compare, SamePointer,
           Probe, WriteTypeless, CheckWord, BeginWrite, Goto
  <1>3. /\ pc[Server] \in {"idle", "compare", "same", "probe", "filter"}
        /\ UNCHANGED mutex
        /\ \A w \in Workers : arg'[w] = arg[w]
    <2>1. arg' = arg \/ \E v : arg' = [arg EXCEPT ![Server] = v]
      BY DEF BeginRead, Compare, SamePointer,
             Probe, WriteTypeless, CheckWord, BeginWrite
    <2>2. \A w \in Workers : arg'[w] = arg[w]
      BY <1>1, <2>1 DEF Threads
    <2>3. QED
      BY <2>2 DEF BeginRead, Compare, SamePointer,
                  Probe, WriteTypeless, CheckWord, BeginWrite
  <1>4. CompanyInv'
    BY <1>1, <1>2, GotoCompany
  <1>5. PlaceInv' /\ PostInv'
    BY <1>1, <1>2, <1>3 DEF PlaceInv, PostInv, Replacing, Threads
  <1>6. Holding(Server)' <=> Holding(Server)
    BY <1>1, <1>2, <1>3 DEF Holding, Copying
  <1>7. QED
    BY <1>1, <1>2, <1>3, <1>4, <1>5, <1>6, GotoLock

LEMMA NextControl == TypeOK /\ ControlInv /\ [Next]_vars => ControlInv'
  <1> SUFFICES ASSUME TypeOK, ControlInv, [Next]_vars
               PROVE  ControlInv'
    OBVIOUS
  <1>1. ASSUME UNCHANGED <<mutex, pc, arg, clash>>
        PROVE  ControlInv'
    BY <1>1 DEF ControlInv, PlaceInv, LockInv, CompanyInv, PostInv, Holding,
                SettingValue, Touching
  <1>2. CASE UNCHANGED vars \/ WriteEmpty
    BY <1>1, <1>2 DEF vars, history, WriteEmpty
  <1>3. Workers \subseteq Threads /\ Server \in Threads
    BY DEF Threads
  <1>4. QED
    BY <1>2, <1>3, MutexControl, StoreControl, CopyControl, WorkerControl,
       ServerControl DEF Next, Work, Serve

-----------------------------------------------------------------------------
(* As long as no SetValue has had company *)

Quiet == TypeOK /\ ControlInv /\ ~clash /\ QuietInv

LEMMA OfferedWords == Offered \subseteq Words
  BY DEF Offered, Allowed, Words

LEMMA InitQuiet == Init => QuietInv
  <1> SUFFICES ASSUME Init
               PROVE  QuietInv
    OBVIOUS
  <1>1. \A t \in Threads : pc[t] = "idle"
    BY DEF Init
  <1>2. Server \in Threads /\ FirstBlock \in Buffers
    BY BufferAssumption DEF Threads, FirstBlock
  <1>3. FilterInv
    BY <1>1, <1>2 DEF FilterInv, Replacing
  <1>4. Whole
    BY <1>2 DEF Init, Whole, Only
  <1>5. StoreInv /\ CopyInv
    BY <1>1, <1>4 DEF StoreInv, CopyInv, CopyPart
  <1>6. QED
    BY <1>3, <1>5 DEF QuietInv, Init, Offered

\* Who replaces the string is the only one at it.
LEMMA Alone ==
  ASSUME Quiet, NEW s \in Threads, NEW u \in Threads,
         pc[s] \in Replacing, Touching(u, pc)
  PROVE  s = u
  <1> USE DEF Quiet, ControlInv, Touching, SettingValue, Replacing, Copying
  <1>1. SUFFICES ASSUME s # u
                 PROVE  FALSE
    OBVIOUS
  <1>2. s \notin Workers
    BY <1>1 DEF CompanyInv
  <1>3. s = Server /\ u \in Workers /\ u # Server
    BY <1>1, <1>2 DEF Threads
  <1>4. pc[u] \notin Replacing
    BY <1>1, <1>3 DEF CompanyInv
  <1>5. pc[u] \in Copying
    BY <1>3, <1>4 DEF PlaceInv
  <1>6. Holding(s) /\ Holding(u)
    BY <1>3, <1>5 DEF Holding, PlaceInv
  <1>7. QED
    BY <1>1, <1>6 DEF LockInv

\* So somebody at the string finds it whole, unless half-way through replacing it.
LEMMA Settled ==
  ASSUME Quiet, NEW t \in Threads, Touching(t, pc), pc[t] \notin Halfway
  PROVE  Whole
  <1>1. ASSUME NEW u \in Threads, pc[u] \in Halfway
        PROVE  FALSE
    BY <1>1, Alone DEF Halfway, Replacing
  <1>2. QED
    BY <1>1 DEF Quiet, QuietInv, StoreInv

\* And a thread that is replacing it leaves nobody to be disturbed.
LEMMA Undisturbed ==
  ASSUME Quiet, NEW t \in Threads, pc[t] \in Replacing,
         NEW label, Goto(t, label), label \notin Copying \cup {"same"},
         UNCHANGED <<arg, taken, result>>,
         label = "unlock" => t = Server
  PROVE  FilterInv' /\ CopyInv'
  <1> USE DEF Quiet, TypeOK
  <1>1. pc' = [pc EXCEPT ![t] = label]
    BY DEF Goto
  <1>2. \A u \in Threads : u # t => ~Touching(u, pc)
    BY Alone
  <1>3. Server \in Threads
    BY DEF Threads
  <1>4. FilterInv'
    <2>1. CASE t = Server
      BY <1>1, <1>3, <2>1 DEF FilterInv, QuietInv, Allowed, Replacing, Copying
    <2>2. CASE t # Server
      BY <1>1, <1>2, <1>3, <2>2 DEF FilterInv, QuietInv, Replacing, Touching
    <2>3. QED
      BY <2>1, <2>2
  <1>5. CopyInv'
    <2>1. ASSUME NEW u \in Threads, u = t
          PROVE  CopyPart(u)'
      BY <1>1, <2>1 DEF CopyPart, Copying
    <2>2. ASSUME NEW u \in Threads, u # t
          PROVE  CopyPart(u)'
      <3>1. pc'[u] = pc[u] /\ pc[u] \notin Copying
        BY <1>1, <1>2, <2>2 DEF Touching
      <3>2. QED
        BY <3>1 DEF CopyPart, CopyInv, QuietInv, Copying
    <2>3. QED
      BY <2>1, <2>2 DEF CopyInv
  <1>6. QED
    BY <1>4, <1>5

\* What GetValue and the refresh copy.
LEMMA Exact ==
  ASSUME Whole, value \in Words
  PROVE  BytesOf(mData) = value /\ mData.len # Empty /\ mData.data # Null
  BY Constants DEF Whole, BytesOf, Only

\* A step of t that leaves the string alone and begins or ends no replacement of it.
LEMMA StoreKept ==
  ASSUME Quiet, NEW t \in Threads, NEW label, Goto(t, label),
         pc[t] \notin Halfway, label \notin Halfway,
         UNCHANGED <<mData, heap, value>>,
         \A u \in Threads : u # t => arg'[u] = arg[u]
  PROVE  StoreInv'
  <1> USE DEF Quiet, TypeOK, Halfway
  <1>1. pc' = [pc EXCEPT ![t] = label]
    BY DEF Goto
  <1>2. \A u \in Threads : /\ u # t => pc'[u] = pc[u]
                           /\ u = t => pc'[u] = label
    BY <1>1
  <1>3. (\A u \in Threads : pc'[u] \notin Halfway) => \A u \in Threads : pc[u] \notin Halfway
    BY <1>2
  <1>4. Whole => Whole'
    BY DEF Whole
  <1>5. ASSUME NEW u \in Threads
        PROVE  /\ pc'[u] \in {"wipe", "data"} => Bare'
               /\ pc'[u] = "length" => /\ mData'.data \in Buffers
                                       /\ heap' = Only(mData'.data, arg'[u])
    BY <1>2 DEF StoreInv, QuietInv, Bare
  <1>6. QED
    BY <1>3, <1>4, <1>5 DEF StoreInv, QuietInv

\* Such a step leaves the others' copies alone, too.
LEMMA CopyKept ==
  ASSUME Quiet, NEW t \in Threads, NEW label, Goto(t, label),
         UNCHANGED <<mData, value>>,
         \A u \in Threads : u # t => taken'[u] = taken[u] /\ result'[u] = result[u],
         CopyPart(t)'
  PROVE  CopyInv'
  <1> USE DEF Quiet, TypeOK
  <1>1. ASSUME NEW u \in Threads, u # t
        PROVE  CopyPart(u)'
    <2>1. pc'[u] = pc[u]
      BY <1>1 DEF Goto
    <2>2. QED
      BY <1>1, <2>1 DEF CopyPart, CopyInv, QuietInv
  <1>2. QED
    BY <1>1 DEF CopyInv

\* The server's part of the invariant is not touched by a worker.
LEMMA FilterKept ==
  ASSUME Quiet, NEW w \in Workers, NEW label, Goto(w, label), UNCHANGED mData,
         arg'[Server] = arg[Server], taken'[Server] = taken[Server]
  PROVE  FilterInv'
  <1>1. pc'[Server] = pc[Server]
    BY Constants DEF Goto, Quiet, TypeOK, Threads
  <1>2. QED
    BY <1>1 DEF FilterInv, Quiet, QuietInv

LEMMA WorkerQuiet ==
  ASSUME Quiet, NEW w \in Workers, BeginSet(w) \/ BeginGet(w)
  PROVE  QuietInv'
  <1> USE DEF Quiet, TypeOK
  <1>1. w \in Threads /\ Server \in Threads /\ w # Server
    BY Constants DEF Threads
  <1>2. PICK label \in {"test", "lock"} : Goto(w, label)
    BY DEF BeginSet, BeginGet
  <1>3. /\ UNCHANGED <<mData, heap, taken, result, value>>
        /\ pc[w] = "idle"
    BY DEF BeginSet, BeginGet
  <1>4. \A u \in Threads : u # w => arg'[u] = arg[u]
    BY <1>1 DEF BeginSet, BeginGet
  <1>5. StoreInv'
    BY <1>1, <1>2, <1>3, <1>4, StoreKept DEF Halfway
  <1>6. FilterInv'
    BY <1>1, <1>2, <1>3, <1>4, FilterKept
  <1>7. CopyPart(w)'
    BY <1>1, <1>2 DEF Goto, CopyPart
  <1>8. CopyInv'
    BY <1>1, <1>2, <1>3, <1>7, CopyKept
  <1>9. QED
    BY <1>3, <1>5, <1>6, <1>8 DEF QuietInv

LEMMA TestQuiet ==
  ASSUME Quiet, NEW w \in Workers, Test(w)
  PROVE  QuietInv'
  <1> USE DEF Quiet, TypeOK
  <1>1. w \in Threads /\ Server \in Threads /\ w # Server
    BY Constants DEF Threads
  <1>2. Touching(w, pc) /\ pc[w] \notin Halfway
    BY DEF Test, Touching, Replacing, Halfway
  <1>3. value \in Words
    BY OfferedWords DEF QuietInv
  <1>4. Goto(w, "clear")
    BY <1>1, <1>2, <1>3, Settled, Exact DEF Test
  <1>5. UNCHANGED <<mData, heap, arg, taken, result, value>>
    BY DEF Test
  <1>6. StoreInv'
    BY <1>1, <1>2, <1>4, <1>5, StoreKept DEF Halfway
  <1>7. FilterInv'
    BY <1>4, <1>5, FilterKept
  <1>8. CopyPart(w)'
    BY <1>1, <1>4 DEF Goto, CopyPart
  <1>9. CopyInv'
    BY <1>1, <1>4, <1>5, <1>8, CopyKept
  <1>10. QED
    BY <1>5, <1>6, <1>7, <1>9 DEF QuietInv

LEMMA MutexQuiet ==
  ASSUME Quiet, NEW t \in Threads, Lock(t) \/ Unlock(t)
  PROVE  QuietInv'
  <1> USE DEF Quiet, TypeOK
  <1>1. PICK label \in {"clear", "take", "idle"} :
           Goto(t, label) /\ (label = "clear" => t = Server /\ pc[t] = "lock")
    BY DEF Lock, Unlock
  <1>2. /\ UNCHANGED <<mData, heap, arg, taken, result, value>>
        /\ pc[t] \in {"lock", "unlock"}
    BY DEF Lock, Unlock
  <1>3. pc' = [pc EXCEPT ![t] = label]
    BY <1>1 DEF Goto
  <1>4. Server \in Threads
    BY DEF Threads
  <1>5. FilterInv'
    BY <1>1, <1>2, <1>3, <1>4 DEF FilterInv, QuietInv, Replacing
  <1>6. StoreInv'
    BY <1>1, <1>2, StoreKept DEF Halfway
  <1>7. CopyPart(t)'
    BY <1>3 DEF CopyPart
  <1>8. CopyInv'
    BY <1>1, <1>2, <1>7, CopyKept
  <1>9. QED
    BY <1>2, <1>5, <1>6, <1>8 DEF QuietInv

\* A thread stores what the device posted or what the filter let through.
LEMMA StoresOffered ==
  ASSUME Quiet, NEW t \in Threads, pc[t] \in Replacing
  PROVE  /\ arg[t] \in PostWords \cup Allowed
         /\ arg[t] \in Offered /\ arg[t] \in Words /\ arg[t] # Empty
  <1> USE DEF Quiet, ControlInv, QuietInv
  <1>1. t = Server => arg[t] \in Allowed
    BY DEF FilterInv
  <1>2. t \in Workers => arg[t] \in PostWords
    BY DEF PostInv
  <1>3. arg[t] \in PostWords \cup Allowed
    BY <1>1, <1>2 DEF Threads
  <1>4. QED
    BY <1>3, OfferedWords, Constants DEF Offered

\* One step of a replacement has to account for its own thread only.
LEMMA StoreMoved ==
  ASSUME Quiet, NEW t \in Threads, pc[t] \in Replacing, NEW label, Goto(t, label),
         label \notin Halfway => Whole',
         label \in {"wipe", "data"} => Bare',
         label = "length" => mData'.data \in Buffers /\ heap' = Only(mData'.data, arg'[t])
  PROVE  StoreInv'
  <1>1. pc' = [pc EXCEPT ![t] = label]
    BY DEF Goto
  <1>2. \A u \in Threads : u # t => pc[u] \notin Halfway
    BY Alone DEF Touching, Halfway, Replacing
  <1>3. \A u \in Threads : /\ u # t => pc'[u] \notin Halfway
                           /\ u = t => pc'[u] = label
    BY <1>1, <1>2 DEF Quiet, TypeOK
  <1>4. ASSUME NEW u \in Threads
        PROVE  /\ pc'[u] \in {"wipe", "data"} => Bare'
               /\ pc'[u] = "length" => /\ mData'.data \in Buffers
                                       /\ heap' = Only(mData'.data, arg'[u])
    BY <1>3 DEF Halfway
  <1>5. (\A u \in Threads : pc'[u] \notin Halfway) => Whole'
    BY <1>3
  <1>6. QED
    BY <1>4, <1>5 DEF StoreInv

LEMMA ReplaceQuiet ==
  ASSUME Quiet, NEW t \in Threads, Store(t)
  PROVE  QuietInv'
  <1> USE DEF Replacing, Halfway, Copying
  <1>1. CASE Clear(t)
    <2>1. Whole
      BY <1>1, Settled DEF Clear, Touching
    <2>2. Bare'
      BY <1>1, <2>1 DEF Clear, Whole, Only, Bare
    <2>3. StoreInv'
      BY <1>1, <2>2, StoreMoved DEF Clear
    <2>4. FilterInv' /\ CopyInv'
      BY <1>1, Undisturbed DEF Clear
    <2>5. QED
      BY <1>1, <2>3, <2>4 DEF Clear, QuietInv, Quiet
  <1>2. CASE Wipe(t)
    <2>1. Bare'
      BY <1>2 DEF Wipe, Bare, StoreInv, QuietInv, Quiet
    <2>2. StoreInv'
      BY <1>2, <2>1, StoreMoved DEF Wipe
    <2>3. FilterInv' /\ CopyInv'
      BY <1>2, Undisturbed DEF Wipe
    <2>4. QED
      BY <1>2, <2>2, <2>3 DEF Wipe, QuietInv, Quiet
  <1>3. CASE SetData(t)
    <2>1. Bare /\ TypeOK /\ pc[t] = "data"
      BY <1>3 DEF SetData, StoreInv, QuietInv, Quiet
    <2>2. NewBlock(t) \in Buffers /\ arg[t] # Empty
      BY <2>1, BlockGiven, StoresOffered
    <2>3. /\ mData'.data = NewBlock(t)
          /\ heap' = [heap EXCEPT ![NewBlock(t)] = arg[t]]
          /\ arg' = arg
      BY <1>3, <2>1, <2>2 DEF SetData, TypeOK
    <2>4. heap' = Only(NewBlock(t), arg[t])
      BY <2>1, <2>2, <2>3 DEF Bare, Only
    <2>5. StoreInv'
      BY <1>3, <2>2, <2>3, <2>4, StoreMoved DEF SetData
    <2>6. FilterInv' /\ CopyInv'
      BY <1>3, Undisturbed DEF SetData
    <2>7. QED
      BY <1>3, <2>5, <2>6 DEF SetData, QuietInv, Quiet
  <1>4. CASE SetLength(t)
    <2>1. /\ mData.data \in Buffers /\ heap = Only(mData.data, arg[t])
          /\ TypeOK /\ pc[t] = "length"
      BY <1>4 DEF SetLength, StoreInv, QuietInv, Quiet
    <2>2. mData' = [mData EXCEPT !.len = arg[t]] /\ value' = arg[t] /\ heap' = heap
      BY <1>4 DEF SetLength
    <2>3. Whole'
      BY <2>1, <2>2 DEF Whole, TypeOK
    <2>4. PICK label \in {"unlock", "idle"} :
             Goto(t, label) /\ (label = "unlock" => t = Server)
      BY <1>4 DEF SetLength
    <2>5. StoreInv'
      BY <2>1, <2>3, <2>4, StoreMoved
    <2>6. FilterInv' /\ CopyInv'
      BY <1>4, <2>1, <2>4, Undisturbed DEF SetLength
    <2>7. value' \in Offered
      BY <2>1, <2>2, StoresOffered
    <2>8. QED
      BY <2>5, <2>6, <2>7 DEF QuietInv
  <1>5. QED
    BY <1>1, <1>2, <1>3, <1>4 DEF Store

LEMMA CopyQuiet ==
  ASSUME Quiet, NEW t \in Threads, Copy(t)
  PROVE  QuietInv'
  <1> USE DEF Quiet, TypeOK, Halfway, Copying
  <1>1. pc[t] \in Copying /\ Touching(t, pc) /\ pc[t] \notin Halfway
    BY DEF Copy, Take, Bytes, CopyLength, Touching
  <1>2. Whole /\ value \in Offered /\ value \in Words
    BY <1>1, Settled, OfferedWords DEF QuietInv
  <1>3. /\ BytesOf(mData) = value
        /\ mData.len # Empty /\ mData.data # Null
    BY <1>2, Exact
  <1>4. UNCHANGED <<mData, heap, arg, value>>
    BY DEF Copy, Take, Bytes, CopyLength
  <1>5. PICK label \in {"copy", "copylen", "unlock", "compare"} :
           /\ Goto(t, label)
           /\ label = "copylen" => Bytes(t)
           /\ label = "copy" => Take(t)
           /\ label = "unlock" => CopyLength(t) /\ t # Server
           /\ label = "compare" => t = Server
    <2>1. CASE Bytes(t)
      <3>1. taken[t] = mData
        BY <2>1 DEF Bytes, QuietInv, CopyInv, CopyPart
      <3>2. QED
        BY <1>3, <2>1, <3>1 DEF Bytes
    <2>2. QED
      BY <2>1 DEF Copy, Take, CopyLength
  <1>6. pc'[t] = label
    BY <1>5 DEF Goto
  <1>7. \A u \in Threads : u # t => taken'[u] = taken[u] /\ result'[u] = result[u]
    BY DEF Copy, Take, Bytes, CopyLength
  <1>8. CopyPart(t)'
    <2>1. CASE label = "copy"
      BY <1>5, <1>6, <2>1 DEF Take, CopyPart
    <2>2. CASE label = "copylen"
      BY <1>2, <1>3, <1>5, <1>6, <2>2 DEF Bytes, CopyPart, QuietInv, CopyInv
    <2>3. CASE label = "unlock"
      <3>1. taken[t] = mData /\ result[t] = value
        BY <1>5, <2>3 DEF CopyLength, CopyPart, QuietInv, CopyInv
      <3>2. result'[t] = value
        BY <1>5, <2>3, <3>1 DEF CopyLength, Relength
      <3>3. QED
        BY <1>2, <1>6, <2>3, <3>2 DEF CopyPart
    <2>4. CASE label = "compare"
      BY <1>6, <2>4 DEF CopyPart
    <2>5. QED
      BY <2>1, <2>2, <2>3, <2>4
  <1>9. CopyInv'
    BY <1>4, <1>5, <1>7, <1>8, CopyKept
  <1>10. StoreInv'
    BY <1>1, <1>4, <1>5, StoreKept
  <1>11. FilterInv'
    <2>1. pc'[Server] # pc[Server] => t = Server
      BY <1>5 DEF Goto, Threads
    <2>2. CASE t = Server
      BY <1>6, <2>2 DEF FilterInv, Replacing
    <2>3. CASE t # Server
      BY <1>4, <1>7, <2>1, <2>3 DEF FilterInv, QuietInv, Threads
    <2>4. QED
      BY <2>2, <2>3
  <1>12. QED
    BY <1>2, <1>4, <1>9, <1>10, <1>11 DEF QuietInv

\* The server's steps that neither copy nor replace the string nor use the mutex.
LEMMA ServerQuiet ==
  ASSUME Quiet, \/ BeginRead \/ Compare \/ SamePointer \/ Probe \/ CheckWord
                \/ WriteTypeless \/ \E v \in ClientWords : BeginWrite(v)
  PROVE  QuietInv'
  <1> USE DEF Quiet, TypeOK
  <1>1. Server \in Threads /\ Server \notin Workers
    BY Constants DEF Threads
  <1>2. UNCHANGED <<mData, heap, result, value>>
    BY DEF BeginRead, Compare, SamePointer,
           Probe, WriteTypeless, CheckWord, BeginWrite
  <1>3. /\ \A u \in Threads : u # Server => /\ arg'[u] = arg[u]
                                            /\ taken'[u] = taken[u]
        /\ result' = result
    BY DEF BeginRead, Compare, SamePointer,
           Probe, WriteTypeless, CheckWord, BeginWrite
  <1>4. PICK label \in {"take", "idle", "same", "lock", "probe", "filter", "crashed"} :
           /\ Goto(Server, label)
           /\ label = "same" => taken'[Server].data = mData'.data
           /\ label = "lock" => arg'[Server] \in Allowed
           /\ label \in {"probe", "filter"} => arg'[Server] \in ClientWords
    <2>1. CASE BeginRead
      BY <2>1 DEF BeginRead
    <2>2. CASE Compare
      BY <1>1, <2>2 DEF Compare
    <2>3. CASE SamePointer
      BY <2>3 DEF SamePointer, FilterInv, QuietInv
    <2>4. CASE CheckWord
      BY <2>4 DEF CheckWord, FilterInv, QuietInv, Allowed
    <2>5. CASE \E v \in ClientWords : BeginWrite(v)
      BY <1>1, <2>5 DEF BeginWrite
    <2>6. CASE Probe
      BY <2>6 DEF Probe, FilterInv, QuietInv
    <2>7. CASE WriteTypeless
      BY <2>7 DEF WriteTypeless
    <2>8. QED
      BY <2>1, <2>2, <2>3, <2>4, <2>5, <2>6, <2>7
  <1>5. pc[Server] \notin Halfway /\ label \notin Halfway
    BY DEF BeginRead, Compare, SamePointer,
           Probe, WriteTypeless, CheckWord, BeginWrite, Halfway
  <1>6. pc'[Server] = label
    BY <1>1, <1>4 DEF Goto
  <1>7. FilterInv'
    BY <1>4, <1>6 DEF FilterInv, Replacing
  <1>8. StoreInv'
    BY <1>1, <1>2, <1>3, <1>4, <1>5, StoreKept
  <1>9. CopyPart(Server)'
    BY <1>6 DEF CopyPart
  <1>10. CopyInv'
    BY <1>1, <1>2, <1>3, <1>4, <1>9, CopyKept
  <1>11. QED
    BY <1>2, <1>7, <1>8, <1>10 DEF QuietInv

LEMMA NextQuiet == Quiet /\ [Next]_vars => QuietInv'
  <1> SUFFICES ASSUME Quiet, [Next]_vars
               PROVE  QuietInv'
    OBVIOUS
  <1>1. ASSUME UNCHANGED <<mData, heap, pc, arg, taken, result, value>>
        PROVE  QuietInv'
    BY <1>1 DEF Quiet, QuietInv, FilterInv, StoreInv, CopyInv, CopyPart, Whole, Bare
  <1>2. CASE UNCHANGED vars \/ WriteEmpty
    BY <1>1, <1>2 DEF vars, history, WriteEmpty
  <1>3. Workers \subseteq Threads /\ Server \in Threads
    BY DEF Threads
  <1>4. QED
    BY <1>2, <1>3, WorkerQuiet, TestQuiet, MutexQuiet, ReplaceQuiet, CopyQuiet,
       ServerQuiet DEF Next, Work, Serve

\* Once a SetValue has met another access, the history remembers it.
LEMMA ClashStays == [Next]_vars /\ ~clash' => ~clash
  BY DEF Next, Work, Serve, Store, Copy, BeginSet, BeginGet, Test, Lock, Unlock,
         Clear, Wipe, SetData, SetLength, Take, Bytes, CopyLength, BeginRead,
         Compare, SamePointer,
         Probe, WriteTypeless, CheckWord, BeginWrite, WriteEmpty, Goto, vars, history

LEMMA Inductive == Spec => []IInv
  <1>1. Init => IInv
    BY InitType, InitControl, InitQuiet DEF IInv
  <1>2. IInv /\ [Next]_vars => IInv'
    BY NextType, NextControl, NextQuiet, ClashStays DEF IInv, Quiet
  <1>3. QED
    BY <1>1, <1>2, PTL DEF Spec

-----------------------------------------------------------------------------
\* Every variable keeps its type: the struct, the heap, the mutex and every
\* thread's place and words, whatever the threads do to m_data.
THEOREM TypeCorrect == Spec => []TypeOK
  BY Inductive, PTL DEF IInv

\* Unless a SetValue has met another access, m_data owns the one live block, with
\* the word stored last, whenever nobody is replacing it: no leak, no dangling
\* pointer, no second free.
THEOREM NodeOwnsItsBlock == Spec => []NothingDangles
  <1>1. IInv => NothingDangles
    <2> SUFFICES ASSUME IInv, ~clash, \A t \in Threads : pc[t] \notin Replacing
                 PROVE  /\ mData.len = value
                        /\ {b \in Buffers : heap[b] # Freed} = {mData.data}
      BY DEF NothingDangles
    <2>1. Whole /\ value \in Words
      BY OfferedWords DEF IInv, QuietInv, StoreInv, Halfway, Replacing
    <2>2. \A b \in Buffers : heap[b] # Freed <=> b = mData.data
      BY <2>1, Constants DEF Whole, Only
    <2>3. QED
      BY <2>1, <2>2 DEF Whole
  <1>2. QED
    BY <1>1, Inductive, PTL

\* Unless a SetValue has met another access, GetValue never hands out a word the
\* filter refuses.
THEOREM RefusedWordsStayOut == Spec => []RefusedStaysOut
  <1>1. IInv => RefusedStaysOut
    BY Constants DEF IInv, RefusedStaysOut, QuietInv, CopyInv, CopyPart, Offered,
                     Allowed, Threads
  <1>2. QED
    BY <1>1, Inductive, PTL

\* What a copy brings along, by the step that fetches the bytes and the one that
\* ends it.
LEMMA CopyExact ==
  ASSUME Quiet, NEW t \in Threads
  PROVE  /\ Bytes(t) => result' = [result EXCEPT ![t] = value]
         /\ CopyLength(t) => result'[t] = value /\ result' = result
  <1> USE DEF Quiet, TypeOK
  <1>1. ASSUME Bytes(t)
        PROVE  result' = [result EXCEPT ![t] = value]
    <2>1. Whole /\ value \in Words
      BY <1>1, Settled, OfferedWords DEF Bytes, Touching, Copying, Halfway, QuietInv
    <2>2. taken[t] = mData
      BY <1>1 DEF Bytes, QuietInv, CopyInv, CopyPart
    <2>3. QED
      BY <1>1, <2>1, <2>2, Exact DEF Bytes
  <1>2. ASSUME CopyLength(t)
        PROVE  result'[t] = value /\ result' = result
    <2>1. taken[t] = mData /\ result[t] = value
      BY <1>2 DEF CopyLength, QuietInv, CopyInv, CopyPart
    <2>2. result' = [result EXCEPT ![t] = result[t]]
      BY <1>2, <2>1 DEF CopyLength, Relength
    <2>3. QED
      BY <2>1, <2>2
  <1>3. QED
    BY <1>1, <1>2

\* Nobody else moves a thread, and it ends its copy by the length.
LEMMA CopyEnds ==
  ASSUME TypeOK, [Next]_vars, NEW t \in Threads,
         pc[t] = "copylen", pc'[t] # "copylen"
  PROVE  CopyLength(t)
  <1>1. ASSUME NEW u \in Threads, NEW label, Goto(u, label)
        PROVE  u = t
    BY <1>1 DEF Goto, TypeOK
  <1>2. ASSUME NEW u \in Threads, Lock(u) \/ Unlock(u) \/ Store(u) \/ Copy(u)
        PROVE  CopyLength(t)
    <2>1. u = t
      BY <1>1, <1>2 DEF Lock, Unlock, Store, Clear, Wipe, SetData, SetLength,
                        Copy, Take, Bytes, CopyLength
    <2>2. QED
      BY <1>2, <2>1 DEF Lock, Unlock, Store, Clear, Wipe, SetData, SetLength,
                        Copy, Take, Bytes
  <1>3. ASSUME NEW w \in Workers, BeginSet(w) \/ BeginGet(w) \/ Test(w)
        PROVE  FALSE
    BY <1>1, <1>3 DEF BeginSet, BeginGet, Test, Threads
  <1>4. ASSUME \/ BeginRead \/ Compare \/ SamePointer \/ Probe \/ CheckWord
               \/ WriteTypeless \/ \E v \in ClientWords : BeginWrite(v)
        PROVE  FALSE
    BY <1>1, <1>4 DEF BeginRead, Compare, SamePointer,
                      Probe, WriteTypeless, CheckWord, BeginWrite, Threads
  <1>5. ~WriteEmpty /\ ~UNCHANGED vars
    BY DEF WriteEmpty, vars
  <1>6. QED
    BY <1>2, <1>3, <1>4, <1>5 DEF Next, Work, Serve, Threads

\* Unless a SetValue has met another access, what GetValue hands to the device and
\* what the refresh puts into the node is the word stored last.
THEOREM CopiesAreExact == Spec => ReadsExact
  <1>1. ASSUME IInv, [Next]_vars, ~clash', NEW t \in Threads,
               pc[t] = "copylen", pc'[t] # "copylen"
        PROVE  result'[t] = value
    <2>1. Quiet
      BY <1>1, ClashStays DEF IInv, Quiet
    <2>2. CopyLength(t)
      BY <1>1, CopyEnds DEF IInv
    <2>3. QED
      BY <2>1, <2>2, CopyExact
  <1>2. IInv /\ [Next]_vars =>
           [\A t \in Threads :
               ~clash' /\ pc[t] = "copylen" /\ pc'[t] # "copylen"
                  => result'[t] = value]_vars
    BY <1>1
  <1>3. QED
    BY <1>2, Inductive, PTL DEF Spec, ReadsExact

\* The string variable implements the single word of WordRegister: the store of the
\* length is where a replacement takes effect, the fetch of the bytes is where a
\* copy does, and every other step is a stutter - until a post meets another access.
THEOREM Refinement == Spec => KeepsRegister
  <1> USE DEF Register!vars
  <1>1. Init => Register!Init
    BY DEF Init, Register!Init
  <1>2. ASSUME IInv, [Next]_vars
        PROVE  [Register!Next]_(Register!vars)
    <2>1. CASE clash'
      <3>1. clash' = TRUE
        BY <1>2, <2>1, NextType DEF IInv, TypeOK
      <3>2. QED
        BY <3>1 DEF Register!Next, Register!Break
    <2>2. CASE ~clash'
      <3>1. Quiet /\ clash' = clash
        BY <1>2, <2>2, ClashStays, NextType DEF IInv, Quiet, TypeOK
      <3>2. ASSUME NEW t \in Threads, SetLength(t)
            PROVE  Register!Next
        <4>1. value' = arg[t] /\ result' = result /\ pc[t] \in Replacing
          BY <3>2 DEF SetLength, Replacing
        <4>2. arg[t] \in PostWords \cup Allowed
          BY <3>1, <4>1, StoresOffered
        <4>3. QED
          BY <3>1, <4>1, <4>2 DEF Register!Next, Register!SetWord, Allowed
      <3>3. ASSUME NEW t \in Threads, Bytes(t)
            PROVE  Register!Next
        <4>1. result' = [result EXCEPT ![t] = value] /\ value' = value
          BY <3>1, <3>3, CopyExact DEF Bytes
        <4>2. QED
          BY <3>1, <3>3, <4>1 DEF Register!Next, Register!CopyWord
      <3>4. ASSUME NEW t \in Threads, CopyLength(t)
            PROVE  UNCHANGED <<value, result>>
        BY <3>1, <3>4, CopyExact DEF CopyLength
      <3>5. Workers \subseteq Threads /\ Server \in Threads
        BY DEF Threads
      <3>6. \/ \E t \in Threads : SetLength(t) \/ Bytes(t)
            \/ UNCHANGED <<value, result>>
        BY <1>2, <3>4, <3>5
           DEF Next, Work, Serve, Store, Copy, BeginSet, BeginGet, Test, Lock,
               Unlock, Clear, Wipe, SetData, Take, BeginRead, Compare, SamePointer,
               Probe, WriteTypeless,
               CheckWord, BeginWrite, WriteEmpty, vars, history
      <3>7. QED
        BY <3>1, <3>2, <3>3, <3>6
    <2>3. QED
      BY <2>1, <2>2
  <1>3. QED
    BY <1>1, <1>2, Inductive, PTL DEF Spec, KeepsRegister, Register!Spec

=============================================================================
