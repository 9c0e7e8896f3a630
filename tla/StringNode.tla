----------------------------- MODULE StringNode -----------------------------
(***************************************************************************)
(* One string variable of the bridge (OpcuaDataBaseString).  m_data is a   *)
(* UA_String, a pointer and a length, and replacing it takes several       *)
(* stores: free the old buffer, zero both fields, set the pointer, set the *)
(* length.  Who replaces or copies it:                                     *)
(*   SetValue            HTTP worker, under no lock;                       *)
(*   GetValue            HTTP worker, under s_filterMutex;                 *)
(*   afterWriteCallback  server thread, under s_filterMutex, after the     *)
(*                       word filter (which takes the mutex by itself);    *)
(*   UpdateString        server thread, before every read, under no lock.  *)
(* The filter is set in main before any of them runs.                      *)
(*                                                                         *)
(* Two words stand for strings of different lengths.  The string SetValue  *)
(* allocates for itself, and never frees, is left out.                     *)
(***************************************************************************)
CONSTANTS Workers,       \* HTTP worker threads
          Server,        \* the thread that runs the OPC UA server
          NoOne,
          Buffers,       \* heap blocks
          Null,          \* the null pointer
          PostWords,     \* what the device posts
          ClientWords,   \* what clients write; {} for a read-only node
          Filter,        \* s_filterWords
          First          \* the word main stores

Threads == Workers \cup {Server}
Words == PostWords \cup ClientWords \cup {First}

Empty == "Empty"         \* length 0
Garbage == "Garbage"     \* bytes of a freed block, or the wrong number of them
Freed == "Freed"

ASSUME ServerAssumption == Server \notin Workers /\ NoOne \notin Threads
ASSUME BufferAssumption == Null \notin Buffers /\ Buffers # {}
\* malloc does not fail: there are more blocks than threads, that is, one beside
\* those that m_data and the copies of all threads but the caller point to.
ASSUME HeapAssumption ==
    \A inUse \in [Threads -> Buffers \cup {Null}] :
        \E b \in Buffers : \A t \in Threads : b # inUse[t]
ASSUME WordAssumption == /\ Words \cap {Empty, Garbage, Freed} = {}
                         /\ Filter \subseteq Words

VARIABLES mData,         \* [data, len]: a block or Null, and whose length it is
          heap,          \* the word in each block, or Freed
          nodeValue,     \* the string in the OPC UA node
          mutex,         \* holder of s_filterMutex
          pc,
          arg,           \* the word a thread is storing
          taken,         \* pointer and length a thread copies from
          result         \* what it has copied

\* History: the last word stored completely; whether a SetValue ever ran while
\* another thread was at m_data.
VARIABLES value, clash

history == <<value, clash>>
vars == <<mData, heap, nodeValue, mutex, pc, arg, taken, result, history>>

Zero == [data |-> Null, len |-> Empty]

FirstBlock == CHOOSE b \in Buffers : TRUE

Init == /\ mData = [data |-> FirstBlock, len |-> First]
        /\ heap = [b \in Buffers |-> IF b = FirstBlock THEN First ELSE Freed]
        /\ nodeValue = Empty
        /\ mutex = NoOne
        /\ pc = [t \in Threads |-> "idle"]
        /\ arg = [t \in Threads |-> First]
        /\ taken = [t \in Threads |-> Zero]
        /\ result = [t \in Threads |-> Empty]
        /\ value = First
        /\ clash = FALSE

-----------------------------------------------------------------------------
Replacing == {"test", "clear", "wipe", "data", "length"}
Copying == {"take", "copy", "copylen"}
Touching(t, at) == at[t] \in Replacing \cup Copying \cup {"compare", "same", "probe"}
SettingValue(t, at) == t \in Workers /\ at[t] \in Replacing

\* All threads stop when the write callback has crashed the process.
Lives == pc[Server] # "crashed"

\* Thread t moves on; the history notes whether a SetValue has company.
Goto(t, label) ==
    /\ Lives
    /\ pc' = [pc EXCEPT ![t] = label]
    /\ clash' = (clash \/ \E s, u \in Threads :
                             s # u /\ SettingValue(s, pc') /\ Touching(u, pc'))

-----------------------------------------------------------------------------
(* std::lock_guard<std::mutex> on s_filterMutex. *)

\* A change that must be caught: GetValue takes no lock.
Lock_ServerOnly(t) ==
    /\ pc[t] = "lock"
    /\ t = Server => mutex = NoOne
    /\ mutex' = t
    /\ Goto(t, IF t = Server THEN "clear" ELSE "take")
    /\ UNCHANGED <<mData, heap, nodeValue, arg, taken, result, value>>

Lock(t) ==
    /\ pc[t] = "lock"
    /\ mutex = NoOne
    /\ mutex' = t
    /\ Goto(t, IF t = Server THEN "clear" ELSE "take")
    /\ UNCHANGED <<mData, heap, nodeValue, arg, taken, result, value>>

Unlock(t) ==
    /\ pc[t] = "unlock"
    /\ mutex' = NoOne
    /\ Goto(t, "idle")
    /\ UNCHANGED <<mData, heap, nodeValue, arg, taken, result, value>>

-----------------------------------------------------------------------------
(* UA_String_clear(&m_data), then UA_String_copy(.., &m_data).             *)

\* A change that must be caught: the old block is not freed.
Clear_Leaks(t) ==
    /\ pc[t] = "clear"
    /\ Goto(t, "wipe")
    /\ UNCHANGED <<mData, heap, nodeValue, mutex, arg, taken, result, value>>

\* UA_Array_delete frees the block m_data points to now.
Clear(t) ==
    /\ pc[t] = "clear"
    /\ heap' = [b \in Buffers |-> IF b = mData.data THEN Freed ELSE heap[b]]
    /\ Goto(t, "wipe")
    /\ UNCHANGED <<mData, nodeValue, mutex, arg, taken, result, value>>

\* UA_clear and UA_copy both zero the struct; one step stands for the two.
Wipe(t) ==
    /\ pc[t] = "wipe"
    /\ mData' = Zero
    /\ Goto(t, "data")
    /\ UNCHANGED <<heap, nodeValue, mutex, arg, taken, result, value>>

\* The allocator hands out a block that is free and that nobody else points to;
\* which one makes no difference.  Bound: when there is none, a leaked block.
InUse(t) == {mData.data} \cup {taken[u].data : u \in Threads \ {t}}
Spare(t) == Buffers \ InUse(t)
NewBlock(t) == CHOOSE b \in Spare(t) :
                  heap[b] = Freed \/ \A c \in Spare(t) : heap[c] # Freed

\* UA_Array_copy: a new block with the bytes; none for an empty string.
SetData(t) ==
    /\ pc[t] = "data"
    /\ IF arg[t] = Empty
       THEN /\ mData' = [mData EXCEPT !.data = Null]
            /\ UNCHANGED heap
       ELSE /\ mData' = [mData EXCEPT !.data = NewBlock(t)]
            /\ heap' = [heap EXCEPT ![NewBlock(t)] = arg[t]]
    /\ Goto(t, "length")
    /\ UNCHANGED <<nodeValue, mutex, arg, taken, result, value>>

SetLength(t) ==
    /\ pc[t] = "length"
    /\ mData' = [mData EXCEPT !.len = arg[t]]
    /\ value' = arg[t]
    /\ Goto(t, IF t = Server THEN "unlock" ELSE "idle")
    /\ UNCHANGED <<heap, nodeValue, mutex, arg, taken, result>>

Store(t) == Clear(t) \/ Wipe(t) \/ SetData(t) \/ SetLength(t)

-----------------------------------------------------------------------------
(* UA_String_copy(&m_data, ..): the source's fields are loaded, the bytes    *)
(* copied, and the source's length loaded once more.                         *)

Take(t) ==
    /\ pc[t] = "take"
    /\ taken' = [taken EXCEPT ![t] = mData]
    /\ Goto(t, "copy")
    /\ UNCHANGED <<mData, heap, nodeValue, mutex, arg, result, value>>

\* A change that must be caught: the copy does not look at the length.
BytesOf_AnyLength(s) == IF s.data = Null THEN Empty ELSE heap[s.data]

BytesOf(s) == IF s.len = Empty \/ s.data = Null THEN Empty
              ELSE IF heap[s.data] = s.len THEN s.len ELSE Garbage

\* A length without a block makes the copy fail: GetValue then returns an empty
\* string, and the server does not touch the node or call the callback.
Bytes(t) ==
    /\ pc[t] = "copy"
    /\ result' = [result EXCEPT ![t] = BytesOf(taken[t])]
    /\ Goto(t, IF taken[t].len # Empty /\ taken[t].data = Null
               THEN IF t = Server THEN "idle" ELSE "unlock"
               ELSE "copylen")
    /\ UNCHANGED <<mData, heap, nodeValue, mutex, arg, taken, value>>

Relength(t, bytes) == IF mData.len = taken[t].len THEN bytes
                      ELSE IF mData.len = Empty THEN Empty ELSE Garbage

CopyLength(t) ==
    /\ pc[t] = "copylen"
    /\ result' = [result EXCEPT ![t] = Relength(t, @)]
    /\ nodeValue' = IF t = Server THEN result'[t] ELSE nodeValue
    /\ taken' = [taken EXCEPT ![t] = Zero]
    /\ Goto(t, IF t = Server THEN "compare" ELSE "unlock")
    /\ UNCHANGED <<mData, heap, mutex, arg, value>>

Copy(t) == Take(t) \/ Bytes(t) \/ CopyLength(t)

-----------------------------------------------------------------------------
(* HTTP workers *)

BeginSet(w) ==
    /\ pc[w] = "idle"
    /\ \E v \in PostWords : arg' = [arg EXCEPT ![w] = v]
    /\ Goto(w, "test")
    /\ UNCHANGED <<mData, heap, nodeValue, mutex, taken, result, value>>

\* if (m_data.data != 0 && m_data.length > 0) UA_String_clear(&m_data)
Test(w) ==
    /\ pc[w] = "test"
    /\ Goto(w, IF mData.data # Null /\ mData.len # Empty THEN "clear" ELSE "wipe")
    /\ UNCHANGED <<mData, heap, nodeValue, mutex, arg, taken, result, value>>

BeginGet(w) ==
    /\ pc[w] = "idle"
    /\ Goto(w, "lock")
    /\ UNCHANGED <<mData, heap, nodeValue, mutex, arg, taken, result, value>>

Work(w) == Test(w) \/ Lock(w) \/ Unlock(w) \/ Store(w) \/ Copy(w)

-----------------------------------------------------------------------------
(* Server thread *)

\* A read: beforeReadCallback, UpdateString, UA_Server_writeValue.
BeginRead ==
    /\ pc[Server] = "idle"
    /\ Goto(Server, "take")
    /\ UNCHANGED <<mData, heap, nodeValue, mutex, arg, taken, result, value>>

\* The callback of that write: stringdata is &m_data itself.  It returns on an
\* empty string, and loads m_data.data twice to see that they are equal.
Compare ==
    /\ pc[Server] = "compare"
    /\ taken' = [taken EXCEPT ![Server] = mData]
    /\ Goto(Server, IF mData.data = Null \/ mData.len = Empty
                    THEN "idle" ELSE "same")
    /\ UNCHANGED <<mData, heap, nodeValue, mutex, arg, result, value>>

\* If they differ it takes m_data for a client's string, and clears m_data
\* before copying it onto itself - unless the filter refuses those bytes.
SamePointer ==
    /\ pc[Server] = "same"
    /\ \/ mData.data = taken[Server].data /\ Goto(Server, "idle")
       \/ mData.data # taken[Server].data /\ Goto(Server, "idle")
       \/ mData.data # taken[Server].data /\ Goto(Server, "lock")
    /\ arg' = [arg EXCEPT ![Server] = Empty]
    /\ taken' = [taken EXCEPT ![Server] = Zero]
    /\ UNCHANGED <<mData, heap, nodeValue, mutex, result, value>>

\* A client's write has been stored in the node; the callback begins.
BeginWrite(v) ==
    /\ pc[Server] = "idle"
    /\ nodeValue' = v
    /\ arg' = [arg EXCEPT ![Server] = v]
    /\ Goto(Server, "probe")
    /\ UNCHANGED <<mData, heap, mutex, taken, result, value>>

\* Is the client's string m_data itself?  m_data.data is loaded under no lock.
\* Only a pointer that dangles can be the client's: its block was given away.
Probe ==
    /\ pc[Server] = "probe"
    /\ \/ Goto(Server, "filter")
       \/ mData.data # Null /\ heap[mData.data] = Freed /\ Goto(Server, "idle")
    /\ UNCHANGED <<mData, heap, nodeValue, mutex, arg, taken, result, value>>

\* An empty string, or a DataValue without a value: the callback returns at once.
WriteEmpty ==
    /\ pc[Server] = "idle"
    /\ ClientWords # {}
    /\ nodeValue' = Empty
    /\ UNCHANGED <<mData, heap, mutex, pc, arg, taken, result, history>>

\* A DataValue that says it has a value, in a Variant without a type, passes the
\* node's type check (open62541.c:39733), and the callback reads the type's name
\* through a null pointer: the process ends.
WriteTypeless ==
    /\ pc[Server] = "idle"
    /\ ClientWords # {}
    /\ nodeValue' = Empty
    /\ Goto(Server, "crashed")
    /\ UNCHANGED <<mData, heap, mutex, arg, taken, result, value>>

IsWordAllowed(v) == Filter = {} \/ v \in Filter

\* Changes that must be caught: the filter's answer is ignored; the callback
\* takes the mutex before it calls IsWordAllowed.
CheckWord_Ignored ==
    /\ pc[Server] = "filter"
    /\ mutex = NoOne
    /\ Goto(Server, "lock")
    /\ UNCHANGED <<mData, heap, nodeValue, mutex, arg, taken, result, value>>

CheckWord_Holding ==
    /\ pc[Server] = "filter"
    /\ mutex = NoOne
    /\ mutex' = Server
    /\ Goto(Server, IF IsWordAllowed(arg[Server]) THEN "lock" ELSE "idle")
    /\ UNCHANGED <<mData, heap, nodeValue, arg, taken, result, value>>

\* IsWordAllowed takes the mutex and gives it back.
CheckWord ==
    /\ pc[Server] = "filter"
    /\ mutex = NoOne
    /\ Goto(Server, IF IsWordAllowed(arg[Server]) THEN "lock" ELSE "idle")
    /\ UNCHANGED <<mData, heap, nodeValue, mutex, arg, taken, result, value>>

Serve == \/ Compare
         \/ SamePointer
         \/ Probe
         \/ CheckWord
         \/ Lock(Server)
         \/ Unlock(Server)
         \/ Store(Server)
         \/ Copy(Server)

-----------------------------------------------------------------------------
Next == \/ \E w \in Workers : BeginSet(w) \/ BeginGet(w) \/ Work(w)
        \/ BeginRead
        \/ \E v \in ClientWords : BeginWrite(v)
        \/ WriteEmpty
        \/ WriteTypeless
        \/ Serve

Spec == Init /\ [][Next]_vars

\* Running threads keep running.  The mutex is not fair: a thread that waits for
\* it gets it only if it stays free.
Fairness == WF_vars(Serve) /\ \A w \in Workers : WF_vars(Work(w))

FairSpec == Spec /\ Fairness

-----------------------------------------------------------------------------
Labels == Replacing \cup Copying \cup
          {"idle", "lock", "unlock", "compare", "same", "probe", "filter", "crashed"}

TypeOK ==
    /\ mData \in [data : Buffers \cup {Null}, len : Words \cup {Empty}]
    /\ heap \in [Buffers -> Words \cup {Freed}]
    /\ nodeValue \in Words \cup {Empty, Garbage}
    /\ mutex \in Threads \cup {NoOne}
    /\ pc \in [Threads -> Labels]
    /\ arg \in [Threads -> Words \cup {Empty}]
    /\ taken \in [Threads -> [data : Buffers \cup {Null},
                              len : Words \cup {Empty}]]
    /\ result \in [Threads -> Words \cup {Empty, Garbage}]
    /\ value \in Words \cup {Empty}
    /\ clash \in BOOLEAN

\* Unless a SetValue has met another access, what /read hands to the device and
\* what a client reads is the word stored last, whole: the mutex keeps GetValue
\* and the write callback apart, and the pointer test keeps the refresh of the
\* node from clearing m_data.
ReadsExact ==
    [][\A t \in Threads :
          ~clash' /\ pc[t] = "copylen" /\ pc'[t] # "copylen"
              => result'[t] = value]_vars

\* Unless a SetValue has met another access, m_data owns exactly one live block,
\* the one with the word stored last, whenever nobody is replacing it.
NothingDangles ==
    ~clash /\ (\A t \in Threads : pc[t] \notin Replacing)
        => /\ mData.len = value
           /\ {b \in Buffers : heap[b] # Freed} = {mData.data}

\* The same as one abstract variable: unless a SetValue has met another access,
\* the steps of a replacement and of a copy add up to those of a single word, and
\* a client's word is set only if the filter lets it through.  (This is what
\* Handshake takes an access to a string variable for.)
Register == INSTANCE WordRegister
              WITH ClientWords <- {v \in ClientWords : IsWordAllowed(v)},
                   NoCopy <- Empty, word <- value, copy <- result, broken <- clash
KeepsRegister == Register!Spec

\* A word the filter refuses is never handed to the device, although the node
\* holds it until the next read, and the write was answered with Good.
RefusedStaysOut ==
    ~clash => \A w \in Workers : pc[w] = "unlock" =>
                  result[w] \in PostWords \cup {First} \/ IsWordAllowed(result[w])

\* Unless a SetValue has met another access or a write without a type ended the
\* process, the server thread finishes every call: the mutex is never waited for
\* by its holder, and nobody keeps it.  Only workers that take it again and again
\* could hold the server up, since std::mutex promises a waiter nothing.
WorkersPause == <>[][\A w \in Workers : ~Lock(w)]_vars
CallsEnd == []~clash /\ []Lives /\ WorkersPause => []<>(pc[Server] = "idle")

\* OpcuaDataBase.h:193: a lock is needed here to prevent a read and a write from
\* conflicting.  So GetValue returns a word that somebody stored.
GetsAreWhole == \A w \in Workers : pc[w] = "unlock" => result[w] \in Words
=============================================================================
