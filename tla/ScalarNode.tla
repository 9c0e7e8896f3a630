----------------------------- MODULE ScalarNode -----------------------------
(***************************************************************************)
(* One scalar variable of the bridge (OpcuaDataBaseInt32, -Float, -Boolean *)
(* and -DateTime share this code shape).  Its value lives twice:           *)
(*   mData      the wrapper object's m_data, stored by HTTP workers        *)
(*              (SetValue) and by the afterWrite callback, under no lock;  *)
(*   nodeValue  the value inside the OPC UA node, touched only by the      *)
(*              thread that runs the server.                               *)
(* A read refreshes the node from mData through UA_Server_writeValue, and  *)
(* that write calls afterWrite with a pointer at mData itself, so the read *)
(* also loads mData and stores it back (OpcuaDataBase.h:56).               *)
(*                                                                         *)
(* A load or a store of an aligned scalar is one step.  The server thread  *)
(* takes one call at a time; HTTP workers post at any moment.  All are     *)
(* threads of one process: when the callback crashes, everything stops.    *)
(***************************************************************************)
CONSTANTS PostValues,    \* values the device posts
          ClientValues,  \* values OPC UA clients write
          Nothing        \* no value

Values == PostValues \cup ClientValues

ASSUME NothingAssumption == Nothing \notin Values

VARIABLES writable,      \* the node's access level: rwflag # VAR_READ
          mData,         \* m_data of the wrapper
          nodeValue,     \* value stored in the OPC UA node
          pc,            \* where the server thread is
          reg,           \* what the callback is about to store in m_data
          reply          \* answer of the last call

\* History: no action's guard or effect on the program's state reads these.
VARIABLES seen,          \* values of mData since the open call began
          offered,       \* first value, posts and, if writable, client writes
          lastWrite      \* client value stored with no later post, or Nothing

vars == <<writable, mData, nodeValue, pc, reg, reply,
          seen, offered, lastWrite>>

NoReply == "NoReply"
Refusals == {"BadNotWritable", "BadTypeMismatch"}

\* m_data is not initialised by the constructor, and the node is created with
\* what it held then; main stores a first value in every node but Cmd.
Init == /\ writable \in BOOLEAN
        /\ mData \in Values
        /\ nodeValue \in Values
        /\ pc = "Idle"
        /\ reg = Nothing
        /\ reply = NoReply
        /\ seen = {}
        /\ offered = {mData}
        /\ lastWrite = Nothing

-----------------------------------------------------------------------------
(* HTTP worker: handle_write calls SetValue. *)

SetValue(v) ==
    /\ pc # "Crashed"
    /\ mData' = v
    /\ seen' = IF seen = {} THEN {} ELSE seen \cup {v}
    /\ offered' = offered \cup {v}
    /\ lastWrite' = Nothing
    /\ UNCHANGED <<writable, nodeValue, pc, reg, reply>>

-----------------------------------------------------------------------------
(* Server thread, Read service (or the sampling of a monitored item). *)

\* The service finds the node and calls beforeReadCallback.
BeginRead ==
    /\ pc = "Idle"
    /\ pc' = "Update"
    /\ seen' = {mData}
    /\ UNCHANGED <<writable, mData, nodeValue, reg, reply, offered, lastWrite>>

\* A change that must be caught: the refresh runs only on an empty node.
Update_OnlyWhenEmpty ==
    /\ pc = "Update"
    /\ nodeValue' = IF nodeValue = Nothing THEN mData ELSE nodeValue
    /\ pc' = "Load"
    /\ UNCHANGED <<writable, mData, reg, reply, seen, offered, lastWrite>>

\* UpdateInt32: UA_Server_writeValue copies m_data into the node.
Update ==
    /\ pc = "Update"
    /\ nodeValue' = mData
    /\ pc' = "Load"
    /\ UNCHANGED <<writable, mData, reg, reply, seen, offered, lastWrite>>

\* afterWriteCallback: data->value.data is &m_data, which it loads ...
LoadSelf ==
    /\ pc = "Load"
    /\ reg' = mData
    /\ pc' = "Store"
    /\ UNCHANGED <<writable, mData, nodeValue, reply, seen, offered, lastWrite>>

\* ... and stores back.
StoreSelf ==
    /\ pc = "Store"
    /\ mData' = reg
    /\ reg' = Nothing
    /\ pc' = "Reply"
    /\ UNCHANGED <<writable, nodeValue, reply, seen, offered, lastWrite>>

\* Back in readValueAttributeFromNode: the node is fetched again and copied.
ReadReply ==
    /\ pc = "Reply"
    /\ reply' = nodeValue
    /\ pc' = "Idle"
    /\ seen' = {}
    /\ UNCHANGED <<writable, mData, nodeValue, reg, offered, lastWrite>>

-----------------------------------------------------------------------------
(* Server thread, Write service. *)

\* The access level or the type check refuses the write.
RefuseWrite ==
    /\ pc = "Idle"
    /\ \/ ~writable /\ reply' = "BadNotWritable"
       \/ writable /\ reply' = "BadTypeMismatch"
    /\ UNCHANGED <<writable, mData, nodeValue, pc, reg, seen, offered, lastWrite>>

\* A change that must be caught: the access level is not consulted.
WriteValue_AnyLevel(v) ==
    /\ pc = "Idle"
    /\ nodeValue' = v
    /\ reg' = v
    /\ pc' = "AfterWrite"
    /\ seen' = {mData}
    /\ UNCHANGED <<writable, mData, reply, offered, lastWrite>>

\* A value of the node's type replaces the node's, then the callback runs.
WriteValue(v) ==
    /\ pc = "Idle"
    /\ writable
    /\ nodeValue' = v
    /\ reg' = v
    /\ pc' = "AfterWrite"
    /\ seen' = {mData}
    /\ UNCHANGED <<writable, mData, reply, offered, lastWrite>>

\* A change that must be caught: the callback's hasValue check is dropped.
WriteEmpty_Unchecked ==
    /\ pc = "Idle"
    /\ writable
    /\ nodeValue' = Nothing
    /\ pc' = "AfterWrite"
    /\ seen' = {mData}
    /\ UNCHANGED <<writable, mData, reg, reply, offered, lastWrite>>

\* A DataValue without a value (hasValue is false) skips the type check and
\* empties the node; the callback returns early and m_data keeps what it has.
WriteEmpty ==
    /\ pc = "Idle"
    /\ writable
    /\ nodeValue' = Nothing
    /\ pc' = "WriteDone"
    /\ seen' = {mData}
    /\ UNCHANGED <<writable, mData, reg, reply, offered, lastWrite>>

\* A DataValue that says it has a value, in a Variant without a type, skips the
\* same check (open62541.c:39733): the node is written, and the callback reads
\* the type's name through a null pointer.  The process ends there.
WriteTypeless ==
    /\ pc = "Idle"
    /\ writable
    /\ nodeValue' = Nothing
    /\ pc' = "Crashed"
    /\ seen' = {mData}
    /\ UNCHANGED <<writable, mData, reg, reply, offered, lastWrite>>

\* A change that must be caught: the callback forgets the assignment.
AfterWrite_Forgets ==
    /\ pc = "AfterWrite"
    /\ reg' = Nothing
    /\ pc' = "WriteDone"
    /\ seen' = seen \cup {reg}
    /\ offered' = IF writable THEN offered \cup {reg} ELSE offered
    /\ lastWrite' = reg
    /\ UNCHANGED <<writable, mData, nodeValue, reply>>

\* afterWriteCallback stores the client's value in m_data.
AfterWrite ==
    /\ pc = "AfterWrite"
    /\ mData' = reg
    /\ reg' = Nothing
    /\ pc' = "WriteDone"
    /\ seen' = seen \cup {reg}
    /\ offered' = IF writable THEN offered \cup {reg} ELSE offered
    /\ lastWrite' = reg
    /\ UNCHANGED <<writable, nodeValue, reply>>

WriteReply ==
    /\ pc = "WriteDone"
    /\ reply' = "Good"
    /\ pc' = "Idle"
    /\ seen' = {}
    /\ UNCHANGED <<writable, mData, nodeValue, reg, offered, lastWrite>>

-----------------------------------------------------------------------------
Post == \E v \in PostValues : SetValue(v)

ReadStep == BeginRead \/ Update \/ LoadSelf \/ StoreSelf \/ ReadReply

WriteStep == \/ RefuseWrite
             \/ \E v \in ClientValues : WriteValue(v)
             \/ WriteEmpty
             \/ WriteTypeless
             \/ AfterWrite
             \/ WriteReply

Next == Post \/ ReadStep \/ WriteStep

Spec == Init /\ [][Next]_vars

\* The server's main loop finishes the call it has begun and, with a client
\* that polls or a subscription that samples, begins another read.
Sampled == WF_vars(ReadStep) /\ WF_vars(AfterWrite \/ WriteReply)

FairSpec == Spec /\ Sampled

-----------------------------------------------------------------------------
TypeOK ==
    /\ writable \in BOOLEAN
    /\ mData \in Values
    /\ nodeValue \in Values \cup {Nothing}
    /\ pc \in {"Idle", "Update", "Load", "Store", "Reply",
               "AfterWrite", "WriteDone", "Crashed"}
    /\ reg \in Values \cup {Nothing}
    /\ reply \in Values \cup Refusals \cup {NoReply, "Good"}
    /\ seen \subseteq Values
    /\ offered \subseteq Values
    /\ lastWrite \in ClientValues \cup {Nothing}

\* A read answers with a value the wrapper held while the read was open: never
\* with what the node kept from an earlier call.
ReadIsFresh == pc = "Reply" => nodeValue \in seen

\* The wrapper holds only its first value, values the device posted and, on a
\* writable node, values clients wrote: on an S- node no client write lands,
\* and no refresh, undo or emptied node ever brings in a value of its own.
OnlyOfferedValues == mData \in offered

\* Read your write: once a client's value is stored and until the device posts,
\* every read answers with it, although every read overwrites the node's value
\* with the wrapper's and the wrapper's with itself.
ReadYourWrite == pc = "Reply" /\ lastWrite # Nothing => nodeValue = lastWrite

\* When posts stop, the two copies eventually agree for good on a node clients
\* cannot write: on the last post, or on what an overlapping read put back.
CopiesConverge == ~writable /\ <>[][~Post]_vars => <>[](nodeValue = mData)

\* The node implements the register of NodeContract.
Contract == INSTANCE NodeContract WITH cur <- mData
KeepsContract == Contract!Spec

\* doc/forcon_opcua.md:12: an S- variable is controlled by the server and a
\* client can only read it; so nothing but a post changes the wrapper's value.
OnlyPostsChange == [][~writable /\ mData' # mData => Post]_vars
=============================================================================
