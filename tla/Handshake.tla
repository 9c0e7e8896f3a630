----------------------------- MODULE Handshake -----------------------------
(***************************************************************************)
(* The requests that pass through the bridge.  Clients write the string    *)
(* variables C-RequestProductChange and C-RequestProductionCommand; the    *)
(* device polls both with GET /read and answers with POST /write, which    *)
(* empties the request variable and sets the response variable S-Response. *)
(*                                                                         *)
(* Modelled from src/: in which order handle_read copies the two requests, *)
(* in which order handle_write stores its parameters, what the word filter *)
(* does to a client's write.  Each access to a variable is one step: that  *)
(* a copy is whole is the subject of StringNode.  The device (one program, *)
(* one HTTP request at a time) and the clients are outside of src/; they   *)
(* follow doc/forcon_opcua.md: a client writes a request once, after it    *)
(* has read the response `none`, and waits for the answer; the device      *)
(* answers a request it has read, may follow an answer that says that the  *)
(* request is in process (accepted, pending) by another, later sets the    *)
(* response back to `none`, and takes no new request in between.  (A write *)
(* that ends the process, StringNode's WriteTypeless, ends all of it.)     *)
(***************************************************************************)
EXTENDS Naturals

CONSTANTS Clients,
          Products,      \* product names clients ask for
          Commands,      \* command words clients write
          Filter,        \* s_filterWords of C-RequestProductionCommand
          ProductAnswers, \* accepted, pending, rejected
          CommandAnswers, \* accepted, rejected
          Processing,    \* the product answers another may follow
          None,          \* the word "none"
          Nothing        \* no change to a channel

Answers == ProductAnswers \cup CommandAnswers

ASSUME ProcessingAssumption == Processing \subseteq ProductAnswers
ASSUME NoneAssumption == None \notin Products \cup Commands \cup Answers
ASSUME NothingAssumption == Nothing \notin Answers \cup {None}

Channels == {"product", "command"}
Wanted(ch) == IF ch = "product" THEN Products ELSE Commands
AnswersOf(ch) == IF ch = "product" THEN ProductAnswers ELSE CommandAnswers
Revisable(ch) == IF ch = "product" THEN Processing ELSE {}

VARIABLES request,       \* C-Request... of each channel
          response,      \* S-Response... of each channel
          client,        \* how far each client is with a request of each channel
          device,        \* what the device is doing
          got,           \* what GET /read has copied for it
          todo           \* stores POST /write has still to make: parts, channels
                         \* and values

\* History: the request accepted and not answered yet; the request the standing
\* answer is about; whether a client wrote a request that was not its turn;
\* whether the open command was written before the open product.
VARIABLES asked, about, raced, commandFirst

history == <<asked, about, raced, commandFirst>>
vars == <<request, response, client, device, got, todo, history>>

Init == /\ request = [ch \in Channels |-> None]
        /\ response = [ch \in Channels |-> None]
        /\ client = [c \in Clients |-> [ch \in Channels |-> "idle"]]
        /\ device = "poll"
        /\ got = [ch \in Channels |-> None]
        /\ todo = {}
        /\ asked = [ch \in Channels |-> None]
        /\ about = [ch \in Channels |-> None]
        /\ raced = [ch \in Channels |-> FALSE]
        /\ commandFirst = FALSE

-----------------------------------------------------------------------------
(* Clients.  The server answers one call at a time. *)

\* Client c reads the response and finds that it may ask.
FindOpen(c, ch) ==
    /\ client[c][ch] = "idle"
    /\ response[ch] = None
    /\ client' = [client EXCEPT ![c][ch] = "open"]
    /\ UNCHANGED <<request, response, device, got, todo, history>>

\* It has asked, and reads that there is an answer - if it comes in time.
SeeAnswer(c, ch) ==
    /\ client[c][ch] = "waiting"
    /\ response[ch] # None
    /\ client' = [client EXCEPT ![c][ch] = "idle"]
    /\ UNCHANGED <<request, response, device, got, todo, history>>

IsOpen(ch) == asked[ch] = None /\ response[ch] = None

\* Only C-RequestProductionCommand is given a filter; an empty one allows all.
IsWordAllowed(ch, v) == ch = "command" => Filter = {} \/ v \in Filter

\* It writes the request, whatever has happened since.  The server answers Good
\* also when the filter refuses the word, which then goes nowhere.
WriteRequest(c, ch, v) ==
    /\ client[c][ch] = "open"
    /\ client' = [client EXCEPT ![c][ch] = "waiting"]
    /\ IF IsWordAllowed(ch, v)
       THEN /\ request' = [request EXCEPT ![ch] = v]
            /\ asked' = [asked EXCEPT ![ch] = v]
            /\ raced' = [raced EXCEPT ![ch] = @ \/ ~IsOpen(ch)]
            /\ commandFirst' = (ch = "product" /\ asked["command"] # None)
       ELSE UNCHANGED <<request, asked, raced, commandFirst>>
    /\ UNCHANGED <<response, device, got, todo, about>>

-----------------------------------------------------------------------------
(* GET /read *)

\* A change that must be caught: the command is copied before the product.
ReadOrder_Swapped == <<"command", "product">>

\* handle_read copies the two requests one after the other.
ReadOrder == <<"product", "command">>

Poll ==
    /\ device = "poll"
    /\ device' = "first"
    /\ UNCHANGED <<request, response, client, got, todo, history>>

CopyRequest(n, here, next) ==
    /\ device = here
    /\ got' = [got EXCEPT ![ReadOrder[n]] = request[ReadOrder[n]]]
    /\ device' = next
    /\ UNCHANGED <<request, response, client, todo, history>>

HandleRead == \/ Poll
              \/ CopyRequest(1, "first", "second")
              \/ CopyRequest(2, "second", "decide")

-----------------------------------------------------------------------------
(* The device decides what to post. *)

\* What it may do about channel ch: answer a request it has read while no
\* response of its own stands, follow a response that says `in process' by
\* another, withdraw the response, or nothing.
Options(ch) ==
    {Nothing}
        \cup (IF got[ch] # None /\ response[ch] = None THEN AnswersOf(ch) ELSE {})
        \cup (IF response[ch] \in Revisable(ch)
              THEN AnswersOf(ch) \ {response[ch]} ELSE {})
        \cup (IF response[ch] # None THEN {None} ELSE {})

\* The parameters it posts: with an answer goes the word none for the request.
Posted(act) ==
    {<<"request", ch, None>> : ch \in {ch \in Channels : act[ch] \in Answers}}
        \cup {<<"response", ch, act[ch]>> :
                 ch \in {ch \in Channels : act[ch] # Nothing}}

\* The device is ready to poll again; what it has read is used up.
Ready == /\ device' = "poll"
         /\ got' = [ch \in Channels |-> None]

Decide(act) ==
    /\ device = "decide"
    /\ \A ch \in Channels : act[ch] \in Options(ch)
    /\ todo' = Posted(act)
    /\ IF todo' = {} THEN Ready ELSE device' = "post" /\ UNCHANGED got
    /\ UNCHANGED <<request, response, client, history>>

Acts == [Channels -> Answers \cup {None, Nothing}]

-----------------------------------------------------------------------------
(* POST /write: handle_write makes the stores in its own order. *)

\* It looks for the parameters in this order.
Rank(part, ch) == (IF ch = "product" THEN 0 ELSE 2)
                      + (IF part = "request" THEN 1 ELSE 2)

\* The store of v comes next; the POST is over when it was the last.
Turn(part, ch, v) ==
    /\ device = "post"
    /\ <<part, ch, v>> \in todo
    /\ \A store \in todo : Rank(part, ch) <= Rank(store[1], store[2])
    /\ todo' = todo \ {<<part, ch, v>>}
    /\ IF todo' = {} THEN Ready ELSE UNCHANGED <<device, got>>
    /\ UNCHANGED client

\* A change that must be caught: the parameter is looked for under another name,
\* and the empty buffer is stored.
StoreRequest_Empty(ch) ==
    /\ Turn("request", ch, None)
    /\ request' = [request EXCEPT ![ch] = Nothing]
    /\ UNCHANGED <<response, history>>

\* A change that must be caught: the parameter is not looked for.
StoreRequest_Skipped(ch) ==
    /\ Turn("request", ch, None)
    /\ UNCHANGED <<request, response, history>>

StoreRequest(ch) ==
    /\ Turn("request", ch, None)
    /\ request' = [request EXCEPT ![ch] = None]
    /\ UNCHANGED <<response, history>>

StoreResponse(ch, a) ==
    /\ Turn("response", ch, a)
    /\ response' = [response EXCEPT ![ch] = a]
    /\ asked' = [asked EXCEPT ![ch] = IF a \in Answers THEN None ELSE @]
    /\ about' = [about EXCEPT ![ch] = IF a = None THEN None
                                      ELSE IF response[ch] = None THEN got[ch] ELSE @]
    /\ commandFirst' = (commandFirst /\ a \notin Answers)
    /\ UNCHANGED <<request, raced>>

HandleWrite == \E ch \in Channels :
                  \/ StoreRequest(ch)
                  \/ \E a \in Answers \cup {None} : StoreResponse(ch, a)

-----------------------------------------------------------------------------
Device == HandleRead \/ (\E act \in Acts : Decide(act)) \/ HandleWrite

Next == \/ \E c \in Clients, ch \in Channels :
              \/ FindOpen(c, ch)
              \/ SeeAnswer(c, ch)
              \/ \E v \in Wanted(ch) : WriteRequest(c, ch, v)
        \/ Device

Spec == Init /\ [][Next]_vars

\* The handlers run, the device goes on polling, and of each channel it sooner or
\* later answers what it keeps reading, and withdraws the answer.
Fairness ==
    /\ WF_vars(Device)
    /\ \A ch \in Channels :
          /\ SF_vars(\E act \in Acts : act[ch] \in Answers /\ Decide(act))
          /\ SF_vars(\E act \in Acts : act[ch] = None /\ Decide(act))

FairSpec == Spec /\ Fairness

-----------------------------------------------------------------------------
Responses == {word \in [Channels -> Answers \cup {None}] :
                 \A ch \in Channels : word[ch] \in AnswersOf(ch) \cup {None}}

Requests == {word \in [Channels -> Products \cup Commands \cup {None}] :
                \A ch \in Channels : word[ch] \in Wanted(ch) \cup {None}}

Stores == ({"request"} \X Channels \X {None})
              \cup UNION {{"response"} \X {ch} \X (AnswersOf(ch) \cup {None}) :
                            ch \in Channels}

TypeOK ==
    /\ request \in Requests
    /\ got \in Requests
    /\ asked \in Requests
    /\ about \in Requests
    /\ response \in Responses
    /\ client \in [Clients -> [Channels -> {"idle", "open", "waiting"}]]
    /\ device \in {"poll", "first", "second", "decide", "post"}
    /\ todo \subseteq Stores
    /\ raced \in [Channels -> BOOLEAN]
    /\ commandFirst \in BOOLEAN

\* Until a client writes when it is not its turn, each pair of request and
\* response variables is the Reservation that the documentation describes: the
\* request the device answers is the one that was asked, although it was read,
\* erased and answered in separate steps; whatever answers follow are about the
\* same request; and every request is answered.
Product == INSTANCE Reservation
             WITH Requests <- Products, Answers <- ProductAnswers, what <- asked["product"],
                  answer <- response["product"], about <- about["product"],
                  broken <- raced["product"]
Command == INSTANCE Reservation
             WITH Requests <- Commands, Answers <- CommandAnswers,
                  Processing <- {}, what <- asked["command"],
                  answer <- response["command"], about <- about["command"],
                  broken <- raced["command"]
ProductReserved == Product!FairSpec
CommandReserved == Command!FairSpec

\* /read is no snapshot, but it does not reorder: when the device reads a product
\* that was asked for after a command, it has read that command as well.  (The
\* other way round it may read the command without the product asked before it.)
ReadsInOrder ==
    device = "decide" /\ got["product"] # None /\ commandFirst
        /\ ~raced["product"] /\ ~raced["command"]
        => got["command"] = asked["command"]

\* doc/forcon_opcua.md:38: a response of none is the state in which requests can
\* be accepted.  So what a client writes then is not erased before the device has
\* read it: a POST that empties a request finds the one that it answers.
NoneMeansOpen ==
    [][\A ch \in Channels : StoreRequest(ch) => request[ch] = got[ch]]_vars
=============================================================================
