-------------------------- MODULE HandshakeProofs --------------------------
(***************************************************************************)
(* Proofs about Handshake for any clients, words, filter and answers: that *)
(* each channel implements Reservation until a client writes out of turn,  *)
(* and that /read does not reorder.  Liveness stays with TLC.              *)
(***************************************************************************)
EXTENDS Handshake, TLAPS

Reading == {"first", "second", "decide"}

\* The device has stores to make exactly while it posts, and works with what it
\* has read only in between.
DeviceInv == /\ device = "post" <=> todo # {}
             /\ device = "poll" => got = [ch \in Channels |-> None]

\* One channel, while every client has waited for its turn: nobody asks while a
\* response stands, and what is in the request variable was asked for.
RequestInv(ch) ==
    /\ response[ch] # None => asked[ch] = None
    /\ request[ch] # None => request[ch] = asked[ch]

\* What the device has read was asked for and is not answered yet; it is in the
\* request variable until a POST that answers it has emptied that.
GotInv(ch) ==
    /\ device \in Reading /\ got[ch] # None => got[ch] = asked[ch]
    /\ asked[ch] # None /\ request[ch] = None
          => \E a \in Answers : <<"response", ch, a>> \in todo

\* The stores for the channel are an answer to what was read, or one that follows
\* an answer in process, with the request to be emptied first; or the end of an
\* answer.
PostInv(ch) ==
    /\ \A a, b \in Answers \cup {None} :
          <<"response", ch, a>> \in todo /\ <<"response", ch, b>> \in todo => a = b
    /\ \A a \in Answers :
          <<"response", ch, a>> \in todo =>
              /\ asked[ch] # None \/ response[ch] \in Revisable(ch)
              /\ got[ch] = asked[ch]
              /\ request[ch] # None => <<"request", ch, None>> \in todo
    /\ <<"response", ch, None>> \in todo => response[ch] # None
    /\ <<"request", ch, None>> \in todo =>
          /\ request[ch] = asked[ch]
          /\ \E a \in Answers : <<"response", ch, a>> \in todo

ChannelInv(ch) == ~raced[ch] => RequestInv(ch) /\ GotInv(ch) /\ PostInv(ch)

\* A command that was asked for before the product is still open.
OrderInv == /\ commandFirst /\ ~raced["command"] => asked["command"] # None
            /\ ReadsInOrder

IInv == /\ TypeOK
        /\ DeviceInv
        /\ \A ch \in Channels : ChannelInv(ch)
        /\ OrderInv

-----------------------------------------------------------------------------
(* Types *)

LEMMA Words ==
  ASSUME NEW ch \in Channels, NEW v \in Wanted(ch) \cup {None}
  PROVE  v \in Products \cup Commands \cup {None}
  BY DEF Wanted

LEMMA OneChanges ==
  ASSUME NEW word \in Requests, NEW ch \in Channels,
         NEW v \in Wanted(ch) \cup {None}
  PROVE  [word EXCEPT ![ch] = v] \in Requests
  <1>1. v \in Products \cup Commands \cup {None}
    BY Words
  <1>2. [word EXCEPT ![ch] = v] \in [Channels -> Products \cup Commands \cup {None}]
    BY <1>1 DEF Requests
  <1>3. \A d \in Channels : [word EXCEPT ![ch] = v][d] \in Wanted(d) \cup {None}
    BY DEF Requests
  <1>4. QED
    BY <1>2, <1>3 DEF Requests

LEMMA AllNone == /\ [ch \in Channels |-> None] \in Requests
                 /\ [ch \in Channels |-> None] \in Responses
  BY DEF Requests, Responses

LEMMA InitType == Init => TypeOK
  BY AllNone DEF Init, TypeOK

LEMMA ClientType ==
  ASSUME TypeOK, NEW c \in Clients, NEW ch \in Channels,
         \/ FindOpen(c, ch) \/ SeeAnswer(c, ch)
         \/ \E v \in Wanted(ch) : WriteRequest(c, ch, v)
  PROVE  TypeOK'
  <1> USE DEF TypeOK, history
  <1>1. CASE FindOpen(c, ch)
    BY <1>1 DEF FindOpen
  <1>2. CASE SeeAnswer(c, ch)
    BY <1>2 DEF SeeAnswer
  <1>3. ASSUME NEW v \in Wanted(ch), WriteRequest(c, ch, v)
        PROVE  TypeOK'
    <2>1. request' \in Requests /\ asked' \in Requests
      BY <1>3, OneChanges DEF WriteRequest
    <2>2. raced' \in [Channels -> BOOLEAN]
      BY <1>3 DEF WriteRequest, IsOpen
    <2>3. commandFirst' \in BOOLEAN
      BY <1>3 DEF WriteRequest
    <2>4. client' \in [Clients -> [Channels -> {"idle", "open", "waiting"}]]
      BY <1>3 DEF WriteRequest
    <2>5. UNCHANGED <<response, device, got, todo, about>>
      BY <1>3 DEF WriteRequest
    <2>6. QED
      BY <2>1, <2>2, <2>3, <2>4, <2>5
  <1>4. QED
    BY <1>1, <1>2, <1>3

LEMMA ReadType == TypeOK /\ HandleRead => TypeOK'
  <1> SUFFICES ASSUME TypeOK, HandleRead
               PROVE  TypeOK'
    OBVIOUS
  <1>1. CASE Poll
    BY <1>1 DEF Poll, TypeOK, history
  <1>2. ASSUME NEW n \in 1..2, NEW here, NEW next \in {"second", "decide"},
               CopyRequest(n, here, next)
        PROVE  TypeOK'
    <2>1. ReadOrder[n] \in Channels
      BY DEF ReadOrder, Channels
    <2>2. request[ReadOrder[n]] \in Wanted(ReadOrder[n]) \cup {None}
      BY <2>1 DEF TypeOK, Requests
    <2>3. got' \in Requests
      BY <1>2, <2>1, <2>2, OneChanges DEF CopyRequest, TypeOK
    <2>4. QED
      BY <1>2, <2>3 DEF CopyRequest, TypeOK, history
  <1>3. QED
    BY <1>1, <1>2 DEF HandleRead

LEMMA DecideType ==
  ASSUME TypeOK, NEW act \in Acts, Decide(act)
  PROVE  TypeOK'
  <1>1. \A ch \in Channels : act[ch] \in AnswersOf(ch) \cup {None, Nothing}
    BY DEF Decide, Options
  <1>2. Posted(act) \subseteq Stores
    BY <1>1 DEF Posted, Acts, Stores
  <1>3. QED
    BY <1>2, AllNone DEF Decide, Ready, TypeOK, history

\* What a POST stores is an answer of its channel, or None.
LEMMA StoredAnswer ==
  ASSUME TypeOK, NEW ch \in Channels, NEW a, <<"response", ch, a>> \in todo
  PROVE  a \in AnswersOf(ch) \cup {None}
  BY DEF TypeOK, Stores

LEMMA AnswerKept ==
  ASSUME TypeOK, NEW ch \in Channels, NEW a, <<"response", ch, a>> \in todo
  PROVE  [response EXCEPT ![ch] = a] \in Responses
  <1>1. a \in AnswersOf(ch) \cup {None}
    BY StoredAnswer
  <1>2. AnswersOf(ch) \subseteq Answers
    BY DEF AnswersOf, Answers
  <1>3. QED
    BY <1>1, <1>2 DEF TypeOK, Responses

LEMMA WriteType == TypeOK /\ HandleWrite => TypeOK'
  <1> SUFFICES ASSUME TypeOK, NEW ch \in Channels,
                      \/ StoreRequest(ch)
                      \/ \E a \in Answers \cup {None} : StoreResponse(ch, a)
               PROVE  TypeOK'
    BY DEF HandleWrite
  <1> USE DEF TypeOK, history
  <1>1. ASSUME NEW part, NEW v, Turn(part, ch, v)
        PROVE  /\ device' \in {"post", "poll"} /\ got' \in Requests
               /\ todo' \subseteq todo /\ client' = client
    BY <1>1, AllNone DEF Turn, Ready
  <1>2. CASE StoreRequest(ch)
    <2>1. request' \in Requests
      BY <1>2, OneChanges DEF StoreRequest
    <2>2. QED
      BY <1>1, <1>2, <2>1 DEF StoreRequest
  <1>3. ASSUME NEW a \in Answers \cup {None}, StoreResponse(ch, a)
        PROVE  TypeOK'
    <2>1. asked' \in Requests
      BY <1>3, OneChanges DEF StoreResponse, Requests
    <2>2. about' \in Requests
      <3>1. {got[ch], about[ch]} \subseteq Wanted(ch) \cup {None}
        BY DEF Requests
      <3>2. QED
        BY <1>3, <3>1, OneChanges DEF StoreResponse
    <2>3. response' \in Responses
      BY <1>3, AnswerKept DEF StoreResponse, Turn
    <2>4. commandFirst' \in BOOLEAN
      BY <1>3 DEF StoreResponse
    <2>5. QED
      BY <1>1, <1>3, <2>1, <2>2, <2>3, <2>4 DEF StoreResponse
  <1>4. QED
    BY <1>2, <1>3

LEMMA NextType == TypeOK /\ [Next]_vars => TypeOK'
  <1> SUFFICES ASSUME TypeOK, [Next]_vars
               PROVE  TypeOK'
    OBVIOUS
  <1>1. CASE UNCHANGED vars
    BY <1>1 DEF vars, history, TypeOK
  <1>2. QED
    BY <1>1, ClientType, ReadType, DecideType, WriteType DEF Next, Device

-----------------------------------------------------------------------------
(* The device's steps *)

LEMMA InitDevice == Init => DeviceInv
  BY DEF Init, DeviceInv

LEMMA NextDevice == TypeOK /\ DeviceInv /\ [Next]_vars => DeviceInv'
  <1> SUFFICES ASSUME TypeOK, DeviceInv, [Next]_vars
               PROVE  DeviceInv'
    OBVIOUS
  <1> USE DEF DeviceInv
  <1>1. ASSUME UNCHANGED <<device, got, todo>>
        PROVE  DeviceInv'
    BY <1>1
  <1>2. ASSUME NEW c \in Clients, NEW ch \in Channels,
               \/ FindOpen(c, ch) \/ SeeAnswer(c, ch)
               \/ \E v \in Wanted(ch) : WriteRequest(c, ch, v)
        PROVE  DeviceInv'
    BY <1>1, <1>2 DEF FindOpen, SeeAnswer, WriteRequest
  <1>3. CASE HandleRead
    BY <1>3 DEF HandleRead, Poll, CopyRequest
  <1>4. ASSUME NEW act \in Acts, Decide(act)
        PROVE  DeviceInv'
    BY <1>4 DEF Decide, Ready
  <1>5. CASE HandleWrite
    <2>1. PICK part, ch, v : Turn(part, ch, v)
      BY <1>5 DEF HandleWrite, StoreRequest, StoreResponse
    <2>2. QED
      BY <2>1 DEF Turn, Ready
  <1>6. CASE UNCHANGED vars
    BY <1>1, <1>6 DEF vars
  <1>7. QED
    BY <1>2, <1>3, <1>4, <1>5, <1>6 DEF Next, Device

-----------------------------------------------------------------------------
(* The channels *)

\* What ChannelInv(ch) is about.
Channel(ch) == <<request[ch], response[ch], got[ch], asked[ch], raced[ch]>>

LEMMA InitChannel == ASSUME Init, NEW ch \in Channels
                     PROVE  ChannelInv(ch)
  BY DEF Init, ChannelInv, RequestInv, GotInv, PostInv

LEMMA SameChannel ==
  ASSUME NEW ch \in Channels, ChannelInv(ch), UNCHANGED Channel(ch),
         UNCHANGED <<device, todo>>
  PROVE  ChannelInv(ch)'
  BY DEF Channel, ChannelInv, RequestInv, GotInv, PostInv

LEMMA NotRevisable == ASSUME NEW ch \in Channels
                      PROVE  None \notin Revisable(ch)
  BY ProcessingAssumption, NoneAssumption DEF Revisable, Answers

LEMMA WriteChannel ==
  ASSUME TypeOK, DeviceInv, NEW d \in Channels, ChannelInv(d),
         NEW c \in Clients, NEW ch \in Channels, NEW v \in Wanted(ch),
         WriteRequest(c, ch, v)
  PROVE  ChannelInv(d)'
  <1> USE DEF TypeOK, Requests
  <1>1. CASE ~IsWordAllowed(ch, v) \/ d # ch
    <2>1. UNCHANGED Channel(d) /\ UNCHANGED <<device, todo>>
      BY <1>1 DEF WriteRequest, Channel
    <2>2. QED
      BY <2>1, SameChannel
  <1>2. CASE IsWordAllowed(ch, v) /\ d = ch
    <2>1. SUFFICES ASSUME ~raced[d]'
                   PROVE  RequestInv(d)' /\ GotInv(d)' /\ PostInv(d)'
      BY DEF ChannelInv
    <2>2. ~raced[d] /\ asked[d] = None /\ response[d] = None
      BY <1>2, <2>1 DEF WriteRequest, IsOpen
    <2>3. /\ request'[d] = v /\ asked'[d] = v /\ v # None
          /\ UNCHANGED <<response, device, got, todo>>
      BY <1>2, NoneAssumption DEF WriteRequest, Wanted
    <2>4. RequestInv(d)'
      BY <2>2, <2>3 DEF RequestInv
    <2>5. \A a \in Answers : <<"response", d, a>> \notin todo
      BY <2>2, NotRevisable DEF ChannelInv, PostInv
    <2>6. GotInv(d)'
      BY <2>2, <2>3 DEF ChannelInv, GotInv
    <2>7. PostInv(d)'
      BY <2>2, <2>3, <2>5 DEF ChannelInv, PostInv
    <2>8. QED
      BY <2>4, <2>6, <2>7
  <1>3. QED
    BY <1>1, <1>2

LEMMA ReadChannel ==
  ASSUME TypeOK, DeviceInv, NEW d \in Channels, ChannelInv(d), HandleRead
  PROVE  ChannelInv(d)'
  <1> USE DEF TypeOK, Requests
  <1>1. SUFFICES ASSUME ~raced[d]'
                 PROVE  RequestInv(d)' /\ GotInv(d)' /\ PostInv(d)'
    BY DEF ChannelInv
  <1>2. /\ UNCHANGED <<request, response, asked, raced, todo>>
        /\ device # "post" /\ todo = {}
    BY DEF HandleRead, Poll, CopyRequest, history, DeviceInv
  <1>3. RequestInv(d) /\ GotInv(d) /\ PostInv(d)
    BY <1>1, <1>2 DEF ChannelInv
  <1>4. RequestInv(d)' /\ PostInv(d)'
    BY <1>2, <1>3 DEF RequestInv, PostInv
  <1>5. got'[d] \in {got[d], request[d]} \/ got'[d] = None
    BY DEF HandleRead, Poll, CopyRequest
  <1>6. device = "poll" => got[d] = None
    BY DEF DeviceInv
  <1>7. got'[d] # None => got'[d] = asked[d]
    BY <1>2, <1>3, <1>5, <1>6 DEF GotInv, RequestInv, Reading
  <1>8. GotInv(d)'
    BY <1>2, <1>3, <1>7 DEF GotInv
  <1>9. QED
    BY <1>4, <1>8

LEMMA DecideChannel ==
  ASSUME TypeOK, DeviceInv, NEW d \in Channels, ChannelInv(d),
         NEW act \in Acts, Decide(act)
  PROVE  ChannelInv(d)'
  <1> USE DEF TypeOK, Requests
  <1>1. SUFFICES ASSUME ~raced[d]'
                 PROVE  RequestInv(d)' /\ GotInv(d)' /\ PostInv(d)'
    BY DEF ChannelInv
  <1>2. /\ UNCHANGED <<request, response, asked, raced>>
        /\ device = "decide" /\ todo = {} /\ todo' = Posted(act)
    BY DEF Decide, history, DeviceInv
  <1>3. RequestInv(d) /\ GotInv(d) /\ PostInv(d)
    BY <1>1, <1>2 DEF ChannelInv
  <1>4. /\ device' \notin Reading
        /\ todo' # {} => got' = got
    BY DEF Decide, Ready, Reading
  <1>5. \A a \in Answers \cup {None} :
           <<"response", d, a>> \in todo' => a = act[d]
    BY <1>2 DEF Posted
  <1>6. ASSUME NEW a \in Answers, <<"response", d, a>> \in todo'
        PROVE  /\ asked[d] # None \/ response[d] \in Revisable(d)
               /\ got'[d] = asked[d]
               /\ request[d] = asked[d]
    <2>1. act[d] = a /\ a # None /\ a # Nothing
      BY <1>5, <1>6, NoneAssumption, NothingAssumption
    <2>2. CASE got[d] # None
      <3>1. got[d] = asked[d] /\ asked[d] # None
        BY <1>2, <1>3, <2>2 DEF GotInv, Reading
      <3>2. request[d] = asked[d]
        BY <1>2, <1>3, <3>1 DEF GotInv, RequestInv
      <3>3. QED
        BY <1>4, <1>6, <3>1, <3>2
    <2>3. CASE got[d] = None
      <3>1. response[d] \in Revisable(d)
        BY <2>1, <2>3 DEF Decide, Options
      <3>2. asked[d] = None
        BY <1>3, <3>1, NotRevisable DEF RequestInv
      <3>3. request[d] = None
        BY <1>3, <3>2 DEF RequestInv
      <3>4. QED
        BY <1>4, <1>6, <2>3, <3>1, <3>2, <3>3
    <2>4. QED
      BY <2>2, <2>3
  <1>7. ASSUME NEW a \in Answers, <<"response", d, a>> \in todo'
        PROVE  <<"request", d, None>> \in todo'
    <2>1. act[d] \in Answers
      BY <1>5, <1>7
    <2>2. QED
      BY <1>2, <2>1 DEF Posted
  <1>8. <<"response", d, None>> \in todo' => response[d] # None
    <2>1. SUFFICES ASSUME act[d] = None
                   PROVE  response[d] # None
      BY <1>5
    <2>2. QED
      BY <2>1, NoneAssumption, NothingAssumption
         DEF Decide, Options, AnswersOf, Answers
  <1>9. <<"request", d, None>> \in todo' =>
           \E a \in Answers : <<"response", d, a>> \in todo'
    <2>1. SUFFICES ASSUME <<"request", d, None>> \in todo'
                   PROVE  <<"response", d, act[d]>> \in todo' /\ act[d] \in Answers
      OBVIOUS
    <2>2. act[d] \in Answers
      BY <1>2, <2>1 DEF Posted
    <2>3. QED
      BY <1>2, <2>2, NothingAssumption DEF Posted
  <1>10. <<"request", d, None>> \in todo' => request'[d] = asked'[d]
    BY <1>2, <1>6, <1>9
  <1>11. PostInv(d)'
    BY <1>2, <1>5, <1>6, <1>7, <1>8, <1>9, <1>10 DEF PostInv
  <1>12. RequestInv(d)' /\ GotInv(d)'
    BY <1>2, <1>3, <1>4 DEF RequestInv, GotInv
  <1>13. QED
    BY <1>11, <1>12

LEMMA TurnEffect ==
  ASSUME DeviceInv, NEW part, NEW ch, NEW v, Turn(part, ch, v)
  PROVE  /\ device' \notin Reading
         /\ <<part, ch, v>> \in todo
         /\ todo' = todo \ {<<part, ch, v>>}
         /\ todo' # {} => got' = got
  BY DEF Turn, Ready, Reading

LEMMA StoreOther ==
  ASSUME TypeOK, DeviceInv, NEW ch, NEW part, NEW v, Turn(part, ch, v),
         NEW d \in Channels, d # ch, ChannelInv(d),
         UNCHANGED <<request[d], response[d], asked[d], raced[d]>>
  PROVE  ChannelInv(d)'
  <1>1. SUFFICES ASSUME ~raced[d]
                 PROVE  RequestInv(d)' /\ GotInv(d)' /\ PostInv(d)'
    BY DEF ChannelInv
  <1>2. RequestInv(d) /\ GotInv(d) /\ PostInv(d)
    BY <1>1 DEF ChannelInv
  <1>3. \A q, a : <<q, d, a>> \in todo' <=> <<q, d, a>> \in todo
    <2>1. todo' = todo \ {<<part, ch, v>>}
      BY TurnEffect
    <2>2. \A q, a : <<q, d, a>> # <<part, ch, v>>
      OBVIOUS
    <2>3. QED
      BY <2>1, <2>2, Zenon
  <1>4. RequestInv(d)'
    BY <1>2 DEF RequestInv
  <1>5. GotInv(d)'
    BY <1>2, <1>3, TurnEffect DEF GotInv
  <1>6. PostInv(d)'
    BY <1>2, <1>3, TurnEffect DEF PostInv
  <1>7. QED
    BY <1>4, <1>5, <1>6

LEMMA StoreRequestChannel ==
  ASSUME TypeOK, DeviceInv, NEW d \in Channels, ChannelInv(d),
         NEW ch \in Channels, StoreRequest(ch)
  PROVE  ChannelInv(d)'
  <1> USE DEF TypeOK, Requests
  <1>1. /\ Turn("request", ch, None)
        /\ request' = [request EXCEPT ![ch] = None]
        /\ UNCHANGED <<response, asked, raced>>
    BY DEF StoreRequest, history
  <1>2. CASE d # ch
    BY <1>1, <1>2, StoreOther
  <1>3. CASE d = ch
    <2>1. SUFFICES ASSUME ~raced[d]
                   PROVE  RequestInv(d)' /\ GotInv(d)' /\ PostInv(d)'
      BY <1>1 DEF ChannelInv
    <2>2. RequestInv(d) /\ GotInv(d) /\ PostInv(d)
      BY <2>1 DEF ChannelInv
    <2>3. /\ \A a : <<"response", d, a>> \in todo' <=> <<"response", d, a>> \in todo
          /\ <<"request", d, None>> \in todo /\ <<"request", d, None>> \notin todo'
      BY <1>1, <1>3, TurnEffect
    <2>4. RequestInv(d)'
      BY <1>1, <1>3, <2>2 DEF RequestInv
    <2>5. GotInv(d)'
      BY <1>1, <2>2, <2>3, TurnEffect DEF GotInv, PostInv
    <2>6. request'[d] = None
      BY <1>1, <1>3
    <2>7. todo' # {} => got' = got
      BY <1>1, TurnEffect
    <2>8. PostInv(d)'
      BY <1>1, <2>2, <2>3, <2>6, <2>7 DEF PostInv
    <2>9. QED
      BY <2>4, <2>5, <2>8
  <1>4. QED
    BY <1>2, <1>3

\* An answer is stored after the request has been emptied.
LEMMA RequestFirst ==
  ASSUME TypeOK, NEW ch \in Channels, NEW a, Turn("response", ch, a)
  PROVE  <<"request", ch, None>> \notin todo
  <1>1. SUFFICES ASSUME <<"request", ch, None>> \in todo
                 PROVE  FALSE
    OBVIOUS
  <1>2. Rank("response", ch) <= Rank("request", ch)
    BY <1>1 DEF Turn
  <1>3. QED
    BY <1>2 DEF Rank

LEMMA StoreResponseChannel ==
  ASSUME TypeOK, DeviceInv, NEW d \in Channels, ChannelInv(d),
         NEW ch \in Channels, NEW a \in Answers \cup {None}, StoreResponse(ch, a)
  PROVE  ChannelInv(d)'
  <1> USE DEF TypeOK, Requests
  <1>1. /\ Turn("response", ch, a)
        /\ response' = [response EXCEPT ![ch] = a]
        /\ asked' = [asked EXCEPT ![ch] = IF a \in Answers THEN None ELSE @]
        /\ UNCHANGED <<request, raced>>
    BY DEF StoreResponse
  <1>2. CASE d # ch
    BY <1>1, <1>2, StoreOther
  <1>3. CASE d = ch
    <2>1. SUFFICES ASSUME ~raced[d]
                   PROVE  RequestInv(d)' /\ GotInv(d)' /\ PostInv(d)'
      BY <1>1 DEF ChannelInv
    <2>2. RequestInv(d) /\ GotInv(d) /\ PostInv(d)
      BY <2>1 DEF ChannelInv
    <2>3. /\ <<"response", d, a>> \in todo
          /\ <<"request", d, None>> \notin todo'
          /\ todo' \subseteq todo
          /\ device' \notin Reading
      BY <1>1, <1>3, RequestFirst, TurnEffect
    <2>4. \A b \in Answers \cup {None} : <<"response", d, b>> \notin todo'
      BY <1>1, <1>3, <2>2, <2>3, TurnEffect DEF PostInv
    <2>5. asked'[d] = None
      BY <1>1, <1>3, <2>2, <2>3 DEF PostInv, RequestInv
    <2>6. response'[d] = a /\ request'[d] = request[d]
      BY <1>1, <1>3 DEF Responses
    <2>7. request[d] = None
      <3>1. CASE a \in Answers
        BY <1>1, <1>3, <2>2, <2>3, <3>1, RequestFirst DEF PostInv
      <3>2. CASE a = None
        BY <2>2, <2>3, <3>2 DEF PostInv, RequestInv
      <3>3. QED
        BY <3>1, <3>2
    <2>8. RequestInv(d)'
      BY <2>5, <2>6, <2>7 DEF RequestInv
    <2>9. GotInv(d)'
      BY <2>3, <2>5 DEF GotInv
    <2>10. PostInv(d)'
      BY <2>3, <2>4 DEF PostInv
    <2>11. QED
      BY <2>8, <2>9, <2>10
  <1>4. QED
    BY <1>2, <1>3

LEMMA NextChannel ==
  ASSUME TypeOK, DeviceInv, NEW d \in Channels, ChannelInv(d), [Next]_vars
  PROVE  ChannelInv(d)'
  <1>1. ASSUME NEW c \in Clients, NEW ch \in Channels,
               FindOpen(c, ch) \/ SeeAnswer(c, ch)
        PROVE  ChannelInv(d)'
    <2>1. UNCHANGED Channel(d) /\ UNCHANGED <<device, todo>>
      BY <1>1 DEF FindOpen, SeeAnswer, Channel, history
    <2>2. QED
      BY <2>1, SameChannel
  <1>2. CASE HandleWrite
    BY <1>2, StoreRequestChannel, StoreResponseChannel DEF HandleWrite
  <1>3. CASE UNCHANGED vars
    <2>1. UNCHANGED Channel(d) /\ UNCHANGED <<device, todo>>
      BY <1>3 DEF vars, Channel, history
    <2>2. QED
      BY <2>1, SameChannel
  <1>4. QED
    BY <1>1, <1>2, <1>3, WriteChannel, ReadChannel, DecideChannel
       DEF Next, Device

-----------------------------------------------------------------------------
(* The order of requests *)

LEMMA InitOrder == Init => OrderInv
  BY DEF Init, OrderInv, ReadsInOrder

LEMMA WriteOrder ==
  ASSUME TypeOK, \A d \in Channels : ChannelInv(d), OrderInv,
         NEW c \in Clients, NEW ch \in Channels, NEW v \in Wanted(ch),
         WriteRequest(c, ch, v), IsWordAllowed(ch, v)
  PROVE  OrderInv'
  <1> USE DEF TypeOK, Requests, Channels
  <1>1. /\ asked' = [asked EXCEPT ![ch] = v]
        /\ raced' = [raced EXCEPT ![ch] = @ \/ ~IsOpen(ch)]
        /\ commandFirst' = (ch = "product" /\ asked["command"] # None)
        /\ device' = device /\ got' = got
    BY DEF WriteRequest
  <1>2. CASE ch = "command"
    BY <1>1, <1>2 DEF OrderInv, ReadsInOrder
  <1>3. CASE ch = "product"
    <2>1. asked'["command"] = asked["command"] /\ raced'["command"] = raced["command"]
      BY <1>1, <1>3
    <2>2. commandFirst' => asked["command"] # None
      BY <1>1
    <2>3. ASSUME device = "decide", got["product"] # None, ~raced'["product"]
          PROVE  FALSE
      <3>1. ~raced["product"] /\ asked["product"] = None
        BY <1>1, <1>3, <2>3 DEF IsOpen
      <3>2. GotInv("product")
        BY <3>1 DEF ChannelInv
      <3>3. QED
        BY <2>3, <3>1, <3>2 DEF GotInv, Reading
    <2>4. ReadsInOrder'
      BY <1>1, <2>3 DEF ReadsInOrder
    <2>5. QED
      BY <2>1, <2>2, <2>4 DEF OrderInv
  <1>4. QED
    BY <1>2, <1>3

LEMMA ReadOrderKept ==
  ASSUME TypeOK, DeviceInv, \A d \in Channels : ChannelInv(d), OrderInv, HandleRead
  PROVE  OrderInv'
  <1> USE DEF TypeOK, Requests, Channels
  <1>1. UNCHANGED <<request, asked, raced, commandFirst>>
    BY DEF HandleRead, Poll, CopyRequest, history
  <1>2. CASE device' # "decide"
    BY <1>1, <1>2 DEF OrderInv, ReadsInOrder
  <1>3. CASE device' = "decide"
    \* The command is copied: it has been there since before the product.
    <2>1. device = "second" /\ got' = [got EXCEPT !["command"] = request["command"]]
      BY <1>3 DEF HandleRead, Poll, CopyRequest, ReadOrder
    <2>2. ASSUME commandFirst, ~raced["command"]
          PROVE  request["command"] = asked["command"]
      <3>1. asked["command"] # None /\ todo = {}
        BY <2>1, <2>2 DEF OrderInv, DeviceInv
      <3>2. RequestInv("command") /\ GotInv("command")
        BY <2>2 DEF ChannelInv
      <3>3. QED
        BY <3>1, <3>2 DEF RequestInv, GotInv
    <2>3. QED
      BY <1>1, <2>1, <2>2 DEF OrderInv, ReadsInOrder
  <1>4. QED
    BY <1>2, <1>3

LEMMA NextOrder ==
  ASSUME TypeOK, DeviceInv, \A d \in Channels : ChannelInv(d), OrderInv, [Next]_vars
  PROVE  OrderInv'
  <1>1. ASSUME UNCHANGED <<asked, raced, commandFirst>>,
               device' # "decide" \/ UNCHANGED <<device, got>>
        PROVE  OrderInv'
    BY <1>1 DEF OrderInv, ReadsInOrder
  <1>2. ASSUME NEW c \in Clients, NEW ch \in Channels,
               FindOpen(c, ch) \/ SeeAnswer(c, ch)
        PROVE  OrderInv'
    BY <1>1, <1>2 DEF FindOpen, SeeAnswer, history
  <1>3. ASSUME NEW c \in Clients, NEW ch \in Channels, NEW v \in Wanted(ch),
               WriteRequest(c, ch, v)
        PROVE  OrderInv'
    <2>1. CASE IsWordAllowed(ch, v)
      BY <1>3, <2>1, WriteOrder
    <2>2. CASE ~IsWordAllowed(ch, v)
      BY <1>1, <1>3, <2>2 DEF WriteRequest
    <2>3. QED
      BY <2>1, <2>2
  <1>4. ASSUME NEW act \in Acts, Decide(act)
        PROVE  OrderInv'
    BY <1>1, <1>4 DEF Decide, Ready, history
  <1>5. ASSUME NEW ch \in Channels, StoreRequest(ch)
        PROVE  OrderInv'
    BY <1>1, <1>5 DEF StoreRequest, Turn, Ready, history
  <1>6. ASSUME NEW ch \in Channels, NEW a \in Answers \cup {None},
               StoreResponse(ch, a)
        PROVE  OrderInv'
    <2>1. device' # "decide"
      BY <1>6 DEF StoreResponse, Turn, Ready
    <2>2. commandFirst' => commandFirst /\ asked' = asked
      BY <1>6 DEF StoreResponse, TypeOK, Requests
    <2>3. raced' = raced
      BY <1>6 DEF StoreResponse
    <2>4. QED
      BY <2>1, <2>2, <2>3 DEF OrderInv, ReadsInOrder
  <1>7. CASE UNCHANGED vars
    BY <1>1, <1>7 DEF vars, history
  <1>8. QED
    BY <1>2, <1>3, <1>4, <1>5, <1>6, <1>7, ReadOrderKept
       DEF Next, Device, HandleWrite

-----------------------------------------------------------------------------
LEMMA Inductive == Spec => []IInv
  <1>1. Init => IInv
    BY InitType, InitDevice, InitChannel, InitOrder DEF IInv
  <1>2. IInv /\ [Next]_vars => IInv'
    BY NextType, NextDevice, NextChannel, NextOrder DEF IInv
  <1>3. QED
    BY <1>1, <1>2, PTL DEF Spec

\* Every variable of the handshake stays in its domain.
THEOREM TypeCorrect == Spec => []TypeOK
  <1>1. IInv => TypeOK
    BY DEF IInv
  <1>2. QED
    BY <1>1, Inductive, PTL

\* /read takes two copies, but it never reports a product without the command
\* that was asked for before it.
THEOREM InOrder == Spec => []ReadsInOrder
  <1>1. IInv => ReadsInOrder
    BY DEF IInv, OrderInv
  <1>2. QED
    BY <1>1, Inductive, PTL

-----------------------------------------------------------------------------
(* Refinement *)

\* What Reservation sees of a channel, and its steps in these terms.
Seen(ch) == <<asked[ch], response[ch], about[ch], raced[ch]>>

Asks(ch) == /\ asked[ch] = None /\ response[ch] = None
            /\ asked'[ch] \in Wanted(ch)
            /\ UNCHANGED <<response[ch], about[ch], raced[ch]>>

IsAnswered(ch) == /\ asked[ch] # None
                  /\ asked'[ch] = None
                  /\ response'[ch] \in AnswersOf(ch)
                  /\ about'[ch] = asked[ch]
                  /\ UNCHANGED raced[ch]

Revises(ch) == /\ asked[ch] = None
               /\ response[ch] \in Revisable(ch)
               /\ response'[ch] \in AnswersOf(ch)
               /\ UNCHANGED <<asked[ch], about[ch], raced[ch]>>

Closes(ch) == /\ asked[ch] = None /\ response[ch] # None
              /\ response'[ch] = None /\ about'[ch] = None
              /\ UNCHANGED <<asked[ch], raced[ch]>>

AbstractStep(ch) == \/ UNCHANGED Seen(ch)
                    \/ Asks(ch)
                    \/ IsAnswered(ch)
                    \/ Revises(ch)
                    \/ Closes(ch)
                    \/ raced'[ch]

LEMMA WriteMaps ==
  ASSUME TypeOK, NEW d \in Channels, NEW c \in Clients, NEW ch \in Channels,
         NEW v \in Wanted(ch), WriteRequest(c, ch, v)
  PROVE  AbstractStep(d)
  <1> USE DEF TypeOK, Requests
  <1>1. CASE ~IsWordAllowed(ch, v) \/ d # ch
    BY <1>1 DEF WriteRequest, AbstractStep, Seen
  <1>2. CASE IsWordAllowed(ch, v) /\ d = ch
    <2>1. CASE IsOpen(ch)
      <3>1. raced'[d] = raced[d] /\ asked'[d] = v
        BY <1>2, <2>1 DEF WriteRequest
      <3>2. QED
        BY <1>2, <2>1, <3>1 DEF WriteRequest, IsOpen, AbstractStep, Asks
    <2>2. CASE ~IsOpen(ch)
      BY <1>2, <2>2 DEF WriteRequest, AbstractStep
    <2>3. QED
      BY <2>1, <2>2
  <1>3. QED
    BY <1>1, <1>2

LEMMA ResponseMaps ==
  ASSUME TypeOK, DeviceInv, NEW d \in Channels, ChannelInv(d),
         NEW ch \in Channels, NEW a \in Answers \cup {None}, StoreResponse(ch, a)
  PROVE  AbstractStep(d)
  <1> USE DEF TypeOK, Requests
  <1>1. /\ <<"response", ch, a>> \in todo
        /\ response' = [response EXCEPT ![ch] = a]
        /\ asked' = [asked EXCEPT ![ch] = IF a \in Answers THEN None ELSE @]
        /\ about' = [about EXCEPT ![ch] = IF a = None THEN None
                                          ELSE IF response[ch] = None THEN got[ch] ELSE @]
        /\ raced' = raced
    BY DEF StoreResponse, Turn
  <1>2. CASE d # ch
    BY <1>1, <1>2 DEF AbstractStep, Seen
  <1>3. CASE d = ch /\ raced[d]
    BY <1>1, <1>3 DEF AbstractStep
  <1>4. CASE d = ch /\ ~raced[d]
    <2>1. RequestInv(d) /\ PostInv(d)
      BY <1>4 DEF ChannelInv
    <2>2. CASE a \in Answers
      <3>1. /\ a # None /\ a \in AnswersOf(d) /\ response'[d] = a
            /\ asked'[d] = None /\ raced'[d] = raced[d] /\ got[d] = asked[d]
            /\ asked[d] # None \/ response[d] \in Revisable(d)
        BY <1>1, <1>4, <2>1, <2>2, NoneAssumption, StoredAnswer
           DEF PostInv, Responses
      <3>2. CASE response[d] = None
        BY <1>1, <1>4, <3>1, <3>2, NotRevisable DEF AbstractStep, IsAnswered
      <3>3. CASE response[d] # None
        BY <1>1, <1>4, <2>1, <3>1, <3>3 DEF RequestInv, AbstractStep, Revises
      <3>4. QED
        BY <3>2, <3>3
    <2>3. CASE a = None
      BY <1>1, <1>4, <2>1, <2>3, NoneAssumption
         DEF PostInv, RequestInv, AbstractStep, Closes, Responses
    <2>4. QED
      BY <2>2, <2>3
  <1>5. QED
    BY <1>2, <1>3, <1>4

LEMMA StepMaps ==
  ASSUME TypeOK, DeviceInv, NEW d \in Channels, ChannelInv(d), [Next]_vars
  PROVE  AbstractStep(d)
  <1>1. ASSUME UNCHANGED <<response, history>>
        PROVE  AbstractStep(d)
    BY <1>1 DEF history, AbstractStep, Seen
  <1>2. ASSUME NEW c \in Clients, NEW ch \in Channels,
               FindOpen(c, ch) \/ SeeAnswer(c, ch)
        PROVE  AbstractStep(d)
    BY <1>1, <1>2 DEF FindOpen, SeeAnswer
  <1>3. CASE HandleRead
    BY <1>1, <1>3 DEF HandleRead, Poll, CopyRequest
  <1>4. ASSUME NEW act \in Acts, Decide(act)
        PROVE  AbstractStep(d)
    BY <1>1, <1>4 DEF Decide
  <1>5. ASSUME NEW ch \in Channels, StoreRequest(ch)
        PROVE  AbstractStep(d)
    BY <1>1, <1>5 DEF StoreRequest
  <1>6. CASE UNCHANGED vars
    BY <1>1, <1>6 DEF vars
  <1>7. QED
    BY <1>2, <1>3, <1>4, <1>5, <1>6, WriteMaps, ResponseMaps
       DEF Next, Device, HandleWrite

LEMMA ProductStep ==
  IInv /\ IInv' /\ [Next]_vars => [Product!Next]_(Product!vars)
  <1> SUFFICES ASSUME IInv, IInv', [Next]_vars
               PROVE  [Product!Next]_(Product!vars)
    OBVIOUS
  <1> DEFINE ch == "product"
  <1>1. ch \in Channels /\ Wanted(ch) = Products /\ AnswersOf(ch) = ProductAnswers
    BY DEF Channels, Wanted, AnswersOf
  <1>2. AbstractStep(ch)
    BY <1>1, StepMaps DEF IInv
  <1>3. CASE UNCHANGED Seen(ch)
    BY <1>3 DEF Seen, Product!vars
  <1>4. CASE Asks(ch)
    BY <1>1, <1>4 DEF Asks, Product!Next, Product!Ask
  <1>5. CASE IsAnswered(ch)
    BY <1>1, <1>5 DEF IsAnswered, Product!Next, Product!Answer
  <1>6. CASE Closes(ch)
    BY <1>6 DEF Closes, Product!Next, Product!Close
  <1>7. CASE Revises(ch)
    BY <1>1, <1>7 DEF Revises, Revisable, Product!Next, Product!Revise
  <1>8. CASE raced'[ch]
    <2>1. raced'[ch] = TRUE
      BY <1>1, <1>8 DEF IInv, TypeOK
    <2>2. /\ asked'[ch] \in Products \cup {None}
          /\ response'[ch] \in ProductAnswers \cup {None}
          /\ about'[ch] \in Products \cup {None}
      BY <1>1 DEF IInv, TypeOK, Requests, Responses
    <2>3. QED
      BY <2>1, <2>2 DEF Product!Next, Product!Break
  <1>9. QED
    BY <1>2, <1>3, <1>4, <1>5, <1>6, <1>7, <1>8 DEF AbstractStep

LEMMA CommandStep ==
  IInv /\ IInv' /\ [Next]_vars => [Command!Next]_(Command!vars)
  <1> SUFFICES ASSUME IInv, IInv', [Next]_vars
               PROVE  [Command!Next]_(Command!vars)
    OBVIOUS
  <1> DEFINE ch == "command"
  <1>1. ch \in Channels /\ Wanted(ch) = Commands /\ AnswersOf(ch) = CommandAnswers
    BY DEF Channels, Wanted, AnswersOf
  <1>2. AbstractStep(ch)
    BY <1>1, StepMaps DEF IInv
  <1>3. CASE UNCHANGED Seen(ch)
    BY <1>3 DEF Seen, Command!vars
  <1>4. CASE Asks(ch)
    BY <1>1, <1>4 DEF Asks, Command!Next, Command!Ask
  <1>5. CASE IsAnswered(ch)
    BY <1>1, <1>5 DEF IsAnswered, Command!Next, Command!Answer
  <1>6. CASE Closes(ch)
    BY <1>6 DEF Closes, Command!Next, Command!Close
  <1>7. CASE Revises(ch)
    BY <1>1, <1>7 DEF Revises, Revisable, Command!Next, Command!Revise
  <1>8. CASE raced'[ch]
    <2>1. raced'[ch] = TRUE
      BY <1>1, <1>8 DEF IInv, TypeOK
    <2>2. /\ asked'[ch] \in Commands \cup {None}
          /\ response'[ch] \in CommandAnswers \cup {None}
          /\ about'[ch] \in Commands \cup {None}
      BY <1>1 DEF IInv, TypeOK, Requests, Responses
    <2>3. QED
      BY <2>1, <2>2 DEF Command!Next, Command!Break
  <1>9. QED
    BY <1>2, <1>3, <1>4, <1>5, <1>6, <1>7, <1>8 DEF AbstractStep

\* Both channels implement Reservation: until a client writes out of turn, the
\* request that is answered is the one that was asked, it is answered once, and
\* the answers that follow one in process are about the same request.
THEOREM Reserved == Spec => Product!Spec /\ Command!Spec
  <1>1. Init => Product!Init /\ Command!Init
    BY DEF Init, Product!Init, Command!Init, Channels
  <1>2. QED
    BY <1>1, ProductStep, CommandStep, Inductive, PTL
       DEF Spec, Product!Spec, Command!Spec

-----------------------------------------------------------------------------
(* What the documentation's sentence `a response of none is the state in which *)
(* requests can be accepted' is true of.                                       *)

\* The POST that empties a channel's request while nobody has asked out of turn
\* erases the request it answers and no other.
ErasesWhatItAnswers ==
    [][\A ch \in Channels :
          StoreRequest(ch) /\ ~raced[ch] => request[ch] = got[ch]]_vars

LEMMA EmptiesAnswered ==
  ASSUME IInv, NEW ch \in Channels, StoreRequest(ch), ~raced[ch]
  PROVE  request[ch] = got[ch]
  <1>1. <<"request", ch, None>> \in todo
    BY DEF StoreRequest, Turn
  <1>2. PostInv(ch) /\ RequestInv(ch)
    BY DEF IInv, ChannelInv
  <1>3. QED
    BY <1>1, <1>2 DEF PostInv, RequestInv

\* Until a client asks out of turn, no POST erases a request the device has not read.
THEOREM NoRequestErased == Spec => ErasesWhatItAnswers
  <1>1. IInv /\ [Next]_vars =>
           [\A ch \in Channels :
               StoreRequest(ch) /\ ~raced[ch] => request[ch] = got[ch]]_vars
    BY EmptiesAnswered
  <1>2. QED
    BY <1>1, Inductive, PTL DEF Spec, ErasesWhatItAnswers

\* A single client always waits for its turn: what is asked, it waits for; and when
\* it has found the channel open, nothing closes it.
TurnInv == \A c \in Clients, ch \in Channels :
              /\ asked[ch] # None => client[c][ch] = "waiting"
              /\ client[c][ch] = "open" => response[ch] = None

NeverRaced == \A ch \in Channels : ~raced[ch]

LEMMA SoleInductive ==
  ASSUME \A c, d \in Clients : c = d
  PROVE  Spec => [](TurnInv /\ NeverRaced)
  <1>1. Init => TurnInv /\ NeverRaced
    BY DEF Init, TurnInv, NeverRaced
  <1>2. ASSUME IInv, TurnInv, NeverRaced, [Next]_vars
        PROVE  TurnInv' /\ NeverRaced'
    <2> USE DEF TurnInv, NeverRaced, IInv, TypeOK, Requests
    <2>1. ASSUME UNCHANGED <<client, response, asked, raced>>
          PROVE  TurnInv' /\ NeverRaced'
      BY <1>2, <2>1
    <2>2. \A ch \in Channels : RequestInv(ch) /\ PostInv(ch)
      BY <1>2 DEF ChannelInv
    <2>3. ASSUME NEW c \in Clients, NEW ch \in Channels, FindOpen(c, ch)
          PROVE  TurnInv' /\ NeverRaced'
      BY <1>2, <2>3 DEF FindOpen, history
    <2>4. ASSUME NEW c \in Clients, NEW ch \in Channels, SeeAnswer(c, ch)
          PROVE  TurnInv' /\ NeverRaced'
      <3>1. asked[ch] = None
        BY <2>2, <2>4 DEF SeeAnswer, RequestInv
      <3>2. QED
        BY <1>2, <2>4, <3>1 DEF SeeAnswer, history
    <2>5. ASSUME NEW c \in Clients, NEW ch \in Channels, NEW v \in Wanted(ch),
                 WriteRequest(c, ch, v)
          PROVE  TurnInv' /\ NeverRaced'
      <3>1. IsOpen(ch)
        BY <1>2, <2>5 DEF WriteRequest, IsOpen
      <3>2. NeverRaced'
        BY <1>2, <2>5, <3>1 DEF WriteRequest
      <3>3. ASSUME NEW e \in Clients, NEW d \in Channels
            PROVE  /\ asked'[d] # None => client'[e][d] = "waiting"
                   /\ client'[e][d] = "open" => response'[d] = None
        <4>1. e = c
          OBVIOUS
        <4>2. CASE d = ch
          BY <1>2, <2>5, <4>1, <4>2 DEF WriteRequest
        <4>3. CASE d # ch
          BY <1>2, <2>5, <4>1, <4>3 DEF WriteRequest
        <4>4. QED
          BY <4>2, <4>3
      <3>4. QED
        BY <3>2, <3>3
    <2>6. ASSUME NEW ch \in Channels, NEW a \in Answers \cup {None},
                 StoreResponse(ch, a)
          PROVE  TurnInv' /\ NeverRaced'
      <3>1. <<"response", ch, a>> \in todo
        BY <2>6 DEF StoreResponse, Turn
      <3>2. a # None => asked[ch] # None \/ response[ch] # None
        BY <2>2, <3>1, NotRevisable DEF PostInv
      <3>3. client' = client /\ raced' = raced
        BY <2>6 DEF StoreResponse, Turn
      <3>4. QED
        BY <1>2, <2>6, <3>2, <3>3 DEF StoreResponse
    <2>7. ASSUME NEW ch \in Channels, StoreRequest(ch)
          PROVE  TurnInv' /\ NeverRaced'
      BY <2>1, <2>7 DEF StoreRequest, Turn, history
    <2>8. CASE HandleRead \/ (\E act \in Acts : Decide(act)) \/ UNCHANGED vars
      BY <2>1, <2>8 DEF HandleRead, Poll, CopyRequest, Decide, vars, history
    <2>9. QED
      BY <1>2, <2>3, <2>4, <2>5, <2>6, <2>7, <2>8 DEF Next, Device, HandleWrite
  <1>3. QED
    BY <1>1, <1>2, Inductive, PTL DEF Spec

\* With a single client that follows the documentation, no request is ever made out
\* of turn and none is erased unread: the documentation's sentence holds.  (Two
\* clients break it: run open.)
THEOREM OneClientSuffices ==
  ASSUME \A c, d \in Clients : c = d
  PROVE  Spec => []NeverRaced /\ NoneMeansOpen
  <1>1. IInv /\ NeverRaced /\ [Next]_vars =>
           [\A ch \in Channels : StoreRequest(ch) => request[ch] = got[ch]]_vars
    BY EmptiesAnswered DEF NeverRaced
  <1>2. QED
    BY <1>1, SoleInductive, Inductive, PTL DEF Spec, NoneMeansOpen
=============================================================================
