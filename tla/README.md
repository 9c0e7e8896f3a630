# A TLA+ model of OpcuaBridge

OpcuaBridge is one Windows process between a machine ("the device"), which talks
HTTP to it, and OPC UA clients. It serves eleven OPC UA variables under
`/Objects/Forcon`; the device posts values and polls for requests, the clients
read everything and write the `C-` variables.

## 1. The system

### Threads

| thread | runs | model |
|---|---|---|
| server thread | `UA_Server_runUntilInterrupt` in `main`: every OPC UA call, one at a time, and the value callbacks inside them | `pc` in ScalarNode, `Server` in StringNode |
| HTTP workers | civetweb's pool: `handle_ask`, `handle_read`, `handle_write`, any number at once | posts in ScalarNode, `Device` in Handshake, `Workers` elsewhere |
| monitor thread | `MonitorAskThread`, once a second | `Monitor` in AskMonitor and Lifecycle |
| main thread, before and after it serves | `main`, `start_*`, `stop_ask_monitor` | `main` in Lifecycle |

### Components

| component | state | operations | who calls them |
|---|---|---|---|
| scalar variables (`OpcuaDataBaseInt32/Float/Boolean/DateTime`) | `m_data`, and the value inside the OPC UA node | `SetValue`, `beforeReadCallback` + `UpdateX`, `afterWriteCallback` | workers; server thread |
| string variables (`OpcuaDataBaseString`) | `m_data` (pointer, length), the node's value, `s_filterWords`, `s_filterMutex` | `SetValue`, `GetValue`, `UpdateString`, `afterWriteCallback`, `IsWordAllowed`, `SetFilterFromCsv` | workers; server thread; `main` |
| device supervision (`main.cpp`, `OpcuaDataDeviceStatus`) | `gLastAskTime`, `gLastAskCs`, `m_lastDeviceIsOnline`, `m_status`, the value of `S-RunningStatus` | `refresh_ask_time`, `SetDeviceOnline`, `MonitorAskThread`, `SetStatus` | workers; monitor thread |
| HTTP handlers (`main.cpp`) | none of their own | `/ask`, `/read`, `/write` | civetweb |
| start-up and shutdown (`main.cpp`) | `gLastAskCs`, `gMonitorThread`, `gMonitorRunning` | `main`, `start_http_server`, `start_ask_monitor`, `stop_ask_monitor` | - |
| address space set-up (`opcCommon.c`) | none | `DcInit` | `main` |
| open62541, civetweb (vendored) | node store; worker pool | value read/write services; `mg_get_var` | - |
| `OpcuaBridge.cpp`, `server.c`, `old/` | - | earlier variants, not in the build | - |

### How they interact, and what is hard

* **Two copies of every value.** The wrapper's `m_data` and the OPC UA node hold
  a value each. A read makes the server call `beforeReadCallback`, which writes
  `m_data` into the node; *that* write calls `afterWriteCallback` with a pointer
  at `m_data` itself, so a read also stores `m_data` back into `m_data`.
  Meanwhile workers store into `m_data` under no lock. What must hold: reads are
  fresh; an accepted client write survives the next refresh; a node clients
  cannot write never takes a client's value; when posts stop the copies agree.
* **A string is a pointer and a length.** `SetValue` frees, zeroes and refills
  it without the mutex that `GetValue` and the write callback take; the refresh
  recognises its own write by comparing two loads of the same pointer. What must
  hold: whole words are read, no block leaks or dangles, refused words do not
  reach the device, the non-recursive mutex is never taken twice.
* **An offline flag beside the text it stands for.** Workers mark the device
  online inside the critical section, the monitor marks it offline outside it,
  with a stamp read earlier. Both return early on the flag. What must hold: the
  stamp does not go back; a live device is never shown offline; flag and text
  agree; silence ends up shown as `Offline`.
* **Requests and acknowledgements.** A client writes a request variable while the
  response is `none`; the device sees it through `/read`, which copies two request
  variables one after the other, and answers through `/write`, which stores `none`
  over the request - whatever is there by then - and the response, one after the
  other. What must hold: the request that is answered is the one that was asked;
  every request is answered; `/read` does not turn the order of requests around.
* **Handlers that are live before and after the objects they use.** The HTTP
  server starts before `start_ask_monitor` initialises `gLastAskCs` and is never
  stopped; `stop_ask_monitor` waits five seconds, does not look at the result, and
  deletes the critical section. What must hold: the monitor never meets a
  deleted critical section unless it hangs; service loses no request; shutdown ends.
* **Texts taken apart.** Parameters are searched for by name in the raw query, and
  one name begins another; a value longer than 31 characters does not fit; a filter
  without words allows every word (a comment says the opposite: finding 6).
* **A write without a type.** The server checks the type of a client's value only if it has one, and
  the callback names that type in its warning without looking: the process ends.

`PROJECT.json` lists each hazard at its line, with the properties aimed at it or
the reason why there is none yet.

## 2. The modules

| module | what it is |
|---|---|
| `NodeContract` | what a scalar variable promises: a register that posts and accepted writes change, that a read answers from, and that may fall back - while a call is open - to a value it had since that call began |
| `ScalarNode` | the code of a scalar variable; implements `NodeContract` with `cur <- mData` |
| `ScalarNodeProofs` | its theorems |
| `AskMonitor` | device supervision, every access to a shared variable a step, with a clock in seconds |
| `AskMonitorProofs` | its theorems |
| `WordRegister` | what a string variable promises: one word, set by the device or by a client if the filter allows it, and copied whole - until a post meets another access |
| `StringNode` | a string variable at the granularity of the fields of its `UA_String`; implements `WordRegister` |
| `StringNodeProofs` | its theorems |
| `Reservation` | what the documentation promises of a request variable and its response: asked, answered - an answer that says the request is in process may be followed by another about the same request -, closed; until a client asks although it is not open |
| `Handshake` | clients, the two request/response pairs, the device's loop of `/read` and `/write`; each pair implements `Reservation` |
| `HandshakeProofs` | its theorems |
| `Lifecycle` | start and end of the process: `main`, the monitor thread and the workers at the life of `gLastAskCs`, with a clock |
| `LifecycleProofs` | its theorems |
| `QueryVar` | `mg_get_var` and `mg_url_decode`, and which parameters `handle_write` stores |
| `FilterCsv` | `SetFilterFromCsv` and `IsWordAllowed` |
| `Parsing` | the two as calls with an input and a result, and their reference definitions |
| `TextLemmas` | lemmas: least and greatest elements, induction over positions |
| `ParsingProofs`, `FilterProofs` | the theorems about `Parsing`: forms and queries; the filter's list |
| `MCScalarNode`, `MCAskMonitor`, `MCStringNode`, `MCHandshake`, `MCLifecycle`, `MCParsing` | the small instances the `.cfg` files run |

How they compose: Handshake takes each access to a string variable as one step, on one word, and
lets the filter drop a client's word without telling it. That is `WordRegister`; StringNode
implements it (`KeepsRegister`, checked and proved) as long as no `SetValue` meets another access.
Lifecycle stands beside AskMonitor: the one has the life of the critical section and
nothing of what is computed inside it, the other the reverse. Parsing says which stores
the POST of Handshake and the reports of AskMonitor turn into.

Definitions named `X_Something` next to a definition `X` under a comment "A change
that must be caught" are `X` with a plausible bug; each property is known to fail
when one of them takes the place of `X` (`mutants` in `PROJECT.json`). No
specification uses them.

### ScalarNode

`mData` is `m_data`, `nodeValue` the node's value, `pc` the place of the server
thread, `reg` what the write callback holds between its load and its store,
`writable` the access level. A read is
`BeginRead` (service, `beforeReadCallback`), `Update` (`UpdateInt32`, which
writes the node), `LoadSelf` and `StoreSelf` (`*(&m_data) -> m_data` in the
callback of that write), `ReadReply`. A write is `RefuseWrite` (access level or
type), or `WriteValue`, `AfterWrite`, `WriteReply`, or `WriteEmpty` (a DataValue
without a value, `hasValue` false, passes the type check and empties the node; the callback
returns early), or `WriteTypeless`: a DataValue that has a value, but one without a type, passes the check
too (open62541.c:39733), and the callback's warning (OpcuaDataBase.h:53) reads the type's name through
a null pointer. The process ends there, and in the model nothing happens any more. That is why
deadlock is not checked. `SetValue` may happen between any two of the other steps. `seen`,
`offered` and `lastWrite` are history: no guard and no effect on the program's
variables reads them.

Abstractions: the four classes share this shape and one model; a value is a
model value; the load and the store of an aligned scalar are one step each (not
so for a DateTime in the Win32 build: a listed hazard); a node's first value is
arbitrary because `m_data` is not initialised before the node is created, and
`Cmd` gets no first `SetValue` at all.

### AskMonitor

`gLastAskTime`, `cs` (holder of `gLastAskCs`), `online`
(`m_lastDeviceIsOnline`) and `text` (the value of `S-RunningStatus`) are shared;
`pc` says where each thread is. A worker's request is `Request`, `Enter`,
`TakeTime`, `Stamp`, the steps of `SetDeviceOnline(TRUE)`, `Leave` and, for a POST
with `devicestatus`, `Report`. The monitor's round is `ReadStamp`, `Compare`, the
steps of `SetDeviceOnline(FALSE)`, `Sleep`, `Wake`. `SetDeviceOnline` is
`CheckFlag` (early return), `FlipFlag`, `ChooseText`, `ShowText`; the member it
tests after storing it is an ordinary bool, so the build may reuse the stored
value or load it again, and `ChooseText` allows both. `Advance` is the clock. `timely` (history) says whether at every tick so far the
stamp was younger than `MaxGap` and a monitor that had read it had waited less than `MaxStall` (`InTime`); nothing
keeps the system in time, `AliveStaysOnline` then only ceases to promise.

Abstractions: `ReadStamp` covers Enter/load/Leave, whose only effect on others is
the wait; the `SetValue` of the status string is one step (StringNode is about
how it tears); `m_status` is the constant `idle`, because its one `SetStatus` is in
`main`; time is `time(NULL)`, in seconds and monotone (nobody sets the system
clock back); the devices' statuses do not include `Offline` (doc/forcon_opcua.md
does not list it among them).

### StringNode

`mData` has the pointer and "whose length it is"; `heap` says which word, if any,
lives in each block. `SetValue` is `BeginSet`, `Test`, then `Clear`, `Wipe`,
`SetData`, `SetLength`; `GetValue` is `BeginGet`, `Lock`, `Take`, `Bytes`,
`CopyLength`, `Unlock`; a read is `BeginRead`, the same three copying steps,
`Compare` and `SamePointer` (the callback's two loads of `m_data.data`); a client's
write is `BeginWrite`, `Probe` (the callback's loads of `m_data.data`, under no lock), `CheckWord` (the mutex taken and given back by
`IsWordAllowed`), `Lock`, the four replacing steps, `Unlock`, or `WriteEmpty`, or `WriteTypeless`, which ends the process
as in ScalarNode (`Lives` is false then, and no thread moves; deadlock is not checked for this reason).

`clash` (history) becomes true when a `SetValue` runs while another thread is at
`m_data`: that is undefined behaviour in the code. What the model then does is one
of the outcomes a build can have (a freed block's bytes, a length that is not the
block's, `Garbage`), not all of them: heap corruption can do anything. That is enough for the violation run; every property
that must hold, `CallsEnd` among them, is about behaviours without a clash. Abstractions: two different words stand for strings of
different lengths; the double `memset` of `UA_clear` and `UA_copy` is one step;
the string `SetValue` allocates for itself, and leaks, is left out; a freed block
may be reused as soon as nobody points at it, a leaked one only when no other is left; the filter is a constant, because
`SetFilterFromCsv` runs before any other thread does and `ClearFilter` is never called; `malloc` does not fail
(`HeapAssumption`: there are more blocks than threads, so a thread that needs one finds one nobody points at).

`KeepsRegister` says when the steps of an operation become visible: a replacement at
`SetLength` (`SetWord` of the register), a copy at `Bytes` (`CopyWord`), the first clash is `Break`,
after which nothing is promised; every other step is invisible.

### Handshake

`request` and `response` are the values of `C-RequestProductChange` and
`C-RequestProductionCommand`, and of the `S-Response...` of each. `handle_read` is
`Poll` and two `CopyRequest`s in `ReadOrder`; `handle_write` is one `StoreRequest` or
`StoreResponse` for each parameter that was posted, taken by `Turn` in the order in which
the code looks for them (`Rank`). `WriteRequest` is a client's write with the word
filter, which lets the server answer Good and drops the word.

The clients and the device's program are not in the repository. They are modelled from
doc/forcon_opcua.md and marked external in `PROJECT.json`: a client reads the response
(`FindOpen`), then writes once, then waits for an answer (`SeeAnswer`); the device sends
one HTTP request at a time, answers only what it has read while its response is `none`, and withdraws the answer
later (`Decide`, any combination for the two channels). The product's answers are accepted, pending and rejected, the
command's accepted and rejected. A product answer that says the request is in process (`Processing`: pending, or accepted
as well) may be followed by any other product answer, about the same request, any number of times (doc/forcon_opcua.md:34-39);
any answer may be withdrawn at any time, although the documentation only has the device withdraw when it is done. What the device is
assumed not to do: answer a request it has not read, or revise an answer that is final, or one on the command channel,
for which the documentation has no answer in process. `asked`, `about`, `raced` and
`commandFirst` are history. `raced` records that a client wrote a request that was not
its turn: two clients that both saw `none`, which nothing in the protocol excludes. From then on
nothing is promised, and the run `handshake_open` shows why.

Abstractions: a variable is read and written whole (StringNode is about that); a
client's poll that finds no change has no step; a POST without its turn in the protocol (a device that posts
out of the blue) is not the documented device; the status and progress parameters of the
same POST do not concern the requests. A failed HTTP call and its retry are the
device's business and not modelled: the bridge keeps nothing of a call.

### Lifecycle

`main` says what the main thread does next; `StartHttp` (which may fail),
`InitializeCs`, `EnterFirst`, `LeaveFirst`, `CreateMonitor` (which may fail) lead to
`serve`, `ServerReturns` leaves it - interrupted or never started -, and `StopMonitor`, `WaitForMonitor`, `DeleteCs` and
`Return` end the process and every thread with it. `cs` is `gLastAskCs`: raw, live or
deleted. A thread that enters or leaves it when it is not live is `lost`; in
the code that is undefined (it hangs, or the process dies, which only ends the
behaviour earlier). The monitor's round is `MonitorTest`, `MonitorEnter`, `MonitorLeave`,
`MonitorSleep`, `MonitorWake`; `due` is when it should be over, and `late` (history)
becomes true when it is not. `Advance` is the clock, in seconds.

Not in the model: a restart (the process keeps nothing on disk, so a restart is `Init`);
what precedes `start_http_server`, which runs alone and makes the first values of the
nodes.

### QueryVar, FilterCsv, Parsing

A text is a sequence of character codes. `NameAt` is the test in `mg_get_var`'s loop
(at the start or after `&`, letters in any case, `=` behind it), `ItemFrom` the search for the next
`&`, `Decode` is `mg_url_decode` with its bound, `Stores` the `> 0` test of `handle_write`, after which a `%00`
in `value_buf` ends the text early (`CString`).
`Reading` is the `getline` loop, character by character, `Items` what it leaves, `TrimCopy` and `FilterOf` the rest of
`SetFilterFromCsv`; the vector of words is a set, since `IsWordAllowed` only looks whether a word is among them.
`Encode` is the device's side (external): names in any case, escapes where needed or everywhere.
The handlers see the raw query, because civetweb's option to decode it first is off by default.

Not in the model: what `atoi`, `atof` and `atoll` make of the text of a number.

## 3. The runs

| run | instance | properties | shows |
|---|---|---|---|
| `scalar` | 2 posted values, 2 client values, one of them shared; read-only and writable | `TypeOK`, `ReadIsFresh`, `OnlyOfferedValues`, `ReadYourWrite`, `CopiesConverge`, `KeepsContract` | all hold; the node implements the contract |
| `scalar_lostpost` | same | `OnlyPostsChange` | **violated**: a client's *read* undoes a post |
| `monitor` | 2 workers, `Timeout` 2 = `MaxGap` 1 + `MaxStall` 1, clock to 4, one status | `TypeOK`, `FlagMatchesText`, `AliveStaysOnline`, `StampMonotone`, `SilenceIsShown` | all hold: `FlagMatchesText` and `SilenceIsShown` as long as no offline decision meets a request, `AliveStaysOnline` while all are in time, with no margin to spare |
| `monitor_stuck` | 1 worker, fair | `AskingIsShown` | **violated**: shown `Offline` for good while requests are answered |
| `monitor_revert` | 1 worker | `ShowsReport` | **violated**: after an outage `idle` instead of the last report |
| `string` | 1 worker, 3 blocks, filter {none, start}, client words start (allowed) and jump (refused) | `TypeOK`, `NothingDangles`, `RefusedStaysOut`, `ReadsExact`, `KeepsRegister`, `CallsEnd` | hold without a clash, and the node is a `WordRegister`; calls end without a clash or a write without a type, once the workers no longer take the mutex |
| `string_torn` | 2 workers, 4 blocks | `GetsAreWhole` | **violated**: `/read` hands out what nobody stored |
| `handshake` | 2 clients, 2 products, commands start (allowed) and jump (refused), product answers pending (in process) and rejected, command answer accepted, fair | `TypeOK`, `ReadsInOrder`, `ProductReserved`, `CommandReserved` | hold: until a client writes out of turn both channels are Reservations, with every request answered |
| `handshake_open` | same | `NoneMeansOpen` | **violated**: the device's POST erases a request nobody has read |
| `lifecycle` | 2 workers, `Nap` 1, `WaitLimit` 5, `MaxStall` 1, clock to 8 | `TypeOK`, `MonitorWithinLock`, `ServiceLosesNone`, `ShutsDown` | all hold |
| `parsing` | all short inputs, below | `StoresWhatWasSent`, `ItemsStandAlone`, `FilterIsTheList` | all hold; the last is about filters whose text has a word |
| `parsing_empty` | same | `EmptyRefusesAll` | **violated**: an empty filter allows every word |

### The bounds, and why they are enough

* `scalar`: two values on each side tell old from new, and a post from a write; the
  shared one lets both sides choose the same value, where "who wrote it" and "what
  is there" differ. The node's code never compares values. The model is finite
  without any bound, and the theorems hold for every set of values.
* `monitor`: two workers are needed for the critical section to matter, and a third
  meets only the same steps. Time enters through `now - last > Timeout` alone, so
  a timeout of 2 with a clock from 1 to 4 has "too young", "exactly" and "too old"; once
  the clock stops, `Wake` may happen at any moment, so that the bound strands
  nobody. `MaxGap + MaxStall` is the timeout exactly: with `>=` for `>` in the comparison the property fails.
  The two violation runs have a timeout of 1 and set `MaxGap` and `MaxStall` to 0, since `timely` does not matter there.
* `string`: one worker is enough for the conditional properties, because a second one
  in `SetValue` is a clash by definition and two in `GetValue` exclude each other.
  Three blocks are what one server and one worker can hold on to, plus a new one; the theorems hold
  for any threads and blocks. The violation run has two workers, and so four blocks; there the
  device's own posts and polls meet.
* `handshake`: two clients are what a race needs (one that follows the protocol never races itself), two products
  tell the request that was read from the one that is there, start and jump are the filter's
  two outcomes. The code never compares answers: pending and rejected are an answer that may be followed by another and
  one that may not (accepted, as a product answer, is like one of the two). The model is finite
  without any bound; the theorems hold for any clients, words, filter and answers.
* `lifecycle`: two workers, so that one may hold the critical section and another wait or be lost.
  `Nap` and `WaitLimit` are the code's. `MaxStall` 1 satisfies the margin
  (2 * 1 + 1 < 5); nothing keeps a round from taking longer, the property then only ceases to
  promise. `LastStop` 3 lets the monitor be at any place of its second round
  when main stops, and the clock to 8 has the whole wait after it. Deadlock is not checked: the process ends.
* `parsing`: the buffer holds 3 characters instead of 31, so that texts of up to 4 - or an escape
  at its end - just fit or just do not. The names are r, p and rP, each of the first two a part of the third.
  Queries of up to 6 characters over r, p, P, = and & hold three items, those that begin with r= and go on with
  r, % and 0 have escapes whole and broken off; the CSVs have up to
  7 characters over a letter, blank and comma, the words up to 3. Deadlock is not checked: a call returns.

### Fairness

* ScalarNode, `Sampled`: the server thread finishes a call it began, and some client
  polls or samples, so that reads keep beginning. Only `CopiesConverge` needs it: without another
  read the node would keep an old copy by design.
* AskMonitor, `Fairness`: weak fairness for the clock and each thread. Nothing
  promises the critical section to a particular worker. `SilenceIsShown` and
  `AskingIsShown` have what they need in their antecedents (the device is
  silent for good; requests keep being answered).
* StringNode, `Fairness`: weak fairness for the running threads, none for `s_filterMutex`: `std::mutex` promises a waiter
  nothing, and a stream of `GetValue` calls may hold the server off. So `CallsEnd` has what it needs in its antecedent: no clash, no
  write without a type, and workers that in the end leave the mutex alone (`WorkersPause`). What remains is the code's part: nobody
  keeps the mutex, and its holder never waits for it.
* Handshake, `Fairness`: weak fairness for the device's program, which includes the
  handlers it calls, and, for each channel, strong fairness for answering what it keeps
  reading and for withdrawing the answer. The latter is an assumption about the external
  device - a device that never answers a request makes every bridge fail -; what
  the runs then show is that the bridge does not lose what lies between. Clients are promised nothing.
* Lifecycle, `FairSpec`: weak fairness for main once the server has returned, and for the
  clock. The monitor and the workers are promised nothing: shutdown ends even if they hang.

## 4. What is proved

TLAPS checks the following for every value of the constants that satisfies the
named assumptions.

`ScalarNodeProofs` (assumption: `Nothing` is not a value). The stated invariants
are not inductive: that a read answers freshly depends on what the callback holds
at that moment. `IInv` adds, for each place of the server thread, what the call still works
with: `SeenInv` (the node and the callback's register hold values of the open
call), `WriteInv` (an accepted write is of a writable node and of a client value),
`OfferInv`, `StickInv` (a client's value is in every copy). From it:
`TypeCorrect`, `Fresh`, `Offered`, `OwnWrite`, and `Refinement`, `Spec => KeepsContract`:
initial states map to initial states, and each step to a step of the contract
or to a stutter (`StoreSelf` maps to `Undo`: the one weakness the contract has to admit).

`AskMonitorProofs` (assumptions: threads are distinct, times are naturals, `Offline`
is not a device status):
* `TypeCorrect`, and `Monotone`: `IInv` adds `LockInv` (who is between entering and
  leaving holds the critical section) and `ClockInv` (a time that is about to be
  stored is not older than the stamp).
* `Alive`: if `MaxGap + MaxStall <= Timeout` then `AliveStaysOnline`. While `timely`,
  `MarginInv` splits the age of the stamp into the part before and the part
  after it was read, and `AliveInv` says that the monitor never enters
  `SetDeviceOnline`. For the code's 600 s: a device heard every `G` seconds is
  safe if the monitor is never preempted for more than `600 - G` between reading and comparing.
* `FlagTrusted`: `FlagMatchesText`. `FlagInv` says that, without an overlap, the
  monitor and the workers are not in `SetDeviceOnline` together, and what flag and
  text are at each of its steps.

`LifecycleProofs` (assumptions: the threads are distinct, the times are naturals):
* `TypeCorrect`.
* `MonitorSafe`: if `2 * MaxStall + Nap < WaitLimit`, a monitor that is not late lives within the
  life of `gLastAskCs`. The property says nothing of time, so `IInv` adds it: `DueInv` (a round that
  is not late is over by `due`, and `due` is near), `WaitInv` (since main waits, at most the rest of a
  round, a sleep and a test remain), `PhaseInv` (what the section and the handle are at each place of main)
  and `GoneInv` (so the thread has ended when main goes on). With the code's constants a round may take almost two seconds.
* `ServiceSafe`: `ServiceLosesNone`, from `EarlyInv` (a request at work before service began is an early one).

`HandshakeProofs` (assumptions: `none` is no request and no answer, and posting nothing is none of these):
* `TypeCorrect`.
* `Reserved`: `Spec => Product!Spec /\ Command!Spec`, the refinement without its fairness, for any set of product answers in process. That the answered
  request is the one that was asked needs to know what the device still holds: `GotInv`
  (what it has read was asked for and not answered; an emptied request has its answer on the way) and `PostInv` (the
  stores of one POST belong together, and the request is emptied first), beside `RequestInv` for the
  variables themselves - all while nobody has written out of turn.
* `InOrder`: `ReadsInOrder`, from the same invariant and `OrderInv`.
* `NoRequestErased`: on a channel where nobody has written out of turn, the store that empties a
  request finds the request it answers, so none is erased unread. `PostInv` has what this
  needs: while the store is due, the request is still there.
* `OneClientSuffices`: with at most one client no channel is ever raced, and the documentation's "`none` means
  open" holds. `TurnInv` says why: that client waits for whatever is asked, and once it has found the
  response `none`, nothing closes the channel before it writes. This is the other side of finding 5, which needs two clients.

`StringNodeProofs` (assumptions: the server thread is no worker, there are more blocks than threads, and a word is neither
empty nor what a freed block holds):
* `TypeCorrect`: with or without a clash.
* `NodeOwnsItsBlock`, `RefusedWordsStayOut`, `CopiesAreExact`: the properties only speak of
  finished copies and idle moments, so the invariant has to say what every thread is in the
  middle of. `ControlInv` is about who may be where: `PlaceInv` (which steps belong to which operation), `LockInv`
  (who is between `Lock` and `Unlock` has the mutex), `CompanyInv` (without a clash, a thread that replaces `m_data` is
  the only one at it) and `PostInv`. `QuietInv` is about the data, without a clash: `FilterInv` (only allowed words get as far as the
  replacing steps of a client's write), `StoreInv` (what pointer, length and heap are at each of those steps) and `CopyInv` (what a
  copy has so far is of the word that is there).
* `Refinement`: `Spec => KeepsRegister`, step by step, with the mapping told above.

`ParsingProofs` (assumptions: the parameter names are letters and differ in more than their case, as those of
main.cpp:169-212 do; the texts of a form are C strings; queries are sequences of numbers):
* `ItemsApart`: `ItemsStandAlone` for every set of names, every buffer and every query. That `mg_get_var`'s
  test and the search for `&` never look beyond an item is `PlacesAreItems`, `NameInside` and `RestOfItem`; that
  the value found in the query is the one found in its item alone is `ItemAlone`.
* `FormsStored`: `StoresWhatWasSent` for every form - any number of items, any bytes - in every style of the encoder.
  `DecodeUndoes` is the round trip through `mg_url_decode`: its recursive function is first shown to exist (`DecodingExists`, `DecodeIs`),
  then followed back from the end of the text, one encoded character at a time (`CharIs`). `ItemDecoded` says that an encoded item is found by its own
  name only, `AddItem` that an item put behind a query changes nothing for the names in it, and `FormDecoded` adds the items up.

`FilterProofs` (assumption: CSVs and words are sequences of numbers):
* `FilterIsExact`: `FilterIsTheList` for every CSV that has a word and every word. `Reading` is a recursive function; `Read` gives its value at a
  position directly, from the commas before it, and `ReadingIs` shows that the two agree. Then an item is told by the edges
  around it (`ItemIs`), `TrimCopy` by its first and last solid character (`TrimIs`), and the two descriptions of a listed word
  meet in `WordIsListed` and `ListedIsWord`.

`TextLemmas` proves the induction these need from the well-foundedness of `<` on the naturals, in a form
that can be cited: about a *set* of positions, not about an operator.

Only model-checked: everything about liveness (`CopiesConverge`, `SilenceIsShown`,
`CallsEnd`, `ShutsDown`, and that every request is answered in `ProductReserved` and
`CommandReserved`), which is out of the prover's reach. Every invariant of a passing run is a theorem.

## 5. Findings

1. **A read undoes a post** (`scalar_lostpost`, OpcuaDataBase.h:56). The callback of the
   refresh loads `m_data` and stores it back; a post between the two is lost.
2. **Stuck on Offline** (`monitor_stuck`, main.cpp:53). The offline decision is carried
   out outside the critical section. A request handled between its flag store and
   its `SetValue` sets the flag back and shows `idle`, then the monitor shows
   `Offline`; the early return keeps later requests from repairing it. (A posted
   `devicestatus` would; a device that only asks does not send one.)
3. **The report is forgotten** (`monitor_revert`, main.cpp:172). `devicestatus` goes through
   `SetValue`, not `SetStatus`, so coming back after an outage shows `idle`.
4. **`GetValue`'s lock protects nothing against `SetValue`** (`string_torn`, OpcuaDataBase.h:187).
5. **A request erased unread** (`handshake_open`, main.cpp:183). Of two clients that ask while the
   response is `none`, the second may write after the device has read the first; the
   POST that answers the first empties the variable, and the second waits for an answer to a request
   that nobody has seen.

6. **An empty filter allows everything** (`parsing_empty`, OpcuaDataBase.cpp:216). `SetFilterFromCsv` skips blank items, so a text of
   blanks and commas leaves no word; a comment says that an empty filter refuses by default, the code returns true.
   (main.cpp:286 gives five words, so the shipped configuration is not affected.)

One plain difference between comments and code needs no run: main.cpp:41 and main.cpp:52 speak of 15 seconds without a
request, the code of main.cpp:51 waits for 600. `AliveStaysOnline` and `Alive` are about any timeout.

## 6. Not modelled

* The vendored libraries: open62541 (generated single file, its header and a copy of its sources) and
  civetweb make up all but some 1,050 of the repository's 290,000 lines, and are third-party code with
  specifications and tests of their own. Of open62541 the value read and write paths the callbacks hang
  on are modelled, of civetweb `mg_get_var`, `mg_url_decode`, the worker pool and the refusal to start.
  So the modules cover nearly all of the program's own code and only a small share of the tree.
* `DcInit` and the `Dc*` helpers of `opcCommon.c`: the first runs once, alone, before everything, the
  others are not called.
* A DateTime of two halves in the Win32 configuration (a listed hazard).
* Outside of the node modules, the end of the process by a write without a type: it ends every behaviour alike, and the liveness
  properties of the other modules are about a process that goes on.
* What becomes of HTTP workers that meet the critical section before it is initialised or after it is deleted (a listed hazard):
  Lifecycle loses them, and nothing is promised to them.
* `SetValue`'s leak of its temporary string: a hazard only, no line of the repository says
  anything it could be checked against.
* The layout of HTTP replies, a method the handlers do not know, logging.
* `OpcuaBridge.cpp`, `server.c`, `old/`: earlier variants and a tutorial, not in the build.

## 7. Plan

Done, in this order: NodeContract, ScalarNode with proofs, AskMonitor with proofs, StringNode;
Reservation and Handshake with proofs, Lifecycle with proofs, QueryVar, FilterCsv and Parsing; WordRegister and the
proofs about StringNode, the proofs about Parsing.

Left:

1. A DateTime of two halves, as a variant of ScalarNode; `OnlyOfferedValues` is expected to fail there.
