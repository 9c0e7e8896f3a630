-------------------------- MODULE LifecycleProofs --------------------------
(***************************************************************************)
(* Proofs about Lifecycle for any set of workers and any times: types, the *)
(* five seconds that keep the monitor within the life of its critical      *)
(* section, and that service loses no request that came in time.           *)
(***************************************************************************)
EXTENDS Lifecycle, TLAPS

Past == {"free", "exit"}

\* How the critical section and the thread's handle go with main's progress.
PhaseInv ==
    /\ cs = "raw" => main \in {"http", "initialize"}
    /\ cs = "deleted" => main \in Past
    /\ main \in BeforeService => monitor = "none" /\ ~gMonitorThread
    /\ main \in {"serve", "stop"} /\ ~gMonitorThread => monitor = "none"
    /\ main = "wait" => ~gMonitorRunning

InRound == {"enter", "leave", "decide"}

\* A round that is not late ends by `due`, and `due` is not far.
DueInv ==
    /\ monitor \in InRound \cup {"test"} => due <= now + MaxStall
    /\ monitor = "sleep" => due <= now + Nap + MaxStall
    /\ ~late /\ Active => now <= due

\* Once main waits, the monitor may finish its round, sleep, and test.
WaitInv ==
    main = "wait" /\ ~late =>
        /\ monitor \in InRound => due <= since + MaxStall
        /\ monitor \in {"sleep", "test"} => due <= since + 2 * MaxStall + Nap

Margin == 2 * MaxStall + Nap < WaitLimit

\* So it has ended when main goes on.
GoneInv ==
    Margin /\ ~late =>
        /\ main \in Past \cup {"delete"} => monitor \in {"none", "ended"}
        /\ monitor # "lost"

MonitorInv == PhaseInv /\ DueInv /\ WaitInv /\ GoneInv

\* Whose request may be lost, and when.
EarlyInv ==
    \A w \in Workers :
        /\ main \in BeforeService /\ worker[w] # "free" => w \in early
        /\ worker[w] = "lost" => w \in early \/ main \in Past

IInv == TypeOK /\ MonitorInv /\ EarlyInv

-----------------------------------------------------------------------------
(* Types *)

LEMMA InitType == Init => TypeOK
  <1> SUFFICES ASSUME Init
               PROVE  TypeOK
    OBVIOUS
  <1>1. worker \in [Workers -> {"free", "enter", "leave", "lost"}]
    BY DEF Init
  <1>2. now \in Nat /\ since \in Nat /\ due \in Nat
    BY DEF Init
  <1>3. QED
    BY <1>1, <1>2 DEF Init, TypeOK, BeforeService

LEMMA MainType == ASSUME TypeOK, Startup \/ ServerReturns \/ Shutdown
                  PROVE  TypeOK'
  <1> USE TimesAssumption DEF TypeOK, lock, handles, history, BeforeService
  <1>1. CASE Startup
    <2>1. CASE StartHttp
      <3>1. http' \in BOOLEAN
        BY <2>1 DEF StartHttp
      <3>2. QED
        BY <2>1, <3>1 DEF StartHttp
    <2>2. CASE InitializeCs \/ EnterFirst \/ LeaveFirst
      BY <2>2 DEF InitializeCs, EnterFirst, LeaveFirst
    <2>3. CASE CreateMonitor
      <3>1. due' \in Nat
        BY <2>3 DEF CreateMonitor
      <3>2. gMonitorThread' \in BOOLEAN /\ gMonitorRunning' \in BOOLEAN
        BY <2>3 DEF CreateMonitor
      <3>3. QED
        BY <2>3, <3>1, <3>2 DEF CreateMonitor
    <2>4. QED
      BY <1>1, <2>1, <2>2, <2>3 DEF Startup
  <1>2. CASE ServerReturns
    BY <1>2 DEF ServerReturns
  <1>3. CASE Shutdown
    BY <1>3 DEF Shutdown, StopMonitor, WaitForMonitor, DeleteCs, Return
  <1>4. QED
    BY <1>1, <1>2, <1>3

LEMMA ThreadType == ASSUME TypeOK, MonitorStep \/ WorkerStep \/ Advance
                    PROVE  TypeOK'
  <1> USE TimesAssumption DEF TypeOK, lock, handles, history
  <1>1. CASE MonitorStep
    <2> USE <1>1 DEF MonitorStep
    <2>1. CASE MonitorTest \/ MonitorWake
      BY <2>1 DEF MonitorTest, MonitorWake
    <2>2. CASE MonitorEnter \/ MonitorLeave
      BY <2>2 DEF MonitorEnter, MonitorLeave
    <2>3. CASE MonitorSleep
      BY <2>3 DEF MonitorSleep, NextDue
    <2>4. QED
      BY <2>1, <2>2, <2>3
  <1>2. CASE WorkerStep
    BY <1>2 DEF WorkerStep, Request, WorkerEnter, WorkerLeave
  <1>3. CASE Advance
    BY <1>3 DEF Advance
  <1>4. QED
    BY <1>1, <1>2, <1>3

LEMMA NextType == TypeOK /\ [Next]_vars => TypeOK'
  <1> SUFFICES ASSUME TypeOK, [Next]_vars
               PROVE  TypeOK'
    OBVIOUS
  <1>1. CASE Next
    BY <1>1, MainType, ThreadType DEF Next
  <1>2. CASE UNCHANGED vars
    BY <1>2 DEF vars, lock, handles, history, TypeOK
  <1>3. QED
    BY <1>1, <1>2

-----------------------------------------------------------------------------
(* The monitor and its critical section *)

LEMMA InitMonitor == Init => MonitorInv
  BY DEF Init, MonitorInv, PhaseInv, DueInv, WaitInv, GoneInv, Past, InRound,
         Active, BeforeService

LEMMA MainMonitor ==
  ASSUME TypeOK, MonitorInv, Startup \/ ServerReturns \/ Shutdown
  PROVE  MonitorInv'
  <1> USE TimesAssumption
      DEF MonitorInv, PhaseInv, DueInv, WaitInv, GoneInv, Past, InRound,
          Active, BeforeService, TypeOK, lock, handles, history
  <1>1. CASE Startup
    BY <1>1 DEF Startup, StartHttp, InitializeCs, EnterFirst, LeaveFirst,
                CreateMonitor
  <1>2. CASE ServerReturns
    BY <1>2 DEF ServerReturns
  <1>3. CASE StopMonitor
    BY <1>3 DEF StopMonitor
  <1>4. CASE WaitForMonitor
    \* With the margin, the five seconds are over after `due` only.
    <2>1. PhaseInv' /\ DueInv' /\ WaitInv'
      BY <1>4 DEF WaitForMonitor
    <2>2. ASSUME Margin, ~late
          PROVE  monitor \in {"none", "ended"}
      <3>1. CASE monitor = "ended"
        BY <3>1
      <3>2. CASE now >= since + WaitLimit
        <4>1. monitor \in InRound \cup {"sleep", "test"} => now < now
          BY <1>4, <2>2, <3>2 DEF Margin, WaitForMonitor
        <4>2. QED
          BY <4>1, <2>2
      <3>3. QED
        BY <1>4, <3>1, <3>2 DEF WaitForMonitor
    <2>3. GoneInv'
      BY <1>4, <2>2 DEF WaitForMonitor, Margin
    <2>4. QED
      BY <2>1, <2>3
  <1>5. CASE DeleteCs \/ Return
    BY <1>5 DEF DeleteCs, Return
  <1>6. QED
    BY <1>1, <1>2, <1>3, <1>4, <1>5 DEF Shutdown

LEMMA ThreadMonitor ==
  ASSUME TypeOK, MonitorInv, MonitorStep \/ WorkerStep \/ Advance
  PROVE  MonitorInv'
  <1> USE TimesAssumption
      DEF MonitorInv, PhaseInv, DueInv, WaitInv, GoneInv, Past, InRound,
          Active, BeforeService, Margin, TypeOK, lock, handles, history
  <1>1. CASE MonitorStep
    <2> USE <1>1 DEF MonitorStep
    <2>1. CASE MonitorTest
      BY <2>1 DEF MonitorTest
    <2>2. CASE MonitorEnter
      BY <2>2 DEF MonitorEnter
    <2>3. CASE MonitorLeave
      BY <2>3 DEF MonitorLeave
    <2>4. CASE MonitorSleep
      BY <2>4 DEF MonitorSleep, NextDue
    <2>5. CASE MonitorWake
      BY <2>5 DEF MonitorWake
    <2>6. QED
      BY <2>1, <2>2, <2>3, <2>4, <2>5
  <1>2. CASE WorkerStep
    <2>1. UNCHANGED <<now, main, cs, handles, monitor, due, late>>
      BY <1>2 DEF WorkerStep, Request, WorkerEnter, WorkerLeave
    <2>2. QED
      BY <2>1
  <1>3. CASE Advance
    <2>1. PhaseInv'
      BY <1>3 DEF Advance
    <2>2. DueInv'
      <3>1. ~late' => ~late /\ ~(Active /\ now >= due)
        BY ONLY <1>3, Zenon DEF Advance
      <3>2. now' = now + 1 /\ UNCHANGED <<monitor, due>>
        BY <1>3 DEF Advance
      <3>3. QED
        BY <3>1, <3>2
    <2>3. WaitInv' /\ GoneInv'
      BY <1>3 DEF Advance
    <2>4. QED
      BY <2>1, <2>2, <2>3
  <1>4. QED
    BY <1>1, <1>2, <1>3

LEMMA NextMonitor == TypeOK /\ MonitorInv /\ [Next]_vars => MonitorInv'
  <1> SUFFICES ASSUME TypeOK, MonitorInv, [Next]_vars
               PROVE  MonitorInv'
    OBVIOUS
  <1>1. CASE Next
    BY <1>1, MainMonitor, ThreadMonitor DEF Next
  <1>2. CASE UNCHANGED vars
    BY <1>2 DEF vars, lock, handles, history, MonitorInv, PhaseInv, DueInv,
                WaitInv, GoneInv, Active
  <1>3. QED
    BY <1>1, <1>2

-----------------------------------------------------------------------------
(* The requests *)

LEMMA InitEarly == Init => EarlyInv
  BY DEF Init, EarlyInv

LEMMA NextEarly ==
  TypeOK /\ MonitorInv /\ EarlyInv /\ [Next]_vars => EarlyInv'
  <1> SUFFICES ASSUME TypeOK, MonitorInv, EarlyInv, [Next]_vars
               PROVE  EarlyInv'
    OBVIOUS
  <1> USE DEF EarlyInv, Past, BeforeService, lock, handles, history
  <1>1. CASE Startup
    BY <1>1 DEF Startup, StartHttp, InitializeCs, EnterFirst, LeaveFirst,
                CreateMonitor
  <1>2. CASE ServerReturns \/ Shutdown
    BY <1>2 DEF ServerReturns, Shutdown, StopMonitor, WaitForMonitor, DeleteCs,
                Return
  <1>3. CASE MonitorStep \/ Advance
    BY <1>3 DEF MonitorStep, Advance
  <1>4. CASE WorkerStep
    \* No critical section: it is too early or too late.
    <2>1. cs # "live" => main \in BeforeService \cup Past
      BY DEF MonitorInv, PhaseInv, TypeOK
    <2>2. main' = main
      BY <1>4 DEF WorkerStep
    <2>3. ASSUME NEW w \in Workers,
                 Request(w) \/ WorkerEnter(w) \/ WorkerLeave(w)
          PROVE  EarlyInv'
      BY <2>1, <2>2, <2>3
         DEF Request, WorkerEnter, WorkerLeave, TypeOK
    <2>4. QED
      BY <1>4, <2>3 DEF WorkerStep
  <1>5. CASE UNCHANGED vars
    BY <1>5 DEF vars
  <1>6. QED
    BY <1>1, <1>2, <1>3, <1>4, <1>5 DEF Next

-----------------------------------------------------------------------------
LEMMA Inductive == Spec => []IInv
  <1>1. Init => IInv
    BY InitType, InitMonitor, InitEarly DEF IInv
  <1>2. IInv /\ [Next]_vars => IInv'
    BY NextType, NextMonitor, NextEarly DEF IInv
  <1>3. QED
    BY <1>1, <1>2, PTL DEF Spec

\* Every variable of the life cycle stays in its domain.
THEOREM TypeCorrect == Spec => []TypeOK
  <1>1. IInv => TypeOK
    BY DEF IInv
  <1>2. QED
    BY <1>1, Inductive, PTL

\* If two rounds and a sleep fit into the wait of stop_ask_monitor, the monitor
\* thread only runs while gLastAskCs is there.
THEOREM MonitorSafe == Spec => []MonitorWithinLock
  <1>1. IInv => MonitorWithinLock
    BY DEF IInv, MonitorInv, PhaseInv, GoneInv, Margin, Past, BeforeService,
           MonitorWithinLock
  <1>2. QED
    BY <1>1, Inductive, PTL

\* While the OPC UA server runs, only requests of start-up may have been lost.
THEOREM ServiceSafe == Spec => []ServiceLosesNone
  <1>1. IInv => ServiceLosesNone
    BY DEF IInv, EarlyInv, Past, ServiceLosesNone
  <1>2. QED
    BY <1>1, Inductive, PTL
=============================================================================
