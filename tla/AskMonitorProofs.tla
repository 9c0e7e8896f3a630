-------------------------- MODULE AskMonitorProofs --------------------------
(***************************************************************************)
(* Proofs about AskMonitor for any set of workers, any statuses and any    *)
(* times: types, the critical section and what it protects, the margin     *)
(* that keeps a live device online, and when the flag can be trusted.      *)
(***************************************************************************)
EXTENDS AskMonitor, TLAPS

\* A worker about to store devicestatus has one to store.
TypeInv == TypeOK /\ \A w \in Workers : pc[w] = "report" => status[w] \in Statuses

\* Where a worker is inside the critical section.
Critical == {"time", "stamp", "leave"} \cup Setting

LockInv == \A w \in Workers : pc[w] \in Critical => cs = w

\* The stamp and what a worker is about to store are times of the past.
ClockInv ==
    /\ gLastAskTime <= now
    /\ \A w \in Workers :
          pc[w] = "stamp" => gLastAskTime <= clock[w] /\ clock[w] <= now

IInv == TypeInv /\ LockInv /\ ClockInv

-----------------------------------------------------------------------------
(* What a step of SetDeviceOnline leaves alone, whoever runs it. *)

LEMMA SetFrame ==
  ASSUME NEW t \in Threads, NEW b \in BOOLEAN, NEW exit,
         SetDeviceOnline(t, b, exit)
  PROVE  /\ UNCHANGED <<now, timely, gLastAskTime, cs, clock, last, wake, status,
                        readAt, reported>>
         /\ pc[t] \in Setting
         /\ \E label \in Setting \cup {exit} : Goto(t, label)
  BY DEF SetDeviceOnline, CheckFlag, FlipFlag, ChooseText, ShowText, Setting,
         time, shared, locals

-----------------------------------------------------------------------------
(* Types *)

LEMMA InitType == Init => TypeInv
  <1> SUFFICES ASSUME Init
               PROVE  TypeInv
    OBVIOUS
  <1>1. pc[Monitor] = "round" /\ \A w \in Workers : pc[w] = "free"
    BY ThreadsAssumption DEF Init, Threads
  <1>2. pc \in [Threads -> MonitorLabels \cup WorkerLabels]
    BY DEF Init, MonitorLabels, WorkerLabels
  <1>3. pc[Monitor] \in MonitorLabels /\ \A w \in Workers : pc[w] \in WorkerLabels
    BY <1>1 DEF MonitorLabels, WorkerLabels
  <1>4. QED
    BY <1>1, <1>2, <1>3 DEF Init, TypeInv, TypeOK, StartTime, Texts

LEMMA AdvanceType == TypeInv /\ Advance => TypeInv'
  BY DEF TypeInv, TypeOK, Advance, time, shared, locals, history

LEMMA SetType ==
  ASSUME TypeInv, NEW t \in Threads, NEW b \in BOOLEAN, NEW exit,
         t = Monitor => exit = "rest",
         t \in Workers => exit = "leave",
         SetDeviceOnline(t, b, exit)
  PROVE  TypeInv'
  <1> USE ThreadsAssumption
      DEF TypeInv, TypeOK, Threads, MonitorLabels, WorkerLabels, Setting,
          Texts, Goto, time, shared, locals
  <1>1. CASE CheckFlag(t, b, exit)
    BY <1>1 DEF CheckFlag
  <1>2. CASE FlipFlag(t, b)
    BY <1>2 DEF FlipFlag
  <1>3. CASE ChooseText(t, b)
    BY <1>3 DEF ChooseText, TextFor
  <1>4. CASE ShowText(t, exit)
    BY <1>4 DEF ShowText
  <1>5. QED
    BY <1>1, <1>2, <1>3, <1>4 DEF SetDeviceOnline

LEMMA MonitorType == ASSUME TypeInv, MonitorStep
                     PROVE  TypeInv'
  <1> USE ThreadsAssumption
      DEF TypeInv, TypeOK, Threads, MonitorLabels, WorkerLabels, Setting,
          Goto, time, shared, locals
  <1>1. CASE ReadStamp
    BY <1>1 DEF ReadStamp
  <1>2. CASE Compare
    BY <1>2 DEF Compare
  <1>3. CASE SetDeviceOnline(Monitor, FALSE, "rest")
    <2>1. Monitor \in Threads /\ Monitor \notin Workers
      OBVIOUS
    <2>2. QED
      BY <1>3, <2>1, SetType
  <1>4. CASE Sleep
    BY <1>4 DEF Sleep
  <1>5. CASE Wake
    BY <1>5 DEF Wake
  <1>6. QED
    BY <1>1, <1>2, <1>3, <1>4, <1>5 DEF MonitorStep

LEMMA WorkerType == ASSUME TypeInv, NEW w \in Workers, Request(w) \/ WorkerStep(w)
                    PROVE  TypeInv'
  <1> USE ThreadsAssumption
      DEF TypeInv, TypeOK, Threads, MonitorLabels, WorkerLabels, Setting,
          Goto, time, shared, locals
  <1>1. CASE Request(w)
    BY <1>1 DEF Request
  <1>2. CASE Enter(w)
    BY <1>2 DEF Enter
  <1>3. CASE TakeTime(w)
    BY <1>3 DEF TakeTime
  <1>4. CASE Stamp(w)
    BY <1>4 DEF Stamp
  <1>5. CASE SetDeviceOnline(w, TRUE, "leave")
    <2>1. w \in Threads /\ w # Monitor
      OBVIOUS
    <2>2. QED
      BY <1>5, <2>1, SetType
  <1>6. CASE Leave(w)
    BY <1>6 DEF Leave
  <1>7. CASE Report(w)
    BY <1>7 DEF Report, Texts
  <1>8. QED
    BY <1>1, <1>2, <1>3, <1>4, <1>5, <1>6, <1>7 DEF WorkerStep

-----------------------------------------------------------------------------
(* The critical section and the clock *)

LEMMA MonitorLock == ASSUME IInv, MonitorStep
                     PROVE  LockInv' /\ ClockInv' /\ gLastAskTime' = gLastAskTime
  <1>1. UNCHANGED <<now, gLastAskTime, cs, clock>>
    <2>1. CASE SetDeviceOnline(Monitor, FALSE, "rest")
      BY <2>1, SetFrame DEF Threads
    <2>2. QED
      BY <2>1 DEF MonitorStep, ReadStamp, Compare, Sleep, Wake, time, shared, locals
  <1>2. PICK label : Goto(Monitor, label)
    <2>1. CASE SetDeviceOnline(Monitor, FALSE, "rest")
      BY <2>1, SetFrame DEF Threads
    <2>2. QED
      BY <2>1 DEF MonitorStep, ReadStamp, Compare, Sleep, Wake
  <1>3. \A w \in Workers : pc'[w] = pc[w]
    BY <1>2, ThreadsAssumption DEF Goto, IInv, TypeInv, TypeOK, Threads
  <1>4. QED
    BY <1>1, <1>3 DEF IInv, LockInv, ClockInv

LEMMA WorkerLock == ASSUME IInv, NEW w \in Workers, Request(w) \/ WorkerStep(w)
                    PROVE  LockInv' /\ ClockInv' /\ gLastAskTime' >= gLastAskTime
  <1> USE ThreadsAssumption
      DEF IInv, TypeInv, TypeOK, LockInv, ClockInv, Critical, Setting, Goto,
          Threads, time, shared, locals
  <1>1. CASE Request(w)
    BY <1>1 DEF Request
  <1>2. CASE Enter(w)
    BY <1>2 DEF Enter
  <1>3. CASE TakeTime(w)
    BY <1>3 DEF TakeTime
  <1>4. CASE Stamp(w)
    BY <1>4 DEF Stamp
  <1>5. CASE SetDeviceOnline(w, TRUE, "leave")
    <2>1. PICK label \in Setting \cup {"leave"} : Goto(w, label)
      BY <1>5, SetFrame
    <2>2. UNCHANGED <<now, gLastAskTime, cs, clock>> /\ pc[w] \in Setting
      BY <1>5, SetFrame
    <2>3. QED
      BY <2>1, <2>2
  <1>6. CASE Leave(w)
    BY <1>6 DEF Leave
  <1>7. CASE Report(w)
    BY <1>7 DEF Report
  <1>8. QED
    BY <1>1, <1>2, <1>3, <1>4, <1>5, <1>6, <1>7 DEF WorkerStep

LEMMA InitIInv == Init => IInv
  <1>1. Init => LockInv /\ ClockInv
    BY ThreadsAssumption
       DEF Init, LockInv, ClockInv, Critical, Setting, StartTime, Threads
  <1>2. QED
    BY <1>1, InitType DEF IInv

LEMMA StepIInv == ASSUME IInv, [Next]_vars
                  PROVE  IInv' /\ gLastAskTime' >= gLastAskTime
  <1> USE DEF IInv
  <1>1. CASE Advance
    BY <1>1, AdvanceType
       DEF Advance, LockInv, ClockInv, TypeInv, TypeOK, time, shared, locals
  <1>2. CASE MonitorStep
    BY <1>2, MonitorType, MonitorLock DEF TypeInv, TypeOK
  <1>3. ASSUME NEW w \in Workers, Request(w) \/ WorkerStep(w)
        PROVE  IInv' /\ gLastAskTime' >= gLastAskTime
    BY <1>3, WorkerType, WorkerLock
  <1>4. CASE UNCHANGED vars
    BY <1>4 DEF vars, time, shared, locals, history, TypeInv, TypeOK, LockInv,
                ClockInv
  <1>5. QED
    BY <1>1, <1>2, <1>3, <1>4 DEF Next

LEMMA Inductive == Spec => []IInv
  <1>1. IInv /\ [Next]_vars => IInv'
    BY StepIInv
  <1>2. QED
    BY InitIInv, <1>1, PTL DEF Spec

\* Every variable stays in its domain; in particular S-RunningStatus shows a
\* reported status, "idle" or "Offline".
THEOREM TypeCorrect == Spec => []TypeOK
  <1>1. IInv => TypeOK
    BY DEF IInv, TypeInv
  <1>2. QED
    BY Inductive, <1>1, PTL

\* The critical section keeps the stamp from going back.
THEOREM Monotone == Spec => StampMonotone
  <1>1. IInv /\ [Next]_vars => [gLastAskTime' >= gLastAskTime]_vars
    BY StepIInv
  <1>2. QED
    BY Inductive, <1>1, PTL DEF Spec, StampMonotone

-----------------------------------------------------------------------------
(* The margin.  In time, a stamp is never older than MaxGap and reaches the  *)
(* comparison at most MaxStall later.                                        *)

Margin == MaxGap + MaxStall <= Timeout

MarginInv ==
    /\ now - gLastAskTime <= MaxGap
    /\ pc[Monitor] = "compare" => /\ readAt - last <= MaxGap
                                  /\ now - readAt <= MaxStall

\* So the monitor never enters SetDeviceOnline, and the workers always leave it
\* at the first test.
AliveInv ==
    /\ online /\ text # "Offline"
    /\ pc[Monitor] \notin Setting
    /\ \A w \in Workers : pc[w] \notin {"flip", "choose", "show"}

LEMMA MonitorAlive ==
  ASSUME Margin, IInv, MarginInv, AliveInv, MonitorStep
  PROVE  MarginInv' /\ AliveInv'
  <1> USE ThreadsAssumption, TimesAssumption
      DEF IInv, TypeInv, TypeOK, MarginInv, AliveInv, Margin,
          Setting, Threads, Goto, time, shared, locals
  <1>1. CASE ReadStamp
    BY <1>1 DEF ReadStamp
  <1>2. CASE Compare
    <2>1. now - last <= Timeout
      BY <1>2 DEF Compare
    <2>2. QED
      BY <1>2, <2>1 DEF Compare
  <1>3. ~SetDeviceOnline(Monitor, FALSE, "rest")
    BY SetFrame
  <1>4. CASE Sleep
    BY <1>4 DEF Sleep
  <1>5. CASE Wake
    BY <1>5 DEF Wake
  <1>6. QED
    BY <1>1, <1>2, <1>3, <1>4, <1>5 DEF MonitorStep

LEMMA WorkerAlive ==
  ASSUME IInv, MarginInv, AliveInv, NEW w \in Workers, Request(w) \/ WorkerStep(w)
  PROVE  MarginInv' /\ AliveInv'
  <1> USE ThreadsAssumption, TimesAssumption
      DEF IInv, TypeInv, TypeOK, MarginInv, AliveInv, Setting, Threads, Goto,
          time, shared, locals
  <1>1. CASE Request(w)
    BY <1>1 DEF Request
  <1>2. CASE Enter(w)
    BY <1>2 DEF Enter
  <1>3. CASE TakeTime(w)
    BY <1>3 DEF TakeTime
  <1>4. CASE Stamp(w)
    BY <1>4 DEF Stamp, ClockInv
  <1>5. CASE SetDeviceOnline(w, TRUE, "leave")
    BY <1>5 DEF SetDeviceOnline, CheckFlag, FlipFlag, ChooseText, ShowText
  <1>6. CASE Leave(w)
    BY <1>6 DEF Leave
  <1>7. CASE Report(w)
    BY <1>7, StatusAssumption DEF Report
  <1>8. QED
    BY <1>1, <1>2, <1>3, <1>4, <1>5, <1>6, <1>7 DEF WorkerStep

LEMMA OnlyTicks ==
  ASSUME MonitorStep \/ \E w \in Workers : Request(w) \/ WorkerStep(w)
  PROVE  timely' = timely
  <1>1. ASSUME NEW t \in Threads, NEW b \in BOOLEAN, NEW exit,
               SetDeviceOnline(t, b, exit)
        PROVE  timely' = timely
    BY <1>1, SetFrame
  <1>2. CASE MonitorStep
    BY <1>1, <1>2
       DEF MonitorStep, ReadStamp, Compare, Sleep, Wake, time, Threads
  <1>3. ASSUME NEW w \in Workers, Request(w) \/ WorkerStep(w)
        PROVE  timely' = timely
    BY <1>1, <1>3
       DEF WorkerStep, Request, Enter, TakeTime, Stamp, Leave, Report, time,
           Threads
  <1>4. QED
    BY <1>2, <1>3

\* A device whose requests have been stamped at most MaxGap apart was never
\* marked or shown offline, whatever the number of workers, as long as the
\* monitor needed at most MaxStall from the read of the stamp to the comparison
\* and the two together do not exceed Timeout.
THEOREM Alive == ASSUME Margin
                 PROVE  Spec => []AliveStaysOnline
  <1> DEFINE AInv == IInv /\ (timely => MarginInv /\ AliveInv)
  <1>1. Init => AInv
    <2>1. Init => MarginInv /\ AliveInv
      BY ThreadsAssumption, TimesAssumption
         DEF Init, MarginInv, AliveInv, Setting, StartTime, Threads
    <2>2. QED
      BY <2>1, InitIInv
  <1>2. AInv /\ [Next]_vars => AInv'
    <2> SUFFICES ASSUME IInv, timely => MarginInv /\ AliveInv, [Next]_vars,
                        timely'
                 PROVE  MarginInv' /\ AliveInv'
      BY StepIInv
    <2>1. CASE Advance
      <3>1. MarginInv /\ AliveInv /\ InTime
        BY <2>1 DEF Advance
      <3>2. QED
        BY <2>1, <3>1, TimesAssumption
           DEF Advance, InTime, IInv, TypeInv, TypeOK, MarginInv, AliveInv,
               shared, locals, history
    <2>2. CASE MonitorStep
      BY <2>2, OnlyTicks, MonitorAlive
    <2>3. ASSUME NEW w \in Workers, Request(w) \/ WorkerStep(w)
          PROVE  MarginInv' /\ AliveInv'
      BY <2>3, OnlyTicks, WorkerAlive
    <2>4. CASE UNCHANGED vars
      BY <2>4 DEF vars, time, shared, locals, history, MarginInv, AliveInv
    <2>5. QED
      BY <2>1, <2>2, <2>3, <2>4 DEF Next
  <1>3. AInv => AliveStaysOnline
    BY DEF AliveInv, AliveStaysOnline
  <1>4. QED
    BY <1>1, <1>2, <1>3, PTL DEF Spec

-----------------------------------------------------------------------------
(* The flag and the text.  As long as no offline decision has met a request, *)
(* at most one thread is inside SetDeviceOnline or about to report, and what *)
(* the flag and the text are at each of its steps is known.                  *)

Apart == \A w \in Workers : ~(Deciding(Monitor, pc) /\ Deciding(w, pc))

StageInv ==
    /\ \A t \in Threads : pc[t] = "show" => chosen[t] = TextFor(online)
    /\ pc[Monitor] = "flip" => online
    /\ pc[Monitor] \in {"choose", "show"} => ~online
    /\ \A w \in Workers :
          /\ pc[w] = "flip" => ~online
          /\ pc[w] \in {"choose", "show", "leave", "report"} => online

FlagInv == ~overlap => Apart /\ StageInv /\ FlagMatchesText

\* A step that only moves thread t and stores neither flag, text nor choice.
LEMMA QuietFlag ==
  ASSUME IInv, FlagInv, ~overlap',
         NEW t \in Threads, NEW label, Goto(t, label),
         UNCHANGED <<online, text, chosen>>,
         label \notin {"choose", "show"}, pc[t] \notin {"choose", "show"},
         label = "flip" => (t = Monitor <=> online),
         t \in Workers /\ label \in {"leave", "report"} => online
  PROVE  FlagInv'
  <1> USE ThreadsAssumption
      DEF IInv, TypeInv, TypeOK, FlagInv, Apart, StageInv, FlagMatchesText,
          Goto, Threads
  <1>1. ~overlap
    OBVIOUS
  <1>2. Apart'
    BY DEF Deciding
  <1>3. StageInv'
    BY <1>1
  <1>4. FlagMatchesText'
    BY <1>1
  <1>5. QED
    BY <1>2, <1>3, <1>4

LEMMA SetFlag ==
  ASSUME IInv, FlagInv, ~overlap',
         NEW t \in Threads, NEW b \in BOOLEAN, NEW exit,
         t = Monitor => exit = "rest" /\ ~b,
         t \in Workers => exit = "leave" /\ b,
         SetDeviceOnline(t, b, exit)
  PROVE  FlagInv'
  <1> USE ThreadsAssumption
      DEF Threads
  <1>1. ~overlap
    BY DEF SetDeviceOnline, CheckFlag, FlipFlag, ChooseText, ShowText, Goto
  <1>2. \A u \in Threads \ {t} : ~(pc[u] \in Setting \cup {"leave", "report"}
                                    /\ (u = Monitor \/ t = Monitor))
    BY <1>1, SetFrame DEF FlagInv, Apart, Deciding, Setting
  <1>3. \A u \in Threads \ {t} : pc[u] \notin Setting
    BY <1>1, <1>2, SetFrame DEF IInv, LockInv, Critical, Setting
  <1>4. Apart'
    BY <1>1 DEF SetDeviceOnline, CheckFlag, FlipFlag, ChooseText, ShowText,
                Goto, Apart, Deciding
  <1> USE DEF IInv, TypeInv, TypeOK, FlagInv, StageInv, FlagMatchesText, Goto,
              Setting, time, shared, locals
  <1>5. CASE CheckFlag(t, b, exit)
    BY <1>1, <1>3, <1>4, <1>5 DEF CheckFlag
  <1>6. CASE FlipFlag(t, b)
    BY <1>1, <1>2, <1>3, <1>4, <1>6 DEF FlipFlag
  <1>7. CASE ChooseText(t, b)
    BY <1>1, <1>3, <1>4, <1>7 DEF ChooseText, TextFor
  <1>8. CASE ShowText(t, exit)
    BY <1>1, <1>3, <1>4, <1>8 DEF ShowText, TextFor
  <1>9. QED
    BY <1>5, <1>6, <1>7, <1>8 DEF SetDeviceOnline

LEMMA MonitorFlag == ASSUME IInv, FlagInv, ~overlap', MonitorStep
                     PROVE  FlagInv'
  <1>1. Monitor \in Threads /\ Monitor \notin Workers
    BY ThreadsAssumption DEF Threads
  <1>2. CASE ReadStamp
    BY <1>1, <1>2, QuietFlag DEF ReadStamp, shared
  <1>3. CASE Compare
    <2>1. PICK label \in {"check", "rest"} : Goto(Monitor, label)
      BY <1>3 DEF Compare
    <2>2. QED
      BY <1>1, <1>3, <2>1, QuietFlag DEF Compare, time, shared, locals
  <1>4. CASE SetDeviceOnline(Monitor, FALSE, "rest")
    BY <1>1, <1>4, SetFlag
  <1>5. CASE Sleep
    BY <1>1, <1>5, QuietFlag DEF Sleep, shared
  <1>6. CASE Wake
    BY <1>1, <1>6, QuietFlag DEF Wake, time, shared, locals
  <1>7. QED
    BY <1>2, <1>3, <1>4, <1>5, <1>6 DEF MonitorStep

LEMMA WorkerFlag ==
  ASSUME IInv, FlagInv, ~overlap', NEW w \in Workers, Request(w) \/ WorkerStep(w)
  PROVE  FlagInv'
  <1>1. w \in Threads /\ w # Monitor
    BY ThreadsAssumption DEF Threads
  <1>2. CASE Request(w)
    BY <1>1, <1>2, QuietFlag DEF Request, shared
  <1>3. CASE Enter(w)
    BY <1>1, <1>3, QuietFlag DEF Enter, locals
  <1>4. CASE TakeTime(w)
    BY <1>1, <1>4, QuietFlag DEF TakeTime, shared
  <1>5. CASE Stamp(w)
    BY <1>1, <1>5, QuietFlag DEF Stamp, locals
  <1>6. CASE SetDeviceOnline(w, TRUE, "leave")
    BY <1>1, <1>6, SetFlag
  <1>7. CASE Leave(w)
    <2>1. ~overlap /\ online
      BY <1>7 DEF Leave, Goto, FlagInv, StageInv
    <2>2. PICK label \in {"free", "report"} : Goto(w, label)
      BY <1>7 DEF Leave
    <2>3. QED
      BY <1>1, <1>7, <2>1, <2>2, QuietFlag DEF Leave, locals
  <1>8. CASE Report(w)
    <2>1. ~overlap /\ online
      BY <1>8 DEF Report, Goto, FlagInv, StageInv
    <2>2. text' # "Offline"
      BY <1>8, StatusAssumption DEF Report, IInv, TypeInv
    <2>3. \A t \in Threads \ {w} : pc'[t] = pc[t]
      BY <1>8 DEF Report, Goto, IInv, TypeInv, TypeOK
    <2>4. pc'[w] = "free"
      BY <1>1, <1>8 DEF Report, Goto, IInv, TypeInv, TypeOK
    <2>5. Apart' /\ StageInv'
      BY <1>1, <1>8, <2>1, <2>3, <2>4
         DEF Report, FlagInv, Apart, StageInv, Deciding, Threads, locals
    <2>6. FlagMatchesText'
      BY <1>8, <2>1, <2>2 DEF FlagMatchesText, Report
    <2>7. QED
      BY <2>5, <2>6 DEF FlagInv
  <1>9. QED
    BY <1>2, <1>3, <1>4, <1>5, <1>6, <1>7, <1>8 DEF WorkerStep

\* Unless an offline decision has met a request, the flag tells what the node
\* shows; with the early return on the flag, no update is then ever skipped.
THEOREM FlagTrusted == Spec => []FlagMatchesText
  <1>1. Init => FlagInv
    BY ThreadsAssumption
       DEF Init, FlagInv, Apart, StageInv, FlagMatchesText, Deciding, Threads
  <1>2. IInv /\ FlagInv /\ [Next]_vars => FlagInv'
    <2> SUFFICES ASSUME IInv, FlagInv, [Next]_vars, ~overlap'
                 PROVE  FlagInv'
      BY DEF FlagInv
    <2>1. CASE Advance
      BY <2>1 DEF Advance, time, shared, locals, history, FlagInv, Apart, StageInv,
                  FlagMatchesText, Deciding
    <2>2. CASE MonitorStep
      BY <2>2, MonitorFlag
    <2>3. ASSUME NEW w \in Workers, Request(w) \/ WorkerStep(w)
          PROVE  FlagInv'
      BY <2>3, WorkerFlag
    <2>4. CASE UNCHANGED vars
      BY <2>4 DEF vars, time, shared, locals, history, FlagInv, Apart, StageInv,
                  FlagMatchesText, Deciding
    <2>5. QED
      BY <2>1, <2>2, <2>3, <2>4 DEF Next
  <1>3. FlagInv => FlagMatchesText
    BY DEF FlagInv, FlagMatchesText
  <1>4. QED
    BY Inductive, <1>1, <1>2, <1>3, PTL DEF Spec
=============================================================================
