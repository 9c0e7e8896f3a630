----------------------------- MODULE AskMonitor -----------------------------
(***************************************************************************)
(* Device supervision in main.cpp and OpcuaDataDeviceStatus: HTTP workers  *)
(* stamp every GET /ask and POST /write in gLastAskTime and mark the       *)
(* device online; MonitorAskThread looks at the stamp once a second and    *)
(* marks the device offline when it is too old.  Both go through           *)
(* SetDeviceOnline, the workers inside the critical section gLastAskCs,    *)
(* the monitor outside it.  A POST may also carry `devicestatus`, stored   *)
(* after the critical section is left.                                     *)
(*                                                                         *)
(* Each access to a variable two threads share is a step.  SetValue of the *)
(* status string is one step here: how it tears is another module's        *)
(* subject.  m_status is "idle" for good: its only SetStatus is in main.   *)
(***************************************************************************)
EXTENDS Integers

CONSTANTS Workers,       \* HTTP worker threads (civetweb num_threads)
          Monitor,       \* the monitor thread
          NoOne,         \* nobody holds the critical section
          Statuses,      \* what a POST reports as devicestatus
          NoStatus,      \* the request carries no devicestatus
          Timeout,       \* seconds of silence (600 in the code)
          MaxTime,       \* bound: the clock stops there
          MaxGap,        \* in time: seconds between two stamps, at most
          MaxStall       \* in time: seconds the monitor is preempted, at most

ASSUME ThreadsAssumption == /\ Monitor \notin Workers
                            /\ NoOne \notin Workers \cup {Monitor}
ASSUME TimesAssumption == /\ Timeout \in Nat
                          /\ MaxTime \in Nat
                          /\ MaxGap \in Nat
                          /\ MaxStall \in Nat
ASSUME StatusAssumption == /\ "Offline" \notin Statuses
                           /\ NoStatus \notin Statuses

VARIABLES now,           \* time(NULL)
          gLastAskTime,
          cs,            \* holder of gLastAskCs
          online,        \* m_lastDeviceIsOnline
          text,          \* the value of S-RunningStatus
          pc,            \* where each thread is
          clock,         \* time a worker has read and not yet stored
          last,          \* the stamp the monitor works with
          wake,          \* when the monitor's Sleep ends
          chosen,        \* the text SetDeviceOnline is about to store
          status         \* devicestatus of each worker's request

\* History: when the monitor read `last`; whether a refresh and an offline
\* decision ever ran at the same time; the device's last report; whether device
\* and monitor have been in time (InTime) at every tick so far.
VARIABLES readAt, overlap, reported, timely

history == <<readAt, overlap, reported>>
time == <<now, timely>>
shared == <<gLastAskTime, cs, online, text>>
locals == <<clock, last, wake, chosen, status>>
vars == <<time, shared, pc, locals, history>>

Threads == Workers \cup {Monitor}
Texts == Statuses \cup {"idle", "Offline"}

StartTime == 1

Init == /\ now = StartTime
        /\ gLastAskTime = StartTime
        /\ cs = NoOne
        /\ online = TRUE
        /\ text = "idle"
        /\ pc = [t \in Threads |-> IF t = Monitor THEN "round" ELSE "free"]
        /\ clock = [w \in Workers |-> StartTime]
        /\ last = StartTime
        /\ wake = StartTime
        /\ chosen = [t \in Threads |-> "idle"]
        /\ status = [w \in Workers |-> NoStatus]
        /\ readAt = StartTime
        /\ overlap = FALSE
        /\ reported = "idle"
        /\ timely = TRUE

-----------------------------------------------------------------------------
\* Where a thread may still change the flag or the text.
Deciding(t, at) == at[t] \in {"check", "flip", "choose", "show", "leave",
                              "report"}

\* Thread t moves on; the history notes when an offline decision meets a
\* request whose refresh has begun.
Goto(t, label) ==
    /\ pc' = [pc EXCEPT ![t] = label]
    /\ overlap' = (overlap \/ /\ Deciding(Monitor, pc')
                              /\ \E w \in Workers : Deciding(w, pc'))

(* The steps of SetDeviceOnline(b), run by thread t, which goes to `exit`  *)
(* afterwards.                                                             *)

\* A change that must be caught: the flag is stored before it is compared.
CheckFlag_StoresFirst(t, b, exit) ==
    /\ pc[t] = "check"
    /\ online' = b
    /\ Goto(t, exit)
    /\ UNCHANGED <<time, gLastAskTime, cs, text, locals, readAt, reported>>

CheckFlag(t, b, exit) ==
    /\ pc[t] = "check"
    /\ Goto(t, IF online = b THEN exit ELSE "flip")
    /\ UNCHANGED <<time, shared, locals, readAt, reported>>

FlipFlag(t, b) ==
    /\ pc[t] = "flip"
    /\ online' = b
    /\ Goto(t, "choose")
    /\ UNCHANGED <<time, gLastAskTime, cs, text, locals, readAt, reported>>

\* A change that must be caught: m_status was never set.
TextFor_Unset(b) == IF b THEN NoStatus ELSE "Offline"

\* `if (!m_lastDeviceIsOnline)`: the flag is an ordinary member, so the build
\* may test what it has just stored or load the flag again.
TextFor(b) == IF b THEN "idle" ELSE "Offline"

ChooseText(t, b) ==
    /\ pc[t] = "choose"
    /\ \E seen \in {b, online} : chosen' = [chosen EXCEPT ![t] = TextFor(seen)]
    /\ Goto(t, "show")
    /\ UNCHANGED <<time, shared, clock, last, wake, status, readAt, reported>>

\* A change that must be caught: the else branch is missing.
ShowText_OfflineOnly(t, exit) ==
    /\ pc[t] = "show"
    /\ text' = IF chosen[t] = "Offline" THEN "Offline" ELSE text
    /\ Goto(t, exit)
    /\ UNCHANGED <<time, gLastAskTime, cs, online, locals, readAt, reported>>

ShowText(t, exit) ==
    /\ pc[t] = "show"
    /\ text' = chosen[t]
    /\ Goto(t, exit)
    /\ UNCHANGED <<time, gLastAskTime, cs, online, locals, readAt, reported>>

SetDeviceOnline(t, b, exit) == \/ CheckFlag(t, b, exit)
                               \/ FlipFlag(t, b)
                               \/ ChooseText(t, b)
                               \/ ShowText(t, exit)

-----------------------------------------------------------------------------
(* MonitorAskThread *)

\* Under the critical section: last = gLastAskTime.
ReadStamp ==
    /\ pc[Monitor] = "round"
    /\ cs = NoOne
    /\ last' = gLastAskTime
    /\ readAt' = now
    /\ Goto(Monitor, "compare")
    /\ UNCHANGED <<time, shared, clock, wake, chosen, status, reported>>

\* A change that must be caught: silence of exactly Timeout is too long.
Compare_AtLeast ==
    /\ pc[Monitor] = "compare"
    /\ Goto(Monitor, IF last # 0 /\ now - last >= Timeout
                     THEN "check" ELSE "rest")
    /\ UNCHANGED <<time, shared, locals, readAt, reported>>

\* now = time(NULL); SetDeviceOnline(false) when last is too old, else Sleep.
Compare ==
    /\ pc[Monitor] = "compare"
    /\ Goto(Monitor, IF last # 0 /\ now - last > Timeout
                     THEN "check" ELSE "rest")
    /\ UNCHANGED <<time, shared, locals, readAt, reported>>

\* Sleep(1000) begins ...
Sleep ==
    /\ pc[Monitor] = "rest"
    /\ wake' = now + 1
    /\ Goto(Monitor, "sleep")
    /\ UNCHANGED <<time, shared, clock, last, chosen, status, readAt, reported>>

\* ... and ends (once the bounded clock has stopped, at any moment).
Wake ==
    /\ pc[Monitor] = "sleep"
    /\ now >= wake \/ now = MaxTime
    /\ Goto(Monitor, "round")
    /\ UNCHANGED <<time, shared, locals, readAt, reported>>

MonitorStep == \/ ReadStamp
               \/ Compare
               \/ SetDeviceOnline(Monitor, FALSE, "rest")
               \/ Sleep
               \/ Wake

-----------------------------------------------------------------------------
(* HTTP worker w: handle_ask (no status) and handle_write's POST. *)

Request(w) ==
    /\ pc[w] = "free"
    /\ \E s \in Statuses \cup {NoStatus} : status' = [status EXCEPT ![w] = s]
    /\ Goto(w, "enter")
    /\ UNCHANGED <<time, shared, clock, last, wake, chosen, readAt, reported>>

\* A change that must be caught: the critical section is not waited for.
Enter_NoLock(w) ==
    /\ pc[w] = "enter"
    /\ cs' = w
    /\ Goto(w, "time")
    /\ UNCHANGED <<time, gLastAskTime, online, text, locals, readAt, reported>>

\* refresh_ask_time enters the critical section ...
Enter(w) ==
    /\ pc[w] = "enter"
    /\ cs = NoOne
    /\ cs' = w
    /\ Goto(w, "time")
    /\ UNCHANGED <<time, gLastAskTime, online, text, locals, readAt, reported>>

\* ... calls time(NULL) ...
TakeTime(w) ==
    /\ pc[w] = "time"
    /\ clock' = [clock EXCEPT ![w] = now]
    /\ Goto(w, "stamp")
    /\ UNCHANGED <<time, shared, last, wake, chosen, status, readAt, reported>>

\* ... stores the stamp, and calls SetDeviceOnline(true).
Stamp(w) ==
    /\ pc[w] = "stamp"
    /\ gLastAskTime' = clock[w]
    /\ Goto(w, "check")
    /\ UNCHANGED <<time, cs, online, text, locals, readAt, reported>>

Leave(w) ==
    /\ pc[w] = "leave"
    /\ cs' = NoOne
    /\ Goto(w, IF status[w] = NoStatus THEN "free" ELSE "report")
    /\ UNCHANGED <<time, gLastAskTime, online, text, locals, readAt, reported>>

\* handle_write stores devicestatus with SetValue, not SetStatus.
Report(w) ==
    /\ pc[w] = "report"
    /\ text' = status[w]
    /\ reported' = status[w]
    /\ Goto(w, "free")
    /\ UNCHANGED <<time, gLastAskTime, cs, online, locals, readAt>>

WorkerStep(w) == \/ Enter(w)
                 \/ TakeTime(w)
                 \/ Stamp(w)
                 \/ SetDeviceOnline(w, TRUE, "leave")
                 \/ Leave(w)
                 \/ Report(w)

-----------------------------------------------------------------------------
\* No two stamps are more than MaxGap apart, and the monitor, once it has read
\* the stamp, compares it within MaxStall.
InTime == /\ now - gLastAskTime < MaxGap
          /\ pc[Monitor] = "compare" => now - readAt < MaxStall

Advance == /\ now < MaxTime
           /\ now' = now + 1
           /\ timely' = (timely /\ InTime)
           /\ UNCHANGED <<shared, pc, locals, history>>

Next == \/ Advance
        \/ MonitorStep
        \/ \E w \in Workers : Request(w) \/ WorkerStep(w)

Spec == Init /\ [][Next]_vars

\* The operating system runs every thread, and time passes.  Weak fairness only:
\* nobody is promised the critical section while others keep taking it.
Fairness == /\ WF_vars(Advance)
            /\ WF_vars(MonitorStep)
            /\ \A w \in Workers : WF_vars(WorkerStep(w))

FairSpec == Spec /\ Fairness

-----------------------------------------------------------------------------
Setting == {"check", "flip", "choose", "show"}   \* inside SetDeviceOnline
MonitorLabels == {"round", "compare", "rest", "sleep"} \cup Setting
WorkerLabels == {"free", "enter", "time", "stamp", "leave", "report"}
                    \cup Setting

TypeOK ==
    /\ now \in Nat
    /\ gLastAskTime \in Nat
    /\ cs \in Workers \cup {NoOne}
    /\ online \in BOOLEAN
    /\ text \in Texts
    /\ pc \in [Threads -> MonitorLabels \cup WorkerLabels]
    /\ pc[Monitor] \in MonitorLabels
    /\ \A w \in Workers : pc[w] \in WorkerLabels
    /\ clock \in [Workers -> Nat]
    /\ last \in Nat
    /\ wake \in Nat
    /\ chosen \in [Threads -> {"idle", "Offline"}]
    /\ status \in [Workers -> Statuses \cup {NoStatus}]
    /\ readAt \in Nat
    /\ overlap \in BOOLEAN
    /\ reported \in Statuses \cup {"idle"}
    /\ timely \in BOOLEAN

\* The stamp never goes back, although several workers read the clock and store
\* it in two steps: the critical section spans both.
StampMonotone == [][gLastAskTime' >= gLastAskTime]_vars

\* A device whose stamps have been at most MaxGap apart was never marked or shown
\* offline, provided MaxGap + MaxStall <= Timeout: the stamp the monitor
\* compares was read up to MaxStall ago and was up to MaxGap old then.
AliveStaysOnline == timely => online /\ text # "Offline"

\* Unless an offline decision has met a request, the flag and the text of
\* S-RunningStatus agree whenever no thread is between storing the one and the
\* other: SetDeviceOnline returns early on the flag, so only then can it be
\* trusted to have shown what it says.
FlagMatchesText ==
    ~overlap /\ (\A t \in Threads : pc[t] \notin {"choose", "show"})
        => (online <=> text # "Offline")

\* Unless an offline decision has met a request, a device that stays silent for
\* more than Timeout is shown Offline, and stays so.
SilenceIsShown ==
    []~overlap /\ <>[](now - gLastAskTime > Timeout)
        => <>[](text = "Offline")

\* main.cpp:102: every access makes sure that the device is marked online.  So
\* a device whose requests keep being answered is not shown Offline for good.
AskingIsShown ==
    []<>(\E w \in Workers : pc[w] = "leave") => []<>(text # "Offline")

\* doc/forcon_opcua.md:20: S-RunningStatus is the current state of the device.
\* So while the device is online and nothing is going on, it shows the device's
\* last report (overlapping decisions, which AskingIsShown is about, left out).
ShowsReport ==
    (/\ ~overlap /\ online
     /\ \A w \in Workers : pc[w] = "free"
     /\ pc[Monitor] = "sleep")
        => text = reported
=============================================================================
