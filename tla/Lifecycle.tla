----------------------------- MODULE Lifecycle -----------------------------
(***************************************************************************)
(* Start and end of the process.  main starts the HTTP server, whose       *)
(* handlers use the critical section gLastAskCs; only then does            *)
(* start_ask_monitor initialise it and create the monitor thread, which    *)
(* uses it once a round.  When the OPC UA server returns, stop_ask_monitor *)
(* tells the monitor to end, waits for it for five seconds at most, and    *)
(* deletes the critical section.  Nothing stops the HTTP server: its       *)
(* threads die with the process.                                           *)
(*                                                                         *)
(* What is computed inside the critical section belongs to AskMonitor.     *)
(* Here it only matters who touches it, and when: a thread that enters or  *)
(* leaves a critical section that is not there is "lost" (it hangs, or     *)
(* brings the process down, which ends the behaviour earlier).             *)
(***************************************************************************)
EXTENDS Integers

CONSTANTS Workers,       \* HTTP worker threads
          NoOne,         \* nobody holds the critical section
          Main,          \* main, as its holder
          Monitor,       \* the monitor thread, as its holder
          Nap,           \* Sleep(1000), in seconds
          WaitLimit,     \* the 5000 ms of WaitForSingleObject, in seconds
          MaxStall,      \* seconds a round of the monitor takes, if not late
          LastStop,      \* bound: main begins to stop, if at all, until then
          MaxTime        \* bound: the clock stops there

ASSUME ThreadsAssumption == /\ Main # Monitor
                            /\ {Main, Monitor, NoOne} \cap Workers = {}
                            /\ NoOne \notin {Main, Monitor}
ASSUME TimesAssumption == /\ Nap \in Nat
                          /\ WaitLimit \in Nat
                          /\ MaxStall \in Nat
                          /\ LastStop \in Nat
                          /\ MaxTime \in Nat
ASSUME BoundsAssumption == LastStop + WaitLimit <= MaxTime

VARIABLES now,           \* the clock
          main,          \* what main does next
          http,          \* whether the handlers are registered
          cs,            \* gLastAskCs: not initialised, live, or deleted
          holder,        \* who is inside it
          gMonitorRunning,
          gMonitorThread,  \* whether the handle is not NULL
          since,         \* when main began to wait for the thread
          monitor,       \* where the monitor thread is
          due,           \* when its round (or its last test) should be over
          worker         \* where each HTTP worker is

\* History: whether a round of the monitor ever took longer than MaxStall; the
\* workers whose request came before start_ask_monitor was done.
VARIABLES late, early

history == <<late, early>>
lock == <<cs, holder>>
handles == <<gMonitorRunning, gMonitorThread, since>>
vars == <<now, main, http, lock, handles, monitor, due, worker, history>>

Init == /\ now = 0
        /\ main = "http"
        /\ http = FALSE
        /\ cs = "raw"
        /\ holder = NoOne
        /\ gMonitorRunning = TRUE
        /\ gMonitorThread = FALSE
        /\ since = 0
        /\ monitor = "none"
        /\ due = 0
        /\ worker = [w \in Workers |-> "free"]
        /\ late = FALSE
        /\ early = {}

\* When main returns, every other thread dies.
Alive == main # "exit"

-----------------------------------------------------------------------------
(* main, until the OPC UA server runs *)

\* mg_start may fail; the handlers are then not registered, and main goes on.
StartHttp ==
    /\ main = "http"
    /\ http' \in BOOLEAN
    /\ main' = "initialize"
    /\ UNCHANGED <<now, lock, handles, monitor, due, worker, history>>

InitializeCs ==
    /\ main = "initialize"
    /\ cs' = "live"
    /\ main' = "enter"
    /\ UNCHANGED <<now, http, holder, handles, monitor, due, worker, history>>

\* The first stamp, under the critical section.
EnterFirst ==
    /\ main = "enter"
    /\ holder = NoOne
    /\ holder' = Main
    /\ main' = "leave"
    /\ UNCHANGED <<now, http, cs, handles, monitor, due, worker, history>>

LeaveFirst ==
    /\ main = "leave"
    /\ holder' = NoOne
    /\ main' = "create"
    /\ UNCHANGED <<now, http, cs, handles, monitor, due, worker, history>>

\* A change that must be caught: a failure is cleaned up after, but not reported.
CreateMonitor_CleansUp ==
    /\ main = "create"
    /\ gMonitorRunning' = TRUE
    /\ \/ /\ gMonitorThread' = TRUE
          /\ monitor' = "test"
          /\ due' = now + MaxStall
          /\ UNCHANGED cs
       \/ /\ cs' = "deleted"
          /\ UNCHANGED <<gMonitorThread, monitor, due>>
    /\ main' = "serve"
    /\ UNCHANGED <<now, http, holder, since, worker, history>>

\* CreateThread may fail; main goes on.
CreateMonitor ==
    /\ main = "create"
    /\ gMonitorRunning' = TRUE
    /\ \/ /\ gMonitorThread' = TRUE
          /\ monitor' = "test"
          /\ due' = now + MaxStall
       \/ UNCHANGED <<gMonitorThread, monitor, due>>
    /\ main' = "serve"
    /\ UNCHANGED <<now, http, lock, since, worker, history>>

Startup == StartHttp \/ InitializeCs \/ EnterFirst \/ LeaveFirst \/ CreateMonitor

\* UA_Server_runUntilInterrupt returns: interrupted, or it could not start.
ServerReturns ==
    /\ main = "serve"
    /\ now <= LastStop
    /\ main' = "stop"
    /\ UNCHANGED <<now, http, lock, handles, monitor, due, worker, history>>

-----------------------------------------------------------------------------
(* stop_ask_monitor, and the end of main *)

\* A change that must be caught: the monitor is not told to end.
StopMonitor_Untold ==
    /\ main = "stop"
    /\ IF gMonitorThread
       THEN /\ since' = now
            /\ main' = "wait"
       ELSE /\ main' = "delete"
            /\ UNCHANGED since
    /\ UNCHANGED <<now, http, lock, gMonitorRunning, gMonitorThread, monitor,
                   due, worker, history>>

StopMonitor ==
    /\ main = "stop"
    /\ IF gMonitorThread
       THEN /\ gMonitorRunning' = FALSE
            /\ since' = now
            /\ main' = "wait"
       ELSE /\ main' = "delete"
            /\ UNCHANGED <<gMonitorRunning, since>>
    /\ UNCHANGED <<now, http, lock, gMonitorThread, monitor, due, worker, history>>

\* A change that must be caught: the wait has no limit.
WaitForMonitor_Forever ==
    /\ main = "wait"
    /\ monitor = "ended"
    /\ gMonitorThread' = FALSE
    /\ main' = "delete"
    /\ UNCHANGED <<now, http, lock, gMonitorRunning, since, monitor, due, worker,
                   history>>

\* The wait is over when the thread has ended or after WaitLimit; the result is
\* not looked at.  CloseHandle does not end the thread.
WaitForMonitor ==
    /\ main = "wait"
    /\ monitor = "ended" \/ now >= since + WaitLimit
    /\ gMonitorThread' = FALSE
    /\ main' = "delete"
    /\ UNCHANGED <<now, http, lock, gMonitorRunning, since, monitor, due, worker,
                   history>>

DeleteCs ==
    /\ main = "delete"
    /\ cs' = "deleted"
    /\ main' = "free"
    /\ UNCHANGED <<now, http, holder, handles, monitor, due, worker, history>>

\* UA_Server_delete, and the return from main.
Return ==
    /\ main = "free"
    /\ main' = "exit"
    /\ UNCHANGED <<now, http, lock, handles, monitor, due, worker, history>>

Shutdown == StopMonitor \/ WaitForMonitor \/ DeleteCs \/ Return

-----------------------------------------------------------------------------
(* MonitorAskThread *)

MonitorTest ==
    /\ monitor = "test"
    /\ monitor' = IF gMonitorRunning THEN "enter" ELSE "ended"
    /\ UNCHANGED <<lock, due>>

MonitorEnter ==
    /\ monitor = "enter"
    /\ \/ /\ cs = "live"
          /\ holder = NoOne
          /\ holder' = Monitor
          /\ monitor' = "leave"
       \/ /\ cs # "live"
          /\ monitor' = "lost"
          /\ UNCHANGED holder
    /\ UNCHANGED <<cs, due>>

MonitorLeave ==
    /\ monitor = "leave"
    /\ holder' = NoOne
    /\ monitor' = IF cs = "live" THEN "decide" ELSE "lost"
    /\ UNCHANGED <<cs, due>>

\* A change that must be caught: the clock is taken for the time that is left.
NextDue_Elapsed == MaxStall - now

\* The Sleep that begins now and the round after it should be over then.
NextDue == now + Nap + MaxStall

\* The decision (AskMonitor's subject) is made, and Sleep begins ...
MonitorSleep ==
    /\ monitor = "decide"
    /\ monitor' = "sleep"
    /\ due' = NextDue
    /\ UNCHANGED lock

\* ... and ends, not before its time.
MonitorWake ==
    /\ monitor = "sleep"
    /\ now + MaxStall >= due
    /\ monitor' = "test"
    /\ UNCHANGED <<lock, due>>

MonitorStep ==
    /\ Alive
    /\ \/ MonitorTest
       \/ MonitorEnter
       \/ MonitorLeave
       \/ MonitorSleep
       \/ MonitorWake
    /\ UNCHANGED <<now, main, http, handles, worker, history>>

-----------------------------------------------------------------------------
(* HTTP workers: what /ask and POST /write do to the critical section. *)

BeforeService == {"http", "initialize", "enter", "leave", "create"}

Request(w) ==
    /\ http
    /\ worker[w] = "free"
    /\ worker' = [worker EXCEPT ![w] = "enter"]
    /\ early' = IF main \in BeforeService THEN early \cup {w} ELSE early \ {w}
    /\ UNCHANGED <<lock, late>>

WorkerEnter(w) ==
    /\ worker[w] = "enter"
    /\ \/ /\ cs = "live"
          /\ holder = NoOne
          /\ holder' = w
          /\ worker' = [worker EXCEPT ![w] = "leave"]
       \/ /\ cs # "live"
          /\ worker' = [worker EXCEPT ![w] = "lost"]
          /\ UNCHANGED holder
    /\ UNCHANGED <<cs, history>>

WorkerLeave(w) ==
    /\ worker[w] = "leave"
    /\ holder' = NoOne
    /\ worker' = [worker EXCEPT ![w] = IF cs = "live" THEN "free" ELSE "lost"]
    /\ UNCHANGED <<cs, history>>

WorkerStep ==
    /\ Alive
    /\ \E w \in Workers : Request(w) \/ WorkerEnter(w) \/ WorkerLeave(w)
    /\ UNCHANGED <<now, main, http, handles, monitor, due>>

-----------------------------------------------------------------------------
Active == monitor \in {"test", "enter", "leave", "decide", "sleep"}

Advance ==
    /\ Alive
    /\ now < (IF main = "stop" THEN LastStop ELSE MaxTime)
    /\ now' = now + 1
    /\ late' = (late \/ (Active /\ now >= due))
    /\ UNCHANGED <<main, http, lock, handles, monitor, due, worker, early>>

Next == \/ Startup
        \/ ServerReturns
        \/ Shutdown
        \/ MonitorStep
        \/ WorkerStep
        \/ Advance

Spec == Init /\ [][Next]_vars

\* main is run, and time passes.  The monitor and the workers are promised
\* nothing, and nobody has to stop the program.
FairSpec == Spec /\ WF_vars(Shutdown) /\ WF_vars(Advance)

-----------------------------------------------------------------------------
TypeOK ==
    /\ now \in Nat
    /\ main \in BeforeService \cup {"serve", "stop", "wait", "delete", "free",
                                    "exit"}
    /\ http \in BOOLEAN
    /\ cs \in {"raw", "live", "deleted"}
    /\ holder \in Workers \cup {NoOne, Main, Monitor}
    /\ gMonitorRunning \in BOOLEAN
    /\ gMonitorThread \in BOOLEAN
    /\ since \in Nat
    /\ monitor \in {"none", "test", "enter", "leave", "decide", "sleep", "ended",
                    "lost"}
    /\ due \in Nat
    /\ worker \in [Workers -> {"free", "enter", "leave", "lost"}]
    /\ late \in BOOLEAN
    /\ early \subseteq Workers

\* If two rounds of the monitor and the sleep between them fit into the five
\* seconds that stop_ask_monitor waits, it never deletes the critical section
\* under the running thread: the monitor lives within the life of gLastAskCs,
\* although the result of the wait is not looked at.
MonitorWithinLock ==
    2 * MaxStall + Nap < WaitLimit /\ ~late
        => /\ cs = "raw" => monitor = "none"
           /\ cs = "deleted" => monitor \in {"none", "ended"}
           /\ monitor # "lost"

\* While the OPC UA server runs, only a request that came before
\* start_ask_monitor was done can have found no critical section: also when the
\* HTTP server did not start or the monitor thread could not be created.
ServiceLosesNone ==
    main = "serve" => \A w \in Workers : worker[w] = "lost" => w \in early

\* Once the OPC UA server has returned the process ends, whatever the monitor
\* and the HTTP workers do: a hung monitor thread costs five seconds.
ShutsDown == main = "stop" ~> main = "exit"
=============================================================================
