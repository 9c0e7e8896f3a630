---------------------------- MODULE MCAskMonitor ----------------------------
(* Small instances of AskMonitor: one or two workers, one reported status.   *)
EXTENDS AskMonitor

CONSTANTS w1, w2

MCStatuses == {"running"}
OneWorker == {w1}
TwoWorkers == {w1, w2}
=============================================================================
