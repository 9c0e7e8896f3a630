---------------------------- MODULE MCLifecycle ----------------------------
(* Two workers, with the code's sleep and wait, in seconds.                 *)
EXTENDS Lifecycle

CONSTANTS w1, w2

MCWorkers == {w1, w2}
=============================================================================
