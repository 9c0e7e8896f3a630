---------------------------- MODULE MCStringNode ----------------------------
(* Small instances of StringNode: a node with the filter {none, start}, one *)
(* posted word, an allowed and a refused client word.                       *)
EXTENDS StringNode

CONSTANTS w1, w2, b1, b2, b3, b4, none, start, jump

MCPostWords == {none}
MCClientWords == {start, jump}
MCFilter == {none, start}
OneWorker == {w1}
TwoWorkers == {w1, w2}
ThreeBlocks == {b1, b2, b3}
FourBlocks == ThreeBlocks \cup {b4}
=============================================================================
