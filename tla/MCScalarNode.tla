---------------------------- MODULE MCScalarNode ----------------------------
(* Small instances of ScalarNode: two posted values, two client values.     *)
EXTENDS ScalarNode

CONSTANTS p1, p2, c1

\* p2 is also written by clients: the two sides may choose the same value.
MCPostValues == {p1, p2}
MCClientValues == {p2, c1}
=============================================================================
