---------------------------- MODULE MCHandshake ----------------------------
(* Two clients, one word of each kind and one the filter refuses.           *)
EXTENDS Handshake

CONSTANTS c1, c2, p1, p2, start, jump, none, accepted, pending, rejected

MCClients == {c1, c2}
MCProducts == {p1, p2}
MCCommands == {start, jump}
MCFilter == {none, start}
MCProductAnswers == {pending, rejected}
MCCommandAnswers == {accepted}
MCProcessing == {pending}
=============================================================================
