---------------------------- MODULE MCMmuNotifier ----------------------------
(* A small instance of MmuNotifier: both kinds of caller and both work      *)
(* items contend for the address spaces of the configuration.               *)
EXTENDS MmuNotifier

CONSTANTS s1, c1

MCScanners == {s1}
MCWriters  == {c1}
MCWorkers  == {Work, DWork}
=============================================================================
