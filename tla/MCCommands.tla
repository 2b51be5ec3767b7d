------------------------------ MODULE MCCommands ------------------------------
(* An instance of GRICommands for TLC: two threads, one macro. *)
EXTENDS GRICommands

CONSTANTS t1, t2, a1, a2, m1

MCThreads == {t1, t2}
MCDAQThreads == {t1}
MCAddresses == {a1, a2}
MCMacros == {m1}
=============================================================================
