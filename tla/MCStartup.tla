------------------------------ MODULE MCStartup ------------------------------
(* An instance of Startup for TLC. *)
EXTENDS Startup

CONSTANTS short, long

TwoLifetimes == {short, long}
=============================================================================
