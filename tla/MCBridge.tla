------------------------------- MODULE MCBridge -------------------------------
(* Bridge for TLC: two attempts for each reconnect, small bounds on what comes   *)
(* from outside.                                                             *)
EXTENDS Bridge
=============================================================================
