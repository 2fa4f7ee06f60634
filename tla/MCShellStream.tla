---------------------------- MODULE MCShellStream ----------------------------
(* ShellStream for TLC: client connections are interchangeable.             *)
EXTENDS ShellStream, TLC

ClientSymmetry == Permutations(Clients)
=============================================================================
