------------------------------ MODULE MCLivesh -------------------------------
(* Livesh for TLC, with the values of Livesh.cfg.                            *)
EXTENDS Livesh, TLC
=============================================================================
