----------------------------- MODULE MCSpawnLock -----------------------------
(* SpawnLock for TLC: processes of a kind are interchangeable.               *)
EXTENDS SpawnLock, TLC

ProcessSymmetry == Permutations(Clients) \cup Permutations(Daemons)
=============================================================================
