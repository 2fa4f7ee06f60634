---------------------------- MODULE RegistryProofs ---------------------------
(* What Registry guarantees for any number of shells and handlers, and that it *)
(* implements SessionTable.                                                  *)
EXTENDS Registry, FiniteSetTheorems, TLAPS

-----------------------------------------------------------------------------
(* The inductive invariant                                                  *)

Creating(h) == pc[h] \in {"made", "inserted", "persisted"}

\* A shell in create_shell's hands is one handler's, has no threads yet, and is on
\* no registry before it is inserted.
CreateInv ==
    /\ \A h \in Handlers : Creating(h) =>
          /\ arg[h] \in Shells
          /\ proc[arg[h]] # "none" /\ waiter[arg[h]] = "none"
    /\ \A g, h \in Handlers : Creating(g) /\ Creating(h) /\ arg[g] = arg[h] => g = h
    /\ \A h \in Handlers : pc[h] = "made" =>
          arg[h] \notin states /\ exited[arg[h]] = "live" /\ master[arg[h]]

\* A shell that is or was registered.
Known(s) == s \in states \/ exited[s] # "live"

\* Handlers work on shells they found on the registry.
KnownInv ==
    /\ \A s \in Shells : Known(s) => proc[s] # "none"
    /\ \A s \in Shells : proc[s] = "none" => waiter[s] = "none"
    /\ \A s \in states : exited[s] = "live"
    /\ \A h \in Handlers :
          pc[h] \in {"attach", "rename", "signal", "cleanup", "cleaning"} =>
              arg[h] \in Shells /\ Known(arg[h])
    /\ \A h \in Handlers : \A s \in todo[h] : Known(s)

\* Who is about to be cleaned up was signalled or is gone.
VictimInv ==
    /\ \A s \in Shells : waiter[s] = "reaped" => proc[s] = "reaped"
    /\ \A h \in Handlers : Sweeping(h) => \A s \in todo[h] : proc[s] = "reaped"
    /\ \A h \in Handlers : pc[h] = "signal" => ~Sweeping(h)
    /\ \A h \in Handlers : pc[h] = "cleanup" =>
          IF Sweeping(h) THEN proc[arg[h]] = "reaped" ELSE arg[h] \in signalled

IInv ==
    /\ TypeOK /\ CreateInv /\ KnownInv /\ VictimInv
    /\ CapacityBound /\ RegisteredIsTended

-----------------------------------------------------------------------------
LEMMA InitIInv == Init => IInv
<1> SUFFICES ASSUME Init PROVE IInv
  OBVIOUS
<1>1. TypeOK /\ CreateInv /\ KnownInv /\ VictimInv /\ RegisteredIsTended
  BY RegistryAssumption
     DEF RegistryAssumption, Init, TypeOK, PcStates, CreateInv, Creating, KnownInv, Known,
         VictimInv, Sweeping, RegisteredIsTended
<1>2. InFlight = {} /\ states = {}
  BY DEF Init, InFlight
<1>3. Cardinality(Handlers) \in Nat /\ Cardinality(Handlers) # 0
  BY RegistryAssumption, FS_CardinalityType, FS_EmptySet DEF RegistryAssumption
<1>4. CapacityBound
  BY <1>2, <1>3, FS_EmptySet, RegistryAssumption DEF CapacityBound, RegistryAssumption
<1> QED
  BY <1>1, <1>4 DEF IInv

\* Every variable keeps its type.
LEMMA TypeStep ==
    ASSUME TypeOK, CreateInv, KnownInv, [Next]_vars
    PROVE  TypeOK'
<1> USE RegistryAssumption DEF RegistryAssumption, TypeOK, PcStates
<1>1. ASSUME NEW h \in Handlers, CreateCheck(h)
      PROVE  TypeOK'
  BY <1>1 DEF CreateCheck, Goto, Requested, shellVars, processVars
<1>2. ASSUME NEW h \in Handlers, CreateSpawn(h)
      PROVE  TypeOK'
  BY <1>2 DEF CreateSpawn, Take, Goto
<1>3. ASSUME NEW h \in Handlers, CreateFails(h)
      PROVE  TypeOK'
  BY <1>3 DEF CreateFails, Reply, Take, Goto, shellVars, processVars
<1>4. ASSUME NEW h \in Handlers, CreateFailsLate(h)
      PROVE  TypeOK'
  BY <1>4 DEF CreateFailsLate, Reply, Take, Goto
<1>5. ASSUME NEW h \in Handlers, CreateInsert(h)
      PROVE  TypeOK'
  BY <1>5 DEF CreateInsert, Goto, shellVars, processVars, CreateInv, Creating
<1>6. ASSUME NEW h \in Handlers, CreatePersist(h)
      PROVE  TypeOK'
  BY <1>6 DEF CreatePersist, Goto, shellVars, processVars
<1>7. ASSUME NEW h \in Handlers, CreatePersistFails(h)
      PROVE  TypeOK'
  BY <1>7 DEF CreatePersistFails, Reply, Take, Goto, processVars
<1>8. ASSUME NEW h \in Handlers, CreateThreads(h)
      PROVE  TypeOK'
  BY <1>8 DEF CreateThreads, Reply, Take, Goto, processVars
<1>9. ASSUME NEW h \in Handlers, OpenLookup(h)
      PROVE  TypeOK'
  BY <1>9 DEF OpenLookup, Take, Goto, Requested, shellVars, processVars
<1>10. ASSUME NEW h \in Handlers, OpenAttach(h)
      PROVE  TypeOK'
  BY <1>10 DEF OpenAttach, Reply, Take, Goto, shellVars, processVars
<1>11. ASSUME NEW h \in Handlers, Detach(h)
      PROVE  TypeOK'
  BY <1>11 DEF Detach, shellVars, processVars, handlerVars
<1>12. ASSUME NEW h \in Handlers, RenameLookup(h)
      PROVE  TypeOK'
  BY <1>12 DEF RenameLookup, Take, Goto, Requested, shellVars, processVars
<1>13. ASSUME NEW h \in Handlers, RenamePersist(h)
      PROVE  TypeOK'
  BY <1>13 DEF RenamePersist, Reply, Take, Goto, shellVars, processVars
<1>14. ASSUME NEW h \in Handlers, KillLookup(h)
      PROVE  TypeOK'
  BY <1>14 DEF KillLookup, Take, Goto, Requested, shellVars, processVars
<1>15. ASSUME NEW h \in Handlers, IdleCollect(h)
      PROVE  TypeOK'
  BY <1>15 DEF IdleCollect, Goto, Requested, shellVars, processVars
<1>16. ASSUME NEW h \in Handlers, SweepCollect(h)
      PROVE  TypeOK'
  BY <1>16 DEF SweepCollect, Goto, Requested, shellVars, processVars
<1>17. ASSUME NEW h \in Handlers, NextVictim(h)
      PROVE  TypeOK'
  BY <1>17 DEF NextVictim, Take, Goto, shellVars, processVars
<1>18. ASSUME NEW h \in Handlers, VictimsDone(h)
      PROVE  TypeOK'
  <2>1. UNCHANGED <<states, exited, slot, master, reader, waiter, files, proc, signalled>>
    BY <1>18 DEF VictimsDone, shellVars, processVars
  <2>2. CASE Sweeping(h)
    BY <1>18, <2>1, <2>2 DEF VictimsDone, Goto
  <2>3. CASE ~Sweeping(h)
    BY <1>18, <2>1, <2>3 DEF VictimsDone, Reply, Take, Goto
  <2> QED
    BY <2>2, <2>3
<1>19. ASSUME NEW h \in Handlers, SendTerm(h)
      PROVE  TypeOK'
  BY <1>19 DEF SendTerm, Goto, shellVars, KnownInv
<1>20. ASSUME NEW h \in Handlers, CleanupRemove(h)
      PROVE  TypeOK'
  BY <1>20 DEF CleanupRemove, Take, Goto, shellVars, processVars
<1>21. ASSUME NEW h \in Handlers, CleanupReturns(h)
      PROVE  TypeOK'
  BY <1>21 DEF CleanupReturns, Take, Goto, shellVars, processVars
<1>22. ASSUME NEW h \in Handlers, Prune(h)
      PROVE  TypeOK'
  BY <1>22 DEF Prune, Reply, Take, Goto, shellVars, processVars
<1>23. ASSUME NEW h \in Handlers, ListLive(h)
      PROVE  TypeOK'
  BY <1>23 DEF ListLive, Goto, shellVars, processVars
<1>24. ASSUME NEW h \in Handlers, RemoveOrphans(h)
      PROVE  TypeOK'
  BY <1>24 DEF RemoveOrphans, Reply, Take, Goto, shellVars, processVars
<1>25. ASSUME NEW s \in Shells, MarkExited(s)
      PROVE  TypeOK'
  BY <1>25 DEF MarkExited, shellVars, processVars, handlerVars
<1>26. ASSUME NEW s \in Shells, CloseHandles(s)
      PROVE  TypeOK'
  BY <1>26 DEF CloseHandles, processVars, handlerVars
<1>27. ASSUME NEW s \in Shells, RemoveShellFiles(s)
      PROVE  TypeOK'
  BY <1>27 DEF RemoveShellFiles, shellVars, processVars, handlerVars
<1>28. ASSUME NEW s \in Shells, ReaderReads(s)
      PROVE  TypeOK'
  BY <1>28 DEF ReaderReads, processVars, handlerVars
<1>29. ASSUME NEW s \in Shells, ReaderPersists(s)
      PROVE  TypeOK'
  BY <1>29 DEF ReaderPersists, processVars, handlerVars
<1>30. ASSUME NEW s \in Shells, ReaderEnds(s)
      PROVE  TypeOK'
  BY <1>30 DEF ReaderEnds, processVars, handlerVars
<1>31. ASSUME NEW s \in Shells, WaiterReaps(s)
      PROVE  TypeOK'
  BY <1>31 DEF WaiterReaps, handlerVars
<1>32. ASSUME NEW s \in Shells, WaiterCleans(s)
      PROVE  TypeOK'
  BY <1>32 DEF WaiterCleans, processVars, handlerVars
<1>33. ASSUME NEW s \in Shells, Exits(s)
      PROVE  TypeOK'
  BY <1>33 DEF Exits, shellVars, handlerVars
<1>34. CASE UNCHANGED vars
  BY <1>34 DEF vars, shellVars, processVars, handlerVars
<1> QED
  BY <1>1, <1>2, <1>3, <1>4, <1>5, <1>6, <1>7, <1>8, <1>9, <1>10, <1>11, <1>12,
            <1>13, <1>14, <1>15, <1>16, <1>17, <1>18, <1>19, <1>20, <1>21, <1>22, <1>23,
            <1>24, <1>25, <1>26, <1>27, <1>28, <1>29, <1>30, <1>31, <1>32, <1>33, <1>34
     DEF Next, Create, Use, Destroy, Threads, Cleaning

\* Shells in the making stay apart from each other and from the registry.
LEMMA CreateStep ==
    ASSUME TypeOK, CreateInv, KnownInv, [Next]_vars
    PROVE  CreateInv'
<1> USE DEF CreateInv, Creating, TypeOK
<1>1. ASSUME NEW h \in Handlers, CreateCheck(h)
      PROVE  CreateInv'
  BY <1>1 DEF CreateCheck, Goto, Requested, shellVars, processVars
<1>2. ASSUME NEW h \in Handlers, CreateSpawn(h)
      PROVE  CreateInv'
  <2>1. PICK s \in Shells :
            /\ proc[s] = "none"
            /\ proc' = [proc EXCEPT ![s] = "running"]
            /\ master' = [master EXCEPT ![s] = TRUE]
            /\ arg' = [arg EXCEPT ![h] = s]
    BY <1>2 DEF CreateSpawn, Take
  <2>2. /\ s \notin states /\ exited[s] = "live" /\ waiter[s] = "none"
        /\ \A g \in Handlers : Creating(g) => arg[g] # s
    BY <2>1 DEF KnownInv, Known
  <2> QED
    BY <1>2, <2>1, <2>2 DEF CreateSpawn, Take, Goto
<1>3. ASSUME NEW h \in Handlers, CreateFails(h)
      PROVE  CreateInv'
  BY <1>3 DEF CreateFails, Reply, Take, Goto, shellVars, processVars
<1>4. ASSUME NEW h \in Handlers, CreateFailsLate(h)
      PROVE  CreateInv'
  BY <1>4 DEF CreateFailsLate, Reply, Take, Goto
<1>5. ASSUME NEW h \in Handlers, CreateInsert(h)
      PROVE  CreateInv'
  BY <1>5 DEF CreateInsert, Goto, shellVars, processVars
<1>6. ASSUME NEW h \in Handlers, CreatePersist(h)
      PROVE  CreateInv'
  BY <1>6 DEF CreatePersist, Goto, shellVars, processVars
<1>7. ASSUME NEW h \in Handlers, CreatePersistFails(h)
      PROVE  CreateInv'
  BY <1>7 DEF CreatePersistFails, Reply, Take, Goto, processVars
<1>8. ASSUME NEW h \in Handlers, CreateThreads(h)
      PROVE  CreateInv'
  BY <1>8 DEF CreateThreads, Reply, Take, Goto, processVars
<1>9. ASSUME NEW h \in Handlers, OpenLookup(h)
      PROVE  CreateInv'
  BY <1>9 DEF OpenLookup, Take, Goto, Requested, shellVars, processVars
<1>10. ASSUME NEW h \in Handlers, OpenAttach(h)
      PROVE  CreateInv'
  BY <1>10 DEF OpenAttach, Reply, Take, Goto, shellVars, processVars
<1>11. ASSUME NEW h \in Handlers, Detach(h)
      PROVE  CreateInv'
  BY <1>11 DEF Detach, shellVars, processVars, handlerVars
<1>12. ASSUME NEW h \in Handlers, RenameLookup(h)
      PROVE  CreateInv'
  BY <1>12 DEF RenameLookup, Take, Goto, Requested, shellVars, processVars
<1>13. ASSUME NEW h \in Handlers, RenamePersist(h)
      PROVE  CreateInv'
  BY <1>13 DEF RenamePersist, Reply, Take, Goto, shellVars, processVars
<1>14. ASSUME NEW h \in Handlers, KillLookup(h)
      PROVE  CreateInv'
  BY <1>14 DEF KillLookup, Take, Goto, Requested, shellVars, processVars
<1>15. ASSUME NEW h \in Handlers, IdleCollect(h)
      PROVE  CreateInv'
  BY <1>15 DEF IdleCollect, Goto, Requested, shellVars, processVars
<1>16. ASSUME NEW h \in Handlers, SweepCollect(h)
      PROVE  CreateInv'
  BY <1>16 DEF SweepCollect, Goto, Requested, shellVars, processVars
<1>17. ASSUME NEW h \in Handlers, NextVictim(h)
      PROVE  CreateInv'
  BY <1>17 DEF NextVictim, Take, Goto, shellVars, processVars
<1>18. ASSUME NEW h \in Handlers, VictimsDone(h)
      PROVE  CreateInv'
  BY <1>18, SMTT(30) DEF VictimsDone, Reply, Take, Goto, shellVars, processVars
<1>19. ASSUME NEW h \in Handlers, SendTerm(h)
      PROVE  CreateInv'
  BY <1>19 DEF SendTerm, Goto, shellVars
<1>20. ASSUME NEW h \in Handlers, CleanupRemove(h)
      PROVE  CreateInv'
  BY <1>20 DEF CleanupRemove, Take, Goto, shellVars, processVars
<1>21. ASSUME NEW h \in Handlers, CleanupReturns(h)
      PROVE  CreateInv'
  BY <1>21 DEF CleanupReturns, Take, Goto, shellVars, processVars
<1>22. ASSUME NEW h \in Handlers, Prune(h)
      PROVE  CreateInv'
  <2>1. UNCHANGED <<states, exited, master, waiter, proc>>
    BY <1>22 DEF Prune, shellVars, processVars
  <2>2. \/ pc' = [pc EXCEPT ![h] = "list"] /\ UNCHANGED <<arg, todo>>
        \/ /\ pc' = [pc EXCEPT ![h] = "idle"] /\ arg' = [arg EXCEPT ![h] = NoShell]
           /\ todo' = [todo EXCEPT ![h] = {}]
    BY <1>22 DEF Prune, Reply, Take, Goto
  <2> QED
    BY <2>1, <2>2, SMTT(30)
<1>23. ASSUME NEW h \in Handlers, ListLive(h)
      PROVE  CreateInv'
  BY <1>23 DEF ListLive, Goto, shellVars, processVars
<1>24. ASSUME NEW h \in Handlers, RemoveOrphans(h)
      PROVE  CreateInv'
  BY <1>24 DEF RemoveOrphans, Reply, Take, Goto, shellVars, processVars
<1>25. ASSUME NEW s \in Shells, MarkExited(s)
      PROVE  CreateInv'
  BY <1>25 DEF MarkExited, shellVars, processVars, handlerVars
<1>26. ASSUME NEW s \in Shells, CloseHandles(s)
      PROVE  CreateInv'
  BY <1>26 DEF CloseHandles, processVars, handlerVars
<1>27. ASSUME NEW s \in Shells, RemoveShellFiles(s)
      PROVE  CreateInv'
  BY <1>27 DEF RemoveShellFiles, shellVars, processVars, handlerVars
<1>28. ASSUME NEW s \in Shells, ReaderReads(s)
      PROVE  CreateInv'
  BY <1>28 DEF ReaderReads, processVars, handlerVars
<1>29. ASSUME NEW s \in Shells, ReaderPersists(s)
      PROVE  CreateInv'
  BY <1>29 DEF ReaderPersists, processVars, handlerVars
<1>30. ASSUME NEW s \in Shells, ReaderEnds(s)
      PROVE  CreateInv'
  BY <1>30 DEF ReaderEnds, processVars, handlerVars
<1>31. ASSUME NEW s \in Shells, WaiterReaps(s)
      PROVE  CreateInv'
  BY <1>31 DEF WaiterReaps, handlerVars
<1>32. ASSUME NEW s \in Shells, WaiterCleans(s)
      PROVE  CreateInv'
  BY <1>32, SMTT(30) DEF WaiterCleans, processVars, handlerVars
<1>33. ASSUME NEW s \in Shells, Exits(s)
      PROVE  CreateInv'
  BY <1>33 DEF Exits, shellVars, handlerVars
<1>34. CASE UNCHANGED vars
  BY <1>34 DEF vars, shellVars, processVars, handlerVars
<1> QED
  BY <1>1, <1>2, <1>3, <1>4, <1>5, <1>6, <1>7, <1>8, <1>9, <1>10, <1>11, <1>12,
            <1>13, <1>14, <1>15, <1>16, <1>17, <1>18, <1>19, <1>20, <1>21, <1>22, <1>23,
            <1>24, <1>25, <1>26, <1>27, <1>28, <1>29, <1>30, <1>31, <1>32, <1>33, <1>34
     DEF Next, Create, Use, Destroy, Threads, Cleaning

\* Nobody works on a shell that never was registered.
LEMMA KnownStep ==
    ASSUME TypeOK, CreateInv, KnownInv, [Next]_vars
    PROVE  KnownInv'
<1> USE DEF KnownInv, Known, TypeOK
<1>1. ASSUME NEW h \in Handlers, CreateCheck(h)
      PROVE  KnownInv'
  BY <1>1 DEF CreateCheck, Goto, Requested, shellVars, processVars
<1>2. ASSUME NEW h \in Handlers, CreateSpawn(h)
      PROVE  KnownInv'
  BY <1>2 DEF CreateSpawn, Take, Goto
<1>3. ASSUME NEW h \in Handlers, CreateFails(h)
      PROVE  KnownInv'
  BY <1>3 DEF CreateFails, Reply, Take, Goto, shellVars, processVars
<1>4. ASSUME NEW h \in Handlers, CreateFailsLate(h)
      PROVE  KnownInv'
  BY <1>4 DEF CreateFailsLate, Reply, Take, Goto
<1>5. ASSUME NEW h \in Handlers, CreateInsert(h)
      PROVE  KnownInv'
  BY <1>5 DEF CreateInsert, Goto, shellVars, processVars, CreateInv, Creating
<1>6. ASSUME NEW h \in Handlers, CreatePersist(h)
      PROVE  KnownInv'
  BY <1>6 DEF CreatePersist, Goto, shellVars, processVars
<1>7. ASSUME NEW h \in Handlers, CreatePersistFails(h)
      PROVE  KnownInv'
  BY <1>7 DEF CreatePersistFails, Reply, Take, Goto, processVars
<1>8. ASSUME NEW h \in Handlers, CreateThreads(h)
      PROVE  KnownInv'
  BY <1>8 DEF CreateThreads, Reply, Take, Goto, processVars, CreateInv, Creating
<1>9. ASSUME NEW h \in Handlers, OpenLookup(h)
      PROVE  KnownInv'
  BY <1>9 DEF OpenLookup, Take, Goto, Requested, shellVars, processVars
<1>10. ASSUME NEW h \in Handlers, OpenAttach(h)
      PROVE  KnownInv'
  BY <1>10 DEF OpenAttach, Reply, Take, Goto, shellVars, processVars
<1>11. ASSUME NEW h \in Handlers, Detach(h)
      PROVE  KnownInv'
  BY <1>11 DEF Detach, shellVars, processVars, handlerVars
<1>12. ASSUME NEW h \in Handlers, RenameLookup(h)
      PROVE  KnownInv'
  BY <1>12 DEF RenameLookup, Take, Goto, Requested, shellVars, processVars
<1>13. ASSUME NEW h \in Handlers, RenamePersist(h)
      PROVE  KnownInv'
  BY <1>13 DEF RenamePersist, Reply, Take, Goto, shellVars, processVars
<1>14. ASSUME NEW h \in Handlers, KillLookup(h)
      PROVE  KnownInv'
  BY <1>14 DEF KillLookup, Take, Goto, Requested, shellVars, processVars
<1>15. ASSUME NEW h \in Handlers, IdleCollect(h)
      PROVE  KnownInv'
  BY <1>15 DEF IdleCollect, Goto, Requested, shellVars, processVars
<1>16. ASSUME NEW h \in Handlers, SweepCollect(h)
      PROVE  KnownInv'
  BY <1>16 DEF SweepCollect, Goto, Requested, shellVars, processVars
<1>17. ASSUME NEW h \in Handlers, NextVictim(h)
      PROVE  KnownInv'
  BY <1>17 DEF NextVictim, Take, Goto, shellVars, processVars
<1>18. ASSUME NEW h \in Handlers, VictimsDone(h)
      PROVE  KnownInv'
  BY <1>18, SMTT(30) DEF VictimsDone, Reply, Take, Goto, shellVars, processVars
<1>19. ASSUME NEW h \in Handlers, SendTerm(h)
      PROVE  KnownInv'
  BY <1>19 DEF SendTerm, Goto, shellVars
<1>20. ASSUME NEW h \in Handlers, CleanupRemove(h)
      PROVE  KnownInv'
  BY <1>20 DEF CleanupRemove, Take, Goto, shellVars, processVars
<1>21. ASSUME NEW h \in Handlers, CleanupReturns(h)
      PROVE  KnownInv'
  BY <1>21 DEF CleanupReturns, Take, Goto, shellVars, processVars
<1>22. ASSUME NEW h \in Handlers, Prune(h)
      PROVE  KnownInv'
  <2>1. UNCHANGED <<states, exited, master, waiter, proc>>
    BY <1>22 DEF Prune, shellVars, processVars
  <2>2. \/ pc' = [pc EXCEPT ![h] = "list"] /\ UNCHANGED <<arg, todo>>
        \/ /\ pc' = [pc EXCEPT ![h] = "idle"] /\ arg' = [arg EXCEPT ![h] = NoShell]
           /\ todo' = [todo EXCEPT ![h] = {}]
    BY <1>22 DEF Prune, Reply, Take, Goto
  <2> QED
    BY <2>1, <2>2, SMTT(30)
<1>23. ASSUME NEW h \in Handlers, ListLive(h)
      PROVE  KnownInv'
  BY <1>23 DEF ListLive, Goto, shellVars, processVars
<1>24. ASSUME NEW h \in Handlers, RemoveOrphans(h)
      PROVE  KnownInv'
  BY <1>24 DEF RemoveOrphans, Reply, Take, Goto, shellVars, processVars
<1>25. ASSUME NEW s \in Shells, MarkExited(s)
      PROVE  KnownInv'
  BY <1>25 DEF MarkExited, shellVars, processVars, handlerVars
<1>26. ASSUME NEW s \in Shells, CloseHandles(s)
      PROVE  KnownInv'
  BY <1>26 DEF CloseHandles, processVars, handlerVars
<1>27. ASSUME NEW s \in Shells, RemoveShellFiles(s)
      PROVE  KnownInv'
  BY <1>27 DEF RemoveShellFiles, shellVars, processVars, handlerVars
<1>28. ASSUME NEW s \in Shells, ReaderReads(s)
      PROVE  KnownInv'
  BY <1>28 DEF ReaderReads, processVars, handlerVars
<1>29. ASSUME NEW s \in Shells, ReaderPersists(s)
      PROVE  KnownInv'
  BY <1>29 DEF ReaderPersists, processVars, handlerVars
<1>30. ASSUME NEW s \in Shells, ReaderEnds(s)
      PROVE  KnownInv'
  BY <1>30 DEF ReaderEnds, processVars, handlerVars
<1>31. ASSUME NEW s \in Shells, WaiterReaps(s)
      PROVE  KnownInv'
  BY <1>31 DEF WaiterReaps, handlerVars
<1>32. ASSUME NEW s \in Shells, WaiterCleans(s)
      PROVE  KnownInv'
  BY <1>32, SMTT(30) DEF WaiterCleans, processVars, handlerVars
<1>33. ASSUME NEW s \in Shells, Exits(s)
      PROVE  KnownInv'
  BY <1>33 DEF Exits, shellVars, handlerVars
<1>34. CASE UNCHANGED vars
  BY <1>34 DEF vars, shellVars, processVars, handlerVars
<1> QED
  BY <1>1, <1>2, <1>3, <1>4, <1>5, <1>6, <1>7, <1>8, <1>9, <1>10, <1>11, <1>12,
            <1>13, <1>14, <1>15, <1>16, <1>17, <1>18, <1>19, <1>20, <1>21, <1>22, <1>23,
            <1>24, <1>25, <1>26, <1>27, <1>28, <1>29, <1>30, <1>31, <1>32, <1>33, <1>34
     DEF Next, Create, Use, Destroy, Threads, Cleaning

\* A shell that is cleaned up was signalled or is gone.
LEMMA VictimStep ==
    ASSUME TypeOK, KnownInv, VictimInv, [Next]_vars
    PROVE  VictimInv'
<1> USE DEF VictimInv, Sweeping, TypeOK
<1>1. ASSUME NEW h \in Handlers, CreateCheck(h)
      PROVE  VictimInv'
  BY <1>1 DEF CreateCheck, Goto, Requested, shellVars, processVars
<1>2. ASSUME NEW h \in Handlers, CreateSpawn(h)
      PROVE  VictimInv'
  BY <1>2 DEF CreateSpawn, Take, Goto
<1>3. ASSUME NEW h \in Handlers, CreateFails(h)
      PROVE  VictimInv'
  BY <1>3 DEF CreateFails, Reply, Take, Goto, shellVars, processVars
<1>4. ASSUME NEW h \in Handlers, CreateFailsLate(h)
      PROVE  VictimInv'
  BY <1>4 DEF CreateFailsLate, Reply, Take, Goto
<1>5. ASSUME NEW h \in Handlers, CreateInsert(h)
      PROVE  VictimInv'
  BY <1>5 DEF CreateInsert, Goto, shellVars, processVars
<1>6. ASSUME NEW h \in Handlers, CreatePersist(h)
      PROVE  VictimInv'
  BY <1>6 DEF CreatePersist, Goto, shellVars, processVars
<1>7. ASSUME NEW h \in Handlers, CreatePersistFails(h)
      PROVE  VictimInv'
  BY <1>7 DEF CreatePersistFails, Reply, Take, Goto, processVars
<1>8. ASSUME NEW h \in Handlers, CreateThreads(h)
      PROVE  VictimInv'
  BY <1>8 DEF CreateThreads, Reply, Take, Goto, processVars
<1>9. ASSUME NEW h \in Handlers, OpenLookup(h)
      PROVE  VictimInv'
  BY <1>9 DEF OpenLookup, Take, Goto, Requested, shellVars, processVars
<1>10. ASSUME NEW h \in Handlers, OpenAttach(h)
      PROVE  VictimInv'
  BY <1>10 DEF OpenAttach, Reply, Take, Goto, shellVars, processVars
<1>11. ASSUME NEW h \in Handlers, Detach(h)
      PROVE  VictimInv'
  BY <1>11 DEF Detach, shellVars, processVars, handlerVars
<1>12. ASSUME NEW h \in Handlers, RenameLookup(h)
      PROVE  VictimInv'
  BY <1>12 DEF RenameLookup, Take, Goto, Requested, shellVars, processVars
<1>13. ASSUME NEW h \in Handlers, RenamePersist(h)
      PROVE  VictimInv'
  BY <1>13 DEF RenamePersist, Reply, Take, Goto, shellVars, processVars
<1>14. ASSUME NEW h \in Handlers, KillLookup(h)
      PROVE  VictimInv'
  BY <1>14 DEF KillLookup, Take, Goto, Requested, shellVars, processVars
<1>15. ASSUME NEW h \in Handlers, IdleCollect(h)
      PROVE  VictimInv'
  BY <1>15 DEF IdleCollect, Goto, Requested, shellVars, processVars
<1>16. ASSUME NEW h \in Handlers, SweepCollect(h)
      PROVE  VictimInv'
  BY <1>16 DEF SweepCollect, Goto, Requested, shellVars, processVars
<1>17. ASSUME NEW h \in Handlers, NextVictim(h)
      PROVE  VictimInv'
  BY <1>17 DEF NextVictim, Take, Goto, shellVars, processVars
<1>18. ASSUME NEW h \in Handlers, VictimsDone(h)
      PROVE  VictimInv'
  BY <1>18 DEF VictimsDone, Reply, Take, Goto, shellVars, processVars
<1>19. ASSUME NEW h \in Handlers, SendTerm(h)
      PROVE  VictimInv'
  BY <1>19 DEF SendTerm, Goto, shellVars
<1>20. ASSUME NEW h \in Handlers, CleanupRemove(h)
      PROVE  VictimInv'
  BY <1>20 DEF CleanupRemove, Take, Goto, shellVars, processVars
<1>21. ASSUME NEW h \in Handlers, CleanupReturns(h)
      PROVE  VictimInv'
  BY <1>21 DEF CleanupReturns, Take, Goto, shellVars, processVars
<1>22. ASSUME NEW h \in Handlers, Prune(h)
      PROVE  VictimInv'
  BY <1>22 DEF Prune, Reply, Take, Goto, shellVars, processVars
<1>23. ASSUME NEW h \in Handlers, ListLive(h)
      PROVE  VictimInv'
  BY <1>23 DEF ListLive, Goto, shellVars, processVars
<1>24. ASSUME NEW h \in Handlers, RemoveOrphans(h)
      PROVE  VictimInv'
  BY <1>24 DEF RemoveOrphans, Reply, Take, Goto, shellVars, processVars
<1>25. ASSUME NEW s \in Shells, MarkExited(s)
      PROVE  VictimInv'
  BY <1>25 DEF MarkExited, shellVars, processVars, handlerVars
<1>26. ASSUME NEW s \in Shells, CloseHandles(s)
      PROVE  VictimInv'
  BY <1>26 DEF CloseHandles, processVars, handlerVars
<1>27. ASSUME NEW s \in Shells, RemoveShellFiles(s)
      PROVE  VictimInv'
  BY <1>27 DEF RemoveShellFiles, shellVars, processVars, handlerVars
<1>28. ASSUME NEW s \in Shells, ReaderReads(s)
      PROVE  VictimInv'
  BY <1>28 DEF ReaderReads, processVars, handlerVars
<1>29. ASSUME NEW s \in Shells, ReaderPersists(s)
      PROVE  VictimInv'
  BY <1>29 DEF ReaderPersists, processVars, handlerVars
<1>30. ASSUME NEW s \in Shells, ReaderEnds(s)
      PROVE  VictimInv'
  BY <1>30 DEF ReaderEnds, processVars, handlerVars
<1>31. ASSUME NEW s \in Shells, WaiterReaps(s)
      PROVE  VictimInv'
  BY <1>31 DEF WaiterReaps, handlerVars
<1>32. ASSUME NEW s \in Shells, WaiterCleans(s)
      PROVE  VictimInv'
  BY <1>32 DEF WaiterCleans, processVars, handlerVars
<1>33. ASSUME NEW s \in Shells, Exits(s)
      PROVE  VictimInv'
  BY <1>33 DEF Exits, shellVars, handlerVars
<1>34. CASE UNCHANGED vars
  BY <1>34 DEF vars, shellVars, processVars, handlerVars
<1> QED
  BY <1>1, <1>2, <1>3, <1>4, <1>5, <1>6, <1>7, <1>8, <1>9, <1>10, <1>11, <1>12,
            <1>13, <1>14, <1>15, <1>16, <1>17, <1>18, <1>19, <1>20, <1>21, <1>22, <1>23,
            <1>24, <1>25, <1>26, <1>27, <1>28, <1>29, <1>30, <1>31, <1>32, <1>33, <1>34
     DEF Next, Create, Use, Destroy, Threads, Cleaning

\* Registered shells stay tended.
LEMMA TendedStep ==
    ASSUME TypeOK, CreateInv, KnownInv, RegisteredIsTended, [Next]_vars
    PROVE  RegisteredIsTended'
<1> USE DEF RegisteredIsTended, BeingCreated, Abandoned, TypeOK
<1>1. ASSUME NEW h \in Handlers, CreateCheck(h)
      PROVE  RegisteredIsTended'
  BY <1>1 DEF CreateCheck, Goto, Requested, shellVars, processVars
<1>2. ASSUME NEW h \in Handlers, CreateSpawn(h)
      PROVE  RegisteredIsTended'
  <2>1. PICK s \in Shells :
            /\ proc[s] = "none"
            /\ master' = [master EXCEPT ![s] = TRUE]
            /\ reader' = [reader EXCEPT ![s] = "ready"]
            /\ Take(h, s, "made")
    BY <1>2 DEF CreateSpawn
  <2>2. s \notin states
    BY <2>1 DEF KnownInv, Known
  <2> QED
    BY <1>2, <2>1, <2>2 DEF CreateSpawn, Take, Goto
<1>3. ASSUME NEW h \in Handlers, CreateFails(h)
      PROVE  RegisteredIsTended'
  BY <1>3 DEF CreateFails, Reply, Take, Goto, shellVars, processVars
<1>4. ASSUME NEW h \in Handlers, CreateFailsLate(h)
      PROVE  RegisteredIsTended'
  <2>1. PICK s \in Shells :
            /\ proc[s] = "none"
            /\ reader' = [reader EXCEPT ![s] = "gone"]
    BY <1>4 DEF CreateFailsLate
  <2>2. s \notin states
    BY <2>1 DEF KnownInv, Known
  <2> QED
    BY <1>4, <2>1, <2>2 DEF CreateFailsLate, Reply, Take, Goto
<1>5. ASSUME NEW h \in Handlers, CreateInsert(h)
      PROVE  RegisteredIsTended'
  <2>1. arg[h] \in Shells /\ master[arg[h]] /\ exited[arg[h]] = "live"
    BY <1>5 DEF CreateInsert, CreateInv, Creating
  <2>2. \A s \in states : BeingCreated(s) => BeingCreated(s)'
    BY <1>5 DEF CreateInsert, Goto
  <2>3. BeingCreated(arg[h])'
    BY <1>5 DEF CreateInsert, Goto
  <2> QED
    BY <1>5, <2>1, <2>2, <2>3 DEF CreateInsert, shellVars
<1>6. ASSUME NEW h \in Handlers, CreatePersist(h)
      PROVE  RegisteredIsTended'
  BY <1>6 DEF CreatePersist, Goto, shellVars, processVars
<1>7. ASSUME NEW h \in Handlers, CreatePersistFails(h)
      PROVE  RegisteredIsTended'
  <2>1. waiter[arg[h]] = "none"
    BY <1>7 DEF CreatePersistFails, CreateInv, Creating
  <2>2. \A s \in states : BeingCreated(s) /\ s # arg[h] => BeingCreated(s)'
    BY <1>7 DEF CreatePersistFails, Reply, Take, Goto
  <2> QED
    BY <1>7, <2>1, <2>2 DEF CreatePersistFails, processVars
<1>8. ASSUME NEW h \in Handlers, CreateThreads(h)
      PROVE  RegisteredIsTended'
  BY <1>8 DEF CreateThreads, Reply, Take, Goto, processVars
<1>9. ASSUME NEW h \in Handlers, OpenLookup(h)
      PROVE  RegisteredIsTended'
  BY <1>9 DEF OpenLookup, Take, Goto, Requested, shellVars, processVars
<1>10. ASSUME NEW h \in Handlers, OpenAttach(h)
      PROVE  RegisteredIsTended'
  BY <1>10 DEF OpenAttach, Reply, Take, Goto, shellVars, processVars
<1>11. ASSUME NEW h \in Handlers, Detach(h)
      PROVE  RegisteredIsTended'
  BY <1>11 DEF Detach, shellVars, processVars, handlerVars
<1>12. ASSUME NEW h \in Handlers, RenameLookup(h)
      PROVE  RegisteredIsTended'
  BY <1>12 DEF RenameLookup, Take, Goto, Requested, shellVars, processVars
<1>13. ASSUME NEW h \in Handlers, RenamePersist(h)
      PROVE  RegisteredIsTended'
  BY <1>13 DEF RenamePersist, Reply, Take, Goto, shellVars, processVars
<1>14. ASSUME NEW h \in Handlers, KillLookup(h)
      PROVE  RegisteredIsTended'
  BY <1>14 DEF KillLookup, Take, Goto, Requested, shellVars, processVars
<1>15. ASSUME NEW h \in Handlers, IdleCollect(h)
      PROVE  RegisteredIsTended'
  BY <1>15 DEF IdleCollect, Goto, Requested, shellVars, processVars
<1>16. ASSUME NEW h \in Handlers, SweepCollect(h)
      PROVE  RegisteredIsTended'
  BY <1>16 DEF SweepCollect, Goto, Requested, shellVars, processVars
<1>17. ASSUME NEW h \in Handlers, NextVictim(h)
      PROVE  RegisteredIsTended'
  BY <1>17 DEF NextVictim, Take, Goto, shellVars, processVars
<1>18. ASSUME NEW h \in Handlers, VictimsDone(h)
      PROVE  RegisteredIsTended'
  BY <1>18 DEF VictimsDone, Reply, Take, Goto, shellVars, processVars
<1>19. ASSUME NEW h \in Handlers, SendTerm(h)
      PROVE  RegisteredIsTended'
  BY <1>19 DEF SendTerm, Goto, shellVars
<1>20. ASSUME NEW h \in Handlers, CleanupRemove(h)
      PROVE  RegisteredIsTended'
  BY <1>20 DEF CleanupRemove, Take, Goto, shellVars, processVars
<1>21. ASSUME NEW h \in Handlers, CleanupReturns(h)
      PROVE  RegisteredIsTended'
  BY <1>21 DEF CleanupReturns, Take, Goto, shellVars, processVars
<1>22. ASSUME NEW h \in Handlers, Prune(h)
      PROVE  RegisteredIsTended'
  BY <1>22 DEF Prune, Reply, Take, Goto, shellVars, processVars
<1>23. ASSUME NEW h \in Handlers, ListLive(h)
      PROVE  RegisteredIsTended'
  BY <1>23 DEF ListLive, Goto, shellVars, processVars
<1>24. ASSUME NEW h \in Handlers, RemoveOrphans(h)
      PROVE  RegisteredIsTended'
  BY <1>24 DEF RemoveOrphans, Reply, Take, Goto, shellVars, processVars
<1>25. ASSUME NEW s \in Shells, MarkExited(s)
      PROVE  RegisteredIsTended'
  BY <1>25 DEF MarkExited, shellVars, processVars, handlerVars
<1>26. ASSUME NEW s \in Shells, CloseHandles(s)
      PROVE  RegisteredIsTended'
  BY <1>26 DEF CloseHandles, processVars, handlerVars
<1>27. ASSUME NEW s \in Shells, RemoveShellFiles(s)
      PROVE  RegisteredIsTended'
  BY <1>27 DEF RemoveShellFiles, shellVars, processVars, handlerVars
<1>28. ASSUME NEW s \in Shells, ReaderReads(s)
      PROVE  RegisteredIsTended'
  BY <1>28 DEF ReaderReads, processVars, handlerVars
<1>29. ASSUME NEW s \in Shells, ReaderPersists(s)
      PROVE  RegisteredIsTended'
  BY <1>29 DEF ReaderPersists, processVars, handlerVars
<1>30. ASSUME NEW s \in Shells, ReaderEnds(s)
      PROVE  RegisteredIsTended'
  BY <1>30 DEF ReaderEnds, processVars, handlerVars
<1>31. ASSUME NEW s \in Shells, WaiterReaps(s)
      PROVE  RegisteredIsTended'
  BY <1>31 DEF WaiterReaps, handlerVars
<1>32. ASSUME NEW s \in Shells, WaiterCleans(s)
      PROVE  RegisteredIsTended'
  BY <1>32 DEF WaiterCleans, processVars, handlerVars
<1>33. ASSUME NEW s \in Shells, Exits(s)
      PROVE  RegisteredIsTended'
  BY <1>33 DEF Exits, shellVars, handlerVars
<1>34. CASE UNCHANGED vars
  BY <1>34 DEF vars, shellVars, processVars, handlerVars
<1> QED
  BY <1>1, <1>2, <1>3, <1>4, <1>5, <1>6, <1>7, <1>8, <1>9, <1>10, <1>11, <1>12,
            <1>13, <1>14, <1>15, <1>16, <1>17, <1>18, <1>19, <1>20, <1>21, <1>22, <1>23,
            <1>24, <1>25, <1>26, <1>27, <1>28, <1>29, <1>30, <1>31, <1>32, <1>33, <1>34
     DEF Next, Create, Use, Destroy, Threads, Cleaning

\* Adding a member to a finite set, and removing one.
LEMMA Counting ==
    ASSUME NEW S, IsFiniteSet(S), NEW x
    PROVE  /\ Cardinality(S) \in Nat
           /\ x \notin S => Cardinality(S \cup {x}) = Cardinality(S) + 1
           /\ Cardinality(S \ {x}) <= Cardinality(S) /\ Cardinality(S \ {x}) \in Nat
           /\ x \in S => Cardinality(S \ {x}) = Cardinality(S) - 1
<1>1. Cardinality(S) \in Nat
  BY FS_CardinalityType
<1>2. x \notin S => Cardinality(S \cup {x}) = Cardinality(S) + 1
  BY FS_AddElement
<1>3. Cardinality(S \ {x}) <= Cardinality(S) /\ Cardinality(S \ {x}) \in Nat
  <2>1. S \ {x} \subseteq S
    OBVIOUS
  <2> QED
    BY <2>1, FS_Subset, FS_CardinalityType
<1>4. x \in S => Cardinality(S \ {x}) = Cardinality(S) - 1
  BY FS_RemoveElement
<1> QED
  BY <1>1, <1>2, <1>3, <1>4

\* What the limit check and the insertion add up to; nothing else adds.
LEMMA CapacityStep ==
    ASSUME TypeOK, CreateInv, CapacityBound, [Next]_vars
    PROVE  CapacityBound'
<1>1. IsFiniteSet(states) /\ IsFiniteSet(InFlight) /\ IsFiniteSet(Handlers)
  <2>1. states \subseteq Shells /\ InFlight \subseteq Handlers
    BY DEF TypeOK, InFlight
  <2> QED
    BY <2>1, RegistryAssumption, FS_Subset DEF RegistryAssumption
<1>2. /\ Cardinality(states) \in Nat /\ Cardinality(InFlight) \in Nat
      /\ Cardinality(Handlers) \in Nat /\ MaxShells \in Nat
  BY <1>1, FS_CardinalityType, RegistryAssumption DEF RegistryAssumption
<1>3. Cardinality(states) + Cardinality(InFlight) + 1 <= MaxShells + Cardinality(Handlers)
  BY DEF CapacityBound
<1>4. ASSUME NEW h \in Handlers, CreateCheck(h)
      PROVE  CapacityBound'
  <2>1. InFlight' \subseteq Handlers
    BY DEF InFlight
  <2>2. /\ Cardinality(InFlight') <= Cardinality(Handlers)
        /\ Cardinality(InFlight') \in Nat
    BY <2>1, <1>1, FS_Subset, FS_CardinalityType
  <2>3. states' = states /\ Cardinality(states) < MaxShells
    BY <1>4 DEF CreateCheck
  <2> QED
    BY <1>2, <2>2, <2>3 DEF CapacityBound
<1>5. ASSUME NEW h \in Handlers, CreateInsert(h)
      PROVE  CapacityBound'
  <2>1. /\ states' = states \cup {arg[h]} /\ arg[h] \notin states
        /\ InFlight' = InFlight \ {h} /\ h \in InFlight
    BY <1>5 DEF CreateInsert, Goto, InFlight, CreateInv, TypeOK
  <2>2. /\ Cardinality(states') = Cardinality(states) + 1
        /\ Cardinality(InFlight') = Cardinality(InFlight) - 1
    BY <2>1, <1>1, Counting
  <2> QED
    BY <2>2, <1>2, <1>3 DEF CapacityBound
<1>6. ASSUME NEW h \in Handlers, CreateFails(h) \/ CreateFailsLate(h)
      PROVE  CapacityBound'
  <2>1. states' = states /\ InFlight' = InFlight \ {h}
    BY <1>6 DEF CreateFails, CreateFailsLate, Reply, Take, Goto, InFlight, TypeOK
  <2>2. Cardinality(InFlight') <= Cardinality(InFlight) /\ Cardinality(InFlight') \in Nat
    BY <2>1, <1>1, Counting
  <2> QED
    BY <2>1, <2>2, <1>2, <1>3 DEF CapacityBound
<1>7. ASSUME NEW x, states' = states \ {x}, InFlight' = InFlight
      PROVE  CapacityBound'
  <2>1. Cardinality(states') <= Cardinality(states) /\ Cardinality(states') \in Nat
    BY <1>7, <1>1, Counting
  <2> QED
    BY <1>7, <2>1, <1>2, <1>3 DEF CapacityBound
<1>8. ASSUME states' = states, InFlight' = InFlight
      PROVE  CapacityBound'
  BY <1>8, <1>3 DEF CapacityBound
<1>9. ASSUME NEW h \in Handlers, CleanupRemove(h)
      PROVE  CapacityBound'
  <2>1. InFlight' = InFlight
    BY <1>9 DEF CleanupRemove, Take, Goto, InFlight, TypeOK
  <2>2. states' = states \/ states' = states \ {arg[h]}
    BY <1>9 DEF CleanupRemove
  <2> QED
    BY <2>1, <2>2, <1>7, <1>8
<1>10. ASSUME NEW s \in Shells, WaiterCleans(s)
       PROVE  CapacityBound'
  <2>1. InFlight' = InFlight
    BY <1>10 DEF WaiterCleans, handlerVars, InFlight
  <2>2. states' = states \/ states' = states \ {s}
    BY <1>10 DEF WaiterCleans
  <2> QED
    BY <2>1, <2>2, <1>7, <1>8
<1>11. ASSUME NEW h \in Handlers, CreateSpawn(h) \/ CreatePersist(h) \/ CreatePersistFails(h)
       PROVE  CapacityBound'
  <2>1. states' = states /\ InFlight' = InFlight
    BY <1>11 DEF InFlight, TypeOK, CreateSpawn, CreatePersist, CreatePersistFails, Reply, Take,
              Goto
  <2> QED
    BY <2>1, <1>8
<1>12. ASSUME NEW h \in Handlers, CreateThreads(h) \/ OpenLookup(h) \/ OpenAttach(h)
       PROVE  CapacityBound'
  <2>1. states' = states /\ InFlight' = InFlight
    BY <1>12 DEF InFlight, TypeOK, CreateThreads, OpenLookup, OpenAttach, Reply, Take, Goto,
              Requested
  <2> QED
    BY <2>1, <1>8
<1>13. ASSUME NEW h \in Handlers, Detach(h) \/ RenameLookup(h) \/ RenamePersist(h)
       PROVE  CapacityBound'
  <2>1. states' = states /\ InFlight' = InFlight
    BY <1>13 DEF InFlight, TypeOK, Detach, RenameLookup, RenamePersist, Reply, Take, Goto,
              Requested, handlerVars
  <2> QED
    BY <2>1, <1>8
<1>14. ASSUME NEW h \in Handlers, KillLookup(h) \/ IdleCollect(h) \/ SweepCollect(h)
       PROVE  CapacityBound'
  <2>1. states' = states /\ InFlight' = InFlight
    BY <1>14 DEF InFlight, TypeOK, KillLookup, IdleCollect, SweepCollect, Take, Goto, Requested
  <2> QED
    BY <2>1, <1>8
<1>15. ASSUME NEW h \in Handlers, NextVictim(h) \/ VictimsDone(h) \/ SendTerm(h)
       PROVE  CapacityBound'
  <2>1. states' = states /\ InFlight' = InFlight
    BY <1>15 DEF InFlight, TypeOK, NextVictim, VictimsDone, SendTerm, Reply, Take, Goto
  <2> QED
    BY <2>1, <1>8
<1>16. ASSUME NEW h \in Handlers, CleanupReturns(h) \/ Prune(h) \/ ListLive(h)
       PROVE  CapacityBound'
  <2>1. states' = states /\ InFlight' = InFlight
    BY <1>16 DEF InFlight, TypeOK, CleanupReturns, Prune, ListLive, Reply, Take, Goto
  <2> QED
    BY <2>1, <1>8
<1>17. ASSUME NEW h \in Handlers, RemoveOrphans(h)
       PROVE  CapacityBound'
  <2>1. states' = states /\ InFlight' = InFlight
    BY <1>17 DEF InFlight, TypeOK, RemoveOrphans, Reply, Take, Goto
  <2> QED
    BY <2>1, <1>8
<1>18. ASSUME NEW s \in Shells,
              \/ MarkExited(s) \/ CloseHandles(s) \/ RemoveShellFiles(s) \/ ReaderReads(s)
              \/ ReaderPersists(s) \/ ReaderEnds(s) \/ WaiterReaps(s) \/ Exits(s)
       PROVE  CapacityBound'
  <2>1. states' = states /\ InFlight' = InFlight
    BY <1>18 DEF InFlight, MarkExited, CloseHandles, RemoveShellFiles, ReaderReads,
              ReaderPersists, ReaderEnds, WaiterReaps, Exits, handlerVars
  <2> QED
    BY <2>1, <1>8
<1>19. CASE UNCHANGED vars
  <2>1. states' = states /\ InFlight' = InFlight
    BY <1>19 DEF vars, handlerVars, InFlight
  <2> QED
    BY <2>1, <1>8
<1> QED
  BY <1>4, <1>5, <1>6, <1>9, <1>10, <1>11, <1>12, <1>13, <1>14, <1>15, <1>16, <1>17,
            <1>18, <1>19
     DEF Next, Create, Use, Destroy, Threads, Cleaning

THEOREM Invariance == Spec => []IInv
<1>1. IInv /\ [Next]_vars => IInv'
  BY TypeStep, CreateStep, KnownStep, VictimStep, CapacityStep, TendedStep DEF IInv
<1> QED
  BY InitIInv, <1>1, PTL DEF Spec

-----------------------------------------------------------------------------
(* The refinement                                                           *)

\* Where a session is in its life, and which shells' processes are gone.
Life(s) == IF s \in states THEN "live" ELSE IF exited[s] = "live" THEN "absent" ELSE "ended"
Lives   == [s \in Shells |-> Life(s)]
Gone    == {s \in Shells : proc[s] \in {"zombie", "reaped"}}

\* The state and the actions of SessionTable in the terms of Registry.
LEMMA MapVars ==
    Sessions!vars = <<Lives, signalled, Gone, slot>>
<1> QED
  BY DEF Sessions!vars, Lives, Life, Gone

LEMMA MapCreate ==
    \A s : Sessions!Create(s) <=>
        /\ Lives[s] = "absent"
        /\ MayLive({t \in Shells : Lives[t] = "live"} \cup {s})
        /\ Lives' = [Lives EXCEPT ![s] = "live"]
        /\ signalled' = signalled /\ Gone' = Gone /\ slot' = slot
<1> QED
  BY DEF Sessions!Create, Sessions!Living, Lives, Life, Gone

LEMMA MapAsk ==
    \A s : Sessions!Ask(s) <=>
        /\ Lives[s] # "absent" /\ signalled' = signalled \cup {s}
        /\ Lives' = Lives /\ Gone' = Gone /\ slot' = slot
<1> QED
  BY DEF Sessions!Ask, Lives, Life, Gone

LEMMA MapDepart ==
    \A s : Sessions!Depart(s) <=>
        /\ Gone' = Gone \cup {s}
        /\ Lives' = Lives /\ signalled' = signalled /\ slot' = slot
<1> QED
  BY DEF Sessions!Depart, Lives, Life, Gone

LEMMA MapEnd ==
    \A s : Sessions!End(s) <=>
        /\ Lives[s] = "live" /\ s \in signalled \cup Gone
        /\ Lives' = [Lives EXCEPT ![s] = "ended"]
        /\ signalled' = signalled /\ Gone' = Gone /\ slot' = slot
<1> QED
  BY DEF Sessions!End, Lives, Life, Gone

LEMMA MapHold ==
    \A s, u : Sessions!Hold(s, u) <=>
        /\ Lives[s] # "absent" /\ slot' = [slot EXCEPT ![s] = u]
        /\ Lives' = Lives /\ signalled' = signalled /\ Gone' = Gone
<1> QED
  BY DEF Sessions!Hold, Lives, Life, Gone

LEMMA MapInit == Init => Sessions!Init
<1> SUFFICES ASSUME Init PROVE Sessions!Init
  OBVIOUS
<1>1. Lives = [s \in Shells |-> "absent"] /\ Gone = {}
  BY DEF Init, Lives, Life, Gone
<1> QED
  BY <1>1 DEF Init, Sessions!Init, Lives, Life, Gone

\* A step SessionTable does not see.
Silent == Lives' = Lives /\ signalled' = signalled /\ Gone' = Gone /\ slot' = slot

LEMMA MapSilent == Silent => UNCHANGED Sessions!vars
<1> QED
  BY DEF Silent, Sessions!vars, Lives, Life, Gone

LEMMA MapNext ==
    ASSUME NEW s \in Shells,
           \/ Sessions!Create(s) \/ Sessions!Ask(s) \/ Sessions!Depart(s) \/ Sessions!End(s)
           \/ \E u \in Handlers \cup {NoHandler} : Sessions!Hold(s, u)
    PROVE  Sessions!Next
<1> QED
  BY DEF Sessions!Next

\* Steps that move handlers, threads, PTYs and files only.
LEMMA QuietSteps ==
    ASSUME UNCHANGED <<states, exited, slot, signalled, proc>>
    PROVE  Silent
<1> QED
  BY DEF Silent, Lives, Life, Gone

\* A process starts, or is reaped: nothing a session shows.
LEMMA ProcessSteps ==
    ASSUME UNCHANGED <<states, exited, slot, signalled>>, Gone' = Gone
    PROVE  Silent
<1> QED
  BY DEF Silent, Lives, Life

\* cleanup_shell, once the shell is off the registry.
LEMMA CleanupSteps ==
    ASSUME TypeOK, NEW s \in Shells, NEW to \in {"told", "closed", "clean"},
           exited[s] # "live", exited' = [exited EXCEPT ![s] = to],
           UNCHANGED <<states, signalled, proc>>
    PROVE  Lives' = Lives /\ signalled' = signalled /\ Gone' = Gone
<1>1. ASSUME NEW t \in Shells
      PROVE  exited'[t] = "live" <=> exited[t] = "live"
  BY DEF TypeOK
<1>2. ASSUME NEW t \in Shells
      PROVE  Life(t)' = Life(t)
  BY <1>1 DEF Life
<1> QED
  BY <1>2 DEF Lives, Gone

\* Taking a shell off the registry ends its session.
LEMMA RemovalEnds ==
    ASSUME TypeOK, NEW s \in Shells, s \in states, s \in signalled \cup Gone,
           states' = states \ {s}, exited' = [exited EXCEPT ![s] = "removed"],
           UNCHANGED <<slot, signalled, proc>>
    PROVE  Sessions!End(s)
<1>1. Life(s) = "live" /\ Life(s)' = "ended"
  BY DEF Life, TypeOK
<1>2. ASSUME NEW t \in Shells, t # s
      PROVE  Life(t)' = Life(t)
  BY <1>2 DEF Life, TypeOK
<1>3. Lives[s] = "live" /\ Lives' = [Lives EXCEPT ![s] = "ended"]
  BY <1>1, <1>2 DEF Lives
<1> QED
  BY <1>3, MapEnd DEF Gone

\* create_shell finds room even though it checked the limit some time ago.
LEMMA InsertCreates ==
    ASSUME IInv, NEW h \in Handlers, CreateInsert(h), NEW s, s = arg[h]
    PROVE  s \in Shells /\ Sessions!Create(s)
<1>1. /\ pc[h] = "made" /\ states' = states \cup {s}
      /\ UNCHANGED <<exited, slot, signalled, proc>>
  BY DEF CreateInsert, shellVars, processVars
<1>2. s \in Shells /\ s \notin states /\ exited[s] = "live"
  <2>1. CreateInv
    BY DEF IInv
  <2> QED
    BY <1>1, <2>1 DEF CreateInv, Creating
<1>3. Life(s) = "absent" /\ Life(s)' = "live"
  BY <1>1, <1>2 DEF Life
<1>4. ASSUME NEW t \in Shells, t # s
      PROVE  Life(t)' = Life(t)
  BY <1>1, <1>4 DEF Life
<1>5. Lives[s] = "absent" /\ Lives' = [Lives EXCEPT ![s] = "live"]
  BY <1>2, <1>3, <1>4 DEF Lives
<1>6. MayLive({t \in Shells : Lives[t] = "live"} \cup {s})
  <2>1. {t \in Shells : Lives[t] = "live"} = states
    BY DEF Lives, Life, IInv, TypeOK
  <2>2. IsFiniteSet(states) /\ IsFiniteSet(InFlight) /\ h \in InFlight
    BY <1>1, RegistryAssumption, FS_Subset DEF RegistryAssumption, IInv, TypeOK, InFlight
  <2>3. Cardinality(states \cup {s}) = Cardinality(states) + 1
    BY <1>2, <2>2, FS_AddElement
  <2>4. Cardinality(InFlight) \in Nat /\ Cardinality(InFlight) # 0
    BY <2>2, FS_CardinalityType, FS_EmptySet
  <2>5. Cardinality(states) \in Nat /\ Cardinality(Handlers) \in Nat /\ MaxShells \in Nat
    BY <2>2, RegistryAssumption, FS_CardinalityType DEF RegistryAssumption
  <2>6. Cardinality(states) + Cardinality(InFlight) + 1 <= MaxShells + Cardinality(Handlers)
    BY DEF IInv, CapacityBound
  <2> QED
    BY <2>1, <2>3, <2>4, <2>5, <2>6 DEF MayLive
<1>7. signalled' = signalled /\ Gone' = Gone /\ slot' = slot
  BY <1>1 DEF Gone
<1> QED
  BY <1>2, <1>5, <1>6, <1>7, MapCreate


\* Every step of the registry is a step of the session table, or none.
LEMMA MapStep ==
    ASSUME IInv, [Next]_vars
    PROVE  [Sessions!Next]_(Sessions!vars)
<1> DEFINE Goal == [Sessions!Next]_(Sessions!vars)
<1> HIDE DEF Goal
<1>a. TypeOK /\ KnownInv /\ VictimInv
  BY DEF IInv
<1>b. Silent => Goal
  BY MapSilent DEF Goal
<1>c. Sessions!Next => Goal
  BY DEF Goal
<1>1. ASSUME NEW h \in Handlers,
             \/ CreateCheck(h) \/ CreateFails(h) \/ CreatePersist(h)
             \/ CreatePersistFails(h) \/ CreateThreads(h) \/ OpenLookup(h)
      PROVE  Goal
  <2>1. UNCHANGED <<states, exited, slot, signalled, proc>>
    BY <1>1 DEF CreateCheck, CreateFails, CreatePersist, CreatePersistFails, CreateThreads,
              OpenLookup, Reply, Take, Goto, Requested, shellVars, processVars
  <2> QED
    BY <2>1, <1>b, QuietSteps
<1>2. ASSUME NEW h \in Handlers,
             \/ RenameLookup(h) \/ RenamePersist(h) \/ KillLookup(h)
             \/ IdleCollect(h) \/ SweepCollect(h) \/ NextVictim(h)
      PROVE  Goal
  <2>1. UNCHANGED <<states, exited, slot, signalled, proc>>
    BY <1>2 DEF RenameLookup, RenamePersist, KillLookup, IdleCollect, SweepCollect,
              NextVictim, Reply, Take, Goto, Requested, shellVars, processVars
  <2> QED
    BY <2>1, <1>b, QuietSteps
<1>3. ASSUME NEW h \in Handlers,
             \/ VictimsDone(h) \/ CleanupReturns(h) \/ Prune(h)
             \/ ListLive(h) \/ RemoveOrphans(h)
      PROVE  Goal
  <2>1. UNCHANGED <<states, exited, slot, signalled, proc>>
    BY <1>3 DEF VictimsDone, CleanupReturns, Prune, ListLive, RemoveOrphans, Reply, Take,
              Goto, shellVars, processVars
  <2> QED
    BY <2>1, <1>b, QuietSteps
<1>4. ASSUME NEW s \in Shells,
             \/ ReaderReads(s) \/ ReaderPersists(s) \/ ReaderEnds(s)
      PROVE  Goal
  <2>1. UNCHANGED <<states, exited, slot, signalled, proc>>
    BY <1>4 DEF ReaderReads, ReaderPersists, ReaderEnds, processVars, handlerVars
  <2> QED
    BY <2>1, <1>b, QuietSteps
<1>5. ASSUME NEW h \in Handlers, CreateSpawn(h) \/ CreateFailsLate(h)
      PROVE  Goal
  <2>1. PICK s \in Shells : proc[s] = "none" /\ proc' = [proc EXCEPT ![s] = "running"]
    BY <1>5 DEF CreateSpawn, CreateFailsLate
  <2>2. Gone' = Gone
    BY <1>a, <2>1 DEF Gone, TypeOK
  <2>3. UNCHANGED <<states, exited, slot, signalled>>
    BY <1>5 DEF CreateSpawn, CreateFailsLate, Reply, Take, Goto
  <2> QED
    BY <2>2, <2>3, <1>b, ProcessSteps
<1>6. ASSUME NEW h \in Handlers, CreateInsert(h)
      PROVE  Goal
  BY <1>6, <1>c, InsertCreates, MapNext
<1>7. ASSUME NEW h \in Handlers, OpenAttach(h)
      PROVE  Goal
  <2>1. UNCHANGED <<states, exited, signalled, proc>>
    BY <1>7 DEF OpenAttach, shellVars, processVars
  <2>2. CASE UNCHANGED slot
    BY <2>1, <2>2, <1>b, QuietSteps
  <2>3. CASE slot' = [slot EXCEPT ![arg[h]] = h]
    <3>1. arg[h] \in Shells /\ Known(arg[h])
      BY <1>7, <1>a DEF OpenAttach, KnownInv
    <3>2. Lives[arg[h]] # "absent"
      BY <3>1 DEF Lives, Life, Known
    <3>3. Lives' = Lives /\ Gone' = Gone
      BY <2>1 DEF Lives, Life, Gone
    <3>4. Sessions!Hold(arg[h], h)
      BY <2>1, <2>3, <3>2, <3>3, MapHold
    <3> QED
      BY <3>1, <3>4, <1>c, MapNext
  <2> QED
    BY <1>7, <2>2, <2>3 DEF OpenAttach
<1>8. ASSUME NEW h \in Handlers, Detach(h)
      PROVE  Goal
  <2>1. PICK s \in states : slot' = [slot EXCEPT ![s] = NoHandler]
    BY <1>8 DEF Detach
  <2>2. UNCHANGED <<states, exited, signalled, proc>>
    BY <1>8 DEF Detach, shellVars, processVars
  <2>3. s \in Shells /\ Lives[s] # "absent"
    BY <1>a, <2>1 DEF TypeOK, Lives, Life
  <2>4. Lives' = Lives /\ Gone' = Gone
    BY <2>2 DEF Lives, Life, Gone
  <2>5. Sessions!Hold(s, NoHandler)
    BY <2>1, <2>2, <2>3, <2>4, MapHold
  <2> QED
    BY <2>3, <2>5, <1>c, MapNext
<1>9. ASSUME NEW h \in Handlers, SendTerm(h)
      PROVE  Goal
  <2>1. arg[h] \in Shells /\ Known(arg[h])
    BY <1>9, <1>a DEF SendTerm, KnownInv
  <2>2. UNCHANGED <<states, exited, slot, proc>> /\ signalled' = signalled \cup {arg[h]}
    BY <1>9 DEF SendTerm
  <2>3. Lives[arg[h]] # "absent"
    BY <2>1 DEF Lives, Life, Known
  <2>4. Lives' = Lives /\ Gone' = Gone
    BY <2>2 DEF Lives, Life, Gone
  <2>5. Sessions!Ask(arg[h])
    BY <2>2, <2>3, <2>4, MapAsk
  <2> QED
    BY <2>1, <2>5, <1>c, MapNext
<1>10. ASSUME NEW h \in Handlers, CleanupRemove(h)
      PROVE  Goal
  <2>1. pc[h] = "cleanup" /\ UNCHANGED <<slot, signalled, proc>>
    BY <1>10 DEF CleanupRemove, processVars
  <2>2. CASE arg[h] \notin states
    <3>1. UNCHANGED <<states, exited>>
      BY <1>10, <2>2 DEF CleanupRemove
    <3> QED
      BY <2>1, <3>1, <1>b, QuietSteps
  <2>3. CASE arg[h] \in states
    <3> PICK s : s = arg[h]
      OBVIOUS
    <3>1. states' = states \ {s} /\ exited' = [exited EXCEPT ![s] = "removed"]
      BY <1>10, <2>3 DEF CleanupRemove
    <3>2. s \in Shells /\ s \in states
      BY <1>a, <2>3 DEF TypeOK
    <3>3. proc[s] = "reaped" \/ s \in signalled
      BY <1>a, <2>1 DEF VictimInv
    <3>4. s \in signalled \cup Gone
      BY <3>2, <3>3 DEF Gone
    <3>5. Sessions!End(s)
      BY <1>a, <2>1, <3>1, <3>2, <3>4, RemovalEnds
    <3> QED
      BY <3>2, <3>5, <1>c, MapNext
  <2> QED
    BY <2>2, <2>3
<1>11. ASSUME NEW s \in Shells, MarkExited(s)
      PROVE  Goal
  <2>1. /\ exited[s] = "removed" /\ exited' = [exited EXCEPT ![s] = "told"]
        /\ slot' = [slot EXCEPT ![s] = NoHandler]
        /\ UNCHANGED <<states, signalled, proc>>
    BY <1>11 DEF MarkExited, processVars
  <2>2. Lives' = Lives /\ signalled' = signalled /\ Gone' = Gone
    BY <1>a, <2>1, CleanupSteps
  <2>3. Lives[s] # "absent"
    BY <2>1 DEF Lives, Life
  <2>4. Sessions!Hold(s, NoHandler)
    BY <2>1, <2>2, <2>3, MapHold
  <2> QED
    BY <2>4, <1>c, MapNext
<1>12. ASSUME NEW s \in Shells, CloseHandles(s) \/ RemoveShellFiles(s)
      PROVE  Goal
  <2>1. \E to \in {"told", "closed", "clean"} : exited' = [exited EXCEPT ![s] = to]
    BY <1>12 DEF CloseHandles, RemoveShellFiles
  <2>2. exited[s] # "live" /\ UNCHANGED <<states, slot, signalled, proc>>
    BY <1>12 DEF CloseHandles, RemoveShellFiles, processVars
  <2>3. Lives' = Lives /\ signalled' = signalled /\ Gone' = Gone
    BY <1>a, <2>1, <2>2, CleanupSteps
  <2> QED
    BY <2>2, <2>3, <1>b DEF Silent
<1>13. ASSUME NEW s \in Shells, WaiterReaps(s)
      PROVE  Goal
  <2>1. /\ proc[s] = "zombie" /\ proc' = [proc EXCEPT ![s] = "reaped"]
        /\ UNCHANGED <<states, exited, slot, signalled>>
    BY <1>13 DEF WaiterReaps, handlerVars
  <2>2. Gone' = Gone
    BY <1>a, <2>1 DEF Gone, TypeOK
  <2> QED
    BY <2>1, <2>2, <1>b, ProcessSteps
<1>14. ASSUME NEW s \in Shells, WaiterCleans(s)
      PROVE  Goal
  <2>1. waiter[s] = "reaped" /\ UNCHANGED <<slot, signalled, proc>>
    BY <1>14 DEF WaiterCleans, processVars
  <2>2. CASE s \notin states
    <3>1. UNCHANGED <<states, exited>>
      BY <1>14, <2>2 DEF WaiterCleans
    <3> QED
      BY <2>1, <3>1, <1>b, QuietSteps
  <2>3. CASE s \in states
    <3>1. states' = states \ {s} /\ exited' = [exited EXCEPT ![s] = "removed"]
      BY <1>14, <2>3 DEF WaiterCleans
    <3>2. s \in signalled \cup Gone
      BY <1>a, <2>1 DEF VictimInv, Gone
    <3>3. Sessions!End(s)
      BY <1>a, <2>1, <2>3, <3>1, <3>2, RemovalEnds
    <3> QED
      BY <3>3, <1>c, MapNext
  <2> QED
    BY <2>2, <2>3
<1>15. ASSUME NEW s \in Shells, Exits(s)
      PROVE  Goal
  <2>1. /\ proc' = [proc EXCEPT ![s] = "zombie"]
        /\ UNCHANGED <<states, exited, slot, signalled>>
    BY <1>15 DEF Exits
  <2>2. Gone' = Gone \cup {s}
    BY <1>a, <2>1 DEF Gone, TypeOK
  <2>3. Lives' = Lives
    BY <2>1 DEF Lives, Life
  <2>4. Sessions!Depart(s)
    BY <2>1, <2>2, <2>3, MapDepart
  <2> QED
    BY <2>4, <1>c, MapNext
<1>16. ASSUME UNCHANGED vars
       PROVE  Goal
  <2>1. UNCHANGED <<states, exited, slot, signalled, proc>>
    BY <1>16 DEF vars, processVars
  <2> QED
    BY <2>1, <1>b, QuietSteps
<1> QED
  <2>1. Goal
    BY <1>1, <1>2, <1>3, <1>4, <1>5, <1>6, <1>7, <1>8, <1>9, <1>10, <1>11, <1>12,
              <1>13, <1>14, <1>15, <1>16
       DEF Next, Create, Use, Destroy, Threads, Cleaning
  <2> QED
    BY <2>1 DEF Goal

-----------------------------------------------------------------------------
\* Every reachable state of the registry has its type.
THEOREM TypeCorrect == Spec => []TypeOK
<1>1. IInv => TypeOK
  BY DEF IInv
<1> QED
  BY Invariance, <1>1, PTL

\* However many requests create shells at once, max_shells is exceeded by at most the
\* number of handlers less one.
THEOREM Bounded == Spec => []CapacityBound
<1>1. IInv => CapacityBound
  BY DEF IInv
<1> QED
  BY Invariance, <1>1, PTL

\* A registered shell has an open PTY and a waiter to come, unless its creation failed
\* after it was registered.
THEOREM Tended == Spec => []RegisteredIsTended
<1>1. IInv => RegisteredIsTended
  BY DEF IInv
<1> QED
  BY Invariance, <1>1, PTL

\* The daemon's registry implements the session table: one end for each session, for
\* a reason, under every interleaving of handlers, waiters and sweeps.
THEOREM Refines == Spec => TableOfSessions
<1>1. IInv /\ [Next]_vars => [Sessions!Next]_(Sessions!vars)
  BY MapStep
<1> QED
  BY MapInit, Invariance, <1>1, PTL DEF Spec, TableOfSessions, Sessions!Spec
=============================================================================
