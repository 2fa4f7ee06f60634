-------------------------- MODULE HotUpgradeProofs ---------------------------
(* What an upgrade keeps, for any number of shells, descriptors and upgrades.  *)
EXTENDS HotUpgrade, TLAPS

Upgrading == phase \in {"flush", "hand", "exec"}
Adopting  == phase \in {"starting", "adopting"}

\* Where a shell is on the map, and what is listed.
LifeInv ==
    /\ \A s \in states : life[s] \in {"inserted", "running"}
    /\ \A s \in Shells : life[s] = "inserted" => s \in states
    /\ Upgrading => \A s \in listed : /\ life[s] \notin {"absent", "spawned"}
                                      /\ life[s] = "running" => s \in states
    /\ todo \subseteq listed
    /\ phase = "exec" => todo = {}
    /\ Upgrading => upgrades # 0
    /\ stale <= upgrades /\ (Upgrading /\ stale # 0 => stale < upgrades)

\* As long as no upgrade mixed up descriptors, numbers name what their owner thinks.
OwnedInv ==
    stale = 0 =>
        \A s \in Shells :
            /\ master[s] \in Fds => fds[master[s]] = s
            /\ reader[s] \in Fds => fds[reader[s]] = s /\ reader[s] # master[s]
            /\ s \in states \/ life[s] \in {"spawned", "inserted", "removed"}
                  => master[s] \in Fds

\* Metadata of registered shells is on disk, once written, unless run_gc deleted it.
MetadataInv ==
    /\ \A s \in states : life[s] = "running" => s \in metadata \cup orphaned
    /\ Upgrading => \A s \in (states \cap listed) \ todo : s \in metadata \cup orphaned
    /\ phase \in {"hand", "exec"} => \A s \in states \cap listed : s \in metadata \cup orphaned

\* The manifest before execv.
HandInv ==
    /\ phase = "flush" => Handed = {}
    /\ Upgrading => Handed \subseteq listed \ todo
    /\ (phase \in {"hand", "exec"} /\ stale = 0) =>
          /\ \A s \in listed \ todo :
                master[s] # NoFd => manifest[s] = master[s] /\ master[s] \in inherit
          /\ \A s \in Handed, t \in listed : master[t] = manifest[s] => t = s

\* The manifest after execv: who is still to be adopted has nothing else yet.
FreshInv ==
    Adopting => \A s \in Handed :
        /\ s \notin states /\ master[s] = NoFd /\ reader[s] = NoFd
        /\ writer[s] = [w \in Writers |-> Idle]
        /\ stale = 0 => fds[manifest[s]] = s

\* A shell that will be adopted: its number is open, its own and nobody else's.
Owed(s) ==
    /\ s \in Handed /\ s \in metadata
    /\ fds[manifest[s]] = s
    /\ \A t \in Handed : manifest[t] = manifest[s] => t = s
    /\ \A t \in Shells : master[t] # manifest[s] /\ reader[t] # manifest[s]

\* Nobody began to clean the shell up, it is not on the map and nothing excuses that.
Missing(s) == life[s] = "running" /\ s \notin states \cup late \cup orphaned \cup starved

\* Such a shell is owed, unless descriptors were mixed up before this upgrade.
SurvivalInv ==
    \A s \in Shells :
        Missing(s) =>
            /\ phase = "serving" => stale \notin {0, upgrades}
            /\ Upgrading => stale # 0
            /\ Adopting /\ stale \in {0, upgrades} => Owed(s)

\* How far a screen is: nobody writes what is older than the flush.
ScreenInv ==
    /\ \A s \in Shells :
          /\ due[s] <= drawn[s]
          /\ writer[s]["reader"].at \in {"took", "cut"} => writer[s]["reader"].upto = drawn[s]
          /\ writer[s]["upgrade"].at \in {"took", "cut"} => writer[s]["upgrade"].upto = due[s]
          /\ writer[s]["upgrade"].at # "idle" => phase = "flush" /\ s \in listed \ todo

\* What ScreenSurvivesFlush asks of a screen, before execv and after.
Kept(s)   == screen[s].is = "mixed" \/ (screen[s].is = "whole" /\ screen[s].upto >= due[s])
Cutting(s) == writer[s]["reader"].at = "cut"
ToFlush(s) == phase = "flush" /\ (s \in todo \/ writer[s]["upgrade"].at # "idle")

\* Once the flush has been through a shell, its screen is kept or being written.
FlushInv ==
    Upgrading => \A s \in (states \cap listed) \ orphaned :
        ToFlush(s) \/ Kept(s) \/ Cutting(s)

-----------------------------------------------------------------------------
(* Types, in three groups                                                     *)

FdTypes ==
    /\ fds \in [Fds -> {"free", "own"} \cup Shells]
    /\ inherit \in SUBSET Fds
    /\ manifest \in [Shells -> Fds \cup {NoFd}]
    /\ master \in [Shells -> Fds \cup {NoFd}]
    /\ reader \in [Shells -> Fds \cup {NoFd}]

ReplayTypes ==
    /\ screen \in [Shells -> [is : {"none", "cut", "whole", "mixed"}, upto : 0..MaxChunks]]
    /\ drawn \in [Shells -> 0..MaxChunks] /\ due \in [Shells -> 0..MaxChunks]
    /\ writer \in [Shells -> [Writers -> [at : {"idle", "due", "took", "cut"},
                                          upto : 0..MaxChunks]]]

ShellTypes ==
    /\ phase \in {"serving", "flush", "hand", "exec", "starting", "adopting", "gone"}
    /\ todo \in SUBSET Shells /\ listed \in SUBSET Shells
    /\ upgrades \in 0..MaxUpgrades
    /\ states \in SUBSET Shells
    /\ life \in [Shells -> {"absent", "spawned", "inserted", "running", "removed",
                            "closed", "gone"}]
    /\ waiter \in SUBSET Shells
    /\ proc \in [Shells -> {"none", "running", "zombie", "reaped"}]
    /\ metadata \in SUBSET Shells /\ hint \in SUBSET Shells
    /\ live \in [on : BOOLEAN, keep : SUBSET Shells]
    /\ cut \in SUBSET Shells /\ late \in SUBSET Shells /\ orphaned \in SUBSET Shells
    /\ starved \in SUBSET Shells /\ stale \in 0..MaxUpgrades

\* The actions, in groups that leave alone the same things.
Serves(s) == CreateInsert(s) \/ CreateFinish(s) \/ CleanupRemove(s) \/ WaiterReaps(s)
             \/ Exits(s)
Goes == FlushDone \/ HandDone \/ UpgradeFails \/ AdoptDone \/ GcList

LEMMA Kinds ==
    ASSUME [Next]_vars
    PROVE  \/ Goes \/ UpgradeLists \/ Exec \/ NewOpens
           \/ \E s \in Shells :
                 \/ Serves(s) \/ CreateSpawn(s) \/ CloseHandles(s) \/ RemoveShellFiles(s)
                 \/ ReaderReads(s) \/ ReaderEnds(s) \/ GcDelete(s)
                 \/ FlushMetadata(s) \/ Hand(s) \/ AdoptOne(s) \/ AdoptFails(s)
                 \/ \E w \in Writers : Writer(s, w)
           \/ UNCHANGED vars
BY DEF Next, Upgrade, Gc, Create, Cleanup, Reader, Serves, Goes

LEMMA FdTypesStep == TypeOK /\ [Next]_vars => FdTypes'
<1> SUFFICES ASSUME FdTypes, [Next]_vars PROVE FdTypes'
  BY DEF TypeOK, FdTypes
<1> USE DEF FdTypes, fdVars, upgradeVars, shellVars
<1>1. ASSUME NEW s \in Shells, Serves(s) PROVE FdTypes'
  BY <1>1 DEF Serves, CreateInsert, CreateFinish, CleanupRemove, WaiterReaps, Exits
<1>2. CASE Goes
  BY <1>2 DEF Goes, FlushDone, HandDone, UpgradeFails, AdoptDone, GcList
<1>3. CASE UpgradeLists
  BY <1>3 DEF UpgradeLists
<1>4. CASE Exec
  BY <1>4 DEF Exec
<1>5. CASE NewOpens
  BY <1>5 DEF NewOpens, Free
<1>6. ASSUME NEW s \in Shells, CreateSpawn(s) PROVE FdTypes'
  BY <1>6 DEF CreateSpawn, Free
<1>7. ASSUME NEW s \in Shells, CloseHandles(s) \/ ReaderEnds(s) PROVE FdTypes'
  BY <1>7 DEF CloseHandles, ReaderEnds, CloseFd
<1>8. ASSUME NEW s \in Shells, RemoveShellFiles(s) \/ ReaderReads(s) \/ GcDelete(s)
                               \/ FlushMetadata(s)
      PROVE  FdTypes'
  BY <1>8 DEF RemoveShellFiles, ReaderReads, GcDelete, FlushMetadata
<1>9. ASSUME NEW s \in Shells, Hand(s) PROVE FdTypes'
  BY <1>9 DEF Hand
<1>10. ASSUME NEW s \in Shells, AdoptOne(s) PROVE FdTypes'
  <2>1. manifest[s] \in Fds
    BY <1>10 DEF AdoptOne, Handed
  <2> QED
    BY <1>10, <2>1 DEF AdoptOne, Free
<1>11. ASSUME NEW s \in Shells, AdoptFails(s) PROVE FdTypes'
  BY <1>11 DEF AdoptFails, CloseFd
<1>12. ASSUME NEW s \in Shells, NEW w \in Writers, Writer(s, w) PROVE FdTypes'
  BY <1>12 DEF Writer, WriterTakes, WriterCuts, WriterWrites
<1>13. CASE UNCHANGED vars
  BY <1>13 DEF vars
<1> QED
  BY Kinds, <1>1, <1>2, <1>3, <1>4, <1>5, <1>6, <1>7, <1>8, <1>9, <1>10, <1>11, <1>12, <1>13

LEMMA ReplayTypesStep == TypeOK /\ [Next]_vars => ReplayTypes'
<1> SUFFICES ASSUME ReplayTypes, states \in SUBSET Shells, [Next]_vars PROVE ReplayTypes'
  BY DEF TypeOK, ReplayTypes
<1>0. MaxChunks \in Nat
  BY HotUpgradeAssumption DEF HotUpgradeAssumption
<1> USE <1>0 DEF ReplayTypes, replayVars
<1>1. ASSUME NEW s \in Shells, Serves(s) \/ CreateSpawn(s) \/ CloseHandles(s)
                               \/ ReaderEnds(s) \/ Hand(s)
      PROVE  ReplayTypes'
  BY <1>1 DEF Serves, CreateInsert, CreateFinish, CleanupRemove, WaiterReaps, Exits,
              CreateSpawn, CloseHandles, ReaderEnds, Hand
<1>2. CASE Goes \/ UpgradeLists \/ NewOpens
  BY <1>2 DEF Goes, FlushDone, HandDone, UpgradeFails, AdoptDone, GcList, UpgradeLists,
              NewOpens
<1>3. CASE Exec
  BY <1>3 DEF Exec, Idle
<1>5. ASSUME NEW s \in Shells, Unlinked(s), UNCHANGED <<drawn, due>>
      PROVE  ReplayTypes'
  <2>0. Unlinked(s) /\ UNCHANGED <<drawn, due>>
    BY <1>5
  <2>1. NoFile \in [is : {"none", "cut", "whole", "mixed"}, upto : 0..MaxChunks]
    BY DEF NoFile
  <2>2. Idle \in [at : {"idle", "due", "took", "cut"}, upto : 0..MaxChunks]
    BY DEF Idle
  <2>3. screen' \in [Shells -> [is : {"none", "cut", "whole", "mixed"}, upto : 0..MaxChunks]]
    BY <2>0, <2>1 DEF Unlinked
  <2>4. [w \in Writers |-> IF writer[s][w].at = "cut" THEN Idle ELSE writer[s][w]]
            \in [Writers -> [at : {"idle", "due", "took", "cut"}, upto : 0..MaxChunks]]
    BY <2>2
  <2>5. writer' \in [Shells -> [Writers -> [at : {"idle", "due", "took", "cut"},
                                           upto : 0..MaxChunks]]]
    BY <2>0, <2>4 DEF Unlinked
  <2>6. drawn' \in [Shells -> 0..MaxChunks] /\ due' \in [Shells -> 0..MaxChunks]
    BY <2>0
  <2> QED
    BY <2>3, <2>5, <2>6 DEF Writers
<1>15. ASSUME NEW s \in Shells, NEW t \in Shells, ClosedTwice(s, t), UNCHANGED <<drawn, due>>
       PROVE  ReplayTypes'
  <2>1. NoFile \in [is : {"none", "cut", "whole", "mixed"}, upto : 0..MaxChunks]
        /\ [is |-> "cut", upto |-> 0] \in [is : {"none", "cut", "whole", "mixed"}, upto : 0..MaxChunks]
        /\ Idle \in [at : {"idle", "due", "took", "cut"}, upto : 0..MaxChunks]
    BY DEF NoFile, Idle
  <2>2. screen' \in [Shells -> [is : {"none", "cut", "whole", "mixed"}, upto : 0..MaxChunks]]
    BY <1>15, <2>1 DEF ClosedTwice
  <2>3. writer' \in [Shells -> [Writers -> [at : {"idle", "due", "took", "cut"},
                                           upto : 0..MaxChunks]]]
    BY <1>15, <2>1 DEF ClosedTwice
  <2> QED
    BY <1>15, <2>2, <2>3
<1>16. ASSUME NEW s \in Shells, RemoveShellFiles(s) \/ GcDelete(s) \/ AdoptFails(s)
       PROVE  ReplayTypes'
  <2>1. UNCHANGED <<drawn, due>>
    BY <1>16 DEF RemoveShellFiles, GcDelete, AdoptFails
  <2>2. Unlinked(s) \/ \E t \in Shells : ClosedTwice(s, t)
    BY <1>16 DEF RemoveShellFiles, GcDelete, AdoptFails
  <2> QED
    BY <1>5, <1>15, <2>1, <2>2
<1>6. ASSUME NEW s \in Shells, ReaderReads(s) PROVE ReplayTypes'
  <2>1. drawn' \in [Shells -> 0..MaxChunks]
    BY <1>6 DEF ReaderReads
  <2>2. writer' \in [Shells -> [Writers -> [at : {"idle", "due", "took", "cut"},
                                           upto : 0..MaxChunks]]]
    BY <1>6 DEF ReaderReads, Writers
  <2> QED
    BY <1>6, <2>1, <2>2 DEF ReaderReads, Writers
<1>7. ASSUME NEW s \in Shells, FlushMetadata(s) PROVE ReplayTypes'
  BY <1>7 DEF FlushMetadata, Writers
<1>8. ASSUME NEW s \in Shells, AdoptOne(s) PROVE ReplayTypes'
  BY <1>8 DEF AdoptOne
<1>9. ASSUME NEW s \in Shells, NEW w \in Writers, Writer(s, w) PROVE ReplayTypes'
  <2>1. CASE WriterTakes(s, w)
    <3>1. writer' \in [Shells -> [Writers -> [at : {"idle", "due", "took", "cut"},
                                          upto : 0..MaxChunks]]]
      BY <2>1 DEF WriterTakes
    <3>2. due' \in [Shells -> 0..MaxChunks]
      BY <2>1 DEF WriterTakes
    <3>3. UNCHANGED <<screen, drawn>>
      BY <2>1 DEF WriterTakes
    <3> QED
      BY <3>1, <3>2, <3>3
  <2>2. CASE WriterCuts(s, w)
    <3>1. writer' \in [Shells -> [Writers -> [at : {"idle", "due", "took", "cut"},
                                          upto : 0..MaxChunks]]]
      <4>1. /\ writer[s] \in [Writers -> [at : {"idle", "due", "took", "cut"},
                                       upto : 0..MaxChunks]]
            /\ [writer[s][w] EXCEPT !.at = "cut"]
                  \in [at : {"idle", "due", "took", "cut"}, upto : 0..MaxChunks]
        OBVIOUS
      <4> QED
        BY <2>2, <4>1 DEF WriterCuts
    <3>2. screen' \in [Shells -> [is : {"none", "cut", "whole", "mixed"},
                                  upto : 0..MaxChunks]]
      BY <2>2 DEF WriterCuts
    <3>3. UNCHANGED <<drawn, due>>
      BY <2>2 DEF WriterCuts
    <3> QED
      BY <3>1, <3>2, <3>3
  <2>3. CASE WriterWrites(s, w)
    BY <2>3 DEF WriterWrites, Idle
  <2> QED
    BY <1>9, <2>1, <2>2, <2>3 DEF Writer
<1>10. CASE UNCHANGED vars
  BY <1>10 DEF vars
<1> QED
  BY Kinds, <1>1, <1>2, <1>3, <1>16, <1>6, <1>7, <1>8, <1>9, <1>10

LEMMA ShellTypesStep == TypeOK /\ [Next]_vars => ShellTypes'
<1> SUFFICES ASSUME ShellTypes, [Next]_vars PROVE ShellTypes'
  BY DEF TypeOK, ShellTypes
<1>0. MaxUpgrades \in Nat
  BY HotUpgradeAssumption DEF HotUpgradeAssumption
<1> USE <1>0 DEF ShellTypes, upgradeVars, shellVars, fileVars, history
<1>1. ASSUME NEW s \in Shells, Serves(s) PROVE ShellTypes'
  BY <1>1 DEF Serves, CreateInsert, CreateFinish, CleanupRemove, WaiterReaps, Exits
<1>2. CASE FlushDone \/ HandDone \/ UpgradeFails \/ AdoptDone \/ UpgradeLists \/ NewOpens
  BY <1>2 DEF FlushDone, HandDone, UpgradeFails, AdoptDone, UpgradeLists, NewOpens
<1>3. CASE GcList
  BY <1>3 DEF GcList
<1>4. CASE Exec
  <2>1. live' \in [on : BOOLEAN, keep : SUBSET Shells]
    BY <1>4 DEF Exec, NoList
  <2> QED
    BY <1>4, <2>1 DEF Exec
<1>5. ASSUME NEW s \in Shells, CreateSpawn(s) \/ CloseHandles(s) \/ RemoveShellFiles(s)
      PROVE  ShellTypes'
  BY <1>5 DEF CreateSpawn, CloseHandles, RemoveShellFiles
<1>6. ASSUME NEW s \in Shells, ReaderReads(s) \/ ReaderEnds(s) \/ GcDelete(s)
      PROVE  ShellTypes'
  BY <1>6 DEF ReaderReads, ReaderEnds, GcDelete
<1>7. ASSUME NEW s \in Shells, FlushMetadata(s) \/ Hand(s) PROVE ShellTypes'
  BY <1>7 DEF FlushMetadata, Hand
<1>8. ASSUME NEW s \in Shells, AdoptOne(s) \/ AdoptFails(s) PROVE ShellTypes'
  BY <1>8 DEF AdoptOne, AdoptFails
<1>9. ASSUME NEW s \in Shells, NEW w \in Writers, Writer(s, w) PROVE ShellTypes'
  BY <1>9 DEF Writer, WriterTakes, WriterCuts, WriterWrites
<1>10. CASE UNCHANGED vars
  BY <1>10 DEF vars
<1> QED
  BY Kinds, <1>1, <1>2, <1>3, <1>4, <1>5, <1>6, <1>7, <1>8, <1>9, <1>10 DEF Goes

LEMMA TypeInit == Init => TypeOK
<1> SUFFICES ASSUME Init PROVE TypeOK
  OBVIOUS
<1>0. /\ Busy \subseteq Fds /\ MaxChunks \in Nat /\ MaxUpgrades \in Nat
  BY HotUpgradeAssumption DEF HotUpgradeAssumption
<1>1. FdTypes
  BY DEF Init, FdTypes
<1>2. ReplayTypes
  BY <1>0 DEF Init, ReplayTypes, NoFile, Idle
<1>3. live \in [on : BOOLEAN, keep : SUBSET Shells]
  BY DEF Init, NoList
<1>4. ShellTypes
  BY <1>0, <1>3 DEF Init, ShellTypes
<1> QED
  BY <1>1, <1>2, <1>4 DEF TypeOK, FdTypes, ReplayTypes, ShellTypes

LEMMA TypeStep == TypeOK /\ [Next]_vars => TypeOK'
BY FdTypesStep, ReplayTypesStep, ShellTypesStep DEF TypeOK, FdTypes, ReplayTypes, ShellTypes

\* Every state is of the declared types.
THEOREM TypeCorrect == Spec => []TypeOK
BY TypeInit, TypeStep, PTL DEF Spec

LEMMA Typed == TypeOK => FdTypes /\ ReplayTypes /\ ShellTypes
BY DEF TypeOK, FdTypes, ReplayTypes, ShellTypes

-----------------------------------------------------------------------------
(* Shells on the map                                                         *)

LEMMA LifeStep ==
    ASSUME ShellTypes, LifeInv, [Next]_vars
    PROVE  LifeInv'
<1>0. MaxUpgrades \in Nat
  BY HotUpgradeAssumption DEF HotUpgradeAssumption
<1> USE <1>0 DEF ShellTypes, LifeInv, Upgrading, upgradeVars, shellVars, history
<1>1. ASSUME NEW s \in Shells, Serves(s) PROVE LifeInv'
  <2>1. CASE CreateInsert(s)
    BY <2>1 DEF CreateInsert
  <2>2. CASE CreateFinish(s)
    BY <2>2 DEF CreateFinish
  <2>3. CASE CleanupRemove(s)
    BY <2>3 DEF CleanupRemove
  <2>4. CASE WaiterReaps(s) \/ Exits(s)
    BY <2>4 DEF WaiterReaps, Exits
  <2> QED
    BY <1>1, <2>1, <2>2, <2>3, <2>4 DEF Serves
<1>2. CASE Goes
  BY <1>2 DEF Goes, FlushDone, HandDone, UpgradeFails, AdoptDone, GcList
<1>3. CASE UpgradeLists
  BY <1>3 DEF UpgradeLists
<1>4. CASE Exec
  BY <1>4 DEF Exec
<1>5. CASE NewOpens
  BY <1>5 DEF NewOpens
<1>6. ASSUME NEW s \in Shells, CreateSpawn(s) \/ CloseHandles(s) \/ RemoveShellFiles(s)
      PROVE  LifeInv'
  BY <1>6 DEF CreateSpawn, CloseHandles, RemoveShellFiles
<1>7. ASSUME NEW s \in Shells, ReaderReads(s) \/ ReaderEnds(s) \/ GcDelete(s)
      PROVE  LifeInv'
  BY <1>7 DEF ReaderReads, ReaderEnds, GcDelete
<1>8. ASSUME NEW s \in Shells, FlushMetadata(s) \/ Hand(s) PROVE LifeInv'
  BY <1>8 DEF FlushMetadata, Hand
<1>9. ASSUME NEW s \in Shells, AdoptOne(s) \/ AdoptFails(s) PROVE LifeInv'
  BY <1>9 DEF AdoptOne, AdoptFails
<1>10. ASSUME NEW s \in Shells, NEW w \in Writers, Writer(s, w) PROVE LifeInv'
  BY <1>10 DEF Writer, WriterTakes, WriterCuts, WriterWrites
<1>11. CASE UNCHANGED vars
  BY <1>11 DEF vars
<1> QED
  BY Kinds, <1>1, <1>2, <1>3, <1>4, <1>5, <1>6, <1>7, <1>8, <1>9, <1>10, <1>11

-----------------------------------------------------------------------------
(* Descriptors                                                               *)

LEMMA OwnedStep ==
    ASSUME FdTypes, ShellTypes, LifeInv, OwnedInv, FreshInv, [Next]_vars
    PROVE  OwnedInv'
<1>0. /\ NoFd \notin Fds /\ "free" \notin Shells /\ "own" \notin Shells
  BY HotUpgradeAssumption DEF HotUpgradeAssumption
<1> USE <1>0 DEF FdTypes, OwnedInv, fdVars, shellVars, history
<1> USE DEF ShellTypes
<1>1. ASSUME NEW s \in Shells, Serves(s) PROVE OwnedInv'
  <2>1. CASE CreateInsert(s) \/ CreateFinish(s)
    BY <2>1 DEF CreateInsert, CreateFinish
  <2>2. CASE CleanupRemove(s)
    BY <2>2 DEF CleanupRemove
  <2>3. CASE WaiterReaps(s) \/ Exits(s)
    BY <2>3 DEF WaiterReaps, Exits
  <2> QED
    BY <1>1, <2>1, <2>2, <2>3 DEF Serves
<1>2. CASE Goes
  BY <1>2 DEF Goes, FlushDone, HandDone, UpgradeFails, AdoptDone, GcList
<1>3. CASE UpgradeLists
  BY <1>3 DEF UpgradeLists
<1>4. CASE Exec
  BY <1>4 DEF Exec
<1>5. CASE NewOpens
  <2>1. UNCHANGED <<states, life, master, reader, stale>>
    BY <1>5 DEF NewOpens
  <2>2. CASE Free = {}
    BY <1>5, <2>1, <2>2 DEF NewOpens
  <2>3. CASE Free # {}
    <3>1. PICK k \in Free : fds' = [fds EXCEPT ![k] = "own"]
      BY <1>5, <2>3 DEF NewOpens
    <3>2. \A j \in Fds : fds[j] \in Shells => fds'[j] = fds[j]
      BY <3>1 DEF Free
    <3> QED
      BY <2>1, <3>2
  <2> QED
    BY <2>2, <2>3
<1>6. ASSUME NEW s \in Shells, CreateSpawn(s) PROVE OwnedInv'
  <2>1. PICK k \in Free, r \in Free :
           /\ Lowest(k, Free) /\ Lowest(r, Free \ {k})
           /\ fds' = [fds EXCEPT ![k] = s, ![r] = s]
           /\ master' = [master EXCEPT ![s] = k]
           /\ reader' = [reader EXCEPT ![s] = r]
    BY <1>6 DEF CreateSpawn
  <2>2. /\ \A j \in Fds : fds[j] \in Shells => fds'[j] = fds[j]
        /\ fds'[k] = s /\ fds'[r] = s /\ k # r /\ k \in Fds /\ r \in Fds
    BY <2>1 DEF Free, Lowest
  <2>3. \A t \in Shells \ {s} : /\ master'[t] = master[t] /\ reader'[t] = reader[t]
                               /\ life'[t] = life[t]
    BY <1>6, <2>1 DEF CreateSpawn
  <2>4. master'[s] = k /\ reader'[s] = r /\ states' = states /\ stale' = stale
    BY <1>6, <2>1 DEF CreateSpawn
  <2> QED
    BY <2>2, <2>3, <2>4
<1>7. ASSUME NEW s \in Shells, CloseHandles(s) PROVE OwnedInv'
  <2>1. s \notin states
    BY <1>7 DEF CloseHandles, LifeInv
  <2> QED
    BY <1>7, <2>1 DEF CloseHandles, CloseFd
<1>8. ASSUME NEW s \in Shells, ReaderEnds(s) PROVE OwnedInv'
  BY <1>8 DEF ReaderEnds, CloseFd
<1>9. ASSUME NEW s \in Shells, RemoveShellFiles(s) \/ ReaderReads(s) \/ GcDelete(s)
                               \/ FlushMetadata(s)
      PROVE  OwnedInv'
  BY <1>9 DEF RemoveShellFiles, ReaderReads, GcDelete, FlushMetadata
<1>10. ASSUME NEW s \in Shells, Hand(s) PROVE OwnedInv'
  BY <1>10 DEF Hand
<1>11. ASSUME NEW s \in Shells, AdoptOne(s) PROVE OwnedInv'
  <2>1. manifest[s] \in Fds /\ (stale = 0 => fds[manifest[s]] = s)
    BY <1>11 DEF AdoptOne, Handed, FreshInv, Adopting
  <2> QED
    BY <1>11, <2>1 DEF AdoptOne, Free
<1>12. ASSUME NEW s \in Shells, AdoptFails(s) PROVE OwnedInv'
  <2>1. /\ s \notin states /\ master[s] = NoFd /\ reader[s] = NoFd
        /\ stale = 0 => fds[manifest[s]] = s
    BY <1>12 DEF AdoptFails, Handed, FreshInv, Adopting
  <2> QED
    BY <1>12, <2>1 DEF AdoptFails, CloseFd
<1>13. ASSUME NEW s \in Shells, NEW w \in Writers, Writer(s, w) PROVE OwnedInv'
  BY <1>13 DEF Writer, WriterTakes, WriterCuts, WriterWrites
<1>14. CASE UNCHANGED vars
  BY <1>14 DEF vars
<1> QED
  BY Kinds, <1>1, <1>2, <1>3, <1>4, <1>5, <1>6, <1>7, <1>8, <1>9, <1>10, <1>11, <1>12, <1>13, <1>14

-----------------------------------------------------------------------------
(* Metadata                                                                  *)

LEMMA MetadataStep ==
    ASSUME ShellTypes, LifeInv, MetadataInv, FreshInv, [Next]_vars
    PROVE  MetadataInv'
<1> USE DEF ShellTypes, LifeInv, MetadataInv, Upgrading, upgradeVars, shellVars, fileVars,
            history
<1>1. ASSUME NEW s \in Shells, Serves(s) PROVE MetadataInv'
  <2>1. CASE CreateInsert(s)
    BY <2>1 DEF CreateInsert
  <2>2. CASE CreateFinish(s)
    BY <2>2 DEF CreateFinish
  <2>3. CASE CleanupRemove(s)
    BY <2>3 DEF CleanupRemove
  <2>4. CASE WaiterReaps(s) \/ Exits(s)
    BY <2>4 DEF WaiterReaps, Exits
  <2> QED
    BY <1>1, <2>1, <2>2, <2>3, <2>4 DEF Serves
<1>2. CASE Goes
  BY <1>2 DEF Goes, FlushDone, HandDone, UpgradeFails, AdoptDone, GcList
<1>3. CASE UpgradeLists
  BY <1>3 DEF UpgradeLists
<1>4. CASE Exec
  BY <1>4 DEF Exec
<1>5. CASE NewOpens
  BY <1>5 DEF NewOpens
<1>6. ASSUME NEW s \in Shells, CreateSpawn(s) \/ CloseHandles(s) PROVE MetadataInv'
  BY <1>6 DEF CreateSpawn, CloseHandles
<1>7. ASSUME NEW s \in Shells, RemoveShellFiles(s) PROVE MetadataInv'
  BY <1>7 DEF RemoveShellFiles
<1>8. ASSUME NEW s \in Shells, ReaderReads(s) \/ ReaderEnds(s) PROVE MetadataInv'
  BY <1>8 DEF ReaderReads, ReaderEnds
<1>9. ASSUME NEW s \in Shells, GcDelete(s) PROVE MetadataInv'
  BY <1>9 DEF GcDelete
<1>10. ASSUME NEW s \in Shells, FlushMetadata(s) \/ Hand(s) PROVE MetadataInv'
  BY <1>10 DEF FlushMetadata, Hand
<1>11. ASSUME NEW s \in Shells, AdoptOne(s) PROVE MetadataInv'
  BY <1>11 DEF AdoptOne, Adoptable
<1>12. ASSUME NEW s \in Shells, AdoptFails(s) PROVE MetadataInv'
  <2>1. s \notin states
    BY <1>12 DEF AdoptFails, FreshInv, Adopting
  <2> QED
    BY <1>12, <2>1 DEF AdoptFails
<1>13. ASSUME NEW s \in Shells, NEW w \in Writers, Writer(s, w) PROVE MetadataInv'
  BY <1>13 DEF Writer, WriterTakes, WriterCuts, WriterWrites
<1>14. CASE UNCHANGED vars
  BY <1>14 DEF vars
<1> QED
  BY Kinds, <1>1, <1>2, <1>3, <1>4, <1>5, <1>6, <1>7, <1>8, <1>9, <1>10, <1>11, <1>12, <1>13, <1>14

-----------------------------------------------------------------------------
(* The manifest                                                              *)

LEMMA HandStep ==
    ASSUME FdTypes, ShellTypes, LifeInv, OwnedInv, HandInv, [Next]_vars
    PROVE  HandInv'
<1>0. NoFd \notin Fds
  BY HotUpgradeAssumption DEF HotUpgradeAssumption
<1> USE <1>0 DEF FdTypes, ShellTypes, LifeInv, HandInv, Upgrading, Handed, fdVars,
                 upgradeVars, shellVars, history
<1>1. ASSUME NEW s \in Shells, Serves(s) PROVE HandInv'
  BY <1>1 DEF Serves, CreateInsert, CreateFinish, CleanupRemove, WaiterReaps, Exits
<1>2. CASE Goes
  BY <1>2 DEF Goes, FlushDone, HandDone, UpgradeFails, AdoptDone, GcList
<1>3. CASE UpgradeLists
  BY <1>3 DEF UpgradeLists
<1>4. CASE Exec \/ NewOpens
  BY <1>4 DEF Exec, NewOpens
<1>5. ASSUME NEW s \in Shells, CreateSpawn(s) PROVE HandInv'
  <2>1. /\ \A t \in Shells \ {s} : master'[t] = master[t]
        /\ Upgrading => s \notin listed
        /\ UNCHANGED <<inherit, phase, listed, todo, manifest, stale>>
    BY <1>5 DEF CreateSpawn
  <2> QED
    BY <2>1
<1>6. ASSUME NEW s \in Shells, CloseHandles(s) PROVE HandInv'
  <2>1. stale = 0 => \A t \in Shells \ {s} :
                        master[t] \in Fds => master[t] # master[s]
    BY DEF OwnedInv
  <2> QED
    BY <1>6, <2>1 DEF CloseHandles, CloseFd
<1>7. ASSUME NEW s \in Shells, ReaderEnds(s) PROVE HandInv'
  <2>1. stale = 0 => \A t \in Shells : master[t] \in Fds => master[t] # reader[s]
    BY <1>7 DEF OwnedInv, ReaderEnds
  <2> QED
    BY <1>7, <2>1 DEF ReaderEnds, CloseFd
<1>8. ASSUME NEW s \in Shells, RemoveShellFiles(s) \/ ReaderReads(s) \/ GcDelete(s)
      PROVE  HandInv'
  BY <1>8 DEF RemoveShellFiles, ReaderReads, GcDelete
<1>9. ASSUME NEW s \in Shells, FlushMetadata(s) PROVE HandInv'
  BY <1>9 DEF FlushMetadata
<1>10. ASSUME NEW s \in Shells, Hand(s) PROVE HandInv'
  <2>1. stale = 0 => \A t \in Shells \ {s} :
                        master[t] \in Fds => master[t] # master[s]
    BY DEF OwnedInv
  <2>2. CASE master[s] = NoFd
    BY <1>10, <2>2 DEF Hand
  <2>3. CASE master[s] # NoFd
    BY <1>10, <2>1, <2>3 DEF Hand
  <2> QED
    BY <2>2, <2>3
<1>11. ASSUME NEW s \in Shells, AdoptOne(s) \/ AdoptFails(s) PROVE HandInv'
  BY <1>11 DEF AdoptOne, AdoptFails
<1>12. ASSUME NEW s \in Shells, NEW w \in Writers, Writer(s, w) PROVE HandInv'
  BY <1>12 DEF Writer, WriterTakes, WriterCuts, WriterWrites
<1>13. CASE UNCHANGED vars
  BY <1>13 DEF vars
<1> QED
  BY Kinds, <1>1, <1>2, <1>3, <1>4, <1>5, <1>6, <1>7, <1>8, <1>9, <1>10, <1>11, <1>12, <1>13

LEMMA FreshStep ==
    ASSUME FdTypes, ReplayTypes, ShellTypes, LifeInv, OwnedInv, HandInv, FreshInv,
           [Next]_vars
    PROVE  FreshInv'
<1>0. /\ NoFd \notin Fds /\ "free" \notin Shells /\ "own" \notin Shells
  BY HotUpgradeAssumption DEF HotUpgradeAssumption
<1> DEFINE Apart(s) == /\ s \notin states /\ master[s] = NoFd /\ reader[s] = NoFd
                       /\ writer[s] = [w \in Writers |-> Idle]
<1> USE <1>0 DEF FdTypes, ShellTypes, FreshInv, Adopting, Handed, fdVars, upgradeVars,
                 shellVars, replayVars, history
<1>1. ASSUME NEW s \in Shells, Serves(s) PROVE FreshInv'
  BY <1>1 DEF Serves, CreateInsert, CreateFinish, CleanupRemove, WaiterReaps, Exits,
              HandlersRun
<1>2. CASE Goes \/ UpgradeLists
  BY <1>2 DEF Goes, FlushDone, HandDone, UpgradeFails, AdoptDone, GcList, UpgradeLists
<1>3. CASE Exec
  <2>1. \A s \in Handed' : Apart(s)'
    BY <1>3 DEF Exec
  <2>2. ASSUME NEW s \in Handed, stale' = 0 PROVE fds'[manifest[s]] = s
    <3>1. stale = 0 /\ master[s] = manifest[s] /\ manifest[s] \in Fds
      BY <1>3, <2>2 DEF Exec, LifeInv, Upgrading
    <3>2. s \in listed /\ todo = {} /\ phase = "exec"
      BY <1>3 DEF Exec, HandInv, LifeInv, Upgrading
    <3>3. manifest[s] \in inherit /\ fds[manifest[s]] = s
      BY <3>1, <3>2 DEF HandInv, OwnedInv
    <3> QED
      BY <1>3, <3>3 DEF Exec
  <2> QED
    BY <1>3, <2>1, <2>2 DEF Exec
<1>4. CASE NewOpens
  <2>1. \A s \in Handed : fds[manifest[s]] = s => fds'[manifest[s]] = s
    <3>1. CASE Free = {}
      BY <1>4, <3>1 DEF NewOpens
    <3>2. CASE Free # {}
      <4>1. PICK k \in Free : fds' = [fds EXCEPT ![k] = "own"]
        BY <1>4, <3>2 DEF NewOpens
      <4> QED
        BY <4>1 DEF Free
    <3> QED
      BY <3>1, <3>2
  <2> QED
    BY <1>4, <2>1 DEF NewOpens
<1>5. ASSUME NEW s \in Shells, CreateSpawn(s) \/ GcDelete(s) \/ FlushMetadata(s) \/ Hand(s)
      PROVE  FreshInv'
  BY <1>5 DEF CreateSpawn, GcDelete, FlushMetadata, Hand, HandlersRun
<1>6. ASSUME NEW s \in Shells, CloseHandles(s) PROVE FreshInv'
  <2>1. stale = 0 => master[s] \in Fds /\ fds[master[s]] = s
    BY <1>6 DEF CloseHandles, OwnedInv
  <2> QED
    BY <1>6, <2>1 DEF CloseHandles, CloseFd
<1>7. ASSUME NEW s \in Shells, ReaderEnds(s) PROVE FreshInv'
  <2>1. reader[s] # NoFd /\ (stale = 0 => fds[reader[s]] = s)
    BY <1>7 DEF ReaderEnds, OwnedInv
  <2> QED
    BY <1>7, <2>1 DEF ReaderEnds, CloseFd
<1>8. ASSUME NEW s \in Shells, RemoveShellFiles(s) PROVE FreshInv'
  <2>1. \A t \in Shells : writer[t] = [w \in Writers |-> Idle] => writer'[t] = writer[t]
    BY <1>8 DEF RemoveShellFiles, Unlinked, ReplayTypes, Idle
  <2> QED
    BY <1>8, <2>1 DEF RemoveShellFiles
<1>9. ASSUME NEW s \in Shells, ReaderReads(s) PROVE FreshInv'
  <2>1. reader[s] # NoFd
    BY <1>9 DEF ReaderReads
  <2> QED
    BY <1>9, <2>1 DEF ReaderReads, ReplayTypes
<1>10. ASSUME NEW s \in Shells, AdoptOne(s) PROVE FreshInv'
  <2>1. \A k \in Fds : fds[k] \in Shells => fds'[k] = fds[k]
    BY <1>10 DEF AdoptOne, Free
  <2>2. \A t \in Handed' : /\ t \in Handed /\ t # s /\ manifest'[t] = manifest[t]
                          /\ master'[t] = master[t] /\ reader'[t] = reader[t]
    BY <1>10 DEF AdoptOne
  <2>3. UNCHANGED <<phase, writer, stale>> /\ states' = states \cup {s}
    BY <1>10 DEF AdoptOne
  <2> QED
    BY <1>10, <2>1, <2>2, <2>3 DEF AdoptOne
<1>11. ASSUME NEW s \in Shells, AdoptFails(s) PROVE FreshInv'
  <2>1. \A t \in Shells : writer[t] = [w \in Writers |-> Idle] => writer'[t] = writer[t]
    <3>1. CASE Unlinked(s)
      BY <3>1 DEF Unlinked, ReplayTypes, Idle
    <3>2. ASSUME NEW t \in states, ClosedTwice(s, t)
          PROVE  \A u \in Shells : writer[u] = [w \in Writers |-> Idle] => writer'[u] = writer[u]
      <4>1. writer[t]["reader"].at = "took" /\ "reader" \in Writers
        BY <3>2 DEF ClosedTwice, Writers
      <4>2. writer[t] # [w \in Writers |-> Idle]
        BY <4>1 DEF Idle
      <4>3. \A u \in Shells \ {t} : writer'[u] = writer[u]
        BY <3>2 DEF ClosedTwice, ReplayTypes
      <4> QED
        BY <4>2, <4>3
    <3> QED
      BY <1>11, <3>1, <3>2 DEF AdoptFails
  <2> QED
    BY <1>11, <2>1 DEF AdoptFails, CloseFd
<1>12. ASSUME NEW s \in Shells, NEW w \in Writers, Writer(s, w) PROVE FreshInv'
  <2>1. writer[s][w].at # "idle" /\ \A t \in Shells \ {s} : writer'[t] = writer[t]
    BY <1>12 DEF Writer, WriterTakes, WriterCuts, WriterWrites, ReplayTypes
  <2>2. s \notin Handed \/ ~Adopting
    BY <2>1 DEF Idle
  <2>3. UNCHANGED <<fds, phase, manifest, states, master, reader, stale>>
    BY <1>12 DEF Writer, WriterTakes, WriterCuts, WriterWrites
  <2> QED
    BY <2>1, <2>2, <2>3
<1>13. CASE UNCHANGED vars
  BY <1>13 DEF vars
<1> QED
  BY Kinds, <1>1, <1>2, <1>3, <1>4, <1>5, <1>6, <1>7, <1>8, <1>9, <1>10, <1>11, <1>12, <1>13

-----------------------------------------------------------------------------
(* Survival                                                                  *)

\* While nothing of an owed shell changes, it stays owed.
LEMMA OwedKept ==
    ASSUME FdTypes, NEW s \in Shells, Owed(s), s \in metadata',
           UNCHANGED manifest, fds'[manifest[s]] = fds[manifest[s]],
           \A t \in Shells : /\ master'[t] \in {master[t], NoFd}
                             /\ reader'[t] \in {reader[t], NoFd}
    PROVE  Owed(s)'
BY DEF Owed, Handed

\* A step within a phase that leaves no shell missing and takes nothing from an owed one.
LEMMA SurvivalKept ==
    ASSUME SurvivalInv, UNCHANGED <<phase, upgrades, stale>>,
           \A s \in Shells : Missing(s)' => Missing(s),
           \A s \in Shells : Adopting /\ Missing(s)' /\ Owed(s) => Owed(s)'
    PROVE  SurvivalInv'
BY DEF SurvivalInv, Adopting, Upgrading

LEMMA SurvivalStep ==
    ASSUME FdTypes, ShellTypes, LifeInv, OwnedInv, MetadataInv, HandInv, FreshInv,
           SurvivalInv, [Next]_vars
    PROVE  SurvivalInv'
<1>0. /\ NoFd \notin Fds /\ "free" \notin Shells /\ "own" \notin Shells
  BY HotUpgradeAssumption DEF HotUpgradeAssumption
<1> USE DEF fdVars, upgradeVars, shellVars, fileVars, history
<1>1. ASSUME NEW s \in Shells, Serves(s) PROVE SurvivalInv'
  <2> USE DEF Serves, CreateInsert, CreateFinish, CleanupRemove, WaiterReaps, Exits
  <2>1. UNCHANGED <<phase, upgrades, stale, fds, manifest, master, reader>>
    BY <1>1
  <2>2. \A t \in Shells : Missing(t)' => Missing(t)
    BY <1>1 DEF Missing, ShellTypes, LifeInv
  <2>3. metadata \subseteq metadata'
    BY <1>1
  <2> QED
    BY <2>1, <2>2, <2>3, SurvivalKept, OwedKept DEF Owed
<1>2. CASE GcList
  <2>1. UNCHANGED <<phase, upgrades, stale, fds, manifest, master, reader, metadata>>
    BY <1>2 DEF GcList
  <2>2. \A t \in Shells : Missing(t)' => Missing(t)
    BY <1>2 DEF GcList, Missing
  <2> QED
    BY <2>1, <2>2, SurvivalKept, OwedKept DEF Owed
<1>3. CASE FlushDone \/ HandDone \/ UpgradeFails
  BY <1>3 DEF FlushDone, HandDone, UpgradeFails, SurvivalInv, Missing, Upgrading, Adopting
<1>4. CASE AdoptDone
  BY <1>4 DEF AdoptDone, SurvivalInv, Missing, Upgrading, Adopting, Owed
<1>5. CASE UpgradeLists
  BY <1>5 DEF UpgradeLists, SurvivalInv, Missing, Upgrading, Adopting
<1>6. CASE Exec
  <2> SUFFICES ASSUME NEW s \in Shells, Missing(s)', stale' \in {0, upgrades'}
               PROVE  Owed(s)'
    BY <1>6 DEF Exec, SurvivalInv, Upgrading, Adopting
  <2>00. MaxUpgrades \in Nat
    BY HotUpgradeAssumption DEF HotUpgradeAssumption
  <2>0. stale \in Nat /\ upgrades \in Nat
    BY <2>00 DEF ShellTypes
  <2>1. stale = 0 /\ phase = "exec" /\ todo = {}
    BY <1>6, <2>0 DEF Exec, LifeInv, Upgrading
  <2>2. life[s] \in {"running", "inserted"} /\ s \notin late' \cup orphaned \cup starved
    BY <1>6 DEF Exec, Missing, ShellTypes
  <2>3. s \in states
    BY <2>1, <2>2, <1>6 DEF SurvivalInv, Missing, Upgrading, LifeInv, Exec
  <2>4. s \in listed
    BY <1>6, <2>2, <2>3 DEF Exec
  <2>5. s \in metadata'
    BY <1>6, <2>1, <2>2, <2>3, <2>4 DEF Exec, MetadataInv
  <2>6. manifest[s] = master[s] /\ master[s] \in inherit
    BY <1>0, <2>1, <2>3, <2>4 DEF HandInv, OwnedInv
  <2>7. manifest[s] \in Fds /\ fds'[manifest[s]] = s
    BY <1>6, <2>1, <2>3, <2>6 DEF Exec, OwnedInv, FdTypes
  <2>8. \A t \in Handed : manifest[t] = manifest[s] => t = s
    BY <2>1, <2>4, <2>6 DEF HandInv
  <2> QED
    BY <1>0, <1>6, <2>5, <2>7, <2>8 DEF Exec, Owed, Handed
<1>7. CASE NewOpens
  <2>1. \A k \in Fds : fds[k] \in Shells => fds'[k] = fds[k]
    <3>1. CASE Free = {}
      BY <1>7, <3>1 DEF NewOpens
    <3>2. CASE Free # {}
      <4>1. PICK k \in Free : fds' = [fds EXCEPT ![k] = "own"]
        BY <1>7, <3>2 DEF NewOpens
      <4> QED
        BY <1>0, <4>1 DEF Free, FdTypes
    <3> QED
      BY <3>1, <3>2
  <2>2. \A s \in Shells : Owed(s) => Owed(s)'
    <3> SUFFICES ASSUME NEW s \in Shells, Owed(s) PROVE Owed(s)'
      OBVIOUS
    <3>1. manifest[s] \in Fds
      BY DEF Owed, Handed, FdTypes
    <3>2. fds'[manifest[s]] = fds[manifest[s]]
      BY <2>1, <3>1 DEF Owed
    <3> QED
      BY <1>7, <3>2, OwedKept DEF NewOpens, Owed
  <2> QED
    BY <1>7, <2>2 DEF NewOpens, SurvivalInv, Missing, Upgrading, Adopting
<1>8. ASSUME NEW s \in Shells, CreateSpawn(s) PROVE SurvivalInv'
  <2>1. UNCHANGED <<phase, upgrades, stale>> /\ ~Adopting
    BY <1>8 DEF CreateSpawn, HandlersRun, Adopting
  <2>2. \A t \in Shells : Missing(t)' => Missing(t)
    BY <1>8 DEF CreateSpawn, Missing, ShellTypes
  <2> QED
    BY <2>1, <2>2, SurvivalKept
<1>9. ASSUME NEW s \in Shells, NEW k \in Fds \cup {NoFd}, CloseFd(k),
             k \in {master[s], reader[s]},
             UNCHANGED <<phase, upgrades, stale, manifest, metadata>>,
             \A t \in Shells : Missing(t)' => Missing(t),
             \A t \in Shells : /\ master'[t] \in {master[t], NoFd}
                               /\ reader'[t] \in {reader[t], NoFd}
      PROVE  SurvivalInv'
  <2> SUFFICES ASSUME NEW t \in Shells, Owed(t) PROVE Owed(t)'
    BY <1>9, SurvivalKept
  <2>1. manifest[t] # k
    BY <1>9 DEF Owed
  <2>2. fds'[manifest[t]] = fds[manifest[t]]
    BY <1>0, <1>9, <2>1 DEF CloseFd, FdTypes, Owed, Handed
  <2> QED
    BY <1>9, <2>2, OwedKept DEF Owed
<1>10. ASSUME NEW s \in Shells, CloseHandles(s) PROVE SurvivalInv'
  <2>1. \A t \in Shells : Missing(t)' => Missing(t)
    BY <1>10 DEF CloseHandles, Missing, ShellTypes
  <2>2. master[s] \in Fds \cup {NoFd}
    BY DEF FdTypes
  <2> QED
    BY <1>9, <1>10, <2>1, <2>2 DEF CloseHandles, FdTypes
<1>11. ASSUME NEW s \in Shells, ReaderEnds(s) PROVE SurvivalInv'
  <2>1. \A t \in Shells : Missing(t)' => Missing(t)
    BY <1>11 DEF ReaderEnds, Missing
  <2> QED
    BY <1>9, <1>11, <2>1 DEF ReaderEnds, FdTypes
<1>12. ASSUME NEW s \in Shells, RemoveShellFiles(s) PROVE SurvivalInv'
  <2>1. UNCHANGED <<phase, upgrades, stale, fds, manifest, master, reader>>
    BY <1>12 DEF RemoveShellFiles
  <2>2. \A t \in Shells : Missing(t)' => Missing(t) /\ t # s
    BY <1>12 DEF RemoveShellFiles, Missing, ShellTypes
  <2>3. metadata' = metadata \ {s}
    BY <1>12 DEF RemoveShellFiles
  <2> QED
    BY <2>1, <2>2, <2>3, SurvivalKept, OwedKept DEF Owed
<1>13. ASSUME NEW s \in Shells, GcDelete(s) PROVE SurvivalInv'
  <2>1. UNCHANGED <<phase, upgrades, stale>> /\ ~Adopting
    BY <1>13 DEF GcDelete, HandlersRun, Adopting
  <2>2. \A t \in Shells : Missing(t)' => Missing(t)
    BY <1>13 DEF GcDelete, Missing
  <2> QED
    BY <2>1, <2>2, SurvivalKept
<1>14. ASSUME NEW s \in Shells, ReaderReads(s) PROVE SurvivalInv'
  <2>1. UNCHANGED <<phase, upgrades, stale, fds, manifest, master, reader, metadata>>
    BY <1>14 DEF ReaderReads
  <2>2. \A t \in Shells : Missing(t)' => Missing(t)
    BY <1>14 DEF ReaderReads, Missing
  <2> QED
    BY <2>1, <2>2, SurvivalKept, OwedKept DEF Owed
<1>15. ASSUME NEW s \in Shells, FlushMetadata(s) \/ Hand(s) PROVE SurvivalInv'
  <2>1. UNCHANGED <<phase, upgrades, stale>> /\ ~Adopting
    BY <1>15 DEF FlushMetadata, Hand, Adopting
  <2>2. \A t \in Shells : Missing(t)' => Missing(t)
    BY <1>15 DEF FlushMetadata, Hand, Missing
  <2> QED
    BY <2>1, <2>2, SurvivalKept
<1>16. ASSUME NEW s \in Shells, AdoptOne(s) PROVE SurvivalInv'
  <2>1. UNCHANGED <<phase, upgrades, stale, metadata>> /\ s \in Handed
    BY <1>16 DEF AdoptOne
  <2>2. \A t \in Shells : Missing(t)' => Missing(t) /\ t # s
    BY <1>16 DEF AdoptOne, Missing, ShellTypes
  <2>3. PICK r \in Free : /\ fds' = [fds EXCEPT ![r] = fds[manifest[s]]]
                         /\ reader' = [reader EXCEPT ![s] = r]
    BY <1>16 DEF AdoptOne
  <2>4. ASSUME NEW t \in Shells, Missing(t)', Owed(t) PROVE Owed(t)'
    <3>1. manifest[t] \in Fds /\ fds[manifest[t]] = t /\ t # s
      BY <2>2, <2>4 DEF Owed, Handed, FdTypes
    <3>2. manifest[t] # r /\ manifest[t] # manifest[s]
      BY <1>0, <2>1, <2>4, <3>1, <2>3 DEF Free, Owed
    <3>3. fds'[manifest[t]] = t
      BY <2>3, <3>1, <3>2 DEF FdTypes
    <3>4. \A x \in Shells : master'[x] # manifest[t] /\ reader'[x] # manifest[t]
      BY <1>16, <2>3, <2>4, <3>2 DEF AdoptOne, Owed, FdTypes
    <3>5. manifest' = [manifest EXCEPT ![s] = NoFd]
      BY <1>16 DEF AdoptOne
    <3>6. manifest'[t] = manifest[t] /\ Handed' \subseteq Handed /\ t \in Handed'
      BY <1>0, <3>1, <3>5 DEF Handed, FdTypes
    <3>7. \A x \in Handed' : manifest'[x] = manifest[x]
      BY <3>5 DEF Handed, FdTypes
    <3> QED
      BY <2>1, <2>4, <3>3, <3>4, <3>6, <3>7 DEF Owed
  <2> QED
    BY <2>1, <2>2, <2>4, SurvivalKept
<1>17. ASSUME NEW s \in Shells, AdoptFails(s) PROVE SurvivalInv'
  <2>1. UNCHANGED <<phase, upgrades, stale, master, reader>> /\ s \in Handed
    BY <1>17 DEF AdoptFails
  <2>2. \A t \in Shells : Missing(t)' => Missing(t)
    BY <1>17 DEF AdoptFails, Missing
  <2>3. ASSUME NEW t \in Shells, Missing(t)', Owed(t) PROVE Owed(t)'
    <3>1. t # s
      BY <1>0, <1>17, <2>3 DEF AdoptFails, Adoptable, Owed, Missing
    <3>2. manifest[t] \in Fds /\ manifest[t] # manifest[s] /\ manifest[s] \in Fds
      BY <2>1, <2>3, <3>1 DEF Owed, Handed, FdTypes
    <3>3. fds'[manifest[t]] = fds[manifest[t]]
      BY <1>17, <3>2 DEF AdoptFails, CloseFd, FdTypes
    <3>4. manifest' = [manifest EXCEPT ![s] = NoFd] /\ metadata' = metadata \ {s}
      BY <1>17 DEF AdoptFails
    <3>5. manifest'[t] = manifest[t] /\ Handed' \subseteq Handed /\ t \in Handed'
      BY <1>0, <3>1, <3>2, <3>4 DEF Handed, FdTypes
    <3>6. \A x \in Handed' : manifest'[x] = manifest[x]
      BY <3>4 DEF Handed, FdTypes
    <3> QED
      BY <2>1, <2>3, <3>1, <3>3, <3>4, <3>5, <3>6 DEF Owed
  <2> QED
    BY <2>1, <2>2, <2>3, SurvivalKept
<1>18. ASSUME NEW s \in Shells, NEW w \in Writers, Writer(s, w) PROVE SurvivalInv'
  <2> USE DEF Writer, WriterTakes, WriterCuts, WriterWrites
  <2>1. UNCHANGED <<phase, upgrades, stale, fds, manifest, master, reader, metadata>>
    BY <1>18
  <2>2. \A t \in Shells : Missing(t)' => Missing(t)
    BY <1>18 DEF Missing
  <2> QED
    BY <2>1, <2>2, SurvivalKept, OwedKept DEF Owed
<1>19. CASE UNCHANGED vars
  BY <1>19 DEF vars, SurvivalInv, Missing, Owed, Handed, Upgrading, Adopting
<1> QED
  BY Kinds, <1>1, <1>2, <1>3, <1>4, <1>5, <1>6, <1>7, <1>8, <1>10, <1>11, <1>12, <1>13,
     <1>14, <1>15, <1>16, <1>17, <1>18, <1>19 DEF Goes

-----------------------------------------------------------------------------
(* Screens                                                                   *)

\* The steps that touch no screen and no terminal model, and leave the phase alone.
Elsewhere(s) == CreateSpawn(s) \/ CloseHandles(s) \/ ReaderEnds(s) \/ Hand(s)

LEMMA ScreenStep ==
    ASSUME ReplayTypes, ShellTypes, LifeInv, FreshInv, ScreenInv, [Next]_vars
    PROVE  ScreenInv'
<1>0. MaxChunks \in Nat
  BY HotUpgradeAssumption DEF HotUpgradeAssumption
<1> USE <1>0 DEF ReplayTypes, ScreenInv, replayVars, upgradeVars
<1>1. ASSUME NEW s \in Shells, Serves(s) \/ Elsewhere(s) PROVE ScreenInv'
  BY <1>1 DEF Serves, CreateInsert, CreateFinish, CleanupRemove, WaiterReaps, Exits,
              Elsewhere, CreateSpawn, CloseHandles, ReaderEnds, Hand
<1>2. CASE HandDone \/ UpgradeFails \/ AdoptDone \/ GcList \/ UpgradeLists \/ NewOpens
  BY <1>2 DEF HandDone, UpgradeFails, AdoptDone, GcList, UpgradeLists, NewOpens
<1>3. CASE FlushDone
  BY <1>3 DEF FlushDone, Flushed
<1>4. CASE Exec
  BY <1>4 DEF Exec, Idle, Writers
<1>5. ASSUME UNCHANGED <<drawn, due, phase, listed, todo>>,
             \A t \in Shells, w \in Writers : writer'[t][w] \in {writer[t][w], Idle}
      PROVE  ScreenInv'
  BY <1>5 DEF Idle, Writers
<1>6. ASSUME NEW s \in Shells, RemoveShellFiles(s) \/ GcDelete(s) \/ AdoptFails(s)
      PROVE  ScreenInv'
  <2>1. UNCHANGED <<drawn, due, phase, listed, todo>>
    BY <1>6 DEF RemoveShellFiles, GcDelete, AdoptFails
  <2>2. CASE Unlinked(s)
    <3>1. \A t \in Shells, w \in Writers : writer'[t][w] \in {writer[t][w], Idle}
      BY <2>2 DEF Unlinked
    <3> QED
      BY <1>5, <2>1, <3>1
  <2>3. ASSUME NEW u \in states, ClosedTwice(s, u) PROVE ScreenInv'
    <3>1. \A t \in Shells, w \in Writers : writer'[t][w] \in {writer[t][w], Idle}
      BY <2>3 DEF ClosedTwice, Writers
    <3> QED
      BY <1>5, <2>1, <3>1
  <2> QED
    BY <1>6, <2>2, <2>3 DEF RemoveShellFiles, GcDelete, AdoptFails
<1>7. ASSUME NEW s \in Shells, ReaderReads(s) PROVE ScreenInv'
  BY <1>7 DEF ReaderReads, Writers
<1>8. ASSUME NEW s \in Shells, FlushMetadata(s) PROVE ScreenInv'
  <2>1. /\ \A t \in Shells : writer'[t]["reader"] = writer[t]["reader"]
        /\ \A t \in Shells \ {s} : writer'[t] = writer[t]
        /\ writer'[s]["upgrade"].at = "due"
        /\ s \in todo /\ todo' = todo \ {s} /\ phase = "flush"
        /\ UNCHANGED <<phase, listed, drawn, due>>
    BY <1>8 DEF FlushMetadata, Writers
  <2>2. todo \subseteq listed
    BY DEF LifeInv
  <2> QED
    BY <2>1, <2>2
<1>9. ASSUME NEW s \in Shells, AdoptOne(s) PROVE ScreenInv'
  <2>1. writer[s] = [w \in Writers |-> Idle]
    BY <1>9 DEF AdoptOne, FreshInv, Adopting
  <2> QED
    BY <1>9, <2>1 DEF AdoptOne, Idle, Writers
<1>10. ASSUME NEW s \in Shells, NEW w \in Writers, Writer(s, w) PROVE ScreenInv'
  <2>1. CASE WriterTakes(s, w)
    BY <2>1 DEF WriterTakes, Writers
  <2>2. CASE WriterCuts(s, w)
    BY <2>2 DEF WriterCuts, Writers
  <2>3. CASE WriterWrites(s, w)
    BY <2>3 DEF WriterWrites, Idle, Writers
  <2> QED
    BY <1>10, <2>1, <2>2, <2>3 DEF Writer
<1>11. CASE UNCHANGED vars
  BY <1>11 DEF vars
<1> QED
  BY Kinds, <1>1, <1>2, <1>3, <1>4, <1>6, <1>7, <1>8, <1>9, <1>10, <1>11
     DEF Goes, Elsewhere

LEMMA FlushStep ==
    ASSUME ReplayTypes, ShellTypes, LifeInv, ScreenInv, FlushInv, [Next]_vars
    PROVE  FlushInv'
<1>0. MaxChunks \in Nat
  BY HotUpgradeAssumption DEF HotUpgradeAssumption
<1>0a. listed \subseteq Shells
  BY DEF ShellTypes
<1> USE <1>0 DEF ReplayTypes, FlushInv, Upgrading, replayVars, upgradeVars, shellVars,
                 history
<1>1. ASSUME NEW s \in Shells, Serves(s) \/ Elsewhere(s) PROVE FlushInv'
  <2>1. UNCHANGED <<phase, listed, screen, drawn, due, writer, orphaned>>
    BY <1>1 DEF Serves, CreateInsert, CreateFinish, CleanupRemove, WaiterReaps, Exits,
                Elsewhere, CreateSpawn, CloseHandles, ReaderEnds, Hand
  <2>2. phase = "flush" => todo' = todo
    BY <1>1 DEF Serves, CreateInsert, CreateFinish, CleanupRemove, WaiterReaps, Exits,
                Elsewhere, CreateSpawn, CloseHandles, ReaderEnds, Hand
  <2>3. Upgrading => states' \cap listed \subseteq states
    BY <1>1 DEF Serves, CreateInsert, CreateFinish, CleanupRemove, WaiterReaps, Exits,
                Elsewhere, CreateSpawn, CloseHandles, ReaderEnds, Hand, LifeInv, ShellTypes
  <2> QED
    BY <2>1, <2>2, <2>3 DEF ToFlush, Kept, Cutting
<1>2. CASE HandDone \/ UpgradeFails \/ AdoptDone \/ GcList \/ UpgradeLists \/ NewOpens
           \/ Exec
  BY <1>2 DEF HandDone, UpgradeFails, AdoptDone, GcList, UpgradeLists, NewOpens, Exec,
              ToFlush, Kept, Cutting
<1>3. CASE FlushDone
  BY <1>3 DEF FlushDone, Flushed, ToFlush, Kept, Cutting, ShellTypes
<1>4. ASSUME NEW s \in Shells, Unlinked(s), UNCHANGED <<due, phase, listed, todo>>,
             states' = states, Upgrading => s \notin states \/ s \in orphaned',
             orphaned \subseteq orphaned'
      PROVE  FlushInv'
  <2>1. \A t \in Shells \ {s} : writer'[t] = writer[t] /\ screen'[t] = screen[t]
    BY <1>4 DEF Unlinked
  <2> HIDE DEF ReplayTypes
  <2> QED
    BY <1>0a, <1>4, <2>1 DEF ToFlush, Kept, Cutting
<1>5. ASSUME NEW s \in Shells, RemoveShellFiles(s) PROVE FlushInv'
  BY <1>4, <1>5 DEF RemoveShellFiles, LifeInv
<1>6. ASSUME NEW s \in Shells, GcDelete(s) PROVE FlushInv'
  BY <1>4, <1>6 DEF GcDelete
<1>7. ASSUME NEW s \in Shells, AdoptOne(s) \/ AdoptFails(s) PROVE FlushInv'
  BY <1>7 DEF AdoptOne, AdoptFails
<1>8. ASSUME NEW s \in Shells, ReaderReads(s) PROVE FlushInv'
  <2>1. UNCHANGED <<phase, listed, todo, states, screen, due, orphaned>>
    BY <1>8 DEF ReaderReads
  <2>2. \A t \in Shells : /\ writer'[t]["upgrade"] = writer[t]["upgrade"]
                          /\ Cutting(t) => Cutting(t)'
    BY <1>8 DEF ReaderReads, Cutting, Writers
  <2> QED
    BY <2>1, <2>2 DEF ToFlush, Kept, ShellTypes
<1>9. ASSUME NEW s \in Shells, FlushMetadata(s) PROVE FlushInv'
  <2>1. /\ \A t \in Shells : writer'[t]["reader"] = writer[t]["reader"]
        /\ \A t \in Shells \ {s} : writer'[t] = writer[t]
        /\ writer'[s]["upgrade"].at = "due"
        /\ todo' = todo \ {s} /\ phase = "flush"
        /\ UNCHANGED <<phase, listed, states, screen, due, orphaned>>
    BY <1>9 DEF FlushMetadata, Writers
  <2> QED
    BY <2>1 DEF ToFlush, Kept, Cutting, ShellTypes
<1>10. ASSUME NEW s \in Shells, NEW w \in Writers, Writer(s, w) PROVE FlushInv'
  <2>0. UNCHANGED <<phase, listed, todo, states, orphaned>>
    BY <1>10 DEF Writer, WriterTakes, WriterCuts, WriterWrites
  <2>1. CASE WriterTakes(s, w)
    <3>1. /\ UNCHANGED screen
          /\ \A t \in Shells : Cutting(t) => Cutting(t)'
          /\ \A t \in Shells : ToFlush(t) => ToFlush(t)'
          /\ \A t \in Shells : due'[t] = due[t] \/ (ToFlush(t)' /\ phase = "flush")
      BY <2>0, <2>1 DEF WriterTakes, Writers, Cutting, ToFlush, ScreenInv
    <3> QED
      BY <2>0, <3>1 DEF Kept, ShellTypes
  <2>2. CASE WriterCuts(s, w)
    <3>1. /\ UNCHANGED due
          /\ \A t \in Shells \ {s} : screen'[t] = screen[t] /\ writer'[t] = writer[t]
          /\ w = "reader" => Cutting(s)'
          /\ w = "upgrade" => ToFlush(s)'
      BY <2>0, <2>2 DEF WriterCuts, Writers, Cutting, ToFlush, ScreenInv
    <3>2. ToFlush(s)' \/ Cutting(s)'
      BY <3>1 DEF Writers
    <3> HIDE DEF ReplayTypes
    <3> QED
      BY <1>0a, <2>0, <3>1, <3>2 DEF ToFlush, Kept, Cutting
  <2>3. CASE WriterWrites(s, w)
    <3>1. /\ UNCHANGED due
          /\ \A t \in Shells \ {s} : screen'[t] = screen[t] /\ writer'[t] = writer[t]
      BY <2>3 DEF WriterWrites
    <3>2. Kept(s)'
      <4>1. /\ writer[s][w].upto >= due[s]
        BY <2>3 DEF WriterWrites, ScreenInv, Writers
      <4>2. /\ screen'[s].is \in {"whole", "mixed"}
            /\ screen'[s].upto = writer[s][w].upto
        BY <2>3 DEF WriterWrites
      <4> QED
        BY <3>1, <4>1, <4>2 DEF Kept
    <3> HIDE DEF ReplayTypes
    <3> QED
      BY <1>0a, <2>0, <3>1, <3>2 DEF ToFlush, Kept, Cutting
  <2> QED
    BY <1>10, <2>1, <2>2, <2>3 DEF Writer
<1>11. CASE UNCHANGED vars
  BY <1>11 DEF vars, ToFlush, Kept, Cutting
<1> QED
  BY Kinds, <1>1, <1>2, <1>3, <1>5, <1>6, <1>7, <1>8, <1>9, <1>10, <1>11
     DEF Goes, Elsewhere

\* After execv nobody writes the screen of a shell that is still to be adopted.
LEMMA KeptStep ==
    ASSUME FdTypes, ReplayTypes, ShellTypes, LifeInv, HandInv, FreshInv, FlushInv,
           ScreenSurvivesFlush, [Next]_vars
    PROVE  ScreenSurvivesFlush'
<1> DEFINE Goal(s) == (Adopting /\ life[s] = "running" /\ s \notin orphaned) =>
                          Kept(s) \/ s \in cut
<1>1. ScreenSurvivesFlush <=> \A s \in Handed : Goal(s)
  BY DEF ScreenSurvivesFlush, Adopting, Kept
<1>2. ScreenSurvivesFlush' <=> \A s \in Handed' : Goal(s)'
  BY DEF ScreenSurvivesFlush, Adopting, Kept
<1> SUFFICES ASSUME NEW s \in Handed', Adopting', life'[s] = "running",
                    s \notin orphaned'
             PROVE  Kept(s)' \/ s \in cut'
  BY <1>2
<1>3. CASE Exec
  <2>1. s \in Handed /\ s \in listed /\ todo = {} /\ phase = "exec"
    BY <1>3 DEF Exec, HandInv, LifeInv, Upgrading, Handed
  <2>2. life[s] \in {"inserted", "running"} /\ s \notin orphaned
    BY <1>3, <2>1 DEF Exec, Handed, ShellTypes
  <2>3. s \in states
    BY <2>1, <2>2 DEF LifeInv, Upgrading, Handed
  <2>4. Kept(s) \/ Cutting(s)
    BY <2>1, <2>2, <2>3 DEF FlushInv, ToFlush, Upgrading
  <2> QED
    BY <1>3, <2>1, <2>4 DEF Exec, Kept, Cutting, Handed, replayVars
<1>4. ASSUME Adopting, s \in Handed, life[s] = "running", UNCHANGED <<cut, orphaned>>,
             screen'[s] = screen[s], due'[s] = due[s]
      PROVE  Kept(s)' \/ s \in cut'
  BY <1>1, <1>4 DEF Kept
<1> USE DEF replayVars, upgradeVars, shellVars, history, Adopting, HandlersRun
<1>5. ASSUME NEW t \in Shells, Serves(t) \/ Elsewhere(t) PROVE Kept(s)' \/ s \in cut'
  BY <1>4, <1>5 DEF Serves, CreateInsert, CreateFinish, CleanupRemove, WaiterReaps, Exits,
              Elsewhere, CreateSpawn, CloseHandles, ReaderEnds, Hand, Handed, ShellTypes
<1>6. CASE Goes \/ UpgradeLists \/ NewOpens
  BY <1>4, <1>6 DEF Goes, FlushDone, HandDone, UpgradeFails, AdoptDone, GcList, UpgradeLists,
              NewOpens, Handed
<1>7. ASSUME NEW t \in Shells, RemoveShellFiles(t) PROVE Kept(s)' \/ s \in cut'
  BY <1>4, <1>7 DEF RemoveShellFiles, Unlinked, Handed, ShellTypes, ReplayTypes
<1>8. ASSUME NEW t \in Shells, GcDelete(t) \/ FlushMetadata(t) PROVE Kept(s)' \/ s \in cut'
  BY <1>8 DEF GcDelete, FlushMetadata
<1>9. ASSUME NEW t \in Shells, ReaderReads(t) PROVE Kept(s)' \/ s \in cut'
  BY <1>4, <1>9 DEF ReaderReads, Handed
<1>10. ASSUME NEW t \in Shells, AdoptOne(t) PROVE Kept(s)' \/ s \in cut'
  <2>1. s \in Handed /\ s # t /\ s \in Shells
    BY <1>10 DEF AdoptOne, Handed, FdTypes
  <2> QED
    BY <1>4, <1>10, <2>1 DEF AdoptOne, ShellTypes, ReplayTypes
<1>11. ASSUME NEW t \in Shells, AdoptFails(t) PROVE Kept(s)' \/ s \in cut'
  <2>1. s \in Handed /\ s # t /\ s \in Shells
    BY <1>11 DEF AdoptFails, Handed, FdTypes
  <2>2. s \notin states
    BY <1>11, <2>1 DEF AdoptFails, FreshInv
  <2>3. screen'[s] = screen[s]
    <3>1. CASE Unlinked(t)
      BY <2>1, <3>1 DEF Unlinked, ReplayTypes
    <3>2. ASSUME NEW u \in states, ClosedTwice(t, u) PROVE screen'[s] = screen[s]
      BY <2>1, <2>2, <3>2 DEF ClosedTwice, ReplayTypes
    <3> QED
      BY <1>11, <3>1, <3>2 DEF AdoptFails
  <2> QED
    BY <1>4, <1>11, <2>1, <2>3 DEF AdoptFails
<1>12. ASSUME NEW t \in Shells, NEW w \in Writers, Writer(t, w)
       PROVE  Kept(s)' \/ s \in cut'
  <2>1. UNCHANGED <<phase, manifest, life, cut, orphaned>> /\ writer[t][w].at # "idle"
    BY <1>12 DEF Writer, WriterTakes, WriterCuts, WriterWrites
  <2>2. s \in Handed /\ s \in Shells
    BY <2>1 DEF Handed
  <2>3. s # t
    BY <2>1, <2>2 DEF FreshInv, Idle
  <2>4. screen'[s] = screen[s] /\ due'[s] = due[s]
    BY <1>12, <2>2, <2>3 DEF Writer, WriterTakes, WriterCuts, WriterWrites, ReplayTypes
  <2> QED
    BY <1>4, <2>1, <2>2, <2>4
<1>13. CASE UNCHANGED vars
  BY <1>4, <1>13 DEF vars, Handed
<1> QED
  BY Kinds, <1>3, <1>5, <1>6, <1>7, <1>8, <1>9, <1>10, <1>11, <1>12, <1>13 DEF Elsewhere

-----------------------------------------------------------------------------
(* The theorems                                                              *)

IInv ==
    /\ TypeOK
    /\ LifeInv /\ OwnedInv /\ MetadataInv /\ HandInv /\ FreshInv /\ SurvivalInv
    /\ ScreenInv /\ FlushInv /\ ScreenSurvivesFlush

LEMMA Inductive == Spec => []IInv
<1>1. Init => IInv
  <2> SUFFICES ASSUME Init PROVE IInv
    OBVIOUS
  <2>0. MaxChunks \in Nat /\ NoFd \notin Fds
    BY HotUpgradeAssumption DEF HotUpgradeAssumption
  <2>1. LifeInv /\ OwnedInv /\ MetadataInv
    BY <2>0 DEF Init, LifeInv, OwnedInv, MetadataInv, Upgrading
  <2>2. HandInv /\ FreshInv /\ SurvivalInv
    BY DEF Init, HandInv, FreshInv, SurvivalInv, Missing, Handed, Upgrading, Adopting
  <2>3. ScreenInv /\ FlushInv /\ ScreenSurvivesFlush
    BY DEF Init, ScreenInv, FlushInv, ScreenSurvivesFlush, Upgrading, Idle, Writers
  <2> QED
    BY <2>1, <2>2, <2>3, TypeInit DEF IInv
<1>2. IInv /\ [Next]_vars => IInv'
  <2> SUFFICES ASSUME IInv, [Next]_vars PROVE IInv'
    OBVIOUS
  <2>1. FdTypes /\ ReplayTypes /\ ShellTypes
    BY Typed DEF IInv
  <2> QED
    BY <2>1, TypeStep, LifeStep, OwnedStep, MetadataStep, HandStep, FreshStep, SurvivalStep,
       ScreenStep, FlushStep, KeptStep DEF IInv
<1> QED
  BY <1>1, <1>2, PTL DEF Spec

\* Every shell that is not being cleaned up is on the registry after an upgrade, but for
\* the ones SessionsSurvive names: for any number of shells, descriptors and upgrades.
THEOREM Survival == Spec => []SessionsSurvive
<1>1. IInv => SessionsSurvive
  BY DEF IInv, SessionsSurvive, SurvivalInv, Missing
<1> QED
  BY <1>1, Inductive, PTL

\* Until an upgrade mixes descriptors up, a shell's numbers name its own terminal.
THEOREM OwnDescriptors == Spec => []DescriptorsAreOwn
<1>1. IInv => DescriptorsAreOwn
  <2> SUFFICES ASSUME IInv, stale = 0, NEW s \in states
               PROVE  /\ master[s] \in Fds /\ fds[master[s]] = s
                      /\ reader[s] \in Fds => fds[reader[s]] = s
                      /\ reader[s] # master[s]
    BY DEF DescriptorsAreOwn
  <2>1. s \in Shells
    BY Typed DEF IInv, ShellTypes
  <2>2. reader[s] \in Fds \cup {NoFd} /\ NoFd \notin Fds
    BY <2>1, Typed, HotUpgradeAssumption DEF IInv, FdTypes, HotUpgradeAssumption
  <2> QED
    BY <2>1, <2>2 DEF IInv, OwnedInv
<1> QED
  BY <1>1, Inductive, PTL

\* A shell waiting to be adopted has a screen that is whole and no older than the flush,
\* or one that two threads wrote at once or that execv cut.
THEOREM ScreenKept == Spec => []ScreenSurvivesFlush
<1>1. IInv => ScreenSurvivesFlush
  BY DEF IInv
<1> QED
  BY <1>1, Inductive, PTL
=============================================================================
