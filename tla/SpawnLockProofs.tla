--------------------------- MODULE SpawnLockProofs ---------------------------
(* What SpawnLock guarantees for any number of clients, daemons and upgrades. *)
EXTENDS SpawnLock, TLAPS

\* From the moment a daemon has the lock until it ends or execs, it keeps it.
DaemonsHoldLock ==
    \A d \in Daemons :
        daemon[d] \in {"locked", "clean", "serving", "adopted"} => lock = d

\* A client between its lock and its unlock holds the lock.
ClientsHoldLock ==
    \A c \in Clients : pc[c] \in {"second", "unlink", "unlock"} => lock = c

\* A client tries the path again once it has the lock, and then nothing but itself changes
\* what the path leads to: when it goes to remove the path, no daemon listens there.
ClientsLookTwice ==
    \A c \in Clients :
        /\ pc[c] = "lock" => conn[c] = Nobody
        /\ pc[c] = "second" => conn[c] = Nobody \/ (conn[c] \in Daemons /\ conn[c] = socket)
        /\ pc[c] = "unlink" => \A d \in Daemons : Listening(d) => socket # d

IInv == TypeOK /\ DaemonsHoldLock /\ ClientsHoldLock /\ ClientsLookTwice

LEMMA InitIInv == Init => IInv
<1> QED
  BY ProcessesAssumption
     DEF ProcessesAssumption, Init, IInv, TypeOK, DaemonsHoldLock, ClientsHoldLock,
         ClientsLookTwice, Listening, Serving, DaemonStates, ClientStates

\* The types of the variables.
LEMMA TypeStep ==
    ASSUME TypeOK, [Next]_vars
    PROVE  TypeOK'
<1> USE ProcessesAssumption DEF ProcessesAssumption, TypeOK, Step, Become,
        ClientStates, DaemonStates
<1>1. ASSUME NEW c \in Clients, Start(c) \/ Connect(c) \/ Answered(c) \/ FirstFails(c)
      PROVE  TypeOK'
  BY <1>1 DEF Start, Connect, Answered, FirstFails
<1>2. ASSUME NEW c \in Clients, ClientLock(c) \/ SecondFails(c) \/ Unlink(c) \/ Unlock(c)
      PROVE  TypeOK'
  BY <1>2 DEF ClientLock, SecondFails, Unlink, Unlock
<1>3. ASSUME NEW c \in Clients, Spawn(c) \/ PollFails(c) \/ Quit(c)
      PROVE  TypeOK'
  BY <1>3 DEF Spawn, PollFails, Quit
<1>4. ASSUME NEW d \in Daemons, DaemonLock(d) \/ DaemonUnlink(d) \/ DaemonBind(d)
      PROVE  TypeOK'
  BY <1>4 DEF DaemonLock, DaemonUnlink, DaemonBind
<1>5. ASSUME NEW d \in Daemons, SwappedLock(d) \/ Crash(d) \/ UpgradeFails(d)
      PROVE  TypeOK'
  BY <1>5 DEF SwappedLock, Crash, UpgradeFails
<1>6. ASSUME NEW d \in Daemons, UpgradeExec(d)
      PROVE  TypeOK'
  BY <1>6 DEF UpgradeExec
<1>7. CASE UNCHANGED vars
  BY <1>7 DEF vars
<1> QED
  BY <1>1, <1>2, <1>3, <1>4, <1>5, <1>6, <1>7 DEF Next, Running, Starting

\* The lock changes hands as the two kinds of process expect.
LEMMA LockStep ==
    ASSUME TypeOK, DaemonsHoldLock, ClientsHoldLock, [Next]_vars
    PROVE  DaemonsHoldLock' /\ ClientsHoldLock'
<1> USE ProcessesAssumption DEF ProcessesAssumption, TypeOK, Step, Become,
        DaemonsHoldLock, ClientsHoldLock
<1>1. ASSUME NEW c \in Clients, Start(c) \/ Connect(c) \/ Answered(c) \/ FirstFails(c)
      PROVE  DaemonsHoldLock' /\ ClientsHoldLock'
  BY <1>1 DEF Start, Connect, Answered, FirstFails
<1>2. ASSUME NEW c \in Clients, ClientLock(c) \/ SecondFails(c) \/ Unlink(c) \/ Unlock(c)
      PROVE  DaemonsHoldLock' /\ ClientsHoldLock'
  BY <1>2 DEF ClientLock, SecondFails, Unlink, Unlock
<1>3. ASSUME NEW c \in Clients, Spawn(c) \/ PollFails(c) \/ Quit(c)
      PROVE  DaemonsHoldLock' /\ ClientsHoldLock'
  BY <1>3 DEF Spawn, PollFails, Quit
<1>4. ASSUME NEW d \in Daemons, DaemonLock(d) \/ DaemonUnlink(d) \/ DaemonBind(d)
      PROVE  DaemonsHoldLock' /\ ClientsHoldLock'
  BY <1>4 DEF DaemonLock, DaemonUnlink, DaemonBind
<1>5. ASSUME NEW d \in Daemons, SwappedLock(d) \/ Crash(d) \/ UpgradeFails(d)
      PROVE  DaemonsHoldLock' /\ ClientsHoldLock'
  BY <1>5 DEF SwappedLock, Crash, UpgradeFails, Serving
<1>6. ASSUME NEW d \in Daemons, UpgradeExec(d)
      PROVE  DaemonsHoldLock' /\ ClientsHoldLock'
  BY <1>6 DEF UpgradeExec, Serving
<1>7. CASE UNCHANGED vars
  BY <1>7 DEF vars
<1> QED
  BY <1>1, <1>2, <1>3, <1>4, <1>5, <1>6, <1>7 DEF Next, Running, Starting

\* What a client saw at the path stays true for as long as it holds the lock.
LEMMA LookStep ==
    ASSUME IInv, [Next]_vars
    PROVE  ClientsLookTwice'
<1> USE ProcessesAssumption DEF ProcessesAssumption, IInv, TypeOK, Step, Become,
        DaemonsHoldLock, ClientsHoldLock, ClientsLookTwice, Listening, Serving
<1>1. ASSUME NEW c \in Clients, Start(c) \/ FirstFails(c) \/ ClientLock(c)
      PROVE  ClientsLookTwice'
  BY <1>1 DEF Start, FirstFails, ClientLock
<1>2. ASSUME NEW c \in Clients, Connect(c) \/ Answered(c)
      PROVE  ClientsLookTwice'
  BY <1>2 DEF Connect, Answered, Connecting
<1>3. ASSUME NEW c \in Clients, SecondFails(c)
      PROVE  ClientsLookTwice'
  BY <1>3 DEF SecondFails, Unreachable
<1>4. ASSUME NEW c \in Clients, Unlink(c) \/ Unlock(c) \/ PollFails(c) \/ Quit(c)
      PROVE  ClientsLookTwice'
  BY <1>4 DEF Unlink, Unlock, PollFails, Quit
<1>5. ASSUME NEW c \in Clients, Spawn(c)
      PROVE  ClientsLookTwice'
  BY <1>5 DEF Spawn
<1>6. ASSUME NEW d \in Daemons, DaemonLock(d) \/ DaemonUnlink(d) \/ DaemonBind(d)
      PROVE  ClientsLookTwice'
  BY <1>6 DEF DaemonLock, DaemonUnlink, DaemonBind
<1>7. ASSUME NEW d \in Daemons, SwappedLock(d) \/ Crash(d) \/ UpgradeFails(d)
      PROVE  ClientsLookTwice'
  BY <1>7 DEF SwappedLock, Crash, UpgradeFails
<1>8. ASSUME NEW d \in Daemons, UpgradeExec(d)
      PROVE  ClientsLookTwice'
  BY <1>8 DEF UpgradeExec
<1>9. CASE UNCHANGED vars
  BY <1>9 DEF vars
<1> QED
  BY <1>1, <1>2, <1>3, <1>4, <1>5, <1>6, <1>7, <1>8, <1>9 DEF Next, Running, Starting

\* The inductive invariant: types, who holds the lock when, and what a client
\* that holds it knows of the socket path.
THEOREM Invariance == Spec => []IInv
<1>1. IInv /\ [Next]_vars => IInv'
  BY TypeStep, LockStep, LookStep DEF IInv
<1> QED
  BY InitIInv, <1>1, PTL DEF Spec

\* Every state is of the declared types.
THEOREM TypeCorrect == Spec => []TypeOK
<1>1. IInv => TypeOK
  BY DEF IInv
<1> QED
  BY Invariance, <1>1, PTL

\* However many processes start, crash or upgrade at once, one daemon at most
\* answers clients: it holds the lock, which has one holder (daemon_lock).
THEOREM ServesAlone == Spec => []OneDaemonServes
<1>1. IInv => OneDaemonServes
  BY DEF IInv, DaemonsHoldLock, OneDaemonServes, Serving
<1> QED
  BY Invariance, <1>1, PTL

\* No step takes the path from a daemon that listens at it, but that of a daemon that starts
\* between its execv and its flock: a client removes the path only with the lock in its
\* hands and after it looked again (connect_or_spawn), a daemon only with the lock (run).
THEOREM StaysReachable == Spec => ListenerKeepsPath
<1> DEFINE A == \A d \in Daemons :
                    Listening(d) /\ socket = d =>
                        \/ socket' = d
                        \/ daemon[d] = "swapped" /\ \E e \in Daemons : daemon[e] = "locked"
<1>1. ASSUME IInv, [Next]_vars PROVE [A]_vars
  <2> USE ProcessesAssumption DEF ProcessesAssumption, IInv, Listening, Serving
  <2>1. ASSUME NEW c \in Clients, Unlink(c) PROVE A
    BY <1>1, <2>1 DEF Unlink, Step, ClientsLookTwice
  <2>2. ASSUME NEW e \in Daemons, DaemonUnlink(e) PROVE A
    BY <1>1, <2>2 DEF DaemonUnlink, DaemonsHoldLock
  <2>3. ASSUME NEW e \in Daemons, DaemonBind(e) PROVE A
    BY <2>3 DEF DaemonBind
  <2>4. CASE socket' = socket
    BY <2>4
  <2> QED
    BY <1>1, <2>1, <2>2, <2>3, <2>4 DEF Next, Running, Starting, vars, Start, Connect,
       Answered, FirstFails, ClientLock, SecondFails, Unlock, Spawn, PollFails, Quit,
       DaemonLock, SwappedLock, UpgradeExec, UpgradeFails, Crash
<1> QED
  BY <1>1, Invariance, PTL DEF Spec, ListenerKeepsPath
=============================================================================
