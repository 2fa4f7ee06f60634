------------------------------ MODULE SpawnLock ------------------------------
(***************************************************************************)
(* How a client finds the daemon or starts one (connect_or_spawn), how a     *)
(* daemon starts (run), and the hot upgrade in which a daemon execs its       *)
(* successor in place (perform_upgrade).  Clients and daemons are processes   *)
(* that share the runtime directory: the socket path and an flock on the      *)
(* lock file, which a client waits for and a daemon only tries.              *)
(*                                                                         *)
(* Process identity is what matters here; sessions are those of the daemon    *)
(* process and live exactly as long as it does.                              *)
(***************************************************************************)
EXTENDS Naturals

CONSTANTS
    Clients,     \* processes that run livesh or liveshctl
    Daemons,     \* bound: liveshd processes ever started
    Nobody,      \* no process
    Stale,       \* a socket file, or a connection, whose daemon is gone
    Polls,       \* bound: connection attempts after spawning (100 in the code)
    MaxUpgrades, \* bound: upgrades requested
    MayCrash     \* whether processes may be killed at any time

ASSUME ProcessesAssumption ==
    /\ Clients \cap Daemons = {}
    /\ Nobody \notin Clients \cup Daemons /\ Stale \notin Clients \cup Daemons
    /\ Nobody # Stale
    /\ Polls \in Nat
    /\ MaxUpgrades \in Nat
    /\ MayCrash \in BOOLEAN

VARIABLES
    lock,      \* the process that holds the flock
    socket,    \* what the socket path leads to: a daemon's listener, Stale or Nobody
    daemon,    \* the state of each daemon process
    pc,        \* where each client is in connect_or_spawn
    conn,      \* what a client's attempt has reached: a daemon, or a connection
               \* that was closed on it (Stale)
    polls,     \* the polls a client has made after spawning
    upgrades   \* upgrades so far

vars == <<lock, socket, daemon, pc, conn, polls, upgrades>>

DaemonStates == {"unborn", "starting", "locked", "clean", "serving",
                 "swapped", "adopted", "dead", "killed"}

ClientStates == {"start", "first", "lock", "second", "unlink", "unlock",
                 "spawn", "poll", "connected", "failed", "gone"}

TypeOK ==
    /\ lock \in Clients \cup Daemons \cup {Nobody}
    /\ socket \in Daemons \cup {Stale, Nobody}
    /\ daemon \in [Daemons -> DaemonStates]
    /\ pc \in [Clients -> ClientStates]
    /\ conn \in [Clients -> Daemons \cup {Stale, Nobody}]
    /\ polls \in [Clients -> 0..Polls]
    /\ upgrades \in 0..MaxUpgrades

\* Nothing runs; an earlier daemon may have left its socket file behind.
Init ==
    /\ lock = Nobody
    /\ socket \in {Nobody, Stale}
    /\ daemon = [d \in Daemons |-> "unborn"]
    /\ pc = [c \in Clients |-> "start"]
    /\ conn = [c \in Clients |-> Nobody]
    /\ polls = [c \in Clients |-> 0]
    /\ upgrades = 0

\* A daemon that answers its clients.
Serving(d) == daemon[d] \in {"serving", "adopted"}

\* A daemon whose listening socket is open, answered or not: it survives execv.
Listening(d) == Serving(d) \/ daemon[d] = "swapped"

-----------------------------------------------------------------------------
(* connect_or_spawn                                                          *)

Step(c, from, to) == pc[c] = from /\ pc' = [pc EXCEPT ![c] = to]

\* Client::connect is tried in three places.
Connecting(c) == pc[c] \in {"first", "second", "poll"}

\* connect(2) succeeds when the path leads to a listening socket, whether or not
\* its daemon accepts; the client then waits for ServerHello and Pong.
Connect(c) ==
    /\ Connecting(c) /\ conn[c] = Nobody
    /\ socket \in Daemons /\ Listening(socket)
    /\ conn' = [conn EXCEPT ![c] = socket]
    /\ UNCHANGED <<lock, socket, daemon, pc, polls, upgrades>>

\* The daemon answers: connect_or_spawn returns, and drops the lock file if it
\* holds it.
Answered(c) ==
    /\ Connecting(c) /\ conn[c] \in Daemons /\ Serving(conn[c])
    /\ pc' = [pc EXCEPT ![c] = "connected"]
    /\ conn' = [conn EXCEPT ![c] = Nobody]
    /\ lock' = IF lock = c THEN Nobody ELSE lock
    /\ UNCHANGED <<socket, daemon, polls, upgrades>>

\* Mutant: a client that has sent its hello waits for the answer, come what may.
UnreachableByPath(c) ==
    conn[c] = Nobody /\ (socket \in Daemons => ~Listening(socket))

\* No listener at the path, or the one that was reached closed the connection.
Unreachable(c) ==
    LET peer == IF conn[c] = Nobody THEN socket ELSE conn[c]
    IN  peer \in Daemons => ~Listening(peer)

FirstFails(c) ==
    /\ Step(c, "first", "lock") /\ Unreachable(c)
    /\ conn' = [conn EXCEPT ![c] = Nobody]
    /\ UNCHANGED <<lock, socket, daemon, polls, upgrades>>

\* Mutant: the client only tries the lock, and goes on without it.
ClientLockTried(c) ==
    /\ Step(c, "lock", "second")
    /\ lock' = IF lock = Nobody THEN c ELSE lock
    /\ UNCHANGED <<socket, daemon, conn, polls, upgrades>>

\* flock(LockExclusive): waits until nobody holds the lock.
ClientLock(c) ==
    /\ Step(c, "lock", "second")
    /\ lock = Nobody
    /\ lock' = c
    /\ UNCHANGED <<socket, daemon, conn, polls, upgrades>>

\* Mutant: the client does not try again once it has the lock.
SecondSkipped(c) ==
    /\ Step(c, "second", "unlink")
    /\ conn' = [conn EXCEPT ![c] = Nobody]
    /\ UNCHANGED <<lock, socket, daemon, polls, upgrades>>

\* Nobody answers where somebody may have come up while the lock was waited for.
SecondFails(c) ==
    /\ Step(c, "second", "unlink") /\ Unreachable(c)
    /\ conn' = [conn EXCEPT ![c] = Nobody]
    /\ UNCHANGED <<lock, socket, daemon, polls, upgrades>>

\* The socket file, if there is one, is removed.
Unlink(c) ==
    /\ Step(c, "unlink", "unlock")
    /\ socket' = Nobody
    /\ UNCHANGED <<lock, daemon, conn, polls, upgrades>>

\* Mutant: the lock is kept while the daemon starts.
UnlockForgotten(c) ==
    /\ Step(c, "unlock", "spawn")
    /\ UNCHANGED <<lock, socket, daemon, conn, polls, upgrades>>

\* drop(lock)
Unlock(c) ==
    /\ Step(c, "unlock", "spawn")
    /\ lock' = Nobody
    /\ UNCHANGED <<socket, daemon, conn, polls, upgrades>>

Spawn(c) ==
    /\ Step(c, "spawn", "poll")
    /\ \E d \in Daemons :
          /\ daemon[d] = "unborn"
          /\ daemon' = [daemon EXCEPT ![d] = "starting"]
    /\ UNCHANGED <<lock, socket, conn, polls, upgrades>>

\* A poll that fails is repeated a bounded number of times.
PollFails(c) ==
    /\ pc[c] = "poll" /\ Unreachable(c)
    /\ IF polls[c] < Polls
       THEN polls' = [polls EXCEPT ![c] = @ + 1] /\ UNCHANGED pc
       ELSE pc' = [pc EXCEPT ![c] = "failed"] /\ UNCHANGED polls
    /\ conn' = [conn EXCEPT ![c] = Nobody]
    /\ UNCHANGED <<lock, socket, daemon, upgrades>>

Start(c) ==
    /\ Step(c, "start", "first")
    /\ UNCHANGED <<lock, socket, daemon, conn, polls, upgrades>>

\* The client process is killed; the kernel releases its lock.
Quit(c) ==
    /\ MayCrash /\ pc[c] \notin {"start", "gone"}
    /\ pc' = [pc EXCEPT ![c] = "gone"]
    /\ conn' = [conn EXCEPT ![c] = Nobody]
    /\ lock' = IF lock = c THEN Nobody ELSE lock
    /\ UNCHANGED <<socket, daemon, polls, upgrades>>

-----------------------------------------------------------------------------
(* The daemon                                                                *)

Become(d, state) == daemon' = [daemon EXCEPT ![d] = state]

\* Mutant: a daemon that does not get the lock starts all the same.
DaemonIgnoresLock(d) ==
    /\ daemon[d] = "starting"
    /\ IF lock = Nobody THEN lock' = d ELSE UNCHANGED lock
    /\ Become(d, "locked")
    /\ UNCHANGED <<socket, pc, conn, polls, upgrades>>

\* flock(LockExclusiveNonblock), "another liveshd is already running" otherwise.
DaemonLock(d) ==
    /\ daemon[d] = "starting"
    /\ IF lock = Nobody
       THEN lock' = d /\ Become(d, "locked")
       ELSE UNCHANGED lock /\ Become(d, "dead")
    /\ UNCHANGED <<socket, pc, conn, polls, upgrades>>

\* A socket file that is there is removed ...
DaemonUnlink(d) ==
    /\ daemon[d] = "locked"
    /\ socket' = Nobody
    /\ Become(d, "clean")
    /\ UNCHANGED <<lock, pc, conn, polls, upgrades>>

\* ... and the path bound.  bind(2) fails on a path that exists.
DaemonBind(d) ==
    /\ daemon[d] = "clean"
    /\ IF socket = Nobody
       THEN socket' = d /\ Become(d, "serving") /\ UNCHANGED lock
       ELSE lock' = Nobody /\ Become(d, "dead") /\ UNCHANGED socket
    /\ UNCHANGED <<pc, conn, polls, upgrades>>

\* execv of perform_upgrade: accepted connections and the lock file are closed,
\* the listener and the connections nobody accepted yet live on.
UpgradeExec(d) ==
    /\ Serving(d) /\ upgrades < MaxUpgrades
    /\ upgrades' = upgrades + 1
    /\ lock' = IF lock = d THEN Nobody ELSE lock
    /\ Become(d, "swapped")
    /\ \E accepted \in SUBSET {c \in Clients : conn[c] = d} :
          conn' = [c \in Clients |-> IF c \in accepted THEN Stale ELSE conn[c]]
    /\ UNCHANGED <<socket, pc, polls>>

\* perform_upgrade fails (no such binary, execv error): run returns, the process
\* exits and its socket file stays.
UpgradeFails(d) ==
    /\ Serving(d) /\ upgrades < MaxUpgrades
    /\ upgrades' = upgrades + 1
    /\ lock' = IF lock = d THEN Nobody ELSE lock
    /\ Become(d, "dead")
    /\ UNCHANGED <<socket, pc, conn, polls>>

\* The new binary starts like any daemon: without the lock it exits, with it it
\* adopts the listener it was handed.
SwappedLock(d) ==
    /\ daemon[d] = "swapped"
    /\ IF lock = Nobody
       THEN lock' = d /\ Become(d, "adopted")
       ELSE UNCHANGED lock /\ Become(d, "dead")
    /\ UNCHANGED <<socket, pc, conn, polls, upgrades>>

\* The process is killed, or an error ends it (an unreadable configuration, a failed
\* adoption); the kernel releases its lock.
Crash(d) ==
    /\ MayCrash /\ daemon[d] \notin {"unborn", "dead", "killed"}
    /\ Become(d, "killed")
    /\ lock' = IF lock = d THEN Nobody ELSE lock
    /\ UNCHANGED <<socket, pc, conn, polls, upgrades>>

-----------------------------------------------------------------------------
Running(c) ==
    \/ Connect(c) \/ Answered(c) \/ FirstFails(c) \/ SecondFails(c)
    \/ Unlink(c) \/ Unlock(c) \/ Spawn(c) \/ PollFails(c)

Starting(d) == DaemonLock(d) \/ DaemonUnlink(d) \/ DaemonBind(d) \/ SwappedLock(d)

Next ==
    \/ \E c \in Clients : Start(c) \/ Running(c) \/ ClientLock(c) \/ Quit(c)
    \/ \E d \in Daemons : Starting(d) \/ UpgradeExec(d) \/ UpgradeFails(d) \/ Crash(d)

Spec == Init /\ [][Next]_vars

\* Running processes run.  flock serves its waiters in turn, so a client whose
\* lock is free again and again gets it: the strongest fairness there is.
Fairness ==
    /\ \A c \in Clients : WF_vars(Running(c)) /\ SF_vars(ClientLock(c))
    /\ \A d \in Daemons : WF_vars(Starting(d))

FairSpec == Spec /\ Fairness
-----------------------------------------------------------------------------
(* Properties                                                               *)

\* At most one daemon answers clients, through starts that race, crashes and
\* upgrades: two would split the sessions between them.
OneDaemonServes ==
    \A d, e \in Daemons : Serving(d) /\ Serving(e) => d = e

\* The path that leads to a daemon's socket leads there for as long as the daemon listens:
\* no client and no other daemon removes or replaces it, also while the daemon is exec'd
\* and holds no lock.  The one exception: between execv and the flock of the new program
\* another daemon that was just spawned can get the lock, and remove the path; should it
\* end before it is done, the first serves on where no client finds it.
ListenerKeepsPath ==
    [][\A d \in Daemons :
          Listening(d) /\ socket = d =>
              \/ socket' = d
              \/ daemon[d] = "swapped" /\ \E e \in Daemons : daemon[e] = "locked"]_vars

\* When a client goes to spawn a daemon, one comes up, its own or another's, although
\* each daemon quits when it meets the lock in a client's hands: the client that
\* held it goes on to spawn its own.  Only kills excuse it.
SpawnYieldsDaemon ==
    \A c \in Clients :
        pc[c] = "spawn" ~>
            \/ \E d \in Daemons : Serving(d) \/ daemon[d] = "killed"
            \/ \E b \in Clients : pc[b] = "gone"

\* connect_or_spawn returns, connected or not, so that livesh can fall back: no client
\* hangs on another, nor on a daemon that starts, crashes or is swapped.  The one exception
\* is flock without a timeout: a client whose first connection failed and that asks for the
\* lock after a daemon took it waits for as long as daemons hold it, serving or not.  (The
\* bound on daemons makes another: nothing is left to spawn.)
OnlyDaemonsBlock ==
    \A c \in Clients :
        pc[c] = "first" ~>
            \/ pc[c] \in {"connected", "failed", "gone"}
            \/ pc[c] = "lock" /\ lock \in Daemons
            \/ pc[c] = "spawn" /\ \A d \in Daemons : daemon[d] # "unborn"

\* README.md:100: upgrade-daemon "swaps the running liveshd for a new binary without
\* losing live sessions": the process that was exec'd must not give up.  It does
\* when a client got the lock that execv released: refuted by the run upgrade_lost.
UpgradeKeepsSessions ==
    [][\A d \in Daemons : daemon[d] = "swapped" => daemon'[d] # "dead"]_vars
=============================================================================
