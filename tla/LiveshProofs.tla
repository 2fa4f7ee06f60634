----------------------------- MODULE LiveshProofs -----------------------------
(* What Livesh guarantees for any number of terminals, sessions, descriptors,  *)
(* crashes and upgrades.                                                     *)
EXTENDS Livesh, FiniteSetTheorems, TLAPS

\* Places before a session is created, and from then until the bridge begins.
Before == {"start", "managed", "dial", "flock", "prepare", "create", "prompt", "kill", "killing"}
After  == {"reply", "created", "redial", "reflock", "open", "own"}

\* A question is asked three times at most.
TierInv == \A p \in Terminals : at[p] \in {"prompt", "kill", "killing"} => tier[p] < 3

\* A livesh that is to create a session has none on the registry, and one that has created
\* a session remembers it.
OwnSession ==
    \A s \in live : \A p \in Terminals :
        maker[s] = p => at[p] \notin Before /\ (at[p] \in After => mine[p] = s)

\* A livesh that has not executed itself is on the way its mode takes.
ModeInv ==
    \A p \in Terminals :
        /\ at[p] = "start" => ~guard[p]
        /\ ~guard[p] =>
              /\ at[p] # "own"
              /\ mode[p] = "new" => at[p] \notin {"redial", "reflock", "open", "error"} /\ allow[p]
              /\ mode[p] = "upgrade" =>
                    /\ at[p] \notin {"redial", "reflock", "open", "bridge", "ended", "real", "noshell"}
                    /\ at[p] # "start" => ~allow[p]

\* A yes holds from the answer to the kill, and covers what its question offers by now and
\* whatever was picked.
AnswerInv ==
    \A p \in Terminals :
        /\ answer[p] = "yes" <=> at[p] \in {"kill", "killing"}
        /\ answer[p] = "yes" => Offered(p) \subseteq covered[p]
        /\ at[p] = "killing" => victims[p] \subseteq covered[p]

IInv == TypeOK /\ TierInv /\ OwnSession /\ ModeInv /\ AnswerInv /\ OneLiveSession

\* The steps of a livesh by what they leave alone: those that touch no session ...
Walks(p) ==
    \/ Start(p) \/ Managed(p) \/ Dial(p) \/ DialFails(p) \/ Waits(p) \/ Locks(p) \/ Prepare(p)
    \/ StateJsonFails(p) \/ Reexec(p) \/ ExeUnknown(p) \/ ReexecFails(p) \/ OpenOwn(p)
    \/ NotFound(p) \/ OpenFails(p)
    \/ Reply(p) \/ FdLimit(p) \/ CreateFails(p) \/ Prompt(p) \/ KillIdle(p) \/ KillFails(p)
\* ... those that change who is attached, and what happens to the daemon and its sessions.
Attaches(p) == Open(p) \/ BridgeEnds(p) \/ BridgeReconnects(p)
Elsewhere ==
    \/ \E s \in Sessions : \/ ReaderEnds(s) \/ SessionEnds(s) \/ Prints(s) \/ Silent(s)
                           \/ OtherOpens(s) \/ OtherLeaves(s)
    \/ Closes \/ Crash \/ UpgradeDaemon

\* Every step is of one of these kinds.
LEMMA Kinds ==
    ASSUME Next
    PROVE  \/ \E p \in Terminals : Walks(p) \/ Attaches(p) \/ Create(p) \/ KillVictims(p)
                                   \/ AcceptFails(p)
           \/ Elsewhere
<1> QED
  BY DEF Next, Runs, Recovers, Walks, Attaches, Elsewhere

\* Connections that sessions lose are counted by a number.
LEMMA EvictedType ==
    ASSUME NEW S \in SUBSET Sessions
    PROVE  Evicted(S) \in Nat
<1>1. {s \in S : slot[s] = Other} \in SUBSET Sessions
  OBVIOUS
<1>2. IsFiniteSet({s \in S : slot[s] = Other})
  BY <1>1, FS_Subset, LiveshAssumption DEF LiveshAssumption
<1> QED
  BY <1>2, FS_CardinalityType DEF Evicted

\* What the history of a yes notes are sessions ...
LEMMA NotesType ==
    ASSUME covered \in [Terminals -> SUBSET Sessions], live' \in SUBSET Sessions, Notes
    PROVE  covered' \in [Terminals -> SUBSET Sessions]
<1>1. \A p \in Terminals : Offered(p)' \in SUBSET Sessions
  BY DEF Offered
<1> QED
  BY <1>1 DEF Notes

\* ... and while the yes holds, it forgets none and misses none that the question offers.
LEMMA NotesCover ==
    ASSUME Notes, NEW p \in Terminals, answer'[p] = "yes"
    PROVE  covered[p] \subseteq covered'[p] /\ Offered(p)' \subseteq covered'[p]
<1>1. covered'[p] = covered[p] \cup Offered(p)'
  BY DEF Notes
<1> QED
  BY <1>1

LEMMA InitIInv == Init => IInv
<1> SUFFICES ASSUME Init PROVE IInv
  OBVIOUS
<1>1. TypeOK
  <2>1. 0 \in 0..MaxFaults /\ 0 \in Nat /\ 0 \in 0..3
    BY LiveshAssumption DEF LiveshAssumption
  <2>2. live \in SUBSET Sessions
    BY DEF Init
  <2> QED
    BY <2>1, <2>2 DEF Init, TypeOK, Modes, Ages, Ends
<1>2. TierInv /\ ModeInv
  BY DEF Init, TierInv, ModeInv
<1>4. AnswerInv
  BY DEF Init, AnswerInv
<1>3. OwnSession /\ OneLiveSession
  BY LiveshAssumption DEF Init, OwnSession, OneLiveSession, LiveshAssumption
<1> QED
  BY <1>1, <1>2, <1>3, <1>4 DEF IInv

\* The types of the variables.
LEMMA TypeStep ==
    ASSUME TypeOK, TierInv, [Next]_vars
    PROVE  TypeOK'
<1> USE DEF TypeOK, Modes, Ends, Ages, Goto, HangUp, FailOrFallback, RealShell, daemonVars,
        terminalVars, consent
<1>1. ASSUME NEW p \in Terminals,
             \/ Start(p) \/ Managed(p) \/ Dial(p) \/ DialFails(p) \/ Waits(p) \/ Locks(p)
             \/ Prepare(p)
      PROVE  TypeOK'
  <2>1. CASE Start(p)
    BY <2>1 DEF Start
  <2>2. CASE Managed(p)
    BY <2>2 DEF Managed
  <2>3. CASE Dial(p) \/ DialFails(p)
    BY <2>3 DEF Dial, DialFails
  <2>4. CASE Prepare(p)
    BY <2>4 DEF Prepare
  <2>5. CASE Waits(p) \/ Locks(p)
    BY <2>5 DEF Waits, Locks
  <2> QED
    BY <1>1, <2>1, <2>2, <2>3, <2>4, <2>5
<1>2. ASSUME NEW p \in Terminals,
             \/ StateJsonFails(p) \/ Reexec(p) \/ ExeUnknown(p) \/ ReexecFails(p) \/ OpenOwn(p)
      PROVE  TypeOK'
  <2>1. CASE StateJsonFails(p)
    BY <2>1 DEF StateJsonFails
  <2>4. CASE Reexec(p)
    <3>1. guard' \in [Terminals -> BOOLEAN]
      BY <2>4 DEF Reexec
    <3> QED
      BY <2>4, <3>1 DEF Reexec
  <2>2. CASE ReexecFails(p) \/ ExeUnknown(p)
    BY <2>2 DEF ReexecFails, ExeUnknown
  <2>3. CASE OpenOwn(p)
    BY <2>3 DEF OpenOwn
  <2> QED
    BY <1>2, <2>1, <2>2, <2>3, <2>4
<1>3. ASSUME NEW p \in Terminals, NotFound(p) \/ OpenFails(p) \/ Reply(p) \/ CreateFails(p)
      PROVE  TypeOK'
  <2>1. CASE NotFound(p)
    <3>1. tier' \in [Terminals -> 0..3]
      BY <2>1 DEF NotFound
    <3>4. allow' = allow \/ allow' = [allow EXCEPT ![p] = TRUE]
      BY <2>1 DEF NotFound
    <3>5. allow' \in [Terminals -> BOOLEAN]
      BY <3>4
    <3>2. mine' \in [Terminals -> Sessions \cup {NoSession}] /\ dropped' \in Nat
      BY <2>1 DEF NotFound
    <3>3. conn' \in [Terminals -> {"none", "open", "cut"}]
      BY <2>1 DEF NotFound
    <3> QED
      BY <2>1, <3>1, <3>2, <3>3, <3>5 DEF NotFound
  <2>2. CASE OpenFails(p) \/ CreateFails(p)
    BY <2>2 DEF OpenFails, CreateFails
  <2>3. CASE Reply(p)
    BY <2>3 DEF Reply
  <2> QED
    BY <1>3, <2>1, <2>2, <2>3
<1>4. ASSUME NEW p \in Terminals, FdLimit(p) \/ Prompt(p) \/ KillIdle(p) \/ KillFails(p)
      PROVE  TypeOK'
  <2>1. CASE FdLimit(p)
    BY <2>1 DEF FdLimit
  <2>4. CASE Prompt(p)
    <3>1. covered' \in [Terminals -> SUBSET Sessions]
      BY <2>4, NotesType DEF Prompt
    <3>2. /\ answer' \in [Terminals -> {"none", "yes", "no"}]
          /\ conn' \in [Terminals -> {"none", "open", "cut"}] /\ dropped' \in Nat
      BY <2>4 DEF Prompt
    <3> QED
      BY <2>4, <3>1, <3>2 DEF Prompt
  <2>2. CASE KillIdle(p)
    <3>1. Offered(p) \in SUBSET Sessions
      BY DEF Offered
    <3> QED
      BY <2>2, <3>1 DEF KillIdle
  <2>3. CASE KillFails(p)
    <3>1. covered' \in [Terminals -> SUBSET Sessions]
      BY <2>3, NotesType DEF KillFails
    <3>2. /\ answer' \in [Terminals -> {"none", "yes", "no"}] /\ dropped' \in Nat
          /\ conn' \in [Terminals -> {"none", "open", "cut"}]
          /\ victims' \in [Terminals -> SUBSET Sessions]
      BY <2>3 DEF KillFails
    <3>3. \E to \in {"real", "noshell", "error"} : at' = [at EXCEPT ![p] = to]
      BY <2>3 DEF KillFails
    <3> QED
      BY <2>3, <3>1, <3>2, <3>3 DEF KillFails
  <2> QED
    BY <1>4, <2>1, <2>2, <2>3, <2>4
<1>5. ASSUME NEW p \in Terminals, Open(p) \/ BridgeReconnects(p) PROVE TypeOK'
  <2>1. mine[p] \in live
    BY <1>5 DEF Open, BridgeReconnects
  <2>2. Evicted({mine[p]}) \in Nat
    BY <2>1, EvictedType
  <2>3. dropped' \in Nat
    BY <1>5, <2>2 DEF Open, BridgeReconnects
  <2> QED
    BY <1>5, <2>1, <2>3 DEF Open, BridgeReconnects
<1>6. ASSUME NEW p \in Terminals, BridgeEnds(p) PROVE TypeOK'
  <2>1. covered' \in [Terminals -> SUBSET Sessions]
    BY <1>6, NotesType DEF BridgeEnds
  <2>2. slot' \in [Sessions -> Terminals \cup {Nobody, Other}] /\ dropped' \in Nat
    BY <1>6 DEF BridgeEnds
  <2>3. /\ conn' \in [Terminals -> {"none", "open", "cut"}]
        /\ mine' \in [Terminals -> Sessions \cup {NoSession}]
    BY <1>6 DEF BridgeEnds
  <2>4. \E to \in {"ended", "real", "noshell"} : at' = [at EXCEPT ![p] = to]
    BY <1>6 DEF BridgeEnds
  <2> QED
    BY <1>6, <2>1, <2>2, <2>3, <2>4 DEF BridgeEnds
<1>7. ASSUME NEW p \in Terminals, Create(p) PROVE TypeOK'
  <2>1. PICK s \in Sessions :
              /\ live' = live \cup {s} /\ readers' = readers \cup {s}
              /\ idle' = [idle EXCEPT ![s] = "busy"]
              /\ maker' = [maker EXCEPT ![s] = p]
              /\ mine' = [mine EXCEPT ![p] = s]
    BY <1>7 DEF Create, Fresh
  <2>2. covered' \in [Terminals -> SUBSET Sessions]
    BY <1>7, <2>1, NotesType DEF Create
  <2> QED
    BY <1>7, <2>1, <2>2 DEF Create
<1>8. ASSUME NEW p \in Terminals, KillVictims(p) PROVE TypeOK'
  <2>1. Evicted(live \cap victims[p]) \in Nat
    BY EvictedType
  <2>2. dropped' \in Nat /\ tier' \in [Terminals -> 0..3]
    BY <1>8, <2>1 DEF KillVictims, TierInv
  <2>3. covered' \in [Terminals -> SUBSET Sessions]
    BY <1>8, NotesType DEF KillVictims
  <2> QED
    BY <1>8, <2>2, <2>3 DEF KillVictims
<1>9. ASSUME Crash \/ UpgradeDaemon \/ \E p \in Terminals : AcceptFails(p) PROVE TypeOK'
  <2>1. faults' \in 0..MaxFaults
    BY <1>9, LiveshAssumption DEF Crash, UpgradeDaemon, AcceptFails, LiveshAssumption
  <2>2. CASE UpgradeDaemon
    <3>1. covered' \in [Terminals -> SUBSET Sessions]
      BY <2>2, NotesType DEF UpgradeDaemon
    <3> QED
      BY <2>1, <2>2, <3>1 DEF UpgradeDaemon
  <2> QED
    BY <1>9, <2>1, <2>2 DEF Crash, AcceptFails, DaemonEnds
<1>10. ASSUME NEW s \in Sessions,
              ReaderEnds(s) \/ Prints(s) \/ Silent(s) \/ OtherOpens(s) \/ OtherLeaves(s)
       PROVE  TypeOK'
  <2>1. CASE ReaderEnds(s) \/ Prints(s) \/ OtherOpens(s)
    BY <2>1 DEF ReaderEnds, Prints, OtherOpens
  <2>2. CASE Silent(s) \/ OtherLeaves(s)
    <3>1. covered' \in [Terminals -> SUBSET Sessions]
      BY <2>2, NotesType DEF Silent, OtherLeaves
    <3> QED
      BY <2>2, <3>1 DEF Silent, OtherLeaves
  <2> QED
    BY <1>10, <2>1, <2>2
<1>11. ASSUME NEW s \in Sessions, SessionEnds(s) PROVE TypeOK'
  <2>1. Evicted({s}) \in Nat
    BY EvictedType
  <2> QED
    BY <1>11, <2>1 DEF SessionEnds
<1>12. CASE Closes
  BY <1>12 DEF Closes
<1>13. CASE UNCHANGED vars
  BY <1>13 DEF vars
<1> QED
  BY <1>1, <1>2, <1>3, <1>4, <1>5, <1>6, <1>7, <1>8, <1>9, <1>10, <1>11, <1>12, <1>13, Kinds
  DEF Walks, Attaches, Elsewhere

\* No one asks once more than there are questions.
LEMMA TierStep ==
    ASSUME TypeOK, TierInv, [Next]_vars
    PROVE  TierInv'
<1> USE DEF TypeOK, TierInv, Goto, FailOrFallback, RealShell, daemonVars,
        terminalVars, consent
<1>1. ASSUME NEW p \in Terminals, Walks(p) PROVE TierInv'
  <2>1. CASE FdLimit(p)
    BY <2>1 DEF FdLimit
  <2>2. CASE Prompt(p) \/ KillIdle(p) \/ KillFails(p)
    BY <2>2 DEF Prompt, KillIdle, KillFails
  <2>3. CASE NotFound(p)
    BY <2>3 DEF NotFound
  <2>4. CASE \/ Start(p) \/ Managed(p) \/ Dial(p) \/ DialFails(p) \/ Waits(p) \/ Locks(p)
            \/ Prepare(p)
    BY <2>4 DEF Start, Managed, Dial, DialFails, Waits, Locks, Prepare
  <2>5. CASE \/ StateJsonFails(p) \/ Reexec(p) \/ ExeUnknown(p) \/ ReexecFails(p)
            \/ OpenOwn(p)
    BY <2>5 DEF StateJsonFails, Reexec, ExeUnknown, ReexecFails, OpenOwn
  <2>6. CASE OpenFails(p) \/ Reply(p) \/ CreateFails(p)
    BY <2>6 DEF OpenFails, Reply, CreateFails
  <2> QED
    BY <1>1, <2>1, <2>2, <2>3, <2>4, <2>5, <2>6 DEF Walks
<1>2. ASSUME NEW p \in Terminals, Attaches(p) PROVE TierInv'
  BY <1>2 DEF Attaches, Open, BridgeEnds, BridgeReconnects
<1>3. ASSUME NEW p \in Terminals, Create(p) \/ KillVictims(p) \/ AcceptFails(p)
      PROVE  TierInv'
  BY <1>3 DEF Create, KillVictims, AcceptFails
<1>4. CASE Elsewhere
  BY <1>4 DEF Elsewhere, ReaderEnds, SessionEnds, Prints, Silent, OtherOpens, OtherLeaves,
     Closes, Crash, UpgradeDaemon
<1>5. CASE UNCHANGED vars
  BY <1>5 DEF vars
<1> QED
  BY <1>1, <1>2, <1>3, <1>4, <1>5, Kinds

\* A livesh creates a session only when it has none.
LEMMA OwnStep ==
    ASSUME TypeOK, OwnSession, OneLiveSession, [Next]_vars
    PROVE  OwnSession' /\ OneLiveSession'
<1> USE DEF TypeOK, OwnSession, OneLiveSession, Before, After, Goto, FailOrFallback,
        RealShell, daemonVars, terminalVars, consent
<1>1. ASSUME NEW p \in Terminals, Walks(p) PROVE OwnSession' /\ OneLiveSession'
  <2>1. CASE FdLimit(p) \/ Prompt(p) \/ KillIdle(p) \/ KillFails(p)
    BY <2>1 DEF FdLimit, Prompt, KillIdle, KillFails
  <2>2. CASE NotFound(p)
    BY <2>2 DEF NotFound
  <2>3. CASE Start(p)
    BY <2>3 DEF Start
  <2>4. CASE Managed(p) \/ Dial(p) \/ DialFails(p) \/ Waits(p) \/ Locks(p) \/ Prepare(p)
    BY <2>4 DEF Managed, Dial, DialFails, Waits, Locks, Prepare
  <2>5. CASE \/ StateJsonFails(p) \/ Reexec(p) \/ ExeUnknown(p) \/ ReexecFails(p)
            \/ OpenOwn(p)
    BY <2>5 DEF StateJsonFails, Reexec, ExeUnknown, ReexecFails, OpenOwn
  <2>6. CASE OpenFails(p) \/ Reply(p) \/ CreateFails(p)
    BY <2>6 DEF OpenFails, Reply, CreateFails
  <2> QED
    BY <1>1, <2>1, <2>2, <2>3, <2>4, <2>5, <2>6 DEF Walks
<1>2. ASSUME NEW p \in Terminals, Attaches(p) PROVE OwnSession' /\ OneLiveSession'
  BY <1>2 DEF Attaches, Open, BridgeEnds, BridgeReconnects
<1>3. ASSUME NEW p \in Terminals, Create(p) PROVE OwnSession' /\ OneLiveSession'
  <2>1. PICK s \in Sessions :
              /\ s \notin live /\ live' = live \cup {s}
              /\ maker' = [maker EXCEPT ![s] = p]
              /\ mine' = [mine EXCEPT ![p] = s]
    BY <1>3 DEF Create, Fresh
  <2>2. at[p] = "create" /\ at' = [at EXCEPT ![p] = "reply"]
    BY <1>3 DEF Create
  <2>3. \A t \in live : maker[t] # p /\ maker'[t] = maker[t]
    BY <2>1, <2>2
  <2> QED
    BY <2>1, <2>2, <2>3
<1>4. ASSUME NEW p \in Terminals, KillVictims(p) \/ AcceptFails(p)
      PROVE  OwnSession' /\ OneLiveSession'
  <2>1. live' \subseteq live /\ UNCHANGED <<maker, mine>>
    BY <1>4 DEF KillVictims, AcceptFails, DaemonEnds
  <2>2. CASE AcceptFails(p)
    BY <2>1, <2>2 DEF AcceptFails
  <2>3. CASE KillVictims(p)
    <3>1. at' = [at EXCEPT ![p] = "create"] /\ at[p] = "killing"
      BY <2>3 DEF KillVictims
    <3> QED
      BY <2>1, <3>1
  <2> QED
    BY <1>4, <2>2, <2>3
<1>5. CASE Elsewhere
  <2>1. live' \subseteq live /\ UNCHANGED <<maker, mine, at>>
    BY <1>5 DEF Elsewhere, ReaderEnds, SessionEnds, Prints, Silent, OtherOpens, OtherLeaves,
       Closes, Crash, UpgradeDaemon, DaemonEnds
  <2> QED
    BY <2>1
<1>6. CASE UNCHANGED vars
  BY <1>6 DEF vars
<1> QED
  BY <1>1, <1>2, <1>3, <1>4, <1>5, <1>6, Kinds

\* No step leads a livesh off the way of its mode.
LEMMA ModeStep ==
    ASSUME TypeOK, ModeInv, [Next]_vars
    PROVE  ModeInv'
<1> USE DEF TypeOK, ModeInv, Goto, FailOrFallback, RealShell, daemonVars,
        terminalVars, consent
<1>1. ASSUME NEW p \in Terminals, Walks(p) PROVE ModeInv'
  <2>1. CASE FdLimit(p) \/ Prompt(p) \/ KillIdle(p) \/ KillFails(p)
    BY <2>1 DEF FdLimit, Prompt, KillIdle, KillFails
  <2>2. CASE NotFound(p)
    BY <2>2 DEF NotFound
  <2>3. CASE Start(p)
    BY <2>3 DEF Start
  <2>4. CASE Managed(p) \/ Dial(p) \/ DialFails(p) \/ Waits(p) \/ Locks(p) \/ Prepare(p)
    BY <2>4 DEF Managed, Dial, DialFails, Waits, Locks, Prepare
  <2>5. CASE \/ StateJsonFails(p) \/ Reexec(p) \/ ExeUnknown(p) \/ ReexecFails(p)
            \/ OpenOwn(p)
    BY <2>5 DEF StateJsonFails, Reexec, ExeUnknown, ReexecFails, OpenOwn
  <2>6. CASE OpenFails(p) \/ Reply(p) \/ CreateFails(p)
    BY <2>6 DEF OpenFails, Reply, CreateFails
  <2> QED
    BY <1>1, <2>1, <2>2, <2>3, <2>4, <2>5, <2>6 DEF Walks
<1>2. ASSUME NEW p \in Terminals, Attaches(p) PROVE ModeInv'
  BY <1>2 DEF Attaches, Open, BridgeEnds, BridgeReconnects
<1>3. ASSUME NEW p \in Terminals, Create(p) \/ KillVictims(p) \/ AcceptFails(p)
      PROVE  ModeInv'
  <2>1. CASE Create(p)
    BY <2>1 DEF Create
  <2>2. CASE KillVictims(p)
    BY <2>2 DEF KillVictims
  <2>3. CASE AcceptFails(p)
    BY <2>3 DEF AcceptFails
  <2> QED
    BY <1>3, <2>1, <2>2, <2>3
<1>4. CASE Elsewhere
  <2>1. UNCHANGED <<at, mode, guard, allow>>
    BY <1>4 DEF Elsewhere, ReaderEnds, SessionEnds, Prints, Silent, OtherOpens,
                OtherLeaves, Closes, Crash, UpgradeDaemon
  <2> QED
    BY <2>1
<1>5. CASE UNCHANGED vars
  BY <1>5 DEF vars
<1> QED
  BY <1>1, <1>2, <1>3, <1>4, <1>5, Kinds

\* A step that changes neither sessions nor questions offers nothing new.
LEMMA OfferedSame ==
    ASSUME UNCHANGED <<live, slot, idle, tier>>, NEW p \in Terminals
    PROVE  Offered(p)' = Offered(p)
<1> QED
  BY DEF Offered, Old

\* A yes is given by the user, covers what is picked and goes with the kill.
LEMMA AnswerStep ==
    ASSUME TypeOK, AnswerInv, [Next]_vars
    PROVE  AnswerInv'
<1> USE DEF TypeOK, Goto, FailOrFallback, RealShell, daemonVars, terminalVars, consent
<1> SUFFICES ASSUME NEW q \in Terminals
             PROVE  /\ answer'[q] = "yes" <=> at'[q] \in {"kill", "killing"}
                    /\ answer'[q] = "yes" => Offered(q)' \subseteq covered'[q]
                    /\ at'[q] = "killing" => victims'[q] \subseteq covered'[q]
  BY DEF AnswerInv
<1> DEFINE Placed == answer'[q] = "yes" <=> at'[q] \in {"kill", "killing"}
           Kept   == at'[q] = "killing" => at[q] = "killing" /\ victims'[q] = victims[q]
           Covers == /\ answer'[q] = "yes" => Offered(q)' \subseteq covered'[q]
                     /\ at'[q] = "killing" => victims'[q] \subseteq covered'[q]
<1>0. /\ answer[q] = "yes" <=> at[q] \in {"kill", "killing"}
      /\ answer[q] = "yes" => Offered(q) \subseteq covered[q]
      /\ at[q] = "killing" => victims[q] \subseteq covered[q]
  BY DEF AnswerInv
\* Steps that note what they offer ...
<1>1. ASSUME Notes, Placed, Kept PROVE Placed /\ Covers
  BY <1>0, <1>1, NotesCover
\* ... and steps that offer nothing new.
<1>2. ASSUME UNCHANGED <<answer, covered>>, Placed, Kept,
             answer[q] = "yes" => Offered(q)' \subseteq Offered(q)
      PROVE  Placed /\ Covers
  <2> HIDE DEF TypeOK
  <2> QED
    BY <1>0, <1>2
<1>3. ASSUME NEW p \in Terminals, Walks(p) PROVE Placed /\ Covers
  <2>1. CASE Prompt(p)
    <3>1. Notes /\ Placed /\ Kept
      BY <1>0, <2>1 DEF Prompt
    <3> QED
      BY <1>1, <3>1
  <2>2. CASE KillFails(p)
    <3>1. Notes /\ Placed /\ Kept
      BY <1>0, <2>2 DEF KillFails
    <3> QED
      BY <1>1, <3>1
  <2>3. CASE KillIdle(p)
    <3>1. UNCHANGED <<live, slot, idle, tier, answer, covered>>
      BY <2>3 DEF KillIdle
    <3>2. Offered(q)' = Offered(q)
      BY <3>1, OfferedSame
    <3>3. Placed
      BY <1>0, <2>3 DEF KillIdle
    <3>4. at[p] = "kill" /\ victims' = [victims EXCEPT ![p] = Offered(p)]
          /\ at' = [at EXCEPT ![p] = "killing"]
      BY <2>3 DEF KillIdle
    <3>5. CASE q = p
      <4>1. victims'[q] = Offered(q) /\ answer[q] = "yes"
        BY <1>0, <3>4, <3>5
      <4> QED
        BY <1>0, <3>1, <3>2, <3>3, <4>1
    <3>6. CASE q # p
      <4>1. Kept
        BY <3>4, <3>6
      <4> QED
        BY <1>2, <3>1, <3>2, <3>3, <4>1
    <3> QED
      BY <3>5, <3>6
  <2>4. CASE NotFound(p)
    <3>1. UNCHANGED <<answer, covered, live, slot, idle, victims>>
          /\ (q # p => tier'[q] = tier[q] /\ at'[q] = at[q])
          /\ at[p] \notin {"kill", "killing"} /\ at'[p] \notin {"kill", "killing"}
      BY <2>4 DEF NotFound
    <3>2. Placed /\ Kept
      BY <1>0, <3>1
    <3>3. answer[q] = "yes" => q # p
      BY <1>0, <3>1
    <3>4. answer[q] = "yes" => Offered(q)' = Offered(q)
      BY <3>1, <3>3 DEF Offered, Old
    <3> QED
      BY <1>2, <3>1, <3>2, <3>4
  <2>5. ASSUME UNCHANGED <<live, slot, idle, tier, answer, covered, victims>>,
               \E to : at' = [at EXCEPT ![p] = to] /\ to \notin {"kill", "killing"},
               at[p] \notin {"kill", "killing"}
        PROVE  Placed /\ Covers
    <3>1. Offered(q)' = Offered(q)
      BY <2>5, OfferedSame
    <3>2. Placed /\ Kept
      BY <1>0, <2>5
    <3> QED
      BY <1>2, <2>5, <3>1, <3>2
  <2>6. CASE Start(p) \/ Managed(p) \/ Dial(p) \/ DialFails(p) \/ Waits(p) \/ Locks(p)
             \/ Prepare(p)
    BY <2>5, <2>6 DEF Start, Managed, Dial, DialFails, Waits, Locks, Prepare
  <2>7. CASE StateJsonFails(p) \/ Reexec(p) \/ ExeUnknown(p) \/ ReexecFails(p) \/ OpenOwn(p)
    BY <2>5, <2>7 DEF StateJsonFails, Reexec, ExeUnknown, ReexecFails, OpenOwn
  <2>8. CASE OpenFails(p) \/ Reply(p) \/ FdLimit(p) \/ CreateFails(p)
    BY <2>5, <2>8 DEF OpenFails, Reply, FdLimit, CreateFails
  <2> QED
    BY <1>3, <2>1, <2>2, <2>3, <2>4, <2>6, <2>7, <2>8 DEF Walks
<1>4. ASSUME NEW p \in Terminals, Attaches(p) PROVE Placed /\ Covers
  <2>1. CASE BridgeEnds(p)
    <3>1. Notes /\ Placed /\ Kept
      BY <1>0, <2>1 DEF BridgeEnds
    <3> QED
      BY <1>1, <3>1
  <2>2. CASE Open(p) \/ BridgeReconnects(p)
    <3>1. UNCHANGED <<answer, covered, live, idle, tier, victims>>
          /\ slot' = [slot EXCEPT ![mine[p]] = p]
          /\ (q # p => at'[q] = at[q])
          /\ at[p] \notin {"kill", "killing"} /\ at'[p] \notin {"kill", "killing"}
      BY <2>2 DEF Open, BridgeReconnects
    <3>2. Placed /\ Kept
      BY <1>0, <3>1
    <3>3. \A s \in live : slot'[s] = Nobody => slot[s] = Nobody
      BY <3>1, LiveshAssumption DEF LiveshAssumption
    <3>4. Offered(q)' \subseteq Offered(q)
      BY <3>1, <3>3 DEF Offered, Old
    <3> QED
      BY <1>2, <3>1, <3>2, <3>4
  <2> QED
    BY <1>4, <2>1, <2>2 DEF Attaches
<1>5. ASSUME NEW p \in Terminals, Create(p) \/ KillVictims(p) PROVE Placed /\ Covers
  <2>1. Notes /\ Placed /\ Kept
    BY <1>0, <1>5 DEF Create, KillVictims
  <2> QED
    BY <1>1, <2>1
<1>6. ASSUME Crash \/ \E p \in Terminals : AcceptFails(p) PROVE Placed /\ Covers
  <2>1. UNCHANGED <<answer, covered, at, victims>> /\ live' = {}
    BY <1>6 DEF Crash, AcceptFails, DaemonEnds
  <2>2. Placed /\ Kept
    BY <1>0, <2>1
  <2>3. Offered(q)' \subseteq Offered(q)
    BY <2>1 DEF Offered
  <2> QED
    BY <1>2, <2>1, <2>2, <2>3
<1>7. ASSUME NEW s \in Sessions, Silent(s) \/ OtherLeaves(s) PROVE Placed /\ Covers
  <2>1. Notes /\ UNCHANGED <<answer, at, victims>>
    BY <1>7 DEF Silent, OtherLeaves
  <2>2. Placed /\ Kept
    BY <1>0, <2>1
  <2> QED
    BY <1>1, <2>1, <2>2
<1>8. CASE UpgradeDaemon
  <2>1. Notes /\ UNCHANGED <<answer, at, victims>>
    BY <1>8 DEF UpgradeDaemon
  <2>2. Placed /\ Kept
    BY <1>0, <2>1
  <2> QED
    BY <1>1, <2>1, <2>2
<1>9. ASSUME UNCHANGED <<answer, covered, at, victims, tier>>, live' \subseteq live,
             \A t \in live' : slot'[t] = Nobody => slot[t] = Nobody,
             \A t \in live' : idle'[t] = idle[t] \/ idle'[t] = "busy"
      PROVE  Placed /\ Covers
  <2>1. Placed /\ Kept
    BY <1>0, <1>9
  <2>2. \A t \in live' : Old(t, tier[q])' => Old(t, tier[q])
    BY <1>9 DEF Old, Ages
  <2>3. Offered(q)' \subseteq Offered(q)
    BY <1>9, <2>2 DEF Offered
  <2> QED
    BY <1>2, <1>9, <2>1, <2>3
<1>10. ASSUME NEW s \in Sessions,
              ReaderEnds(s) \/ SessionEnds(s) \/ Prints(s) \/ OtherOpens(s)
       PROVE  Placed /\ Covers
  <2>1. UNCHANGED <<answer, covered, at, victims, tier>> /\ live' \subseteq live
    BY <1>10 DEF ReaderEnds, SessionEnds, Prints, OtherOpens
  <2>2. \A t \in live' : slot'[t] = Nobody => slot[t] = Nobody
    BY <1>10, LiveshAssumption
       DEF ReaderEnds, SessionEnds, Prints, OtherOpens, LiveshAssumption
  <2>3. \A t \in live' : idle'[t] = idle[t] \/ idle'[t] = "busy"
    BY <1>10 DEF ReaderEnds, SessionEnds, Prints, OtherOpens
  <2> QED
    BY <1>9, <2>1, <2>2, <2>3
<1>11. CASE Closes \/ UNCHANGED vars
  <2>1. UNCHANGED <<answer, covered, at, victims, tier, live, slot, idle>>
    BY <1>11 DEF Closes, vars
  <2> QED
    BY <1>9, <2>1
<1> QED
  BY <1>3, <1>4, <1>5, <1>6, <1>7, <1>8, <1>10, <1>11, Kinds DEF Elsewhere

LEMMA Inductive == Spec => []IInv
<1>1. IInv /\ [Next]_vars => IInv'
  BY TypeStep, TierStep, OwnStep, ModeStep, AnswerStep DEF IInv
<1> QED
  BY <1>1, InitIInv, PTL DEF Spec

\* The variables keep their types, for any number of terminals, ids and descriptors; the
\* prompts of a livesh among them, of which there are three at most.
THEOREM TypeCorrect == Spec => []TypeOK
<1>1. IInv => TypeOK
  BY DEF IInv
<1> QED
  BY <1>1, Inductive, PTL

\* No livesh has two sessions of its making on the registry at once.
THEOREM OneSession == Spec => []OneLiveSession
<1>1. IInv => OneLiveSession
  BY DEF IInv
<1> QED
  BY <1>1, Inductive, PTL

\* Until it has executed itself, no failure of the daemon or the exec ends a livesh in that
\* error, but for an answer of its user, and none leads a livesh upgrade to a real shell.
THEOREM FallbackByMode == Spec => []FallsBackOrFailsLoudly
<1>1. IInv => FallsBackOrFailsLoudly
  BY DEF IInv, ModeInv, FallsBackOrFailsLoudly
<1> QED
  BY <1>1, Inductive, PTL

\* While the daemon lives, a session goes by itself, or by a kill for which a user answered
\* yes, and after it was seen, since that yes, detached and silent as the question said.
THEOREM ConsentedKills == Spec => KillsByConsent
<1> DEFINE A == \A s \in live \ live' :
                    \/ daemon' = "down" \/ SessionEnds(s)
                    \/ \E p \in Terminals : answer[p] = "yes" /\ s \in covered[p]
<1>1. ASSUME IInv, [Next]_vars PROVE [A]_vars
  <2> USE DEF daemonVars, terminalVars
  <2>1. ASSUME NEW p \in Terminals, Walks(p) \/ Attaches(p) PROVE A
    <3>1. live' = live
      BY <2>1 DEF Walks, Start, Managed, Dial, DialFails, Waits, Locks, Prepare,
         StateJsonFails, Reexec, ExeUnknown, ReexecFails, OpenOwn, NotFound, OpenFails, Reply,
         FdLimit, CreateFails, Prompt, KillIdle, KillFails, Attaches, Open, BridgeEnds,
         BridgeReconnects
    <3> QED
      BY <3>1
  <2>2. ASSUME NEW p \in Terminals, Create(p) PROVE A
    BY <2>2 DEF Create
  <2>3. ASSUME NEW p \in Terminals, KillVictims(p) PROVE A
    <3>1. at[p] = "killing" /\ live' = live \ victims[p]
      BY <2>3 DEF KillVictims
    <3>2. answer[p] = "yes" /\ victims[p] \subseteq covered[p]
      BY <1>1, <3>1 DEF IInv, AnswerInv
    <3> QED
      BY <3>1, <3>2
  <2>4. CASE Crash \/ \E p \in Terminals : AcceptFails(p)
    BY <2>4 DEF Crash, AcceptFails, DaemonEnds
  <2>5. ASSUME NEW s \in Sessions, SessionEnds(s) PROVE A
    <3>1. live \ live' \subseteq {s}
      BY <2>5 DEF SessionEnds
    <3> QED
      BY <2>5, <3>1
  <2>6. ASSUME NEW s \in Sessions,
               ReaderEnds(s) \/ Prints(s) \/ Silent(s) \/ OtherOpens(s) \/ OtherLeaves(s)
        PROVE  A
    BY <2>6 DEF ReaderEnds, Prints, Silent, OtherOpens, OtherLeaves
  <2>7. CASE Closes \/ UpgradeDaemon
    BY <2>7 DEF Closes, UpgradeDaemon
  <2> QED
    BY <1>1, <2>1, <2>2, <2>3, <2>4, <2>5, <2>6, <2>7, Kinds DEF Elsewhere
<1> QED
  BY <1>1, Inductive, PTL DEF Spec, KillsByConsent
=============================================================================
