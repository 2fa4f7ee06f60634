-------------------------------- MODULE Livesh --------------------------------
(***************************************************************************)
(* The livesh command from its start until its terminal shows a session or     *)
(* the real shell: it finds a daemon, creates a session, executes itself again  *)
(* as livesh --open, so that the id is on its command line, and opens what it    *)
(* created, or creates another if that is gone.  When the daemon is out of       *)
(* descriptors it asks, in three tiers, whether to kill detached sessions.       *)
(*                                                                         *)
(* The daemon is coarse: it is there or not, and what it keeps is a table of      *)
(* descriptors, one for a connection, two for a session.  How connect_or_spawn    *)
(* starts it is SpawnLock, how it keeps sessions over an upgrade HotUpgrade, how  *)
(* an attached bridge goes on is Bridge.                                      *)
(***************************************************************************)
EXTENDS Naturals, FiniteSets

CONSTANTS
    Terminals,  \* invocations of livesh
    Sessions,   \* ids; one whose session is forgotten stands for a new one
    Nobody,     \* no terminal
    Other,      \* any client but these, which attaches and leaves at will
    NoSession,  \* no id
    Table,      \* descriptors that the daemon has for connections and sessions
    Peak,       \* those that create_shell needs at once
    MaxFaults,  \* bound: crashes and upgrades of the daemon
    Loaded      \* bound: whether sessions may be there in the beginning

ASSUME LiveshAssumption ==
    /\ Nobody \notin Terminals /\ Other \notin Terminals /\ Nobody # Other
    /\ NoSession \notin Sessions
    /\ IsFiniteSet(Terminals) /\ IsFiniteSet(Sessions)
    /\ Table \in Nat \ {0} /\ Peak \in Nat /\ Peak >= 2
    /\ MaxFaults \in Nat /\ Loaded \in BOOLEAN

VARIABLES
    daemon,  \* whether a liveshd runs
    live,    \* the sessions on its registry
    readers, \* those whose reader thread has its descriptor
    slot,    \* the client attached to a session
    idle,    \* how long ago a session printed
    dropped, \* connections that their client closed and the daemon did not yet
    faults,  \* crashes and upgrades so far
    at,      \* where each livesh is
    mode,    \* livesh, livesh upgrade or livesh --open, as the user typed it
    allow,   \* allow_fallback
    guard,   \* LIVESH_INTERNAL_NO_REEXEC is set
    conn,    \* its connection; one that is cut is noticed by using it
    tier,    \* prompts answered by yes for this create_shell
    answer,  \* the user's last answer, for as long as it holds
    covered, \* history: sessions seen since that was a yes, to which its question applied
    victims, \* sessions that the daemon has picked for it to be killed
    mine,    \* the id it created or was told to open
    maker    \* history: the livesh that created a session

daemonVars   == <<daemon, live, readers, slot, idle, dropped, maker>>
consent      == <<tier, answer, covered>>
terminalVars == <<at, mode, allow, guard, conn, consent, victims, mine>>
vars == <<daemonVars, terminalVars, faults>>

Modes == {"new", "upgrade", "open"}
\* Attached, or finished: "real" is the real shell, "noshell" that it could not be executed,
\* "setup" an error of the surroundings (configuration, shell path, directory, the descriptor
\* for the state, the path of the program itself), "error" one of the daemon, a
\* connection, a session or the user's answer.
Ends  == {"bridge", "ended", "real", "noshell", "setup", "error"}
Ages  == {"busy", "day", "old"}

TypeOK ==
    /\ daemon \in {"up", "down"}
    /\ live \in SUBSET Sessions /\ readers \in SUBSET Sessions
    /\ slot \in [Sessions -> Terminals \cup {Nobody, Other}]
    /\ idle \in [Sessions -> Ages]
    /\ dropped \in Nat /\ faults \in 0..MaxFaults
    /\ at \in [Terminals -> {"start", "managed", "dial", "flock", "prepare", "create", "reply",
                             "prompt", "kill", "killing", "created", "redial", "reflock", "open",
                             "own"} \cup Ends]
    /\ mode \in [Terminals -> Modes]
    /\ allow \in [Terminals -> BOOLEAN] /\ guard \in [Terminals -> BOOLEAN]
    /\ conn \in [Terminals -> {"none", "open", "cut"}]
    /\ tier \in [Terminals -> 0..3]
    /\ answer \in [Terminals -> {"none", "yes", "no"}]
    /\ covered \in [Terminals -> SUBSET Sessions]
    /\ victims \in [Terminals -> SUBSET Sessions]
    /\ mine \in [Terminals -> Sessions \cup {NoSession}]
    /\ maker \in [Sessions -> Terminals \cup {Nobody}]

Init ==
    /\ daemon \in {"up", "down"} /\ dropped = 0 /\ faults = 0
    /\ live \in IF daemon = "up" /\ Loaded THEN {S \in SUBSET Sessions : 2 * Cardinality(S) <= Table}
                ELSE {{}}
    /\ readers = live
    /\ slot = [s \in Sessions |-> Nobody]
    /\ idle \in [Sessions -> Ages] /\ \A s \in Sessions \ live : idle[s] = "busy"
    /\ at = [p \in Terminals |-> "start"]
    /\ mode \in [Terminals -> Modes]
    /\ allow = [p \in Terminals |-> TRUE] /\ guard = [p \in Terminals |-> FALSE]
    /\ conn = [p \in Terminals |-> "none"] /\ tier = [p \in Terminals |-> 0]
    /\ answer = [p \in Terminals |-> "none"] /\ covered = [p \in Terminals |-> {}]
    /\ victims = [p \in Terminals |-> {}]
    /\ mine = [p \in Terminals |-> NoSession]
    /\ maker = [s \in Sessions |-> Nobody]

Connected == {p \in Terminals : conn[p] = "open"}

\* Descriptors in use.
Used ==
    Cardinality(Connected) + Cardinality({s \in Sessions : slot[s] = Other}) + dropped
        + Cardinality(live) + Cardinality(readers)

Goto(p, to) == at' = [at EXCEPT ![p] = to]

\* The client's end is closed, by drop or by the end of the program; the daemon's handler
\* has yet to read the end.
HangUp(p) ==
    /\ conn' = [conn EXCEPT ![p] = "none"]
    /\ dropped' = IF conn[p] = "open" THEN dropped + 1 ELSE dropped

\* Connections of other clients that lose these sessions, and end.
Evicted(S) == Cardinality({s \in S : slot[s] = Other})

\* exec_real_shell: it takes the place of livesh, or livesh ends with that error.
RealShell(p) == Goto(p, "real") \/ Goto(p, "noshell")

\* fail_or_fallback.
FailOrFallback(p) == (IF allow[p] THEN RealShell(p) ELSE Goto(p, "error")) /\ HangUp(p)

\* The daemon ends: with it go its sessions and all connections.
DaemonEnds ==
    /\ daemon' = "down"
    /\ live' = {} /\ readers' = {} /\ dropped' = 0
    /\ slot' = [s \in Sessions |-> Nobody]
    /\ conn' = [p \in Terminals |-> IF conn[p] = "open" THEN "cut" ELSE conn[p]]

-----------------------------------------------------------------------------
(* run, open_or_recreate, run_managed_shell                                    *)

Start(p) ==
    /\ at[p] = "start"
    /\ IF mode[p] = "open"
       THEN Goto(p, "redial") /\ \E s \in Sessions : mine' = [mine EXCEPT ![p] = s]
       ELSE Goto(p, "managed") /\ UNCHANGED mine
    /\ allow' = [allow EXCEPT ![p] = mode[p] # "upgrade"]
    /\ UNCHANGED <<daemonVars, faults, mode, guard, conn, consent, victims>>

\* Without a terminal on stdin and stdout a shell is executed at once, if it may be.
Managed(p) ==
    /\ at[p] = "managed"
    /\ Goto(p, "dial") \/ (allow[p] /\ RealShell(p))
    /\ UNCHANGED <<daemonVars, faults, mode, allow, guard, conn, consent, mine, victims>>

\* connect_or_spawn, in run_managed_shell or in open_or_recreate: a daemon is started if
\* there is none.
Dial(p) ==
    /\ at[p] \in {"dial", "redial"} /\ (daemon = "up" => Used < Table)
    /\ daemon' = "up"
    /\ conn' = [conn EXCEPT ![p] = "open"]
    /\ Goto(p, IF at[p] = "dial" THEN "prepare" ELSE "open")
    /\ UNCHANGED <<live, readers, slot, idle, dropped, maker, faults, mode, allow, guard,
                   consent, mine, victims>>

\* It fails: none comes up in time, or the one that runs does not answer in time.
DialFails(p) ==
    /\ at[p] \in {"dial", "redial"}
    /\ IF at[p] = "dial" THEN FailOrFallback(p) ELSE Goto(p, "error") /\ HangUp(p)
    /\ UNCHANGED <<daemon, live, readers, slot, idle, maker, faults, mode, allow, guard,
                   consent, mine, victims>>

\* A daemon that has the lock did not answer: flock waits for as long as it has it ...
Waits(p) ==
    /\ at[p] \in {"dial", "redial"} /\ daemon = "up"
    /\ Goto(p, IF at[p] = "dial" THEN "flock" ELSE "reflock")
    /\ UNCHANGED <<daemonVars, faults, mode, allow, guard, conn, consent, mine, victims>>

\* ... which is until it ends.
Locks(p) ==
    /\ at[p] \in {"flock", "reflock"} /\ daemon = "down"
    /\ Goto(p, IF at[p] = "flock" THEN "dial" ELSE "redial")
    /\ UNCHANGED <<daemonVars, faults, mode, allow, guard, conn, consent, mine, victims>>

\* accept has no descriptor: run returns the error.
AcceptFails(p) ==
    /\ at[p] \in {"dial", "redial"} /\ daemon = "up" /\ Used >= Table
    /\ DaemonEnds
    /\ UNCHANGED <<idle, maker, faults, at, mode, allow, guard, consent, mine, victims>>

\* RunGc, whose answer is ignored; then configuration, shell path and directory.
Prepare(p) ==
    /\ at[p] = "prepare"
    /\ \/ Goto(p, "create") /\ UNCHANGED <<conn, dropped>>
       \/ Goto(p, "setup") /\ HangUp(p)
    /\ UNCHANGED <<daemon, live, readers, slot, idle, maker, faults, mode, allow, guard,
                   consent, mine, victims>>

\* The file descriptor for the state is not writable, after the session was created.
StateJsonFails(p) ==
    /\ at[p] = "created"
    /\ Goto(p, "setup") /\ HangUp(p)
    /\ UNCHANGED <<daemon, live, readers, slot, idle, maker, faults, mode, allow, guard,
                   consent, mine, victims>>

\* livesh --open of its own session, in the same process.
Reexec(p) ==
    /\ at[p] = "created" /\ ~guard[p]
    /\ guard' = [guard EXCEPT ![p] = TRUE]
    /\ Goto(p, "redial") /\ HangUp(p)
    /\ UNCHANGED <<daemon, live, readers, slot, idle, maker, faults, mode, allow, consent,
                   mine, victims>>

\* Its own path is not to be found: an error without a fallback, whatever the mode.
ExeUnknown(p) ==
    /\ at[p] = "created" /\ ~guard[p]
    /\ Goto(p, "setup") /\ HangUp(p)
    /\ UNCHANGED <<daemon, live, readers, slot, idle, maker, faults, mode, allow, guard,
                   consent, mine, victims>>

\* exec returns.
ReexecFails(p) ==
    /\ at[p] = "created" /\ ~guard[p]
    /\ FailOrFallback(p)
    /\ UNCHANGED <<daemon, live, readers, slot, idle, maker, faults, mode, allow, guard,
                   consent, mine, victims>>

\* The second time, open_and_bridge on the connection that it has.
OpenOwn(p) ==
    /\ at[p] = "created" /\ guard[p]
    /\ Goto(p, "own")
    /\ UNCHANGED <<daemonVars, faults, mode, allow, guard, conn, consent, mine, victims>>

\* open_shell with steal; the bridge begins.
Open(p) ==
    /\ at[p] \in {"open", "own"} /\ conn[p] = "open" /\ mine[p] \in live
    /\ slot' = [slot EXCEPT ![mine[p]] = p]
    /\ dropped' = dropped + Evicted({mine[p]})
    /\ Goto(p, "bridge")
    /\ UNCHANGED <<daemon, live, readers, idle, maker, faults, mode, allow, guard, conn,
                   consent, mine, victims>>

\* Mutant: any error starts a fresh shell.
NotFoundOrSo(p) ==
    /\ at[p] \in {"open", "own"} /\ (conn[p] = "open" => mine[p] \notin live)
    /\ HangUp(p)
    /\ IF at[p] = "open"
       THEN /\ Goto(p, "managed")
            /\ allow' = [allow EXCEPT ![p] = TRUE] /\ tier' = [tier EXCEPT ![p] = 0]
            /\ mine' = [mine EXCEPT ![p] = NoSession]
       ELSE Goto(p, "error") /\ UNCHANGED <<allow, tier, mine>>
    /\ UNCHANGED <<daemon, live, readers, slot, idle, maker, faults, mode, guard,
                   answer, covered, victims>>

\* Mutant: the session that has just been created is replaced, too.
NotFoundAgain(p) ==
    /\ at[p] \in {"open", "own"} /\ conn[p] = "open" /\ mine[p] \notin live
    /\ HangUp(p)
    /\ Goto(p, "managed")
    /\ allow' = [allow EXCEPT ![p] = TRUE] /\ tier' = [tier EXCEPT ![p] = 0]
    /\ mine' = [mine EXCEPT ![p] = NoSession]
    /\ UNCHANGED <<daemon, live, readers, slot, idle, maker, faults, mode, guard,
                   answer, covered, victims>>

\* "session is gone; starting a fresh shell", unless it has just been created.
NotFound(p) ==
    /\ at[p] \in {"open", "own"} /\ conn[p] = "open" /\ mine[p] \notin live
    /\ HangUp(p)
    /\ IF at[p] = "open"
       THEN /\ Goto(p, "managed")
            /\ allow' = [allow EXCEPT ![p] = TRUE] /\ tier' = [tier EXCEPT ![p] = 0]
            /\ mine' = [mine EXCEPT ![p] = NoSession]
       ELSE Goto(p, "error") /\ UNCHANGED <<allow, tier, mine>>
    /\ UNCHANGED <<daemon, live, readers, slot, idle, maker, faults, mode, guard,
                   answer, covered, victims>>

\* The connection is lost.
OpenFails(p) ==
    /\ at[p] \in {"open", "own"} /\ conn[p] = "cut"
    /\ Goto(p, "error") /\ HangUp(p)
    /\ UNCHANGED <<daemon, live, readers, slot, idle, maker, faults, mode, allow, guard,
                   consent, mine, victims>>

-----------------------------------------------------------------------------
(* create_shell_with_fd_recovery                                              *)

\* FD_LIMIT_TIERS_MS, and 0 for all.
Old(s, t) == idle[s] \in CASE t = 0 -> {"old"} [] t = 1 -> {"day", "old"} [] OTHER -> Ages

\* The sessions that the question of this tier is about.
Offered(p) == {s \in live : slot[s] = Nobody /\ Old(s, tier[p])}

\* What a yes covers grows as sessions are left and fall silent, until it is used up.
Notes ==
    covered' = [p \in Terminals |-> IF answer'[p] = "yes" THEN covered[p] \cup Offered(p)' ELSE {}]

\* Ids that nobody has or remembers.
Fresh == Sessions \ (live \cup readers \cup {mine[p] : p \in Terminals})

\* The daemon creates; the answer is on its way.
Create(p) ==
    /\ at[p] = "create" /\ conn[p] = "open" /\ Used + Peak <= Table
    /\ \E s \in Fresh :
          /\ live' = live \cup {s} /\ readers' = readers \cup {s}
          /\ idle' = [idle EXCEPT ![s] = "busy"]
          /\ maker' = [maker EXCEPT ![s] = p]
          /\ mine' = [mine EXCEPT ![p] = s]
    /\ Goto(p, "reply")
    /\ UNCHANGED <<daemon, slot, dropped, faults, mode, allow, guard, conn, tier, answer,
                   victims>>
    /\ Notes

\* Created arrives, or the connection was lost before.
Reply(p) ==
    /\ at[p] = "reply"
    /\ \/ Goto(p, "created") /\ UNCHANGED <<conn, dropped>>
       \/ conn[p] = "cut" /\ FailOrFallback(p)
    /\ UNCHANGED <<daemon, live, readers, slot, idle, maker, faults, mode, allow, guard,
                   consent, mine, victims>>

\* Mutant: a fourth prompt.
FdLimitAgain(p) ==
    /\ at[p] = "create" /\ conn[p] = "open" /\ Used + Peak > Table
    /\ IF tier[p] <= 3 THEN Goto(p, "prompt") /\ UNCHANGED <<conn, dropped>>
       ELSE FailOrFallback(p)
    /\ UNCHANGED <<daemon, live, readers, slot, idle, maker, faults, mode, allow, guard,
                   consent, mine, victims>>

\* Mutant: sessions that are silent for three days go without a question.
FdLimitUnasked(p) ==
    /\ at[p] = "create" /\ conn[p] = "open" /\ Used + Peak > Table
    /\ CASE tier[p] = 0 -> Goto(p, "kill") /\ UNCHANGED <<conn, dropped>>
         [] tier[p] \in {1, 2} -> Goto(p, "prompt") /\ UNCHANGED <<conn, dropped>>
         [] OTHER -> FailOrFallback(p)
    /\ UNCHANGED <<daemon, live, readers, slot, idle, maker, faults, mode, allow, guard,
                   consent, mine, victims>>

\* FdLimit: three times the user is asked, then it is an error like others.
FdLimit(p) ==
    /\ at[p] = "create" /\ conn[p] = "open" /\ Used + Peak > Table
    /\ IF tier[p] < 3 THEN Goto(p, "prompt") /\ UNCHANGED <<conn, dropped>>
       ELSE FailOrFallback(p)
    /\ UNCHANGED <<daemon, live, readers, slot, idle, maker, faults, mode, allow, guard,
                   consent, mine, victims>>

\* Mutant: without the fallback.
CreateFailsLoudly(p) ==
    /\ at[p] = "create"
    /\ Goto(p, "error") /\ HangUp(p)
    /\ UNCHANGED <<daemon, live, readers, slot, idle, maker, faults, mode, allow, guard,
                   consent, mine, victims>>

\* TooManyShells, a spawn that fails, or no connection any more.
CreateFails(p) ==
    /\ at[p] = "create"
    /\ FailOrFallback(p)
    /\ UNCHANGED <<daemon, live, readers, slot, idle, maker, faults, mode, allow, guard,
                   consent, mine, victims>>

\* y, or anything else, which is an error like others.
Prompt(p) ==
    /\ at[p] = "prompt"
    /\ \/ /\ Goto(p, "kill") /\ UNCHANGED <<conn, dropped>>
          /\ answer' = [answer EXCEPT ![p] = "yes"]
       \/ /\ FailOrFallback(p)
          /\ answer' = [answer EXCEPT ![p] = "no"]
    /\ UNCHANGED <<daemon, live, readers, slot, idle, maker, faults, mode, allow, guard, tier,
                   mine, victims>>
    /\ Notes

\* kill_idle_detached picks its victims ...
KillIdle(p) ==
    /\ at[p] = "kill" /\ conn[p] = "open"
    /\ victims' = [victims EXCEPT ![p] = Offered(p)]
    /\ Goto(p, "killing")
    /\ UNCHANGED <<daemonVars, faults, mode, allow, guard, conn, consent, mine>>

\* ... and cleans them up, whoever attached since.  The readers' descriptors go later.
KillVictims(p) ==
    /\ at[p] = "killing" /\ conn[p] = "open"
    /\ live' = live \ victims[p]
    /\ slot' = [s \in Sessions |-> IF s \in victims[p] THEN Nobody ELSE slot[s]]
    /\ dropped' = dropped + Evicted(live \cap victims[p])
    /\ victims' = [victims EXCEPT ![p] = {}]
    /\ tier' = [tier EXCEPT ![p] = @ + 1] /\ answer' = [answer EXCEPT ![p] = "none"]
    /\ Goto(p, "create")
    /\ UNCHANGED <<daemon, readers, idle, maker, faults, mode, allow, guard, conn, mine>>
    /\ Notes

KillFails(p) ==
    /\ at[p] \in {"kill", "killing"} /\ conn[p] = "cut"
    /\ FailOrFallback(p)
    /\ victims' = [victims EXCEPT ![p] = {}] /\ answer' = [answer EXCEPT ![p] = "none"]
    /\ UNCHANGED <<daemon, live, readers, slot, idle, maker, faults, mode, allow, guard, tier,
                   mine>>
    /\ Notes

-----------------------------------------------------------------------------
(* Meanwhile                                                                 *)

\* The bridge ends; for which reasons is Bridge.
BridgeEnds(p) ==
    /\ at[p] = "bridge"
    /\ Goto(p, "ended") \/ (conn[p] = "cut" /\ RealShell(p))
    /\ HangUp(p)
    /\ slot' = [s \in Sessions |-> IF slot[s] = p THEN Nobody ELSE slot[s]]
    /\ mine' = [mine EXCEPT ![p] = NoSession]
    /\ UNCHANGED <<daemon, live, readers, idle, maker, faults, mode, allow, guard, tier,
                   answer, victims>>
    /\ Notes

\* The session is opened again after an upgrade, from whoever has it.
BridgeReconnects(p) ==
    /\ at[p] = "bridge" /\ conn[p] = "cut" /\ daemon = "up" /\ Used < Table /\ mine[p] \in live
    /\ conn' = [conn EXCEPT ![p] = "open"]
    /\ slot' = [slot EXCEPT ![mine[p]] = p]
    /\ dropped' = dropped + Evicted({mine[p]})
    /\ UNCHANGED <<daemon, live, readers, idle, maker, faults, at, mode, allow, guard,
                   consent, mine, victims>>

\* A handler reads the end of its connection.
Closes ==
    /\ dropped > 0
    /\ dropped' = dropped - 1
    /\ UNCHANGED <<daemon, live, readers, slot, idle, maker, faults, terminalVars>>

\* The reader thread of a session that is gone sees its terminal hang up.
ReaderEnds(s) ==
    /\ s \in readers \ live
    /\ readers' = readers \ {s}
    /\ UNCHANGED <<daemon, live, slot, idle, dropped, maker, faults, terminalVars>>

\* Its process ends, or liveshctl kills it.
SessionEnds(s) ==
    /\ s \in live
    /\ live' = live \ {s}
    /\ slot' = [slot EXCEPT ![s] = Nobody]
    /\ dropped' = dropped + Evicted({s})
    /\ UNCHANGED <<daemon, readers, idle, maker, faults, terminalVars>>

OtherOpens(s) ==
    /\ s \in live /\ slot[s] # Other /\ Used < Table
    /\ slot' = [slot EXCEPT ![s] = Other]
    /\ UNCHANGED <<daemon, live, readers, idle, dropped, maker, faults, terminalVars>>

OtherLeaves(s) ==
    /\ slot[s] = Other
    /\ slot' = [slot EXCEPT ![s] = Nobody]
    /\ dropped' = dropped + 1
    /\ UNCHANGED <<daemon, live, readers, idle, maker, faults, at, mode, allow, guard,
                   conn, tier, answer, victims, mine>>
    /\ Notes

Prints(s) ==
    /\ s \in live /\ idle[s] # "busy"
    /\ idle' = [idle EXCEPT ![s] = "busy"]
    /\ UNCHANGED <<daemon, live, readers, slot, dropped, maker, faults, terminalVars>>

Silent(s) ==
    /\ s \in live /\ idle[s] # "old"
    /\ idle' = [idle EXCEPT ![s] = IF @ = "busy" THEN "day" ELSE "old"]
    /\ UNCHANGED <<daemon, live, readers, slot, dropped, maker, faults,
                   at, mode, allow, guard, conn, tier, answer, victims, mine>>
    /\ Notes

Crash ==
    /\ daemon = "up" /\ faults < MaxFaults
    /\ faults' = faults + 1
    /\ DaemonEnds
    /\ UNCHANGED <<idle, maker, at, mode, allow, guard, consent, mine, victims>>

\* Connections and readers go with the old program; an attached bridge comes back.
UpgradeDaemon ==
    /\ daemon = "up" /\ faults < MaxFaults
    /\ faults' = faults + 1
    /\ conn' = [p \in Terminals |-> IF conn[p] = "open" THEN "cut" ELSE conn[p]]
    /\ dropped' = 0 /\ readers' = live
    /\ slot' = [s \in Sessions |-> Nobody]
    /\ UNCHANGED <<daemon, live, idle, maker, at, mode, allow, guard, tier, answer,
                   mine, victims>>
    /\ Notes

-----------------------------------------------------------------------------
Recovers(p) ==
    \/ Create(p) \/ Reply(p) \/ FdLimit(p) \/ CreateFails(p) \/ Prompt(p)
    \/ KillIdle(p) \/ KillVictims(p) \/ KillFails(p)

Runs(p) ==
    \/ Managed(p) \/ Dial(p) \/ DialFails(p) \/ Locks(p) \/ AcceptFails(p) \/ Prepare(p)
    \/ StateJsonFails(p) \/ Reexec(p) \/ ExeUnknown(p) \/ ReexecFails(p) \/ OpenOwn(p)
    \/ Open(p) \/ NotFound(p) \/ OpenFails(p) \/ Recovers(p)

Next ==
    \/ \E p \in Terminals : Start(p) \/ Waits(p) \/ Runs(p)
                             \/ BridgeReconnects(p) \/ BridgeEnds(p)
    \/ \E s \in Sessions : ReaderEnds(s) \/ SessionEnds(s) \/ Prints(s) \/ Silent(s)
                           \/ OtherOpens(s) \/ OtherLeaves(s)
    \/ Closes \/ Crash \/ UpgradeDaemon

Spec == Init /\ [][Next]_vars

\* A livesh that was started runs, and its user answers or closes the terminal.
Fairness == \A p \in Terminals : WF_vars(Runs(p))

FairSpec == Spec /\ Fairness
-----------------------------------------------------------------------------
(* Properties                                                               *)

\* However often a session is gone by the time it is opened, one livesh has at most one
\* session on the registry: it creates another only when it was told that the first is
\* gone (is_not_found), not when it lost the daemon, and then no other finds the first.
OneLiveSession ==
    \A s, t \in live : (maker[s] = maker[t] /\ maker[s] # Nobody) => s = t

\* README.md:64, "instead of erroring out", and :71, livesh upgrade "errors loudly": whatever
\* goes wrong with the daemon, its connections, its descriptors or the exec, a livesh that
\* has not yet executed itself does not end with that error but tries the real shell, and
\* a livesh upgrade never does.  Its surroundings ("setup", and that there is no
\* real shell) are an error in both.  It says nothing of who declined: README.md:114 says
\* that n aborts, the code goes the way of every failed creation, to the real shell.
\* Once it has executed itself it is a livesh --open, which does the opposite of both.
FallsBackOrFailsLoudly ==
    \A p \in Terminals :
        ~guard[p] => /\ mode[p] = "new" /\ answer[p] # "no" => at[p] # "error"
                     /\ mode[p] = "upgrade" => at[p] \notin {"real", "noshell"}

\* README.md:107: while the daemon lives, a session that has not ended by itself is lost only
\* by the yes of some user whose question it answered: between that yes and the kill
\* for which it was given, the session was seen detached and silent for as long as
\* the question said, whoever attached or printed afterwards.  A yes is good for one kill.
KillsByConsent ==
    [][\A s \in live \ live' :
          \/ daemon' = "down" \/ SessionEnds(s)
          \/ \E p \in Terminals : answer[p] = "yes" /\ s \in covered[p]]_vars

\* A livesh gets somewhere: sessions that end before they are opened do not make it
\* create and execute itself for ever (LIVESH_INTERNAL_NO_REEXEC), nor do kills that free
\* nothing make it ask for ever.  The exception is flock, which waits for a daemon that
\* runs and does not answer.
InvocationSettles ==
    \A p \in Terminals :
        at[p] # "start" ~>
            at[p] \in Ends \/ (at[p] \in {"flock", "reflock"} /\ daemon = "up")
=============================================================================
