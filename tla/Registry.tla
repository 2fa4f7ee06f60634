------------------------------ MODULE Registry -------------------------------
(***************************************************************************)
(* The daemon's registry of shells: create_shell, cleanup_shell and the three *)
(* ways to it (the waiter thread, kill requests, the sweep for dead           *)
(* processes), the files a shell leaves in the runtime directory, and the      *)
(* requests that run at the same time.  The states lock is held for one step   *)
(* only, so every use of it is a step; what is done between two uses sees a    *)
(* registry that others may have changed.                                    *)
(*                                                                         *)
(* The shell process and its PTY are external: a process ends when it likes,   *)
(* after SIGTERM unless it ignores that signal, as interactive shells do, and  *)
(* after SIGHUP, which the kernel sends when no descriptor of the PTY's master *)
(* is open any more.                                                         *)
(***************************************************************************)
EXTENDS Naturals, FiniteSets

CONSTANTS
    Shells,     \* bound: shells ever created
    Handlers,   \* tasks that serve requests; the periodic sweep is one of them
    NoShell,    \* no shell
    NoHandler,  \* no handler
    MaxShells,  \* limits.max_shells
    Stubborn,   \* shells that ignore SIGTERM
    Failures,   \* whether spawning and writing may fail
    Requests    \* bound: the kinds of request made

RequestKinds == {"create", "open", "rename", "kill", "idle", "gc", "sweep"}

ASSUME RegistryAssumption ==
    /\ IsFiniteSet(Shells) /\ IsFiniteSet(Handlers)
    /\ Handlers # {}
    /\ NoShell \notin Shells /\ NoHandler \notin Handlers
    /\ MaxShells \in Nat
    /\ Stubborn \subseteq Shells
    /\ Failures \in BOOLEAN
    /\ Requests \subseteq RequestKinds

VARIABLES
    states,     \* ShellRegistry::states
    exited,     \* progress of cleanup_shell for each shell
    slot,       \* ShellState::attach, the handler whose client is attached
    master,     \* whether ShellState::master is open
    reader,     \* the reader thread and its duplicate of the master
    waiter,     \* the waiter thread
    files,      \* the shell's files in the runtime directory
    proc,       \* the shell process (external)
    signalled,  \* shells the daemon sent SIGTERM to
    pc,         \* where each handler is
    job,        \* the request it serves
    arg,        \* the shell it works on
    todo,       \* the other shells it has yet to clean up
    seen        \* run_gc's list of live shells

shellVars   == <<master, reader, waiter>>
processVars == <<proc, signalled>>
handlerVars == <<pc, job, arg, todo, seen>>
vars == <<states, exited, slot, shellVars, files, processVars, handlerVars>>

PcStates == {"idle", "making", "made", "inserted", "persisted", "signal", "cleanup",
             "cleaning", "next", "prune", "list", "listed", "attach", "rename"}

TypeOK ==
    /\ states \in SUBSET Shells
    /\ exited \in [Shells -> {"live", "removed", "told", "closed", "clean"}]
    /\ slot \in [Shells -> Handlers \cup {NoHandler}]
    /\ master \in [Shells -> BOOLEAN]
    /\ reader \in [Shells -> {"none", "ready", "reading", "dirty", "gone"}]
    /\ waiter \in [Shells -> {"none", "waiting", "reaped", "gone"}]
    /\ files \in [Shells -> SUBSET {"metadata", "replay"}]
    /\ proc \in [Shells -> {"none", "running", "zombie", "reaped"}]
    /\ signalled \in SUBSET Shells
    /\ pc \in [Handlers -> PcStates]
    /\ job \in [Handlers -> {"none", "kill", "idle", "gc", "sweep"}]
    /\ arg \in [Handlers -> Shells \cup {NoShell}]
    /\ todo \in [Handlers -> SUBSET Shells]
    /\ seen \in [Handlers -> SUBSET Shells]

Init ==
    /\ states = {}
    /\ exited = [s \in Shells |-> "live"]
    /\ slot = [s \in Shells |-> NoHandler]
    /\ master = [s \in Shells |-> FALSE]
    /\ reader = [s \in Shells |-> "none"]
    /\ waiter = [s \in Shells |-> "none"]
    /\ files = [s \in Shells |-> {}]
    /\ proc = [s \in Shells |-> "none"]
    /\ signalled = {}
    /\ pc = [h \in Handlers |-> "idle"]
    /\ job = [h \in Handlers |-> "none"]
    /\ arg = [h \in Handlers |-> NoShell]
    /\ todo = [h \in Handlers |-> {}]
    /\ seen = [h \in Handlers |-> {}]

\* Handler h may begin a request of kind k.
Requested(h, k) == pc[h] = "idle" /\ k \in Requests

Goto(h, to) == pc' = [pc EXCEPT ![h] = to]

\* The handler goes on to `to` with shell s in its hands.
Take(h, s, to) ==
    /\ Goto(h, to)
    /\ arg' = [arg EXCEPT ![h] = s]

\* The request is served; the handler's variables go out of scope.
Reply(h) ==
    /\ Take(h, NoShell, "idle")
    /\ job' = [job EXCEPT ![h] = "none"]
    /\ todo' = [todo EXCEPT ![h] = {}]
    /\ seen' = [seen EXCEPT ![h] = {}]

-----------------------------------------------------------------------------
(* create_shell                                                              *)

\* Mutant: off by one.
CreateCheckLate(h) ==
    /\ Requested(h, "create")
    /\ Cardinality(states) <= MaxShells
    /\ Goto(h, "making")
    /\ UNCHANGED <<states, exited, slot, shellVars, files, processVars, job, arg,
                   todo, seen>>

\* The limit is checked and the states lock released.
CreateCheck(h) ==
    /\ Requested(h, "create")
    /\ Cardinality(states) < MaxShells
    /\ Goto(h, "making")
    /\ UNCHANGED <<states, exited, slot, shellVars, files, processVars, job, arg,
                   todo, seen>>

\* openpty, spawn_command, clone_reader.
CreateSpawn(h) ==
    /\ pc[h] = "making"
    /\ \E s \in Shells :
          /\ proc[s] = "none"
          /\ proc' = [proc EXCEPT ![s] = "running"]
          /\ master' = [master EXCEPT ![s] = TRUE]
          /\ reader' = [reader EXCEPT ![s] = "ready"]
          /\ Take(h, s, "made")
    /\ UNCHANGED <<states, exited, slot, waiter, files, signalled, job, todo, seen>>

\* An error before the child runs ...
CreateFails(h) ==
    /\ Failures /\ pc[h] = "making"
    /\ Reply(h)
    /\ UNCHANGED <<states, exited, slot, shellVars, files, processVars>>

\* ... or after: the PTY is closed and the child left to itself.
CreateFailsLate(h) ==
    /\ Failures /\ pc[h] = "making"
    /\ \E s \in Shells :
          /\ proc[s] = "none"
          /\ proc' = [proc EXCEPT ![s] = "running"]
          /\ reader' = [reader EXCEPT ![s] = "gone"]
    /\ Reply(h)
    /\ UNCHANGED <<states, exited, slot, master, waiter, files, signalled>>

\* Mutant: the handler inserts without waiting for the shell to be made.
CreateInsertEarly(h) ==
    /\ pc[h] \in {"making", "made"}
    /\ states' = states \cup {arg[h]}
    /\ Goto(h, "inserted")
    /\ UNCHANGED <<exited, slot, shellVars, files, processVars, job, arg, todo, seen>>

\* The shell goes on the registry; anyone who lists the shells may now use it.
CreateInsert(h) ==
    /\ pc[h] = "made"
    /\ states' = states \cup {arg[h]}
    /\ Goto(h, "inserted")
    /\ UNCHANGED <<exited, slot, shellVars, files, processVars, job, arg, todo, seen>>

CreatePersist(h) ==
    /\ pc[h] = "inserted"
    /\ files' = [files EXCEPT ![arg[h]] = @ \cup {"metadata"}]
    /\ Goto(h, "persisted")
    /\ UNCHANGED <<states, exited, slot, shellVars, processVars, job, arg, todo, seen>>

\* persist_metadata fails: the reader and the child handle are dropped, the shell
\* stays registered.
CreatePersistFails(h) ==
    /\ Failures /\ pc[h] = "inserted"
    /\ reader' = [reader EXCEPT ![arg[h]] = "gone"]
    /\ Reply(h)
    /\ UNCHANGED <<states, exited, slot, master, waiter, files, processVars>>

\* Mutant: the waiter is forgotten.
CreateThreadsNoWaiter(h) ==
    /\ pc[h] = "persisted"
    /\ reader' = [reader EXCEPT ![arg[h]] = "reading"]
    /\ Reply(h)
    /\ UNCHANGED <<states, exited, slot, master, waiter, files, processVars>>

\* spawn_reader and spawn_child_waiter; Created goes to the client.
CreateThreads(h) ==
    /\ pc[h] = "persisted"
    /\ reader' = [reader EXCEPT ![arg[h]] = "reading"]
    /\ waiter' = [waiter EXCEPT ![arg[h]] = "waiting"]
    /\ Reply(h)
    /\ UNCHANGED <<states, exited, slot, master, files, processVars>>

-----------------------------------------------------------------------------
(* Requests that look a shell up and use it afterwards                       *)

OpenLookup(h) ==
    /\ Requested(h, "open")
    /\ \E s \in states : Take(h, s, "attach")
    /\ UNCHANGED <<states, exited, slot, shellVars, files, processVars, job, todo, seen>>

\* ShellState::attach: the slot is taken, from another client if the request says
\* steal; or it is refused.
OpenAttach(h) ==
    /\ pc[h] = "attach"
    /\ \/ slot' = [slot EXCEPT ![arg[h]] = h]
       \/ slot[arg[h]] # NoHandler /\ UNCHANGED slot
    /\ Reply(h)
    /\ UNCHANGED <<states, exited, shellVars, files, processVars>>

\* Detach, or the end of the connection: only a registered shell is found.
Detach(h) ==
    /\ pc[h] = "idle"
    /\ \E s \in states :
          /\ slot[s] = h
          /\ slot' = [slot EXCEPT ![s] = NoHandler]
    /\ UNCHANGED <<states, exited, shellVars, files, processVars, handlerVars>>

RenameLookup(h) ==
    /\ Requested(h, "rename")
    /\ \E s \in states : Take(h, s, "rename")
    /\ UNCHANGED <<states, exited, slot, shellVars, files, processVars, job, todo, seen>>

\* persist_metadata, of a shell that may have been cleaned up meanwhile.
RenamePersist(h) ==
    /\ pc[h] = "rename"
    /\ \/ files' = [files EXCEPT ![arg[h]] = @ \cup {"metadata"}]
       \/ Failures /\ UNCHANGED files
    /\ Reply(h)
    /\ UNCHANGED <<states, exited, slot, shellVars, processVars>>

-----------------------------------------------------------------------------
(* kill_shell, kill_idle_detached, cleanup_dead_shells, run_gc               *)

KillLookup(h) ==
    /\ Requested(h, "kill")
    /\ \E s \in states : Take(h, s, "signal")
    /\ job' = [job EXCEPT ![h] = "kill"]
    /\ UNCHANGED <<states, exited, slot, shellVars, files, processVars, todo, seen>>

\* The detached shells that were idle for long enough; how long is abstracted.
IdleCollect(h) ==
    /\ Requested(h, "idle")
    /\ \E victims \in SUBSET {s \in states : slot[s] = NoHandler} :
          todo' = [todo EXCEPT ![h] = victims]
    /\ job' = [job EXCEPT ![h] = "idle"]
    /\ Goto(h, "next")
    /\ UNCHANGED <<states, exited, slot, shellVars, files, processVars, arg, seen>>

\* Mutant: a shell nobody is attached to counts as dead.
SweepDetached(h) ==
    /\ \E k \in {"gc", "sweep"} :
          /\ Requested(h, k)
          /\ job' = [job EXCEPT ![h] = k]
    /\ todo' = [todo EXCEPT ![h] = {s \in states : slot[s] = NoHandler}]
    /\ Goto(h, "next")
    /\ UNCHANGED <<states, exited, slot, shellVars, files, processVars, arg, seen>>

\* cleanup_dead_shells: kill(pid, 0) fails once the process has been reaped.
SweepCollect(h) ==
    /\ \E k \in {"gc", "sweep"} :
          /\ Requested(h, k)
          /\ job' = [job EXCEPT ![h] = k]
    /\ todo' = [todo EXCEPT ![h] = {s \in states : proc[s] = "reaped"}]
    /\ Goto(h, "next")
    /\ UNCHANGED <<states, exited, slot, shellVars, files, processVars, arg, seen>>

Sweeping(h) == job[h] \in {"gc", "sweep"}

NextVictim(h) ==
    /\ pc[h] = "next"
    /\ \E s \in todo[h] :
          /\ Take(h, s, IF Sweeping(h) THEN "cleanup" ELSE "signal")
          /\ todo' = [todo EXCEPT ![h] = @ \ {s}]
    /\ UNCHANGED <<states, exited, slot, shellVars, files, processVars, job, seen>>

\* The last victim is done: kill requests are answered, sweeps go on to the files.
VictimsDone(h) ==
    /\ pc[h] = "next" /\ todo[h] = {}
    /\ IF Sweeping(h)
       THEN Goto(h, "prune") /\ UNCHANGED <<job, arg, todo, seen>>
       ELSE Reply(h)
    /\ UNCHANGED <<states, exited, slot, shellVars, files, processVars>>

\* kill(pid, SIGTERM), whose result is ignored.
SendTerm(h) ==
    /\ pc[h] = "signal"
    /\ signalled' = signalled \cup {arg[h]}
    /\ Goto(h, "cleanup")
    /\ UNCHANGED <<states, exited, slot, shellVars, files, proc, job, arg, todo, seen>>

\* cleanup_shell: whoever removes the shell from the registry cleans up.
CleanupRemove(h) ==
    /\ pc[h] = "cleanup"
    /\ IF arg[h] \in states
       THEN /\ states' = states \ {arg[h]}
            /\ exited' = [exited EXCEPT ![arg[h]] = "removed"]
            /\ Goto(h, "cleaning") /\ UNCHANGED arg
       ELSE /\ Take(h, NoShell, "next")
            /\ UNCHANGED <<states, exited>>
    /\ UNCHANGED <<slot, shellVars, files, processVars, job, todo, seen>>

CleanupReturns(h) ==
    /\ pc[h] = "cleaning" /\ exited[arg[h]] = "clean"
    /\ Take(h, NoShell, "next")
    /\ UNCHANGED <<states, exited, slot, shellVars, files, processVars, job, todo, seen>>

\* prune_storage_caps, when the runtime files are over their cap: the replay files
\* of detached shells are written anew, all under the states lock.
Prune(h) ==
    /\ pc[h] = "prune"
    /\ \E pruned \in SUBSET {s \in states : slot[s] = NoHandler} :
          files' = [s \in Shells |-> IF s \in pruned THEN files[s] \cup {"replay"}
                                                     ELSE files[s]]
    /\ IF job[h] = "gc" THEN Goto(h, "list") /\ UNCHANGED <<job, arg, todo, seen>>
                        ELSE Reply(h)
    /\ UNCHANGED <<states, exited, slot, shellVars, processVars>>

ListLive(h) ==
    /\ pc[h] = "list"
    /\ seen' = [seen EXCEPT ![h] = states]
    /\ Goto(h, "listed")
    /\ UNCHANGED <<states, exited, slot, shellVars, files, processVars, job, arg, todo>>

\* remove_orphans, once per directory: the files of every shell not on the list.
RemoveOrphans(h) ==
    /\ pc[h] = "listed"
    /\ files' = [s \in Shells |-> IF s \in seen[h] THEN files[s] ELSE {}]
    /\ Reply(h)
    /\ UNCHANGED <<states, exited, slot, shellVars, processVars>>

-----------------------------------------------------------------------------
(* The rest of cleanup_shell, in the thread that removed the shell           *)

\* mark_exited: the attached client is told and loses the slot.
MarkExited(s) ==
    /\ exited[s] = "removed"
    /\ slot' = [slot EXCEPT ![s] = NoHandler]
    /\ exited' = [exited EXCEPT ![s] = "told"]
    /\ UNCHANGED <<states, shellVars, files, processVars, handlerVars>>

CloseHandles(s) ==
    /\ exited[s] = "told"
    /\ master' = [master EXCEPT ![s] = FALSE]
    /\ exited' = [exited EXCEPT ![s] = "closed"]
    /\ UNCHANGED <<states, slot, reader, waiter, files, processVars, handlerVars>>

RemoveShellFiles(s) ==
    /\ exited[s] = "closed"
    /\ files' = [files EXCEPT ![s] = {}]
    /\ exited' = [exited EXCEPT ![s] = "clean"]
    /\ UNCHANGED <<states, slot, shellVars, processVars, handlerVars>>

Cleaning(s) == MarkExited(s) \/ CloseHandles(s) \/ RemoveShellFiles(s)

-----------------------------------------------------------------------------
(* The threads of a shell, and its process                                   *)

\* Output of the shell, or of a process it left behind: record_output (module
\* ShellStream), then persist_replay_files.
ReaderReads(s) ==
    /\ reader[s] = "reading"
    /\ reader' = [reader EXCEPT ![s] = "dirty"]
    /\ UNCHANGED <<states, exited, slot, master, waiter, files, processVars, handlerVars>>

ReaderPersists(s) ==
    /\ reader[s] = "dirty"
    /\ files' = [files EXCEPT ![s] = @ \cup {"replay"}]
    /\ reader' = [reader EXCEPT ![s] = "reading"]
    /\ UNCHANGED <<states, exited, slot, master, waiter, processVars, handlerVars>>

\* End of file, or EIO, when the shell's end of the PTY is closed.
ReaderEnds(s) ==
    /\ reader[s] = "reading" /\ proc[s] \in {"zombie", "reaped"}
    /\ reader' = [reader EXCEPT ![s] = "gone"]
    /\ UNCHANGED <<states, exited, slot, master, waiter, files, processVars, handlerVars>>

WaiterReaps(s) ==
    /\ waiter[s] = "waiting" /\ proc[s] = "zombie"
    /\ proc' = [proc EXCEPT ![s] = "reaped"]
    /\ waiter' = [waiter EXCEPT ![s] = "reaped"]
    /\ UNCHANGED <<states, exited, slot, master, reader, files, signalled, handlerVars>>

\* Mutant: the waiter takes its exit for granted.
WaiterReturns(s) ==
    /\ waiter[s] = "reaped"
    /\ waiter' = [waiter EXCEPT ![s] = "gone"]
    /\ UNCHANGED <<states, exited, slot, master, reader, files, processVars, handlerVars>>

\* cleanup_shell with the exit code.
WaiterCleans(s) ==
    /\ waiter[s] = "reaped"
    /\ waiter' = [waiter EXCEPT ![s] = "gone"]
    /\ IF s \in states
       THEN /\ states' = states \ {s}
            /\ exited' = [exited EXCEPT ![s] = "removed"]
       ELSE UNCHANGED <<states, exited>>
    /\ UNCHANGED <<slot, master, reader, files, processVars, handlerVars>>

Exits(s) ==
    /\ proc[s] = "running"
    /\ proc' = [proc EXCEPT ![s] = "zombie"]
    /\ UNCHANGED <<states, exited, slot, shellVars, files, signalled, handlerVars>>

\* The process has reason to end: SIGTERM or the end of its terminal.
Terminated(s) == s \in signalled \ Stubborn
HungUp(s) == ~master[s] /\ reader[s] \in {"none", "gone"}

EndsOnSignal(s) == (Terminated(s) \/ HungUp(s)) /\ Exits(s)

-----------------------------------------------------------------------------
Create(h) ==
    \/ CreateCheck(h) \/ CreateSpawn(h) \/ CreateFails(h) \/ CreateFailsLate(h)
    \/ CreateInsert(h) \/ CreatePersist(h) \/ CreatePersistFails(h) \/ CreateThreads(h)

Use(h) ==
    OpenLookup(h) \/ OpenAttach(h) \/ Detach(h) \/ RenameLookup(h) \/ RenamePersist(h)

Destroy(h) ==
    \/ KillLookup(h) \/ IdleCollect(h) \/ SweepCollect(h) \/ NextVictim(h)
    \/ VictimsDone(h) \/ SendTerm(h) \/ CleanupRemove(h) \/ CleanupReturns(h)
    \/ Prune(h) \/ ListLive(h) \/ RemoveOrphans(h)

Threads(s) ==
    \/ Cleaning(s) \/ ReaderReads(s) \/ ReaderPersists(s) \/ ReaderEnds(s)
    \/ WaiterReaps(s) \/ WaiterCleans(s)

Next ==
    \/ \E h \in Handlers : Create(h) \/ Use(h) \/ Destroy(h)
    \/ \E s \in Shells : Threads(s) \/ Exits(s)

Spec == Init /\ [][Next]_vars

\* A request that was begun is served to its end, threads that can run do, a process
\* with reason to end does.  No request need come and no shell need print or exit.
Fairness ==
    /\ \A h \in Handlers : WF_vars(pc[h] # "idle" /\ (Create(h) \/ Use(h) \/ Destroy(h)))
    /\ \A s \in Shells : WF_vars(Cleaning(s)) /\ WF_vars(EndsOnSignal(s))
                         /\ WF_vars(WaiterReaps(s) \/ WaiterCleans(s))
                         /\ WF_vars(ReaderPersists(s) \/ ReaderEnds(s))

FairSpec == Spec /\ Fairness
-----------------------------------------------------------------------------
(* Properties                                                               *)

\* Handlers past the limit check whose shell is not registered yet.
InFlight == {h \in Handlers : pc[h] \in {"making", "made"}}

\* create_shell checks the limit and inserts under two separate locks: concurrent
\* requests exceed max_shells, but never by more than the other handlers.
CapacityBound ==
    Cardinality(states) + Cardinality(InFlight) + 1 <= MaxShells + Cardinality(Handlers)

\* The shell is still in create_shell's hands.
BeingCreated(s) == \E h \in Handlers : arg[h] = s /\ pc[h] \in {"inserted", "persisted"}

\* create_shell failed after it registered the shell.
Abandoned(s) == Failures /\ waiter[s] = "none" /\ reader[s] = "gone"

\* Whatever is registered can be used and will be noticed when it exits: its PTY is
\* open, and a waiter is there that has yet to clean it up.  Not so a shell whose
\* creation failed when the metadata was written: it stays without either, until it is
\* killed.
RegisteredIsTended ==
    \A s \in states :
        /\ master[s] /\ exited[s] = "live"
        /\ waiter[s] \in {"waiting", "reaped"} \/ BeingCreated(s) \/ Abandoned(s)

\* The registry is a session table that may be over-committed by the handlers but one.
MayLive(shells) == Cardinality(shells) < MaxShells + Cardinality(Handlers)

Sessions == INSTANCE SessionTable WITH
    Sessions <- Shells,
    Users    <- Handlers,
    NoUser   <- NoHandler,
    Fits     <- MayLive,
    session  <- [s \in Shells |-> IF s \in states THEN "live"
                                  ELSE IF exited[s] = "live" THEN "absent" ELSE "ended"],
    asked    <- signalled,
    gone     <- {s \in Shells : proc[s] \in {"zombie", "reaped"}},
    holder   <- slot

\* A session ends once, for good, and only because it was killed or its process is
\* gone, whichever of waiter, kill and sweep come to clean it up (cleanup_shell);
\* nobody attaches to a session that never was.
TableOfSessions == Sessions!Spec

\* README.md:7, "When the shell exits, the session is cleaned up automatically": a
\* shell whose waiter sees it exit is taken off the registry and its PTY and files go.
ExitCleansUp ==
    \A s \in Shells :
        (waiter[s] = "waiting" /\ proc[s] = "zombie") ~> exited[s] = "clean"

\* README.md:29, "liveshctl kill <id> terminates the shell and cleans state": refuted
\* by the run kill_survivor for a shell that ignores SIGTERM, since the reader's copy
\* of the master keeps the terminal from hanging up.
KilledShellDies ==
    \A s \in Shells : s \in signalled ~> proc[s] \in {"zombie", "reaped"}
=============================================================================
