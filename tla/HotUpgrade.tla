----------------------------- MODULE HotUpgrade ------------------------------
(***************************************************************************)
(* perform_upgrade and adopt_shells: the daemon writes its state to files,     *)
(* lists the PTY masters it holds by number, and replaces its own program;     *)
(* the new program finds the shells again by those numbers and files.  Until   *)
(* execv ends them, the other threads go on: shells are created, killed and    *)
(* cleaned up, readers write replay files and run_gc deletes files.            *)
(*                                                                         *)
(* Descriptors are entries of one table: what a number names changes when it   *)
(* is closed and used again, and the lowest free one is used first.  The       *)
(* listener is left to SpawnLock.  Of the three replay files only the screen   *)
(* is modelled; scrollback and events are written and read the same way.       *)
(***************************************************************************)
EXTENDS Naturals

CONSTANTS
    Shells,      \* bound: shells ever created
    Fds,         \* descriptor numbers
    Busy,        \* those of the daemon's lock and connections, until execv
    NoFd,        \* no number
    Talkers,     \* bound: shells that print
    Mortal,      \* bound: shells whose process ends
    MaxChunks,   \* bound: chunks of output on a screen
    MaxUpgrades, \* bound: upgrades
    Collects,    \* bound: whether run_gc runs, once for each program at most
    Killed       \* bound: shells that are killed

ASSUME HotUpgradeAssumption ==
    /\ Fds \subseteq Nat /\ NoFd \notin Fds
    /\ Busy \subseteq Fds /\ Talkers \subseteq Shells /\ Mortal \subseteq Shells
    /\ {"free", "own"} \cap Shells = {}
    /\ MaxChunks \in Nat /\ MaxUpgrades \in Nat
    /\ Collects \in BOOLEAN /\ Killed \subseteq Shells

VARIABLES
    fds,      \* what each number names: a shell's PTY master, or something else
    inherit,  \* the numbers whose FD_CLOEXEC is cleared
    phase,    \* where the upgrade is
    listed,   \* perform_upgrade: its clone of the states, in any order
    todo,     \* those it has yet to go through
    manifest, \* Manifest::shells: the number handed on for a shell, or NoFd
    upgrades, \* upgrades begun
    states,   \* ShellRegistry::states
    life,     \* how far create_shell and cleanup_shell are with a shell
    master,   \* ShellState::master
    reader,   \* OwnedReader of the reader thread
    waiter,   \* shells with a thread in waitpid
    proc,     \* the shell process (external)
    metadata, \* shells with a metadata file
    hint,     \* shells with a pid hint
    screen,   \* the screen file: which chunks it shows, and whether it is whole
    drawn,    \* chunks the shell's terminal model has processed
    writer,   \* persist_replay_files in the reader thread and in the upgrade
    live,     \* run_gc's list of live shells
    \* history
    due,      \* chunks processed when the upgrade took the screen, 0 in a new program
    cut,      \* shells whose reader was writing the screen at execv
    late,     \* shells registered after perform_upgrade listed them
    orphaned, \* registered shells that lost a file to run_gc
    starved,  \* shells for whose reader the new program had no descriptor
    stale     \* the first upgrade that handed on a number its shell had closed, or 0

fdVars      == <<fds, inherit>>
upgradeVars == <<phase, todo, listed, manifest, upgrades>>
shellVars   == <<states, life, master, waiter>>
fileVars    == <<metadata, hint>>
replayVars  == <<screen, drawn, writer, due>>
history     == <<cut, late, orphaned, starved, stale>>
vars == <<fdVars, upgradeVars, shellVars, reader, proc, fileVars, replayVars,
          live, history>>

Writers == {"reader", "upgrade"}
Idle    == [at |-> "idle", upto |-> 0]
NoFile  == [is |-> "none", upto |-> 0]
NoList  == [on |-> FALSE, keep |-> {}]

TypeOK ==
    /\ fds \in [Fds -> {"free", "own"} \cup Shells]
    /\ inherit \in SUBSET Fds
    /\ phase \in {"serving", "flush", "hand", "exec", "starting", "adopting", "gone"}
    /\ todo \in SUBSET Shells /\ listed \in SUBSET Shells
    /\ manifest \in [Shells -> Fds \cup {NoFd}]
    /\ upgrades \in 0..MaxUpgrades
    /\ states \in SUBSET Shells
    /\ life \in [Shells -> {"absent", "spawned", "inserted", "running", "removed",
                            "closed", "gone"}]
    /\ master \in [Shells -> Fds \cup {NoFd}]
    /\ reader \in [Shells -> Fds \cup {NoFd}]
    /\ waiter \in SUBSET Shells
    /\ proc \in [Shells -> {"none", "running", "zombie", "reaped"}]
    /\ metadata \in SUBSET Shells /\ hint \in SUBSET Shells
    /\ screen \in [Shells -> [is : {"none", "cut", "whole", "mixed"}, upto : 0..MaxChunks]]
    /\ drawn \in [Shells -> 0..MaxChunks] /\ due \in [Shells -> 0..MaxChunks]
    /\ writer \in [Shells -> [Writers -> [at : {"idle", "due", "took", "cut"},
                                          upto : 0..MaxChunks]]]
    /\ live \in [on : BOOLEAN, keep : SUBSET Shells]
    /\ cut \in SUBSET Shells /\ late \in SUBSET Shells /\ orphaned \in SUBSET Shells
    /\ starved \in SUBSET Shells /\ stale \in 0..MaxUpgrades

Init ==
    /\ fds = [k \in Fds |-> IF k \in Busy THEN "own" ELSE "free"] /\ inherit = {}
    /\ phase = "serving" /\ upgrades = 0
    /\ todo = {} /\ listed = {} /\ manifest = [s \in Shells |-> NoFd]
    /\ states = {} /\ waiter = {}
    /\ life = [s \in Shells |-> "absent"]
    /\ proc = [s \in Shells |-> "none"]
    /\ master = [s \in Shells |-> NoFd] /\ reader = [s \in Shells |-> NoFd]
    /\ metadata = {} /\ hint = {}
    /\ screen = [s \in Shells |-> NoFile]
    /\ drawn = [s \in Shells |-> 0] /\ due = [s \in Shells |-> 0]
    /\ writer = [s \in Shells |-> [w \in Writers |-> Idle]]
    /\ live = NoList
    /\ cut = {} /\ late = {} /\ orphaned = {}
    /\ starved = {} /\ stale = 0

\* The program that serves requests: before execv, and after adoption.
HandlersRun == phase \in {"serving", "flush", "hand", "exec"}
\* The threads of a shell run in the new program as soon as it is adopted.
ThreadsRun  == HandlersRun \/ phase = "adopting"

Free == {k \in Fds : fds[k] = "free"}

\* The kernel gives out the lowest number that is free.
Lowest(k, free) == k \in free /\ \A j \in free : k <= j

\* close(2): whatever the number names now.
CloseFd(k) ==
    /\ fds' = [fds EXCEPT ![k] = "free"]
    /\ inherit' = inherit \ {k}

\* The screen file is unlinked; a write under way goes to a file without a name.
Unlinked(s) ==
    /\ screen' = [screen EXCEPT ![s] = NoFile]
    /\ writer' = [writer EXCEPT ![s] = [w \in Writers |->
                     IF writer[s][w].at = "cut" THEN Idle ELSE writer[s][w]]]

-----------------------------------------------------------------------------
(* Meanwhile: create_shell, cleanup_shell, the threads and run_gc              *)

\* openpty, spawn_command, clone_reader.
CreateSpawn(s) ==
    /\ HandlersRun /\ life[s] = "absent"
    /\ \E k, r \in Free :
          /\ Lowest(k, Free) /\ Lowest(r, Free \ {k})
          /\ fds' = [fds EXCEPT ![k] = s, ![r] = s]
          /\ master' = [master EXCEPT ![s] = k]
          /\ reader' = [reader EXCEPT ![s] = r]
    /\ life' = [life EXCEPT ![s] = "spawned"]
    /\ proc' = [proc EXCEPT ![s] = "running"]
    /\ UNCHANGED <<inherit, upgradeVars, states, waiter, fileVars, replayVars, live,
                   history>>

CreateInsert(s) ==
    /\ HandlersRun /\ life[s] = "spawned"
    /\ states' = states \cup {s}
    /\ life' = [life EXCEPT ![s] = "inserted"]
    /\ UNCHANGED <<fdVars, upgradeVars, master, waiter, reader, proc, fileVars,
                   replayVars, live, history>>

\* persist_metadata, the reader and the waiter; failures are left to Registry.
CreateFinish(s) ==
    /\ HandlersRun /\ life[s] = "inserted"
    /\ metadata' = metadata \cup {s}
    /\ waiter' = waiter \cup {s}
    /\ life' = [life EXCEPT ![s] = "running"]
    /\ UNCHANGED <<fdVars, upgradeVars, states, master, reader, proc, hint, replayVars,
                   live, history>>

\* cleanup_shell takes the shell off the map: for a kill, or in the sweep or its waiter
\* when there is no such process any more.
CleanupRemove(s) ==
    /\ s \in states /\ life[s] = "running"
    /\ \/ HandlersRun /\ s \in Killed
       \/ ThreadsRun /\ s \in waiter /\ proc[s] = "reaped"
    /\ states' = states \ {s}
    /\ life' = [life EXCEPT ![s] = "removed"]
    /\ UNCHANGED <<fdVars, upgradeVars, master, waiter, reader, proc, fileVars,
                   replayVars, live, history>>

\* Mutant: the descriptor is closed, the state keeps its number.
CloseHandlesKeeps(s) ==
    /\ ThreadsRun /\ life[s] = "removed"
    /\ CloseFd(master[s])
    /\ life' = [life EXCEPT ![s] = "closed"]
    /\ UNCHANGED <<upgradeVars, states, master, waiter, reader, proc, fileVars, replayVars,
                   live, history>>

CloseHandles(s) ==
    /\ ThreadsRun /\ life[s] = "removed"
    /\ CloseFd(master[s])
    /\ master' = [master EXCEPT ![s] = NoFd]
    /\ life' = [life EXCEPT ![s] = "closed"]
    /\ UNCHANGED <<upgradeVars, states, waiter, reader, proc, fileVars, replayVars, live,
                   history>>

RemoveShellFiles(s) ==
    /\ ThreadsRun /\ life[s] = "closed"
    /\ metadata' = metadata \ {s} /\ hint' = hint \ {s}
    /\ Unlinked(s)
    /\ life' = [life EXCEPT ![s] = "gone"]
    /\ UNCHANGED <<fdVars, upgradeVars, states, master, waiter, reader, proc, drawn, due,
                   live, history>>

WaiterReaps(s) ==
    /\ ThreadsRun /\ s \in waiter /\ proc[s] = "zombie"
    /\ proc' = [proc EXCEPT ![s] = "reaped"]
    /\ UNCHANGED <<fdVars, upgradeVars, shellVars, reader, fileVars, replayVars, live,
                   history>>

\* record_output; persist_replay_files comes next.
ReaderReads(s) ==
    /\ ThreadsRun /\ life[s] \notin {"spawned", "inserted"} /\ s \in Talkers
    /\ reader[s] \in Fds /\ fds[reader[s]] = s
    /\ writer[s]["reader"].at = "idle" /\ drawn[s] < MaxChunks
    /\ drawn' = [drawn EXCEPT ![s] = @ + 1]
    /\ writer' = [writer EXCEPT ![s]["reader"].at = "due"]
    /\ UNCHANGED <<fdVars, upgradeVars, shellVars, reader, proc, fileVars, screen, due,
                   live, history>>

\* End of the terminal, or an error because the number names no terminal any more.
ReaderEnds(s) ==
    /\ ThreadsRun /\ reader[s] \in Fds
    /\ writer[s]["reader"].at = "idle"
    /\ \/ fds[reader[s]] = s /\ proc[s] \in {"zombie", "reaped"}
       \/ fds[reader[s]] \in {"free", "own"}
    /\ CloseFd(reader[s])
    /\ reader' = [reader EXCEPT ![s] = NoFd]
    /\ UNCHANGED <<upgradeVars, shellVars, proc, fileVars, replayVars, live, history>>

\* raw_snapshot: the argument of write_private_file.
WriterTakes(s, w) ==
    /\ ThreadsRun /\ writer[s][w].at = "due"
    /\ writer' = [writer EXCEPT ![s][w] = [at |-> "took", upto |-> drawn[s]]]
    /\ due' = IF w = "upgrade" THEN [due EXCEPT ![s] = drawn[s]] ELSE due
    /\ UNCHANGED <<fdVars, upgradeVars, shellVars, reader, proc, fileVars, screen, drawn,
                   live, history>>

\* write_private_file: open with O_TRUNC ...
WriterCuts(s, w) ==
    /\ ThreadsRun /\ writer[s][w].at = "took"
    /\ writer' = [writer EXCEPT ![s][w].at = "cut"]
    /\ screen' = [screen EXCEPT ![s] = [is |-> "cut", upto |-> 0]]
    /\ UNCHANGED <<fdVars, upgradeVars, shellVars, reader, proc, fileVars, drawn, due,
                   live, history>>

\* ... and write.  If another writer has written since, the rest of a longer text stays.
WriterWrites(s, w) ==
    /\ ThreadsRun /\ writer[s][w].at = "cut"
    /\ writer' = [writer EXCEPT ![s][w] = Idle]
    /\ \E is \in IF screen[s].is = "cut" THEN {"whole"} ELSE {"whole", "mixed"} :
          screen' = [screen EXCEPT ![s] = [is |-> is, upto |-> writer[s][w].upto]]
    /\ UNCHANGED <<fdVars, upgradeVars, shellVars, reader, proc, fileVars, drawn, due,
                   live, history>>

\* It may take until execv to go through the directory.
GcList ==
    /\ HandlersRun /\ Collects /\ ~live.on
    /\ live' = [on |-> TRUE, keep |-> states]
    /\ UNCHANGED <<fdVars, upgradeVars, shellVars, reader, proc, fileVars, replayVars,
                   history>>

\* remove_orphans: the files of one shell.
GcDelete(s) ==
    /\ HandlersRun /\ live.on /\ s \notin live.keep
    /\ s \in metadata \/ screen[s].is # "none"
    /\ metadata' = metadata \ {s}
    /\ Unlinked(s)
    /\ orphaned' = orphaned \cup (states \cap {s})
    /\ UNCHANGED <<fdVars, upgradeVars, shellVars, reader, proc, hint, drawn, due, live,
                   cut, late, starved, stale>>

\* The process ends (external).
Exits(s) ==
    /\ proc[s] = "running" /\ s \in Mortal
    /\ proc' = [proc EXCEPT ![s] = "zombie"]
    /\ UNCHANGED <<fdVars, upgradeVars, shellVars, reader, fileVars, replayVars, live,
                   history>>

-----------------------------------------------------------------------------
(* perform_upgrade                                                           *)

UpgradeLists ==
    /\ phase = "serving" /\ upgrades < MaxUpgrades
    /\ phase' = "flush" /\ upgrades' = upgrades + 1
    /\ listed' = states /\ todo' = states
    /\ manifest' = [s \in Shells |-> NoFd]
    /\ UNCHANGED <<fdVars, shellVars, reader, proc, fileVars, replayVars, live, history>>

\* No shell's screen is being flushed.
Flushed == \A s \in Shells : writer[s]["upgrade"].at = "idle"

\* Mutant: the metadata only.
FlushMetadataOnly(s) ==
    /\ phase = "flush" /\ s \in todo /\ Flushed
    /\ todo' = todo \ {s}
    /\ metadata' = metadata \cup {s}
    /\ UNCHANGED <<fdVars, phase, listed, manifest, upgrades, shellVars, reader, proc,
                   hint, replayVars, live, history>>

\* persist_metadata, also for a shell that was cleaned up since; its screen comes next.
FlushMetadata(s) ==
    /\ phase = "flush" /\ s \in todo /\ Flushed
    /\ todo' = todo \ {s}
    /\ metadata' = metadata \cup {s}
    /\ writer' = [writer EXCEPT ![s]["upgrade"].at = "due"]
    /\ UNCHANGED <<fdVars, phase, listed, manifest, upgrades, shellVars, reader, proc,
                   hint, screen, drawn, due, live, history>>

FlushDone ==
    /\ phase = "flush" /\ todo = {} /\ Flushed
    /\ phase' = "hand"
    /\ todo' = listed
    /\ UNCHANGED <<fdVars, listed, manifest, upgrades, shellVars, reader, proc, fileVars,
                   replayVars, live, history>>

\* Mutant: FD_CLOEXEC stays.
HandCloexec(s) ==
    /\ phase = "hand" /\ s \in todo
    /\ IF master[s] = NoFd THEN UNCHANGED <<hint, manifest>>
       ELSE /\ hint' = hint \cup {s}
            /\ manifest' = [manifest EXCEPT ![s] = master[s]]
    /\ todo' = todo \ {s}
    /\ UNCHANGED <<fds, inherit, phase, listed, upgrades, shellVars, reader, proc,
                   metadata, replayVars, live, history>>

\* With the master lock held: an open master is kept over execv and listed.
Hand(s) ==
    /\ phase = "hand" /\ s \in todo
    /\ IF master[s] = NoFd THEN UNCHANGED <<inherit, hint, manifest>>
       ELSE /\ inherit' = inherit \cup {master[s]}
            /\ hint' = hint \cup {s}
            /\ manifest' = [manifest EXCEPT ![s] = master[s]]
    /\ todo' = todo \ {s}
    /\ UNCHANGED <<fds, phase, listed, upgrades, shellVars, reader, proc, metadata,
                   replayVars, live, history>>

HandDone ==
    /\ phase = "hand" /\ todo = {}
    /\ phase' = "exec"
    /\ UNCHANGED <<fdVars, todo, listed, manifest, upgrades, shellVars, reader, proc,
                   fileVars, replayVars, live, history>>

Handed == {s \in Shells : manifest[s] # NoFd}

\* execv: threads and memory go, inherited descriptors and files stay.
Exec ==
    /\ phase = "exec"
    /\ phase' = "starting"
    /\ fds' = [k \in Fds |-> IF k \in inherit THEN fds[k] ELSE "free"]
    /\ states' = {} /\ waiter' = {}
    /\ master' = [s \in Shells |-> NoFd] /\ reader' = [s \in Shells |-> NoFd]
    /\ life' = [s \in Shells |-> IF life[s] \in {"spawned", "removed", "closed"} THEN "gone"
                                 ELSE IF life[s] = "inserted" THEN "running" ELSE life[s]]
    /\ writer' = [s \in Shells |-> [w \in Writers |-> Idle]]
    /\ live' = NoList
    /\ cut' = {s \in Shells : writer[s]["reader"].at = "cut"}
    /\ late' = late \cup (states \ listed)
    /\ stale' = IF stale = 0 /\ \E s \in Handed : master[s] # manifest[s]
                THEN upgrades ELSE stale
    /\ UNCHANGED <<inherit, todo, listed, manifest, upgrades, proc, fileVars, screen,
                   drawn, due, orphaned, starved>>

\* No such binary, or execv fails: perform_upgrade returns, and so does run.
UpgradeFails ==
    /\ phase = "exec"
    /\ phase' = "gone"
    /\ UNCHANGED <<fdVars, todo, listed, manifest, upgrades, shellVars, reader, proc,
                   fileVars, replayVars, live, history>>

-----------------------------------------------------------------------------
(* The new program                                                           *)

\* What run opens before it adopts: the lock and what the runtime needs, as one number.
NewOpens ==
    /\ phase = "starting"
    /\ phase' = "adopting"
    /\ IF Free = {} THEN UNCHANGED fds
       ELSE \E k \in Free : Lowest(k, Free) /\ fds' = [fds EXCEPT ![k] = "own"]
    /\ UNCHANGED <<inherit, todo, listed, manifest, upgrades, shellVars, reader, proc,
                   fileVars, replayVars, live, history>>

\* Metadata can be read and the number can be duplicated.
Adoptable(s) == s \in metadata /\ fds[manifest[s]] # "free" /\ Free # {}

\* Mutant: without spawn_pid_waiter.
AdoptUnwatched(s) ==
    /\ phase = "adopting" /\ s \in Handed /\ Adoptable(s)
    /\ \E r \in Free : /\ Lowest(r, Free)
                      /\ fds' = [fds EXCEPT ![r] = fds[manifest[s]]]
                      /\ reader' = [reader EXCEPT ![s] = r]
    /\ master' = [master EXCEPT ![s] = manifest[s]]
    /\ states' = states \cup {s}
    /\ life' = [life EXCEPT ![s] = "running"]
    /\ drawn' = [drawn EXCEPT ![s] = screen[s].upto]
    /\ due' = [due EXCEPT ![s] = 0]
    /\ manifest' = [manifest EXCEPT ![s] = NoFd]
    /\ UNCHANGED <<inherit, phase, todo, listed, upgrades, waiter, proc, fileVars, screen,
                   writer, live, history>>

\* adopt_one.
AdoptOne(s) ==
    /\ phase = "adopting" /\ s \in Handed /\ Adoptable(s)
    /\ \E r \in Free : /\ Lowest(r, Free)
                      /\ fds' = [fds EXCEPT ![r] = fds[manifest[s]]]
                      /\ reader' = [reader EXCEPT ![s] = r]
    /\ master' = [master EXCEPT ![s] = manifest[s]]
    /\ states' = states \cup {s}
    /\ life' = [life EXCEPT ![s] = "running"]
    /\ waiter' = IF s \in hint THEN waiter \cup {s} ELSE waiter
    /\ drawn' = [drawn EXCEPT ![s] = screen[s].upto]
    /\ due' = [due EXCEPT ![s] = 0]
    /\ manifest' = [manifest EXCEPT ![s] = NoFd]
    /\ UNCHANGED <<inherit, phase, todo, listed, upgrades, proc, fileVars, screen,
                   writer, live, history>>

\* A number is closed twice (OwnedPtyMaster's drop, adopt_shells) while the reader of another
\* shell goes to write its screen: the file, opened in between, got the number, and the
\* second close takes it away before anything is written.
ClosedTwice(s, t) ==
    /\ writer[t]["reader"].at = "took"
    /\ Lowest(manifest[s], Free \cup {manifest[s]})
    /\ screen' = [screen EXCEPT ![s] = NoFile, ![t] = [is |-> "cut", upto |-> 0]]
    /\ writer' = [writer EXCEPT ![t]["reader"] = Idle]

\* adopt_shells closes the number it was given and removes the shell's files; adopt_one has
\* closed it before if it got as far as clone_reader.
AdoptFails(s) ==
    /\ phase = "adopting" /\ s \in Handed /\ ~Adoptable(s)
    /\ CloseFd(manifest[s])
    /\ metadata' = metadata \ {s}
    /\ \/ Unlinked(s)
       \/ s \in metadata /\ \E t \in states \ {s} : ClosedTwice(s, t)
    /\ manifest' = [manifest EXCEPT ![s] = NoFd]
    /\ starved' = IF Free = {} THEN starved \cup {s} ELSE starved
    /\ UNCHANGED <<phase, todo, listed, upgrades, shellVars, reader, proc, hint, drawn,
                   due, live, cut, late, orphaned, stale>>

AdoptDone ==
    /\ phase = "adopting" /\ Handed = {}
    /\ phase' = "serving"
    /\ UNCHANGED <<fdVars, todo, listed, manifest, upgrades, shellVars, reader, proc,
                   fileVars, replayVars, live, history>>

-----------------------------------------------------------------------------
Upgrade ==
    \/ FlushDone \/ HandDone \/ Exec \/ UpgradeFails \/ NewOpens \/ AdoptDone
    \/ \E s \in Shells : FlushMetadata(s) \/ Hand(s) \/ AdoptOne(s) \/ AdoptFails(s)

Create(s) == CreateSpawn(s) \/ CreateInsert(s) \/ CreateFinish(s)
Cleanup(s) == CleanupRemove(s) \/ CloseHandles(s) \/ RemoveShellFiles(s)
Reader(s) == ReaderReads(s) \/ ReaderEnds(s)
Writer(s, w) == WriterTakes(s, w) \/ WriterCuts(s, w) \/ WriterWrites(s, w)
Gc == GcList \/ \E s \in Shells : GcDelete(s)

Next ==
    \/ UpgradeLists \/ Upgrade \/ Gc
    \/ \E s \in Shells : \/ Create(s) \/ Cleanup(s) \/ WaiterReaps(s) \/ Reader(s)
                         \/ Exits(s)
                         \/ \E w \in Writers : Writer(s, w)

Spec == Init /\ [][Next]_vars

\* An upgrade goes on, a thread that waits for a process is told, and a write begun is
\* finished.  Nobody need create, kill, collect or upgrade, no shell need print or exit.
Fairness ==
    /\ WF_vars(Upgrade)
    /\ \A s \in Shells :
          /\ WF_vars(WaiterReaps(s))
          /\ WF_vars(s \in waiter /\ proc[s] = "reaped" /\ CleanupRemove(s))
          /\ \A w \in Writers : WF_vars(Writer(s, w))

FairSpec == Spec /\ Fairness
-----------------------------------------------------------------------------
(* Properties                                                               *)

\* README.md:100, an upgrade comes "without losing live sessions": after it every shell
\* that nobody began to clean up is on the registry again.  Not so a shell registered
\* after perform_upgrade listed the states, or one whose metadata run_gc deleted because
\* it was created after run_gc listed the live ones, or when descriptors run out; nor in a
\* later upgrade, once one has mixed up descriptors (DescriptorsAreOwn).
SessionsSurvive ==
    phase = "serving" /\ stale \in {0, upgrades} =>
        \A s \in Shells :
            life[s] = "running" => s \in states \cup late \cup orphaned \cup starved

\* A registered shell's master and reader are descriptors of its own terminal, whatever
\* was closed and opened around execv (pty_master.rs:20, "no other handle still owns
\* it").  Not so once a shell was cleaned up between Hand and execv: its number may be
\* anything by then, and adopt_one takes it or adopt_shells closes it all the same.
DescriptorsAreOwn ==
    stale = 0 => \A s \in states : /\ master[s] \in Fds /\ fds[master[s]] = s
                                /\ reader[s] \in Fds => fds[reader[s]] = s
                                /\ reader[s] # master[s]

\* daemon.rs:914, output read after the flush is "a small data-loss window": the screen
\* that the new program reads is whole and no older than the flush.  Not so if execv
\* ended the reader between truncating the file and writing it, or if the reader and the
\* flush wrote it at the same time.
ScreenSurvivesFlush ==
    \A s \in Handed :
        (phase \in {"starting", "adopting"} /\ life[s] = "running" /\ s \notin orphaned) =>
            \/ screen[s].is = "whole" /\ screen[s].upto >= due[s]
            \/ screen[s].is = "mixed" \/ s \in cut

\* README.md:7, "When the shell exits, the session is cleaned up automatically", also if
\* the daemon was replaced since: spawn_pid_waiter stands in for the child handle that
\* execv took away, and takes a process that was reaped before for one that is gone.
ExitNoticed ==
    \A s \in Shells :
        (s \in states /\ life[s] = "running" /\ proc[s] \in {"zombie", "reaped"})
            ~> s \notin states \/ phase = "gone"
=============================================================================
