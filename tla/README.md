# Verification of livesh

`livesh` keeps shells alive in a per-user daemon (`liveshd`), so that terminal
clients can attach to them, go away and come back.  This directory models the
daemon, the protocol around it and the client's bridge in TLA+, model-checks the
modules with TLC and proves theorems about them with TLAPS.  Line numbers refer to
`src/` of the repository (`daemon.rs` is `src/src/daemon.rs`), and
`PROJECT.json` maps every definition to the lines it stands for.

## 1. The system

### Components, their state and operations

| Component | State | Operations | Source |
|---|---|---|---|
| A live shell | `ShellState`: `seq`, the grid (`terminal`), `scrollback`, `events`, `attach`, `status`, `master`, `size`, each under a lock of its own | `record_output` (reader thread), `attach`, `detach`, `write_input`, `resize`, `mark_exited`, `clear_replay_buffers` | daemon.rs 1050-1290, limits.rs |
| Registry | `states`: the map of live shells; metadata and replay files | `create_shell`, `open_shell`, `rename`, `kill_shell`, `kill_idle_detached`, `run_gc`, `cleanup_dead_shells`, `prune_storage_caps`, `cleanup_shell` | daemon.rs 456-856, gc.rs, metadata.rs |
| Client handlers | one task per connection and its list of attach ids; one writer task and an unbounded channel each | `handle_client`, `handle_msg` | daemon.rs 209-430 |
| Shell threads | one reader and one waiter per shell, a cwd poller | `spawn_reader`, `spawn_child_waiter`, `spawn_pid_waiter`, `spawn_cwd_poller` | daemon.rs 568-664 |
| Finding the daemon | lock file (`flock`), socket path | `connect_or_spawn`, `spawn_daemon`, `run`, `daemon_lock` | daemon_spawn.rs, daemon.rs 51-150 |
| Hot upgrade | takeover manifest in the environment, inherited descriptors, pid hints, files | `perform_upgrade`, `adopt_shells`, `adopt_one` | daemon.rs 858-1000, takeover.rs |
| Bridge | the current connection and attach id; a `watch` channel that points the input and resize tasks at it | `bridge_snapshot`, `output_loop`, `reconnect`, `try_reattach` | bridge.rs 61-341, 596-640 |
| Bridge input filter | suppression window, held-back input, held-back output | `filter_input`, `observe_output`, `flush_pending` | bridge.rs 343-594 |
| Replay buffers | `BoundedBytes`, `EventRing`: bytes and a cap | `append`, `after`, `clear` | limits.rs |
| `livesh` | its mode, the id it created or was told to open, a guard in its environment, prompts answered | `run_managed_shell`, `open_or_recreate`, `create_shell_with_fd_recovery`, `fail_or_fallback` | bin/livesh.rs |
| `liveshctl` | none | one request per call; a poll around an upgrade | bin/liveshctl.rs |
| Terminal model | a vt100 parser | `process`, `snapshot_bytes`, `set_size` | terminal_model.rs |
| Protocol, framing, configuration, paths, titles | none | parsing and printing | protocol.rs, framing.rs, config.rs, ... |

### How they interact

Clients talk to a handler over a Unix socket; a handler calls the registry and the
shell directly, so that the requests of different clients, the sweep (a task that
wakes up periodically), the reader and the waiter of each shell run at the same
time and meet at the locks of `ShellRegistry` and `ShellState`.  What is sent to a
client goes through its unbounded channel.  The bridge is a client with three tasks
of its own.  Different `livesh` and `liveshctl` processes and the daemons they start
meet only at the lock file and the socket path.  An upgrade replaces the daemon's
program in place: threads, tasks and connections end, descriptors and files stay.
`livesh` executes itself as well, so that the id of what it created is on its command
line; between the two lives of it the daemon may change, or forget the session.

### What is hard about it

- `record_output` and `attach` have no lock in common for the whole of what they do:
  a client that attaches in the middle of a chunk must neither lose nor repeat it.
- `open_shell` lets go of the registry before it attaches; the shell may be cleaned
  up in between, and its exit has then been told to nobody.
- Four actors come to clean up the same shell: its waiter, a kill, `kill_idle_detached`
  and the sweep.
- `create_shell` can fail after each of its steps, with the child already running, or
  the shell already registered.
- Limits are checked under one lock and used under another.
- Clients that start daemons race with each other, with daemons that start and with an
  upgrade, over a lock that some wait for and some only try.
- An upgrade lists the shells, flushes files and hands descriptors on by number while
  shells are still created, cleaned up, collected and written by other threads; the new
  program trusts numbers and files.
- `write_input` keeps a lock while it blocks on the terminal, and requests wait for each
  other's locks in a chain that leads back to the reader of that terminal.
- The daemon runs out of descriptors; what kills sessions for room races with clients
  that attach, and needs the user's consent in three tiers.
- The bridge replaces its connection while its other tasks use it; an attempt that
  timed out may still be carried out.
- Key reports and control sequences arrive cut anywhere.

`PROJECT.json` lists each of these, and the others, as `hazards` with the line where
it bites and the properties that would notice.

## 2. The modules

### ShellStream and Viewing: one live shell

`record_output` is four steps (`ReaderCount`, `ReaderDraw`, `ReaderLog`,
`ReaderDeliver`), one for each lock it takes by itself; `attach` is `OpenLookup`
(under the registry lock), then `OpenLock`, `OpenSnapshot`, `OpenPublish` with the
attach lock held (`holder`); the exit path is `ExitRemove`, `ExitMark`, `ExitTell`;
`prune_storage_caps` tests and clears in separate steps; a connection that breaks
goes through the writer, the reader and the teardown of `handle_client`.  Chunks of
output are numbers; what a snapshot shows is the interval of chunks that the grid
had processed; `out[a]` is what was sent for attach id `a`.

`Viewing` is what a live shell promises its viewers, in terms of them alone: there is one at
a time; it starts with a recent picture and gets the rest in order; the shell does not run
ahead of it while its line holds; it stops being the viewer only with a notice, by its own
request or because its line is down, and is shown nothing new afterwards; who comes after the exit
was announced was greeted with the news.  `ViewingOfShell` is the refinement: the viewer is
the client in the slot, unless it was told that it lost the session and the thief still
attaches (`Views`).  What Viewing leaves out is that the chunk in flight during an attach may
come twice, which `StreamContinuesSnapshot` bounds.

### Registry and SessionTable: the life of shells

One action for each use of the `states` lock and for each step that others can come
between: a handler has a program counter and a shell it works on, a shell has a
reader, a waiter, files, a master descriptor and a process.  `create_shell` is
check, spawn, insert, persist, threads, and its failures are `CreateFails`,
`CreateFailsLate` and `CreatePersistFails`.  `cleanup_shell` is the removal from the
map (`CleanupRemove`, `WaiterCleans`) followed by `MarkExited`, `CloseHandles` and
`RemoveShellFiles` (`Cleaning`), carried out by whoever removed it.  The process is
external: it ends when it likes, on SIGTERM unless it is `Stubborn`, and on SIGHUP
when the last descriptor of the master is closed.

`SessionTable` is what the registry promises: a session ends once, for good, and only
because it was asked for or because its process is gone.  `TableOfSessions` is the
refinement, with `Fits` standing for the limit as the code keeps it.

### SpawnLock: finding, starting and swapping daemons

A client goes through `connect_or_spawn` step by step: connect, wait for the lock,
connect again, unlink, unlock, spawn, poll.  A daemon tries the lock, unlinks, binds
and serves.  `UpgradeExec` releases the lock (it is close-on-exec) and keeps the
socket; `SwappedLock` is the new program trying the lock.  Processes may be killed at
any time.  A session lives exactly as long as its daemon process.  `ListenerKeepsPath` says of
every step that it leaves the path of a daemon that listens, adopted ones among them; the one
step it excepts is in section 5.

### Bridge: the client's side

The three tasks of the bridge against a coarse daemon: a connection is a queue in
each direction, one handler per connection reads one message at a time.  `Attempt`,
`HelloAnswered`, `Reattached`, `AttemptFails`, `TimedOut`, `NotFound` and `GiveUp` are
`reconnect` and `try_reattach`; a connection that is dropped leaves its messages to the
handler, which serves them before it sees the end (`HandlerEnds`).  An upgrade cuts
every connection but one not accepted yet; the successor may drop the shell; the
daemon may end; the bridge's process may be killed.

### InputFilter: bytes

`BridgeInputFilter` over symbols for the bytes it tells apart.  `Classify`, `IsReset`
and `TrailingPrefix` are the parsers of the code, written as what they accept (`Resets`:
somewhere in the output there is one); `Pass` is the loop of `filter_input`, a recursive
function of its input.  Input and output come in pieces; time is the end of the suppression
window and the coming of age of a held-back sequence.  `Thinnings`, all that may be left of an
input without some of its release reports, says what the filter promises without saying how.

### HotUpgrade: flush, manifest, execv, adoption

Descriptors are entries of one table `fds` (what each number names), so that a number
closed and used again names something else; the kernel takes the lowest free one.
`perform_upgrade` is `UpgradeLists`, `Flushed` with its parts for each shell, `Hand` for each
shell, `HandDone`, `Exec` or `UpgradeFails`; the new program is `NewOpens`, `AdoptOne` or
`AdoptFails` for each shell, `AdoptDone`; `ClosedTwice` is the second close of a number that
`OwnedPtyMaster` has closed before, when a reader thread has opened its file in between.  Until `Exec` everything else goes on:
`CreateSpawn`/`CreateInsert`/`CreateFinish`, `CleanupRemove`/`CloseHandles`/
`RemoveShellFiles`, the reader with its replay file (`WriterTakes`, `WriterCuts`,
`WriterWrites`: read the screen, truncate, write), `run_gc` in two steps.  History variables
name the shells that an upgrade may lose: registered late, orphaned by `run_gc`, starved
of a descriptor, or after a stale number.

### ShellLocks: input, resize and who waits for whom

One shell, one handler per client, and the three locks `states`, `attach` and `master` as
variables that hold their holder.  `write_input` is `FindAttach`, `CheckAttach`,
`WriteLock`, one `WriteByte` for each byte the terminal takes, `WriteReturns`; `attach`
resizes with `attach` in hand; a list asks each shell for its attachment with `states` in
hand; a kill removes, marks and closes.  The terminal takes a few bytes each way, the
program in it reads always, or copies input to output, or never reads.  `pty`, `grid` and
`size` are the three places that a resize writes, each named by who wrote it last; when the
ioctl fails none is written, and `attach` goes on.

### Livesh: the command

From the start of `livesh`, `livesh upgrade` or `livesh --open` until a bridge begins, the real
shell is executed (`RealShell`, which may fail) or an error is printed: `run_managed_shell` (`Managed`, `Dial`, `Prepare`,
`Create`, `Reply`, `StateJsonFails`, `Reexec`, `ExeUnknown`, `ReexecFails`, `OpenOwn`), `open_or_recreate` (`Dial` from
`"redial"`, `Open`, `NotFound`, `OpenFails`) and `create_shell_with_fd_recovery` (`FdLimit`,
`Prompt`, `KillIdle`, `KillVictims`, `KillFails`).  `Dial` and `DialFails` are the two results
of `connect_or_spawn`, `Waits` and `Locks` its wait for the lock of a daemon that runs and did not
answer.  `answer` is the user's last answer for as long as it holds, and `covered` the sessions
that a yes has come to be about: those which, since, were seen detached and as silent as the
question said (`Offered`).  The daemon is a table of `Table`
descriptors, one for a connection, two for a session (its master and its reader's
duplicate); a connection that a client closed, and the reader of a session that is gone, keep
theirs for a while.  `kill_idle_detached` picks its victims and cleans them up in two steps,
between which others attach, leave and print.  Crashes and upgrades come at any time.
Ids are used again once nobody remembers them.

### Proof modules

Each of `ShellStreamProofs`, `RegistryProofs`, `SpawnLockProofs`, `HotUpgradeProofs`,
`ShellLocksProofs`, `LiveshProofs`, `BridgeProofs` and `InputFilterProofs` extends the module it
is named after.
The `MC` modules add what TLC needs: symmetry sets, the requests of each handler and the pieces
that the filter is fed.

## 3. The runs

| Run | Instance | Shows |
|---|---|---|
| `shell_stream` | 2 clients, 2 chunks, 2 attach ids | nothing is lost, repeated beyond the one chunk in flight, or reordered; evictions are told, final, and never the work of a stale detach; an exit is visible; a dead connection holds no slot; refinement of Viewing |
| `shell_live` | 1 client, 1 chunk, over the storage cap | output reaches the client, also one that attaches during the prune; teardown ends |
| `spawn_lock` | 2 clients, 2 daemons, 1 poll, 2 upgrades, crashes | at most one daemon serves; no step takes the path of a listening daemon but that of a daemon started during an upgrade; a client that goes to spawn sees a daemon come up; `connect_or_spawn` waits for nothing but a lock that a daemon holds |
| `upgrade_lost` | violation, 1 upgrade | the new binary meets a client's lock and exits with all sessions |
| `registry` | 1 shell, 2 handlers, every request, failures | types; refinement of the session table; a registered shell is tended; the limit is kept but for concurrent creates; an exit is cleaned up |
| `kill_survivor` | violation, a shell that ignores SIGTERM | a killed shell runs on, out of reach |
| `bridge` | 2 attempts, 1 upgrade, 1 key, resize, chunk and rival | the bridge ends for a reason (a session that it lost to its own abandoned attempt is one), keys reach the new connection, a reconnect settles, an abandoned attempt keeps nothing |
| `input_filter` | 3 reads of 1 or 2 pieces, 6 input and 6 output pieces | only whole release reports are dropped, cuts do not matter, the reset is detected wherever it is cut, nothing is held for ever |
| `hot_upgrade` | 2 shells, 5 descriptors, 1 upgrade, 1 chunk, a kill, an exit, a gc | running shells are on the registry again but for the named exceptions; masters and readers are their own; the screen is whole and no older than the flush; an exit is noticed |
| `shell_locks` | 3 handlers, messages of 2 bytes, a terminal of 1, a program that reads, an ioctl that may fail | input messages stay whole; no write on a closed master; the three sizes agree unless resizes overlapped; every request is answered |
| `lock_hang` | violation, 4 handlers, a program that copies | input, attach, reader and list wait for each other, and the kill is never answered |
| `livesh` | 1 livesh of each mode, 2 sessions, 5 descriptors, 2 crashes or upgrades | one live session per livesh; fallback or error by mode, but for a declined question and errors of the surroundings; only sessions that a yes was about are killed; every livesh gets somewhere, or waits for the lock of a daemon |

Why the bounds are enough for these questions:

- The races of ShellStream are between one chunk in flight and one attach, or two
  clients and one slot; the second chunk tells a gap from a repetition, the second
  attach id a steal from a first attach.  The theorems remove the bounds.
- In Registry each shell is independent but for the limit; every race is between
  one handler and the waiter, reader or another handler of the same shell, so one
  shell with two handlers has them all.  Only exceeding the limit takes more; in
  `CapacityBound` the requests under way past the check count as well, so that one shell on
  the registry and another handler past a stale check would already break it.
  The theorems remove the bounds on shells and handlers.
- In SpawnLock two daemons race for the lock, and one client holds it while the other
  waits; two upgrades of one process make a second swap.  `Polls` stands for 100
  tries; each may fail, so the number only makes the behaviours longer.
- In Bridge two attempts are needed for one to be abandoned and another to succeed.
  A single disturbance (an upgrade or the end of the daemon) is followed by all the
  answers to it; that the count of attempts starts anew for a second one is in the
  model (`Disconnected`) but not reached with these bounds.
- In HotUpgrade one shell prints and the other may exit or be killed; with one number for the
  daemon itself and two for each shell, five descriptors are enough for both and run out
  for the successor's readers.  One upgrade shows every race with execv; the theorems cover
  several, and any number of shells and descriptors.
- In ShellLocks two clients overlap in every pair of requests that take locks in different
  places, and the third handler stands for `liveshctl`; a message of two bytes and a
  terminal of one make a write block in the middle.  `lock_hang` has one client for each
  link of the cycle.
- In Livesh one invocation meets every answer of the daemon; other clients are the actor
  `Other`.  Five descriptors hold two sessions and one connection, so that creating fails,
  accepting fails, and both recover; `Peak` (two here) is what `create_shell` needs at once.
  Two faults are one between creating and opening and one after.
- A release report of InputFilter takes five pieces and a reset four or five: three
  reads of two complete either, with a cut at each place.  `MaxPrefix` is 5 in place of 64, so
  that resets on both sides of the limit occur, and `MaxNumber` 99 in place of the largest
  `u32`; the theorems hold for any limit, input and output.

`CHECK_DEADLOCK FALSE` is set in every configuration: a shell may be silent, a bridge
may have ended, and bounded counters run out.

### Fairness

Invariants and action properties need none.  For liveness:

- ShellStream: a thread that started an operation finishes it.  Teardown is strongly
  fair, since it competes with the prune for the registry lock and parking_lot hands a
  mutex to a waiter eventually.  An attach goes on once begun: its wait for the `master` lock in
  `resize` is not in this module, and `lock_hang` is a case where it never ends.  `OutputReachesClient`
  and `TeardownEnds` are about the rest: they hold as long as such a wait ends.
- SpawnLock: processes run (weak); a client waiting for `flock` gets a lock that is
  free again and again (strong; the kernel wakes its waiters).  `OnlyDaemonsBlock` would
  otherwise have to except every lock.
- Registry: a request begun is served, threads run, a process with reason to end ends.
  No request need come, no shell need print or exit.
- Bridge: its tasks and the daemon's handlers run; the timeout around an attempt fires
  if nothing else happens.  No daemon need come back.
- HotUpgrade: an upgrade begun goes on, a write begun is finished, a thread in `waitpid` is told.
  Nobody need create, kill, collect, upgrade, print or exit.
- ShellLocks: a handler whose lock is free again and again gets it (strong: parking_lot's
  mutexes are eventually fair), so does the reader; the program runs (weak).
- Livesh: an invocation runs (but for a wait for `flock` while the daemon that has it runs),
  the daemon answers or the connection is lost, and the user answers
  a prompt or closes the terminal (`read_line` returns then, and counts as no).  Nothing is
  assumed of crashes, other clients, the daemon's slow closing of connections, or readers.
- InputFilter: time passes for a held-back sequence, and the input task's read times out.

## 4. The proofs

All theorems hold for every value of the constants that satisfies the module's named
assumption; nothing else is assumed.

**ShellStreamProofs.** The inductive invariant `IInv` joins the type invariant with:
how far the reader is (`ReaderInv`: drawn, logged and counted chunks differ by the one
in flight), who holds the attach lock and at which step (`LockInv`), that an attach
that was told has left the slot (`ToldInv`), that `base`, which `attach` loaded, is
within one chunk of what the grid shows (`BaseInv`), what the client in the slot has
got so far (`UpToDate`), how the exit path and the status relate (`ExitInv`), and
which ids a closing connection has still to give back (`TeardownInv`), and that ids stay with
the client they were made for (`OwnInv`).  `NoChunkLost`
is not inductive: it says nothing while the reader is busy, and every part of
the strengthening says what is owed in those states.  From it: `TypeCorrect`,
`NothingLost`, `StreamCorrect`, `ExitVisible`, `SlotReleased`, and the action
properties `EvictionFinal` and `EvictionAnnounced`.  `ViewingHolds` shows that a live shell
implements `Viewing`: `ViewerIsInSlot` says who the viewer is, one lemma per action which
abstract step it is (`CountProduces` needs `UpToDate`, `PublishAdmits` the bounds of `BaseInv`,
`DetachLeaves` that an id is its owner's), and `MapStep` goes through the actions.

**SpawnLockProofs.** `DaemonsHoldLock` and `ClientsHoldLock` say who holds the lock in
which states, and `ClientsLookTwice` that a client which is about to unlink the path found nobody
listening with the lock in hand.  `ServesAlone` follows since two serving daemons would both hold
the lock.  `StaysReachable` goes by who can remove the path: a client only after the second look,
a daemon only with the lock, which nobody who listens has lost but to an execv, and then the step
is the one that the property names.  `TypeCorrect` is separate.

**RegistryProofs.** `IInv` adds `CreateInv` (a shell in `create_shell`'s hands belongs
to one handler and is not registered before its turn), `KnownInv` (only shells that were
registered are looked up, held, signalled or cleaned) and `VictimInv` (a handler cleans
up only what was signalled, or found dead) to the properties.  `Bounded`, `Tended` and
`TypeCorrect` follow.  `Refines` shows that the registry implements `SessionTable`: the
step lemmas (`MapCreate`, `MapAsk`, `MapDepart`, `MapEnd`, `MapHold`, `MapSilent`) say
which abstract step each kind of change is, and `MapStep` goes through the actions.

**HotUpgradeProofs.** `IInv` is the type invariant with one conjunct per kind of state that
execv carries over: `LifeInv` (who is on the map, who is listed), `OwnedInv` (numbers name what
their owner thinks, as long as nothing is stale), `MetadataInv` (what is on disk), `HandInv`
(the manifest before execv: right numbers, inherited, no two alike), `FreshInv` (the manifest
after it), `SurvivalInv` (a shell that is missing is owed: it will be adopted), `ScreenInv` and
`FlushInv` (how old a screen may be at each phase).  `Survival`, `OwnDescriptors` and
`ScreenKept` follow.  `SessionsSurvive` speaks of the phase after adoption only; the
strengthening says in each earlier phase where a shell's descriptor, manifest entry
and file are.

**ShellLocksProofs.** `WritersHoldMaster` makes `NoWriteAfterClose` and `InputWhole`
inductive; `LoneResize` says how far a resize that nobody overlaps has come, for `SizesInSync`.

**LiveshProofs.** `OwnSession` says that a livesh which is about to create has nothing on the
registry, and that one which created remembers what; `OneSession` needs it in the step
`Create`.  `ModeInv` follows each mode through the places it may be in before it executed itself
(`FallbackByMode`), `TierInv` bounds the prompts (`TypeCorrect`).  `ConsentedKills` is an action
property and rests on `AnswerInv`: a yes holds from the prompt to the end of the kill and no
longer, what it covers includes all that its question offers at any time since (`NotesCover`, with
`OfferedSame` for the steps that offer nothing new), and what the daemon has picked is among it.

**BridgeProofs.** The hard part is what is under way: an answer may be read long after it was
sent.  `ToldInv` says that an "exited" on its way is true, and that a connection with an "error" or a
"detached by another client" on its way has lost the session and cannot get it back, since no open
waits on it; `OpenInv` says that an open that waits is alone on its connection and belongs to an
attempt that is under way or given up (`Pending`), `FreshInv` that nothing precedes it, `OrderInv`
that input and resize never go to a later connection than the output's.  What a step does to the
queues is said once (`ReqStep`, `RspStep`), and from it what it leaves (`NoOpenKept`, `LostKept`,
`NewlyTold`, `Unasked`).  `EndsWithReason` and `TypeCorrect` follow.

**InputFilterProofs.** What the filter lets through, and what may be left of an input, are recursive
functions of sequences of any length, so the module begins with what it needs to reason about
those: `ByLength` (what holds of a sequence if it holds of all shorter ones holds of all, from the
least element of a set of numbers, `Least`) and `Recursion` (a rule that looks only at shorter
sequences defines exactly one function).  From them `PassIs` and `ThinningsAre`, that `Pass` and
`Thinnings` are what their definitions say.  Then what the code relies on when it keeps the tail of
one read for the next:
`ClassifyStays` (more bytes never change the class of a sequence that has one), `PassJoins` (what
comes of two reads in a row is what comes of the first, and then of what it held back and the
second), `PassThins` with `ThinningsJoin` (only whole release reports are missing), `KeptLater` (what
is kept of the output holds every start of a reset within the limit) and `ShortSeen` (so that a reset
is seen where it ends).  The invariants over the steps are short then: `Sent` splits what was typed
in what was dealt with and what is held back, `Uncut` says that a steady filter did what `Pass` does
to all of it, `Kept` what `output_pending` is a tail of.  `FilterTypeCorrect`,
`FilterDropsOnlyReleases`, `FilterIgnoresCuts` and `EveryResetDetected` follow.

Only model-checked: every liveness property (`OutputReachesClient`, `TeardownEnds`,
`SpawnYieldsDaemon`, `OnlyDaemonsBlock`, `ExitCleansUp`, `ExitNoticed`, `RequestsAnswered`,
`InvocationSettles`, those of Bridge and `PendingLetGo`), since the prover does not handle
fairness and ENABLED.  Every safety property of a passing run is a theorem.  The type invariants of
ShellStream, SpawnLock, HotUpgrade, ShellLocks and Bridge are theorems and no longer part of a
run.

## 5. What the checks found

Where the code does something else than its documents say; the runs of the kind
`violation` keep each counterexample.

1. `upgrade_lost`: an upgrade can lose all sessions to a client that waits for the lock
   (README.md:100).
2. `kill_survivor`: `liveshctl kill` does not end an interactive shell that ignores
   SIGTERM (README.md:29).
3. `lock_hang`: a client that types into a program which copies its input, one that attaches
   and a list stop the daemon for everybody; `liveshctl kill` is not carried out
   (README.md:29).

Behaviours that the models contain and the properties except by name, because no document
says otherwise, or because it speaks of something else:

- A daemon that is started while another is between `execv` and its `flock` gets the lock, and
  removes the path; should it end before it is done, the new program adopts its sessions and
  serves on with a socket that no path leads to (`ListenerKeepsPath`).
- A client whose first connection failed and that asks for the lock after a daemon took it
  waits for that daemon's life, without session and without fallback (`OnlyDaemonsBlock`,
  `InvocationSettles`; README.md:64 promises the fallback for an unreachable daemon).  What is
  promised there is checked for what `connect_or_spawn` returns.
- README.md:114 says that `n` aborts.  `create_shell_with_fd_recovery` returns an error for it
  (livesh.rs:199, 222), and `run_managed_shell` treats that as any failed creation (130): a plain
  `livesh` executes the real shell.  Both are in `Prompt`; `FallsBackOrFailsLoudly` says nothing
  of a `livesh` whose user declined.
- A new `livesh` ends in a plain error, without fallback, when its configuration, shell path or
  directory is unusable (livesh.rs:110-114), when the state cannot be written (134) or its own path
  is not known (139), these two after its session was created, and when there is no real shell
  to fall back to (163).
- With no descriptor free `accept` fails, `run` returns the error and every session is gone,
  before a livesh could ask (`AcceptFails`; README.md:107 promises the prompt when create_shell
  fails).  A kill's descriptors are freed when the readers end, so that a yes can be
  followed by a needless next question, and three by a fallback.
- `kill_idle_detached` kills a shell that a client attached to after it was picked.
  `KillsByConsent` asks that the session was detached and silent after the yes, not that it
  is so still.
- A session stays, detached, when its livesh fails after creating it (`StateJsonFails`,
  `ExeUnknown`, `ReexecFails`, a lost answer); a livesh that executed itself errors where it fell
  back before, and a `livesh upgrade` whose session is gone by then falls back.  Exit code 69 for
  "daemon unavailable" (README.md:33) is never produced.
- daemon.rs:1062 says that `size` is kept in sync with the grid.  Two resizes at once, of a client
  that was evicted and of the one that evicts it, can leave terminal, grid and `size` different
  until the next resize; `SizesAgree` excepts them (`overlapped`).
- `prune_storage_caps` can empty the picture of a shell that a client attached to after it was
  looked at.  The client has its snapshot; who opens the shell later starts from an empty screen.
- A shell whose metadata could not be written at its creation stays registered, without threads,
  until it is killed (`Abandoned`); one whose reader could not be made runs on unregistered.
- A client attached after `mark_exited` hears nothing of the exit; a request served between
  the removal from the map and the exit message yields an error instead of the exit code.
- When an adopted master's reader cannot be made its number is closed twice; a file that another
  adopted shell's reader opened in between loses its contents (`ClosedTwice`).
- An upgrade leaves out shells registered after it listed them, and those whose metadata a
  concurrent `run_gc` deleted; a shell cleaned up between its handing on and execv leaves a
  number in the manifest that names something else; execv can cut the screen file of a shell
  that prints, which is more than the window daemon.rs:914 speaks of; the flush brings
  back files of a shell cleaned up meanwhile.
- A bridge whose first attempt timed out may be evicted by that very attempt after the second
  succeeded, and ends with code 0 (bridge.rs:325); `EndsForAReason` takes it for any other rival.
- `OnlyReleasesDropped` does not say that release reports go only while the window is open.

## 6. What is not modelled

- **Byte caps**: which chunks a cap evicts is any prefix in ShellStream, which includes every
  cap; `BoundedBytes` is a plain byte tail.
- **Replay files** other than the screen's in HotUpgrade: written and read like the screen.
- **`liveshctl`**: one request per call, which the handlers of other modules answer; its poll
  after an upgrade is `connect_or_spawn`, and what it prints has no state.
- **Several invocations of `livesh` at once**: the theorems of Livesh hold for any number, TLC
  runs one against `Other`.
- **Terminal model, framing, protocol types, configuration, titles, paths**: no state that
  is shared or that survives a call.
- Pids are not reused in Registry; memory and disk exhaustion are the nondeterministic
  failures of `create_shell` only, descriptor exhaustion is in HotUpgrade and Livesh.
- The handlers of Livesh's daemon are as coarse as Bridge's: the steps of `create_shell` and
  `cleanup_shell` are in Registry, of `attach` in ShellStream.

## 7. Plan

Done, in this order: ShellStream and its proofs, SpawnLock and its proofs, SessionTable,
Registry and its proofs, Bridge, InputFilter, HotUpgrade and its proofs, ShellLocks and its
proofs, Livesh and its proofs, the proofs of Bridge and those of InputFilter, Viewing.

Worth doing next:

1. **HotUpgrade as a refinement of SessionTable**, with an execv as a stutter.  It needs an
   exception: a clean-up that execv interrupts before it closed the descriptor has ended a
   session which the new program adopts again.
2. **The byte caps of `limits.rs`** as what the ring of ShellStream, which may lose any prefix,
   stands for.
