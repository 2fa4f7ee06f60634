----------------------------- MODULE ShellLocks ------------------------------
(***************************************************************************)
(* The locks around one shell's terminal: the registry's states, and attach    *)
(* and master of ShellState.  Who asks whether a shell has an attachment       *)
(* (state_for_attach, info) waits for attach with states in hand; attach       *)
(* resizes, and waits for master, with attach in hand; write_input keeps       *)
(* master for as long as write(2) blocks, which is until the program in the    *)
(* terminal reads.  The reader thread needs attach to deliver output.          *)
(*                                                                         *)
(* The terminal and the program are external: input and output are queues of   *)
(* a few bytes, and a program reads always, or copies what it reads to its     *)
(* output as cat does and an echoing terminal too, or never reads.             *)
(***************************************************************************)
EXTENDS Naturals, FiniteSets

CONSTANTS
    Handlers,  \* tasks that serve requests, one client each
    Nobody,    \* no handler
    Jobs,      \* bound: the requests a handler serves
    MsgLen,    \* bytes of an Input message
    InputCap,  \* bytes the terminal takes before write(2) blocks
    OutputCap, \* bytes the terminal takes before the program blocks
    Program    \* what the program does

Requests == {"input", "resize", "open", "steal", "list", "kill"}

ASSUME ShellLocksAssumption ==
    /\ IsFiniteSet(Handlers)
    /\ Nobody \notin Handlers
    /\ Jobs \in [Handlers -> SUBSET Requests]
    /\ MsgLen \in Nat \ {0} /\ InputCap \in Nat \ {0} /\ OutputCap \in Nat \ {0}
    /\ Program \in {"reads", "copies", "deaf"}

VARIABLES
    states,     \* who holds the lock of ShellRegistry::states
    attach,     \* who holds the lock of ShellState::attach
    master,     \* who holds the lock of ShellState::master
    registered, \* whether the shell is in the map
    slot,       \* the attached client's handler
    open,       \* whether ShellState::master is Some
    pty,        \* the terminal's size, named by the handler that set it
    grid,       \* the terminal model's size
    size,       \* ShellState::size
    pc, job,    \* where each handler is, and the request it serves
    left,       \* bytes of its message that are not written yet
    reader,     \* what the reader thread does
    input, output, \* bytes in the terminal (external)
    program,    \* the program in the terminal (external)
    overlapped  \* history: two resizes were under way at the same time

lockVars  == <<states, attach, master>>
shellVars == <<registered, slot, open>>
sizeVars  == <<pty, grid, size, overlapped>>
ptyVars   == <<input, output, program>>
handlers  == <<pc, job, left>>
vars == <<lockVars, shellVars, sizeVars, ptyVars, handlers, reader>>

TypeOK ==
    /\ states \in Handlers \cup {Nobody}
    /\ attach \in Handlers \cup {Nobody}
    /\ master \in Handlers \cup {Nobody}
    /\ registered \in BOOLEAN /\ open \in BOOLEAN
    /\ slot \in Handlers \cup {Nobody}
    /\ pty \in Handlers \cup {Nobody}
    /\ grid \in Handlers \cup {Nobody}
    /\ size \in Handlers \cup {Nobody}
    /\ pc \in [Handlers -> {"idle", "asked", "check", "master", "write", "grid", "size", "attach",
                            "publish", "info", "remove", "tell", "close"}]
    /\ job \in [Handlers -> Requests \cup {"none"}]
    /\ left \in [Handlers -> 0..MsgLen]
    /\ reader \in {"read", "deliver"}
    /\ input \in 0..InputCap /\ output \in 0..OutputCap
    /\ program \in {"running", "told", "ended"}
    /\ overlapped \in BOOLEAN

Init ==
    /\ states = Nobody /\ attach = Nobody /\ master = Nobody
    /\ registered = TRUE /\ open = TRUE /\ slot = Nobody
    /\ pty = Nobody /\ grid = Nobody /\ size = Nobody /\ overlapped = FALSE
    /\ pc = [h \in Handlers |-> "idle"]
    /\ job = [h \in Handlers |-> "none"]
    /\ left = [h \in Handlers |-> 0]
    /\ reader = "read"
    /\ input = 0 /\ output = 0 /\ program = "running"

Goto(h, to) == pc' = [pc EXCEPT ![h] = to]

\* The request is served, or answered with an error.
Reply(h) ==
    /\ Goto(h, "idle")
    /\ job' = [job EXCEPT ![h] = "none"]
    /\ left' = [left EXCEPT ![h] = 0]

\* handle_msg: a client's message has come.
Ask(h) ==
    /\ pc[h] = "idle"
    /\ \E r \in Jobs[h] :
          /\ job' = [job EXCEPT ![h] = r]
          /\ left' = [left EXCEPT ![h] = IF r = "input" THEN MsgLen ELSE 0]
    /\ Goto(h, "asked")
    /\ UNCHANGED <<lockVars, shellVars, sizeVars, ptyVars, reader>>

\* With the states lock: on to the shell if it is registered, or an error.
Lookup(h, rs, to) ==
    /\ pc[h] = "asked" /\ job[h] \in rs /\ states = Nobody
    /\ IF registered THEN Goto(h, to) /\ UNCHANGED <<job, left>> ELSE Reply(h)

-----------------------------------------------------------------------------
(* state_for_attach, and what has an attach id: input and resize               *)

FindAttach(h) ==
    /\ Lookup(h, {"input", "resize"}, "check")
    /\ states' = IF registered THEN h ELSE Nobody
    /\ UNCHANGED <<attach, master, shellVars, sizeVars, ptyVars, reader>>

\* has_attach, for the id that this client was given last.
CheckAttach(h) ==
    /\ pc[h] = "check" /\ attach = Nobody
    /\ states' = Nobody
    /\ IF slot = h THEN Goto(h, "master") /\ UNCHANGED <<job, left>> ELSE Reply(h)
    /\ UNCHANGED <<attach, master, shellVars, sizeVars, ptyVars, reader>>

\* Mutant: writers share the lock.
WriteLockShared(h) ==
    /\ pc[h] = "master" /\ job[h] = "input"
    /\ master = Nobody \/ \E g \in Handlers : master = g /\ pc[g] = "write"
    /\ IF open THEN Goto(h, "write") /\ master' = h /\ UNCHANGED <<job, left>>
       ELSE Reply(h) /\ UNCHANGED master
    /\ UNCHANGED <<states, attach, shellVars, sizeVars, ptyVars, reader>>

\* ShellState::write_input: "shell pty is closed", or write_all with the lock in hand.
WriteLock(h) ==
    /\ pc[h] = "master" /\ job[h] = "input" /\ master = Nobody
    /\ IF open THEN Goto(h, "write") /\ master' = h /\ UNCHANGED <<job, left>>
       ELSE Reply(h) /\ UNCHANGED master
    /\ UNCHANGED <<states, attach, shellVars, sizeVars, ptyVars, reader>>

\* Mutant: something under the attach lock with every write.
WriteByteAttached(h) ==
    /\ pc[h] = "write" /\ left[h] > 0 /\ attach = Nobody
    /\ input < InputCap /\ program # "ended"
    /\ input' = input + 1
    /\ left' = [left EXCEPT ![h] = @ - 1]
    /\ UNCHANGED <<lockVars, shellVars, sizeVars, output, program, pc, job, reader>>

\* The terminal takes as much as it has room for, byte by byte.
WriteByte(h) ==
    /\ pc[h] = "write" /\ left[h] > 0
    /\ input < InputCap /\ program # "ended"
    /\ input' = input + 1
    /\ left' = [left EXCEPT ![h] = @ - 1]
    /\ UNCHANGED <<lockVars, shellVars, sizeVars, output, program, pc, job, reader>>

\* Everything is written, or write(2) fails because the terminal is gone.
WriteReturns(h) ==
    /\ pc[h] = "write" /\ (left[h] = 0 \/ program = "ended")
    /\ master' = Nobody
    /\ Reply(h)
    /\ UNCHANGED <<states, attach, shellVars, sizeVars, ptyVars, reader>>

-----------------------------------------------------------------------------
(* ShellState::resize, of a Resize message and inside of attach                *)

Resizers == {h \in Handlers : pc[h] \in {"grid", "size"}}

\* Where resize returns to, with or without an error: attach goes on in any case.
Resized(h) ==
    IF job[h] = "resize" THEN Reply(h) ELSE Goto(h, "publish") /\ UNCHANGED <<job, left>>

\* Nothing is set when the master is closed, or when the ioctl fails.
ResizePty(h) ==
    /\ pc[h] = "master" /\ job[h] # "input" /\ master = Nobody
    /\ \/ /\ open
          /\ pty' = h
          /\ overlapped' = (Resizers # {})
          /\ Goto(h, "grid") /\ UNCHANGED <<job, left>>
       \/ Resized(h) /\ UNCHANGED <<pty, overlapped>>
    /\ UNCHANGED <<lockVars, shellVars, grid, size, ptyVars, reader>>

ResizeGrid(h) ==
    /\ pc[h] = "grid"
    /\ grid' = h
    /\ Goto(h, "size")
    /\ UNCHANGED <<lockVars, shellVars, pty, size, overlapped, ptyVars, job, left, reader>>

\* Mutant: the size that is persisted is left alone when a client attaches.
ResizeSizeNotOnOpen(h) ==
    /\ pc[h] = "size"
    /\ size' = IF job[h] = "resize" THEN h ELSE size
    /\ Resized(h)
    /\ UNCHANGED <<lockVars, shellVars, pty, grid, overlapped, ptyVars, reader>>

ResizeSize(h) ==
    /\ pc[h] = "size"
    /\ size' = h
    /\ Resized(h)
    /\ UNCHANGED <<lockVars, shellVars, pty, grid, overlapped, ptyVars, reader>>

-----------------------------------------------------------------------------
(* open_shell and attach                                                     *)

OpenLookup(h) ==
    /\ Lookup(h, {"open", "steal"}, "attach")
    /\ UNCHANGED <<lockVars, shellVars, sizeVars, ptyVars, reader>>

\* The lock is kept until the client is in the slot; a client that was there is told.
OpenLock(h) ==
    /\ pc[h] = "attach" /\ attach = Nobody
    /\ IF slot # Nobody /\ job[h] = "open"
       THEN Reply(h) /\ UNCHANGED attach
       ELSE Goto(h, "master") /\ attach' = h /\ UNCHANGED <<job, left>>
    /\ UNCHANGED <<states, master, shellVars, sizeVars, ptyVars, reader>>

OpenPublish(h) ==
    /\ pc[h] = "publish"
    /\ slot' = h
    /\ attach' = Nobody
    /\ Reply(h)
    /\ UNCHANGED <<states, master, registered, open, sizeVars, ptyVars, reader>>

-----------------------------------------------------------------------------
(* list and kill_shell                                                       *)

\* Also kill_idle_detached and prune_storage_caps, which ask is_attached.
ListStates(h) ==
    /\ Lookup(h, {"list"}, "info")
    /\ states' = IF registered THEN h ELSE Nobody
    /\ UNCHANGED <<attach, master, shellVars, sizeVars, ptyVars, reader>>

ListInfo(h) ==
    /\ pc[h] = "info" /\ attach = Nobody
    /\ states' = Nobody
    /\ Reply(h)
    /\ UNCHANGED <<attach, master, shellVars, sizeVars, ptyVars, reader>>

\* The lookup and SIGTERM.
KillLookup(h) ==
    /\ Lookup(h, {"kill"}, "remove")
    /\ program' = IF registered /\ program = "running" THEN "told" ELSE program
    /\ UNCHANGED <<lockVars, shellVars, sizeVars, input, output, reader>>

\* cleanup_shell: who takes the shell off the map does the rest.
CleanupRemove(h) ==
    /\ pc[h] = "remove" /\ states = Nobody
    /\ registered' = FALSE
    /\ IF registered THEN Goto(h, "tell") /\ UNCHANGED <<job, left>> ELSE Reply(h)
    /\ UNCHANGED <<lockVars, slot, open, sizeVars, ptyVars, reader>>

MarkExited(h) ==
    /\ pc[h] = "tell" /\ attach = Nobody
    /\ slot' = Nobody
    /\ Goto(h, "close")
    /\ UNCHANGED <<lockVars, registered, open, sizeVars, ptyVars, job, left, reader>>

\* Mutant: the descriptor is closed under a writer.
CloseHandlesUnlocked(h) ==
    /\ pc[h] = "close"
    /\ open' = FALSE
    /\ Reply(h)
    /\ UNCHANGED <<lockVars, registered, slot, sizeVars, ptyVars, reader>>

CloseHandles(h) ==
    /\ pc[h] = "close" /\ master = Nobody
    /\ open' = FALSE
    /\ Reply(h)
    /\ UNCHANGED <<lockVars, registered, slot, sizeVars, ptyVars, reader>>

-----------------------------------------------------------------------------
(* The reader thread, the terminal and the program                            *)

ReaderReads ==
    /\ reader = "read" /\ output > 0
    /\ output' = 0
    /\ reader' = "deliver"
    /\ UNCHANGED <<lockVars, shellVars, sizeVars, input, program, handlers>>

\* The end of record_output.
ReaderDelivers ==
    /\ reader = "deliver" /\ attach = Nobody
    /\ reader' = "read"
    /\ UNCHANGED <<lockVars, shellVars, sizeVars, ptyVars, handlers>>

ProgramReads ==
    /\ program # "ended" /\ Program # "deaf" /\ input > 0
    /\ Program = "copies" => output < OutputCap
    /\ input' = input - 1
    /\ output' = IF Program = "copies" THEN output + 1 ELSE output
    /\ UNCHANGED <<lockVars, shellVars, sizeVars, program, handlers, reader>>

ProgramPrints ==
    /\ program # "ended" /\ output < OutputCap
    /\ output' = output + 1
    /\ UNCHANGED <<lockVars, shellVars, sizeVars, input, program, handlers, reader>>

\* After SIGTERM; what it did not read is gone.
ProgramEnds ==
    /\ program = "told"
    /\ program' = "ended"
    /\ input' = 0
    /\ UNCHANGED <<lockVars, shellVars, sizeVars, output, handlers, reader>>

-----------------------------------------------------------------------------
Serves(h) ==
    \/ FindAttach(h) \/ OpenLookup(h) \/ ListStates(h) \/ KillLookup(h)
    \/ CheckAttach(h) \/ WriteLock(h) \/ WriteByte(h) \/ WriteReturns(h)
    \/ ResizePty(h) \/ ResizeGrid(h) \/ ResizeSize(h)
    \/ OpenLock(h) \/ OpenPublish(h) \/ ListInfo(h)
    \/ CleanupRemove(h) \/ MarkExited(h) \/ CloseHandles(h)

Next ==
    \/ \E h \in Handlers : Ask(h) \/ Serves(h)
    \/ ReaderReads \/ ReaderDelivers \/ ProgramReads \/ ProgramPrints \/ ProgramEnds

Spec == Init /\ [][Next]_vars

\* A lock that is free again and again is got (parking_lot is fair in the long run), a
\* write(2) goes on when there is room, and the program does what it does.  No client
\* need send anything.
Fairness ==
    /\ \A h \in Handlers : SF_vars(Serves(h))
    /\ WF_vars(ReaderReads) /\ SF_vars(ReaderDelivers)
    /\ WF_vars(ProgramReads) /\ WF_vars(ProgramEnds)

FairSpec == Spec /\ Fairness
-----------------------------------------------------------------------------
(* Properties                                                               *)

\* What one client typed in one message is not mixed with another's, although write(2)
\* takes it in parts and the one who was evicted may still be writing (write_input).
MessagesWhole ==
    \A g, h \in Handlers :
        (pc[g] = "write" /\ pc[h] = "write" /\ left[g] \in 1..(MsgLen - 1)) => g = h

\* The master is not closed under a write(2) that blocks: its number could by then name
\* another shell's terminal (close_handles, OwnedPtyMaster::drop).
WritesToOpenMaster == \A h \in Handlers : pc[h] = "write" => open

\* daemon.rs:1062, size is "Kept in sync with the grid": when nobody resizes, the
\* terminal, the grid and the size that is persisted are the same.  Excepted are two
\* resizes under way at once, of a client that was evicted and of the one that evicts
\* it: each of the three has a lock of its own, and the comment does not hold of them.
SizesAgree ==
    (Resizers = {} /\ ~overlapped) => pty = grid /\ grid = size

\* Whatever waits for whatever: while the program reads, every request is answered.
RequestsAnswered == \A h \in Handlers : pc[h] # "idle" ~> pc[h] = "idle"

\* README.md:29, "liveshctl kill <id> terminates the shell and cleans state": refuted by
\* the run lock_hang with a program that copies its input to its output.  A writer waits
\* for room in the terminal, the program for the reader thread, the reader for attach,
\* which a client that attaches holds while it waits for master, which the writer holds;
\* a list waits for attach with states in hand, and so the kill is never begun.
KillAnswered == \A h \in Handlers : job[h] = "kill" ~> job[h] = "none"
=============================================================================
