----------------------------- MODULE ShellStream -----------------------------
(***************************************************************************)
(* One live shell and the clients that attach to it: the reader thread     *)
(* that pumps the PTY (record_output), the attach/steal/detach protocol of  *)
(* the client handlers, the storage prune and the exit path (cleanup_shell, *)
(* mark_exited).  Every lock of ShellState that is taken on its own is a    *)
(* step of its own; the attach lock is explicit because ShellState::attach  *)
(* keeps it across several others.                                          *)
(*                                                                         *)
(* Output is a sequence of chunks numbered by ShellState::seq; the contents *)
(* of a chunk, the grid and the byte sizes are abstracted away.  What a     *)
(* snapshot paints is the interval of chunks the grid had processed.        *)
(***************************************************************************)
EXTENDS Naturals, Sequences

CONSTANTS
    Clients,    \* client connections, each served by one handle_client task
    NoClient,   \* no client
    OverCap,    \* whether the runtime files exceed global_runtime_bytes
    MaxSeq,     \* bound: chunks the shell prints
    MaxAttach   \* bound: attach ids handed out

ASSUME ConstantsAssumption ==
    /\ NoClient \notin Clients
    /\ OverCap \in BOOLEAN
    /\ MaxSeq \in Nat
    /\ MaxAttach \in Nat

Attaches == 1..MaxAttach
NoAttach == 0
Chunks   == 1..MaxSeq

VARIABLES
    seq,        \* ShellState::seq, the number of the last chunk read
    drawn,      \* the grid has processed chunks 1..drawn ...
    erased,     \* ... and was last cleared after chunk `erased`
    ringLo,     \* the event ring holds chunks ringLo+1..ringHi
    ringHi,
    reader,     \* how far record_output got with chunk `seq`
    attach,     \* ShellState::attach, the id of the attached client or NoAttach
    holder,     \* the handler inside ShellState::attach, which holds the attach lock
    pc,         \* where each handler is
    arg,        \* the attach id that handler is working on
    base,       \* the seq ShellState::attach loaded
    granted,    \* attach ids 1..granted have been made
    owner,      \* the client each attach id was given to
    conn,       \* each connection: open, closing (tearing down) or closed
    attached,   \* handle_client's list of ids it must detach on teardown
    receiving,  \* whether the receiving end of the client's channel is alive
    snap,       \* the Snapshot message sent for each attach id
    out,        \* the Output messages sent for each attach id, by seq
    told,       \* the final notice sent for each attach id
    status,     \* ShellState::status
    exit,       \* progress of cleanup_shell
    prune       \* progress of prune_storage_caps, which holds the states lock

readerVars == <<seq, drawn, reader>>
ringVars   == <<ringLo, ringHi>>
lockVars   == <<attach, holder>>
handlerVars == <<pc, arg, base>>
idVars     == <<granted, owner>>
connVars   == <<conn, attached, receiving>>
sentVars   == <<snap, out, told>>
vars == <<readerVars, erased, ringVars, lockVars, handlerVars, idVars,
          connVars, sentVars, status, exit, prune>>

Snapshots == [lo : 0..MaxSeq, hi : 0..MaxSeq, status : {"Running", "Exited"}]

TypeOK ==
    /\ seq \in 0..MaxSeq
    /\ drawn \in 0..seq
    /\ erased \in 0..drawn
    /\ ringHi \in 0..seq
    /\ ringLo \in 0..ringHi
    /\ reader \in {"idle", "counted", "drawn", "logged"}
    /\ granted \in 0..MaxAttach
    /\ attach \in 0..granted
    /\ holder \in Clients \cup {NoClient}
    /\ pc \in [Clients -> {"idle", "found", "snap", "publish", "detach"}]
    /\ arg \in [Clients -> 0..MaxAttach]
    /\ base \in [Clients -> 0..MaxSeq]
    /\ owner \in [Attaches -> Clients \cup {NoClient}]
    /\ conn \in [Clients -> {"open", "closing", "closed"}]
    /\ attached \in [Clients -> SUBSET Attaches]
    /\ receiving \in [Clients -> BOOLEAN]
    /\ snap \in [Attaches -> Snapshots]
    /\ out \in [Attaches -> Seq(Chunks)]
    /\ told \in [Attaches -> {"no", "stolen", "exited"}]
    /\ status \in {"Running", "Exited"}
    /\ exit \in {"live", "removed", "marked", "told"}
    /\ prune \in {"idle", "clearing", "cleared"}

Init ==
    /\ seq = 0 /\ drawn = 0 /\ erased = 0
    /\ ringLo = 0 /\ ringHi = 0
    /\ reader = "idle"
    /\ attach = NoAttach /\ holder = NoClient
    /\ pc = [c \in Clients |-> "idle"]
    /\ arg = [c \in Clients |-> NoAttach]
    /\ base = [c \in Clients |-> 0]
    /\ granted = 0
    /\ owner = [a \in Attaches |-> NoClient]
    /\ conn = [c \in Clients |-> "open"]
    /\ attached = [c \in Clients |-> {}]
    /\ receiving = [c \in Clients |-> TRUE]
    /\ snap = [a \in Attaches |-> [lo |-> 0, hi |-> 0, status |-> "Running"]]
    /\ out = [a \in Attaches |-> <<>>]
    /\ told = [a \in Attaches |-> "no"]
    /\ status = "Running"
    /\ exit = "live"
    /\ prune = "idle"

AttachLockFree == holder = NoClient
StatesLockFree == prune = "idle"
Registered     == exit = "live"

-----------------------------------------------------------------------------
(* The reader thread.  Only it counts, so `seq` is the chunk in its hands.  *)

\* seq.fetch_add for a chunk just read from the PTY.
ReaderCount ==
    /\ reader = "idle" /\ seq < MaxSeq
    /\ seq' = seq + 1
    /\ reader' = "counted"
    /\ UNCHANGED <<drawn, erased, ringVars, lockVars, handlerVars, idVars,
                   connVars, sentVars, status, exit, prune>>

\* terminal.lock().process(bytes)
ReaderDraw ==
    /\ reader = "counted"
    /\ drawn' = seq
    /\ reader' = "drawn"
    /\ UNCHANGED <<seq, erased, ringVars, lockVars, handlerVars, idVars,
                   connVars, sentVars, status, exit, prune>>

\* events.lock().append(seq, bytes): EventRing evicts from the front, as many
\* events as the byte sizes require, the new one included when max_bytes is 0.
ReaderLog ==
    /\ reader = "drawn"
    /\ ringHi' = seq
    /\ ringLo' \in ringLo..seq
    /\ reader' = "logged"
    /\ UNCHANGED <<seq, drawn, erased, lockVars, handlerVars, idVars,
                   connVars, sentVars, status, exit, prune>>

\* Mutant: try_lock instead of lock; a chunk met by an attach in progress is dropped.
ReaderDeliverTryLock ==
    /\ reader = "logged"
    /\ reader' = "idle"
    /\ IF attach # NoAttach /\ receiving[owner[attach]] /\ AttachLockFree
       THEN out' = [out EXCEPT ![attach] = Append(@, seq)]
       ELSE UNCHANGED out
    /\ UNCHANGED <<seq, drawn, erased, ringVars, lockVars, handlerVars, idVars,
                   connVars, snap, told, status, exit, prune>>

\* Mutant: the slot is read without its lock.
ReaderDeliverUnlocked ==
    /\ reader = "logged"
    /\ reader' = "idle"
    /\ IF attach # NoAttach /\ receiving[owner[attach]]
       THEN out' = [out EXCEPT ![attach] = Append(@, seq)]
       ELSE UNCHANGED out
    /\ UNCHANGED <<seq, drawn, erased, ringVars, lockVars, handlerVars, idVars,
                   connVars, snap, told, status, exit, prune>>

\* attach.lock(), then send to the attached client; a client whose receiving
\* end is gone loses the slot.
ReaderDeliver ==
    /\ reader = "logged" /\ AttachLockFree
    /\ reader' = "idle"
    /\ IF attach # NoAttach /\ receiving[owner[attach]]
       THEN /\ out' = [out EXCEPT ![attach] = Append(@, seq)]
            /\ UNCHANGED attach
       ELSE /\ attach' = NoAttach
            /\ UNCHANGED out
    /\ UNCHANGED <<seq, drawn, erased, ringVars, holder, handlerVars, idVars,
                   connVars, snap, told, status, exit, prune>>

-----------------------------------------------------------------------------
(* The client handlers.                                                     *)

\* The handler is done with its request; its local variables go out of scope.
Finish(c) ==
    /\ pc' = [pc EXCEPT ![c] = "idle"]
    /\ arg' = [arg EXCEPT ![c] = NoAttach]
    /\ base' = [base EXCEPT ![c] = 0]

\* open_shell finds the shell under the states lock and lets go of it.
OpenLookup(c) ==
    /\ conn[c] = "open" /\ pc[c] = "idle"
    /\ Registered /\ StatesLockFree
    /\ pc' = [pc EXCEPT ![c] = "found"]
    /\ UNCHANGED <<readerVars, erased, ringVars, lockVars, arg, base, idVars,
                   connVars, sentVars, status, exit, prune>>

\* ShellState::attach on a shell that has a client, without steal: bail!
OpenRefused(c) ==
    /\ pc[c] = "found" /\ AttachLockFree
    /\ attach # NoAttach
    /\ pc' = [pc EXCEPT ![c] = "idle"]
    /\ UNCHANGED <<readerVars, erased, ringVars, lockVars, arg, base, idVars,
                   connVars, sentVars, status, exit, prune>>

\* Mutant: the evicted client is forgotten.
OpenLockSilently(c) ==
    LET a == granted + 1 IN
    /\ pc[c] = "found" /\ AttachLockFree
    /\ a \in Attaches
    /\ holder' = c
    /\ granted' = a
    /\ owner' = [owner EXCEPT ![a] = c]
    /\ arg' = [arg EXCEPT ![c] = a]
    /\ base' = [base EXCEPT ![c] = seq]
    /\ pc' = [pc EXCEPT ![c] = "snap"]
    /\ UNCHANGED <<readerVars, erased, ringVars, attach, connVars, sentVars,
                   status, exit, prune>>

\* ShellState::attach takes the lock, tells the client it evicts (steal), makes
\* an id and loads seq.  The lock stays held.  Between the notice and the id attach
\* also resizes, and waits for the master lock: that wait is in ShellLocks, and here
\* it always ends.
OpenLock(c) ==
    LET a == granted + 1 IN
    /\ pc[c] = "found" /\ AttachLockFree
    /\ a \in Attaches
    /\ holder' = c
    /\ told' = IF attach = NoAttach THEN told ELSE [told EXCEPT ![attach] = "stolen"]
    /\ granted' = a
    /\ owner' = [owner EXCEPT ![a] = c]
    /\ arg' = [arg EXCEPT ![c] = a]
    /\ base' = [base EXCEPT ![c] = seq]
    /\ pc' = [pc EXCEPT ![c] = "snap"]
    /\ UNCHANGED <<readerVars, erased, ringVars, attach, connVars, snap, out,
                   status, exit, prune>>

\* terminal.lock().snapshot_bytes() and status, sent as the Snapshot message.
OpenSnapshot(c) ==
    /\ pc[c] = "snap"
    /\ snap' = [snap EXCEPT ![arg[c]] = [lo |-> erased, hi |-> drawn, status |-> status]]
    /\ pc' = [pc EXCEPT ![c] = "publish"]
    /\ UNCHANGED <<readerVars, erased, ringVars, lockVars, arg, base, idVars,
                   connVars, out, told, status, exit, prune>>

\* Mutant: the whole ring is replayed.
EventsAll(b) == [i \in 1..(ringHi - ringLo) |-> ringLo + i]

\* events.after(b), oldest first: what the ring still holds of the chunks after b.
EventsAfter(b) ==
    LET first == IF b < ringLo THEN ringLo ELSE b
    IN  [i \in 1..(IF first < ringHi THEN ringHi - first ELSE 0) |-> first + i]

\* Mutant: an early return keeps the lock.
OpenPublishKeepsLock(c) ==
    /\ pc[c] = "publish"
    /\ attach' = arg[c]
    /\ out' = IF receiving[c]
              THEN [out EXCEPT ![arg[c]] = EventsAfter(base[c])]
              ELSE out
    /\ attached' = [attached EXCEPT ![c] = @ \cup {arg[c]}]
    /\ Finish(c)
    /\ UNCHANGED <<readerVars, erased, ringVars, holder, idVars, conn, receiving,
                   snap, told, status, exit, prune>>

\* The new id takes the slot, the event ring is replayed to it, the lock is
\* released and the handler notes the id for its teardown.
OpenPublish(c) ==
    /\ pc[c] = "publish"
    /\ attach' = arg[c]
    /\ holder' = NoClient
    /\ out' = IF receiving[c]
              THEN [out EXCEPT ![arg[c]] = EventsAfter(base[c])]
              ELSE out
    /\ attached' = [attached EXCEPT ![c] = @ \cup {arg[c]}]
    /\ Finish(c)
    /\ UNCHANGED <<readerVars, erased, ringVars, idVars, conn, receiving,
                   snap, told, status, exit, prune>>

\* state_for_attach: under the states lock, look for the shell whose slot holds
\* a.  Not finding one is the end of it.
FindAttach(c, a) ==
    /\ StatesLockFree /\ (Registered => AttachLockFree)
    /\ IF Registered /\ attach = a
       THEN /\ pc' = [pc EXCEPT ![c] = "detach"]
            /\ arg' = [arg EXCEPT ![c] = a]
       ELSE UNCHANGED <<pc, arg>>

\* ClientMsg::Detach for an id this client was given.
DetachRequest(c) ==
    \E a \in attached[c] :
        /\ conn[c] = "open" /\ pc[c] = "idle"
        /\ FindAttach(c, a)
        /\ UNCHANGED <<readerVars, erased, ringVars, lockVars, base, idVars,
                       connVars, sentVars, status, exit, prune>>

\* Mutant: the lookup is trusted and the slot not looked at again.
DetachUnchecked(c) ==
    /\ pc[c] = "detach" /\ AttachLockFree
    /\ attach' = NoAttach
    /\ Finish(c)
    /\ UNCHANGED <<readerVars, erased, ringVars, holder, idVars, connVars,
                   sentVars, status, exit, prune>>

\* ShellState::detach looks at the slot again, now under the attach lock.
DetachDo(c) ==
    /\ pc[c] = "detach" /\ AttachLockFree
    /\ attach' = IF attach = arg[c] THEN NoAttach ELSE attach
    /\ Finish(c)
    /\ UNCHANGED <<readerVars, erased, ringVars, holder, idVars, connVars,
                   sentVars, status, exit, prune>>

\* The writer task fails to write: the receiving end is dropped while the
\* handler may still read requests.
WriterBreaks(c) ==
    /\ conn[c] # "closed" /\ receiving[c]
    /\ receiving' = [receiving EXCEPT ![c] = FALSE]
    /\ UNCHANGED <<readerVars, erased, ringVars, lockVars, handlerVars, idVars,
                   conn, attached, sentVars, status, exit, prune>>

\* read_frame fails: handle_client leaves its loop.
HangUp(c) ==
    /\ conn[c] = "open" /\ pc[c] = "idle"
    /\ conn' = [conn EXCEPT ![c] = "closing"]
    /\ UNCHANGED <<readerVars, erased, ringVars, lockVars, handlerVars, idVars,
                   attached, receiving, sentVars, status, exit, prune>>

\* Mutant: teardown gives up on a slot that is busy.
TeardownTryDetach(c) ==
    \E a \in attached[c] :
        /\ conn[c] = "closing" /\ pc[c] = "idle"
        /\ IF AttachLockFree THEN FindAttach(c, a) ELSE UNCHANGED <<pc, arg>>
        /\ attached' = [attached EXCEPT ![c] = @ \ {a}]
        /\ UNCHANGED <<readerVars, erased, ringVars, lockVars, base, idVars,
                       conn, receiving, sentVars, status, exit, prune>>

\* Mutant: teardown retries an id until its shell is found.
TeardownRetry(c) ==
    \E a \in attached[c] :
        /\ conn[c] = "closing" /\ pc[c] = "idle"
        /\ FindAttach(c, a)
        /\ attached' = IF Registered /\ attach = a
                       THEN [attached EXCEPT ![c] = @ \ {a}] ELSE attached
        /\ UNCHANGED <<readerVars, erased, ringVars, lockVars, base, idVars,
                       conn, receiving, sentVars, status, exit, prune>>

\* One turn of the teardown loop: registry.detach for an id of the list.
TeardownDetach(c) ==
    \E a \in attached[c] :
        /\ conn[c] = "closing" /\ pc[c] = "idle"
        /\ FindAttach(c, a)
        /\ attached' = [attached EXCEPT ![c] = @ \ {a}]
        /\ UNCHANGED <<readerVars, erased, ringVars, lockVars, base, idVars,
                       conn, receiving, sentVars, status, exit, prune>>

\* drop(tx) and writer_task.abort()
Close(c) ==
    /\ conn[c] = "closing" /\ pc[c] = "idle" /\ attached[c] = {}
    /\ conn' = [conn EXCEPT ![c] = "closed"]
    /\ receiving' = [receiving EXCEPT ![c] = FALSE]
    /\ UNCHANGED <<readerVars, erased, ringVars, lockVars, handlerVars, idVars,
                   attached, sentVars, status, exit, prune>>

-----------------------------------------------------------------------------
(* cleanup_shell, once for the shell (the registry's remove picks the one    *)
(* thread that runs it).                                                     *)

ExitRemove ==
    /\ exit = "live" /\ StatesLockFree
    /\ exit' = "removed"
    /\ UNCHANGED <<readerVars, erased, ringVars, lockVars, handlerVars, idVars,
                   connVars, sentVars, status, prune>>

\* Mutant: the exit path forgets the status.
ExitMarkSilently ==
    /\ exit = "removed"
    /\ exit' = "marked"
    /\ UNCHANGED <<readerVars, erased, ringVars, lockVars, handlerVars, idVars,
                   connVars, sentVars, status, prune>>

ExitMark ==
    /\ exit = "removed"
    /\ status' = "Exited"
    /\ exit' = "marked"
    /\ UNCHANGED <<readerVars, erased, ringVars, lockVars, handlerVars, idVars,
                   connVars, sentVars, prune>>

\* attach.lock().take(), and Exited for the client that was there.
ExitTell ==
    /\ exit = "marked" /\ AttachLockFree
    /\ told' = IF attach = NoAttach THEN told ELSE [told EXCEPT ![attach] = "exited"]
    /\ attach' = NoAttach
    /\ exit' = "told"
    /\ UNCHANGED <<readerVars, erased, ringVars, holder, handlerVars, idVars,
                   connVars, snap, out, status, prune>>

-----------------------------------------------------------------------------
(* prune_storage_caps over its cap: it tests is_attached, then clears the     *)
(* grid and the ring of a detached shell, all under the states lock only.     *)

PruneCheck ==
    /\ OverCap
    /\ prune = "idle" /\ Registered /\ AttachLockFree
    /\ attach = NoAttach
    /\ prune' = "clearing"
    /\ UNCHANGED <<readerVars, erased, ringVars, lockVars, handlerVars, idVars,
                   connVars, sentVars, status, exit>>

PruneScreen ==
    /\ prune = "clearing"
    /\ erased' = drawn
    /\ prune' = "cleared"
    /\ UNCHANGED <<readerVars, ringVars, lockVars, handlerVars, idVars,
                   connVars, sentVars, status, exit>>

PruneRing ==
    /\ prune = "cleared"
    /\ ringLo' = ringHi
    /\ prune' = "idle"
    /\ UNCHANGED <<readerVars, erased, ringHi, lockVars, handlerVars, idVars,
                   connVars, sentVars, status, exit>>

-----------------------------------------------------------------------------
Reader  == ReaderCount \/ ReaderDraw \/ ReaderLog \/ ReaderDeliver

Handler(c) ==
    \/ OpenLookup(c) \/ OpenRefused(c) \/ OpenLock(c) \/ OpenSnapshot(c) \/ OpenPublish(c)
    \/ DetachRequest(c) \/ DetachDo(c)
    \/ WriterBreaks(c) \/ HangUp(c) \/ TeardownDetach(c) \/ Close(c)

Cleanup == ExitRemove \/ ExitMark \/ ExitTell
Pruner  == PruneCheck \/ PruneScreen \/ PruneRing

Next == Reader \/ Cleanup \/ Pruner \/ \E c \in Clients : Handler(c)

Spec == Init /\ [][Next]_vars

\* A thread that has started an operation is scheduled until it ends; nobody is
\* obliged to print, to open, to hang up or to exit.  The teardown competes with
\* the pruner for the states lock again and again: it is strongly fair because a
\* parking_lot mutex is eventually fair to its waiters.
Fairness ==
    /\ WF_vars(ReaderDraw \/ ReaderLog \/ ReaderDeliver)
    /\ WF_vars(ExitMark \/ ExitTell)
    /\ WF_vars(PruneScreen \/ PruneRing)
    /\ \A c \in Clients :
          WF_vars(OpenSnapshot(c) \/ OpenPublish(c) \/ DetachDo(c) \/ Close(c))
    /\ \A c \in Clients : SF_vars(TeardownDetach(c))

FairSpec == Spec /\ Fairness
-----------------------------------------------------------------------------
(* Properties                                                               *)

\* Chunk n reached the client of attach a: painted by its snapshot (or erased
\* by the storage prune before it) or sent as an Output message.
Shown(a, n) == n <= snap[a].hi \/ \E i \in DOMAIN out[a] : out[a][i] = n

\* A client that attached in the middle of record_output still gets every chunk:
\* whenever the reader is between chunks and nobody is attaching, everything read
\* so far has been shown to the client in the slot (daemon.rs attach against
\* record_output, which never hold a common lock for the whole hand-over).
NoChunkLost ==
    reader = "idle" /\ AttachLockFree /\ attach # NoAttach /\ receiving[owner[attach]]
        => \A n \in 1..seq : Shown(attach, n)

\* What follows a snapshot is the continuation of what it paints, in order and
\* without gaps; only the first chunk may repeat, and the snapshot may already
\* contain it (the chunk in the reader's hands while the client attached).
StreamContinuesSnapshot ==
    \A a \in Attaches : \A i \in DOMAIN out[a] :
        IF i = 1 THEN out[a][1] \in {snap[a].hi, snap[a].hi + 1}
                 ELSE \/ out[a][i] = out[a][i - 1] + 1
                      \/ i = 2 /\ out[a][i] = out[a][i - 1]

\* After the daemon told a client that it lost the session, or that the shell
\* exited, no further output is sent to it: the notice is the last word.
EvictedClientIsSilent ==
    [][\A a \in Attaches : told[a] # "no" => out'[a] = out[a] /\ told'[a] = told[a]]_vars

\* A client loses the slot only if it was told, if its own detach was under way,
\* or if its channel is dead.  In particular a detach that found its shell before
\* a steal must not evict the thief.
NeverEvictedSilently ==
    [][\A a \in Attaches :
          attach = a /\ attach' # a =>
            \/ told'[a] # "no"
            \/ ~receiving[owner[a]]
            \/ \E c \in Clients : pc[c] = "detach" /\ arg[c] = a]_vars

\* A client whose open found the shell before cleanup_shell removed it may attach
\* after mark_exited emptied the slot.  Nobody will tell it that the shell exited,
\* so its snapshot must say so: mark_exited sets status before it takes the slot.
ExitNeverHidden ==
    exit = "told" /\ AttachLockFree /\ attach # NoAttach => snap[attach].status = "Exited"

\* A connection that is gone holds no slot of a registered shell, however its
\* teardown interleaved with steals and opens: the next open needs no steal.
ClosedClientHoldsNothing ==
    Registered /\ attach # NoAttach => conn[owner[attach]] # "closed"

\* The last chunk shown for attach a.
Last(a) == IF out[a] = <<>> THEN snap[a].hi ELSE out[a][Len(out[a])]

\* The attach ids that got as far as the slot.
Past == 1..(IF holder = NoClient THEN granted ELSE granted - 1)

\* A client in the slot that lost the session is only there until the thief is in.
Views == INSTANCE Viewing WITH
    Viewers  <- Attaches,
    NoViewer <- NoAttach,
    printed  <- seq,
    viewer   <- IF attach # NoAttach /\ told[attach] = "no" THEN attach ELSE NoAttach,
    view     <- [a \in Attaches |-> Last(a)],
    admitted <- Past,
    broken   <- {a \in Past : ~receiving[owner[a]]},
    leaving  <- {a \in Attaches : \E c \in Clients : pc[c] = "detach" /\ arg[c] = a},
    notice   <- told,
    over     <- IF exit = "told" THEN "told"
                ELSE IF status = "Exited" THEN "ended" ELSE "running",
    knows    <- {a \in Attaches : snap[a].status = "Exited"}

\* The whole protocol of attach, steal, detach and exit, lock by lock, is one
\* viewer at a time that is kept up with the shell, told when it must go and
\* shown nothing new after that (ShellState::attach, detach, record_output and
\* mark_exited, each under the locks it takes).
ViewingOfShell == Views!Spec

\* Under fair scheduling a chunk counted while a client is attached is shown to
\* it, unless it loses the slot or stops receiving.  A chunk that the prune erased
\* before the snapshot was drawn counts as shown (Shown).
OutputReachesClient ==
    \A a \in Attaches : \A n \in Chunks :
        (attach = a /\ n <= seq) ~>
            (Shown(a, n) \/ attach # a \/ ~receiving[owner[a]])

\* Under fair scheduling a connection that hung up finishes its teardown.
TeardownEnds == \A c \in Clients : conn[c] = "closing" ~> conn[c] = "closed"
=============================================================================
