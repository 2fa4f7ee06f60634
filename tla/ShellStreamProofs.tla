-------------------------- MODULE ShellStreamProofs --------------------------
(***************************************************************************)
(* Proofs about ShellStream, for every set of clients and every bound.     *)
(*                                                                         *)
(* The inductive invariant says where the one chunk that can be in flight  *)
(* is while a client attaches: the reader alone advances, and it cannot    *)
(* pass ReaderDeliver while the attach lock is held, so at most one chunk  *)
(* is counted but undelivered at any time, and snapshot, ring replay and   *)
(* live delivery together can neither skip it nor disorder it.             *)
(***************************************************************************)
EXTENDS ShellStream, TLAPS

\* Where the grid and the ring are while the reader handles chunk seq.
ReaderInv ==
    /\ reader # "idle" => seq >= 1
    /\ drawn  = (IF reader = "counted" THEN seq - 1 ELSE seq)
    /\ ringHi = (IF reader \in {"counted", "drawn"} THEN seq - 1 ELSE seq)

\* The handler inside ShellState::attach holds the lock and works for the last
\* id made, which is not in the slot yet.
LockInv ==
    /\ \A c \in Clients : pc[c] \in {"snap", "publish"} <=> holder = c
    /\ holder # NoClient =>
          /\ granted >= 1
          /\ arg[holder] = granted
          /\ owner[granted] = holder
          /\ attach # granted
    /\ \A a \in Attaches : a <= granted => owner[a] \in Clients

\* Who has been told: nobody whose id is in the future or just being made, the
\* client in the slot only while a thief is attaching.
ToldInv ==
    /\ \A a \in Attaches : a > granted => told[a] = "no" /\ out[a] = <<>>
    /\ holder # NoClient =>
          /\ told[granted] = "no"
          /\ out[granted] = <<>>
          /\ attach # NoAttach => told[attach] # "no"
    /\ holder = NoClient /\ attach # NoAttach => told[attach] = "no"

\* A handler inside ShellState::attach lags at most one chunk, and only while
\* that chunk is in the reader's hands.
BaseInv ==
    holder # NoClient =>
        /\ base[holder] \in {seq - 1, seq}
        /\ reader = "idle" => base[holder] = seq
        /\ pc[holder] = "publish" =>
              /\ snap[granted].hi \in {seq - 1, seq}
              /\ snap[granted].hi <= drawn
              /\ reader = "idle" => snap[granted].hi = seq

\* The client of attach a has everything up to the chunk in flight, and that one
\* at most twice.
UpToDate(a) ==
    /\ Last(a) \in {seq - 1, seq}
    /\ reader = "idle" => Last(a) = seq
    /\ reader = "counted" => Last(a) = seq - 1
    /\ Last(a) = seq /\ reader # "idle" => Len(out[a]) <= 1
    /\ \A n \in 1..Last(a) : Shown(a, n)

SlotInv == attach # NoAttach /\ receiving[owner[attach]] => UpToDate(attach)

\* A snapshot that outlived the exit path says Exited.
ExitInv ==
    /\ exit \in {"marked", "told"} => status = "Exited"
    /\ exit = "told" /\ attach # NoAttach => snap[attach].status = "Exited"
    /\ exit = "told" /\ holder # NoClient /\ pc[holder] = "publish" =>
          snap[granted].status = "Exited"

\* The slot of a registered shell is on the teardown list of its client, or that
\* client is detaching it right now.
TeardownInv ==
    /\ \A c \in Clients : conn[c] # "open" => pc[c] \in {"idle", "detach"}
    /\ \A c \in Clients : conn[c] = "closed" => pc[c] = "idle" /\ attached[c] = {}
    /\ Registered /\ attach # NoAttach =>
          \/ attach \in attached[owner[attach]]
          \/ pc[owner[attach]] = "detach" /\ arg[owner[attach]] = attach

\* Attach ids are good for one client each: the teardown lists and the detaches
\* under way are of ids made for the client that has them.  And a snapshot says
\* Exited only of a shell that has.
OwnInv ==
    /\ \A c \in Clients : \A a \in attached[c] : a <= granted /\ owner[a] = c
    /\ \A c \in Clients :
          pc[c] = "detach" => arg[c] \in Attaches /\ arg[c] <= granted /\ owner[arg[c]] = c
    /\ \A a \in Attaches : snap[a].status = "Exited" => status = "Exited"

IInv ==
    /\ TypeOK /\ ReaderInv /\ LockInv /\ ToldInv /\ BaseInv /\ SlotInv
    /\ StreamContinuesSnapshot /\ ExitInv /\ TeardownInv /\ OwnInv

-----------------------------------------------------------------------------
(* Steps: the inductive invariant is preserved, one lemma per conjunct.     *)

\* The next-state relation as the list of its actions.
LEMMA NextCases ==
    ASSUME Next
    PROVE  \/ ReaderCount \/ ReaderDraw \/ ReaderLog \/ ReaderDeliver
           \/ ExitRemove \/ ExitMark \/ ExitTell
           \/ PruneCheck \/ PruneScreen \/ PruneRing
           \/ \E c \in Clients :
                \/ OpenLookup(c) \/ OpenRefused(c) \/ OpenLock(c)
                \/ OpenSnapshot(c) \/ OpenPublish(c)
                \/ DetachRequest(c) \/ DetachDo(c) \/ WriterBreaks(c)
                \/ HangUp(c) \/ TeardownDetach(c) \/ Close(c)
BY DEF Next, Reader, Cleanup, Pruner, Handler

LEMMA AppendType ==
    ASSUME NEW S, NEW s \in Seq(S), NEW e \in S
    PROVE  /\ Append(s, e) \in Seq(S)
           /\ Len(Append(s, e)) = Len(s) + 1
           /\ \A i \in 1..Len(s) : Append(s, e)[i] = s[i]
           /\ Append(s, e)[Len(s) + 1] = e
OBVIOUS

\* What the ring replays is a sequence of consecutive chunks up to ringHi.
LEMMA EventsAfterProperties ==
    ASSUME TypeOK, NEW b \in 0..MaxSeq
    PROVE  /\ EventsAfter(b) \in Seq(Chunks)
           /\ \A i \in 1..Len(EventsAfter(b)) :
                 /\ EventsAfter(b)[i] > b
                 /\ EventsAfter(b)[i] <= ringHi
                 /\ i > 1 => EventsAfter(b)[i] = EventsAfter(b)[i - 1] + 1
           /\ Len(EventsAfter(b)) > 0 => EventsAfter(b)[Len(EventsAfter(b))] = ringHi
<1> DEFINE first == IF b < ringLo THEN ringLo ELSE b
           n == IF first < ringHi THEN ringHi - first ELSE 0
<1>1. /\ MaxSeq \in Nat /\ ringHi \in 0..MaxSeq /\ ringLo \in 0..ringHi
  BY ConstantsAssumption DEF ConstantsAssumption, TypeOK
<1>2. first \in Nat /\ first >= b /\ n \in Nat /\ (n > 0 => first + n = ringHi)
  BY <1>1
<1>3. EventsAfter(b) = [i \in 1..n |-> first + i]
  BY DEF EventsAfter
<1>4. \A i \in 1..n : first + i \in Chunks /\ first + i > b /\ first + i <= ringHi
  BY <1>1, <1>2 DEF Chunks
<1> HIDE DEF first, n
<1>5. EventsAfter(b) \in [1..n -> Chunks]
  BY <1>3, <1>4
<1>6. EventsAfter(b) \in Seq(Chunks) /\ Len(EventsAfter(b)) = n
  BY <1>2, <1>5
<1> QED
  BY <1>2, <1>3, <1>4, <1>6

\* Every variable keeps its type, and the bounds between counters hold.
LEMMA TypeStep ==
    ASSUME TypeOK, ReaderInv, LockInv, [Next]_vars
    PROVE  TypeOK'
<1>0. /\ attach \in 0..MaxAttach /\ MaxAttach \in Nat
      /\ out \in [Attaches -> Seq(Chunks)]
  BY ConstantsAssumption DEF ConstantsAssumption, TypeOK
<1>16. ASSUME NEW a \in Attaches, seq \in Chunks
       PROVE  Append(out[a], seq) \in Seq(Chunks)
  BY <1>0, <1>16, AppendType
<1>17. attach # NoAttach => attach \in Attaches
  BY <1>0 DEF Attaches, NoAttach
<1> USE ConstantsAssumption DEF ConstantsAssumption, TypeOK
<1>1. CASE ReaderCount
  BY <1>1 DEF ReaderCount, ringVars, lockVars, handlerVars, idVars, connVars, sentVars
<1>2. CASE ReaderDraw
  BY <1>2 DEF ReaderDraw, ringVars, lockVars, handlerVars, idVars, connVars, sentVars
<1>3. CASE ReaderLog
  BY <1>3 DEF ReaderLog, ReaderInv, lockVars, handlerVars, idVars, connVars, sentVars
<1>4. CASE ReaderDeliver
  <2>1. seq \in Chunks
    BY <1>4 DEF ReaderDeliver, ReaderInv, Chunks
  <2>2. attach # NoAttach => Append(out[attach], seq) \in Seq(Chunks)
    BY ONLY <2>1, <1>16, <1>17
  <2>3. out' \in [Attaches -> Seq(Chunks)]
    BY <1>4, <2>2 DEF ReaderDeliver
  <2> QED
    BY <1>4, <2>3 DEF ReaderDeliver, NoAttach, ringVars, handlerVars, idVars, connVars
<1>5. CASE ExitRemove \/ ExitMark
  BY <1>5 DEF ExitRemove, ExitMark, readerVars, ringVars, lockVars, handlerVars,
              idVars, connVars, sentVars
<1>15. CASE ExitTell
  <2>1. told' \in [Attaches -> {"no", "stolen", "exited"}]
    BY <1>15 DEF ExitTell
  <2> QED
    BY <1>15, <2>1 DEF NoAttach, ExitTell, readerVars, ringVars, handlerVars, idVars,
                       connVars
<1>6. CASE PruneCheck \/ PruneScreen \/ PruneRing
  BY <1>6 DEF PruneCheck, PruneScreen, PruneRing, readerVars, ringVars, lockVars,
              handlerVars, idVars, connVars, sentVars
<1>7. ASSUME NEW c \in Clients, OpenLookup(c) \/ OpenRefused(c)
      PROVE  TypeOK'
  BY <1>7, ZenonT(40) DEF OpenLookup, OpenRefused, readerVars, ringVars, lockVars, idVars,
                        connVars, sentVars
<1>8. ASSUME NEW c \in Clients, OpenLock(c)
      PROVE  TypeOK'
  BY <1>8 DEF OpenLock, Attaches, NoAttach, readerVars, ringVars, connVars
<1>9. ASSUME NEW c \in Clients, OpenSnapshot(c)
      PROVE  TypeOK'
  <2>1. [lo |-> erased, hi |-> drawn, status |-> status] \in Snapshots
    BY DEF Snapshots
  <2>2. snap' \in [Attaches -> Snapshots]
    BY <1>9, <2>1 DEF OpenSnapshot
  <2> QED
    BY <1>9, <2>2 DEF OpenSnapshot, readerVars, ringVars, lockVars, idVars, connVars
<1>10. ASSUME NEW c \in Clients, OpenPublish(c)
       PROVE  TypeOK'
  <2>1. arg[c] \in 1..granted
    BY <1>10 DEF OpenPublish, LockInv
  <2>2. EventsAfter(base[c]) \in Seq(Chunks)
    BY EventsAfterProperties
  <2>3. out' \in [Attaches -> Seq(Chunks)]
    BY <1>10, <2>1, <2>2 DEF OpenPublish
  <2>4. attached' \in [Clients -> SUBSET Attaches]
    <3>1. arg[c] \in Attaches
      BY <2>1 DEF Attaches
    <3> QED
      BY <1>10, <3>1 DEF OpenPublish
  <2>5. /\ pc' \in [Clients -> {"idle", "found", "snap", "publish", "detach"}]
        /\ arg' \in [Clients -> 0..MaxAttach]
        /\ base' \in [Clients -> 0..MaxSeq]
    BY <1>10 DEF OpenPublish, Finish, NoAttach
  <2>6. /\ attach' \in 0..granted /\ holder' = NoClient
        /\ UNCHANGED <<readerVars, erased, ringVars, idVars, conn, receiving, snap, told,
                       status, exit, prune>>
    BY <1>10, <2>1 DEF OpenPublish
  <2> QED
    BY <2>3, <2>4, <2>5, <2>6 DEF readerVars, ringVars, idVars
<1>11. ASSUME NEW c \in Clients, DetachRequest(c) \/ TeardownDetach(c)
       PROVE  TypeOK'
  <2>1. PICK a \in attached[c] :
            /\ FindAttach(c, a)
            /\ attached' = attached \/ attached' = [attached EXCEPT ![c] = @ \ {a}]
    BY <1>11 DEF DetachRequest, TeardownDetach, connVars
  <2>2. a \in 0..MaxAttach
    BY <2>1 DEF Attaches
  <2>3. /\ pc' \in [Clients -> {"idle", "found", "snap", "publish", "detach"}]
        /\ arg' \in [Clients -> 0..MaxAttach]
    <3>1. CASE UNCHANGED <<pc, arg>>
      BY <3>1
    <3>2. CASE /\ pc' = [pc EXCEPT ![c] = "detach"]
               /\ arg' = [arg EXCEPT ![c] = a]
      BY <2>2, <3>2
    <3> QED
      BY <2>1, <3>1, <3>2 DEF FindAttach
  <2>4. attached' \in [Clients -> SUBSET Attaches]
    <3>1. attached[c] \ {a} \in SUBSET Attaches
      OBVIOUS
    <3> QED
      BY <2>1, <3>1
  <2>5. UNCHANGED <<readerVars, erased, ringVars, lockVars, base, idVars, conn,
                    receiving, sentVars, status, exit, prune>>
    BY <1>11 DEF DetachRequest, TeardownDetach, connVars
  <2> QED
    BY <2>3, <2>4, <2>5 DEF readerVars, ringVars, lockVars, idVars, sentVars
<1>12. ASSUME NEW c \in Clients, DetachDo(c)
       PROVE  TypeOK'
  BY <1>12 DEF NoAttach, DetachDo, Finish, readerVars, ringVars, idVars, connVars, sentVars
<1>13. ASSUME NEW c \in Clients, WriterBreaks(c) \/ HangUp(c) \/ Close(c)
       PROVE  TypeOK'
  BY <1>13, ZenonT(40) DEF WriterBreaks, HangUp, Close, readerVars, ringVars, lockVars,
                         handlerVars, idVars, sentVars
<1>14. CASE UNCHANGED vars
  BY <1>14 DEF vars, readerVars, ringVars, lockVars, handlerVars, idVars, connVars,
               sentVars
<1> QED
  BY <1>1, <1>2, <1>3, <1>4, <1>5, <1>6, <1>7, <1>8, <1>9, <1>10, <1>11, <1>12,
     <1>13, <1>14, <1>15, NextCases

\* The reader is the only one to move the grid and the ring's end.
LEMMA ReaderStep ==
    ASSUME TypeOK, ReaderInv, [Next]_vars
    PROVE  ReaderInv'
<1>1. CASE Reader
  BY <1>1 DEF Reader, ReaderCount, ReaderDraw, ReaderLog, ReaderDeliver, ReaderInv,
              TypeOK, ringVars
<1>2. CASE ~Reader
  <2>1. UNCHANGED <<seq, drawn, reader, ringHi>>
    BY <1>2, NextCases
       DEF Reader, vars, readerVars, ringVars, ExitRemove, ExitMark, ExitTell,
           PruneCheck, PruneScreen, PruneRing, OpenLookup, OpenRefused, OpenLock,
           OpenSnapshot, OpenPublish, DetachRequest, DetachDo, WriterBreaks, HangUp,
           TeardownDetach, Close
  <2> QED
    BY <2>1 DEF ReaderInv
<1> QED
  BY <1>1, <1>2

\* The attach lock is held by exactly the handler that is inside ShellState::attach.
LEMMA LockStep ==
    ASSUME TypeOK, LockInv, [Next]_vars
    PROVE  LockInv'
<1> USE ConstantsAssumption DEF ConstantsAssumption, LockInv, TypeOK
<1>1. CASE UNCHANGED <<lockVars, handlerVars, idVars>>
  BY <1>1 DEF lockVars, handlerVars, idVars
<1>2. CASE ReaderDeliver
  BY <1>2 DEF ReaderDeliver, AttachLockFree, handlerVars, idVars
<1>3. CASE ExitTell
  BY <1>3 DEF ExitTell, AttachLockFree, handlerVars, idVars
<1>4. ASSUME NEW c \in Clients, OpenLookup(c) \/ OpenRefused(c)
      PROVE  LockInv'
  BY <1>4 DEF OpenLookup, OpenRefused, lockVars, idVars
<1>5. ASSUME NEW c \in Clients, OpenLock(c)
      PROVE  LockInv'
  BY <1>5 DEF OpenLock, AttachLockFree, Attaches
<1>6. ASSUME NEW c \in Clients, OpenSnapshot(c)
      PROVE  LockInv'
  BY <1>6 DEF OpenSnapshot, lockVars, idVars
<1>7. ASSUME NEW c \in Clients, OpenPublish(c)
      PROVE  LockInv'
  BY <1>7 DEF OpenPublish, Finish, idVars
<1>8. ASSUME NEW c \in Clients, DetachRequest(c) \/ TeardownDetach(c)
      PROVE  LockInv'
  <2>1. PICK a \in attached[c] : FindAttach(c, a)
    BY <1>8 DEF DetachRequest, TeardownDetach
  <2>2. holder # c /\ pc[c] = "idle" /\ UNCHANGED <<lockVars, idVars>>
    BY <1>8 DEF DetachRequest, TeardownDetach
  <2> QED
    BY <2>1, <2>2 DEF FindAttach, lockVars, idVars
<1>9. ASSUME NEW c \in Clients, DetachDo(c)
      PROVE  LockInv'
  BY <1>9 DEF DetachDo, Finish, AttachLockFree, idVars
<1>10. \/ UNCHANGED <<lockVars, handlerVars, idVars>>
       \/ ReaderDeliver \/ ExitTell
       \/ \E c \in Clients :
            \/ OpenLookup(c) \/ OpenRefused(c) \/ OpenLock(c) \/ OpenSnapshot(c)
            \/ OpenPublish(c) \/ DetachRequest(c) \/ TeardownDetach(c) \/ DetachDo(c)
  BY NextCases
     DEF vars, ReaderCount, ReaderDraw, ReaderLog, ExitRemove, ExitMark, PruneCheck,
         PruneScreen, PruneRing, WriterBreaks, HangUp, Close
<1> QED
  BY <1>1, <1>2, <1>3, <1>4, <1>5, <1>6, <1>7, <1>8, <1>9, <1>10

\* Notices go to the client in the slot, and to nobody else.
LEMMA ToldStep ==
    ASSUME TypeOK, LockInv, ToldInv, [Next]_vars
    PROVE  ToldInv'
<1> USE ConstantsAssumption DEF ConstantsAssumption, ToldInv, NoAttach
<1>1. CASE UNCHANGED <<lockVars, idVars, out, told>>
  BY <1>1 DEF lockVars, idVars
<1>2. CASE ReaderDeliver
  <2>1. \A a \in Attaches : a > granted => out'[a] = out[a]
    BY <1>2 DEF ReaderDeliver, TypeOK
  <2> QED
    BY <1>2, <2>1 DEF ReaderDeliver, AttachLockFree, idVars
<1>3. CASE ExitTell
  BY <1>3 DEF ExitTell, AttachLockFree, idVars, TypeOK, Attaches
<1>4. ASSUME NEW c \in Clients, OpenLock(c)
      PROVE  ToldInv'
  <2>1. /\ holder = NoClient /\ holder' = c /\ c # NoClient
        /\ attach' = attach /\ out' = out /\ granted' = granted + 1
        /\ granted' \in Attaches /\ granted \in Nat /\ attach \in 0..granted
    BY <1>4 DEF OpenLock, AttachLockFree, TypeOK
  <2>2. \A a \in Attaches : a # attach => told'[a] = told[a]
    BY <1>4 DEF OpenLock, TypeOK
  <2>3. attach # 0 => attach \in Attaches /\ told'[attach] = "stolen"
    BY <1>4, <2>1 DEF OpenLock, TypeOK, Attaches
  <2> QED
    BY <2>1, <2>2, <2>3
<1>5. ASSUME NEW c \in Clients, OpenPublish(c)
      PROVE  ToldInv'
  <2>1. /\ holder = c /\ holder # NoClient /\ arg[c] = granted
        /\ holder' = NoClient /\ attach' = granted /\ told' = told /\ granted' = granted
    BY <1>5 DEF OpenPublish, LockInv, idVars
  <2>2. \A a \in Attaches : a > granted => out'[a] = out[a]
    BY <1>5, <2>1 DEF OpenPublish, TypeOK
  <2> QED
    BY <2>1, <2>2
<1>6. ASSUME NEW c \in Clients, DetachDo(c)
      PROVE  ToldInv'
  BY <1>6 DEF DetachDo, AttachLockFree, idVars, sentVars
<1>7. \/ UNCHANGED <<lockVars, idVars, out, told>>
      \/ ReaderDeliver \/ ExitTell
      \/ \E c \in Clients : OpenLock(c) \/ OpenPublish(c) \/ DetachDo(c)
  BY NextCases
     DEF vars, sentVars, ReaderCount, ReaderDraw, ReaderLog, ExitRemove, ExitMark,
         PruneCheck, PruneScreen, PruneRing, OpenLookup, OpenRefused, OpenSnapshot,
         DetachRequest, TeardownDetach, WriterBreaks, HangUp, Close
<1> QED
  BY <1>1, <1>2, <1>3, <1>4, <1>5, <1>6, <1>7

\* While a client attaches, at most one chunk is counted behind its back: the
\* reader cannot deliver it, hence cannot count another.
LEMMA BaseStep ==
    ASSUME TypeOK, ReaderInv, LockInv, BaseInv, [Next]_vars
    PROVE  BaseInv'
<1> USE ConstantsAssumption DEF ConstantsAssumption, BaseInv
<1>1. CASE UNCHANGED <<readerVars, holder, base, granted, snap>> /\
           \A c \in Clients : pc'[c] = "publish" => pc[c] = "publish"
  BY <1>1 DEF readerVars, TypeOK
<1>2. CASE ReaderCount
  BY <1>2 DEF ReaderCount, ReaderInv, lockVars, handlerVars, idVars, sentVars, TypeOK
<1>3. CASE ReaderDraw
  BY <1>3 DEF ReaderDraw, ReaderInv, lockVars, handlerVars, idVars, sentVars, TypeOK
<1>4. CASE ReaderLog
  BY <1>4 DEF ReaderLog, lockVars, handlerVars, idVars, sentVars
<1>5. CASE ReaderDeliver
  BY <1>5 DEF ReaderDeliver, AttachLockFree
<1>6. ASSUME NEW c \in Clients, OpenLock(c)
      PROVE  BaseInv'
  BY <1>6 DEF OpenLock, readerVars, TypeOK
<1>7. ASSUME NEW c \in Clients, OpenSnapshot(c)
      PROVE  BaseInv'
  <2>1. holder = c /\ granted \in Attaches /\ arg[c] = granted
    BY <1>7 DEF OpenSnapshot, LockInv, TypeOK, Attaches
  <2>2. snap'[granted].hi = drawn
    BY <1>7, <2>1 DEF OpenSnapshot, TypeOK
  <2> QED
    BY <1>7, <2>1, <2>2
       DEF OpenSnapshot, ReaderInv, readerVars, lockVars, idVars, TypeOK
<1>8. ASSUME NEW c \in Clients, OpenPublish(c)
      PROVE  BaseInv'
  BY <1>8 DEF OpenPublish
<1>9. ASSUME NEW c \in Clients, DetachDo(c)
      PROVE  BaseInv'
  BY <1>9 DEF DetachDo, AttachLockFree
<1>10. \/ UNCHANGED <<readerVars, holder, base, granted, snap>> /\
             \A c \in Clients : pc'[c] = "publish" => pc[c] = "publish"
       \/ ReaderCount \/ ReaderDraw \/ ReaderLog \/ ReaderDeliver
       \/ \E c \in Clients :
            OpenLock(c) \/ OpenSnapshot(c) \/ OpenPublish(c) \/ DetachDo(c)
  <2>1. CASE \E c \in Clients : OpenLookup(c) \/ OpenRefused(c)
    BY <2>1 DEF OpenLookup, OpenRefused, lockVars, idVars, sentVars, TypeOK
  <2>2. CASE \E c \in Clients : DetachRequest(c) \/ TeardownDetach(c)
    BY <2>2 DEF DetachRequest, TeardownDetach, FindAttach, lockVars, idVars, sentVars,
                TypeOK
  <2> QED
    BY <2>1, <2>2, NextCases
       DEF vars, lockVars, handlerVars, idVars, sentVars, ExitRemove, ExitMark,
           ExitTell, PruneCheck, PruneScreen, PruneRing, WriterBreaks, HangUp, Close
<1> QED
  BY <1>1, <1>2, <1>3, <1>4, <1>5, <1>6, <1>7, <1>8, <1>9, <1>10

\* What an append of the reader does to the stream of the client in the slot.
LEMMA DeliverEffect ==
    ASSUME TypeOK, ReaderInv, ReaderDeliver, attach # NoAttach, receiving[owner[attach]]
    PROVE  /\ attach \in Attaches
           /\ attach' = attach
           /\ \A a \in Attaches : a # attach => out'[a] = out[a]
           /\ out[attach] \in Seq(Chunks)
           /\ seq \in Chunks
           /\ out'[attach] = Append(out[attach], seq)
<1>1. attach \in Attaches
  BY ConstantsAssumption DEF ConstantsAssumption, TypeOK, NoAttach, Attaches
<1>2. seq \in Chunks
  BY ConstantsAssumption DEF ConstantsAssumption, TypeOK, ReaderInv, ReaderDeliver, Chunks
<1>3. out' = [out EXCEPT ![attach] = Append(@, seq)] /\ attach' = attach
  BY DEF ReaderDeliver
<1>4. out \in [Attaches -> Seq(Chunks)]
  BY DEF TypeOK
<1> QED
  BY <1>1, <1>2, <1>3, <1>4

\* What a client that takes the slot has been sent: its snapshot is at most one
\* chunk behind, and the ring replays nothing or that one chunk.
LEMMA PublishEffect ==
    ASSUME TypeOK, ReaderInv, LockInv, BaseInv, NEW c \in Clients, OpenPublish(c)
    PROVE  /\ granted \in Attaches /\ owner[granted] = c /\ holder = c /\ holder # NoClient
           /\ attach' = granted /\ seq' = seq /\ reader' = reader /\ snap' = snap
           /\ owner' = owner /\ receiving' = receiving /\ granted' = granted
           /\ snap[granted].hi \in {seq - 1, seq} /\ snap[granted].hi <= drawn
           /\ reader = "idle" => snap[granted].hi = seq
           /\ receiving[c] => \/ out'[granted] = <<>>
                              \/ /\ out'[granted] = <<seq>>
                                 /\ reader \in {"idle", "logged"}
<1> DEFINE b == base[c]
           E == EventsAfter(b)
<1>1. /\ holder = c /\ holder # NoClient /\ arg[c] = granted /\ granted \in Attaches
      /\ owner[granted] = c /\ pc[c] = "publish"
  BY ConstantsAssumption
     DEF ConstantsAssumption, OpenPublish, LockInv, TypeOK, Attaches
<1>2. /\ attach' = granted /\ seq' = seq /\ reader' = reader /\ snap' = snap
      /\ owner' = owner /\ receiving' = receiving /\ granted' = granted
      /\ receiving[c] => out'[granted] = E
  BY <1>1 DEF OpenPublish, readerVars, idVars, TypeOK
<1>3. /\ b \in {seq - 1, seq} /\ (reader = "idle" => b = seq)
      /\ snap[granted].hi \in {seq - 1, seq} /\ snap[granted].hi <= drawn
      /\ reader = "idle" => snap[granted].hi = seq
  BY <1>1 DEF BaseInv
<1>4. b \in 0..MaxSeq /\ seq \in Nat
  BY DEF TypeOK
<1>5. /\ E \in Seq(Chunks)
      /\ \A i \in 1..Len(E) : E[i] > b /\ E[i] <= ringHi /\ (i > 1 => E[i] = E[i - 1] + 1)
      /\ Len(E) > 0 => E[Len(E)] = ringHi
  BY <1>4, EventsAfterProperties
<1> HIDE DEF E, b
<1>6. ringHi <= seq /\ (reader \in {"counted", "drawn"} => ringHi = seq - 1)
  BY DEF ReaderInv, TypeOK
<1>7. Len(E) \in Nat /\ \A i \in 1..Len(E) : E[i] \in Nat
  <2>1. Len(E) \in Nat /\ \A i \in 1..Len(E) : E[i] \in Chunks
    BY <1>5
  <2> QED
    BY <2>1 DEF Chunks
<1>8. \A i \in 1..Len(E) : E[i] = seq
  BY <1>3, <1>4, <1>5, <1>6, <1>7, ringHi \in Nat DEF TypeOK
<1>9. Len(E) <= 1
  <2> SUFFICES ASSUME Len(E) > 1 PROVE FALSE
    BY <1>7
  <2>1. E[2] = E[1] + 1 /\ E[1] = seq /\ E[2] = seq
    BY <1>5, <1>7, <1>8
  <2> QED
    BY <1>4, <2>1
<1>10. Len(E) > 0 => reader \in {"idle", "logged"} /\ E = <<seq>> /\ Len(E) = 1
  <2> SUFFICES ASSUME Len(E) > 0
               PROVE  reader \in {"idle", "logged"} /\ E = <<seq>> /\ Len(E) = 1
    OBVIOUS
  <2>1. Len(E) = 1
    <3>1. \A n \in Nat : n > 0 /\ n <= 1 => n = 1
      OBVIOUS
    <3> QED
      BY <1>7, <1>9, <3>1
  <2>2. E[1] = seq /\ E[1] <= ringHi
    BY <1>5, <1>8, <2>1
  <2>3. reader \in {"idle", "logged"}
    BY <1>4, <1>6, <2>2 DEF TypeOK
  <2> QED
    BY <1>5, <2>1, <2>2, <2>3
<1>11. Len(E) = 0 => E = <<>>
  BY <1>5
<1> QED
  BY <1>1, <1>2, <1>3, <1>7, <1>10, <1>11

\* A client in the slot stays up to date.
LEMMA SlotStep ==
    ASSUME TypeOK, ReaderInv, LockInv, ToldInv, BaseInv, SlotInv, [Next]_vars
    PROVE  SlotInv'
<1> DEFINE Frame ==
        /\ attach' = attach /\ seq' = seq /\ reader' = reader
        /\ out'[attach] = out[attach] /\ snap'[attach] = snap[attach]
        /\ receiving'[owner'[attach]] => receiving[owner[attach]]
<1>1. CASE attach' = NoAttach
  BY <1>1 DEF SlotInv
<1>2. CASE attach # NoAttach /\ Frame
  BY <1>2 DEF SlotInv, UpToDate, Last, Shown
<1>3. CASE ReaderCount
  BY <1>3 DEF ReaderCount, lockVars, idVars, connVars, sentVars, SlotInv, UpToDate,
              Last, Shown, TypeOK
<1>4. CASE ReaderDraw \/ ReaderLog
  BY <1>4 DEF ReaderDraw, ReaderLog, lockVars, idVars, connVars, sentVars, SlotInv,
              UpToDate, Last, Shown, TypeOK
<1>5. CASE ReaderDeliver /\ attach # NoAttach /\ receiving[owner[attach]]
  <2>1. /\ attach \in Attaches /\ attach' = attach
        /\ out[attach] \in Seq(Chunks) /\ seq \in Chunks
        /\ out'[attach] = Append(out[attach], seq)
    BY <1>5, DeliverEffect
  <2>2. seq' = seq /\ snap' = snap /\ reader' = "idle" /\ seq \in Nat
    BY <1>5 DEF ReaderDeliver, TypeOK
  <2>3. /\ Len(out'[attach]) = Len(out[attach]) + 1
        /\ \A i \in 1..Len(out[attach]) : out'[attach][i] = out[attach][i]
        /\ out'[attach][Len(out[attach]) + 1] = seq
        /\ Len(out[attach]) \in Nat
    BY <2>1, AppendType
  <2>4. out'[attach] # <<>> /\ Last(attach)' = seq
    BY <2>1, <2>2, <2>3 DEF Last
  <2>5. \A n \in 1..Last(attach) : Shown(attach, n)
    BY <1>5 DEF SlotInv, UpToDate
  <2>6. Last(attach) \in {seq - 1, seq}
    BY <1>5 DEF SlotInv, UpToDate
  <2>7. \A n \in 1..seq : Shown(attach, n)'
    <3> SUFFICES ASSUME NEW n \in 1..seq
                 PROVE  Shown(attach, n)'
      OBVIOUS
    <3>1. CASE n = seq
      BY <2>1, <2>3, <3>1 DEF Shown
    <3>2. CASE n # seq
      <4>1. Shown(attach, n)
        BY <2>2, <2>5, <2>6, <3>2
      <4>2. CASE n <= snap[attach].hi
        BY <2>1, <2>2, <4>2 DEF Shown
      <4>3. CASE \E i \in DOMAIN out[attach] : out[attach][i] = n
        <5>1. PICK i \in 1..Len(out[attach]) : out[attach][i] = n
          BY <2>1, <4>3
        <5>2. i \in DOMAIN out'[attach] /\ out'[attach][i] = n
          BY <2>1, <2>3, <5>1
        <5> QED
          BY <2>1, <5>2 DEF Shown
      <4> QED
        BY <4>1, <4>2, <4>3 DEF Shown
    <3> QED
      BY <3>1, <3>2
  <2> QED
    BY <2>1, <2>2, <2>4, <2>7 DEF SlotInv, UpToDate
<1>6. ASSUME NEW c \in Clients, OpenPublish(c)
      PROVE  SlotInv'
  <2>1. /\ granted \in Attaches /\ owner[granted] = c
        /\ attach' = granted /\ seq' = seq /\ reader' = reader /\ snap' = snap
        /\ owner' = owner /\ receiving' = receiving /\ granted' = granted
        /\ snap[granted].hi \in {seq - 1, seq} /\ snap[granted].hi <= drawn
        /\ reader = "idle" => snap[granted].hi = seq
        /\ receiving[c] => \/ out'[granted] = <<>>
                           \/ out'[granted] = <<seq>> /\ reader \in {"idle", "logged"}
    BY <1>6, PublishEffect
  <2>2. seq \in Nat /\ drawn = (IF reader = "counted" THEN seq - 1 ELSE seq)
    BY DEF ReaderInv, TypeOK
  <2> SUFFICES ASSUME receiving[c]
               PROVE  UpToDate(granted)'
    BY <2>1 DEF SlotInv
  <2>3. CASE out'[granted] = <<>>
    <3>1. Last(granted)' = snap[granted].hi
      BY <2>1, <2>3 DEF Last
    <3> QED
      BY <2>1, <2>2, <2>3, <3>1 DEF UpToDate, Shown
  <2>4. CASE out'[granted] = <<seq>> /\ reader \in {"idle", "logged"}
    <3>1. Last(granted)' = seq
      BY <2>1, <2>4 DEF Last
    <3>2. \A n \in 1..seq : Shown(granted, n)'
      BY <2>1, <2>2, <2>4 DEF Shown
    <3> QED
      BY <2>1, <2>2, <2>4, <3>1, <3>2 DEF UpToDate
  <2> QED
    BY <2>1, <2>3, <2>4
<1>7. \/ attach' = NoAttach
      \/ attach # NoAttach /\ Frame
      \/ ReaderCount \/ ReaderDraw \/ ReaderLog
      \/ ReaderDeliver /\ attach # NoAttach /\ receiving[owner[attach]]
      \/ \E c \in Clients : OpenPublish(c)
  <2>1. CASE ReaderDeliver
    BY <2>1 DEF ReaderDeliver
  <2>2. CASE ExitTell
    BY <2>2 DEF ExitTell
  <2>3. CASE \E c \in Clients : DetachDo(c)
    BY <2>3 DEF DetachDo, readerVars, idVars, connVars, sentVars
  <2>4. CASE \E c \in Clients : OpenLock(c)
    <3>1. owner' = [owner EXCEPT ![granted + 1] = owner'[granted + 1]] /\ attach # granted + 1
      BY <2>4 DEF OpenLock, TypeOK
    <3> QED
      BY <2>4, <3>1 DEF OpenLock, readerVars, connVars, TypeOK
  <2>5. CASE \E c \in Clients : OpenSnapshot(c)
    <3>1. PICK c \in Clients : OpenSnapshot(c)
      BY <2>5
    <3>2. attach # arg[c]
      BY <3>1, ConstantsAssumption DEF ConstantsAssumption, OpenSnapshot, LockInv
    <3> QED
      BY <3>1, <3>2 DEF OpenSnapshot, readerVars, lockVars, idVars, connVars, TypeOK
  <2>6. CASE \E c \in Clients : WriterBreaks(c) \/ Close(c)
    <3>1. attach # NoAttach => owner[attach] \in Clients
      BY ConstantsAssumption DEF ConstantsAssumption, LockInv, TypeOK, Attaches, NoAttach
    <3> QED
      BY <2>6, <3>1 DEF WriterBreaks, Close, readerVars, lockVars, idVars, sentVars, TypeOK
  <2> QED
    BY <2>1, <2>2, <2>3, <2>4, <2>5, <2>6, NextCases
       DEF vars, readerVars, lockVars, idVars, connVars, sentVars, ExitRemove, ExitMark,
           PruneCheck, PruneScreen, PruneRing, OpenLookup, OpenRefused, DetachRequest,
           HangUp, TeardownDetach
<1> QED
  BY <1>1, <1>2, <1>3, <1>4, <1>5, <1>6, <1>7

\* The stream of every client continues its snapshot.
LEMMA StreamStep ==
    ASSUME TypeOK, ReaderInv, LockInv, ToldInv, BaseInv, SlotInv,
           StreamContinuesSnapshot, [Next]_vars
    PROVE  StreamContinuesSnapshot'
<1> SUFFICES ASSUME NEW a \in Attaches, NEW i \in DOMAIN out'[a]
             PROVE  IF i = 1 THEN out'[a][1] \in {snap'[a].hi, snap'[a].hi + 1}
                             ELSE \/ out'[a][i] = out'[a][i - 1] + 1
                                  \/ i = 2 /\ out'[a][i] = out'[a][i - 1]
  BY DEF StreamContinuesSnapshot
<1>1. CASE out'[a] = out[a] /\ snap'[a] = snap[a]
  BY <1>1 DEF StreamContinuesSnapshot
<1>2. CASE out'[a] = <<>>
  BY <1>2
<1>3. CASE ReaderDeliver /\ attach = a /\ attach # NoAttach /\ receiving[owner[attach]]
  <2>1. /\ out[a] \in Seq(Chunks) /\ seq \in Chunks
        /\ out'[a] = Append(out[a], seq)
    BY <1>3, DeliverEffect
  <2>2. snap' = snap /\ reader = "logged" /\ seq \in Nat
    BY <1>3 DEF ReaderDeliver, TypeOK
  <2>3. /\ Len(out'[a]) = Len(out[a]) + 1 /\ Len(out[a]) \in Nat
        /\ DOMAIN out'[a] = 1..(Len(out[a]) + 1) /\ DOMAIN out[a] = 1..Len(out[a])
        /\ \A j \in 1..Len(out[a]) : out'[a][j] = out[a][j]
        /\ out'[a][Len(out[a]) + 1] = seq
    BY <2>1, AppendType
  <2>4. Last(a) \in {seq - 1, seq} /\ (Last(a) = seq => Len(out[a]) <= 1)
    BY <1>3, <2>2 DEF SlotInv, UpToDate
  <2>5. CASE i <= Len(out[a])
    <3>1. i \in DOMAIN out[a] /\ (i # 1 => i - 1 \in 1..Len(out[a]))
      BY <2>3, <2>5
    <3>2. out'[a][i] = out[a][i] /\ (i # 1 => out'[a][i - 1] = out[a][i - 1])
      BY <2>3, <3>1
    <3>3. IF i = 1 THEN out[a][1] \in {snap[a].hi, snap[a].hi + 1}
                   ELSE \/ out[a][i] = out[a][i - 1] + 1
                        \/ i = 2 /\ out[a][i] = out[a][i - 1]
      BY <3>1 DEF StreamContinuesSnapshot
    <3> QED
      BY <2>2, <3>2, <3>3
  <2>6. CASE i = Len(out[a]) + 1 /\ Len(out[a]) = 0
    <3>1. Last(a) = snap[a].hi
      BY <2>1, <2>6 DEF Last
    <3> QED
      BY <2>2, <2>3, <2>4, <2>6, <3>1
  <2>7. CASE i = Len(out[a]) + 1 /\ Len(out[a]) > 0
    <3>1. Last(a) = out[a][Len(out[a])] /\ Last(a) = out'[a][i - 1] /\ out'[a][i] = seq /\ i > 1
      BY <2>1, <2>3, <2>7 DEF Last
    <3> QED
      BY <2>2, <2>3, <2>4, <2>7, <3>1
  <2> QED
    BY <2>3, <2>5, <2>6, <2>7
<1>4. ASSUME NEW c \in Clients, OpenPublish(c), a = granted, receiving[c], out'[a] # <<>>
      PROVE  out'[a][1] \in {snap'[a].hi, snap'[a].hi + 1} /\ i = 1
  <2>1. out'[a] = <<seq>> /\ snap' = snap /\ snap[a].hi \in {seq - 1, seq}
    BY <1>4, PublishEffect
  <2>2. seq \in Nat
    BY DEF TypeOK
  <2> QED
    BY <2>1, <2>2
<1>5. \/ out'[a] = out[a] /\ snap'[a] = snap[a]
      \/ out'[a] = <<>>
      \/ ReaderDeliver /\ attach = a /\ attach # NoAttach /\ receiving[owner[attach]]
      \/ \E c \in Clients : OpenPublish(c) /\ a = granted /\ receiving[c]
  <2>1. CASE ReaderDeliver
    BY <2>1, DeliverEffect DEF ReaderDeliver
  <2>2. ASSUME NEW c \in Clients, OpenSnapshot(c)
        PROVE  \/ out'[a] = <<>>
               \/ out'[a] = out[a] /\ snap'[a] = snap[a]
    <3>1. arg[c] = granted /\ holder = c /\ holder # NoClient
      BY <2>2, ConstantsAssumption DEF ConstantsAssumption, OpenSnapshot, LockInv
    <3> QED
      BY <2>2, <3>1 DEF OpenSnapshot, ToldInv, TypeOK
  <2>3. ASSUME NEW c \in Clients, OpenPublish(c)
        PROVE  \/ out'[a] = out[a] /\ snap'[a] = snap[a]
               \/ a = granted /\ receiving[c]
    <3>1. arg[c] = granted
      BY <2>3, ConstantsAssumption DEF ConstantsAssumption, OpenPublish, LockInv
    <3>2. /\ snap' = snap
          /\ IF receiving[c] THEN out' = [out EXCEPT ![granted] = EventsAfter(base[c])]
                             ELSE out' = out
      BY <2>3, <3>1 DEF OpenPublish
    <3>3. out \in [Attaches -> Seq(Chunks)] /\ receiving[c] \in BOOLEAN
      BY DEF TypeOK
    <3>4. CASE receiving[c]
      <4>1. out' = [out EXCEPT ![granted] = EventsAfter(base[c])]
        BY <3>2, <3>4
      <4>2. a # granted => out'[a] = out[a]
        BY <3>3, <4>1
      <4> QED
        BY <3>2, <3>4, <4>2
    <3>5. CASE ~receiving[c]
      BY <3>2, <3>5
    <3> QED
      BY <3>4, <3>5
  <2> QED
    BY <2>1, <2>2, <2>3, NextCases
       DEF vars, sentVars, ReaderCount, ReaderDraw, ReaderLog, ExitRemove, ExitMark,
           ExitTell, PruneCheck, PruneScreen, PruneRing, OpenLookup, OpenRefused,
           OpenLock, DetachRequest, DetachDo, WriterBreaks, HangUp, TeardownDetach, Close
<1> QED
  BY <1>1, <1>2, <1>3, <1>4, <1>5

\* A snapshot still to be published when the exit path has run says Exited: the
\* exit path could not take the slot while the lock was held.
LEMMA ExitStep ==
    ASSUME TypeOK, LockInv, ExitInv, [Next]_vars
    PROVE  ExitInv'
<1> USE ConstantsAssumption DEF ConstantsAssumption, ExitInv, NoAttach
<1>1. CASE /\ UNCHANGED <<attach, holder, granted, snap, status, exit>>
           /\ \A c \in Clients : pc'[c] = "publish" => pc[c] = "publish"
  BY <1>1 DEF TypeOK
<1>2. CASE ReaderDeliver
  BY <1>2 DEF ReaderDeliver, AttachLockFree
<1>3. CASE ExitRemove \/ ExitMark
  BY <1>3 DEF ExitRemove, ExitMark, lockVars, sentVars, TypeOK
<1>4. CASE ExitTell
  BY <1>4 DEF ExitTell, AttachLockFree
<1>5. ASSUME NEW c \in Clients, OpenLock(c)
      PROVE  ExitInv'
  BY <1>5 DEF OpenLock, TypeOK
<1>6. ASSUME NEW c \in Clients, OpenSnapshot(c)
      PROVE  ExitInv'
  <2>1. holder = c /\ granted \in Attaches /\ arg[c] = granted /\ attach # granted
    BY <1>6 DEF OpenSnapshot, LockInv, TypeOK, Attaches
  <2>2. /\ snap'[granted].status = status
        /\ attach # NoAttach => snap'[attach] = snap[attach]
    BY <1>6, <2>1 DEF OpenSnapshot, TypeOK
  <2> QED
    BY <1>6, <2>1, <2>2 DEF OpenSnapshot, lockVars, idVars
<1>7. ASSUME NEW c \in Clients, OpenPublish(c)
      PROVE  ExitInv'
  BY <1>7 DEF OpenPublish, LockInv
<1>8. ASSUME NEW c \in Clients, DetachDo(c)
      PROVE  ExitInv'
  BY <1>8 DEF DetachDo, AttachLockFree, sentVars
<1>9. \/ /\ UNCHANGED <<attach, holder, granted, snap, status, exit>>
         /\ \A c \in Clients : pc'[c] = "publish" => pc[c] = "publish"
      \/ ReaderDeliver \/ ExitRemove \/ ExitMark \/ ExitTell
      \/ \E c \in Clients :
           OpenLock(c) \/ OpenSnapshot(c) \/ OpenPublish(c) \/ DetachDo(c)
  <2>1. CASE \E c \in Clients : OpenLookup(c) \/ OpenRefused(c)
    BY <2>1 DEF OpenLookup, OpenRefused, lockVars, idVars, sentVars, TypeOK
  <2>2. CASE \E c \in Clients : DetachRequest(c) \/ TeardownDetach(c)
    BY <2>2 DEF DetachRequest, TeardownDetach, FindAttach, lockVars, idVars, sentVars,
                TypeOK
  <2> QED
    BY <2>1, <2>2, NextCases
       DEF vars, lockVars, handlerVars, idVars, sentVars, ReaderCount, ReaderDraw,
           ReaderLog, PruneCheck, PruneScreen, PruneRing, WriterBreaks, HangUp, Close
<1> QED
  BY <1>1, <1>2, <1>3, <1>4, <1>5, <1>6, <1>7, <1>8, <1>9

\* A slot stays on its client's teardown list until that client detaches it.
LEMMA TeardownStep ==
    ASSUME TypeOK, LockInv, TeardownInv, [Next]_vars
    PROVE  TeardownInv'
<1> USE ConstantsAssumption DEF ConstantsAssumption, TeardownInv, NoAttach, Registered
<1>0. attach # 0 => owner[attach] \in Clients /\ attach \in Attaches
  BY DEF LockInv, TypeOK, Attaches
<1>1. CASE UNCHANGED <<attach, owner, pc, arg, conn, attached, exit>>
  BY <1>1
<1>2. CASE attach' \in {attach, 0} /\ UNCHANGED <<owner, pc, arg, conn, attached, exit>>
  BY <1>2
<1>3. CASE exit' # "live" /\ UNCHANGED <<pc, conn, attached>>
  BY <1>3
<1>4. ASSUME NEW c \in Clients, OpenLookup(c) \/ OpenRefused(c) \/ OpenSnapshot(c)
      PROVE  TeardownInv'
  <2>1. /\ UNCHANGED <<attach, owner, arg, conn, attached, exit>>
        /\ pc[c] \in {"idle", "found", "snap"} /\ (pc[c] = "idle" => conn[c] = "open")
        /\ \E s \in {"idle", "found", "publish"} :
              pc' = [pc EXCEPT ![c] = s]
    BY <1>4 DEF OpenLookup, OpenRefused, OpenSnapshot, lockVars, idVars, connVars
  <2>2. conn[c] = "open"
    BY <2>1
  <2>3. \A d \in Clients : d # c => pc'[d] = pc[d]
    BY <2>1 DEF TypeOK
  <2> QED
    BY <1>0, <2>1, <2>2, <2>3
<1>5. ASSUME NEW c \in Clients, OpenLock(c)
      PROVE  TeardownInv'
  <2>1. attach # 0 => owner'[attach] = owner[attach]
    BY <1>0, <1>5 DEF OpenLock, TypeOK
  <2> QED
    BY <1>0, <1>5, <2>1 DEF OpenLock, connVars, TypeOK
<1>6. ASSUME NEW c \in Clients, OpenPublish(c)
      PROVE  TeardownInv'
  <2>1. arg[c] = granted /\ owner[granted] = c /\ conn[c] = "open"
    BY <1>6 DEF OpenPublish, LockInv
  <2>2. attach' = granted /\ owner' = owner /\ conn' = conn /\ exit' = exit
    BY <1>6, <2>1 DEF OpenPublish, idVars
  <2>3. /\ pc' = [pc EXCEPT ![c] = "idle"]
        /\ attached' = [attached EXCEPT ![c] = @ \cup {granted}]
    BY <1>6, <2>1 DEF OpenPublish, Finish
  <2>4. granted \in attached'[c]
    BY <2>3 DEF TypeOK
  <2> QED
    BY <2>1, <2>2, <2>3, <2>4 DEF TypeOK
<1>7. ASSUME NEW c \in Clients, DetachRequest(c) \/ TeardownDetach(c)
      PROVE  TeardownInv'
  <2>1. PICK a \in attached[c] :
            /\ FindAttach(c, a)
            /\ \/ attached' = attached
               \/ attached' = [attached EXCEPT ![c] = @ \ {a}]
    BY <1>7 DEF DetachRequest, TeardownDetach, connVars
  <2>2. /\ pc[c] = "idle" /\ conn[c] # "closed"
        /\ UNCHANGED <<attach, owner, conn, exit>>
    BY <1>7 DEF DetachRequest, TeardownDetach, lockVars, idVars, connVars
  <2>3. CASE exit = "live" /\ attach = a
    <3>1. /\ pc' = [pc EXCEPT ![c] = "detach"]
          /\ arg' = [arg EXCEPT ![c] = a]
      BY <2>1, <2>3 DEF FindAttach
    <3> QED
      BY <1>0, <2>1, <2>2, <2>3, <3>1 DEF TypeOK
  <2>4. CASE ~(exit = "live" /\ attach = a)
    <3>1. UNCHANGED <<pc, arg>>
      BY <2>1, <2>4 DEF FindAttach
    <3>2. /\ \A d \in Clients : d # c => attached'[d] = attached[d]
          /\ attached'[c] \in {attached[c], attached[c] \ {a}}
      BY <2>1 DEF TypeOK
    <3> QED
      BY <1>0, <2>1, <2>2, <2>4, <3>1, <3>2
  <2> QED
    BY <2>3, <2>4
<1>8. ASSUME NEW c \in Clients, DetachDo(c)
      PROVE  TeardownInv'
  <2>1. /\ pc' = [pc EXCEPT ![c] = "idle"]
        /\ arg' = [arg EXCEPT ![c] = 0]
        /\ attach' = IF attach = arg[c] THEN 0 ELSE attach
        /\ UNCHANGED <<owner, conn, attached, exit>>
    BY <1>8 DEF DetachDo, Finish, idVars, connVars
  <2>2. pc[c] = "detach"
    BY <1>8 DEF DetachDo
  <2> QED
    BY <1>0, <2>1, <2>2 DEF TypeOK
<1>9. ASSUME NEW c \in Clients, HangUp(c) \/ Close(c)
      PROVE  TeardownInv'
  BY <1>9, ZenonT(40) DEF HangUp, Close, lockVars, handlerVars, idVars, TypeOK
<1>10. \/ UNCHANGED <<attach, owner, pc, arg, conn, attached, exit>>
       \/ attach' \in {attach, 0} /\ UNCHANGED <<owner, pc, arg, conn, attached, exit>>
       \/ exit' # "live" /\ UNCHANGED <<pc, conn, attached>>
       \/ \E c \in Clients :
            \/ OpenLookup(c) \/ OpenRefused(c) \/ OpenLock(c) \/ OpenSnapshot(c)
            \/ OpenPublish(c) \/ DetachRequest(c) \/ DetachDo(c) \/ HangUp(c)
            \/ TeardownDetach(c) \/ Close(c)
  BY NextCases
     DEF vars, lockVars, handlerVars, idVars, connVars, ReaderCount, ReaderDraw,
         ReaderLog, ReaderDeliver, ExitRemove, ExitMark, ExitTell, PruneCheck,
         PruneScreen, PruneRing, WriterBreaks
<1> QED
  BY <1>1, <1>2, <1>3, <1>4, <1>5, <1>6, <1>7, <1>8, <1>9, <1>10

\* Ids stay with the client they were made for.
LEMMA OwnStep ==
    ASSUME TypeOK, LockInv, OwnInv, [Next]_vars
    PROVE  OwnInv'
<1> USE ConstantsAssumption DEF ConstantsAssumption
<1> DEFINE Listed == \A c \in Clients : \A a \in attached[c] : a <= granted /\ owner[a] = c
           Going  == \A c \in Clients :
                        pc[c] = "detach" =>
                            arg[c] \in Attaches /\ arg[c] <= granted /\ owner[arg[c]] = c
           News   == \A a \in Attaches : snap[a].status = "Exited" => status = "Exited"
<1>0. granted \in Nat /\ granted \in 0..MaxAttach
  BY DEF TypeOK
<1>1. ASSUME NEW c \in Clients, OpenLock(c)
      PROVE  OwnInv'
  <2>1. /\ granted' = granted + 1 /\ granted + 1 \in Attaches
        /\ owner' = [owner EXCEPT ![granted + 1] = c]
        /\ pc' = [pc EXCEPT ![c] = "snap"] /\ arg' = [arg EXCEPT ![c] = granted + 1]
        /\ attached' = attached /\ snap' = snap /\ status' = status
    BY <1>1 DEF OpenLock, connVars
  <2>2. \A a \in Attaches : a <= granted => owner'[a] = owner[a] /\ a <= granted'
    BY <1>0, <2>1 DEF TypeOK, Attaches
  <2>3. Listed'
    BY <2>1, <2>2 DEF OwnInv, TypeOK
  <2>4. Going'
    BY <2>1, <2>2 DEF OwnInv, TypeOK
  <2> QED
    BY <2>1, <2>3, <2>4 DEF OwnInv
<1>2. ASSUME NEW c \in Clients, OpenPublish(c)
      PROVE  OwnInv'
  <2>1. /\ arg[c] = granted /\ owner[granted] = c
        /\ attached' = [attached EXCEPT ![c] = @ \cup {arg[c]}]
        /\ pc' = [pc EXCEPT ![c] = "idle"] /\ arg' = [arg EXCEPT ![c] = NoAttach]
        /\ UNCHANGED <<granted, owner, snap, status>>
    BY <1>2 DEF OpenPublish, Finish, LockInv, idVars
  <2> QED
    BY <1>0, <2>1 DEF OwnInv, TypeOK
<1>3. ASSUME NEW c \in Clients, OpenSnapshot(c)
      PROVE  OwnInv'
  <2>1. /\ snap' = [snap EXCEPT ![arg[c]] = [lo |-> erased, hi |-> drawn, status |-> status]]
        /\ pc' = [pc EXCEPT ![c] = "publish"]
        /\ UNCHANGED <<granted, owner, status, arg, attached>>
    BY <1>3 DEF OpenSnapshot, idVars, connVars
  <2>2. Listed' /\ Going'
    BY <2>1 DEF OwnInv, TypeOK
  <2>3. News'
    BY <2>1 DEF OwnInv, TypeOK
  <2> QED
    BY <2>2, <2>3 DEF OwnInv
<1>4. ASSUME NEW c \in Clients, NEW a \in attached[c], FindAttach(c, a),
             \A d \in Clients : attached'[d] \subseteq attached[d],
             UNCHANGED <<granted, owner, snap, status>>
      PROVE  OwnInv'
  <2>1. a \in Attaches /\ a <= granted /\ owner[a] = c
    BY DEF OwnInv, TypeOK
  <2>2. Listed' /\ News'
    BY <1>4 DEF OwnInv
  <2>3. pc \in [Clients -> {"idle", "found", "snap", "publish", "detach"}]
        /\ arg \in [Clients -> 0..MaxAttach]
    BY DEF TypeOK
  <2>4. Going /\ UNCHANGED <<granted, owner>>
    BY <1>4 DEF OwnInv
  <2>5. ASSUME NEW d \in Clients, pc'[d] = "detach"
        PROVE  arg'[d] \in Attaches /\ arg'[d] <= granted /\ owner[arg'[d]] = d
    <3>1. CASE d = c /\ Registered /\ attach = a
      <4>1. arg'[d] = a
        BY <1>4, <2>3, <3>1 DEF FindAttach
      <4> QED
        BY <2>1, <3>1, <4>1
    <3>2. CASE ~(d = c /\ Registered /\ attach = a)
      <4>1. pc'[d] = pc[d] /\ arg'[d] = arg[d]
        BY <1>4, <2>3, <3>2 DEF FindAttach
      <4> QED
        BY <2>4, <2>5, <4>1
    <3> QED
      BY <3>1, <3>2
  <2>6. Going'
    BY <2>4, <2>5
  <2> QED
    BY <2>2, <2>6 DEF OwnInv
<1>5. ASSUME NEW c \in Clients, DetachRequest(c) \/ TeardownDetach(c)
      PROVE  OwnInv'
  <2>1. PICK a \in attached[c] : FindAttach(c, a)
    BY <1>5 DEF DetachRequest, TeardownDetach
  <2>2. \A d \in Clients : attached'[d] \subseteq attached[d]
    <3>1. attached' = attached \/ \E b \in attached[c] : attached' = [attached EXCEPT ![c] = @ \ {b}]
      BY <1>5 DEF DetachRequest, TeardownDetach, connVars
    <3>2. attached \in [Clients -> SUBSET Attaches]
      BY DEF TypeOK
    <3> QED
      BY <3>1, <3>2
  <2>3. UNCHANGED <<granted, owner, snap, status>>
    BY <1>5 DEF DetachRequest, TeardownDetach, idVars, sentVars
  <2> QED
    BY <1>4, <2>1, <2>2, <2>3
<1>6. ASSUME NEW c \in Clients, OpenLookup(c) \/ OpenRefused(c) \/ DetachDo(c)
      PROVE  OwnInv'
  <2>1. UNCHANGED <<granted, owner, attached, snap, status>>
    BY <1>6 DEF OpenLookup, OpenRefused, DetachDo, idVars, connVars, sentVars
  <2>2. PICK where \in {"found", "idle"} : pc' = [pc EXCEPT ![c] = where]
    BY <1>6 DEF OpenLookup, OpenRefused, DetachDo, Finish
  <2>3. arg' = arg \/ arg' = [arg EXCEPT ![c] = NoAttach]
    BY <1>6 DEF OpenLookup, OpenRefused, DetachDo, Finish
  <2>4. ASSUME NEW d \in Clients, pc'[d] = "detach"
        PROVE  pc[d] = "detach" /\ arg'[d] = arg[d]
    BY <2>2, <2>3, <2>4 DEF TypeOK
  <2>5. Listed' /\ News'
    BY <2>1 DEF OwnInv
  <2>6. Going'
    BY <2>1, <2>4 DEF OwnInv
  <2> QED
    BY <2>5, <2>6 DEF OwnInv
<1>7. ASSUME UNCHANGED <<pc, arg, granted, owner, attached, snap>>, status' \in {status, "Exited"}
      PROVE  OwnInv'
  BY <1>7 DEF OwnInv
<1>8. CASE UNCHANGED vars
  BY <1>7, <1>8 DEF vars, handlerVars, idVars, connVars, sentVars
<1>9. CASE ReaderCount \/ ReaderDraw \/ ReaderLog \/ ReaderDeliver
  BY <1>7, <1>9 DEF ReaderCount, ReaderDraw, ReaderLog, ReaderDeliver, handlerVars, idVars,
                    connVars, sentVars
<1>10. CASE ExitRemove \/ ExitMark \/ ExitTell
  BY <1>7, <1>10 DEF ExitRemove, ExitMark, ExitTell, handlerVars, idVars, connVars, sentVars
<1>11. CASE PruneCheck \/ PruneScreen \/ PruneRing
  BY <1>7, <1>11 DEF PruneCheck, PruneScreen, PruneRing, handlerVars, idVars, connVars, sentVars
<1>12. ASSUME NEW c \in Clients, WriterBreaks(c) \/ HangUp(c) \/ Close(c)
       PROVE  OwnInv'
  BY <1>7, <1>12 DEF WriterBreaks, HangUp, Close, handlerVars, idVars, sentVars
<1> QED
  BY <1>1, <1>2, <1>3, <1>5, <1>6, <1>8, <1>9, <1>10, <1>11, <1>12, NextCases

-----------------------------------------------------------------------------
(* Results                                                                  *)

LEMMA InitIInv ==
    ASSUME Init
    PROVE  IInv
<1> USE ConstantsAssumption DEF ConstantsAssumption, Init, NoAttach
<1>1. TypeOK
  <2>1. [lo |-> 0, hi |-> 0, status |-> "Running"] \in Snapshots
    BY DEF Snapshots
  <2>2. <<>> \in Seq(Chunks)
    OBVIOUS
  <2> QED
    BY <2>1, <2>2 DEF TypeOK
<1>2. ReaderInv /\ LockInv /\ ToldInv /\ BaseInv /\ SlotInv /\ ExitInv
  BY DEF ReaderInv, LockInv, ToldInv, BaseInv, SlotInv, ExitInv, Attaches
<1>3. StreamContinuesSnapshot /\ TeardownInv
  BY DEF StreamContinuesSnapshot, TeardownInv
<1>4. OwnInv
  BY DEF OwnInv
<1> QED
  BY <1>1, <1>2, <1>3, <1>4 DEF IInv

LEMMA StepIInv ==
    ASSUME IInv, [Next]_vars
    PROVE  IInv'
  BY TypeStep, ReaderStep, LockStep, ToldStep, BaseStep, SlotStep, StreamStep, ExitStep,
     TeardownStep, OwnStep
  DEF IInv

\* The inductive invariant holds in every reachable state.
THEOREM Invariance == Spec => []IInv
  BY InitIInv, StepIInv, PTL DEF Spec

\* Every variable keeps its type and the counters their order (record_output,
\* attach, prune): for any number of clients and chunks.
THEOREM TypeCorrect == Spec => []TypeOK
<1>1. IInv => TypeOK
  BY DEF IInv
<1> QED
  BY Invariance, <1>1, PTL

\* No chunk is lost across an attach, whatever the reader was doing meanwhile.
THEOREM NothingLost == Spec => []NoChunkLost
<1>1. IInv => NoChunkLost
  BY DEF IInv, NoChunkLost, SlotInv, UpToDate
<1> QED
  BY Invariance, <1>1, PTL

\* Every client's stream continues its snapshot in order, without gaps, repeating
\* at most the chunk that was in flight while it attached.
THEOREM StreamCorrect == Spec => []StreamContinuesSnapshot
<1>1. IInv => StreamContinuesSnapshot
  BY DEF IInv
<1> QED
  BY Invariance, <1>1, PTL

\* A client attached to a shell whose exit path has run was told by its snapshot.
THEOREM ExitVisible == Spec => []ExitNeverHidden
<1>1. IInv => ExitNeverHidden
  BY DEF IInv, ExitInv, ExitNeverHidden
<1> QED
  BY Invariance, <1>1, PTL

\* A closed connection never keeps the slot of a registered shell.
THEOREM SlotReleased == Spec => []ClosedClientHoldsNothing
<1>1. IInv => ClosedClientHoldsNothing
  <2> SUFFICES ASSUME IInv, Registered, attach # NoAttach
               PROVE  conn[owner[attach]] # "closed"
    BY DEF ClosedClientHoldsNothing
  <2>1. owner[attach] \in Clients
    BY ConstantsAssumption
       DEF ConstantsAssumption, IInv, LockInv, TypeOK, Attaches, NoAttach
  <2> QED
    BY <2>1 DEF IInv, TeardownInv
<1> QED
  BY Invariance, <1>1, PTL

\* A client that was told it lost the session is sent nothing more.
THEOREM EvictionFinal == Spec => EvictedClientIsSilent
<1>1. ASSUME IInv, [Next]_vars
      PROVE  [\A a \in Attaches :
                 told[a] # "no" => out'[a] = out[a] /\ told'[a] = told[a]]_vars
  <2> SUFFICES ASSUME Next, NEW a \in Attaches, told[a] # "no"
               PROVE  out'[a] = out[a] /\ told'[a] = told[a]
    BY <1>1
  <2> TypeOK /\ ReaderInv /\ LockInv /\ ToldInv
    BY <1>1 DEF IInv
  <2>1. CASE ReaderDeliver
    <3>1. attach # NoAttach => a # attach
      BY <2>1 DEF ReaderDeliver, AttachLockFree, ToldInv
    <3> QED
      BY <2>1, <3>1, DeliverEffect DEF ReaderDeliver
  <2>2. CASE ExitTell
    BY <2>2 DEF ExitTell, AttachLockFree, ToldInv, NoAttach, TypeOK
  <2>3. ASSUME NEW c \in Clients, OpenLock(c)
        PROVE  out'[a] = out[a] /\ told'[a] = told[a]
    BY <2>3 DEF OpenLock, AttachLockFree, ToldInv, NoAttach, TypeOK
  <2>4. ASSUME NEW c \in Clients, OpenPublish(c)
        PROVE  out'[a] = out[a] /\ told'[a] = told[a]
    <3>1. holder # NoClient /\ arg[c] = granted
      BY <2>4, ConstantsAssumption DEF ConstantsAssumption, OpenPublish, LockInv
    <3>2. a # arg[c]
      BY <3>1 DEF ToldInv
    <3> QED
      BY <2>4, <3>2 DEF OpenPublish
  <2> QED
    BY <2>1, <2>2, <2>3, <2>4, NextCases
       DEF vars, sentVars, ReaderCount, ReaderDraw, ReaderLog, ExitRemove, ExitMark,
           PruneCheck, PruneScreen, PruneRing, OpenLookup, OpenRefused, OpenSnapshot,
           DetachRequest, DetachDo, WriterBreaks, HangUp, TeardownDetach, Close
<1> QED
  BY <1>1, Invariance, PTL DEF Spec, EvictedClientIsSilent

\* A client loses the slot only with a notice, by its own detach or with its channel.
THEOREM EvictionAnnounced == Spec => NeverEvictedSilently
<1>1. ASSUME IInv, [Next]_vars
      PROVE  [\A a \in Attaches :
                attach = a /\ attach' # a =>
                  \/ told'[a] # "no"
                  \/ ~receiving[owner[a]]
                  \/ \E c \in Clients : pc[c] = "detach" /\ arg[c] = a]_vars
  <2> SUFFICES ASSUME Next, attach \in Attaches, attach' # attach
               PROVE  \/ told'[attach] # "no"
                      \/ ~receiving[owner[attach]]
                      \/ \E c \in Clients : pc[c] = "detach" /\ arg[c] = attach
    BY <1>1
  <2> TypeOK /\ LockInv /\ ToldInv
    BY <1>1 DEF IInv
  <2>0. attach # NoAttach
    BY DEF Attaches, NoAttach
  <2>1. CASE ReaderDeliver
    BY <2>0, <2>1 DEF ReaderDeliver
  <2>2. CASE ExitTell
    BY <2>0, <2>2 DEF ExitTell, TypeOK
  <2>3. ASSUME NEW c \in Clients, OpenPublish(c)
        PROVE  told'[attach] # "no"
    BY <2>0, <2>3, ConstantsAssumption
       DEF ConstantsAssumption, OpenPublish, LockInv, ToldInv
  <2>4. ASSUME NEW c \in Clients, DetachDo(c)
        PROVE  pc[c] = "detach" /\ arg[c] = attach
    BY <2>4 DEF DetachDo
  <2> QED
    BY <2>1, <2>2, <2>3, <2>4, NextCases
       DEF lockVars, ReaderCount, ReaderDraw, ReaderLog, ExitRemove, ExitMark,
           PruneCheck, PruneScreen, PruneRing, OpenLookup, OpenRefused, OpenLock,
           OpenSnapshot, DetachRequest, WriterBreaks, HangUp, TeardownDetach, Close
<1> QED
  BY <1>1, Invariance, PTL DEF Spec, NeverEvictedSilently

-----------------------------------------------------------------------------
(* The refinement of Viewing                                                *)

\* The state of Viewing in the terms of ShellStream.
Viewer  == IF attach # NoAttach /\ told[attach] = "no" THEN attach ELSE NoAttach
Shows   == [a \in Attaches |-> Last(a)]
Broken  == {a \in Past : ~receiving[owner[a]]}
Leaving == {a \in Attaches : \E c \in Clients : pc[c] = "detach" /\ arg[c] = a}
Over    == IF exit = "told" THEN "told" ELSE IF status = "Exited" THEN "ended" ELSE "running"
Knows   == {a \in Attaches : snap[a].status = "Exited"}

\* The actions of Viewing in these terms.
LEMMA MapProduce ==
    Views!Produce <=>
        /\ Viewer = NoAttach \/ Viewer \in Broken \/ Shows[Viewer] = seq
        /\ seq' = seq + 1
        /\ UNCHANGED <<Viewer, Shows, Past, Broken, Leaving, told, Over, Knows>>
  BY DEF Views!Produce, Viewer, Shows, Broken, Leaving, Over, Knows

LEMMA MapShow ==
    Views!Show <=>
        /\ Viewer # NoAttach /\ Shows[Viewer] < seq
        /\ Shows' = [Shows EXCEPT ![Viewer] = @ + 1]
        /\ UNCHANGED <<seq, Viewer, Past, Broken, Leaving, told, Over, Knows>>
  BY DEF Views!Show, Viewer, Shows, Broken, Leaving, Over, Knows

LEMMA MapGreet ==
    \A v : Views!Greet(v) <=>
        /\ Viewer = NoAttach /\ v \notin Past
        /\ \E n \in 0..seq : n <= seq /\ seq <= n + 1 /\ Shows' = [Shows EXCEPT ![v] = n]
        /\ Knows' = IF Over = "running" THEN Knows ELSE Knows \cup {v}
        /\ UNCHANGED <<seq, Viewer, Past, Broken, Leaving, told, Over>>
  BY DEF Views!Greet, Views!Recent, Viewer, Shows, Broken, Leaving, Over, Knows

LEMMA MapAdmit ==
    \A v : Views!Admit(v) <=>
        /\ Viewer = NoAttach /\ v \notin Past
        /\ Over = "told" => v \in Knows
        /\ Viewer' = v /\ Past' = Past \cup {v}
        /\ Broken' = Broken \/ Broken' = Broken \cup {v}
        /\ \E n \in Shows[v]..seq :
              n <= seq /\ seq <= n + 1 /\ Shows' = [Shows EXCEPT ![v] = n]
        /\ UNCHANGED <<seq, Leaving, told, Over, Knows>>
  BY DEF Views!Admit, Views!Recent, Viewer, Shows, Broken, Leaving, Over, Knows

LEMMA MapEvict ==
    Views!Evict <=>
        /\ Viewer # NoAttach
        /\ told' = [told EXCEPT ![Viewer] = "stolen"] /\ Viewer' = NoAttach
        /\ UNCHANGED <<seq, Shows, Past, Broken, Leaving, Over, Knows>>
  BY DEF Views!Evict, Viewer, Shows, Broken, Leaving, Over, Knows

LEMMA MapDrop ==
    Views!Drop <=>
        /\ Viewer \in Broken /\ Viewer' = NoAttach
        /\ UNCHANGED <<seq, Shows, Past, Broken, Leaving, told, Over, Knows>>
  BY DEF Views!Drop, Viewer, Shows, Broken, Leaving, Over, Knows

LEMMA MapAskLeave ==
    Views!AskLeave <=>
        /\ Viewer # NoAttach /\ Leaving' = Leaving \cup {Viewer}
        /\ UNCHANGED <<seq, Viewer, Shows, Past, Broken, told, Over, Knows>>
  BY DEF Views!AskLeave, Viewer, Shows, Broken, Leaving, Over, Knows

LEMMA MapLeave ==
    \A v : Views!Leave(v) <=>
        /\ v \in Leaving /\ Leaving' = Leaving \ {v}
        /\ Viewer' = IF Viewer = v THEN NoAttach ELSE Viewer
        /\ UNCHANGED <<seq, Shows, Past, Broken, told, Over, Knows>>
  BY DEF Views!Leave, Viewer, Shows, Broken, Leaving, Over, Knows

LEMMA MapBreak ==
    Views!Break <=>
        /\ Broken \subseteq Broken' /\ Broken' \subseteq Past
        /\ UNCHANGED <<seq, Viewer, Shows, Past, Leaving, told, Over, Knows>>
  BY DEF Views!Break, Viewer, Shows, Broken, Leaving, Over, Knows

LEMMA MapFinish ==
    Views!Finish <=>
        /\ Over = "running" /\ Over' = "ended"
        /\ UNCHANGED <<seq, Viewer, Shows, Past, Broken, Leaving, told, Knows>>
  BY DEF Views!Finish, Viewer, Shows, Broken, Leaving, Over, Knows

LEMMA MapTellEnd ==
    Views!TellEnd <=>
        /\ Over = "ended" /\ Over' = "told"
        /\ told' = IF Viewer = NoAttach THEN told ELSE [told EXCEPT ![Viewer] = "exited"]
        /\ Viewer' = NoAttach
        /\ UNCHANGED <<seq, Shows, Past, Broken, Leaving, Knows>>
  BY DEF Views!TellEnd, Viewer, Shows, Broken, Leaving, Over, Knows

LEMMA MapInit == Init => Views!Init
<1> SUFFICES ASSUME Init PROVE Views!Init
  OBVIOUS
<1> QED
  BY DEF Init, Views!Init, Past, Last, NoAttach

\* What each part of the state of Viewing depends on.
LEMMA Frames ==
    /\ UNCHANGED <<attach, told>> => UNCHANGED Viewer
    /\ UNCHANGED <<out, snap>> => UNCHANGED Shows
    /\ UNCHANGED <<holder, granted>> => UNCHANGED Past
    /\ UNCHANGED <<holder, granted, owner, receiving>> => UNCHANGED Broken
    /\ UNCHANGED <<pc, arg>> => UNCHANGED Leaving
    /\ UNCHANGED <<exit, status>> => UNCHANGED Over
    /\ UNCHANGED snap => UNCHANGED Knows
  BY DEF Viewer, Shows, Last, Past, Broken, Leaving, Over, Knows

\* A step Viewing does not see.
Silent == UNCHANGED <<seq, Viewer, Shows, Past, Broken, Leaving, told, Over, Knows>>

\* The viewer is the client in the slot, and nobody while a handler attaches.
LEMMA ViewerIsInSlot ==
    ASSUME IInv
    PROVE  /\ holder = NoClient => Viewer = attach
           /\ holder # NoClient => Viewer = NoAttach
           /\ holder = NoClient /\ attach # NoAttach => attach \in Attaches /\ attach \in Past
           /\ granted \in Nat /\ Past \subseteq Attaches
           /\ \A a \in Past : a <= granted /\ owner[a] \in Clients
<1> USE ConstantsAssumption DEF ConstantsAssumption
<1>1. TypeOK /\ LockInv /\ ToldInv
  BY DEF IInv
<1>2. granted \in 0..MaxAttach /\ attach \in 0..granted
  BY <1>1 DEF TypeOK
<1>3. Past \subseteq Attaches /\ \A a \in Past : a <= granted
  BY <1>2 DEF Past, Attaches
<1>4. \A a \in Past : owner[a] \in Clients
  BY <1>1, <1>3 DEF LockInv
<1>5. holder = NoClient /\ attach # NoAttach => attach \in Attaches /\ attach \in Past
  BY <1>2 DEF Past, Attaches, NoAttach
<1>6. (holder = NoClient => Viewer = attach) /\ (holder # NoClient => Viewer = NoAttach)
  BY <1>1 DEF ToldInv, Viewer
<1> QED
  BY <1>2, <1>3, <1>4, <1>5, <1>6

\* The reader counts a chunk only when the client in the slot has the last one.
LEMMA CountProduces ==
    ASSUME IInv, ReaderCount
    PROVE  Views!Produce
<1>1. /\ reader = "idle" /\ seq' = seq + 1
      /\ UNCHANGED <<lockVars, handlerVars, idVars, connVars, sentVars, status, exit>>
  BY DEF ReaderCount
<1>2. UNCHANGED <<Viewer, Shows, Past, Broken, Leaving, told, Over, Knows>>
  BY <1>1, Frames DEF lockVars, handlerVars, idVars, connVars, sentVars
<1>3. ASSUME Viewer # NoAttach, Viewer \notin Broken
      PROVE  Shows[Viewer] = seq
  <2>1. Viewer = attach /\ attach # NoAttach /\ attach \in Past /\ attach \in Attaches
    BY <1>3, ViewerIsInSlot
  <2>2. receiving[owner[attach]]
    BY <1>3, <2>1 DEF Broken
  <2>3. Last(attach) = seq
    BY <1>1, <2>1, <2>2 DEF IInv, SlotInv, UpToDate
  <2> QED
    BY <2>1, <2>3 DEF Shows
<1> QED
  BY <1>1, <1>2, <1>3, MapProduce

\* The reader hands its chunk over: the viewer gets it, has it already, or is gone.
LEMMA DeliverShows ==
    ASSUME IInv, ReaderDeliver
    PROVE  Views!Show \/ Views!Drop \/ Silent
<1>1. /\ reader = "logged" /\ holder = NoClient
      /\ UNCHANGED <<seq, holder, handlerVars, idVars, connVars, snap, told, status, exit>>
  BY DEF ReaderDeliver, AttachLockFree
<1>2. UNCHANGED <<seq, Past, Broken, Leaving, told, Over, Knows>>
  BY <1>1, Frames DEF handlerVars, idVars, connVars
<1>3. CASE attach = NoAttach
  <2>1. UNCHANGED <<attach, out>>
    BY <1>3 DEF ReaderDeliver
  <2> QED
    BY <1>1, <1>2, <2>1, Frames DEF Silent
<1>4. CASE attach # NoAttach /\ ~receiving[owner[attach]]
  <2>1. attach' = NoAttach /\ out' = out
    BY <1>4 DEF ReaderDeliver
  <2>2. Viewer = attach /\ attach \in Past
    BY <1>1, <1>4, ViewerIsInSlot
  <2>3. Viewer \in Broken /\ Viewer' = NoAttach /\ UNCHANGED Shows
    BY <1>1, <1>4, <2>1, <2>2, Frames DEF Broken, Viewer
  <2> QED
    BY <1>2, <2>3, MapDrop
<1>5. CASE attach # NoAttach /\ receiving[owner[attach]]
  <2>1. /\ attach \in Attaches /\ attach' = attach
        /\ \A a \in Attaches : a # attach => out'[a] = out[a]
        /\ out[attach] \in Seq(Chunks) /\ seq \in Chunks
        /\ out'[attach] = Append(out[attach], seq)
    BY <1>5, DeliverEffect DEF IInv
  <2>2. Viewer = attach /\ UNCHANGED Viewer
    BY <1>1, <1>5, <2>1, ViewerIsInSlot, Frames
  <2>3. Last(attach) \in {seq - 1, seq} /\ seq \in Nat
    BY <1>5 DEF IInv, SlotInv, UpToDate, TypeOK
  <2>4. \A a \in Attaches : Last(a)' = IF a = attach THEN seq ELSE Last(a)
    <3>1. ASSUME NEW a \in Attaches, a # attach
          PROVE  Last(a)' = Last(a)
      BY <1>1, <2>1, <3>1 DEF Last
    <3>2. ASSUME NEW a \in Attaches, a = attach
          PROVE  Last(a)' = seq
      <4>1. out'[a] # <<>> /\ out'[a][Len(out'[a])] = seq
        BY <2>1, <3>2, AppendType
      <4> QED
        BY <4>1 DEF Last
    <3> QED
      BY <3>1, <3>2
  <2>5. Shows' = [Shows EXCEPT ![attach] = seq] /\ Shows[attach] = Last(attach)
    BY <2>1, <2>4 DEF Shows
  <2>6. CASE Last(attach) = seq
    <3>1. Shows' = Shows
      BY <2>5, <2>6 DEF Shows
    <3> QED
      BY <1>2, <2>2, <3>1 DEF Silent
  <2>7. CASE Last(attach) = seq - 1
    <3>1. Shows[attach] < seq /\ seq = Shows[attach] + 1
      BY <2>3, <2>5, <2>7
    <3>2. Shows' = [Shows EXCEPT ![Viewer] = @ + 1]
      BY <2>2, <2>5, <3>1
    <3> QED
      BY <1>2, <1>5, <2>2, <3>1, <3>2, MapShow
  <2> QED
    BY <2>3, <2>6, <2>7
<1> QED
  BY <1>3, <1>4, <1>5

\* Taking the attach lock evicts who is in the slot, and only shows when somebody is.
LEMMA LockEvicts ==
    ASSUME IInv, NEW c \in Clients, OpenLock(c)
    PROVE  Views!Evict \/ Silent
<1> USE ConstantsAssumption DEF ConstantsAssumption
<1>1. /\ pc[c] = "found" /\ holder = NoClient /\ holder' = c /\ c # NoClient
      /\ told' = IF attach = NoAttach THEN told ELSE [told EXCEPT ![attach] = "stolen"]
      /\ granted' = granted + 1 /\ owner' = [owner EXCEPT ![granted + 1] = c]
      /\ arg' = [arg EXCEPT ![c] = granted + 1] /\ pc' = [pc EXCEPT ![c] = "snap"]
      /\ UNCHANGED <<seq, attach, connVars, snap, out, status, exit>>
  BY DEF OpenLock, AttachLockFree, readerVars
<1>2. UNCHANGED <<seq, Shows, Over, Knows>>
  BY <1>1, Frames
<1>3. UNCHANGED Past
  BY <1>1, ViewerIsInSlot DEF Past
<1>4. UNCHANGED Broken
  <2>1. \A a \in Past : owner'[a] = owner[a]
    BY <1>1, ViewerIsInSlot DEF IInv, TypeOK
  <2> QED
    BY <1>1, <1>3, <2>1 DEF Broken, connVars
<1>5. UNCHANGED Leaving
  <2>1. \A d \in Clients : (pc'[d] = "detach" <=> pc[d] = "detach")
                           /\ (pc[d] = "detach" => arg'[d] = arg[d])
    BY <1>1 DEF IInv, TypeOK
  <2> QED
    BY <2>1 DEF Leaving
<1>6. CASE attach = NoAttach
  BY <1>1, <1>2, <1>3, <1>4, <1>5, <1>6, Frames DEF Silent
<1>7. CASE attach # NoAttach
  <2>1. Viewer = attach /\ attach \in Attaches
    BY <1>1, <1>7, ViewerIsInSlot
  <2>2. told'[attach] # "no"
    BY <1>1, <1>7, <2>1 DEF IInv, TypeOK
  <2>3. Viewer' = NoAttach
    BY <1>1, <2>2 DEF Viewer
  <2> QED
    BY <1>1, <1>2, <1>3, <1>4, <1>5, <1>7, <2>1, <2>3, MapEvict
<1> QED
  BY <1>6, <1>7

\* The snapshot shows a newcomer all but the chunk in flight, and whether the shell
\* has exited.
LEMMA SnapshotGreets ==
    ASSUME IInv, NEW c \in Clients, OpenSnapshot(c)
    PROVE  \E a \in Attaches : Views!Greet(a)
<1> USE ConstantsAssumption DEF ConstantsAssumption
<1>1. /\ pc[c] = "snap" /\ holder = c /\ c # NoClient
      /\ arg[c] = granted /\ granted \in Attaches
      /\ out[granted] = <<>> /\ told[granted] = "no"
  BY DEF OpenSnapshot, IInv, LockInv, ToldInv, TypeOK, Attaches
<1> DEFINE new == [lo |-> erased, hi |-> drawn, status |-> status]
<1>2. /\ snap' = [snap EXCEPT ![granted] = new] /\ pc' = [pc EXCEPT ![c] = "publish"]
      /\ UNCHANGED <<seq, lockVars, arg, idVars, connVars, out, told, status, exit>>
  BY <1>1 DEF OpenSnapshot, readerVars
<1>3. UNCHANGED <<seq, Viewer, Past, Broken, told, Over>>
  BY <1>2, Frames DEF lockVars, idVars, connVars
<1>4. UNCHANGED Leaving
  <2>1. \A d \in Clients : pc'[d] = "detach" <=> pc[d] = "detach"
    BY <1>1, <1>2 DEF IInv, TypeOK
  <2> QED
    BY <1>2, <2>1 DEF Leaving
<1>5. Viewer = NoAttach /\ granted \notin Past
  BY <1>1, ViewerIsInSlot DEF Past
<1>6. drawn \in 0..seq /\ drawn <= seq /\ seq <= drawn + 1
  BY DEF IInv, ReaderInv, TypeOK
<1>7. snap \in [Attaches -> Snapshots]
  BY DEF IInv, TypeOK
<1>8. Shows' = [Shows EXCEPT ![granted] = drawn]
  <2>1. ASSUME NEW a \in Attaches, a # granted
        PROVE  Last(a)' = Last(a)
    BY <1>2, <1>7, <2>1 DEF Last
  <2>2. ASSUME NEW a \in Attaches, a = granted
        PROVE  Last(a)' = drawn
    BY <1>1, <1>2, <1>7, <2>2 DEF Last
  <2> QED
    BY <2>1, <2>2 DEF Shows
<1>9. Knows' = IF Over = "running" THEN Knows ELSE Knows \cup {granted}
  <2>1. Over = "running" <=> status = "Running"
    BY DEF IInv, ExitInv, TypeOK, Over
  <2>2. \A a \in Attaches : snap'[a].status = IF a = granted THEN status ELSE snap[a].status
    BY <1>2, <1>7
  <2>3. CASE status = "Running"
    <3>1. \A a \in Attaches : snap[a].status # "Exited"
      BY <2>3 DEF IInv, OwnInv
    <3> QED
      BY <2>1, <2>2, <2>3, <3>1 DEF Knows
  <2>4. CASE status = "Exited"
    BY <1>1, <2>1, <2>2, <2>4 DEF Knows
  <2> QED
    BY <2>3, <2>4 DEF IInv, TypeOK
<1>10. PICK a \in Attaches : a = granted
  BY <1>1
<1>11. /\ Viewer = NoAttach /\ a \notin Past
       /\ \E n \in 0..seq : n <= seq /\ seq <= n + 1 /\ Shows' = [Shows EXCEPT ![a] = n]
       /\ Knows' = IF Over = "running" THEN Knows ELSE Knows \cup {a}
  BY <1>5, <1>6, <1>8, <1>9, <1>10
<1> QED
  BY <1>3, <1>4, <1>11, MapGreet

\* A newcomer takes the slot with at most the chunk in flight still to come.
LEMMA PublishAdmits ==
    ASSUME IInv, NEW c \in Clients, OpenPublish(c)
    PROVE  \E a \in Attaches : Views!Admit(a)
<1> USE ConstantsAssumption DEF ConstantsAssumption
<1>0. granted # NoAttach /\ c # NoClient
  BY PublishEffect DEF IInv, Attaches, NoAttach
<1>1. /\ granted \in Attaches /\ owner[granted] = c /\ holder = c /\ holder # NoClient
      /\ attach' = granted /\ snap' = snap /\ granted' = granted
      /\ snap[granted].hi \in {seq - 1, seq}
      /\ receiving[c] => out'[granted] = <<>> \/ out'[granted] = <<seq>>
  BY PublishEffect DEF IInv
<1>2. /\ pc[c] = "publish" /\ arg[c] = granted /\ out[granted] = <<>> /\ told[granted] = "no"
  BY <1>1 DEF OpenPublish, IInv, LockInv, ToldInv
<1>3. /\ holder' = NoClient /\ pc' = [pc EXCEPT ![c] = "idle"]
      /\ arg' = [arg EXCEPT ![c] = NoAttach]
      /\ out' = IF receiving[c] THEN [out EXCEPT ![granted] = EventsAfter(base[c])] ELSE out
      /\ UNCHANGED <<seq, owner, granted, receiving, snap, told, status, exit>>
  BY <1>2 DEF OpenPublish, Finish, readerVars, idVars
<1>4. UNCHANGED <<seq, told, Over, Knows>>
  BY <1>3, Frames
<1>5. UNCHANGED Leaving
  <2>1. \A d \in Clients : (pc'[d] = "detach" <=> pc[d] = "detach")
                           /\ (pc[d] = "detach" => arg'[d] = arg[d])
    BY <1>2, <1>3 DEF IInv, TypeOK
  <2> QED
    BY <2>1 DEF Leaving
<1>6. Viewer = NoAttach /\ granted \notin Past /\ Viewer' = granted
  BY <1>0, <1>1, <1>2, <1>3, ViewerIsInSlot DEF Past, Viewer
<1>7. Past' = Past \cup {granted}
  BY <1>1, <1>3 DEF Past, Attaches
<1>8. Broken' = Broken \/ Broken' = Broken \cup {granted}
  BY <1>3, <1>7 DEF Broken
<1>9. Over = "told" => granted \in Knows
  BY <1>1, <1>2 DEF IInv, ExitInv, Over, Knows
<1>10. \E n \in Shows[granted]..seq :
          n <= seq /\ seq <= n + 1 /\ Shows' = [Shows EXCEPT ![granted] = n]
  <2>1. snap[granted].hi \in Nat /\ seq \in Nat
    BY <1>1 DEF IInv, TypeOK, Snapshots
  <2>2. Shows[granted] = snap[granted].hi
    BY <1>1, <1>2 DEF Shows, Last
  <2>3. out \in [Attaches -> Seq(Chunks)]
    BY DEF IInv, TypeOK
  <2>4. out'[granted] = <<>> \/ out'[granted] = <<seq>>
    BY <1>1, <1>2, <1>3
  <2>5. ASSUME NEW a \in Attaches, a # granted
        PROVE  Last(a)' = Last(a)
    BY <1>3, <2>3, <2>5 DEF Last
  <2>6. PICK n : /\ n = IF out'[granted] = <<>> THEN snap[granted].hi ELSE seq
    OBVIOUS
  <2>7. ASSUME NEW a \in Attaches, a = granted
        PROVE  Last(a)' = n
    BY <1>3, <2>4, <2>6, <2>7 DEF Last
  <2>8. Shows' = [Shows EXCEPT ![granted] = n]
    BY <2>5, <2>7 DEF Shows
  <2>9. n \in Shows[granted]..seq /\ n <= seq /\ seq <= n + 1
    BY <1>1, <2>1, <2>2, <2>6
  <2> QED
    BY <2>8, <2>9
<1>11. PICK a \in Attaches : a = granted
  BY <1>1
<1>12. /\ Viewer = NoAttach /\ a \notin Past /\ Viewer' = a
       /\ Over = "told" => a \in Knows
       /\ Past' = Past \cup {a}
       /\ Broken' = Broken \/ Broken' = Broken \cup {a}
  BY <1>6, <1>7, <1>8, <1>9, <1>11
<1>13. \E n \in Shows[a]..seq :
          n <= seq /\ seq <= n + 1 /\ Shows' = [Shows EXCEPT ![a] = n]
  BY <1>10, <1>11
<1> QED
  BY <1>4, <1>5, <1>12, <1>13, MapAdmit

\* Looking a shell up for a detach: the viewer asks to leave, or nothing happens.
LEMMA FindAsks ==
    ASSUME IInv, NEW c \in Clients, DetachRequest(c) \/ TeardownDetach(c)
    PROVE  Views!AskLeave \/ Silent
<1>1. PICK a \in attached[c] : FindAttach(c, a)
  BY DEF DetachRequest, TeardownDetach
<1>2. /\ pc[c] = "idle"
      /\ UNCHANGED <<seq, lockVars, idVars, receiving, sentVars, status, exit>>
  BY DEF DetachRequest, TeardownDetach, readerVars, connVars
<1>3. UNCHANGED <<seq, Viewer, Shows, Past, Broken, told, Over, Knows>>
  BY <1>2, Frames DEF lockVars, idVars, sentVars
<1>4. CASE Registered /\ attach = a
  <2>1. /\ holder = NoClient
        /\ pc' = [pc EXCEPT ![c] = "detach"] /\ arg' = [arg EXCEPT ![c] = a]
    BY <1>1, <1>4 DEF FindAttach, AttachLockFree
  <2>2. a \in Attaches /\ a # NoAttach
    BY DEF IInv, TypeOK, Attaches, NoAttach
  <2>3. Viewer = a
    BY <1>4, <2>1, ViewerIsInSlot
  <2>4. \A d \in Clients : d # c => pc'[d] = pc[d] /\ arg'[d] = arg[d]
    BY <2>1 DEF IInv, TypeOK
  <2>5. pc'[c] = "detach" /\ arg'[c] = a
    BY <2>1 DEF IInv, TypeOK
  <2>6. Leaving' = Leaving \cup {a}
    BY <1>2, <2>2, <2>4, <2>5 DEF Leaving
  <2> QED
    BY <1>3, <2>2, <2>3, <2>6, MapAskLeave
<1>5. CASE ~(Registered /\ attach = a)
  BY <1>1, <1>3, <1>5, Frames DEF FindAttach, Silent
<1> QED
  BY <1>4, <1>5

\* A detach ends the viewing it is for and no other.
LEMMA DetachLeaves ==
    ASSUME IInv, NEW c \in Clients, DetachDo(c)
    PROVE  \E a \in Attaches : Views!Leave(a)
<1>1. /\ pc[c] = "detach" /\ holder = NoClient
      /\ attach' = IF attach = arg[c] THEN NoAttach ELSE attach
      /\ pc' = [pc EXCEPT ![c] = "idle"] /\ arg' = [arg EXCEPT ![c] = NoAttach]
      /\ UNCHANGED <<seq, holder, idVars, receiving, sentVars, status, exit>>
  BY DEF DetachDo, Finish, AttachLockFree, readerVars, connVars
<1>2. UNCHANGED <<seq, Shows, Past, Broken, told, Over, Knows>>
  BY <1>1, Frames DEF idVars, sentVars
<1>3. arg[c] \in Attaches /\ arg[c] # NoAttach /\ owner[arg[c]] = c
  BY <1>1 DEF IInv, OwnInv, Attaches, NoAttach
<1>4. arg[c] \in Leaving
  BY <1>1, <1>3 DEF Leaving
<1>5. Leaving' = Leaving \ {arg[c]}
  <2>1. \A d \in Clients : d # c => pc'[d] = pc[d] /\ arg'[d] = arg[d]
    BY <1>1 DEF IInv, TypeOK
  <2>2. pc'[c] # "detach"
    BY <1>1 DEF IInv, TypeOK
  <2>3. \A d \in Clients : d # c /\ pc[d] = "detach" => arg[d] # arg[c]
    BY <1>3 DEF IInv, OwnInv
  <2> QED
    BY <2>1, <2>2, <2>3 DEF Leaving
<1>6. Viewer = attach
  BY <1>1, ViewerIsInSlot
<1>7. Viewer' = IF Viewer = arg[c] THEN NoAttach ELSE Viewer
  <2>1. CASE attach = arg[c]
    BY <1>1, <1>6, <2>1 DEF Viewer
  <2>2. CASE attach # arg[c]
    BY <1>1, <1>6, <2>2, Frames DEF sentVars
  <2> QED
    BY <2>1, <2>2
<1>8. PICK a \in Attaches : a = arg[c]
  BY <1>3
<1>9. /\ a \in Leaving /\ Leaving' = Leaving \ {a}
      /\ Viewer' = IF Viewer = a THEN NoAttach ELSE Viewer
  BY <1>4, <1>5, <1>7, <1>8
<1> QED
  BY <1>2, <1>9, MapLeave

\* A connection that fails or is closed takes down the lines of its viewings.
LEMMA LineBreaks ==
    ASSUME IInv, NEW c \in Clients, WriterBreaks(c) \/ Close(c)
    PROVE  Views!Break
<1>1. /\ receiving' = [receiving EXCEPT ![c] = FALSE]
      /\ UNCHANGED <<seq, lockVars, handlerVars, idVars, sentVars, status, exit>>
  BY DEF WriterBreaks, Close, readerVars
<1>2. UNCHANGED <<seq, Viewer, Shows, Past, Leaving, told, Over, Knows>>
  BY <1>1, Frames DEF lockVars, handlerVars, idVars, sentVars
<1>3. \A d \in Clients : receiving'[d] => receiving[d]
  BY <1>1 DEF IInv, TypeOK
<1>4. \A a \in Past : owner[a] \in Clients
  BY ViewerIsInSlot
<1>5. Broken' = {a \in Past : ~receiving'[owner[a]]}
  BY <1>1, <1>2 DEF Broken, idVars
<1>6. Broken \subseteq Broken' /\ Broken' \subseteq Past
  BY <1>3, <1>4, <1>5 DEF Broken
<1> QED
  BY <1>2, <1>6, MapBreak

\* mark_exited sets the status ...
LEMMA MarkFinishes ==
    ASSUME IInv, ExitMark
    PROVE  Views!Finish \/ Silent
<1>1. /\ exit = "removed" /\ status' = "Exited" /\ exit' = "marked"
      /\ UNCHANGED <<seq, lockVars, handlerVars, idVars, connVars, sentVars>>
  BY DEF ExitMark, readerVars
<1>2. UNCHANGED <<seq, Viewer, Shows, Past, Broken, Leaving, told, Knows>>
  BY <1>1, Frames DEF lockVars, handlerVars, idVars, connVars, sentVars
<1>3. Over' = "ended" /\ (Over = "running" \/ Over = "ended")
  BY <1>1 DEF Over
<1> QED
  BY <1>2, <1>3, MapFinish DEF Silent

\* ... and tells the client in the slot.
LEMMA TellTells ==
    ASSUME IInv, ExitTell
    PROVE  Views!TellEnd
<1>1. /\ exit = "marked" /\ exit' = "told" /\ holder = NoClient /\ attach' = NoAttach
      /\ told' = IF attach = NoAttach THEN told ELSE [told EXCEPT ![attach] = "exited"]
      /\ UNCHANGED <<seq, holder, handlerVars, idVars, connVars, snap, out, status>>
  BY DEF ExitTell, AttachLockFree, readerVars
<1>2. UNCHANGED <<seq, Shows, Past, Broken, Leaving, Knows>>
  BY <1>1, Frames DEF handlerVars, idVars, connVars
<1>3. Over = "ended" /\ Over' = "told"
  BY <1>1 DEF Over, IInv, ExitInv
<1>4. Viewer = attach /\ Viewer' = NoAttach
  BY <1>1, ViewerIsInSlot DEF Viewer
<1> QED
  BY <1>1, <1>2, <1>3, <1>4, MapTellEnd

\* Everything else moves the reader's hands, the pruner, or a handler that is not
\* yet or no longer concerned with the slot.
LEMMA QuietSteps ==
    ASSUME IInv,
           \/ UNCHANGED vars
           \/ ReaderDraw \/ ReaderLog \/ ExitRemove
           \/ PruneCheck \/ PruneScreen \/ PruneRing
           \/ \E c \in Clients : OpenLookup(c) \/ OpenRefused(c) \/ HangUp(c)
    PROVE  Silent
<1>1. UNCHANGED <<seq, lockVars, arg, idVars, receiving, sentVars, status>>
  BY DEF vars, ReaderDraw, ReaderLog, ExitRemove, PruneCheck, PruneScreen, PruneRing,
         OpenLookup, OpenRefused, HangUp, readerVars, connVars, handlerVars
<1>2. UNCHANGED Over
  <2>1. exit' = exit \/ (exit = "live" /\ exit' = "removed")
    BY DEF vars, ReaderDraw, ReaderLog, ExitRemove, PruneCheck, PruneScreen, PruneRing,
           OpenLookup, OpenRefused, HangUp
  <2> QED
    BY <1>1, <2>1 DEF Over
<1>3. UNCHANGED Leaving
  <2>1. CASE UNCHANGED pc
    BY <1>1, <2>1, Frames
  <2>2. ASSUME NEW c \in Clients, OpenLookup(c) \/ OpenRefused(c)
        PROVE  UNCHANGED Leaving
    <3>1. /\ pc[c] # "detach"
          /\ pc' = [pc EXCEPT ![c] = "found"] \/ pc' = [pc EXCEPT ![c] = "idle"]
      BY <2>2 DEF OpenLookup, OpenRefused
    <3>2. \A d \in Clients : pc'[d] = "detach" <=> pc[d] = "detach"
      BY <3>1 DEF IInv, TypeOK
    <3> QED
      BY <1>1, <3>2 DEF Leaving
  <2>3. UNCHANGED pc \/ \E c \in Clients : OpenLookup(c) \/ OpenRefused(c)
    BY DEF vars, ReaderDraw, ReaderLog, ExitRemove, PruneCheck, PruneScreen, PruneRing,
           HangUp, handlerVars
  <2> QED
    BY <2>1, <2>2, <2>3
<1> QED
  BY <1>1, <1>2, <1>3, Frames DEF Silent, lockVars, idVars, sentVars

\* Every step of the shell is a step of the viewing, or none.
LEMMA MapStep ==
    ASSUME IInv, [Next]_vars
    PROVE  [Views!Next]_(Views!vars)
<1>1. Silent => UNCHANGED Views!vars
  BY DEF Silent, Views!vars, Viewer, Shows, Broken, Leaving, Over, Knows
<1>2. /\ Views!Produce \/ Views!Show \/ Views!Evict \/ Views!Drop \/ Views!AskLeave
         \/ Views!Break \/ Views!Finish \/ Views!TellEnd => Views!Next
      /\ (\E a \in Attaches : Views!Greet(a) \/ Views!Admit(a) \/ Views!Leave(a)) => Views!Next
  BY DEF Views!Next
<1>3. CASE ReaderCount
  BY <1>2, <1>3, CountProduces
<1>4. CASE ReaderDeliver
  BY <1>1, <1>2, <1>4, DeliverShows
<1>5. CASE ExitMark
  BY <1>1, <1>2, <1>5, MarkFinishes
<1>6. CASE ExitTell
  BY <1>2, <1>6, TellTells
<1>7. ASSUME NEW c \in Clients, OpenLock(c)
      PROVE  Views!Next \/ Silent
  BY <1>2, <1>7, LockEvicts
<1>8. ASSUME NEW c \in Clients, OpenSnapshot(c)
      PROVE  Views!Next
  BY <1>2, <1>8, SnapshotGreets
<1>9. ASSUME NEW c \in Clients, OpenPublish(c)
      PROVE  Views!Next
  BY <1>2, <1>9, PublishAdmits
<1>10. ASSUME NEW c \in Clients, DetachRequest(c) \/ TeardownDetach(c)
       PROVE  Views!Next \/ Silent
  BY <1>2, <1>10, FindAsks
<1>11. ASSUME NEW c \in Clients, DetachDo(c)
       PROVE  Views!Next
  BY <1>2, <1>11, DetachLeaves
<1>12. ASSUME NEW c \in Clients, WriterBreaks(c) \/ Close(c)
       PROVE  Views!Next
  BY <1>2, <1>12, LineBreaks
<1>13. CASE \/ UNCHANGED vars
            \/ ReaderDraw \/ ReaderLog \/ ExitRemove
            \/ PruneCheck \/ PruneScreen \/ PruneRing
            \/ \E c \in Clients : OpenLookup(c) \/ OpenRefused(c) \/ HangUp(c)
  BY <1>1, <1>13, QuietSteps
<1> QED
  BY <1>1, <1>3, <1>4, <1>5, <1>6, <1>7, <1>8, <1>9, <1>10, <1>11, <1>12, <1>13, NextCases

\* A live shell keeps what it promises its viewers, for any number of clients and
\* chunks: the locks of record_output, attach, detach and mark_exited make one
\* viewer at a time of them, kept up, told and left alone.
THEOREM ViewingHolds == Spec => ViewingOfShell
<1>1. Init => Views!Init
  BY MapInit
<1>2. IInv /\ [Next]_vars => [Views!Next]_(Views!vars)
  BY MapStep
<1> QED
  BY <1>1, <1>2, Invariance, PTL DEF Spec, ViewingOfShell, Views!Spec
=============================================================================
