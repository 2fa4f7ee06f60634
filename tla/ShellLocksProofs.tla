-------------------------- MODULE ShellLocksProofs ---------------------------
(* What ShellLocks guarantees for any number of handlers, any requests, any    *)
(* length of a message and any program.                                      *)
EXTENDS ShellLocks, TLAPS

\* Who writes holds the lock of an open master.
WritersHoldMaster == \A h \in Handlers : pc[h] = "write" => master = h /\ open

\* A resize that nobody overlaps is alone, and has set what it has passed.
LoneResize ==
    ~overlapped => /\ \A g, h \in Resizers : g = h
                   /\ \A h \in Resizers : pty = h /\ (pc[h] = "size" => grid = h)

IInv == TypeOK /\ WritersHoldMaster /\ LoneResize /\ SizesAgree

\* The actions by what they leave alone: the steps of requests that touch no size and
\* no master lock ...
Elsewhere(h) ==
    \/ Ask(h) \/ FindAttach(h) \/ CheckAttach(h) \/ OpenLookup(h) \/ OpenLock(h)
    \/ OpenPublish(h) \/ ListStates(h) \/ ListInfo(h) \/ KillLookup(h)
    \/ CleanupRemove(h) \/ MarkExited(h)
\* ... the three of write_input, and those of the threads and of the program.
Write(h) == WriteLock(h) \/ WriteByte(h) \/ WriteReturns(h)
Threads  == ReaderReads \/ ReaderDelivers \/ ProgramReads \/ ProgramPrints \/ ProgramEnds

\* Every step is of one of these kinds.
LEMMA Kinds ==
    ASSUME Next
    PROVE  \/ \E h \in Handlers : \/ Elsewhere(h) \/ Write(h) \/ CloseHandles(h)
                                  \/ ResizePty(h) \/ ResizeGrid(h) \/ ResizeSize(h)
           \/ Threads
<1> QED
  BY DEF Next, Serves, Elsewhere, Write, Threads

LEMMA InitIInv == Init => IInv
<1> SUFFICES ASSUME Init PROVE IInv
  OBVIOUS
<1>1. TypeOK
  <2>1. 0 \in 0..MsgLen /\ 0 \in 0..InputCap /\ 0 \in 0..OutputCap
    BY ShellLocksAssumption DEF ShellLocksAssumption
  <2>2. registered \in BOOLEAN /\ open \in BOOLEAN /\ overlapped \in BOOLEAN
    BY Zenon DEF Init
  <2> QED
    BY <2>1, <2>2 DEF Init, TypeOK
<1>2. WritersHoldMaster
  BY DEF Init, WritersHoldMaster
<1>3. LoneResize /\ SizesAgree
  BY DEF Init, LoneResize, SizesAgree, Resizers
<1> QED
  BY <1>1, <1>2, <1>3 DEF IInv

\* The types of the variables.
LEMMA TypeStep ==
    ASSUME TypeOK, [Next]_vars
    PROVE  TypeOK'
<1> USE ShellLocksAssumption DEF ShellLocksAssumption, TypeOK, Requests, Goto, Reply,
        lockVars, shellVars, sizeVars, ptyVars, handlers
<1>1. ASSUME NEW h \in Handlers, Ask(h) PROVE TypeOK'
  BY <1>1 DEF Ask
<1>2. ASSUME NEW h \in Handlers, FindAttach(h) \/ OpenLookup(h) \/ ListStates(h)
      PROVE  TypeOK'
  BY <1>2 DEF FindAttach, OpenLookup, ListStates, Lookup
<1>3. ASSUME NEW h \in Handlers, KillLookup(h) PROVE TypeOK'
  BY <1>3 DEF KillLookup, Lookup
<1>4. ASSUME NEW h \in Handlers, CheckAttach(h) \/ OpenLock(h) \/ OpenPublish(h)
                                 \/ ListInfo(h)
      PROVE  TypeOK'
  BY <1>4 DEF CheckAttach, OpenLock, OpenPublish, ListInfo
<1>5. ASSUME NEW h \in Handlers, CleanupRemove(h) \/ MarkExited(h) \/ CloseHandles(h)
      PROVE  TypeOK'
  <2>1. CASE CleanupRemove(h)
    <3>1. registered' \in BOOLEAN
      BY <2>1, Zenon DEF CleanupRemove
    <3> QED
      BY <2>1, <3>1 DEF CleanupRemove
  <2>2. CASE MarkExited(h)
    BY <2>2 DEF MarkExited
  <2>3. CASE CloseHandles(h)
    <3>1. open' \in BOOLEAN
      BY <2>3, Zenon DEF CloseHandles
    <3> QED
      BY <2>3, <3>1 DEF CloseHandles
  <2> QED
    BY <1>5, <2>1, <2>2, <2>3
<1>6. ASSUME NEW h \in Handlers, Write(h) PROVE TypeOK'
  <2>1. CASE WriteLock(h)
    BY <2>1 DEF WriteLock
  <2>2. CASE WriteByte(h)
    BY <2>2 DEF WriteByte
  <2>3. CASE WriteReturns(h)
    BY <2>3 DEF WriteReturns
  <2> QED
    BY <1>6, <2>1, <2>2, <2>3 DEF Write
<1>7. ASSUME NEW h \in Handlers, ResizePty(h) \/ ResizeGrid(h) \/ ResizeSize(h)
      PROVE  TypeOK'
  <2>1. CASE ResizePty(h)
    <3>1. CASE overlapped' = (Resizers # {}) /\ pty' = h /\ Goto(h, "grid")
               /\ UNCHANGED <<job, left>>
      <4>1. overlapped' \in BOOLEAN
        BY <3>1, Zenon
      <4> QED
        BY <2>1, <3>1, <4>1 DEF ResizePty
    <3>2. CASE Resized(h) /\ UNCHANGED <<pty, overlapped>>
      BY <2>1, <3>2 DEF ResizePty, Resized
    <3> QED
      BY <2>1, <3>1, <3>2 DEF ResizePty
  <2>2. CASE ResizeGrid(h)
    BY <2>2 DEF ResizeGrid
  <2>3. CASE ResizeSize(h)
    BY <2>3 DEF ResizeSize, Resized
  <2> QED
    BY <1>7, <2>1, <2>2, <2>3
<1>8. CASE Threads
  BY <1>8 DEF Threads, ReaderReads, ReaderDelivers, ProgramReads, ProgramPrints,
              ProgramEnds
<1>9. CASE UNCHANGED vars
  BY <1>9 DEF vars
<1> QED
  BY <1>1, <1>2, <1>3, <1>4, <1>5, <1>6, <1>7, <1>8, <1>9, Kinds DEF Elsewhere

\* A step that is of none of the kinds below neither begins nor ends a write or a resize.
LEMMA ElsewhereKeeps ==
    ASSUME TypeOK, NEW h \in Handlers, Elsewhere(h)
    PROVE  /\ UNCHANGED <<master, open, pty, grid, size, overlapped>>
           /\ \A g \in Handlers : /\ pc'[g] = "write" <=> pc[g] = "write"
                                  /\ pc'[g] = "grid" <=> pc[g] = "grid"
                                  /\ pc'[g] = "size" <=> pc[g] = "size"
<1> USE DEF TypeOK, Goto, Reply, lockVars, shellVars, sizeVars, ptyVars, Lookup
<1>1. CASE Ask(h) \/ FindAttach(h) \/ CheckAttach(h)
  BY <1>1 DEF Ask, FindAttach, CheckAttach
<1>2. CASE OpenLookup(h) \/ OpenLock(h) \/ OpenPublish(h)
  BY <1>2 DEF OpenLookup, OpenLock, OpenPublish
<1>3. CASE ListStates(h) \/ ListInfo(h) \/ KillLookup(h)
  BY <1>3 DEF ListStates, ListInfo, KillLookup
<1>4. CASE CleanupRemove(h) \/ MarkExited(h)
  BY <1>4 DEF CleanupRemove, MarkExited
<1> QED
  BY <1>1, <1>2, <1>3, <1>4 DEF Elsewhere

LEMMA WriteStep ==
    ASSUME TypeOK, WritersHoldMaster, [Next]_vars
    PROVE  WritersHoldMaster'
<1> USE ShellLocksAssumption DEF ShellLocksAssumption, WritersHoldMaster
<1>1. ASSUME NEW h \in Handlers, Elsewhere(h) PROVE WritersHoldMaster'
  BY <1>1, ElsewhereKeeps
<1>2. ASSUME NEW h \in Handlers, Write(h) PROVE WritersHoldMaster'
  BY <1>2 DEF TypeOK, Write, WriteLock, WriteByte, WriteReturns, Goto, Reply, lockVars,
              shellVars
<1>3. ASSUME NEW h \in Handlers, CloseHandles(h) PROVE WritersHoldMaster'
  BY <1>3 DEF TypeOK, CloseHandles, Goto, Reply
<1>4. ASSUME NEW h \in Handlers, ResizePty(h) \/ ResizeGrid(h) \/ ResizeSize(h)
      PROVE  WritersHoldMaster'
  BY <1>4 DEF TypeOK, ResizePty, ResizeGrid, ResizeSize, Resized, Goto, Reply, lockVars,
              shellVars
<1>5. CASE Threads
  BY <1>5 DEF Threads, ReaderReads, ReaderDelivers, ProgramReads, ProgramPrints,
              ProgramEnds, lockVars, shellVars, handlers
<1>6. CASE UNCHANGED vars
  BY <1>6 DEF vars, lockVars, shellVars, handlers
<1> QED
  BY <1>1, <1>2, <1>3, <1>4, <1>5, <1>6, Kinds

LEMMA ResizeStep ==
    ASSUME TypeOK, LoneResize, SizesAgree, [Next]_vars
    PROVE  LoneResize' /\ SizesAgree'
<1> USE DEF LoneResize, SizesAgree, Resizers
<1>1. ASSUME NEW h \in Handlers, Elsewhere(h) PROVE LoneResize' /\ SizesAgree'
  BY <1>1, ElsewhereKeeps
<1>2. ASSUME NEW h \in Handlers, Write(h) \/ CloseHandles(h)
      PROVE  LoneResize' /\ SizesAgree'
  BY <1>2 DEF TypeOK, Write, WriteLock, WriteByte, WriteReturns, CloseHandles, Goto,
              Reply, sizeVars
<1>3. ASSUME NEW h \in Handlers, ResizePty(h) PROVE LoneResize' /\ SizesAgree'
  BY <1>3 DEF TypeOK, ResizePty, Resized, Goto, Reply
<1>4. ASSUME NEW h \in Handlers, ResizeGrid(h) PROVE LoneResize' /\ SizesAgree'
  BY <1>4 DEF TypeOK, ResizeGrid, Goto
<1>5. ASSUME NEW h \in Handlers, ResizeSize(h) PROVE LoneResize' /\ SizesAgree'
  BY <1>5 DEF TypeOK, ResizeSize, Resized, Goto, Reply
<1>6. CASE Threads
  BY <1>6 DEF Threads, ReaderReads, ReaderDelivers, ProgramReads, ProgramPrints,
              ProgramEnds, sizeVars, handlers
<1>7. CASE UNCHANGED vars
  BY <1>7 DEF vars, sizeVars, handlers
<1> QED
  BY <1>1, <1>2, <1>3, <1>4, <1>5, <1>6, <1>7, Kinds

LEMMA Invariant == Spec => []IInv
<1>1. ASSUME IInv, [Next]_vars PROVE IInv'
  BY <1>1, TypeStep, WriteStep, ResizeStep DEF IInv
<1> QED
  BY <1>1, InitIInv, PTL DEF Spec

\* Every variable keeps its type.
THEOREM TypeCorrect == Spec => []TypeOK
<1>1. IInv => TypeOK
  BY DEF IInv
<1> QED
  BY <1>1, Invariant, PTL

\* write_input keeps the lock for the whole of a message, so no two are mixed.
THEOREM InputWhole == Spec => []MessagesWhole
<1>1. IInv => MessagesWhole
  BY DEF IInv, WritersHoldMaster, MessagesWhole
<1> QED
  BY <1>1, Invariant, PTL

\* close_handles waits for the writer: no descriptor is written to after it was closed.
THEOREM NoWriteAfterClose == Spec => []WritesToOpenMaster
<1>1. IInv => WritesToOpenMaster
  BY DEF IInv, WritersHoldMaster, WritesToOpenMaster
<1> QED
  BY <1>1, Invariant, PTL

\* Three locks keep the three sizes the same as long as resizes do not overlap.
THEOREM SizesInSync == Spec => []SizesAgree
<1>1. IInv => SizesAgree
  BY DEF IInv
<1> QED
  BY <1>1, Invariant, PTL
=============================================================================
