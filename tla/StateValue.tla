----------------------------- MODULE StateValue -----------------------------
(***************************************************************************)
(* The value of one state key in faabric's in-memory mode: the copy every  *)
(* host keeps (StateKeyValue, InMemoryStateKeyValue), pulled whole or in   *)
(* chunks, written in place and pushed whole or in part to the copy of the *)
(* master (StateClient, StateServer), through the functions that Wasm code *)
(* is given (wavm/faasm.cpp).                                              *)
(*                                                                         *)
(* A cell stands for the bytes of one streaming chunk; every write stores  *)
(* a number of its own.  unsent[h] remembers, for the properties, what was *)
(* written on h since it was last pushed or overwritten by a pull.         *)
(***************************************************************************)
EXTENDS StateHosts, Naturals, Sequences, FiniteSetsExt, SequencesExt

CONSTANTS
  Master,
  Writer,             \* per host, the thread that writes in the styles with one writer
  NCells, CellsPerPage,
  Chunk,              \* the ranges of cells that calls with an offset are about
  Styles,             \* how the functions that share the key use it
  MaxWrites,          \* bound: writes and appends
  MaxCalls, MaxFaults \* bounds, per style: explicit pulls and locks, RPCs that fail

ASSUME ValueAssumption ==
  /\ Master \in Host
  /\ NCells \in Nat \ {0} /\ CellsPerPage \in Nat \ {0}
  /\ MaxWrites \in Nat
  /\ MaxCalls \in [Styles -> Nat] /\ MaxFaults \in [Styles -> Nat]

Cell == 1..NCells
ASSUME ChunkAssumption == Chunk \subseteq {a..b : a \in Cell, b \in Cell}

(* How functions share a key: two offsets in use have no cell in common    *)
(* (the pull of one would replace what was written at the other), and no   *)
(* RPC fails where parts are pushed (the mask is zeroed before it).        *)
PartStyles == {"offset", "offsetPtr", "mask"}
ASSUME DisciplineAssumption ==
  /\ \A C, D \in Chunk : C = D \/ C \cap D = {}
  /\ \A s \in Styles \cap PartStyles : MaxFaults[s] = 0

PagesOf(C) == {(c - 1) \div CellsPerPage : c \in C}
Page == PagesOf(Cell)

VARIABLES
  style,      \* one of Styles
  kv,         \* per host: memory, pages allocated, flags and masks
  mask,       \* per host: the value of the key that serves as a mask
  appended,   \* the master's appendedData
  pc,         \* per thread: operation, chunks still to be moved, cells it is about
  mapped,     \* per thread: the cells mapped into its Wasm memory
  unsent,     \* per host: cells written since they were pushed or pulled over
  writes, calls, faults

vars == <<style, kv, mask, appended, pc, mapped, unsent, writes, calls, faults>>
counters == <<writes, calls, faults>>

Idle == [op |-> "idle", todo |-> <<>>, of |-> {}]

(* configureSize: nothing allocated, nothing pulled, nothing dirty. *)
FreshKV ==
  [mem |-> [c \in Cell |-> 0], pages |-> {}, fullyAllocated |-> FALSE, fullyPulled |-> FALSE,
   pulledMask |-> {}, dirtyMask |-> {}, isDirty |-> FALSE]

Init ==
  /\ style \in Styles
  /\ kv = [h \in Host |-> FreshKV]
  /\ mask = [h \in Host |-> {}]
  /\ appended = <<>>
  /\ pc = [t \in Thread |-> Idle]
  /\ mapped = [t \in Thread |-> {}]
  /\ unsent = [h \in Host |-> {}]
  /\ writes = 0 /\ calls = 0 /\ faults = 0

-----------------------------------------------------------------------------
(* The locks.  valueMutex of h is held over the RPCs of a pull or a push,  *)
(* between the lock and unlock calls of Wasm code, and, on the master, by  *)
(* the RPC Lock of another host; everything else is one step.              *)
Moving == {"pull", "pullChunk", "push", "partial", "mask", "refresh"}

HoldsFull(t, h) ==
  \/ HostOf[t] = h /\ pc[t].op \in Moving \cup {"writeLocked"}
  \/ h = Master /\ HostOf[t] # Master /\ pc[t].op = "global"

CanShare(h) == \A t \in Thread : ~HoldsFull(t, h)
CanLock(h) == CanShare(h) /\ \A t \in Thread : ~(HostOf[t] = h /\ pc[t].op = "readLocked")

-----------------------------------------------------------------------------

(* What the methods of StateKeyValue do to a key-value object k. *)
AllocateChunk(k, C) ==
  IF k.fullyAllocated THEN k
  ELSE [k EXCEPT !.pages = @ \cup PagesOf(C), !.fullyAllocated = (C = Cell)]

IsChunkPulled(k, C) == k.fullyPulled \/ C \subseteq k.pulledMask

DoSet(k, v) == [AllocateChunk(k, Cell) EXCEPT !.mem = [c \in Cell |-> v], !.fullyPulled = TRUE]

DoSetChunk(k, C, val) ==
  [AllocateChunk(k, C) EXCEPT !.mem = [c \in Cell |-> IF c \in C THEN val[c] ELSE @[c]]]

(* Mutant: flagged, but not in the mask. *)
FlagOnly(k, C) == [k EXCEPT !.isDirty = TRUE]
MarkDirtyChunk(k, C) == [k EXCEPT !.isDirty = TRUE, !.dirtyMask = @ \cup C]

GetAllChunks == [c \in Cell |-> {c}]

(* The loop over the mask: startIdx while a run of dirty cells is open. *)
ScanCell(s, i, D) ==
  IF i \in D THEN [s EXCEPT !.startIdx = IF @ = 0 THEN i ELSE @]
  ELSE IF s.startIdx = 0 THEN s
  ELSE [chunks |-> Append(s.chunks, s.startIdx..(i - 1)), startIdx |-> 0]

ScanNoTail(D) ==
  LET scan[i \in 0..NCells] ==
        IF i = 0 THEN [chunks |-> <<>>, startIdx |-> 0] ELSE ScanCell(scan[i - 1], i, D)
  IN  scan[NCells]

NoFinalChunk(D) == ScanNoTail(D).chunks

GetDirtyChunks(D) ==
  LET s == ScanNoTail(D)
  IN  IF s.startIdx = 0 THEN s.chunks ELSE Append(s.chunks, s.startIdx..NCells)

-----------------------------------------------------------------------------
(* Pulls.  A lazy pull of what is there does nothing, so it is no step. *)
Remote(h, chunks) == IF h = Master THEN <<>> ELSE chunks

PullStep(t, op, C, chunks) ==
  LET h == HostOf[t] IN
  /\ CanLock(h)
  /\ kv' = [kv EXCEPT ![h] = AllocateChunk(@, C)]
  /\ pc' = [pc EXCEPT ![t] = [op |-> op, todo |-> Remote(h, chunks), of |-> C]]

PullAgain(t, lazy) == PullStep(t, "pull", Cell, GetAllChunks)

DoPull(t, lazy) ==
  /\ ~(lazy /\ kv[HostOf[t]].fullyPulled)
  /\ PullStep(t, "pull", Cell, GetAllChunks)

DoPullChunk(t, C) ==
  /\ ~IsChunkPulled(kv[HostOf[t]], C)
  /\ PullStep(t, "pullChunk", C, <<C>>)

(* The master serves a chunk with getChunk, a lazy pull of its own. *)
ServePull(C) == [AllocateChunk(kv[Master], C) EXCEPT !.pulledMask = @ \cup C]

PullChunks(t) ==
  LET h == HostOf[t]
      C == Head(pc[t].todo)
  IN  /\ pc[t].op \in {"pull", "pullChunk", "refresh"} /\ pc[t].todo # <<>>
      /\ CanLock(Master)
      /\ kv' = [kv EXCEPT ![Master] = ServePull(C),
                          ![h].mem = [c \in Cell |-> IF c \in C THEN kv[Master].mem[c] ELSE @[c]]]
      /\ unsent' = [unsent EXCEPT ![h] = @ \ C]
      /\ pc' = [pc EXCEPT ![t].todo = Tail(@)]
      /\ UNCHANGED <<style, mask, appended, mapped, counters>>

Pulled(k, op, C) ==
  IF op = "pull" THEN [k EXCEPT !.fullyPulled = TRUE] ELSE [k EXCEPT !.pulledMask = @ \cup C]

PullDone(t) ==
  /\ pc[t].op \in {"pull", "pullChunk"} /\ pc[t].todo = <<>>
  /\ kv' = [kv EXCEPT ![HostOf[t]] = Pulled(@, pc[t].op, pc[t].of)]
  /\ pc' = [pc EXCEPT ![t] = Idle]
  /\ UNCHANGED <<style, mask, appended, mapped, unsent, counters>>

-----------------------------------------------------------------------------
(* Pushes: the flag is looked at, the mask of a partial push collected and *)
(* zeroed, then every chunk sent as it is in memory at that moment.        *)
PushFull(t) ==
  LET h == HostOf[t] IN
  /\ kv[h].isDirty /\ CanLock(h)
  /\ pc' = [pc EXCEPT ![t] = [op |-> "push", todo |-> Remote(h, GetAllChunks), of |-> Cell]]
  /\ UNCHANGED <<kv, mask>>

DoPushPartial(t, op, D) ==
  LET h == HostOf[t] IN
  /\ kv[h].isDirty /\ CanLock(h)
  /\ pc' = [pc EXCEPT ![t] = [op |-> op, todo |-> Remote(h, GetDirtyChunks(D)), of |-> D]]

PushPartial(t) ==
  LET h == HostOf[t] IN
  /\ DoPushPartial(t, "partial", kv[h].dirtyMask)
  /\ kv' = [kv EXCEPT ![h].dirtyMask = {}]
  /\ UNCHANGED mask

PushPartialMask(t) ==
  LET h == HostOf[t] IN
  /\ DoPushPartial(t, "mask", mask[h])
  /\ mask' = [mask EXCEPT ![h] = {}]
  /\ UNCHANGED kv

(* The master stores a part it is sent with setChunk. *)
ServeWhole(C, val) == MarkDirtyChunk(DoSetChunk(kv[Master], Cell, val), C)

ServePush(C, val) == MarkDirtyChunk(DoSetChunk(kv[Master], C, val), C)

PushChunks(t) ==
  LET h == HostOf[t]
      C == Head(pc[t].todo)
  IN  /\ pc[t].op \in {"push", "partial", "mask"} /\ pc[t].todo # <<>>
      /\ CanLock(Master)
      /\ kv' = [kv EXCEPT ![Master] = ServePush(C, kv[h].mem)]
      /\ unsent' = [unsent EXCEPT ![h] = @ \ C]
      /\ pc' = [pc EXCEPT ![t].todo = Tail(@)]
      /\ UNCHANGED <<style, mask, appended, mapped, counters>>

NotDirty(k, op) ==
  [k EXCEPT !.isDirty = FALSE, !.dirtyMask = IF op = "push" THEN {} ELSE @]

(* A partial push of a value that is wholly allocated ends with a pull. *)
Refreshes(t) == pc[t].op \in {"partial", "mask"} /\ kv[HostOf[t]].fullyAllocated

PushDone(t) ==
  LET h == HostOf[t] IN
  /\ pc[t].op \in {"push", "partial", "mask", "refresh"} /\ pc[t].todo = <<>>
  /\ IF Refreshes(t)
     THEN /\ pc' = [pc EXCEPT ![t] = [op |-> "refresh", todo |-> Remote(h, GetAllChunks), of |-> @.of]]
          /\ UNCHANGED kv
     ELSE /\ kv' = [kv EXCEPT ![h] = NotDirty(@, pc[t].op)]
          /\ pc' = [pc EXCEPT ![t] = Idle]
  /\ UNCHANGED <<style, mask, appended, mapped, unsent, counters>>

(* An RPC fails, CHECK_RPC throws, the lock is released on the way out. *)
RpcFails(t) ==
  /\ pc[t].op \in Moving /\ pc[t].todo # <<>> /\ faults < MaxFaults[style]
  /\ faults' = faults + 1
  /\ pc' = [pc EXCEPT ![t] = Idle]
  /\ UNCHANGED <<style, kv, mask, appended, mapped, unsent, writes, calls>>

-----------------------------------------------------------------------------
(* The calls of Wasm functions, by the style in which the functions that   *)
(* share the key use it.                                                   *)
In(S) == style \in S
Free(t) == pc[t].op = "idle"
Calling(t, S) == Free(t) /\ In(S)
Fill(v) == [c \in Cell |-> v]

(* Written in place on h: the next number; the master has nothing to send. *)
Written(h, C) ==
  /\ writes < MaxWrites /\ writes' = writes + 1
  /\ unsent' = [unsent EXCEPT ![h] = IF h = Master THEN @ ELSE @ \cup C]
  /\ UNCHANGED <<style, appended, calls, faults>>

NothingWritten == UNCHANGED <<style, appended, unsent, counters>>

ReadState(t) ==
  /\ Calling(t, {"set"})
  /\ DoPull(t, TRUE)
  /\ NothingWritten /\ UNCHANGED <<mask, mapped>>

WriteState(t) ==
  LET h == HostOf[t] IN
  /\ Calling(t, {"set"}) /\ CanLock(h)
  /\ kv' = [kv EXCEPT ![h] = [DoSet(@, writes + 1) EXCEPT !.isDirty = TRUE]]
  /\ Written(h, Cell)
  /\ UNCHANGED <<mask, mapped, pc>>

WriteStateFromFile(t) == WriteState(t)

ReadStateOffset(t, C) ==
  /\ Calling(t, {"offset"})
  /\ DoPullChunk(t, C)
  /\ NothingWritten /\ UNCHANGED <<mask, mapped>>

(* A chunk is read before it is written. *)
WriteStateOffset(t, C) ==
  LET h == HostOf[t] IN
  /\ Calling(t, {"offset"}) /\ CanLock(h)
  /\ IsChunkPulled(kv[h], C)
  /\ kv' = [kv EXCEPT ![h] = MarkDirtyChunk(DoSetChunk(@, C, Fill(writes + 1)), C)]
  /\ Written(h, C)
  /\ UNCHANGED <<mask, mapped, pc>>

(* The pages are allocated, which a pull does too, and mapped. *)
MapSharedStateMemory(t, C) == mapped' = [mapped EXCEPT ![t] = @ \cup C]

ReadStatePtr(t) ==
  LET h == HostOf[t] IN
  /\ Calling(t, {"ptr", "mask"})
  /\ MapSharedStateMemory(t, Cell)
  /\ IF kv[h].fullyPulled
     THEN mapped[t] # Cell /\ CanLock(h) /\ UNCHANGED <<kv, pc>>
     ELSE DoPull(t, TRUE)
  /\ NothingWritten /\ UNCHANGED mask

ReadStateOffsetPtr(t, C) ==
  LET h == HostOf[t] IN
  /\ Calling(t, {"offsetPtr"})
  /\ MapSharedStateMemory(t, C)
  /\ IF IsChunkPulled(kv[h], C)
     THEN ~(C \subseteq mapped[t]) /\ CanLock(h) /\ UNCHANGED <<kv, pc>>
     ELSE DoPullChunk(t, C)
  /\ NothingWritten /\ UNCHANGED mask

(* Wasm code writes through the pointer it was given, without a lock, ...  *)
(* In the styles that push in part one thread of the host does.            *)
OneWriter(t) == In({"offsetPtr", "mask"}) => t = Writer[HostOf[t]]

WriteThroughPtr(t, c) ==
  LET h == HostOf[t] IN
  /\ Calling(t, {"ptr", "offsetPtr", "mask"}) /\ OneWriter(t)
  /\ c \in mapped[t] /\ IsChunkPulled(kv[h], {c})  \* the call has returned it
  /\ kv' = [kv EXCEPT ![h].mem[c] = writes + 1]
  /\ mask' = [mask EXCEPT ![h] = IF style = "mask" THEN @ \cup {c} ELSE @]
  /\ pc' = [pc EXCEPT ![t] = [Idle EXCEPT !.op = "wrote", !.of = {c}]]
  /\ Written(h, {c})
  /\ UNCHANGED mapped

(* ... and flags what it wrote. *)
FlagStateDirty(t) ==
  LET h == HostOf[t] IN
  /\ pc[t].op = "wrote" /\ In({"ptr", "mask"}) /\ CanShare(h)
  /\ kv' = [kv EXCEPT ![h].isDirty = TRUE]
  /\ pc' = [pc EXCEPT ![t] = Idle]
  /\ NothingWritten /\ UNCHANGED <<mask, mapped>>

FlagStateOffsetDirty(t) ==
  LET h == HostOf[t] IN
  /\ pc[t].op = "wrote" /\ In({"offsetPtr"}) /\ CanShare(h)
  /\ kv' = [kv EXCEPT ![h] = MarkDirtyChunk(@, pc[t].of)]
  /\ pc' = [pc EXCEPT ![t] = Idle]
  /\ NothingWritten /\ UNCHANGED <<mask, mapped>>

PushState(t) ==
  /\ Calling(t, {"set", "ptr"}) /\ PushFull(t)
  /\ NothingWritten /\ UNCHANGED mapped

PushStatePartial(t) ==
  /\ Calling(t, {"offset", "offsetPtr"}) /\ OneWriter(t) /\ PushPartial(t)
  /\ NothingWritten /\ UNCHANGED mapped

PushStatePartialMask(t) ==
  /\ Calling(t, {"mask"}) /\ OneWriter(t) /\ PushPartialMask(t)
  /\ NothingWritten /\ UNCHANGED mapped

(* An explicit pull replaces whatever is there: it is asked for when this  *)
(* host has nothing to send.                                               *)
PullState(t) ==
  /\ Calling(t, {"set", "offset"}) /\ unsent[HostOf[t]] = {}
  /\ calls < MaxCalls[style] /\ calls' = calls + 1
  /\ DoPull(t, FALSE)
  /\ UNCHANGED <<style, mask, appended, mapped, unsent, writes, faults>>

-----------------------------------------------------------------------------
(* Appended values are kept by the master; another host appends and reads  *)
(* with an RPC made under its own lock.                                    *)
AppendToRemote(v) == appended' = Append(appended, v)
PullAppended(n) == SubSeq(appended, 1, n)
ServeAppend(t) == HostOf[t] # Master => CanLock(Master)
ClearAppendedFromRemote == appended' = <<>>

AppendState(t) ==
  /\ Calling(t, {"append"}) /\ CanLock(HostOf[t]) /\ ServeAppend(t)
  /\ writes < MaxWrites /\ writes' = writes + 1
  /\ AppendToRemote(writes')
  /\ UNCHANGED <<style, kv, mask, pc, mapped, unsent, calls, faults>>

(* nValues of them; at() throws when there are fewer.  On the master they  *)
(* are copied under a shared lock, for another host under no lock.         *)
ReadAppendedState(t, n) ==
  /\ Calling(t, {"append"}) /\ CanShare(HostOf[t])
  /\ n <= Len(appended)
  /\ pc' = [pc EXCEPT ![t] = [op |-> "appended", todo |-> PullAppended(n), of |-> {}]]
  /\ UNCHANGED <<kv, mask, mapped>> /\ NothingWritten

UseAppended(t) ==
  /\ pc[t].op = "appended"
  /\ pc' = [pc EXCEPT ![t] = Idle]
  /\ UNCHANGED <<kv, mask, mapped>> /\ NothingWritten

ClearAppendedState(t) ==
  /\ Calling(t, {"append"}) /\ CanShare(HostOf[t]) /\ CanShare(Master)
  /\ appended # <<>> /\ ClearAppendedFromRemote
  /\ UNCHANGED <<style, kv, mask, pc, mapped, unsent, counters>>

-----------------------------------------------------------------------------
(* Locks that Wasm code takes and releases with calls of their own. *)
Acquire(t, op) ==
  /\ Free(t) /\ calls < MaxCalls[style] /\ calls' = calls + 1
  /\ pc' = [pc EXCEPT ![t] = [Idle EXCEPT !.op = op]]
  /\ UNCHANGED <<style, kv, mask, appended, mapped, unsent, writes, faults>>

LockStateRead(t) == CanShare(HostOf[t]) /\ Acquire(t, "readLocked")
LockStateWrite(t) == CanLock(HostOf[t]) /\ Acquire(t, "writeLocked")

(* On the master globalLock; elsewhere the RPC Lock, which takes the       *)
(* valueMutex of the master.                                               *)
GlobalFree(h) ==
  IF h = Master THEN \A t \in Thread : ~(HostOf[t] = Master /\ pc[t].op = "global")
  ELSE CanLock(Master)

LockStateGlobal(t) == GlobalFree(HostOf[t]) /\ Acquire(t, "global")

Release(t, op) ==
  /\ pc[t].op = op
  /\ pc' = [pc EXCEPT ![t] = Idle]
  /\ UNCHANGED <<style, kv, mask, appended, mapped, unsent, counters>>

UnlockStateRead(t) == Release(t, "readLocked")
UnlockUnderLock(t) == CanLock(HostOf[t]) /\ Release(t, "writeLocked")
UnlockStateWrite(t) == Release(t, "writeLocked")
UnlockStateGlobal(t) == Release(t, "global")

-----------------------------------------------------------------------------
Call(t) ==
  \/ ReadState(t) \/ WriteState(t) \/ WriteStateFromFile(t)
  \/ \E C \in Chunk : ReadStateOffset(t, C) \/ WriteStateOffset(t, C) \/ ReadStateOffsetPtr(t, C)
  \/ ReadStatePtr(t) \/ \E c \in Cell : WriteThroughPtr(t, c)
  \/ PushState(t) \/ PushStatePartial(t) \/ PushStatePartialMask(t) \/ PullState(t)
  \/ AppendState(t) \/ ClearAppendedState(t) \/ \E n \in 1..MaxWrites : ReadAppendedState(t, n)
  \/ LockStateRead(t) \/ LockStateWrite(t) \/ LockStateGlobal(t)

(* What a thread that is in the middle of something does next. *)
Continue(t) ==
  \/ PullChunks(t) \/ PullDone(t) \/ PushChunks(t) \/ PushDone(t)
  \/ FlagStateDirty(t) \/ FlagStateOffsetDirty(t) \/ UseAppended(t)
  \/ UnlockStateRead(t) \/ UnlockStateWrite(t) \/ UnlockStateGlobal(t)

Next == \E t \in Thread : Call(t) \/ Continue(t) \/ RpcFails(t)

Spec == Init /\ [][Next]_vars
FairSpec == Spec /\ \A t \in Thread : WF_vars(Continue(t))

-----------------------------------------------------------------------------
(* What the next push from h will send. *)
WillSend(h) ==
  IF ~kv[h].isDirty THEN {}
  ELSE IF style \in {"offset", "offsetPtr"} THEN kv[h].dirtyMask
  ELSE IF style = "mask" THEN mask[h]
  ELSE Cell

OfThreads(h, ops) == UNION {pc[t].of : t \in {u \in Thread : HostOf[u] = h /\ pc[u].op \in ops}}
BeingSent(h) ==
  UNION {UNION ToSet(pc[t].todo) : t \in {u \in Thread : HostOf[u] = h /\ pc[u].op \in {"push", "partial", "mask"}}}

(* The memory of pages that are not allocated cannot be read: what is      *)
(* flagged as pulled, and what a push is about to send, is allocated.      *)
ReadsAllocated(h) ==
  /\ kv[h].fullyPulled => kv[h].pages = Page
  /\ PagesOf(kv[h].pulledMask \cup BeingSent(h)) \subseteq kv[h].pages

(* What was written on a host and has not reached the master is about to   *)
(* be flagged, is being sent, or will be sent by the next push: no flag or *)
(* mask is cleared under a write.  And what is sent is memory that may be  *)
(* read (StateKeyValue.cpp:418-440, 511-544).                              *)
UnsentWillBePushed ==
  \A h \in Host :
    /\ unsent[h] \subseteq OfThreads(h, {"wrote"}) \cup BeingSent(h) \cup WillSend(h)
    /\ ReadsAllocated(h)

(* The chunks of a partial push are the maximal runs of dirty cells, in    *)
(* order (StateKeyValue.cpp:595-632).                                      *)
Ranges == {a..b : a \in Cell, b \in Cell} \ {{}}
Runs(D) ==
  {C \in Ranges : /\ C \subseteq D
                 /\ \A c \in D \ C : c + 1 \notin C /\ c - 1 \notin C}

ChunksAreRuns ==
  \A h \in Host :
    LET D == kv[h].dirtyMask \cup mask[h]
        chunks == GetDirtyChunks(D)
    IN  /\ ToSet(chunks) = Runs(D) /\ Len(chunks) = Cardinality(Runs(D))
        /\ \A i, j \in DOMAIN chunks : i < j => Max(chunks[i]) < Min(chunks[j])

(* A lazy read, or the pull at the end of a partial push, never replaces   *)
(* what was written on this host and not pushed yet.                       *)
LocalWriteKept ==
  [][\A h \in Host \ {Master} : \A c \in unsent[h] :
       kv'[h].mem[c] # kv[h].mem[c] => writes' = writes + 1]_vars

(* A cell of the master changes only by a write on the master or by the    *)
(* push of a host that wrote this very cell: a push in part leaves what    *)
(* others wrote elsewhere.                                                 *)
InPart == style \in PartStyles
SentNow(c) == \E h \in Host : c \in unsent[h] /\ c \notin unsent'[h]
PushesOwnWrites ==
  [][\A c \in Cell : InPart /\ kv'[Master].mem[c] # kv[Master].mem[c] =>
                     writes' = writes + 1 \/ SentNow(c)]_vars

(* Every call returns: RPCs made under a lock wait for the master's lock,  *)
(* never for each other.                                                   *)
Returns == \A t \in Thread : pc[t].op # "idle" ~> pc[t].op = "idle"
=============================================================================
