------------------------------ MODULE Threads ------------------------------
(***************************************************************************)
(* The threads of a Wasm function (threads.cpp, the pthread pool of        *)
(* WasmModule, MutexManager): pthread_create asks the scheduler where a    *)
(* thread is to run and either gives it to the pool of its module or, with *)
(* a snapshot of the memory, to another host; the join waits for the one   *)
(* or the other.  The OS thread of a Faaslet runs one call after another,  *)
(* each on a fresh module, and its thread_local records outlive a call.    *)
(*                                                                         *)
(* OS thread 0 runs the calls; 1..PoolSize are the pool of the module of   *)
(* the call that runs.  What the scheduler decides is its own              *)
(* specification's matter: any thread may stay here or leave.              *)
(***************************************************************************)
EXTENDS Integers, SequencesExt, Functions, FiniteSets

CONSTANTS
  Ptr,        \* addresses of pthread_t variables
  Mutex,      \* mutex ids the function uses
  PoolSize,   \* threadPoolSize
  StackTops,  \* threadStacks of a fresh module
  Styles,     \* sets of things that functions do: "chain", "nest", "grow", "mutex", "abandon"
  MaxCalls, MaxThreads, MaxLocks

ASSUME PoolAssumption ==
  /\ PoolSize \in Nat \ {0} /\ {MaxCalls, MaxThreads, MaxLocks} \subseteq Nat
  /\ StackTops \in Seq(Nat) /\ Len(StackTops) = PoolSize

(* What a call leaves in the thread_local records would meet the threads   *)
(* of the next: a function that abandons threads keeps all of them here.   *)
ASSUME AbandonAssumption == \A s \in Styles : "abandon" \in s => "chain" \notin s

VARIABLES
  style,    \* what the function does
  call,     \* the number of the call
  pc,       \* per OS thread: where it is
  job,      \* per OS thread: the Wasm thread it runs, 0 for the call itself
  waits,    \* per OS thread: the pointer or the mutex it waits for
  chained, futures, key,  \* per OS thread: chainedThreads, localThreadFutures, currentSnapshotKey
  pool,     \* pthreads of the module: the stacks of the OS threads started
  stacks,   \* threadStacks
  tasks,    \* pthreadTaskQueue
  asked,    \* shutdown messages sent
  thread,   \* every Wasm thread created so far
  snapshots,\* the snapshots taken so far
  size,     \* of the module's memory
  mutexes,  \* those the module's manager knows: locked or not
  held,     \* per OS thread: mutexes its program holds
  locks     \* mutex operations so far

tls == <<chained, futures, key>>
poolVars == <<pool, stacks, tasks, asked>>
mutexVars == <<mutexes, held, locks>>
vars == <<style, call, pc, job, waits, tls, poolVars, thread, snapshots, size, mutexVars>>

Main == 0
OS == 0..PoolSize
Shutdown == 0
NoKey == 0
TimedOut == -1
NotJoined == 0
InitSize == 1
Nowhere == CHOOSE x \in Ptr \cup Mutex : TRUE
Without(f, x) == Restrict(f, DOMAIN f \ {x})
NoneOf(S) == [x \in {} |-> 0]
(* A map with an entry assigned, or inserted where there is none. *)
With(f, x, v) == [y \in DOMAIN f \cup {x} |-> IF y = x THEN v ELSE f[y]]
Inserted(f, x, v) == IF x \in DOMAIN f THEN f ELSE With(f, x, v)

Init ==
  /\ style \in Styles
  /\ call = 0 /\ size = InitSize /\ asked = 0 /\ locks = 0
  /\ pc = [o \in OS |-> IF o = Main THEN "idle" ELSE "unborn"]
  /\ job = [o \in OS |-> 0] /\ waits = [o \in OS |-> Nowhere]
  /\ chained = [o \in OS |-> NoneOf(Ptr)] /\ futures = [o \in OS |-> NoneOf(Ptr)]
  /\ key = [o \in OS |-> NoKey]
  /\ pool = <<>> /\ stacks = StackTops /\ tasks = <<>>
  /\ thread = <<>> /\ snapshots = <<>>
  /\ mutexes = NoneOf(Mutex) /\ held = [o \in OS |-> {}]

-----------------------------------------------------------------------------
(* What the function may do: a program that follows POSIX joins a thread   *)
(* before it uses the variable again; only threads that the call created   *)
(* create threads, and fewer of them than the pool has.                    *)
Runs(o) == pc[o] = "run"
Own(o) == {t \in DOMAIN thread : thread[t].os = o /\ thread[t].call = call /\ thread[t].joined = NotJoined}
Nesting == {o \in OS \ {Main} : pc[o] \notin {"unborn", "gone"} /\ Own(o) # {}}
MayCreate(o) ==
  \/ o = Main
  \/ o # Main /\ "nest" \in style /\ thread[job[o]].os = Main /\ Cardinality(Nesting \cup {o}) < PoolSize
MayLeave(o) == o = Main /\ "chain" \in style

(* WasmModule::snapshot(false): a key for the memory of this module up to  *)
(* its break; what is there is read when the snapshot is pushed.           *)
TakeSnapshotKey(k) == IF k = NoKey THEN Len(snapshots) + 1 ELSE k
Snapshot == [call |-> call, size |-> size]
SnapshotsWith(k) == IF k = NoKey THEN Append(snapshots, Snapshot) ELSE snapshots

NewThread(o, p, local, k) ==
  [os |-> o, ptr |-> p, call |-> call, local |-> local, snap |-> SnapshotsWith(k)[TakeSnapshotKey(k)],
   size |-> size, state |-> IF local THEN "queued" ELSE "sent", joined |-> NotJoined]

InsertFuture(o, p, id) == [futures EXCEPT ![o] = Inserted(@, p, id)]
AssignFuture(o, p, id) == [futures EXCEPT ![o] = With(@, p, id)]

(* The thread stays here: executePthreadTask puts it into the queue and    *)
(* then sees whether the pool can grow.                                    *)
StaysHere(o, p, id) ==
  /\ futures' = AssignFuture(o, p, id)
  /\ tasks' = Append(tasks, id)
  /\ pc' = [pc EXCEPT ![o] = "spawn"]
  /\ UNCHANGED chained

(* The thread leaves: the scheduler pushed the snapshot and sent the call. *)
(* insert does not overwrite.                                              *)
Leaves(o, p, id) ==
  /\ chained' = [chained EXCEPT ![o] = Inserted(@, p, id)]
  /\ UNCHANGED <<futures, tasks, pc>>

PthreadCreate(o, p) ==
  LET id == Len(thread) + 1 IN
  /\ Runs(o) /\ MayCreate(o) /\ Len(thread) < MaxThreads
  /\ p \notin {thread[t].ptr : t \in Own(o)}
  /\ key' = [key EXCEPT ![o] = TakeSnapshotKey(@)]
  /\ snapshots' = SnapshotsWith(key[o])
  /\ \E local \in BOOLEAN :
       /\ ~local => MayLeave(o)
       /\ thread' = Append(thread, NewThread(o, p, local, key[o]))
       /\ IF local THEN StaysHere(o, p, id) ELSE Leaves(o, p, id)
  /\ UNCHANGED <<style, call, job, waits, pool, stacks, asked, size, mutexVars>>

(* threadsMutex: the teardown holds it until the pool is gone. *)
ThreadsMutexFree == pc[Main] # "teardown"

PoolHasRoom == Len(pool) < PoolSize

Spawn(o) ==
  /\ pool' = Append(pool, Last(stacks))
  /\ stacks' = Front(stacks)

ExecutePthreadTask(o) ==
  /\ pc[o] = "spawn"
  /\ \/ ~PoolHasRoom /\ UNCHANGED <<pool, stacks>> /\ pc' = [pc EXCEPT ![o] = "run"]
     \/ /\ PoolHasRoom /\ ThreadsMutexFree
        /\ Spawn(o)
        /\ pc' = [pc EXCEPT ![o] = "run", ![Len(pool) + 1] = "wait"]
  /\ UNCHANGED <<style, call, job, waits, tls, tasks, asked, thread, snapshots, size, mutexVars>>

-----------------------------------------------------------------------------
(* A pool thread: dequeue, run, hand over the value; or end. *)
TakeTask(o) ==
  /\ pc[o] = "wait" /\ tasks # <<>>
  /\ tasks' = Tail(tasks)
  /\ IF Head(tasks) = Shutdown
     THEN pc' = [pc EXCEPT ![o] = "gone"] /\ UNCHANGED <<job, thread>>
     ELSE /\ pc' = [pc EXCEPT ![o] = "run"]
          /\ job' = [job EXCEPT ![o] = Head(tasks)]
          /\ thread' = [thread EXCEPT ![Head(tasks)].state = "running"]
  /\ UNCHANGED <<style, call, waits, tls, pool, stacks, asked, snapshots, size, mutexVars>>

(* executeAsPthread returns, its value is handed over, and the scheduler   *)
(* is notified.                                                            *)
EndThread(o) ==
  /\ o # Main /\ Runs(o) /\ held[o] = {} /\ Own(o) = {}
  /\ thread' = [thread EXCEPT ![job[o]].state = "ended"]
  /\ pc' = [pc EXCEPT ![o] = "wait"]
  /\ job' = [job EXCEPT ![o] = 0]
  /\ UNCHANGED <<style, call, waits, tls, poolVars, snapshots, size, mutexVars>>

(* Another host: its Faaslet restores the snapshot and runs the thread;    *)
(* the result is published in Redis, where one that comes too late stays   *)
(* until it expires.                                                       *)
RemoteThread(id) ==
  /\ thread[id].state = "sent" /\ thread[id].joined = NotJoined
  /\ thread' = [thread EXCEPT ![id].state = "ended"]
  /\ UNCHANGED <<style, call, pc, job, waits, tls, poolVars, snapshots, size, mutexVars>>

-----------------------------------------------------------------------------
BeginJoin(o, p) ==
  /\ Runs(o) /\ held[o] = {} /\ \E t \in Own(o) : thread[t].ptr = p
  /\ pc' = [pc EXCEPT ![o] = "join"]
  /\ waits' = [waits EXCEPT ![o] = p]
  /\ UNCHANGED <<style, call, job, tls, poolVars, thread, snapshots, size, mutexVars>>

KeyKept(o, ch, fu) == key[o]
KeyAfterJoin(o, ch, fu) == IF DOMAIN ch = {} /\ DOMAIN fu = {} THEN NoKey ELSE key[o]

(* pthread_join returns: the record is erased, and the snapshot forgotten  *)
(* with the last record.                                                   *)
Joined(o, value, ch, fu) ==
  /\ chained' = [chained EXCEPT ![o] = ch] /\ futures' = [futures EXCEPT ![o] = fu]
  /\ key' = [key EXCEPT ![o] = KeyAfterJoin(o, ch, fu)]
  /\ thread' = [t \in DOMAIN thread |->
       IF t \in Own(o) /\ thread[t].ptr = waits[o] THEN [thread[t] EXCEPT !.joined = value] ELSE thread[t]]
  /\ pc' = [pc EXCEPT ![o] = "run"]
  /\ waits' = [waits EXCEPT ![o] = Nowhere]
  /\ UNCHANGED <<style, call, job, poolVars, snapshots, size, mutexVars>>

(* What executeAsPthread returns: the thread's number stands for it. *)
ReturnValue(t) == t

JoinLocal(o) ==
  LET p == waits[o] IN
  /\ pc[o] = "join" /\ p \in DOMAIN futures[o]
  /\ thread[futures[o][p]].state = "ended"
  /\ Joined(o, ReturnValue(futures[o][p]), chained[o], Without(futures[o], p))

(* awaitChainedCall: the result, or 1 after the timeout. *)
JoinChained(o) ==
  LET p == waits[o] IN
  /\ pc[o] = "join" /\ p \notin DOMAIN futures[o] /\ p \in DOMAIN chained[o]
  /\ \E value \in {chained[o][p], TimedOut} :
       /\ value # TimedOut => thread[value].state = "ended"
       /\ Joined(o, value, Without(chained[o], p), futures[o])

(* The function allocates while it has no threads. *)
Grow ==
  /\ Runs(Main) /\ "grow" \in style /\ Own(Main) = {} /\ size = InitSize
  /\ size' = size + 1
  /\ UNCHANGED <<style, call, pc, job, waits, tls, poolVars, thread, snapshots, mutexVars>>

-----------------------------------------------------------------------------
(* MutexManager: mutexes are created on the fly, and unlock passes over    *)
(* those that are not there.  The program holds one mutex at a time.       *)
Sync(o) == Runs(o) /\ "mutex" \in style /\ locks < MaxLocks /\ locks' = locks + 1
Present(mx) == Inserted(mutexes, mx, FALSE)

(* Mutant: a mutex made anew. *)
AnotherMutex(mx) == With(mutexes, mx, FALSE)
CreateMutex(mx) == Present(mx)

MutexInit(o, mx) ==
  /\ Sync(o)
  /\ mutexes' = CreateMutex(mx)
  /\ UNCHANGED <<style, call, pc, job, waits, tls, poolVars, thread, snapshots, size, held>>

MutexLock(o, mx) ==
  /\ Sync(o) /\ held[o] = {}
  /\ mutexes' = Present(mx)
  /\ pc' = [pc EXCEPT ![o] = "lock"]
  /\ waits' = [waits EXCEPT ![o] = mx]
  /\ UNCHANGED <<style, call, job, tls, poolVars, thread, snapshots, size, held>>

Locks(o, mx) ==
  /\ mutexes' = With(mutexes, mx, TRUE)
  /\ held' = [held EXCEPT ![o] = @ \cup {mx}]

LockMutex(o) ==
  /\ pc[o] = "lock" /\ ~mutexes[waits[o]]
  /\ Locks(o, waits[o])
  /\ pc' = [pc EXCEPT ![o] = "run"]
  /\ waits' = [waits EXCEPT ![o] = Nowhere]
  /\ UNCHANGED <<style, call, job, tls, poolVars, thread, snapshots, size, locks>>

MutexTrylock(o, mx) ==
  /\ Sync(o) /\ held[o] = {}
  /\ IF Present(mx)[mx] THEN UNCHANGED <<mutexes, held>> ELSE Locks(o, mx)
  /\ UNCHANGED <<style, call, pc, job, waits, tls, poolVars, thread, snapshots, size>>

UnlockMutex(o, mx) ==
  /\ Runs(o) /\ mx \in held[o]
  /\ held' = [held EXCEPT ![o] = @ \ {mx}]
  /\ mutexes' = IF mx \in DOMAIN mutexes THEN [mutexes EXCEPT ![mx] = FALSE] ELSE mutexes
  /\ UNCHANGED <<style, call, pc, job, waits, tls, poolVars, thread, snapshots, size, locks>>

(* A mutex is destroyed by a program that knows no one uses it. *)
DestroyMutex(o, mx) ==
  /\ Sync(o)
  /\ \A q \in OS : mx \notin held[q] /\ (pc[q] = "lock" => waits[q] # mx)
  /\ mutexes' = Without(mutexes, mx)
  /\ UNCHANGED <<style, call, pc, job, waits, tls, poolVars, thread, snapshots, size, held>>

-----------------------------------------------------------------------------
StartCall ==
  /\ pc[Main] = "idle" /\ call < MaxCalls
  /\ call' = call + 1
  /\ pc' = [pc EXCEPT ![Main] = "run"]
  /\ UNCHANGED <<style, job, waits, tls, poolVars, thread, snapshots, size, mutexVars>>

(* The call ends, returning or by the exception of a pthread function that *)
(* is not supported.  One that abandons threads has them here: what it     *)
(* abandoned elsewhere would stay in chainedThreads.                       *)
FinishCall ==
  /\ Runs(Main) /\ held[Main] = {}
  /\ Own(Main) = {} \/ "abandon" \in style
  /\ pc' = [pc EXCEPT ![Main] = "teardown"]
  /\ UNCHANGED <<style, call, job, waits, tls, poolVars, thread, snapshots, size, mutexVars>>

Gone == {o \in OS : pc[o] = "gone"}

StopAllButOne == asked + 1 < Len(pool)
MoreToStop == asked < Len(pool)

(* shutdownPthreads: one message after another, each waited for.           *)
AskToStop ==
  /\ pc[Main] = "teardown" /\ asked = Cardinality(Gone) /\ MoreToStop
  /\ asked' = asked + 1
  /\ tasks' = Append(tasks, Shutdown)
  /\ UNCHANGED <<style, call, pc, job, waits, tls, pool, stacks, thread, snapshots, size, mutexVars>>

PoolAskedToStop == asked = Len(pool)
PoolStopped == Cardinality(Gone) = Len(pool)

(* The module is replaced by a clone of the zygote: no pool, no tasks, no  *)
(* mutexes, all stacks.  The thread_local records of OS thread 0 stay.     *)
ResetModule ==
  /\ pc[Main] = "teardown" /\ PoolStopped
  /\ pc' = [o \in OS |-> IF o = Main THEN "idle" ELSE "unborn"]
  /\ job' = [o \in OS |-> 0]
  /\ chained' = [o \in OS |-> IF o = Main THEN chained[o] ELSE NoneOf(Ptr)]
  /\ futures' = [o \in OS |-> IF o = Main THEN futures[o] ELSE NoneOf(Ptr)]
  /\ key' = [o \in OS |-> IF o = Main THEN key[o] ELSE NoKey]
  /\ pool' = <<>> /\ stacks' = StackTops /\ tasks' = <<>> /\ asked' = 0
  /\ size' = InitSize /\ mutexes' = NoneOf(Mutex)
  /\ UNCHANGED <<style, call, waits, thread, snapshots, held, locks>>

Teardown == AskToStop \/ ResetModule
PoolStep(o) == ExecutePthreadTask(o) \/ TakeTask(o) \/ EndThread(o)
Joins(o) == (\E p \in Ptr : BeginJoin(o, p)) \/ JoinLocal(o) \/ JoinChained(o)
Unlocks(o) == \E mx \in Mutex : UnlockMutex(o, mx)
Syncs(o) ==
  \E mx \in Mutex : MutexInit(o, mx) \/ MutexLock(o, mx) \/ MutexTrylock(o, mx) \/ DestroyMutex(o, mx)
Remote == \E id \in DOMAIN thread : RemoteThread(id)

Next ==
  \/ StartCall \/ FinishCall \/ Teardown \/ Grow \/ Remote
  \/ \E o \in OS : PoolStep(o) \/ Joins(o) \/ Unlocks(o) \/ Syncs(o) \/ LockMutex(o)
  \/ \E o \in OS, p \in Ptr : PthreadCreate(o, p)

Spec == Init /\ [][Next]_vars

(* Every OS thread goes on, and a program does not keep a mutex or leave   *)
(* out a join for ever; nobody has to create threads or to lock.           *)
FairSpec ==
  /\ Spec
  /\ WF_vars(Teardown) /\ WF_vars(Remote)
  /\ \A o \in OS : WF_vars(PoolStep(o)) /\ WF_vars(Joins(o)) /\ WF_vars(Unlocks(o)) /\ WF_vars(LockMutex(o))

-----------------------------------------------------------------------------
Places == {"idle", "unborn", "run", "spawn", "wait", "join", "lock", "teardown", "gone"}
States == {"queued", "sent", "running", "ended"}
Forked == [call : Nat, size : Nat]
Thread ==
  [os : OS, ptr : Ptr, call : Nat, local : BOOLEAN, snap : Forked, size : Nat, state : States, joined : Int]
Records(f) == DOMAIN f \subseteq Ptr /\ f \in [DOMAIN f -> DOMAIN thread]

(* Every variable has its type. *)
TypeOK ==
  /\ style \in Styles /\ {call, size, asked, locks} \subseteq Nat
  /\ pc \in [OS -> Places] /\ job \in [OS -> {0} \cup DOMAIN thread] /\ waits \in [OS -> Ptr \cup Mutex \cup {Nowhere}]
  /\ chained = [o \in OS |-> chained[o]] /\ futures = [o \in OS |-> futures[o]]
  /\ \A o \in OS : Records(chained[o]) /\ Records(futures[o])
  /\ key \in [OS -> 0..Len(snapshots)] /\ snapshots \in Seq(Forked)
  /\ pool \in Seq(Nat) /\ stacks \in Seq(Nat) /\ tasks \in Seq({Shutdown} \cup DOMAIN thread)
  /\ thread \in Seq(Thread)
  /\ DOMAIN mutexes \subseteq Mutex /\ mutexes \in [DOMAIN mutexes -> BOOLEAN]
  /\ held \in [OS -> SUBSET Mutex]

-----------------------------------------------------------------------------
(* A thread that leaves for another host starts from the memory of the     *)
(* call that creates it, all of it: the thread_local key of a snapshot     *)
(* does not outlive the fork it was taken for. (pthread_create: "Create a  *)
(* new snapshot if one isn't already active")                              *)
SnapshotCurrent ==
  \A t \in DOMAIN thread : ~thread[t].local =>
    thread[t].snap = [call |-> thread[t].call, size |-> thread[t].size]

(* pthread_join hands over what the thread returned that was created last  *)
(* with this variable; or 1, when one that left is not back in time.       *)
JoinMatches ==
  \A t \in DOMAIN thread : thread[t].joined # NotJoined =>
    \/ thread[t].joined = ReturnValue(t) /\ thread[t].state = "ended"
    \/ thread[t].joined = TimedOut /\ ~thread[t].local

(* Threads run in the module and for the call that created them, whose     *)
(* Message they point to: none is left, queued or running, when the module *)
(* has been reset. (shutdownPthreads, preFinishCall)                       *)
ThreadsEndWithCall ==
  /\ \A o \in OS : job[o] # 0 => thread[job[o]].call = call
  /\ pc[Main] = "idle" => \A t \in DOMAIN thread : thread[t].local => thread[t].state = "ended"

(* A mutex is held by one thread at most, though it is created on the fly  *)
(* by whoever comes first, initialised again while it is locked, or        *)
(* destroyed. (MutexManager)                                               *)
MutexExclusive ==
  /\ \A o \in OS : \A mx \in held[o] : mx \in DOMAIN mutexes /\ mutexes[mx]
  /\ \A o, q \in OS : o # q => held[o] \cap held[q] = {}

(* Nothing waits for ever: a join returns, since the pool has a thread for *)
(* every queued task in the end, and a result or a timeout comes from      *)
(* elsewhere; a mutex that is asked for is had; and the reset of a module  *)
(* does not wait for ever for its pool. (pthread_join, MutexManager,       *)
(* shutdownPthreads)                                                       *)
WaitsEnd ==
  /\ \A o \in OS, wait \in {"join", "lock"} : (pc[o] = wait) ~> (pc[o] # wait)
  /\ (pc[Main] = "teardown") ~> (pc[Main] = "idle")
=============================================================================
