-------------------------- MODULE FaabricScheduler --------------------------
(***************************************************************************)
(* The distributed scheduler of faabric: callFunctions places a batch of   *)
(* calls on this host and, when its cores are taken, on others, by RPCs    *)
(* made under the scheduler's lock mx; a pool of executor threads on every *)
(* host binds to functions, drains their queues and dies off.              *)
(*                                                                         *)
(* The lock of a host is held by its dispatch from CallFunctions until     *)
(* job[h].step is "free" again; everything else that takes mx waits for    *)
(* that.  The calls of a batch are of one function and their master is the *)
(* host that dispatches them.                                              *)
(***************************************************************************)
EXTENDS Integers, FiniteSets, SequencesExt

CONSTANTS
  Host, Func, Call, Exec,
  HostOf,        \* the host of every executor thread
  FuncOf,        \* the function of every call
  Cores,         \* thisHostResources.cores of every host
  Batch,         \* the batches clients submit: non-empty sequences of calls
  ThreadBatch,   \* those of type THREADS, submitted by an executing call
  Invalid,       \* functions the file loader does not know
  NoExec,        \* no executor: the batch comes from outside
  CallMayFail, RpcMayFail

ASSUME HostAssumption == HostOf \in [Exec -> Host] /\ Cores \in [Host -> Nat] /\ NoExec \notin Exec
ASSUME CallAssumption == Call # {} /\ FuncOf \in [Call -> Func] /\ Invalid \subseteq Func
ASSUME BatchAssumption == Batch \subseteq Seq(Call) \ {<<>>} /\ ThreadBatch \subseteq Batch
(* A call is made once, by messageFactory, which gives it an id of its own.*)
ASSUME OneBatchAssumption ==
  \A a, b \in Batch : \A k \in DOMAIN a, l \in DOMAIN b : a[k] = b[l] => a = b /\ k = l
(* callFunctions reads the function of the first call only.                *)
ASSUME OneFuncAssumption == \A b \in Batch : \A k \in DOMAIN b : FuncOf[b[k]] = FuncOf[b[1]]
ASSUME FiniteAssumption == IsFiniteSet(Exec)
ASSUME FailAssumption == CallMayFail \in BOOLEAN /\ RpcMayFail \in BOOLEAN

VARIABLES
  pending,                             \* batches not submitted yet
  job,                                 \* per host: the callFunctions that holds mx
  queue, bindQueue,                    \* queueMap, bindQueue
  inFlight, running, faaslets,         \* inFlightCounts, functionsinflight, faasletCounts
  registered,                          \* registeredHosts
  pc, bound, msg, failed,              \* per executor: where it is, boundMessage, the call it has, its outcome
  threads,                             \* per executor: calls its module runs as pthreads
  runs, results                        \* how often a call was executed; calls with a result published

dispatchVars == <<pending, job>>
hostVars == <<queue, bindQueue, inFlight, running, faaslets>>
execVars == <<pc, bound, msg, failed>>
vars == <<dispatchVars, hostVars, registered, execVars, threads, runs, results>>

On(h) == {e \in Exec : HostOf[e] = h}
FuncOfBatch(b) == FuncOf[b[1]]
Least(a, b) == IF a < b THEN a ELSE b
AboveZero(n) == IF n < 0 THEN 0 ELSE n

(* What getHostResources answers, less what is in flight. *)
Available(h) == Cores[h] - running[h]
LocalShare(h, b) == Least(AboveZero(Available(h)), Len(b))
NoneLeftBelow(h) == Available(h) < 0
NoneLeft(h) == Available(h) <= 0

Free == [step |-> "free"]
Unlocked(h) == job[h].step = "free"

Init ==
  /\ pending = Batch
  /\ job = [h \in Host |-> Free]
  /\ queue = [h \in Host |-> [f \in Func |-> <<>>]]
  /\ bindQueue = [h \in Host |-> <<>>]
  /\ inFlight = [h \in Host |-> [f \in Func |-> 0]]
  /\ running = [h \in Host |-> 0]
  /\ faaslets = [h \in Host |-> [f \in Func |-> 0]]
  /\ registered = [h \in Host |-> [f \in Func |-> {}]]
  /\ pc = [e \in Exec |-> "unbound"]
  /\ bound = [e \in Exec |-> CHOOSE f \in Func : TRUE]
  /\ msg = [e \in Exec |-> CHOOSE c \in Call : TRUE]
  /\ failed = [e \in Exec |-> FALSE]
  /\ threads = [e \in Exec |-> {}]
  /\ runs = [c \in Call |-> 0]
  /\ results = {}

-----------------------------------------------------------------------------
(***************************************************************************)
(* Placing n calls of f on a host: incrementInFlightCount and addFaaslets  *)
(* for each in turn.  addFaaslets adds a faaslet whenever there are fewer  *)
(* than calls in flight.                                                   *)
(***************************************************************************)
NewFaaslets(h, f, n) == AboveZero(Least(n, inFlight[h][f] + n - faaslets[h][f]))

InFlight(h, f, n) ==
  /\ inFlight' = [inFlight EXCEPT ![h][f] = @ + n]
  /\ running' = [running EXCEPT ![h] = @ + n]

Enqueue(h, s) ==
  LET f == FuncOfBatch(s)
      new == NewFaaslets(h, f, Len(s))
  IN IF s = <<>> THEN UNCHANGED hostVars
     ELSE /\ queue' = [queue EXCEPT ![h][f] = @ \o s]
          /\ InFlight(h, f, Len(s))
          /\ faaslets' = [faaslets EXCEPT ![h][f] = @ + new]
          /\ bindQueue' = [bindQueue EXCEPT ![h] = @ \o [k \in 1..new |-> f]]

(* Threads go back to the caller, the module of executor e, which runs     *)
(* them in its pthread pool.                                               *)
ReturnThreads(h, e, s) ==
  /\ IF s = <<>> THEN UNCHANGED <<inFlight, running>> ELSE InFlight(h, FuncOfBatch(s), Len(s))
  /\ threads' = [threads EXCEPT ![e] = @ \cup ToSet(s)]
  /\ UNCHANGED <<queue, bindQueue, faaslets>>

PlaceHere(h, e, s) ==
  \/ e = NoExec /\ Enqueue(h, s) /\ UNCHANGED threads
  \/ e # NoExec /\ ReturnThreads(h, e, s)

(* Who may submit a batch on host h: anyone, or for THREADS a call that is *)
(* executing there.                                                        *)
Callers(h, b) ==
  IF b \in ThreadBatch
  THEN {e \in On(h) : pc[e] = "executing" /\ FuncOf[msg[e]] = FuncOfBatch(b)}
  ELSE {NoExec}

(* callFunctions takes the lock and as many calls as it has free cores;    *)
(* the rest it offers to the hosts registered for the function.            *)
Offer(h, b, e) ==
  LET n == LocalShare(h, b)
  IN IF n = Len(b) THEN Free
     ELSE [step |-> "ask", batch |-> b, caller |-> e, next |-> n, left |-> Len(b) - n,
           todo |-> registered[h][FuncOfBatch(b)], new |-> FALSE, target |-> h, count |-> 0]

CallFunctions(h, b, e) ==
  /\ Unlocked(h) /\ b \in pending /\ e \in Callers(h, b)
  /\ pending' = pending \ {b}
  /\ PlaceHere(h, e, SubSeq(b, 1, LocalShare(h, b)))
  /\ job' = [job EXCEPT ![h] = Offer(h, b, e)]
  /\ UNCHANGED <<registered, execVars, runs, results>>

(* getHostResources: the answer is read without the lock of t and may be   *)
(* stale when the calls arrive.                                            *)
AskHost(h, t) ==
  LET j == job[h] IN
  /\ j.step = "ask" /\ t \in j.todo
  /\ job' = [job EXCEPT ![h] =
       IF NoneLeft(t) THEN [j EXCEPT !.todo = @ \ {t}]
       ELSE [j EXCEPT !.step = "send", !.target = t,
                      !.count = Least(Available(t), Len(j.batch) - j.next)]]
  /\ UNCHANGED <<pending, hostVars, registered, execVars, threads, runs, results>>

(* The registered hosts had no room: try every other available host. *)
ListHosts(h) ==
  LET j == job[h] IN
  /\ j.step = "ask" /\ j.todo = {} /\ ~j.new
  /\ job' = [job EXCEPT ![h] = [j EXCEPT !.new = TRUE,
       !.todo = Host \ (registered[h][FuncOfBatch(j.batch)] \cup {h})]]
  /\ UNCHANGED <<pending, hostVars, registered, execVars, threads, runs, results>>

(* The calls of the RPC; nextMsgIdx is not moved on afterwards. *)
Portion(j) == SubSeq(j.batch, j.next + 1, j.next + j.count)
Sent(j) ==
  IF j.left <= j.count THEN Free
  ELSE [j EXCEPT !.step = "ask", !.left = @ - j.count, !.todo = @ \ {j.target}]

(* The RPC executeFunctions: the target executes the calls no matter what, *)
(* under its own lock, and the sender keeps its lock until the reply.      *)
SendTo(h) ==
  LET j == job[h] IN
  /\ j.step = "send" /\ Unlocked(j.target)
  /\ Enqueue(j.target, Portion(j))
  /\ registered' = IF j.new THEN [registered EXCEPT ![h][FuncOfBatch(j.batch)] = @ \cup {j.target}]
                   ELSE registered
  /\ job' = [job EXCEPT ![h] = Sent(j)]
  /\ UNCHANGED <<pending, execVars, threads, runs, results>>

AfterFailureRetry(j) == j
AfterFailure(j) == Free
(* CHECK_RPC throws out of callFunctions, with the lock: the rest of the   *)
(* batch is dropped; the request may have arrived all the same.            *)
RpcFails(h) ==
  LET j == job[h] IN
  /\ RpcMayFail
  /\ \/ j.step = "ask" /\ j.todo # {} /\ UNCHANGED hostVars
     \/ j.step = "send" /\ UNCHANGED hostVars
     \/ j.step = "send" /\ Unlocked(j.target) /\ Enqueue(j.target, Portion(j))
  /\ job' = [job EXCEPT ![h] = AfterFailure(j)]
  /\ UNCHANGED <<pending, registered, execVars, threads, runs, results>>

(* No capacity in the system: execute what nextMsgIdx leaves here. *)
ExecuteHere(h) ==
  LET j == job[h] IN
  /\ j.step = "ask" /\ j.todo = {} /\ j.new
  /\ PlaceHere(h, j.caller, SubSeq(j.batch, j.next + 1, Len(j.batch)))
  /\ job' = [job EXCEPT ![h] = Free]
  /\ UNCHANGED <<pending, registered, execVars, runs, results>>

Dispatch(h) ==
  \/ (\E t \in Host : AskHost(h, t)) \/ ListHosts(h)
  \/ SendTo(h) \/ RpcFails(h) \/ ExecuteHere(h)

-----------------------------------------------------------------------------
(***************************************************************************)
(* The executors: bind, execute calls until one fails or none comes, die;  *)
(* FaabricPool replaces a dead executor by an unbound one at once.         *)
(***************************************************************************)
AfterBindUnnoticed(f) == IF f \in Invalid THEN "unbound" ELSE "bound"
AfterBind(f) == IF f \in Invalid THEN "dying" ELSE "bound"

TakeBind(e) ==
  LET q == bindQueue[HostOf[e]] IN
  /\ pc[e] = "unbound" /\ q # <<>>
  /\ bindQueue' = [bindQueue EXCEPT ![HostOf[e]] = Tail(q)]
  /\ bound' = [bound EXCEPT ![e] = Head(q)]
  /\ pc' = [pc EXCEPT ![e] = AfterBind(Head(q))]
  /\ UNCHANGED <<dispatchVars, queue, inFlight, running, faaslets, registered,
                 msg, failed, threads, runs, results>>

OwnQueue(e) == queue[HostOf[e]][bound[e]]

TakeCall(e) ==
  /\ pc[e] \in {"bound", "waiting"} /\ OwnQueue(e) # <<>>
  /\ queue' = [queue EXCEPT ![HostOf[e]][bound[e]] = Tail(@)]
  /\ msg' = [msg EXCEPT ![e] = Head(OwnQueue(e))]
  /\ pc' = [pc EXCEPT ![e] = "executing"]
  /\ UNCHANGED <<dispatchVars, bindQueue, inFlight, running, faaslets, registered,
                 bound, failed, threads, runs, results>>

BeginWait(e) ==
  /\ pc[e] = "bound" /\ OwnQueue(e) = <<>>
  /\ pc' = [pc EXCEPT ![e] = "waiting"]
  /\ UNCHANGED <<dispatchVars, hostVars, registered, bound, msg, failed, threads, runs, results>>

(* wait_for reports a timeout and dequeue throws, even when a call was     *)
(* enqueued meanwhile.                                                     *)
BoundTimeout(e) ==
  /\ pc[e] = "waiting"
  /\ pc' = [pc EXCEPT ![e] = "dying"]
  /\ UNCHANGED <<dispatchVars, hostVars, registered, bound, msg, failed, threads, runs, results>>

(* doExecute returns, and with the module its pthreads have ended. *)
ExecuteCall(e) ==
  /\ pc[e] = "executing" /\ threads[e] = {}
  /\ ~Unlocked(HostOf[e]) => job[HostOf[e]].caller # e
  /\ \E fails \in BOOLEAN :
       /\ fails => CallMayFail
       /\ failed' = [failed EXCEPT ![e] = fails]
  /\ runs' = [runs EXCEPT ![msg[e]] = @ + 1]
  /\ pc' = [pc EXCEPT ![e] = "notify"]
  /\ UNCHANGED <<dispatchVars, hostVars, registered, bound, msg, threads, results>>

LeaveFlightOfHost(h, c) ==
  /\ running' = [running EXCEPT ![h] = AboveZero(@ - 1)]
  /\ UNCHANGED inFlight
LeaveFlight(h, c) ==
  /\ inFlight' = [inFlight EXCEPT ![h][FuncOf[c]] = AboveZero(@ - 1)]
  /\ running' = [running EXCEPT ![h] = AboveZero(@ - 1)]

NotifyCallFinished(e) ==
  /\ pc[e] = "notify" /\ Unlocked(HostOf[e])
  /\ LeaveFlight(HostOf[e], msg[e])
  /\ pc' = [pc EXCEPT ![e] = "publish"]
  /\ UNCHANGED <<dispatchVars, queue, bindQueue, faaslets, registered,
                 bound, msg, failed, threads, runs, results>>

SetFunctionResult(e) ==
  /\ pc[e] = "publish"
  /\ results' = results \cup {msg[e]}
  /\ pc' = [pc EXCEPT ![e] = IF failed[e] THEN "dying" ELSE "bound"]
  /\ UNCHANGED <<dispatchVars, hostVars, registered, bound, msg, failed, threads, runs>>

(* The message the executor was bound by: addFaaslets makes it, and        *)
(* messageFactory sets its master to the host it is made on.               *)
MasterOfBind(h) == h

SameFaaslets(h, f) == faaslets
OneFaasletLess(h, f) == [faaslets EXCEPT ![h][f] = AboveZero(@ - 1)]

NotifyFaasletFinished(e) ==
  LET h == HostOf[e]
      f == bound[e]
      last == faaslets[h][f] = 1
  IN
  /\ pc[e] = "dying" /\ Unlocked(h)
  /\ faaslets' = OneFaasletLess(h, f)
  /\ registered' = IF last /\ MasterOfBind(h) # h
                   THEN [registered EXCEPT ![MasterOfBind(h)][f] = @ \ {h}]
                   ELSE registered
  /\ pc' = [pc EXCEPT ![e] = "unbound"]
  /\ UNCHANGED <<dispatchVars, queue, bindQueue, inFlight, running,
                 bound, msg, failed, threads, runs, results>>

(* A pthread of the module of e ends; its pool thread notifies. *)
FinishThread(e, c) ==
  /\ c \in threads[e] /\ Unlocked(HostOf[e])
  /\ threads' = [threads EXCEPT ![e] = @ \ {c}]
  /\ runs' = [runs EXCEPT ![c] = @ + 1]
  /\ LeaveFlight(HostOf[e], c)
  /\ UNCHANGED <<dispatchVars, queue, bindQueue, faaslets, registered, execVars, results>>

ExecStep(e) ==
  \/ TakeBind(e) \/ TakeCall(e) \/ BeginWait(e) \/ BoundTimeout(e) \/ ExecuteCall(e)
  \/ NotifyCallFinished(e) \/ SetFunctionResult(e) \/ NotifyFaasletFinished(e)
  \/ (\E c \in Call : FinishThread(e, c))

Submit(h) == \E b \in Batch, e \in Exec \cup {NoExec} : CallFunctions(h, b, e)

Next == (\E h \in Host : Submit(h) \/ Dispatch(h)) \/ (\E e \in Exec : ExecStep(e))

Spec == Init /\ [][Next]_vars

(* A dispatch in progress and the executors go on; no one has to submit.   *)
(* The batches are finite, so a lock is not taken for ever and weak        *)
(* fairness is enough for those who wait for it.                           *)
FairSpec ==
  Spec /\ (\A h \in Host : WF_vars(Dispatch(h))) /\ (\A e \in Exec : WF_vars(ExecStep(e)))

-----------------------------------------------------------------------------
Job == [step : {"ask", "send"}, batch : Batch, caller : Exec \cup {NoExec}, next : Nat, left : Nat,
        todo : SUBSET Host, new : BOOLEAN, target : Host, count : Nat]

(* The values of the scheduler's and the executors' state. *)
TypeOK ==
  /\ pending \subseteq Batch
  /\ job \in [Host -> Job \cup {Free}]
  /\ queue \in [Host -> [Func -> Seq(Call)]] /\ bindQueue \in [Host -> Seq(Func)]
  /\ inFlight \in [Host -> [Func -> Nat]] /\ running \in [Host -> Nat]
  /\ faaslets \in [Host -> [Func -> Nat]]
  /\ registered \in [Host -> [Func -> SUBSET Host]]
  /\ pc \in [Exec -> {"unbound", "bound", "waiting", "executing", "notify", "publish", "dying"}]
  /\ bound \in [Exec -> Func] /\ msg \in [Exec -> Call] /\ failed \in [Exec -> BOOLEAN]
  /\ threads \in [Exec -> SUBSET Call]
  /\ runs \in [Call -> Nat] /\ results \subseteq Call

Positions(s, x) == {k \in DOMAIN s : s[k] = x}

(* The calls of the functions F on host h: in its queues, in its executors *)
(* and in the pthreads of their modules.                                   *)
Queued(h, F) == UNION {{f} \X DOMAIN queue[h][f] : f \in F}
Busy(h, F) == {e \in On(h) : pc[e] \in {"executing", "notify"} /\ FuncOf[msg[e]] \in F}
Threads(h, F) == UNION {{e} \X {c \in threads[e] : FuncOf[c] \in F} : e \in On(h)}
Placed(h, F) == Cardinality(Queued(h, F)) + Cardinality(Busy(h, F)) + Cardinality(Threads(h, F))

(* What the counters that decide every placement count: the calls of a     *)
(* function on this host, and functionsinflight all calls on it.           *)
(* (incrementInFlightCount, notifyCallFinished: "decrement above zero"     *)
(* never hides a surplus.)                                                 *)
InFlightExact ==
  \A h \in Host :
    /\ \A f \in Func : inFlight[h][f] = Placed(h, {f})
    /\ running[h] = Placed(h, Func)

Alive(h, f) == {e \in On(h) : pc[e] # "unbound" /\ bound[e] = f}

(* Every faaslet counted is a bind message or an executor bound to the     *)
(* function that has not died yet. (addFaaslets, notifyFaasletFinished)    *)
FaasletExact ==
  \A h \in Host, f \in Func :
    faaslets[h][f] = Cardinality(Positions(bindQueue[h], f)) + Cardinality(Alive(h, f))

(* No circle of hosts, each holding its lock and waiting in                *)
(* executeFunctions for the lock of the next: callFunctions makes its RPCs *)
(* under mx, and only the order of its checks prevents this.               *)
NoDispatchCycle ==
  ~ \E S \in SUBSET Host : S # {} /\ \A h \in S : job[h].step = "send" /\ job[h].target \in S

QueuedAt(c) == UNION {{h} \X Positions(queue[h][FuncOf[c]], c) : h \in Host}
HeldBy(c) == {e \in Exec : pc[e] = "executing" /\ msg[e] = c} \cup {e \in Exec : c \in threads[e]}

(* A call submitted on its own, as every caller in the code does, is in    *)
(* one place at a time and executed at most once, whatever RPC fails.      *)
SingleCallOnce ==
  \A b \in Batch : Len(b) = 1 =>
    Cardinality(QueuedAt(b[1])) + Cardinality(HeldBy(b[1])) + runs[b[1]] <= 1

Stranded(c) == \E h \in Host : c \in ToSet(queue[h][FuncOf[c]]) /\ faaslets[h][FuncOf[c]] = 0

(* A call that was placed is answered, unless it is left in a queue whose  *)
(* last faaslet died: there is no other way to miss it.                    *)
AnsweredOrStranded ==
  \A c \in Call : (QueuedAt(c) # {}) ~> (c \in results \/ Stranded(c))
=============================================================================
