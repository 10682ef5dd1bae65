----------------------- MODULE FaabricSchedulerProofs -----------------------
(***************************************************************************)
(* Type correctness of the scheduler, and that the RPCs it makes while it  *)
(* holds its lock never close a circle of hosts waiting for each other;    *)
(* that its counters of calls and faaslets count what is there; and that a *)
(* call submitted on its own is executed at most once.                     *)
(***************************************************************************)
EXTENDS FaabricScheduler, FiniteSetTheorems, TLAPS

AllAssumptions ==
  /\ HostOf \in [Exec -> Host] /\ Cores \in [Host -> Nat] /\ NoExec \notin Exec
  /\ Call # {} /\ FuncOf \in [Call -> Func] /\ Invalid \subseteq Func
  /\ Batch \subseteq Seq(Call) \ {<<>>} /\ ThreadBatch \subseteq Batch

(* The assumptions on the constants, in one fact.                          *)
LEMMA Constants == AllAssumptions
BY HostAssumption, CallAssumption, BatchAssumption DEF AllAssumptions

(* A host that has asked others for cores has none free itself, for as     *)
(* long as it holds its lock. (callFunctions, notifyCallFinished)          *)
DispatchingIsFull == \A h \in Host : job[h].step # "free" => running[h] >= Cores[h]

(* The parts of TypeOK that the lock argument needs.                       *)
LockTypes ==
  /\ job \in [Host -> Job \cup {Free}]
  /\ running \in [Host -> Nat]
  /\ inFlight \in [Host -> [Func -> Nat]]
  /\ \A h \in Host :
       /\ job[h].step # "free" => job[h].next < Len(job[h].batch)
       /\ job[h].step = "send" => job[h].next + job[h].count <= Len(job[h].batch)

LockInv == LockTypes /\ DispatchingIsFull /\ NoDispatchCycle

(* The function of a non-empty sequence of calls.                          *)
LEMMA FuncOfSeq ==
  ASSUME NEW s \in Seq(Call), s # <<>>
  PROVE  FuncOfBatch(s) \in Func
BY Constants DEF AllAssumptions, FuncOfBatch

(* What placing calls on a host does to its counters.                      *)
LEMMA EnqueueCounts ==
  ASSUME LockTypes, NEW h \in Host, NEW s \in Seq(Call), Enqueue(h, s)
  PROVE  /\ running' = [running EXCEPT ![h] = @ + Len(s)]
         /\ running' \in [Host -> Nat]
         /\ inFlight' \in [Host -> [Func -> Nat]]
<1>1. CASE s = <<>>
  BY <1>1 DEF LockTypes, Enqueue, hostVars
<1>2. CASE s # <<>>
  <2>1. FuncOfBatch(s) \in Func
    BY <1>2, FuncOfSeq
  <2>2. InFlight(h, FuncOfBatch(s), Len(s))
    BY <1>2 DEF Enqueue
  <2> QED
    BY <2>1, <2>2 DEF LockTypes, InFlight
<1> QED
  BY <1>1, <1>2

(* The same when threads are returned to their caller.                     *)
LEMMA PlaceCounts ==
  ASSUME LockTypes, NEW h \in Host, NEW s \in Seq(Call), NEW e, PlaceHere(h, e, s)
  PROVE  /\ running' = [running EXCEPT ![h] = @ + Len(s)]
         /\ running' \in [Host -> Nat]
         /\ inFlight' \in [Host -> [Func -> Nat]]
<1>1. CASE Enqueue(h, s)
  BY <1>1, EnqueueCounts
<1>2. CASE ReturnThreads(h, e, s) /\ s = <<>>
  BY <1>2 DEF LockTypes, ReturnThreads
<1>3. CASE ReturnThreads(h, e, s) /\ s # <<>>
  <2>1. FuncOfBatch(s) \in Func
    BY <1>3, FuncOfSeq
  <2>2. InFlight(h, FuncOfBatch(s), Len(s))
    BY <1>3 DEF ReturnThreads
  <2> QED
    BY <2>1, <2>2 DEF LockTypes, InFlight
<1> QED
  BY <1>1, <1>2, <1>3 DEF PlaceHere

(* Dispatches hold: a step that changes no job and lowers no counter of a  *)
(* dispatching host keeps the lock invariant.                              *)
LEMMA SameJobs ==
  ASSUME LockInv, job' = job, running' \in [Host -> Nat],
         inFlight' \in [Host -> [Func -> Nat]],
         \A h \in Host : job[h].step # "free" => running'[h] >= running[h]
  PROVE  LockInv'
<1>1. NoDispatchCycle'
  BY DEF LockInv, NoDispatchCycle
<1>2. DispatchingIsFull'
  BY Constants DEF AllAssumptions, LockInv, LockTypes, DispatchingIsFull
<1> QED
  BY <1>1, <1>2 DEF LockInv, LockTypes

(* A host that stops waiting for a lock, or was not waiting, closes no     *)
(* circle.                                                                 *)
LEMMA NoNewEdge ==
  ASSUME LockInv, NEW h \in Host, NEW j \in Job \cup {Free}, j.step # "send",
         job' = [job EXCEPT ![h] = j]
  PROVE  NoDispatchCycle'
<1> SUFFICES ASSUME NEW S \in SUBSET Host, S # {},
                    \A k \in S : job'[k].step = "send" /\ job'[k].target \in S
             PROVE  FALSE
  BY DEF NoDispatchCycle
<1>1. h \notin S
  BY DEF LockInv, LockTypes
<1>2. \A k \in S : job[k].step = "send" /\ job[k].target \in S
  BY <1>1 DEF LockInv, LockTypes
<1> QED
  BY <1>2 DEF LockInv, NoDispatchCycle

(* AskHost adds an edge to a host with a free core, which by               *)
(* DispatchingIsFull is not dispatching, so the edge leads to a dead end.  *)
LEMMA AskHostLock ==
  ASSUME LockInv, NEW h \in Host, NEW t \in Host, AskHost(h, t)
  PROVE  LockInv'
<1> DEFINE j == job[h]
<1>1. j \in Job /\ j.step = "ask" /\ t \in j.todo
  BY DEF LockInv, LockTypes, AskHost, Job, Free
<1>2. running' = running /\ inFlight' = inFlight
  BY DEF AskHost, hostVars
<1>3. j.batch \in Seq(Call)
  BY <1>1, Constants DEF AllAssumptions, Job
<1>4. CASE NoneLeft(t)
  <2> DEFINE k == [j EXCEPT !.todo = @ \ {t}]
  <2>1. job' = [job EXCEPT ![h] = k]
    BY <1>4 DEF AskHost
  <2>2. k \in Job /\ k.step = "ask"
    BY <1>1 DEF Job
  <2>3. NoDispatchCycle'
    BY <2>1, <2>2, NoNewEdge
  <2> QED
    BY <1>1, <1>2, <2>1, <2>2, <2>3 DEF LockInv, LockTypes, DispatchingIsFull
<1>5. CASE ~NoneLeft(t)
  <2> DEFINE n == Least(Available(t), Len(j.batch) - j.next)
             k == [j EXCEPT !.step = "send", !.target = t, !.count = n]
  <2>1. job' = [job EXCEPT ![h] = k]
    BY <1>5 DEF AskHost
  <2>2. n \in Nat \ {0} /\ j.next + n <= Len(j.batch)
    <3>1. Available(t) \in Int /\ Available(t) > 0
      BY <1>5, Constants DEF AllAssumptions, LockInv, LockTypes, NoneLeft, Available
    <3>2. Len(j.batch) \in Nat /\ j.next \in Nat /\ j.next < Len(j.batch)
      <4>1. j.next \in Nat
        BY <1>1 DEF Job
      <4>2. j.next < Len(j.batch)
        BY <1>1 DEF LockInv, LockTypes
      <4> QED
        BY <1>3, <4>1, <4>2
    <3> QED
      BY <3>1, <3>2 DEF Least
  <2>3. k \in Job /\ k.step = "send" /\ k.target = t /\ k.batch = j.batch /\ k.next = j.next
               /\ k.count = n
    BY <1>1, <2>2 DEF Job
  <2>4. job[t].step = "free"
    BY <1>5, Constants DEF AllAssumptions, LockInv, LockTypes, DispatchingIsFull, NoneLeft, Available
  <2>5. t # h
    BY <1>1, <2>4
  <2>6. NoDispatchCycle'
    <3> SUFFICES ASSUME NEW S \in SUBSET Host, S # {},
                        \A g \in S : job'[g].step = "send" /\ job'[g].target \in S
                 PROVE  FALSE
      BY DEF NoDispatchCycle
    <3>1. t \notin S
      BY <2>1, <2>4, <2>5 DEF LockInv, LockTypes
    <3>2. h \notin S
      BY <2>1, <2>3, <3>1 DEF LockInv, LockTypes
    <3>3. \A g \in S : job[g].step = "send" /\ job[g].target \in S
      BY <2>1, <3>2 DEF LockInv, LockTypes
    <3> QED
      BY <3>3 DEF LockInv, NoDispatchCycle
  <2>7. LockTypes'
    BY <1>1, <1>2, <2>1, <2>2, <2>3 DEF LockInv, LockTypes
  <2>8. DispatchingIsFull'
    BY <1>1, <1>2, <2>1, <2>3 DEF LockInv, LockTypes, DispatchingIsFull
  <2> QED
    BY <2>6, <2>7, <2>8 DEF LockInv
<1> QED
  BY <1>4, <1>5

(* A step that leaves the jobs alone and at most adds calls.               *)
LEMMA FreeJobs ==
  ASSUME LockInv, NEW h \in Host, NEW j \in Job \cup {Free}, j.step # "send",
         job' = [job EXCEPT ![h] = j],
         j.step # "free" => j.next < Len(j.batch) /\ running'[h] >= Cores[h],
         running' \in [Host -> Nat], inFlight' \in [Host -> [Func -> Nat]],
         \A g \in Host : running'[g] >= running[g]
  PROVE  LockInv'
<1>1. NoDispatchCycle'
  BY NoNewEdge
<1>2. /\ job' \in [Host -> Job \cup {Free}]
      /\ \A g \in Host : job'[g] = IF g = h THEN j ELSE job[g]
  BY DEF LockInv, LockTypes
<1>3. DispatchingIsFull'
  BY <1>2, Constants DEF AllAssumptions, LockInv, LockTypes, DispatchingIsFull
<1>4. LockTypes'
  BY <1>2 DEF LockInv, LockTypes
<1> QED
  BY <1>1, <1>3, <1>4 DEF LockInv

(* The part of a batch from one index to another is a sequence of calls.   *)
LEMMA SubSeqCalls ==
  ASSUME NEW s \in Seq(Call), NEW m \in Nat, NEW n \in Nat, m <= n, n <= Len(s)
  PROVE  /\ SubSeq(s, m + 1, n) \in Seq(Call)
         /\ Len(SubSeq(s, m + 1, n)) = n - m
OBVIOUS

(* callFunctions keeps its lock only when it has filled its own cores.     *)
LEMMA CallFunctionsLock ==
  ASSUME LockInv, NEW h \in Host, NEW b \in Batch, NEW e \in Exec \cup {NoExec},
         TypeOK, CallFunctions(h, b, e)
  PROVE  LockInv'
<1> DEFINE n == LocalShare(h, b)
           s == SubSeq(b, 1, n)
<1>1. b \in Seq(Call) /\ Len(b) \in Nat \ {0}
  BY Constants DEF AllAssumptions
<1>2. n \in Nat /\ n <= Len(b)
  BY <1>1, Constants DEF AllAssumptions, LockInv, LockTypes, LocalShare, Least, AboveZero, Available
<1>3. s \in Seq(Call) /\ Len(s) = n
  BY <1>1, <1>2
<1>4. PlaceHere(h, e, s)
  BY DEF CallFunctions
<1>5. /\ running' = [running EXCEPT ![h] = @ + n]
      /\ running' \in [Host -> Nat]
      /\ inFlight' \in [Host -> [Func -> Nat]]
  BY <1>3, <1>4, PlaceCounts DEF LockInv
<1>6. CASE n = Len(b)
  <2>1. job' = [job EXCEPT ![h] = Free]
    BY <1>6 DEF CallFunctions, Offer
  <2>2. Free.step = "free"
    BY DEF Free
  <2>3. \A g \in Host : running'[g] >= running[g]
    BY <1>2, <1>5 DEF LockInv, LockTypes
  <2> QED
    BY <1>5, <2>1, <2>2, <2>3, FreeJobs
<1>7. CASE n # Len(b)
  <2> DEFINE o == [step |-> "ask", batch |-> b, caller |-> e, next |-> n, left |-> Len(b) - n,
                   todo |-> registered[h][FuncOfBatch(b)], new |-> FALSE, target |-> h, count |-> 0]
  <2>1. job' = [job EXCEPT ![h] = o]
    BY <1>7 DEF CallFunctions, Offer
  <2>2. registered[h][FuncOfBatch(b)] \subseteq Host
    BY <1>1, FuncOfSeq DEF TypeOK
  <2>3. o \in Job /\ o.step = "ask" /\ o.next < Len(o.batch)
    BY <1>1, <1>2, <1>7, <2>2 DEF Job
  <2>4. running'[h] >= Cores[h]
    <3>1. n = AboveZero(Available(h))
      BY <1>1, <1>7, Constants
         DEF AllAssumptions, LockInv, LockTypes, LocalShare, Least, AboveZero, Available
    <3>2. running[h] \in Nat /\ Cores[h] \in Nat /\ running'[h] = running[h] + n
      BY <1>5, Constants DEF AllAssumptions, LockInv, LockTypes
    <3> QED
      BY <3>1, <3>2 DEF AboveZero, Available
  <2>5. \A g \in Host : running'[g] >= running[g]
    BY <1>2, <1>5 DEF LockInv, LockTypes
  <2> HIDE DEF o
  <2> QED
    BY <1>5, <2>1, <2>3, <2>4, <2>5, FreeJobs
<1> QED
  BY <1>6, <1>7

(* The hosts asked next change nobody's lock.                              *)
LEMMA ListHostsLock ==
  ASSUME LockInv, NEW h \in Host, ListHosts(h)
  PROVE  LockInv'
<1> DEFINE j == job[h]
           k == [j EXCEPT !.new = TRUE,
                          !.todo = Host \ (registered[h][FuncOfBatch(j.batch)] \cup {h})]
<1>1. j \in Job /\ j.step = "ask"
  BY DEF LockInv, LockTypes, ListHosts, Job, Free
<1>2. job' = [job EXCEPT ![h] = k] /\ running' = running /\ inFlight' = inFlight
  BY DEF ListHosts, hostVars
<1>3. k \in Job /\ k.step = "ask" /\ k.next = j.next /\ k.batch = j.batch
  BY <1>1 DEF Job
<1>4. k.next < Len(k.batch) /\ running[h] >= Cores[h]
  BY <1>1, <1>3 DEF LockInv, LockTypes, DispatchingIsFull
<1>5. \A g \in Host : running'[g] >= running[g]
  BY <1>2 DEF LockInv, LockTypes
<1>6. running' \in [Host -> Nat] /\ inFlight' \in [Host -> [Func -> Nat]]
  BY <1>2 DEF LockInv, LockTypes
<1> HIDE DEF k
<1> QED
  BY <1>2, <1>3, <1>4, <1>5, <1>6, FreeJobs

(* What a host sends to another is a sequence of calls.                    *)
LEMMA PortionCalls ==
  ASSUME NEW j \in Job, j.next + j.count <= Len(j.batch)
  PROVE  Portion(j) \in Seq(Call)
<1>1. j.batch \in Seq(Call) /\ j.next \in Nat /\ j.count \in Nat
  BY Constants DEF AllAssumptions, Job
<1> QED
  BY <1>1 DEF Portion

(* The RPC ends, or throws: one host stops waiting, another has more to do.*)
LEMMA SendToLock ==
  ASSUME LockInv, NEW h \in Host, SendTo(h)
  PROVE  LockInv'
<1> DEFINE j == job[h]
<1>1. j \in Job /\ j.step = "send" /\ j.target \in Host
  BY DEF LockInv, LockTypes, SendTo, Job, Free
<1>2. Portion(j) \in Seq(Call)
  BY <1>1, PortionCalls DEF LockInv, LockTypes
<1>3. /\ running' = [running EXCEPT ![j.target] = @ + Len(Portion(j))]
      /\ running' \in [Host -> Nat]
      /\ inFlight' \in [Host -> [Func -> Nat]]
  BY <1>1, <1>2, EnqueueCounts DEF LockInv, SendTo
<1>4. \A g \in Host : running'[g] >= running[g]
  BY <1>1, <1>2, <1>3 DEF LockInv, LockTypes
<1>5. job' = [job EXCEPT ![h] = Sent(j)]
  BY DEF SendTo
<1>6. CASE j.left <= j.count
  <2>1. Sent(j) = Free /\ Free.step = "free"
    BY <1>6 DEF Sent, Free
  <2> QED
    BY <1>3, <1>4, <1>5, <2>1, FreeJobs
<1>7. CASE ~(j.left <= j.count)
  <2> DEFINE k == [j EXCEPT !.step = "ask", !.left = @ - j.count, !.todo = @ \ {j.target}]
  <2>1. Sent(j) = k
    BY <1>7 DEF Sent
  <2>2. k \in Job /\ k.step = "ask" /\ k.next = j.next /\ k.batch = j.batch
    <3>1. j.left \in Nat /\ j.count \in Nat
      BY <1>1 DEF Job
    <3>2. j.left - j.count \in Nat
      BY <1>7, <3>1
    <3> QED
      BY <1>1, <3>2 DEF Job
  <2>3. k.next < Len(k.batch)
    BY <1>1, <2>2 DEF LockInv, LockTypes
  <2>4. running'[h] >= Cores[h]
    <3>1. running[h] >= Cores[h] /\ running'[h] >= running[h]
      BY <1>1, <1>4 DEF LockInv, DispatchingIsFull
    <3>2. running[h] \in Nat /\ running'[h] \in Nat /\ Cores[h] \in Nat
      BY <1>3, Constants DEF AllAssumptions, LockInv, LockTypes
    <3> QED
      BY <3>1, <3>2
  <2> HIDE DEF k
  <2> QED
    BY <1>3, <1>4, <1>5, <2>1, <2>2, <2>3, <2>4, FreeJobs
<1> QED
  BY <1>6, <1>7

(* An exception gives up the lock. *)
LEMMA RpcFailsLock ==
  ASSUME LockInv, NEW h \in Host, RpcFails(h)
  PROVE  LockInv'
<1> DEFINE j == job[h]
<1>1. job' = [job EXCEPT ![h] = Free] /\ Free.step = "free"
  BY DEF RpcFails, AfterFailure, Free
<1>2. /\ running' \in [Host -> Nat] /\ inFlight' \in [Host -> [Func -> Nat]]
      /\ \A g \in Host : running'[g] >= running[g]
  <2>1. CASE UNCHANGED hostVars
    BY <2>1 DEF LockInv, LockTypes, hostVars
  <2>2. CASE j.step = "send" /\ Enqueue(j.target, Portion(j))
    <3>1. j \in Job /\ j.target \in Host
      BY <2>2 DEF LockInv, LockTypes, Job, Free
    <3>2. Portion(j) \in Seq(Call)
      BY <2>2, <3>1, PortionCalls DEF LockInv, LockTypes
    <3>3. /\ running' = [running EXCEPT ![j.target] = @ + Len(Portion(j))]
          /\ running' \in [Host -> Nat] /\ inFlight' \in [Host -> [Func -> Nat]]
      BY <2>2, <3>1, <3>2, EnqueueCounts DEF LockInv
    <3> QED
      BY <3>1, <3>2, <3>3 DEF LockInv, LockTypes
  <2> QED
    BY <2>1, <2>2 DEF RpcFails
<1> QED
  BY <1>1, <1>2, FreeJobs

(* The last resort, and the end of the dispatch. *)
LEMMA ExecuteHereLock ==
  ASSUME LockInv, NEW h \in Host, ExecuteHere(h)
  PROVE  LockInv'
<1> DEFINE j == job[h]
           s == SubSeq(j.batch, j.next + 1, Len(j.batch))
<1>1. j \in Job /\ j.step = "ask" /\ j.next < Len(j.batch)
  BY DEF LockInv, LockTypes, ExecuteHere, Job, Free
<1>2. j.batch \in Seq(Call) /\ j.next \in Nat
  BY <1>1, Constants DEF AllAssumptions, Job
<1>3. s \in Seq(Call) /\ Len(s) \in Nat
  BY <1>1, <1>2
<1>4. PlaceHere(h, j.caller, s)
  BY DEF ExecuteHere
<1> HIDE DEF s
<1>5. /\ running' = [running EXCEPT ![h] = @ + Len(s)]
      /\ running' \in [Host -> Nat] /\ inFlight' \in [Host -> [Func -> Nat]]
  BY <1>3, <1>4, PlaceCounts DEF LockInv
<1>6. \A g \in Host : running'[g] >= running[g]
  BY <1>3, <1>5 DEF LockInv, LockTypes
<1>7. job' = [job EXCEPT ![h] = Free] /\ Free.step = "free"
  BY DEF ExecuteHere, Free
<1> QED
  BY <1>5, <1>6, <1>7, FreeJobs

(* A call leaves flight only on a host whose lock is free. *)
LEMMA LeaveFlightLock ==
  ASSUME LockInv, NEW h \in Host, NEW c \in Call, job' = job, Unlocked(h), LeaveFlight(h, c)
  PROVE  LockInv'
<1>1. FuncOf[c] \in Func
  BY Constants DEF AllAssumptions
<1>2. running' \in [Host -> Nat] /\ inFlight' \in [Host -> [Func -> Nat]]
  BY <1>1 DEF LockInv, LockTypes, LeaveFlight, AboveZero
<1>3. \A g \in Host : job[g].step # "free" => running'[g] >= running[g]
  BY DEF LockInv, LockTypes, LeaveFlight, Unlocked
<1> QED
  BY <1>2, <1>3, SameJobs

-----------------------------------------------------------------------------
(* What placing calls leaves in the queues and the faaslet counts.         *)
LEMMA EnqueueTypes ==
  ASSUME TypeOK, NEW h \in Host, NEW s \in Seq(Call), Enqueue(h, s)
  PROVE  /\ queue' \in [Host -> [Func -> Seq(Call)]]
         /\ bindQueue' \in [Host -> Seq(Func)]
         /\ faaslets' \in [Host -> [Func -> Nat]]
<1>1. CASE s = <<>>
  BY <1>1 DEF TypeOK, Enqueue, hostVars
<1>2. CASE s # <<>>
  <2> DEFINE f == FuncOfBatch(s)
             new == NewFaaslets(h, f, Len(s))
             binds == [k \in 1..new |-> f]
  <2>1. f \in Func
    BY <1>2, FuncOfSeq
  <2>2. new \in Nat
    BY <2>1 DEF TypeOK, NewFaaslets, AboveZero, Least
  <2>3. /\ queue' = [queue EXCEPT ![h][f] = @ \o s]
        /\ faaslets' = [faaslets EXCEPT ![h][f] = @ + new]
        /\ bindQueue' = [bindQueue EXCEPT ![h] = @ \o binds]
    BY <1>2 DEF Enqueue
  <2>4. binds \in Seq(Func)
    BY <2>1, <2>2
  <2> HIDE DEF f, new, binds
  <2>5. bindQueue[h] \o binds \in Seq(Func)
    BY <2>4 DEF TypeOK
  <2>6. queue[h][f] \o s \in Seq(Call)
    BY <2>1 DEF TypeOK
  <2> QED
    BY <2>1, <2>2, <2>3, <2>5, <2>6 DEF TypeOK
<1> QED
  BY <1>1, <1>2

(* The state of the calls and executors, apart from counters and jobs.     *)
OtherTypes ==
  /\ pending \subseteq Batch
  /\ queue \in [Host -> [Func -> Seq(Call)]] /\ bindQueue \in [Host -> Seq(Func)]
  /\ faaslets \in [Host -> [Func -> Nat]]
  /\ registered \in [Host -> [Func -> SUBSET Host]]
  /\ pc \in [Exec -> {"unbound", "bound", "waiting", "executing", "notify", "publish", "dying"}]
  /\ bound \in [Exec -> Func] /\ msg \in [Exec -> Call] /\ failed \in [Exec -> BOOLEAN]
  /\ threads \in [Exec -> SUBSET Call]
  /\ runs \in [Call -> Nat] /\ results \subseteq Call

(* The two halves of TypeOK.                                               *)
LEMMA TypeParts ==
  ASSUME LockTypes, OtherTypes
  PROVE  TypeOK
BY DEF LockTypes, OtherTypes, TypeOK

(* Threads returned to an executor join its pthreads.                      *)
LEMMA PlaceTypes ==
  ASSUME TypeOK, NEW h \in Host, NEW e \in Exec \cup {NoExec}, NEW s \in Seq(Call),
         PlaceHere(h, e, s)
  PROVE  /\ queue' \in [Host -> [Func -> Seq(Call)]]
         /\ bindQueue' \in [Host -> Seq(Func)]
         /\ faaslets' \in [Host -> [Func -> Nat]]
         /\ threads' \in [Exec -> SUBSET Call]
<1>1. CASE e = NoExec
  BY <1>1, EnqueueTypes DEF PlaceHere, TypeOK
<1>2. CASE e # NoExec
  <2>1. ToSet(s) \subseteq Call
    BY DEF ToSet
  <2> QED
    BY <1>2, <2>1 DEF PlaceHere, ReturnThreads, TypeOK
<1> QED
  BY <1>1, <1>2

(* Dispatching keeps the types.                                            *)
LEMMA SubmitTypes ==
  ASSUME TypeOK, LockInv, NEW h \in Host, NEW b \in Batch, NEW e \in Exec \cup {NoExec},
         CallFunctions(h, b, e)
  PROVE  OtherTypes'
<1> DEFINE n == LocalShare(h, b)
           s == SubSeq(b, 1, n)
<1>1. b \in Seq(Call) /\ Len(b) \in Nat \ {0}
  BY Constants DEF AllAssumptions
<1>2. n \in Nat /\ n <= Len(b)
  BY <1>1, Constants DEF AllAssumptions, TypeOK, LocalShare, Least, AboveZero, Available
<1>3. s \in Seq(Call)
  BY <1>1, <1>2
<1>4. PlaceHere(h, e, s)
  BY DEF CallFunctions
<1> HIDE DEF s, n
<1> QED
  BY <1>3, <1>4, PlaceTypes DEF CallFunctions, TypeOK, OtherTypes, execVars

(* The steps of a dispatch keep the types.                                 *)
LEMMA DispatchTypes ==
  ASSUME TypeOK, LockInv, NEW h \in Host, Dispatch(h)
  PROVE  OtherTypes'
<1> DEFINE j == job[h]
<1>1. ASSUME NEW t \in Host, AskHost(h, t) PROVE OtherTypes'
  BY <1>1 DEF AskHost, TypeOK, OtherTypes, hostVars, execVars
<1>2. CASE ListHosts(h)
  BY <1>2 DEF ListHosts, TypeOK, OtherTypes, hostVars, execVars
<1>3. ASSUME j.step = "send" PROVE j \in Job /\ j.target \in Host /\ Portion(j) \in Seq(Call)
  <2>1. j \in Job /\ j.target \in Host
    BY <1>3 DEF TypeOK, Job, Free
  <2> QED
    BY <1>3, <2>1, PortionCalls DEF LockInv, LockTypes
<1>4. CASE SendTo(h)
  <2>1. /\ j.target \in Host /\ Portion(j) \in Seq(Call) /\ Enqueue(j.target, Portion(j))
        /\ j \in Job
    BY <1>3, <1>4 DEF SendTo
  <2>2. registered' \in [Host -> [Func -> SUBSET Host]]
    <3>1. FuncOfBatch(j.batch) \in Func
      BY <2>1, FuncOfSeq, Constants DEF AllAssumptions, Job
    <3> QED
      BY <1>4, <2>1, <3>1 DEF SendTo, TypeOK
  <2> QED
    BY <1>4, <2>1, <2>2, EnqueueTypes DEF SendTo, TypeOK, OtherTypes, execVars
<1>5. CASE RpcFails(h)
  <2>1. CASE UNCHANGED hostVars
    BY <1>5, <2>1 DEF RpcFails, TypeOK, OtherTypes, hostVars, execVars
  <2>2. CASE j.step = "send" /\ Enqueue(j.target, Portion(j))
    BY <1>3, <1>5, <2>2, EnqueueTypes DEF RpcFails, TypeOK, OtherTypes, execVars
  <2> QED
    BY <1>5, <2>1, <2>2 DEF RpcFails
<1>6. CASE ExecuteHere(h)
  <2> DEFINE s == SubSeq(j.batch, j.next + 1, Len(j.batch))
  <2>1. j \in Job /\ j.caller \in Exec \cup {NoExec}
    BY <1>6 DEF ExecuteHere, TypeOK, Job, Free
  <2>2. j.batch \in Seq(Call) /\ j.next \in Nat
    BY <2>1, Constants DEF AllAssumptions, Job
  <2>3. s \in Seq(Call)
    BY <2>2
  <2>4. PlaceHere(h, j.caller, s)
    BY <1>6 DEF ExecuteHere
  <2> HIDE DEF s
  <2> QED
    BY <1>6, <2>1, <2>3, <2>4, PlaceTypes DEF ExecuteHere, TypeOK, OtherTypes, execVars
<1> QED
  BY <1>1, <1>2, <1>4, <1>5, <1>6 DEF Dispatch

(* The steps of an executor keep the lock invariant and the types.         *)
LEMMA ExecNext ==
  ASSUME TypeOK, LockInv, NEW e \in Exec, ExecStep(e)
  PROVE  LockInv' /\ OtherTypes'
<1> DEFINE h == HostOf[e]
<1>1. h \in Host /\ bound[e] \in Func /\ msg[e] \in Call
  BY Constants DEF AllAssumptions, TypeOK
<1>2. ASSUME job' = job, running' = running, inFlight' = inFlight PROVE LockInv'
  BY <1>2, SameJobs DEF LockInv, LockTypes
<1>3. CASE TakeBind(e)
  <2>1. LockInv'
    BY <1>2, <1>3 DEF TakeBind, dispatchVars
  <2>2. Head(bindQueue[h]) \in Func /\ Tail(bindQueue[h]) \in Seq(Func)
    BY <1>1, <1>3 DEF TakeBind, TypeOK
  <2> QED
    BY <1>1, <1>3, <2>1, <2>2 DEF TakeBind, AfterBind, TypeOK, OtherTypes, dispatchVars
<1>4. CASE TakeCall(e)
  <2>1. LockInv'
    BY <1>2, <1>4 DEF TakeCall, dispatchVars
  <2>2. Head(OwnQueue(e)) \in Call /\ Tail(queue[h][bound[e]]) \in Seq(Call)
    BY <1>1, <1>4 DEF TakeCall, OwnQueue, TypeOK
  <2> QED
    BY <1>1, <1>4, <2>1, <2>2 DEF TakeCall, TypeOK, OtherTypes, dispatchVars
<1>5. CASE BeginWait(e) \/ BoundTimeout(e)
  BY <1>2, <1>5 DEF BeginWait, BoundTimeout, TypeOK, OtherTypes, dispatchVars, hostVars
<1>6. CASE ExecuteCall(e)
  BY <1>1, <1>2, <1>6 DEF ExecuteCall, TypeOK, OtherTypes, dispatchVars, hostVars
<1>7. CASE NotifyCallFinished(e)
  <2>1. LockInv'
    BY <1>1, <1>7, LeaveFlightLock DEF NotifyCallFinished, dispatchVars
  <2> QED
    BY <1>7, <2>1 DEF NotifyCallFinished, TypeOK, OtherTypes, dispatchVars
<1>8. CASE SetFunctionResult(e)
  BY <1>1, <1>2, <1>8 DEF SetFunctionResult, TypeOK, OtherTypes, dispatchVars, hostVars
<1>9. CASE NotifyFaasletFinished(e)
  BY <1>1, <1>2, <1>9
     DEF NotifyFaasletFinished, OneFaasletLess, AboveZero, MasterOfBind, TypeOK, OtherTypes, dispatchVars
<1>10. ASSUME NEW c \in Call, FinishThread(e, c) PROVE LockInv' /\ OtherTypes'
  <2>1. LockInv'
    BY <1>1, <1>10, LeaveFlightLock DEF FinishThread, dispatchVars
  <2> QED
    BY <1>10, <2>1 DEF FinishThread, TypeOK, OtherTypes, dispatchVars, execVars
<1> QED
  BY <1>3, <1>4, <1>5, <1>6, <1>7, <1>8, <1>9, <1>10 DEF ExecStep

SchedulerInv == TypeOK /\ LockInv

(* Nobody has submitted anything.                                          *)
LEMMA SchedulerInit ==
  ASSUME Init
  PROVE  SchedulerInv
<1>1. (CHOOSE f \in Func : TRUE) \in Func /\ (CHOOSE c \in Call : TRUE) \in Call
  BY Constants DEF AllAssumptions
<1>2. \A h \in Host : job[h].step = "free"
  BY DEF Init, Free
<1>3. LockTypes
  BY <1>2 DEF Init, LockTypes
<1>4. OtherTypes
  BY <1>1 DEF Init, OtherTypes
<1>5. DispatchingIsFull /\ NoDispatchCycle
  BY <1>2 DEF DispatchingIsFull, NoDispatchCycle
<1> QED
  BY <1>3, <1>4, <1>5, TypeParts DEF SchedulerInv, LockInv

(* Every step keeps the invariant.                                         *)
LEMMA SchedulerNext ==
  ASSUME SchedulerInv, [Next]_vars
  PROVE  SchedulerInv'
<1> USE DEF SchedulerInv
<1>1. ASSUME NEW h \in Host, Submit(h) PROVE LockInv' /\ OtherTypes'
  BY <1>1, CallFunctionsLock, SubmitTypes DEF Submit
<1>2. ASSUME NEW h \in Host, Dispatch(h) PROVE LockInv' /\ OtherTypes'
  BY <1>2, AskHostLock, ListHostsLock, SendToLock, RpcFailsLock, ExecuteHereLock, DispatchTypes
     DEF Dispatch
<1>3. ASSUME NEW e \in Exec, ExecStep(e) PROVE LockInv' /\ OtherTypes'
  BY <1>3, ExecNext
<1>4. ASSUME UNCHANGED vars PROVE LockInv' /\ OtherTypes'
  <2>1. LockInv'
    BY <1>4 DEF LockInv, LockTypes, DispatchingIsFull, NoDispatchCycle, vars, dispatchVars, hostVars
  <2> QED
    BY <1>4, <2>1 DEF TypeOK, OtherTypes, vars, dispatchVars, hostVars, execVars
<1>5. LockInv' /\ OtherTypes'
  <2>1. CASE Next
    BY <1>1, <1>2, <1>3, <2>1 DEF Next
  <2> QED
    BY <1>4, <2>1
<1>6. LockTypes'
  BY <1>5 DEF LockInv
<1> QED
  BY <1>5, <1>6, TypeParts DEF LockTypes, OtherTypes, TypeOK

(* The scheduler and its executors keep their types, whatever the hosts,   *)
(* batches and failures.                                                   *)
THEOREM SchedulerTypes == Spec => []TypeOK
<1>1. Init => SchedulerInv
  BY SchedulerInit
<1>2. SchedulerInv /\ [Next]_vars => SchedulerInv'
  BY SchedulerNext
<1>3. SchedulerInv => TypeOK
  BY DEF SchedulerInv
<1> QED
  BY <1>1, <1>2, <1>3, PTL DEF Spec

(* However many hosts dispatch at once, and however stale what they know   *)
(* of each other, they never wait for each other's locks in a circle.      *)
THEOREM NoCircleOfLocks == Spec => []NoDispatchCycle
<1>1. Init => SchedulerInv
  BY SchedulerInit
<1>2. SchedulerInv /\ [Next]_vars => SchedulerInv'
  BY SchedulerNext
<1>3. SchedulerInv => NoDispatchCycle
  BY DEF SchedulerInv, LockInv
<1> QED
  BY <1>1, <1>2, <1>3, PTL DEF Spec


-----------------------------------------------------------------------------
(* Counting positions and elements of sequences. *)
LEMMA IndexCount ==
  ASSUME NEW a \in Nat, NEW n \in Nat
  PROVE  IsFiniteSet(a + 1 .. a + n) /\ Cardinality(a + 1 .. a + n) = n
<1>1. a + 1 \in Int /\ a + n \in Int
  OBVIOUS
<1>2. IsFiniteSet(a + 1 .. a + n) /\ Cardinality(a + 1 .. a + n) = IF a + 1 > a + n THEN 0 ELSE (a + n) - (a + 1) + 1
  <2> DEFINE p == a + 1
             q == a + n
  <2>1. p \in Int /\ q \in Int
    BY <1>1
  <2> HIDE DEF p, q
  <2>2. IsFiniteSet(p .. q) /\ Cardinality(p .. q) = IF p > q THEN 0 ELSE q - p + 1
    BY <2>1, FS_Interval
  <2> QED
    BY <2>2 DEF p, q
<1> QED
  BY <1>2

LEMMA PairCount ==
  ASSUME NEW x, NEW S, IsFiniteSet(S)
  PROVE  IsFiniteSet({x} \X S) /\ Cardinality({x} \X S) = Cardinality(S)
<1>1. IsFiniteSet({x}) /\ Cardinality({x}) = 1 /\ Cardinality(S) \in Nat
  BY FS_Singleton, FS_CardinalityType
<1>2. IsFiniteSet({x} \X S) /\ Cardinality({x} \X S) = Cardinality({x}) * Cardinality(S)
  BY <1>1, FS_Product
<1> QED
  BY <1>1, <1>2

LEMMA ElementCount ==
  ASSUME NEW S, NEW s \in Seq(S), \A k, l \in DOMAIN s : s[k] = s[l] => k = l
  PROVE  IsFiniteSet(ToSet(s)) /\ Cardinality(ToSet(s)) = Len(s)
<1>1. Len(s) \in Nat /\ DOMAIN s = 1 .. Len(s) /\ s = [k \in 1 .. Len(s) |-> s[k]]
  OBVIOUS
<1>2. ToSet(s) = {s[k] : k \in 1 .. Len(s)}
  BY <1>1 DEF ToSet
<1>3. s \in Bijection(1 .. Len(s), ToSet(s))
  <2>1. s \in [1 .. Len(s) -> ToSet(s)]
    BY <1>1, <1>2
  <2>2. \A x \in ToSet(s) : \E k \in 1 .. Len(s) : s[k] = x
    BY <1>2
  <2> QED
    BY <1>1, <2>1, <2>2 DEF Bijection, Injection, Surjection, IsInjective
<1>4. IsFiniteSet(1 .. Len(s)) /\ Cardinality(1 .. Len(s)) = Len(s)
  <2>1. 0 + 1 = 1 /\ 0 + Len(s) = Len(s)
    BY <1>1
  <2> QED
    BY <1>1, <2>1, IndexCount
<1> QED
  BY <1>3, <1>4, FS_Bijection DEF ExistsBijection

LEMMA PositionsFinite ==
  ASSUME NEW S, NEW s \in Seq(S), NEW x
  PROVE  IsFiniteSet(Positions(s, x)) /\ Cardinality(Positions(s, x)) \in Nat
<1>1. DOMAIN s = 1 .. Len(s) /\ Len(s) \in Nat
  OBVIOUS
<1>2. Positions(s, x) \subseteq Nat /\ \A k \in Positions(s, x) : k <= Len(s)
  BY <1>1 DEF Positions
<1> QED
  BY <1>1, <1>2, FS_BoundedSetOfNaturals, FS_CardinalityType

(* Appending n times y adds n positions of y and none of anything else. *)
LEMMA PositionsAppended ==
  ASSUME NEW S, NEW s \in Seq(S), NEW y \in S, NEW n \in Nat, NEW x
  PROVE  Cardinality(Positions(s \o [k \in 1 .. n |-> y], x))
           = Cardinality(Positions(s, x)) + (IF x = y THEN n ELSE 0)
<1> DEFINE t == [k \in 1 .. n |-> y]
           new == Len(s) + 1 .. Len(s) + n
<1>1. t \in Seq(S) /\ Len(t) = n /\ \A k \in 1 .. n : t[k] = y
  OBVIOUS
<1>2. /\ Len(s) \in Nat /\ DOMAIN s = 1 .. Len(s) /\ DOMAIN (s \o t) = 1 .. Len(s) + n
      /\ \A k \in 1 .. Len(s) : (s \o t)[k] = s[k]
      /\ \A k \in new : (s \o t)[k] = y
  <2> HIDE DEF t
  <2> QED
    BY <1>1
<1> HIDE DEF t
<1>3. CASE x # y
  <2>1. Positions(s \o t, x) = Positions(s, x)
    BY <1>2, <1>3 DEF Positions
  <2> QED
    BY <1>3, <2>1, PositionsFinite DEF t
<1>4. CASE x = y
  <2> DEFINE P == Positions(s, x)
  <2>1. Positions(s \o t, x) = P \cup new /\ P \cap new = {}
    BY <1>2, <1>4 DEF Positions
  <2>2. IsFiniteSet(P) /\ Cardinality(P) \in Nat
    BY PositionsFinite
  <2>3. IsFiniteSet(new) /\ Cardinality(new) = n
    BY <1>2, IndexCount
  <2> HIDE DEF P, new
  <2>4. Cardinality(P \cap new) = 0
    BY <2>1, FS_EmptySet
  <2>5. Cardinality(P \cup new) = Cardinality(P) + Cardinality(new) - Cardinality(P \cap new)
    BY <2>2, <2>3, FS_Union
  <2>6. Cardinality(Positions(s \o t, x)) = Cardinality(P) + n
    BY <2>1, <2>2, <2>3, <2>4, <2>5
  <2> QED
    BY <1>4, <2>6 DEF t, P
<1> QED
  BY <1>3, <1>4

(* Taking the first element away removes the first position. *)
LEMMA PositionsTaken ==
  ASSUME NEW S, NEW s \in Seq(S), s # <<>>, NEW x
  PROVE  Cardinality(Positions(Tail(s), x))
           = Cardinality(Positions(s, x)) - (IF x = Head(s) THEN 1 ELSE 0)
<1> DEFINE T == Positions(Tail(s), x)
           P == Positions(s, x)
           Q == P \ {1}
           f == [k \in T |-> k + 1]
<1>1. /\ Len(s) \in Nat \ {0} /\ DOMAIN s = 1 .. Len(s) /\ DOMAIN Tail(s) = 1 .. Len(s) - 1
      /\ \A k \in 1 .. Len(s) - 1 : Tail(s)[k] = s[k + 1]
      /\ Tail(s) \in Seq(S) /\ Head(s) = s[1]
  OBVIOUS
<1>2. \A k \in T : k \in Nat /\ k + 1 \in Q
  BY <1>1 DEF Positions
<1>3. \A k \in Q : k - 1 \in T
  BY <1>1 DEF Positions
<1>4. f \in Bijection(T, Q)
  <2>1. f \in [T -> Q]
    BY <1>2
  <2>2. \A j, k \in T : f[j] = f[k] => j = k
    BY <1>2
  <2>3. \A k \in Q : f[k - 1] = k
    BY <1>1, <1>3 DEF Positions
  <2> QED
    BY <1>3, <2>1, <2>2, <2>3 DEF Bijection, Injection, Surjection, IsInjective
<1>5. IsFiniteSet(T) /\ IsFiniteSet(P) /\ Cardinality(P) \in Nat
  BY <1>1, PositionsFinite
<1>6. Cardinality(Q) = Cardinality(T)
  BY <1>4, <1>5, FS_Bijection DEF ExistsBijection
<1>7. 1 \in P <=> x = Head(s)
  BY <1>1 DEF Positions
<1> HIDE DEF P
<1>8. Cardinality(Q) = IF 1 \in P THEN Cardinality(P) - 1 ELSE Cardinality(P)
  BY <1>5, FS_RemoveElement
<1> HIDE DEF Q, T
<1>9. Cardinality(T) = Cardinality(P) - (IF x = Head(s) THEN 1 ELSE 0)
  BY <1>5, <1>6, <1>7, <1>8
<1> QED
  BY <1>9 DEF T, P


-----------------------------------------------------------------------------
(* Faaslets.                                                               *)
LEMMA AliveFinite ==
  ASSUME NEW h \in Host, NEW f \in Func
  PROVE  IsFiniteSet(Alive(h, f)) /\ Cardinality(Alive(h, f)) \in Nat
<1>1. Alive(h, f) \subseteq Exec
  BY DEF Alive, On
<1> QED
  BY <1>1, FiniteAssumption, FS_Subset, FS_CardinalityType

(* A step that adds no faaslet and binds and unbinds no executor. *)
LEMMA SameFaasletCounts ==
  ASSUME FaasletExact, UNCHANGED <<bindQueue, faaslets, bound>>,
         \A e \in Exec : pc'[e] = "unbound" <=> pc[e] = "unbound"
  PROVE  FaasletExact'
<1>1. \A h \in Host, f \in Func : Alive(h, f)' = Alive(h, f)
  BY DEF Alive, On
<1> QED
  BY <1>1 DEF FaasletExact

LEMMA PlaceFaaslets ==
  ASSUME TypeOK, FaasletExact, NEW g \in Host, NEW e, NEW s \in Seq(Call), PlaceHere(g, e, s),
         UNCHANGED execVars
  PROVE  FaasletExact'
<1>1. UNCHANGED <<pc, bound>>
  BY DEF execVars
<1>2. CASE UNCHANGED <<bindQueue, faaslets>>
  BY <1>1, <1>2, SameFaasletCounts
<1>3. CASE s # <<>> /\ Enqueue(g, s)
  <2> DEFINE f == FuncOfBatch(s)
             new == NewFaaslets(g, f, Len(s))
  <2>1. f \in Func
    BY <1>3, FuncOfSeq
  <2>2. new \in Nat
    BY <2>1 DEF TypeOK, NewFaaslets, AboveZero, Least
  <2>3. /\ faaslets' = [faaslets EXCEPT ![g][f] = @ + new]
        /\ bindQueue' = [bindQueue EXCEPT ![g] = @ \o [k \in 1..new |-> f]]
    BY <1>3 DEF Enqueue
  <2> HIDE DEF f, new
  <2>4. ASSUME NEW h \in Host, NEW x \in Func
        PROVE  faaslets'[h][x] = Cardinality(Positions(bindQueue'[h], x)) + Cardinality(Alive(h, x))
    <3>1. faaslets[h][x] = Cardinality(Positions(bindQueue[h], x)) + Cardinality(Alive(h, x))
      BY DEF FaasletExact
    <3>2. bindQueue[h] \in Seq(Func)
      BY DEF TypeOK
    <3>3. Cardinality(Positions(bindQueue[h], x)) \in Nat /\ Cardinality(Alive(h, x)) \in Nat
      BY <3>2, PositionsFinite, AliveFinite
    <3>4. CASE h = g
      <4>1. bindQueue'[h] = bindQueue[h] \o [k \in 1..new |-> f]
        BY <2>3, <3>4 DEF TypeOK
      <4>2. faaslets'[h][x] = faaslets[h][x] + (IF x = f THEN new ELSE 0)
        <5>1. faaslets[h] \in [Func -> Nat] /\ faaslets'[h] = [faaslets[h] EXCEPT ![f] = @ + new]
          BY <2>1, <2>3, <3>4 DEF TypeOK
        <5> QED
          BY <2>1, <2>2, <5>1
      <4>3. Cardinality(Positions(bindQueue[h] \o [k \in 1..new |-> f], x))
              = Cardinality(Positions(bindQueue[h], x)) + (IF x = f THEN new ELSE 0)
        BY <2>1, <2>2, <3>2, PositionsAppended
      <4> QED
        BY <2>2, <3>1, <3>3, <4>1, <4>2, <4>3
    <3>5. CASE h # g
      BY <2>3, <3>1, <3>5 DEF TypeOK
    <3> QED
      BY <3>4, <3>5
  <2>5. \A h \in Host, x \in Func : Alive(h, x)' = Alive(h, x)
    BY <1>1 DEF Alive, On
  <2> QED
    BY <2>4, <2>5 DEF FaasletExact
<1> QED
  BY <1>2, <1>3 DEF PlaceHere, ReturnThreads, Enqueue, hostVars

(* Nothing but binding and dying moves an executor in or out of a count. *)
LEMMA ExecFaaslets ==
  ASSUME TypeOK, FaasletExact, NEW e \in Exec, ExecStep(e)
  PROVE  FaasletExact'
<1> DEFINE h == HostOf[e]
<1>1. /\ h \in Host /\ pc \in [Exec -> {"unbound", "bound", "waiting", "executing", "notify", "publish", "dying"}]
      /\ bound \in [Exec -> Func] /\ bindQueue \in [Host -> Seq(Func)]
      /\ faaslets \in [Host -> [Func -> Nat]]
  BY Constants DEF AllAssumptions, TypeOK
<1>2. CASE TakeBind(e)
  <2> DEFINE q == bindQueue[h]
  <2>1. q \in Seq(Func) /\ q # <<>> /\ Head(q) \in Func
    BY <1>1, <1>2 DEF TakeBind
  <2>2. /\ bindQueue' = [bindQueue EXCEPT ![h] = Tail(q)]
        /\ bound' = [bound EXCEPT ![e] = Head(q)]
        /\ pc[e] = "unbound" /\ pc' = [pc EXCEPT ![e] = AfterBind(Head(q))]
        /\ AfterBind(Head(q)) # "unbound" /\ UNCHANGED faaslets
    BY <1>2 DEF TakeBind, AfterBind
  <2> HIDE DEF q
  <2>3. ASSUME NEW g \in Host, NEW x \in Func
        PROVE  faaslets'[g][x] = Cardinality(Positions(bindQueue'[g], x)) + Cardinality(Alive(g, x))'
    <3> DEFINE A == Alive(g, x)
               P == Positions(bindQueue[g], x)
    <3>1. faaslets[g][x] = Cardinality(P) + Cardinality(A)
      BY DEF FaasletExact
    <3>2. IsFiniteSet(A) /\ Cardinality(A) \in Nat
      BY AliveFinite
    <3>3. Cardinality(P) \in Nat
      BY <1>1, PositionsFinite
    <3>4. CASE g = h /\ x = Head(q)
      <4>1. e \notin A /\ Alive(g, x)' = A \cup {e}
        BY <1>1, <2>2, <3>4 DEF Alive, On
      <4>2. Cardinality(A \cup {e}) = Cardinality(A) + 1
        <5> HIDE DEF A
        <5> QED
          BY <3>2, <4>1, FS_AddElement
      <4>3. Cardinality(Positions(Tail(q), x)) = Cardinality(Positions(q, x)) - 1
        BY <2>1, <3>4, PositionsTaken
      <4>4. bindQueue'[g] = Tail(q) /\ bindQueue[g] = q
        BY <1>1, <2>2, <3>4 DEF q
      <4> QED
        <5>1. Cardinality(Positions(bindQueue'[g], x)) = Cardinality(P) - 1
          BY <4>3, <4>4
        <5>2. Cardinality(Alive(g, x))' = Cardinality(A) + 1
          BY <4>1, <4>2
        <5>3. faaslets'[g][x] = faaslets[g][x]
          BY <2>2
        <5> HIDE DEF A, P
        <5> QED
          BY <3>1, <3>2, <3>3, <5>1, <5>2, <5>3
    <3>5. CASE ~(g = h /\ x = Head(q))
      <4>1. Alive(g, x)' = A
        BY <1>1, <2>2, <3>5 DEF Alive, On
      <4>2. Cardinality(Positions(bindQueue'[g], x)) = Cardinality(P)
        <5>1. CASE g # h
          BY <1>1, <2>2, <5>1
        <5>2. CASE g = h
          <6>1. Cardinality(Positions(Tail(q), x)) = Cardinality(Positions(q, x)) - 0
            BY <2>1, <3>5, <5>2, PositionsTaken
          <6>2. bindQueue'[g] = Tail(q) /\ bindQueue[g] = q
            BY <1>1, <2>2, <5>2 DEF q
          <6> QED
            BY <3>3, <6>1, <6>2
        <5> QED
          BY <5>1, <5>2
      <4> QED
        BY <2>2, <3>1, <4>1, <4>2
    <3> QED
      BY <3>4, <3>5
  <2> QED
    BY <2>3 DEF FaasletExact
<1>3. CASE NotifyFaasletFinished(e)
  <2> DEFINE f == bound[e]
  <2>1. /\ faaslets' = [faaslets EXCEPT ![h][f] = AboveZero(@ - 1)]
        /\ pc[e] = "dying" /\ pc' = [pc EXCEPT ![e] = "unbound"]
        /\ UNCHANGED <<bindQueue, bound>> /\ f \in Func
    BY <1>1, <1>3 DEF NotifyFaasletFinished, OneFaasletLess
  <2> HIDE DEF f
  <2>2. ASSUME NEW g \in Host, NEW x \in Func
        PROVE  faaslets'[g][x] = Cardinality(Positions(bindQueue'[g], x)) + Cardinality(Alive(g, x))'
    <3> DEFINE A == Alive(g, x)
               P == Positions(bindQueue[g], x)
    <3>1. faaslets[g][x] = Cardinality(P) + Cardinality(A)
      BY DEF FaasletExact
    <3>2. IsFiniteSet(A) /\ Cardinality(A) \in Nat
      BY AliveFinite
    <3>3. Cardinality(P) \in Nat
      BY <1>1, PositionsFinite
    <3>4. CASE g = h /\ x = f
      <4>1. e \in A /\ Alive(g, x)' = A \ {e}
        BY <1>1, <2>1, <3>4 DEF Alive, On, f
      <4>2. Cardinality(A \ {e}) = Cardinality(A) - 1 /\ Cardinality(A \ {e}) \in Nat
        <5> HIDE DEF A
        <5> QED
          BY <3>2, <4>1, FS_RemoveElement, FS_CardinalityType
      <4>3. faaslets'[g][x] = AboveZero(faaslets[g][x] - 1)
        BY <1>1, <2>1, <3>4
      <4> QED
        BY <2>1, <3>1, <3>2, <3>3, <4>1, <4>2, <4>3 DEF AboveZero
    <3>5. CASE ~(g = h /\ x = f)
      <4>1. Alive(g, x)' = A
        BY <1>1, <2>1, <3>5 DEF Alive, On, f
      <4>2. faaslets'[g][x] = faaslets[g][x]
        BY <1>1, <2>1, <3>5
      <4> QED
        BY <2>1, <3>1, <4>1, <4>2
    <3> QED
      BY <3>4, <3>5
  <2> QED
    BY <2>2 DEF FaasletExact
<1>4. CASE ~TakeBind(e) /\ ~NotifyFaasletFinished(e)
  <2>1. UNCHANGED <<bindQueue, faaslets, bound>>
    BY <1>4 DEF ExecStep, TakeCall, BeginWait, BoundTimeout, ExecuteCall, NotifyCallFinished,
                SetFunctionResult, FinishThread, hostVars, execVars
  <2>2. \A u \in Exec : pc'[u] = "unbound" <=> pc[u] = "unbound"
    BY <1>1, <1>4 DEF ExecStep, TakeCall, BeginWait, BoundTimeout, ExecuteCall, NotifyCallFinished,
                      SetFunctionResult, FinishThread, hostVars, execVars
  <2> QED
    BY <2>1, <2>2, SameFaasletCounts
<1> QED
  BY <1>2, <1>3, <1>4


-----------------------------------------------------------------------------
(* Calls.                                                                  *)

(* A batch is dispatched by one host, which has still to place the calls   *)
(* from nextMsgIdx on.                                                     *)
JobInv ==
  \A h \in Host : job[h].step # "free" =>
    /\ job[h].batch \notin pending
    /\ job[h].caller \in On(h) \cup {NoExec}
    /\ \A g \in Host \ {h} : job[g].step # "free" => job[g].batch # job[h].batch
    /\ Len(job[h].batch) = 1 => job[h].left = 1
    /\ job[h].step = "send" => job[h].count # 0

(* A call that is not submitted, or that its host has still to place. *)
Unplaced(c) ==
  \/ \E b \in pending : \E k \in DOMAIN b : b[k] = c
  \/ \E h \in Host : job[h].step # "free" /\ \E k \in DOMAIN job[h].batch :
       k > job[h].next /\ job[h].batch[k] = c

(* The calls a step may place on host g, for executor e. *)
Placeable(g, e, s) ==
  /\ e \in On(g) \cup {NoExec}
  /\ \A k \in DOMAIN s : FuncOf[s[k]] = FuncOfBatch(s) /\ Unplaced(s[k])
  /\ \A k, l \in DOMAIN s : s[k] = s[l] => k = l
  /\ e # NoExec => \A k \in DOMAIN s : ~Unplaced(s[k])'
  /\ \A k \in DOMAIN s : <<s[k]>> \in Batch => ~Unplaced(s[k])'

(* s is what comes after the first m of the first n calls of b. *)
IsPart(s, b, m, n) ==
  /\ s \in Seq(Call) /\ DOMAIN s = 1 .. n - m
  /\ \A k \in DOMAIN s : m + k \in DOMAIN b /\ s[k] = b[m + k] /\ s[k] \in Call
  /\ \A k \in DOMAIN s : FuncOf[s[k]] = FuncOfBatch(s)
  /\ \A k, l \in DOMAIN s : s[k] = s[l] => k = l

LEMMA PartOfBatch ==
  ASSUME NEW b \in Batch, NEW m \in Nat, NEW n \in Nat, m <= n, n <= Len(b)
  PROVE  IsPart(SubSeq(b, m + 1, n), b, m, n)
<1> DEFINE s == SubSeq(b, m + 1, n)
<1>1. b \in Seq(Call) /\ DOMAIN b = 1 .. Len(b) /\ Len(b) \in Nat
  BY Constants DEF AllAssumptions
<1>2. /\ s \in Seq(Call) /\ DOMAIN s = 1 .. n - m
      /\ \A k \in DOMAIN s : m + k \in DOMAIN b /\ s[k] = b[m + k] /\ s[k] \in Call
  <2>1. s \in Seq(Call) /\ DOMAIN s = 1 .. n - m
    BY <1>1
  <2>2. \A k \in DOMAIN s : m + k \in DOMAIN b /\ s[k] = b[m + k]
    BY <1>1
  <2> HIDE DEF s
  <2>3. \A k \in DOMAIN s : s[k] \in Call
    BY <2>1
  <2> QED
    BY <2>1, <2>2, <2>3
<1> HIDE DEF s
<1>3. \A k \in DOMAIN s : FuncOf[s[k]] = FuncOf[b[1]]
  BY <1>2, OneFuncAssumption
<1>4. \A k \in DOMAIN s : 1 \in DOMAIN s
  BY <1>2
<1>5. \A k \in DOMAIN s : FuncOf[s[k]] = FuncOfBatch(s)
  BY <1>3, <1>4 DEF FuncOfBatch
<1>6. \A k, l \in DOMAIN s : s[k] = s[l] => k = l
  <2> SUFFICES ASSUME NEW k \in DOMAIN s, NEW l \in DOMAIN s, s[k] = s[l] PROVE k = l
    OBVIOUS
  <2>1. m + k = m + l
    BY <1>2, OneBatchAssumption
  <2> QED
    BY <1>2, <2>1
<1> QED
  BY <1>2, <1>5, <1>6 DEF s, IsPart

(* A batch of one call has no other batch's call. *)
LEMMA SingleBatch ==
  ASSUME NEW b \in Batch, NEW k \in DOMAIN b, <<b[k]>> \in Batch
  PROVE  b = <<b[k]>> /\ Len(b) = 1 /\ k = 1
<1> DEFINE a == <<b[k]>>
<1>1. a \in Batch /\ 1 \in DOMAIN a /\ a[1] = b[k]
  OBVIOUS
<1>2. b = a /\ k = 1
  BY <1>1, OneBatchAssumption
<1> QED
  BY <1>2

(* What dispatching does to the calls there are to place. *)
Dispatches ==
  /\ UNCHANGED <<execVars, runs, results>>
  /\ \A c \in Call : Unplaced(c)' => Unplaced(c)
  /\ JobInv'
  /\ \/ UNCHANGED <<hostVars, threads>>
     \/ \E g \in Host, e \in Exec \cup {NoExec}, s \in Seq(Call) :
          PlaceHere(g, e, s) /\ Placeable(g, e, s)

(* A host's own job, as long as it is dispatching. *)
LEMMA JobFacts ==
  ASSUME SchedulerInv, JobInv, NEW h \in Host, job[h].step # "free"
  PROVE  /\ job[h] \in Job /\ job[h].batch \in Batch
         /\ job[h].next \in Nat /\ job[h].next < Len(job[h].batch) /\ job[h].count \in Nat
         /\ job[h].left \in Nat /\ job[h].target \in Host /\ job[h].caller \in Exec \cup {NoExec}
         /\ Len(job[h].batch) \in Nat /\ DOMAIN job[h].batch = 1 .. Len(job[h].batch)
         /\ job[h].step = "send" => job[h].next + job[h].count <= Len(job[h].batch)
<1>1. job[h] \in Job
  BY DEF SchedulerInv, TypeOK, Free
<1>2. job[h].batch \in Seq(Call)
  BY <1>1, Constants DEF Job, AllAssumptions
<1>3. Len(job[h].batch) \in Nat /\ DOMAIN job[h].batch = 1 .. Len(job[h].batch)
  BY <1>2
<1>4. /\ job[h].next < Len(job[h].batch)
      /\ job[h].step = "send" => job[h].next + job[h].count <= Len(job[h].batch)
  BY DEF SchedulerInv, LockInv, LockTypes
<1> QED
  BY <1>1, <1>3, <1>4 DEF Job

(* A step that gives up a job, or keeps what it still has to place.        *)
LEMMA JobGoesOn ==
  ASSUME SchedulerInv, JobInv, NEW h \in Host, job[h].step # "free", NEW j,
         job' = [job EXCEPT ![h] = j], pending' = pending,
         j.step # "free" => /\ j.batch = job[h].batch /\ j.next = job[h].next
                            /\ j.caller = job[h].caller
                            /\ Len(j.batch) = 1 => j.left = 1
                            /\ j.step = "send" => j.count # 0
  PROVE  JobInv' /\ \A c \in Call : Unplaced(c)' => Unplaced(c)
<1>1. \A g \in Host : job'[g] = IF g = h THEN j ELSE job[g]
  BY DEF SchedulerInv, TypeOK
<1>2. \A g \in Host : job'[g].step # "free" =>
        job[g].step # "free" /\ job'[g].batch = job[g].batch /\ job'[g].next = job[g].next
  BY <1>1
<1>3. JobInv'
  BY <1>1, <1>2 DEF JobInv, On
<1>4. \A c \in Call : Unplaced(c)' => Unplaced(c)
  BY <1>2 DEF Unplaced
<1> QED
  BY <1>3, <1>4

(* When a host gives a batch up, none of its calls is to be placed any more. *)
LEMMA JobGivenUp ==
  ASSUME SchedulerInv, JobInv, NEW h \in Host, job[h].step # "free",
         job' = [job EXCEPT ![h] = Free], pending' = pending
  PROVE  \A c \in Call : (\E k \in DOMAIN job[h].batch : job[h].batch[k] = c) => ~Unplaced(c)'
<1> DEFINE b == job[h].batch
<1>1. b \in Batch
  BY JobFacts
<1> SUFFICES ASSUME NEW c \in Call, NEW k \in DOMAIN b, b[k] = c, Unplaced(c)' PROVE FALSE
  OBVIOUS
<1>2. \A g \in Host : job'[g] = IF g = h THEN Free ELSE job[g]
  BY DEF SchedulerInv, TypeOK
<1>3. CASE \E a \in pending' : \E l \in DOMAIN a : a[l] = c
  <2>1. b \in pending
    BY <1>1, <1>3, OneBatchAssumption DEF SchedulerInv, TypeOK
  <2> QED
    BY <2>1 DEF JobInv
<1>4. CASE \E g \in Host : job'[g].step # "free" /\ \E l \in DOMAIN job'[g].batch :
             l > job'[g].next /\ job'[g].batch[l] = c
  <2>1. PICK g \in Host : g # h /\ job[g].step # "free" /\ \E l \in DOMAIN job[g].batch : job[g].batch[l] = c
    BY <1>2, <1>4 DEF Free
  <2>2. job[g].batch \in Batch
    BY <2>1, JobFacts
  <2>3. job[g].batch = b
    BY <1>1, <2>1, <2>2, OneBatchAssumption
  <2> QED
    BY <2>1, <2>3 DEF JobInv
<1> QED
  BY <1>3, <1>4 DEF Unplaced


LEMMA SubmitDispatches ==
  ASSUME SchedulerInv, JobInv, NEW h \in Host, NEW b \in Batch, NEW e \in Exec \cup {NoExec},
         CallFunctions(h, b, e)
  PROVE  Dispatches
<1> DEFINE n == LocalShare(h, b)
           s == SubSeq(b, 1, n)
           j == Offer(h, b, e)
<1>1. b \in Seq(Call) /\ Len(b) \in Nat \ {0} /\ DOMAIN b = 1 .. Len(b)
  BY Constants DEF AllAssumptions
<1>2. n \in Nat /\ n <= Len(b)
  BY <1>1, Constants DEF AllAssumptions, SchedulerInv, TypeOK, LocalShare, Least, AboveZero, Available
<1>3. PICK q \in Seq(Call) : q = s /\ IsPart(q, b, 0, n)
  <2> HIDE DEF n
  <2>1. 0 \in Nat /\ 0 + 1 = 1 /\ 0 <= n
    BY <1>2
  <2>2. IsPart(SubSeq(b, 0 + 1, n), b, 0, n)
    BY <1>2, <2>1, PartOfBatch
  <2>3. IsPart(s, b, 0, n)
    BY <2>1, <2>2
  <2> QED
    BY <2>3 DEF IsPart
<1>4. /\ PlaceHere(h, e, q) /\ job' = [job EXCEPT ![h] = j] /\ job[h].step = "free"
      /\ b \in pending /\ pending' = pending \ {b} /\ e \in Callers(h, b)
      /\ UNCHANGED <<execVars, runs, results>>
  BY <1>3 DEF CallFunctions, Unlocked
<1>5. e \in On(h) \cup {NoExec}
  BY <1>4 DEF Callers
<1>6. j.step # "free" => /\ n < Len(b) /\ j.step = "ask" /\ j.batch = b /\ j.next = n
                         /\ j.caller = e /\ j.left = Len(b) - n
  BY <1>1, <1>2 DEF Offer, Free
<1> HIDE DEF n, s, j
<1>7. \A g \in Host : job'[g] = IF g = h THEN j ELSE job[g]
  BY <1>4 DEF SchedulerInv, TypeOK
<1>8. \A g \in Host : job[g].step # "free" => job[g].batch # b
  BY <1>4 DEF JobInv
<1>9. \A c \in Call : Unplaced(c)' => Unplaced(c)
  <2> SUFFICES ASSUME NEW c \in Call, Unplaced(c)' PROVE Unplaced(c)
    OBVIOUS
  <2>1. CASE \E a \in pending' : \E k \in DOMAIN a : a[k] = c
    BY <1>4, <2>1 DEF Unplaced
  <2>2. CASE \E g \in Host : job'[g].step # "free" /\ \E k \in DOMAIN job'[g].batch :
               k > job'[g].next /\ job'[g].batch[k] = c
    BY <1>4, <1>6, <1>7, <2>2 DEF Unplaced
  <2> QED
    BY <2>1, <2>2 DEF Unplaced
<1>10. JobInv'
  <2> SUFFICES ASSUME NEW g \in Host, job'[g].step # "free"
               PROVE  /\ job'[g].batch \notin pending'
                      /\ job'[g].caller \in On(g) \cup {NoExec}
                      /\ \A f \in Host \ {g} : job'[f].step # "free" => job'[f].batch # job'[g].batch
                      /\ Len(job'[g].batch) = 1 => job'[g].left = 1
                      /\ job'[g].step = "send" => job'[g].count # 0
    BY DEF JobInv, On
  <2>1. CASE g = h
    <3>1. /\ job'[g].batch = b /\ job'[g].caller = e /\ job'[g].step = "ask"
          /\ job'[g].left = Len(b) - n /\ n < Len(b)
      BY <1>6, <1>7, <2>1
    <3>2. \A f \in Host \ {g} : job'[f] = job[f]
      BY <1>7, <2>1
    <3>3. b \notin pending' /\ job'[g].caller \in On(g) \cup {NoExec}
      BY <1>4, <1>5, <2>1, <3>1
    <3>4. \A f \in Host \ {g} : job'[f].step # "free" => job'[f].batch # b
      BY <1>8, <3>2
    <3>5. Len(b) = 1 => Len(b) - n = 1
      BY <1>1, <1>2, <3>1
    <3> QED
      BY <3>1, <3>3, <3>4, <3>5
  <2>2. CASE g # h
    <3>1. job[g].step # "free" /\ job'[g] = job[g]
      BY <1>7, <2>2
    <3>2. \A f \in Host \ {g} : job'[f].step # "free" => job'[f].batch # job'[g].batch
      BY <1>6, <1>7, <1>8, <3>1 DEF JobInv
    <3> QED
      BY <1>4, <3>1, <3>2 DEF JobInv
  <2> QED
    BY <2>1, <2>2
<1>11. \A c \in Call : (\E k \in DOMAIN q : q[k] = c) => Unplaced(c) /\ ~Unplaced(c)'
  <2> SUFFICES ASSUME NEW c \in Call, NEW k \in DOMAIN q, q[k] = c PROVE Unplaced(c) /\ ~Unplaced(c)'
    OBVIOUS
  <2>1. k \in DOMAIN b /\ b[k] = c /\ k <= n /\ k \in Nat
    BY <1>2, <1>3 DEF IsPart
  <2>2. Unplaced(c)
    BY <1>4, <2>1 DEF Unplaced
  <2>3. ASSUME NEW a \in pending', NEW l \in DOMAIN a, a[l] = c PROVE FALSE
    <3>1. a \in Batch /\ a # b
      BY <1>4, <2>3 DEF SchedulerInv, TypeOK
    <3> QED
      BY <2>1, <2>3, <3>1, OneBatchAssumption
  <2>4. ASSUME NEW g \in Host, job'[g].step # "free", NEW l \in DOMAIN job'[g].batch,
               l > job'[g].next, job'[g].batch[l] = c
        PROVE  FALSE
    <3>1. CASE g = h
      <4>1. job'[g].batch = b /\ job'[g].next = n
        BY <1>6, <1>7, <2>4, <3>1
      <4>2. l = k
        BY <2>1, <2>4, <4>1, OneBatchAssumption
      <4> QED
        BY <1>2, <2>1, <2>4, <4>1, <4>2
    <3>2. CASE g # h
      <4>1. job[g].step # "free" /\ job'[g] = job[g]
        BY <1>7, <2>4, <3>2
      <4>2. job[g].batch \in Batch
        BY <4>1, JobFacts
      <4> QED
        BY <1>8, <2>1, <2>4, <4>1, <4>2, OneBatchAssumption
    <3> QED
      BY <3>1, <3>2
  <2> QED
    BY <2>2, <2>3, <2>4 DEF Unplaced
<1>12. Placeable(h, e, q)
  BY <1>3, <1>5, <1>11 DEF Placeable, IsPart
<1> QED
  BY <1>3, <1>4, <1>9, <1>10, <1>12 DEF Dispatches

(* A step of h that keeps its batch and what is left of it. *)
AsksOn(h) ==
  \E k : /\ job' = [job EXCEPT ![h] = k]
         /\ k.batch = job[h].batch /\ k.next = job[h].next
         /\ k.caller = job[h].caller /\ k.left = job[h].left
         /\ k.step = "send" => k.count # 0

LEMMA AskDispatches ==
  ASSUME SchedulerInv, JobInv, NEW h \in Host, NEW t \in Host, AskHost(h, t) \/ ListHosts(h)
  PROVE  Dispatches
<1> DEFINE j == job[h]
<1>1. j.step = "ask" /\ UNCHANGED <<pending, hostVars, execVars, threads, runs, results>>
  BY DEF AskHost, ListHosts
<1>2. /\ j \in Job /\ j.next \in Nat /\ j.next < Len(j.batch) /\ Len(j.batch) \in Nat
      /\ Len(j.batch) = 1 => j.left = 1
  BY <1>1, JobFacts DEF JobInv
<1>3. AsksOn(h)
  <2>1. CASE ListHosts(h)
    <3> DEFINE k == [j EXCEPT !.new = TRUE,
                              !.todo = Host \ (registered[h][FuncOfBatch(j.batch)] \cup {h})]
    <3>1. job' = [job EXCEPT ![h] = k]
      BY <2>1 DEF ListHosts
    <3>2. /\ k.batch = j.batch /\ k.next = j.next /\ k.caller = j.caller /\ k.left = j.left
          /\ k.step = "ask"
      BY <1>1, <1>2 DEF Job
    <3> HIDE DEF k
    <3> QED
      BY <3>1, <3>2 DEF AsksOn
  <2>2. CASE AskHost(h, t) /\ NoneLeft(t)
    <3> DEFINE k == [j EXCEPT !.todo = @ \ {t}]
    <3>1. job' = [job EXCEPT ![h] = k]
      BY <2>2 DEF AskHost
    <3>2. /\ k.batch = j.batch /\ k.next = j.next /\ k.caller = j.caller /\ k.left = j.left
          /\ k.step = "ask"
      BY <1>1, <1>2 DEF Job
    <3> HIDE DEF k
    <3> QED
      BY <3>1, <3>2 DEF AsksOn
  <2>3. CASE AskHost(h, t) /\ ~NoneLeft(t)
    <3> DEFINE n == Least(Available(t), Len(j.batch) - j.next)
               k == [j EXCEPT !.step = "send", !.target = t, !.count = n]
    <3>1. job' = [job EXCEPT ![h] = k]
      BY <2>3 DEF AskHost
    <3>2. Available(t) \in Int /\ Available(t) > 0
      BY <2>3, Constants DEF AllAssumptions, SchedulerInv, TypeOK, NoneLeft, Available
    <3>3. n # 0
      BY <1>2, <3>2 DEF Least
    <3>4. k.batch = j.batch /\ k.next = j.next /\ k.caller = j.caller /\ k.left = j.left /\ k.count = n
      BY <1>2 DEF Job
    <3> HIDE DEF k
    <3> QED
      BY <3>1, <3>3, <3>4 DEF AsksOn
  <2> QED
    BY <2>1, <2>2, <2>3
<1>4. PICK k : /\ job' = [job EXCEPT ![h] = k]
               /\ k.batch = j.batch /\ k.next = j.next /\ k.caller = j.caller /\ k.left = j.left
               /\ k.step = "send" => k.count # 0
  BY <1>3 DEF AsksOn
<1>5. JobInv' /\ \A c \in Call : Unplaced(c)' => Unplaced(c)
  BY <1>1, <1>2, <1>4, JobGoesOn
<1> QED
  BY <1>1, <1>5 DEF Dispatches

(* The calls of an RPC that arrives. *)
LEMMA PortionPlaceable ==
  ASSUME SchedulerInv, JobInv, NEW h \in Host, job[h].step = "send", pending' = pending,
         Enqueue(job[h].target, Portion(job[h])), UNCHANGED threads,
         \/ job' = [job EXCEPT ![h] = Free]
         \/ Len(job[h].batch) # 1
  PROVE  \E g \in Host, e \in Exec \cup {NoExec}, s \in Seq(Call) : PlaceHere(g, e, s) /\ Placeable(g, e, s)
<1> DEFINE j == job[h]
           b == j.batch
           s == Portion(j)
<1>1. /\ b \in Batch /\ j.next \in Nat /\ j.count \in Nat /\ j.next + j.count <= Len(b)
      /\ j.target \in Host /\ job[h].step # "free" /\ Len(b) \in Nat
  BY JobFacts
<1>2. IsPart(s, b, j.next, j.next + j.count)
  <2> DEFINE m == j.next
             n == j.next + j.count
  <2>1. m \in Nat /\ n \in Nat /\ m <= n /\ n <= Len(b)
    BY <1>1
  <2>2. s = SubSeq(b, m + 1, n)
    BY DEF Portion
  <2> HIDE DEF n, s, m
  <2>3. IsPart(SubSeq(b, m + 1, n), b, m, n)
    BY <1>1, <2>1, PartOfBatch
  <2> QED
    BY <2>2, <2>3 DEF m, n
<1>3. PICK t \in Host, q \in Seq(Call) : t = j.target /\ q = s
  BY <1>1, <1>2 DEF IsPart
<1>4. PlaceHere(t, NoExec, q)
  BY <1>3 DEF PlaceHere
<1>5. \A k \in DOMAIN q : Unplaced(q[k])
  <2> SUFFICES ASSUME NEW k \in DOMAIN q PROVE Unplaced(q[k])
    OBVIOUS
  <2>1. j.next + k \in DOMAIN b /\ q[k] = b[j.next + k] /\ j.next + k > j.next
    BY <1>1, <1>2, <1>3 DEF IsPart
  <2> QED
    BY <1>1, <2>1 DEF Unplaced
<1>6. \A k \in DOMAIN q : <<q[k]>> \in Batch => ~Unplaced(q[k])'
  <2> SUFFICES ASSUME NEW k \in DOMAIN q, <<q[k]>> \in Batch PROVE ~Unplaced(q[k])'
    OBVIOUS
  <2>1. j.next + k \in DOMAIN b /\ q[k] = b[j.next + k] /\ q[k] \in Call
    BY <1>2, <1>3 DEF IsPart
  <2>2. Len(b) = 1
    BY <1>1, <2>1, SingleBatch
  <2>3. job' = [job EXCEPT ![h] = Free]
    BY <2>2
  <2> QED
    BY <1>1, <2>1, <2>3, JobGivenUp
<1>7. Placeable(t, NoExec, q)
  <2>1. /\ \A k \in DOMAIN q : FuncOf[q[k]] = FuncOfBatch(q)
        /\ \A k, l \in DOMAIN q : q[k] = q[l] => k = l
    BY <1>2, <1>3 DEF IsPart
  <2> QED
    BY <1>5, <1>6, <2>1 DEF Placeable
<1> QED
  BY <1>4, <1>7


LEMMA SendDispatches ==
  ASSUME SchedulerInv, JobInv, NEW h \in Host, SendTo(h)
  PROVE  Dispatches
<1> DEFINE j == job[h]
<1>1. /\ j.step = "send" /\ Enqueue(j.target, Portion(j)) /\ job' = [job EXCEPT ![h] = Sent(j)]
      /\ UNCHANGED <<pending, execVars, threads, runs, results>>
  BY DEF SendTo
<1>2. /\ j \in Job /\ j.left \in Nat /\ j.count \in Nat /\ job[h].step # "free"
      /\ Len(j.batch) = 1 => j.left = 1 /\ j.count # 0
  BY <1>1, JobFacts DEF JobInv
<1>3. /\ Sent(j).step # "free" => /\ Sent(j).batch = j.batch /\ Sent(j).next = j.next
                                  /\ Sent(j).caller = j.caller /\ Sent(j).step = "ask"
                                  /\ Len(j.batch) # 1
      /\ Sent(j) # Free => Len(j.batch) # 1
  <2>1. CASE j.left <= j.count
    BY <2>1 DEF Sent, Free
  <2>2. CASE ~(j.left <= j.count)
    <3> DEFINE k == [j EXCEPT !.step = "ask", !.left = @ - j.count, !.todo = @ \ {j.target}]
    <3>1. Sent(j) = k
      BY <2>2 DEF Sent
    <3>2. k.batch = j.batch /\ k.next = j.next /\ k.caller = j.caller /\ k.step = "ask"
      BY <1>2 DEF Job
    <3>3. Len(j.batch) # 1
      BY <1>2, <2>2
    <3> HIDE DEF k
    <3> QED
      BY <3>1, <3>2, <3>3
  <2> QED
    BY <2>1, <2>2
<1>4. JobInv' /\ \A c \in Call : Unplaced(c)' => Unplaced(c)
  <2> DEFINE k == Sent(j)
  <2>1. /\ job' = [job EXCEPT ![h] = k] /\ pending' = pending
        /\ k.step # "free" => /\ k.batch = job[h].batch /\ k.next = job[h].next
                              /\ k.caller = job[h].caller
                              /\ Len(k.batch) = 1 => k.left = 1
                              /\ k.step = "send" => k.count # 0
    BY <1>1, <1>3
  <2> HIDE DEF k
  <2> QED
    BY <1>2, <2>1, JobGoesOn
<1>5. job' = [job EXCEPT ![h] = Free] \/ Len(job[h].batch) # 1
  BY <1>1, <1>3
<1>6. \E g \in Host, e \in Exec \cup {NoExec}, s \in Seq(Call) : PlaceHere(g, e, s) /\ Placeable(g, e, s)
  BY <1>1, <1>5, PortionPlaceable
<1> QED
  BY <1>1, <1>4, <1>6 DEF Dispatches

LEMMA FailDispatches ==
  ASSUME SchedulerInv, JobInv, NEW h \in Host, RpcFails(h)
  PROVE  Dispatches
<1>1. /\ job[h].step # "free" /\ job' = [job EXCEPT ![h] = Free]
      /\ UNCHANGED <<pending, execVars, threads, runs, results>>
  BY DEF RpcFails, AfterFailure
<1>2. \/ UNCHANGED hostVars
      \/ job[h].step = "send" /\ Enqueue(job[h].target, Portion(job[h]))
  BY DEF RpcFails
<1>3. JobInv' /\ \A c \in Call : Unplaced(c)' => Unplaced(c)
  <2>1. Free.step = "free"
    BY DEF Free
  <2> QED
    BY <1>1, <2>1, JobGoesOn
<1>4. CASE UNCHANGED hostVars
  BY <1>1, <1>3, <1>4 DEF Dispatches
<1>5. CASE job[h].step = "send" /\ Enqueue(job[h].target, Portion(job[h]))
  <2>1. \E g \in Host, e \in Exec \cup {NoExec}, s \in Seq(Call) : PlaceHere(g, e, s) /\ Placeable(g, e, s)
    BY <1>1, <1>5, PortionPlaceable
  <2> QED
    BY <1>1, <1>3, <2>1 DEF Dispatches
<1> QED
  BY <1>2, <1>4, <1>5

LEMMA LastDispatches ==
  ASSUME SchedulerInv, JobInv, NEW h \in Host, ExecuteHere(h)
  PROVE  Dispatches
<1> DEFINE j == job[h]
           b == j.batch
           s == SubSeq(b, j.next + 1, Len(b))
<1>1. /\ j.step # "free" /\ job' = [job EXCEPT ![h] = Free] /\ PlaceHere(h, j.caller, s)
      /\ UNCHANGED <<pending, execVars, runs, results>>
  BY DEF ExecuteHere
<1>2. /\ b \in Batch /\ j.next \in Nat /\ Len(b) \in Nat /\ j.next < Len(b)
      /\ j.caller \in On(h) \cup {NoExec} /\ j.caller \in Exec \cup {NoExec}
  BY <1>1, JobFacts DEF JobInv
<1>3. IsPart(s, b, j.next, Len(b))
  BY <1>2, PartOfBatch
<1>4. PICK e \in Exec \cup {NoExec}, q \in Seq(Call) : e = j.caller /\ q = s
  BY <1>2, <1>3 DEF IsPart
<1> HIDE DEF s
<1>5. JobInv' /\ \A c \in Call : Unplaced(c)' => Unplaced(c)
  <2>1. Free.step = "free"
    BY DEF Free
  <2> QED
    BY <1>1, <2>1, JobGoesOn
<1>6. \A c \in Call : (\E k \in DOMAIN b : b[k] = c) => ~Unplaced(c)'
  BY <1>1, JobGivenUp
<1>7. \A k \in DOMAIN q : Unplaced(q[k]) /\ ~Unplaced(q[k])'
  <2> SUFFICES ASSUME NEW k \in DOMAIN q PROVE Unplaced(q[k]) /\ ~Unplaced(q[k])'
    OBVIOUS
  <2>1. j.next + k \in DOMAIN b /\ q[k] = b[j.next + k] /\ j.next + k > j.next /\ q[k] \in Call
    BY <1>2, <1>3, <1>4 DEF IsPart
  <2>2. Unplaced(q[k])
    BY <1>1, <2>1 DEF Unplaced
  <2>3. ~Unplaced(q[k])'
    BY <1>6, <2>1
  <2> QED
    BY <2>2, <2>3
<1>8. Placeable(h, e, q)
  <2>1. /\ \A k \in DOMAIN q : FuncOf[q[k]] = FuncOfBatch(q)
        /\ \A k, l \in DOMAIN q : q[k] = q[l] => k = l
    BY <1>3, <1>4 DEF IsPart
  <2> QED
    BY <1>2, <1>4, <1>7, <2>1 DEF Placeable
<1> QED
  BY <1>1, <1>4, <1>5, <1>8 DEF Dispatches

LEMMA EveryDispatch ==
  ASSUME SchedulerInv, JobInv, NEW h \in Host, Submit(h) \/ Dispatch(h)
  PROVE  Dispatches
<1>1. CASE Submit(h)
  BY <1>1, SubmitDispatches DEF Submit
<1>2. CASE Dispatch(h)
  <2>1. ASSUME NEW t \in Host, AskHost(h, t) PROVE Dispatches
    BY <2>1, AskDispatches
  <2>2. CASE ListHosts(h)
    BY <2>2, AskDispatches
  <2> QED
    BY <1>2, <2>1, <2>2, SendDispatches, FailDispatches, LastDispatches DEF Dispatch
<1> QED
  BY <1>1, <1>2

(* An executor leaves the batches and the dispatching hosts alone. *)
LEMMA ExecLeavesJobs ==
  ASSUME JobInv, NEW e \in Exec, ExecStep(e)
  PROVE  UNCHANGED dispatchVars /\ JobInv' /\ \A c \in Call : Unplaced(c)' <=> Unplaced(c)
<1>1. UNCHANGED dispatchVars
  BY DEF ExecStep, TakeBind, TakeCall, BeginWait, BoundTimeout, ExecuteCall, NotifyCallFinished,
         SetFunctionResult, NotifyFaasletFinished, FinishThread
<1>2. pending' = pending /\ job' = job
  BY <1>1 DEF dispatchVars
<1>3. JobInv'
  BY <1>2 DEF JobInv, On
<1>4. \A c \in Call : Unplaced(c)' <=> Unplaced(c)
  BY <1>2 DEF Unplaced
<1> QED
  BY <1>1, <1>3, <1>4


-----------------------------------------------------------------------------
(* Counters.                                                               *)

(* The pthreads of a module are calls that were placed, and a queue holds  *)
(* calls of its own function.                                              *)
ThreadInv == \A e \in Exec : IsFiniteSet(threads[e]) /\ \A c \in threads[e] : ~Unplaced(c)
QueueInv ==
  /\ \A h \in Host : IsFiniteSet(Queued(h, Func))
  /\ \A h \in Host, f \in Func : \A k \in DOMAIN queue[h][f] : FuncOf[queue[h][f][k]] = f

LEMMA FinitePlaces ==
  ASSUME TypeOK, ThreadInv, QueueInv, NEW h \in Host, NEW F \in SUBSET Func
  PROVE  /\ IsFiniteSet(Queued(h, F)) /\ Cardinality(Queued(h, F)) \in Nat
         /\ IsFiniteSet(Busy(h, F)) /\ Cardinality(Busy(h, F)) \in Nat
         /\ IsFiniteSet(Threads(h, F)) /\ Cardinality(Threads(h, F)) \in Nat
<1>1. IsFiniteSet(Queued(h, F))
  <2>1. Queued(h, F) \subseteq Queued(h, Func)
    BY DEF Queued
  <2> QED
    BY <2>1, FS_Subset DEF QueueInv
<1>2. IsFiniteSet(Busy(h, F))
  <2>1. Busy(h, F) \subseteq Exec
    BY DEF Busy, On
  <2> QED
    BY <2>1, FiniteAssumption, FS_Subset
<1>3. IsFiniteSet(Threads(h, F))
  <2> DEFINE of(e) == {e} \X {c \in threads[e] : FuncOf[c] \in F}
             S == {of(e) : e \in On(h)}
  <2>1. IsFiniteSet(On(h))
    BY FiniteAssumption, FS_Subset DEF On
  <2>2. [e \in On(h) |-> of(e)] \in Surjection(On(h), S)
    BY DEF Surjection
  <2>3. IsFiniteSet(S)
    <3> HIDE DEF of
    <3> QED
      BY <2>1, <2>2, FS_Surjection
  <2>4. \A T \in S : IsFiniteSet(T)
    <3> SUFFICES ASSUME NEW e \in On(h) PROVE IsFiniteSet(of(e))
      OBVIOUS
    <3>1. {c \in threads[e] : FuncOf[c] \in F} \subseteq threads[e] /\ IsFiniteSet(threads[e])
      BY DEF ThreadInv, On
    <3>2. IsFiniteSet({c \in threads[e] : FuncOf[c] \in F})
      BY <3>1, FS_Subset
    <3> QED
      BY <3>2, PairCount
  <2>5. IsFiniteSet(UNION S)
    BY <2>3, <2>4, FS_UNION
  <2> QED
    BY <2>5 DEF Threads
<1> QED
  BY <1>1, <1>2, <1>3, FS_CardinalityType

(* The same of a value of a host's queues, and of the executors' threads.  *)
QueuedIn(q, F) == UNION {{f} \X DOMAIN q[f] : f \in F}
ThreadsIn(t, h, F) == UNION {{e} \X {c \in t[e] : FuncOf[c] \in F} : e \in On(h)}

Appended(q, f, s) == [q EXCEPT ![f] = @ \o s]
Taken(q, f) == [q EXCEPT ![f] = Tail(@)]
Returned(t, e, s) == [t EXCEPT ![e] = @ \cup ToSet(s)]
Ended(t, e, c) == [t EXCEPT ![e] = @ \ {c}]

(* Calls appended to a queue. *)
LEMMA QueuedGrows ==
  ASSUME NEW q \in [Func -> Seq(Call)], NEW f \in Func, NEW s \in Seq(Call),
         NEW F \in SUBSET Func, IsFiniteSet(QueuedIn(q, F))
  PROVE  /\ IsFiniteSet(QueuedIn(Appended(q, f, s), F))
         /\ Cardinality(QueuedIn(Appended(q, f, s), F))
              = Cardinality(QueuedIn(q, F)) + (IF f \in F THEN Len(s) ELSE 0)
<1> DEFINE r == Appended(q, f, s)
           Q == QueuedIn(q, F)
           new == {f} \X (Len(q[f]) + 1 .. Len(q[f]) + Len(s))
<1>1. q[f] \in Seq(Call) /\ Len(q[f]) \in Nat /\ Len(s) \in Nat /\ DOMAIN q[f] = 1 .. Len(q[f])
  OBVIOUS
<1>2. /\ r[f] = q[f] \o s /\ \A x \in Func \ {f} : r[x] = q[x]
      /\ DOMAIN r[f] = DOMAIN q[f] \cup (Len(q[f]) + 1 .. Len(q[f]) + Len(s))
  BY <1>1 DEF Appended
<1>3. IsFiniteSet(Q) /\ Cardinality(Q) \in Nat
  BY FS_CardinalityType
<1>4. CASE f \in F
  <2>1. QueuedIn(r, F) = Q \cup new /\ Q \cap new = {}
    <3>1. \A k \in Len(q[f]) + 1 .. Len(q[f]) + Len(s) : k \notin DOMAIN q[f]
      BY <1>1
    <3>2. \A x \in F : DOMAIN r[x] = IF x = f THEN DOMAIN q[f] \cup (Len(q[f]) + 1 .. Len(q[f]) + Len(s))
                                     ELSE DOMAIN q[x]
      BY <1>2
    <3> QED
      BY <1>4, <3>1, <3>2 DEF QueuedIn
  <2>2. IsFiniteSet(new) /\ Cardinality(new) = Len(s)
    <3> DEFINE N == Len(q[f]) + 1 .. Len(q[f]) + Len(s)
    <3>1. IsFiniteSet(N) /\ Cardinality(N) = Len(s)
      BY <1>1, IndexCount
    <3> HIDE DEF N
    <3>2. IsFiniteSet({f} \X N) /\ Cardinality({f} \X N) = Cardinality(N)
      BY <3>1, PairCount
    <3> QED
      BY <3>1, <3>2 DEF N
  <2> HIDE DEF Q, new
  <2>3. Cardinality(Q \cap new) = 0
    BY <2>1, FS_EmptySet
  <2>4. IsFiniteSet(Q \cup new) /\ Cardinality(Q \cup new) = Cardinality(Q) + Cardinality(new) - Cardinality(Q \cap new)
    BY <1>3, <2>2, FS_Union
  <2>5. Cardinality(Q \cup new) = Cardinality(Q) + Len(s)
    BY <1>1, <1>3, <2>2, <2>3, <2>4
  <2> QED
    BY <1>4, <2>1, <2>4, <2>5 DEF Q
<1>5. CASE f \notin F
  <2>1. QueuedIn(r, F) = Q
    BY <1>2, <1>5 DEF QueuedIn
  <2> QED
    BY <1>3, <1>5, <2>1
<1> QED
  BY <1>4, <1>5

(* A call taken from the front of a queue. *)
LEMMA QueuedShrinks ==
  ASSUME NEW q \in [Func -> Seq(Call)], NEW f \in Func, q[f] # <<>>,
         NEW F \in SUBSET Func, IsFiniteSet(QueuedIn(q, F))
  PROVE  /\ IsFiniteSet(QueuedIn(Taken(q, f), F))
         /\ Cardinality(QueuedIn(Taken(q, f), F))
              = Cardinality(QueuedIn(q, F)) - (IF f \in F THEN 1 ELSE 0)
<1> DEFINE r == Taken(q, f)
           Q == QueuedIn(q, F)
           last == <<f, Len(q[f])>>
<1>1. /\ q[f] \in Seq(Call) /\ Len(q[f]) \in Nat \ {0} /\ DOMAIN q[f] = 1 .. Len(q[f])
      /\ DOMAIN Tail(q[f]) = 1 .. Len(q[f]) - 1
  OBVIOUS
<1>2. r[f] = Tail(q[f]) /\ \A x \in Func \ {f} : r[x] = q[x]
  BY DEF Taken
<1>3. IsFiniteSet(Q) /\ Cardinality(Q) \in Nat
  BY FS_CardinalityType
<1>4. CASE f \in F
  <2>1. QueuedIn(r, F) = Q \ {last} /\ last \in Q
    <3>0. 1 .. Len(q[f]) - 1 = (1 .. Len(q[f])) \ {Len(q[f])}
      BY <1>1
    <3>1. \A x \in F : DOMAIN r[x] = IF x = f THEN DOMAIN q[f] \ {Len(q[f])} ELSE DOMAIN q[x]
      BY <1>1, <1>2, <3>0
    <3>2. Len(q[f]) \in DOMAIN q[f]
      BY <1>1
    <3> QED
      BY <1>4, <3>1, <3>2 DEF QueuedIn
  <2> HIDE DEF Q, last
  <2>2. IsFiniteSet(Q \ {last}) /\ Cardinality(Q \ {last}) = Cardinality(Q) - 1
    BY <1>3, <2>1, FS_RemoveElement
  <2> QED
    BY <1>4, <2>1, <2>2 DEF Q
<1>5. CASE f \notin F
  <2>1. QueuedIn(r, F) = Q
    BY <1>2, <1>5 DEF QueuedIn
  <2> QED
    BY <1>3, <1>5, <2>1
<1> QED
  BY <1>4, <1>5

(* Calls that became pthreads of an executor. *)
LEMMA ThreadsGrow ==
  ASSUME NEW t \in [Exec -> SUBSET Call], NEW e \in Exec, NEW f \in Func, NEW s \in Seq(Call),
         \A k \in DOMAIN s : FuncOf[s[k]] = f /\ s[k] \notin t[e],
         \A k, l \in DOMAIN s : s[k] = s[l] => k = l,
         NEW h \in Host, NEW F \in SUBSET Func, IsFiniteSet(ThreadsIn(t, h, F))
  PROVE  Cardinality(ThreadsIn(Returned(t, e, s), h, F))
           = Cardinality(ThreadsIn(t, h, F)) + (IF h = HostOf[e] /\ f \in F THEN Len(s) ELSE 0)
<1> DEFINE u == Returned(t, e, s)
           T == ThreadsIn(t, h, F)
           new == {e} \X ToSet(s)
<1>1. Len(s) \in Nat /\ IsFiniteSet(T) /\ Cardinality(T) \in Nat
  BY FS_CardinalityType
<1>2. ToSet(s) = {s[k] : k \in DOMAIN s}
  BY DEF ToSet
<1>3. \A c \in ToSet(s) : FuncOf[c] = f /\ c \notin t[e]
  BY <1>2
<1>4. \A x \in Exec : u[x] = IF x = e THEN t[e] \cup ToSet(s) ELSE t[x]
  BY DEF Returned
<1>5. CASE h = HostOf[e] /\ f \in F
  <2>1. ThreadsIn(u, h, F) = T \cup new /\ T \cap new = {}
    BY <1>3, <1>4, <1>5 DEF ThreadsIn, On
  <2>2. IsFiniteSet(new) /\ Cardinality(new) = Len(s)
    <3> DEFINE S == ToSet(s)
    <3>1. IsFiniteSet(S) /\ Cardinality(S) = Len(s)
      BY ElementCount
    <3> HIDE DEF S
    <3>2. IsFiniteSet({e} \X S) /\ Cardinality({e} \X S) = Cardinality(S)
      BY <3>1, PairCount
    <3> QED
      BY <3>1, <3>2 DEF S
  <2> HIDE DEF T, new
  <2>3. Cardinality(T \cap new) = 0
    BY <2>1, FS_EmptySet
  <2>4. Cardinality(T \cup new) = Cardinality(T) + Cardinality(new) - Cardinality(T \cap new)
    BY <1>1, <2>2, FS_Union
  <2>5. Cardinality(T \cup new) = Cardinality(T) + Len(s)
    BY <1>1, <2>2, <2>3, <2>4
  <2> QED
    BY <1>5, <2>1, <2>5 DEF T
<1>6. CASE ~(h = HostOf[e] /\ f \in F)
  <2>1. ThreadsIn(u, h, F) = T
    BY <1>3, <1>4, <1>6 DEF ThreadsIn, On
  <2> QED
    BY <1>1, <1>6, <2>1
<1> QED
  BY <1>5, <1>6

(* A pthread that ended. *)
LEMMA ThreadsShrink ==
  ASSUME NEW t \in [Exec -> SUBSET Call], NEW e \in Exec, NEW c \in t[e],
         NEW h \in Host, NEW F \in SUBSET Func, IsFiniteSet(ThreadsIn(t, h, F))
  PROVE  /\ Cardinality(ThreadsIn(Ended(t, e, c), h, F))
              = Cardinality(ThreadsIn(t, h, F)) - (IF h = HostOf[e] /\ FuncOf[c] \in F THEN 1 ELSE 0)
         /\ h = HostOf[e] /\ FuncOf[c] \in F => Cardinality(ThreadsIn(t, h, F)) # 0
<1> DEFINE u == Ended(t, e, c)
           T == ThreadsIn(t, h, F)
           p == <<e, c>>
<1>1. IsFiniteSet(T) /\ Cardinality(T) \in Nat
  BY FS_CardinalityType
<1>2. \A x \in Exec : u[x] = IF x = e THEN t[e] \ {c} ELSE t[x]
  BY DEF Ended
<1>3. CASE h = HostOf[e] /\ FuncOf[c] \in F
  <2>1. ThreadsIn(u, h, F) = T \ {p} /\ p \in T
    BY <1>2, <1>3 DEF ThreadsIn, On
  <2> HIDE DEF T, p
  <2>2. IsFiniteSet(T \ {p}) /\ Cardinality(T \ {p}) = Cardinality(T) - 1 /\ Cardinality(T \ {p}) \in Nat
    BY <1>1, <2>1, FS_RemoveElement, FS_CardinalityType
  <2>3. Cardinality(T) = 0 => FALSE
    BY <1>1, <2>2
  <2> QED
    BY <1>1, <1>3, <2>1, <2>2, <2>3 DEF T
<1>4. CASE ~(h = HostOf[e] /\ FuncOf[c] \in F)
  <2>1. ThreadsIn(u, h, F) = T
    BY <1>2, <1>4 DEF ThreadsIn, On
  <2> QED
    BY <1>1, <1>4, <2>1
<1> QED
  BY <1>3, <1>4


(* What a step that adds n calls of f to host g does to the counters. *)
LEMMA CountersUp ==
  ASSUME TypeOK, InFlightExact, NEW g \in Host, NEW f \in Func, NEW n \in Nat, InFlight(g, f, n),
         \A h \in Host : \A F \in SUBSET Func :
           /\ Placed(h, F) \in Nat
           /\ Placed(h, F)' = Placed(h, F) + (IF h = g /\ f \in F THEN n ELSE 0)
  PROVE  InFlightExact'
<1>1. /\ inFlight' = [inFlight EXCEPT ![g][f] = @ + n] /\ running' = [running EXCEPT ![g] = @ + n]
      /\ inFlight \in [Host -> [Func -> Nat]] /\ running \in [Host -> Nat]
  BY DEF InFlight, TypeOK
<1>2. ASSUME NEW h \in Host, NEW x \in Func PROVE inFlight'[h][x] = Placed(h, {x})'
  <2>1. inFlight[h][x] = Placed(h, {x}) /\ {x} \in SUBSET Func
    BY DEF InFlightExact
  <2>2. inFlight'[h][x] = inFlight[h][x] + (IF h = g /\ f = x THEN n ELSE 0)
    <3>1. inFlight'[h] = IF h = g THEN [inFlight[h] EXCEPT ![f] = @ + n] ELSE inFlight[h]
      BY <1>1
    <3>2. inFlight[h] \in [Func -> Nat]
      BY <1>1
    <3> QED
      BY <3>1, <3>2
  <2>3. Placed(h, {x})' = Placed(h, {x}) + (IF h = g /\ f \in {x} THEN n ELSE 0)
    BY <2>1
  <2> QED
    BY <2>1, <2>2, <2>3
<1>3. ASSUME NEW h \in Host PROVE running'[h] = Placed(h, Func)'
  <2>1. running[h] = Placed(h, Func) /\ Func \in SUBSET Func
    BY DEF InFlightExact
  <2>2. Placed(h, Func)' = Placed(h, Func) + (IF h = g /\ f \in Func THEN n ELSE 0)
    BY <2>1
  <2> QED
    BY <1>1, <2>1, <2>2
<1> QED
  BY <1>2, <1>3 DEF InFlightExact

(* The same when a call leaves: the counters do not stop at zero. *)
LEMMA CountersDown ==
  ASSUME TypeOK, InFlightExact, NEW g \in Host, NEW c \in Call, LeaveFlight(g, c),
         \A h \in Host : \A F \in SUBSET Func :
           /\ Placed(h, F) \in Nat
           /\ h = g /\ FuncOf[c] \in F => Placed(h, F) # 0
           /\ Placed(h, F)' = Placed(h, F) - (IF h = g /\ FuncOf[c] \in F THEN 1 ELSE 0)
  PROVE  InFlightExact'
<1> DEFINE f == FuncOf[c]
<1>1. /\ inFlight' = [inFlight EXCEPT ![g][f] = AboveZero(@ - 1)]
      /\ running' = [running EXCEPT ![g] = AboveZero(@ - 1)]
      /\ inFlight \in [Host -> [Func -> Nat]] /\ running \in [Host -> Nat] /\ f \in Func
  BY Constants DEF LeaveFlight, TypeOK, AllAssumptions
<1>2. ASSUME NEW h \in Host, NEW x \in Func PROVE inFlight'[h][x] = Placed(h, {x})'
  <2>1. inFlight[h][x] = Placed(h, {x}) /\ {x} \in SUBSET Func
    BY DEF InFlightExact
  <2>2. inFlight'[h][x] = IF h = g /\ f = x THEN AboveZero(inFlight[h][x] - 1) ELSE inFlight[h][x]
    <3>1. inFlight'[h] = IF h = g THEN [inFlight[h] EXCEPT ![f] = AboveZero(@ - 1)] ELSE inFlight[h]
      BY <1>1
    <3>2. inFlight[h] \in [Func -> Nat]
      BY <1>1
    <3> QED
      BY <3>1, <3>2
  <2>3. /\ Placed(h, {x}) \in Nat /\ (h = g /\ f \in {x} => Placed(h, {x}) # 0)
        /\ Placed(h, {x})' = Placed(h, {x}) - (IF h = g /\ f \in {x} THEN 1 ELSE 0)
    BY <2>1
  <2> QED
    BY <2>1, <2>2, <2>3 DEF AboveZero
<1>3. ASSUME NEW h \in Host PROVE running'[h] = Placed(h, Func)'
  <2>1. running[h] = Placed(h, Func) /\ Func \in SUBSET Func
    BY DEF InFlightExact
  <2>2. /\ Placed(h, Func) \in Nat /\ (h = g /\ f \in Func => Placed(h, Func) # 0)
        /\ Placed(h, Func)' = Placed(h, Func) - (IF h = g /\ f \in Func THEN 1 ELSE 0)
    BY <2>1
  <2> QED
    BY <1>1, <2>1, <2>2 DEF AboveZero
<1> QED
  BY <1>2, <1>3 DEF InFlightExact

LEMMA PlacedNat ==
  ASSUME TypeOK, ThreadInv, QueueInv, NEW h \in Host, NEW F \in SUBSET Func
  PROVE  Placed(h, F) \in Nat
BY FinitePlaces DEF Placed

LEMMA SameCounters ==
  ASSUME InFlightExact, UNCHANGED <<inFlight, running>>,
         \A h \in Host : \A F \in SUBSET Func : Placed(h, F)' = Placed(h, F)
  PROVE  InFlightExact'
BY DEF InFlightExact

CounterInv == ThreadInv /\ QueueInv /\ InFlightExact

(* A call that was placed stays placed. *)
StayPlaced == \A c \in Call : Unplaced(c)' => Unplaced(c)

LEMMA PlaceCounters ==
  ASSUME TypeOK, CounterInv, NEW g \in Host, NEW e \in Exec \cup {NoExec}, NEW s \in Seq(Call),
         PlaceHere(g, e, s), Placeable(g, e, s), UNCHANGED execVars, StayPlaced
  PROVE  CounterInv'
<1> DEFINE f == FuncOfBatch(s)
<1> USE DEF CounterInv
<1>1. /\ \A h \in Host, F \in SUBSET Func : Busy(h, F)' = Busy(h, F)
      /\ \A h \in Host, F \in SUBSET Func :
           /\ Cardinality(Queued(h, F)) \in Nat /\ Cardinality(Busy(h, F)) \in Nat
           /\ Cardinality(Threads(h, F)) \in Nat /\ Placed(h, F) \in Nat
  BY FinitePlaces, PlacedNat DEF Busy, On, execVars
<1>2. CASE UNCHANGED <<hostVars, threads>>
  <2>1. \A h \in Host, F \in SUBSET Func : Queued(h, F)' = Queued(h, F) /\ Threads(h, F)' = Threads(h, F)
    BY <1>2 DEF Queued, Threads, On, hostVars
  <2>2. \A h \in Host : \A F \in SUBSET Func : Placed(h, F)' = Placed(h, F)
    BY <1>1, <2>1 DEF Placed
  <2>3. InFlightExact'
    BY <1>2, <2>2, SameCounters DEF hostVars
  <2>4. ThreadInv'
    BY <1>2 DEF ThreadInv, TypeOK, StayPlaced
  <2>5. QueueInv'
    BY <1>2, <2>1 DEF QueueInv, hostVars
  <2> QED
    BY <2>3, <2>4, <2>5
<1>3. CASE s # <<>> /\ e = NoExec /\ UNCHANGED threads /\ Enqueue(g, s)
  <2>1. f \in Func /\ Len(s) \in Nat
    BY <1>3, FuncOfSeq
  <2>2. queue' = [queue EXCEPT ![g][f] = @ \o s] /\ InFlight(g, f, Len(s))
    BY <1>3 DEF Enqueue
  <2>3. ASSUME NEW h \in Host, NEW F \in SUBSET Func
        PROVE  /\ IsFiniteSet(Queued(h, F))'
               /\ Cardinality(Queued(h, F))'
                    = Cardinality(Queued(h, F)) + (IF h = g /\ f \in F THEN Len(s) ELSE 0)
    <3> HIDE DEF f
    <3> DEFINE q == queue[h]
               r == queue'[h]
    <3>1. Queued(h, F) = QueuedIn(q, F) /\ Queued(h, F)' = QueuedIn(r, F)
      BY DEF Queued, QueuedIn
    <3>2. q \in [Func -> Seq(Call)] /\ r = IF h = g THEN [q EXCEPT ![f] = @ \o s] ELSE q
      BY <2>2 DEF TypeOK
    <3>3. IsFiniteSet(QueuedIn(q, F)) /\ Cardinality(QueuedIn(q, F)) \in Nat
      BY <3>1, FinitePlaces
    <3> HIDE DEF q, r
    <3>4. CASE h = g
      <4>1. r = Appended(q, f, s)
        BY <3>2, <3>4 DEF Appended
      <4>2. /\ IsFiniteSet(QueuedIn(Appended(q, f, s), F))
            /\ Cardinality(QueuedIn(Appended(q, f, s), F))
                 = Cardinality(QueuedIn(q, F)) + (IF f \in F THEN Len(s) ELSE 0)
        <5>1. q \in [Func -> Seq(Call)] /\ f \in Func /\ IsFiniteSet(QueuedIn(q, F))
          BY <2>1, <3>2, <3>3
        <5> QED
          BY <5>1, QueuedGrows
      <4> QED
        BY <3>1, <3>4, <4>1, <4>2
    <3>5. CASE h # g
      BY <3>1, <3>2, <3>3, <3>5
    <3> QED
      BY <3>4, <3>5
  <2>4. \A h \in Host, F \in SUBSET Func : Threads(h, F)' = Threads(h, F)
    BY <1>3 DEF Threads, On
  <2>5. \A h \in Host : \A F \in SUBSET Func :
          /\ Placed(h, F) \in Nat
          /\ Placed(h, F)' = Placed(h, F) + (IF h = g /\ f \in F THEN Len(s) ELSE 0)
    <3> SUFFICES ASSUME NEW h \in Host, NEW F \in SUBSET Func
                 PROVE  Placed(h, F)' = Placed(h, F) + (IF h = g /\ f \in F THEN Len(s) ELSE 0)
      BY <1>1
    <3> HIDE DEF f
    <3>1. Cardinality(Queued(h, F))'
            = Cardinality(Queued(h, F)) + (IF h = g /\ f \in F THEN Len(s) ELSE 0)
      BY <2>3
    <3>2. Busy(h, F)' = Busy(h, F) /\ Threads(h, F)' = Threads(h, F)
      BY <1>1, <2>4
    <3>3. /\ Cardinality(Queued(h, F)) \in Nat /\ Cardinality(Busy(h, F)) \in Nat
          /\ Cardinality(Threads(h, F)) \in Nat /\ Len(s) \in Nat
      BY <1>1, <2>1
    <3> QED
      BY <3>1, <3>2, <3>3 DEF Placed
  <2>6. InFlightExact'
    <3> HIDE DEF f
    <3> QED
      BY <2>1, <2>2, <2>5, CountersUp
  <2>7. ThreadInv'
    BY <1>3 DEF ThreadInv, TypeOK, StayPlaced
  <2>8. QueueInv'
    <3>1. \A h \in Host : IsFiniteSet(Queued(h, Func))'
      BY <2>3
    <3>2. ASSUME NEW h \in Host, NEW x \in Func, NEW k \in DOMAIN queue'[h][x]
          PROVE  FuncOf[queue'[h][x][k]] = x
      <4>1. \A l \in DOMAIN queue[h][x] : FuncOf[queue[h][x][l]] = x
        BY DEF QueueInv
      <4>2. \A l \in DOMAIN s : FuncOf[s[l]] = f
        BY DEF Placeable
      <4>3. queue[h][x] \in Seq(Call)
        BY DEF TypeOK
      <4>4. CASE h = g /\ x = f
        <5>1. queue'[h][x] = queue[h][x] \o s
          BY <2>1, <2>2, <4>4 DEF TypeOK
        <5> HIDE DEF f
        <5> QED
          BY <3>2, <4>1, <4>2, <4>3, <4>4, <5>1
      <4>5. CASE ~(h = g /\ x = f)
        <5>1. queue'[h][x] = queue[h][x]
          <6>1. queue'[h] = IF h = g THEN [queue[h] EXCEPT ![f] = @ \o s] ELSE queue[h]
            BY <2>2 DEF TypeOK
          <6>2. queue[h] \in [Func -> Seq(Call)]
            BY DEF TypeOK
          <6> QED
            BY <4>5, <6>1, <6>2
        <5> QED
          BY <3>2, <4>1, <5>1
      <4> QED
        BY <4>4, <4>5
    <3> QED
      BY <3>1, <3>2 DEF QueueInv
  <2> QED
    BY <2>6, <2>7, <2>8
<1>4. CASE s # <<>> /\ e # NoExec /\ ReturnThreads(g, e, s)
  <2>1. f \in Func /\ Len(s) \in Nat
    BY <1>4, FuncOfSeq
  <2>2. /\ InFlight(g, f, Len(s)) /\ threads' = [threads EXCEPT ![e] = @ \cup ToSet(s)]
        /\ UNCHANGED queue
    BY <1>4 DEF ReturnThreads
  <2>3. e \in Exec /\ HostOf[e] = g
    BY <1>4 DEF Placeable, On
  <2>4. /\ \A k \in DOMAIN s : FuncOf[s[k]] = f /\ s[k] \notin threads[e]
        /\ \A k, l \in DOMAIN s : s[k] = s[l] => k = l
    BY <2>3 DEF Placeable, ThreadInv
  <2>5. ASSUME NEW h \in Host, NEW F \in SUBSET Func
        PROVE  Cardinality(Threads(h, F))'
                 = Cardinality(Threads(h, F)) + (IF h = g /\ f \in F THEN Len(s) ELSE 0)
    <3> HIDE DEF f
    <3> DEFINE t == threads
               u == threads'
    <3>1. Threads(h, F) = ThreadsIn(t, h, F) /\ Threads(h, F)' = ThreadsIn(u, h, F)
      BY DEF Threads, ThreadsIn, On
    <3>2. t \in [Exec -> SUBSET Call] /\ u = Returned(t, e, s)
      BY <2>2 DEF TypeOK, Returned
    <3>3. IsFiniteSet(ThreadsIn(t, h, F))
      BY <3>1, FinitePlaces
    <3>4. \A k \in DOMAIN s : FuncOf[s[k]] = f /\ s[k] \notin t[e]
      BY <2>4
    <3> HIDE DEF t, u
    <3>5. Cardinality(ThreadsIn(u, h, F))
            = Cardinality(ThreadsIn(t, h, F)) + (IF h = HostOf[e] /\ f \in F THEN Len(s) ELSE 0)
      BY <2>1, <2>3, <2>4, <3>2, <3>3, <3>4, ThreadsGrow
    <3> QED
      BY <2>3, <3>1, <3>5
  <2>6. \A h \in Host, F \in SUBSET Func : Queued(h, F)' = Queued(h, F)
    BY <2>2 DEF Queued
  <2>7. \A h \in Host : \A F \in SUBSET Func :
          /\ Placed(h, F) \in Nat
          /\ Placed(h, F)' = Placed(h, F) + (IF h = g /\ f \in F THEN Len(s) ELSE 0)
    <3> SUFFICES ASSUME NEW h \in Host, NEW F \in SUBSET Func
                 PROVE  Placed(h, F)' = Placed(h, F) + (IF h = g /\ f \in F THEN Len(s) ELSE 0)
      BY <1>1
    <3> HIDE DEF f
    <3>1. Cardinality(Threads(h, F))'
            = Cardinality(Threads(h, F)) + (IF h = g /\ f \in F THEN Len(s) ELSE 0)
      BY <2>5
    <3>2. Busy(h, F)' = Busy(h, F) /\ Queued(h, F)' = Queued(h, F)
      BY <1>1, <2>6
    <3>3. /\ Cardinality(Queued(h, F)) \in Nat /\ Cardinality(Busy(h, F)) \in Nat
          /\ Cardinality(Threads(h, F)) \in Nat /\ Len(s) \in Nat
      BY <1>1, <2>1
    <3> QED
      BY <3>1, <3>2, <3>3 DEF Placed
  <2>8. InFlightExact'
    <3> HIDE DEF f
    <3> QED
      BY <2>1, <2>2, <2>7, CountersUp
  <2>9. ThreadInv'
    <3>1. \A c \in ToSet(s) : ~Unplaced(c)'
      BY <1>4 DEF Placeable, ToSet
    <3>2. IsFiniteSet(ToSet(s))
      BY <2>4, ElementCount
    <3> SUFFICES ASSUME NEW u \in Exec
                 PROVE  IsFiniteSet(threads'[u]) /\ \A c \in threads'[u] : ~Unplaced(c)'
      BY DEF ThreadInv
    <3>3. IsFiniteSet(threads[u]) /\ \A c \in threads[u] : c \in Call /\ ~Unplaced(c)
      BY DEF ThreadInv, TypeOK
    <3>4. threads'[u] = IF u = e THEN threads[u] \cup ToSet(s) ELSE threads[u]
      BY <2>2, <2>3 DEF TypeOK
    <3>5. IsFiniteSet(threads[u] \cup ToSet(s))
      BY <3>2, <3>3, FS_Union
    <3> QED
      BY <3>1, <3>3, <3>4, <3>5 DEF StayPlaced
  <2>10. QueueInv'
    BY <2>2, <2>6 DEF QueueInv
  <2> QED
    BY <2>8, <2>9, <2>10
<1> QED
  <2>1. CASE s = <<>>
    <3>1. ToSet(s) = {}
      BY <2>1 DEF ToSet
    <3>2. CASE e = NoExec /\ Enqueue(g, s) /\ UNCHANGED threads
      BY <1>2, <2>1, <3>2 DEF Enqueue
    <3>3. CASE e # NoExec /\ ReturnThreads(g, e, s)
      <4>1. /\ threads' = [threads EXCEPT ![e] = @ \cup {}]
            /\ UNCHANGED <<queue, bindQueue, inFlight, running, faaslets>>
        BY <2>1, <3>1, <3>3 DEF ReturnThreads
      <4>2. threads' = threads
        BY <4>1 DEF TypeOK
      <4> QED
        BY <1>2, <4>1, <4>2 DEF hostVars
    <3> QED
      BY <3>2, <3>3 DEF PlaceHere
  <2> QED
    BY <1>3, <1>4, <2>1 DEF PlaceHere


(* A step that moves no call in or out of a host's places. *)
LEMMA SamePlaces ==
  ASSUME TypeOK, CounterInv, UNCHANGED <<queue, threads, msg, inFlight, running>>, StayPlaced,
         \A e \in Exec : pc'[e] \in {"executing", "notify"} <=> pc[e] \in {"executing", "notify"}
  PROVE  CounterInv'
<1> USE DEF CounterInv
<1>1. \A h \in Host, F \in SUBSET Func :
        Queued(h, F)' = Queued(h, F) /\ Busy(h, F)' = Busy(h, F) /\ Threads(h, F)' = Threads(h, F)
  BY DEF Queued, Busy, Threads, On
<1>2. \A h \in Host : \A F \in SUBSET Func : Placed(h, F)' = Placed(h, F)
  BY <1>1 DEF Placed
<1>3. InFlightExact'
  BY <1>2, SameCounters
<1>4. ThreadInv'
  BY DEF ThreadInv, TypeOK, StayPlaced
<1>5. QueueInv'
  BY <1>1 DEF QueueInv
<1> QED
  BY <1>3, <1>4, <1>5

(* A call moves from its queue to the executor that takes it. *)
LEMMA TakeCounters ==
  ASSUME TypeOK, CounterInv, NEW e \in Exec, TakeCall(e), StayPlaced
  PROVE  CounterInv'
<1> DEFINE g == HostOf[e]
           f == bound[e]
<1> USE DEF CounterInv
<1>1. g \in Host /\ f \in Func /\ queue[g][f] \in Seq(Call) /\ queue[g][f] # <<>>
  <2>1. g \in Host /\ f \in Func
    BY Constants DEF AllAssumptions, TypeOK
  <2>2. OwnQueue(e) # <<>>
    BY DEF TakeCall
  <2> QED
    BY <2>1, <2>2 DEF TypeOK, OwnQueue
<1>2. /\ queue' = [queue EXCEPT ![g][f] = Tail(@)] /\ msg' = [msg EXCEPT ![e] = Head(queue[g][f])]
      /\ pc' = [pc EXCEPT ![e] = "executing"] /\ pc[e] \in {"bound", "waiting"}
      /\ UNCHANGED <<threads, inFlight, running>>
  BY DEF TakeCall, OwnQueue
<1>3. FuncOf[Head(queue[g][f])] = f
  BY <1>1 DEF QueueInv
<1>4. ASSUME NEW h \in Host, NEW F \in SUBSET Func
      PROVE  /\ IsFiniteSet(Queued(h, F))'
             /\ Cardinality(Queued(h, F))'
                  = Cardinality(Queued(h, F)) - (IF h = g /\ f \in F THEN 1 ELSE 0)
  <2> DEFINE q == queue[h]
             r == queue'[h]
  <2>1. Queued(h, F) = QueuedIn(q, F) /\ Queued(h, F)' = QueuedIn(r, F)
    BY DEF Queued, QueuedIn
  <2>2. /\ q \in [Func -> Seq(Call)] /\ r = IF h = g THEN [q EXCEPT ![f] = Tail(@)] ELSE q
        /\ h = g => q[f] # <<>>
    BY <1>1, <1>2 DEF TypeOK
  <2>3. IsFiniteSet(QueuedIn(q, F)) /\ Cardinality(QueuedIn(q, F)) \in Nat
    BY <2>1, FinitePlaces
  <2> HIDE DEF g, f, q, r
  <2>4. CASE h = g
    <3>1. r = Taken(q, f)
      BY <2>2, <2>4 DEF Taken
    <3>2. /\ IsFiniteSet(QueuedIn(Taken(q, f), F))
          /\ Cardinality(QueuedIn(Taken(q, f), F))
               = Cardinality(QueuedIn(q, F)) - (IF f \in F THEN 1 ELSE 0)
      <4>1. q \in [Func -> Seq(Call)] /\ f \in Func /\ IsFiniteSet(QueuedIn(q, F)) /\ q[f] # <<>>
        BY <1>1, <2>2, <2>3, <2>4
      <4> QED
        BY <4>1, QueuedShrinks
    <3> QED
      BY <2>1, <2>4, <3>1, <3>2
  <2>5. CASE h # g
    BY <2>1, <2>2, <2>3, <2>5
  <2> QED
    BY <2>4, <2>5
<1>5. ASSUME NEW h \in Host, NEW F \in SUBSET Func
      PROVE  Cardinality(Busy(h, F))'
               = Cardinality(Busy(h, F)) + (IF h = g /\ f \in F THEN 1 ELSE 0)
  <2> DEFINE B == Busy(h, F)
  <2>1. e \notin B
    BY <1>2 DEF Busy
  <2>2. Busy(h, F)' = IF h = g /\ f \in F THEN B \cup {e} ELSE B
    <3>1. \A u \in Exec : /\ pc'[u] = IF u = e THEN "executing" ELSE pc[u]
                          /\ msg'[u] = IF u = e THEN Head(queue[g][f]) ELSE msg[u]
      BY <1>2 DEF TypeOK
    <3> QED
      BY <1>2, <1>3, <3>1 DEF Busy, On
  <2>3. IsFiniteSet(B) /\ Cardinality(B) \in Nat
    BY FinitePlaces
  <2> HIDE DEF B
  <2>4. Cardinality(B \cup {e}) = Cardinality(B) + 1
    BY <2>1, <2>3, FS_AddElement
  <2> HIDE DEF g, f
  <2>5. CASE h = g /\ f \in F
    <3>1. Busy(h, F)' = B \cup {e}
      BY <2>2, <2>5
    <3> QED
      BY <2>4, <2>5, <3>1 DEF B
  <2>6. CASE ~(h = g /\ f \in F)
    <3>1. Busy(h, F)' = B
      BY <2>2, <2>6
    <3> QED
      BY <2>3, <2>6, <3>1 DEF B
  <2> QED
    BY <2>5, <2>6
<1>6. \A h \in Host : \A F \in SUBSET Func : Placed(h, F)' = Placed(h, F)
  <2> SUFFICES ASSUME NEW h \in Host, NEW F \in SUBSET Func PROVE Placed(h, F)' = Placed(h, F)
    OBVIOUS
  <2> HIDE DEF g, f
  <2>1. Cardinality(Queued(h, F))'
          = Cardinality(Queued(h, F)) - (IF h = g /\ f \in F THEN 1 ELSE 0)
    BY <1>4
  <2>2. Cardinality(Busy(h, F))'
          = Cardinality(Busy(h, F)) + (IF h = g /\ f \in F THEN 1 ELSE 0)
    BY <1>5
  <2>3. Threads(h, F)' = Threads(h, F)
    BY <1>2 DEF Threads, On
  <2>4. /\ Cardinality(Queued(h, F)) \in Nat /\ Cardinality(Busy(h, F)) \in Nat
        /\ Cardinality(Threads(h, F)) \in Nat
    BY FinitePlaces
  <2> QED
    BY <2>1, <2>2, <2>3, <2>4 DEF Placed
<1>7. InFlightExact'
  BY <1>2, <1>6, SameCounters
<1>8. ThreadInv'
  BY <1>2 DEF ThreadInv, TypeOK, StayPlaced
<1>9. QueueInv'
  <2>1. \A h \in Host : IsFiniteSet(Queued(h, Func))'
    BY <1>4
  <2>2. ASSUME NEW h \in Host, NEW x \in Func, NEW k \in DOMAIN queue'[h][x]
        PROVE  FuncOf[queue'[h][x][k]] = x
    <3>1. queue[h][x] \in Seq(Call) /\ \A l \in DOMAIN queue[h][x] : FuncOf[queue[h][x][l]] = x
      BY DEF TypeOK, QueueInv
    <3>2. CASE h = g /\ x = f
      <4>1. queue'[h][x] = Tail(queue[h][x]) /\ queue[h][x] # <<>>
        BY <1>1, <1>2, <3>2 DEF TypeOK
      <4>2. k + 1 \in DOMAIN queue[h][x] /\ queue'[h][x][k] = queue[h][x][k + 1]
        BY <2>2, <3>1, <4>1
      <4> QED
        BY <3>1, <4>2
    <3>3. CASE ~(h = g /\ x = f)
      <4>1. queue'[h][x] = queue[h][x]
        <5>1. queue'[h] = IF h = g THEN [queue[h] EXCEPT ![f] = Tail(@)] ELSE queue[h]
          BY <1>2 DEF TypeOK
        <5>2. queue[h] \in [Func -> Seq(Call)]
          BY DEF TypeOK
        <5> QED
          BY <3>3, <5>1, <5>2
      <4> QED
        BY <2>2, <3>1, <4>1
    <3> QED
      BY <3>2, <3>3
  <2> QED
    BY <2>1, <2>2 DEF QueueInv
<1> QED
  BY <1>7, <1>8, <1>9

(* A call was executed: it leaves its executor, and the counters. *)
LEMMA NotifyCounters ==
  ASSUME TypeOK, CounterInv, NEW e \in Exec, NotifyCallFinished(e), StayPlaced
  PROVE  CounterInv'
<1> DEFINE g == HostOf[e]
           m == msg[e]
<1> USE DEF CounterInv
<1>1. g \in Host /\ m \in Call
  BY Constants DEF AllAssumptions, TypeOK
<1>2. /\ LeaveFlight(g, m) /\ pc[e] = "notify" /\ pc' = [pc EXCEPT ![e] = "publish"]
      /\ UNCHANGED <<queue, threads, msg>>
  BY DEF NotifyCallFinished
<1>3. \A h \in Host, F \in SUBSET Func : Queued(h, F)' = Queued(h, F) /\ Threads(h, F)' = Threads(h, F)
  BY <1>2 DEF Queued, Threads, On
<1>4. \A h \in Host : \A F \in SUBSET Func :
        /\ Placed(h, F) \in Nat
        /\ h = g /\ FuncOf[m] \in F => Placed(h, F) # 0
        /\ Placed(h, F)' = Placed(h, F) - (IF h = g /\ FuncOf[m] \in F THEN 1 ELSE 0)
  <2> SUFFICES ASSUME NEW h \in Host, NEW F \in SUBSET Func
               PROVE  /\ Placed(h, F) \in Nat
                      /\ h = g /\ FuncOf[m] \in F => Placed(h, F) # 0
                      /\ Placed(h, F)' = Placed(h, F) - (IF h = g /\ FuncOf[m] \in F THEN 1 ELSE 0)
    OBVIOUS
  <2> DEFINE B == Busy(h, F)
  <2>1. IsFiniteSet(B) /\ Cardinality(B) \in Nat
    BY FinitePlaces
  <2>2. Busy(h, F)' = IF h = g /\ FuncOf[m] \in F THEN B \ {e} ELSE B
    <3>1. \A u \in Exec : pc'[u] = IF u = e THEN "publish" ELSE pc[u]
      BY <1>2 DEF TypeOK
    <3> QED
      BY <1>2, <3>1 DEF Busy, On
  <2>3. h = g /\ FuncOf[m] \in F => e \in B
    BY <1>2 DEF Busy, On
  <2> HIDE DEF B, g, m
  <2>4. h = g /\ FuncOf[m] \in F =>
          Cardinality(B \ {e}) = Cardinality(B) - 1 /\ Cardinality(B \ {e}) \in Nat
    BY <2>1, <2>3, FS_RemoveElement, FS_CardinalityType
  <2>5. /\ Cardinality(Busy(h, F))' = Cardinality(B) - (IF h = g /\ FuncOf[m] \in F THEN 1 ELSE 0)
        /\ h = g /\ FuncOf[m] \in F => Cardinality(B) # 0
    BY <2>1, <2>2, <2>4
  <2>6. /\ Cardinality(Queued(h, F)) \in Nat /\ Cardinality(Threads(h, F)) \in Nat
    BY FinitePlaces
  <2> QED
    BY <1>3, <2>1, <2>5, <2>6 DEF Placed, B
<1>5. InFlightExact'
  <2> HIDE DEF g, m
  <2> QED
    BY <1>1, <1>2, <1>4, CountersDown
<1>6. ThreadInv'
  BY <1>2 DEF ThreadInv, TypeOK, StayPlaced
<1>7. QueueInv'
  BY <1>2, <1>3 DEF QueueInv
<1> QED
  BY <1>5, <1>6, <1>7

(* A pthread ended: it leaves its module, and the counters. *)
LEMMA FinishCounters ==
  ASSUME TypeOK, CounterInv, NEW e \in Exec, NEW c \in Call, FinishThread(e, c), StayPlaced
  PROVE  CounterInv'
<1> DEFINE g == HostOf[e]
<1> USE DEF CounterInv
<1>1. g \in Host
  BY Constants DEF AllAssumptions
<1>2. /\ LeaveFlight(g, c) /\ c \in threads[e] /\ threads' = [threads EXCEPT ![e] = @ \ {c}]
      /\ UNCHANGED <<queue, msg, pc>>
  BY DEF FinishThread, execVars
<1>3. \A h \in Host, F \in SUBSET Func : Queued(h, F)' = Queued(h, F) /\ Busy(h, F)' = Busy(h, F)
  BY <1>2 DEF Queued, Busy, On
<1>4. \A h \in Host : \A F \in SUBSET Func :
        /\ Placed(h, F) \in Nat
        /\ h = g /\ FuncOf[c] \in F => Placed(h, F) # 0
        /\ Placed(h, F)' = Placed(h, F) - (IF h = g /\ FuncOf[c] \in F THEN 1 ELSE 0)
  <2> SUFFICES ASSUME NEW h \in Host, NEW F \in SUBSET Func
               PROVE  /\ Placed(h, F) \in Nat
                      /\ h = g /\ FuncOf[c] \in F => Placed(h, F) # 0
                      /\ Placed(h, F)' = Placed(h, F) - (IF h = g /\ FuncOf[c] \in F THEN 1 ELSE 0)
    OBVIOUS
  <2> DEFINE t == threads
             u == threads'
  <2>1. Threads(h, F) = ThreadsIn(t, h, F) /\ Threads(h, F)' = ThreadsIn(u, h, F)
    BY DEF Threads, ThreadsIn, On
  <2>2. t \in [Exec -> SUBSET Call] /\ u = Ended(t, e, c) /\ c \in t[e]
    BY <1>2 DEF TypeOK, Ended
  <2>3. IsFiniteSet(ThreadsIn(t, h, F)) /\ Cardinality(ThreadsIn(t, h, F)) \in Nat
    BY <2>1, FinitePlaces
  <2>4. /\ Cardinality(Queued(h, F)) \in Nat /\ Cardinality(Busy(h, F)) \in Nat
    BY FinitePlaces
  <2> HIDE DEF t, u
  <2>5. /\ Cardinality(ThreadsIn(u, h, F))
             = Cardinality(ThreadsIn(t, h, F)) - (IF h = g /\ FuncOf[c] \in F THEN 1 ELSE 0)
        /\ h = g /\ FuncOf[c] \in F => Cardinality(ThreadsIn(t, h, F)) # 0
    BY <2>2, <2>3, ThreadsShrink
  <2> HIDE DEF g
  <2>6. /\ Cardinality(Threads(h, F))'
             = Cardinality(Threads(h, F)) - (IF h = g /\ FuncOf[c] \in F THEN 1 ELSE 0)
        /\ h = g /\ FuncOf[c] \in F => Cardinality(Threads(h, F)) # 0
        /\ Cardinality(Threads(h, F)) \in Nat
    BY <2>1, <2>3, <2>5
  <2> QED
    BY <1>3, <2>4, <2>6 DEF Placed
<1>5. InFlightExact'
  <2> HIDE DEF g
  <2> QED
    BY <1>1, <1>2, <1>4, CountersDown
<1>6. ThreadInv'
  <2>1. \A u \in Exec : threads'[u] \subseteq threads[u]
    BY <1>2 DEF TypeOK
  <2> SUFFICES ASSUME NEW u \in Exec
               PROVE  IsFiniteSet(threads'[u]) /\ \A x \in threads'[u] : ~Unplaced(x)'
    BY DEF ThreadInv
  <2>2. IsFiniteSet(threads[u]) /\ \A x \in threads[u] : x \in Call /\ ~Unplaced(x)
    BY DEF ThreadInv, TypeOK
  <2>3. IsFiniteSet(threads'[u])
    BY <2>1, <2>2, FS_Subset
  <2> QED
    BY <2>1, <2>2, <2>3 DEF StayPlaced
<1>7. QueueInv'
  BY <1>2, <1>3 DEF QueueInv
<1> QED
  BY <1>5, <1>6, <1>7

LEMMA ExecCounters ==
  ASSUME TypeOK, CounterInv, JobInv, NEW e \in Exec, ExecStep(e)
  PROVE  CounterInv'
<1>1. StayPlaced
  BY ExecLeavesJobs DEF StayPlaced
<1>2. CASE TakeCall(e)
  BY <1>1, <1>2, TakeCounters
<1>3. CASE NotifyCallFinished(e)
  BY <1>1, <1>3, NotifyCounters
<1>4. ASSUME NEW c \in Call, FinishThread(e, c) PROVE CounterInv'
  BY <1>1, <1>4, FinishCounters
<1>5. ASSUME UNCHANGED <<queue, threads, msg, inFlight, running>>,
             NEW p, pc' = [pc EXCEPT ![e] = p],
             p \in {"executing", "notify"} <=> pc[e] \in {"executing", "notify"}
      PROVE  CounterInv'
  <2>1. \A u \in Exec : pc'[u] \in {"executing", "notify"} <=> pc[u] \in {"executing", "notify"}
    BY <1>5 DEF TypeOK
  <2> QED
    BY <1>1, <1>5, <2>1, SamePlaces
<1>6. CASE TakeBind(e)
  BY <1>5, <1>6 DEF TakeBind, AfterBind
<1>7. CASE BeginWait(e)
  BY <1>5, <1>7 DEF BeginWait, hostVars
<1>8. CASE BoundTimeout(e)
  BY <1>5, <1>8 DEF BoundTimeout, hostVars
<1>9. CASE ExecuteCall(e)
  BY <1>5, <1>9 DEF ExecuteCall, hostVars
<1>10. CASE SetFunctionResult(e)
  BY <1>5, <1>10 DEF SetFunctionResult, hostVars
<1>11. CASE NotifyFaasletFinished(e)
  BY <1>5, <1>11 DEF NotifyFaasletFinished
<1> QED
  BY <1>2, <1>3, <1>4, <1>6, <1>7, <1>8, <1>9, <1>10, <1>11 DEF ExecStep


-----------------------------------------------------------------------------
(* Calls submitted on their own.                                           *)

(* Such a call is still to be placed, or in one queue, or with one         *)
(* executor, or was executed once.                                         *)
SinglePlace(c) ==
  /\ Unplaced(c) => QueuedAt(c) = {} /\ HeldBy(c) = {} /\ runs[c] = 0
  /\ QueuedAt(c) # {} => HeldBy(c) = {} /\ runs[c] = 0
  /\ HeldBy(c) # {} => runs[c] = 0
  /\ runs[c] \in {0, 1}
  /\ \A p, q \in QueuedAt(c) : p = q
  /\ \A d, e \in HeldBy(c) : d = e
  /\ \A e \in Exec : pc[e] = "executing" /\ msg[e] = c => c \notin threads[e]
SingleInv == \A c \in Call : <<c>> \in Batch => SinglePlace(c)

(* The place of a call in a queue. *)
LEMMA QueuedPlaces ==
  ASSUME NEW c
  PROVE  /\ \A h \in Host : \A k \in Positions(queue[h][FuncOf[c]], c) : <<h, k>> \in QueuedAt(c)
         /\ \A p \in QueuedAt(c) : \E h \in Host : \E k \in Positions(queue[h][FuncOf[c]], c) : p = <<h, k>>
<1> DEFINE P(h) == Positions(queue[h][FuncOf[c]], c)
<1>1. QueuedAt(c) = UNION {{h} \X P(h) : h \in Host}
  BY DEF QueuedAt
<1> HIDE DEF P
<1>2. ASSUME NEW h \in Host, NEW k \in P(h) PROVE <<h, k>> \in QueuedAt(c)
  <2>1. <<h, k>> \in {h} \X P(h)
    OBVIOUS
  <2> QED
    BY <1>1, <2>1
<1>3. ASSUME NEW p \in QueuedAt(c) PROVE \E h \in Host : \E k \in P(h) : p = <<h, k>>
  <2>1. PICK h \in Host : p \in {h} \X P(h)
    BY <1>1
  <2> QED
    BY <2>1
<1> QED
  BY <1>2, <1>3 DEF P

(* Where a call is depends on its queues and executors only. *)
LEMMA SamePlace ==
  ASSUME NEW c \in Call, SinglePlace(c), StayPlaced, QueuedAt(c)' = QueuedAt(c),
         UNCHANGED <<threads, msg, runs>>,
         \A u \in Exec : pc'[u] = "executing" <=> pc[u] = "executing"
  PROVE  SinglePlace(c)'
<1>1. HeldBy(c)' = HeldBy(c)
  BY DEF HeldBy
<1> QED
  BY <1>1 DEF SinglePlace, StayPlaced

LEMMA PlaceSingle ==
  ASSUME TypeOK, NEW c \in Call, <<c>> \in Batch, SinglePlace(c),
         NEW g \in Host, NEW e \in Exec \cup {NoExec}, NEW s \in Seq(Call),
         PlaceHere(g, e, s), Placeable(g, e, s), UNCHANGED <<execVars, runs>>, StayPlaced
  PROVE  SinglePlace(c)'
<1> DEFINE f == FuncOf[c]
<1>1. UNCHANGED <<pc, msg, runs>> /\ f \in Func
  BY Constants DEF execVars, AllAssumptions
<1>2. CASE s = <<>>
  <2>1. ToSet(s) = {}
    BY <1>2 DEF ToSet
  <2>2. queue' = queue /\ threads' = threads
    <3>1. CASE e = NoExec /\ Enqueue(g, s) /\ UNCHANGED threads
      BY <1>2, <3>1 DEF Enqueue, hostVars
    <3>2. CASE e # NoExec /\ ReturnThreads(g, e, s)
      <4>1. threads' = [threads EXCEPT ![e] = @ \cup {}] /\ queue' = queue
        BY <2>1, <3>2 DEF ReturnThreads
      <4> QED
        BY <4>1 DEF TypeOK
    <3> QED
      BY <3>1, <3>2 DEF PlaceHere
  <2>3. QueuedAt(c)' = QueuedAt(c)
    BY <2>2 DEF QueuedAt
  <2> QED
    BY <1>1, <2>2, <2>3, SamePlace
<1>3. CASE s # <<>> /\ e = NoExec /\ Enqueue(g, s) /\ UNCHANGED threads
  <2> DEFINE x == FuncOfBatch(s)
             q == queue[g][f]
  <2>1. queue' = [queue EXCEPT ![g][x] = @ \o s] /\ x \in Func
    BY <1>3, FuncOfSeq DEF Enqueue
  <2>2. \A h \in Host : queue'[h][f] = IF h = g /\ f = x THEN queue[h][f] \o s ELSE queue[h][f]
    <3> TAKE h \in Host
    <3>1. queue'[h] = IF h = g THEN [queue[h] EXCEPT ![x] = @ \o s] ELSE queue[h]
      BY <2>1 DEF TypeOK
    <3>2. queue[h] \in [Func -> Seq(Call)]
      BY DEF TypeOK
    <3> QED
      BY <1>1, <3>1, <3>2
  <2>3. q \in Seq(Call) /\ Len(q) \in Nat /\ Len(s) \in Nat /\ DOMAIN s = 1 .. Len(s)
    BY <1>1 DEF TypeOK
  <2>4. /\ \A k \in DOMAIN s : FuncOf[s[k]] = x /\ Unplaced(s[k])
        /\ \A k, l \in DOMAIN s : s[k] = s[l] => k = l
        /\ \A k \in DOMAIN s : <<s[k]>> \in Batch => ~Unplaced(s[k])'
    BY DEF Placeable
  <2>5. /\ DOMAIN (q \o s) = 1 .. Len(q) + Len(s)
        /\ \A k \in 1 .. Len(q) : (q \o s)[k] = q[k]
        /\ \A k \in 1 .. Len(s) : (q \o s)[Len(q) + k] = s[k]
        /\ \A k \in 1 .. Len(q) + Len(s) : k \in 1 .. Len(q) \/ (k - Len(q) \in 1 .. Len(s) /\ k = Len(q) + (k - Len(q)))
    <3>1. \A m, n \in Nat : \A k \in 1 .. m + n : k \in 1 .. m \/ (k - m \in 1 .. n /\ k = m + (k - m))
      OBVIOUS
    <3> HIDE DEF q
    <3>2. /\ DOMAIN (q \o s) = 1 .. Len(q) + Len(s)
          /\ \A k \in 1 .. Len(q) : (q \o s)[k] = q[k]
      BY <2>3
    <3>3. \A k \in 1 .. Len(s) : (q \o s)[Len(q) + k] = s[k]
      BY <2>3
    <3> QED
      BY <2>3, <3>1, <3>2, <3>3
  <2>6. HeldBy(c)' = HeldBy(c)
    BY <1>1, <1>3 DEF HeldBy
  <2>7. CASE \A k \in DOMAIN s : s[k] # c
    <3>1. Positions(q \o s, c) = Positions(q, c)
      BY <2>3, <2>5, <2>7 DEF Positions
    <3>2. \A h \in Host : Positions(queue'[h][f], c) = Positions(queue[h][f], c)
      BY <2>2, <3>1
    <3>3. QueuedAt(c)' = QueuedAt(c)
      BY <3>2 DEF QueuedAt
    <3> QED
      BY <1>1, <1>3, <3>3, SamePlace
  <2>8. ASSUME NEW k \in DOMAIN s, s[k] = c PROVE SinglePlace(c)'
    <3>1. Unplaced(c) /\ ~Unplaced(c)' /\ f = x
      BY <2>4, <2>8
    <3>2. QueuedAt(c) = {} /\ HeldBy(c) = {} /\ runs[c] = 0
      BY <3>1 DEF SinglePlace
    <3>3. \A h \in Host : Positions(queue[h][f], c) = {}
      BY <3>2, QueuedPlaces
    <3>4. Positions(q \o s, c) = {Len(q) + k}
      <4>1. Positions(q, c) = {}
        BY <3>3
      <4>2. \A l \in DOMAIN q : q[l] # c
        BY <4>1 DEF Positions
      <4>3. \A l \in DOMAIN s : s[l] = c => l = k
        BY <2>4, <2>8
      <4>4. ASSUME NEW l \in DOMAIN (q \o s), (q \o s)[l] = c PROVE l = Len(q) + k
        <5>1. CASE l \in 1 .. Len(q)
          BY <2>3, <2>5, <4>2, <4>4, <5>1
        <5>2. CASE l - Len(q) \in 1 .. Len(s) /\ l = Len(q) + (l - Len(q))
          <6>1. s[l - Len(q)] = c
            BY <2>5, <4>4, <5>2
          <6>2. l - Len(q) = k
            BY <2>3, <4>3, <5>2, <6>1
          <6> QED
            BY <5>2, <6>2
        <5> QED
          BY <2>5, <5>1, <5>2
      <4>5. Len(q) + k \in DOMAIN (q \o s) /\ (q \o s)[Len(q) + k] = c
        <5>1. k \in 1 .. Len(s)
          BY <2>3
        <5>2. k \in 1 .. Len(s) /\ Len(q) + k \in 1 .. Len(q) + Len(s)
          <6>1. \A m, n \in Nat : \A j \in 1 .. n : m + j \in 1 .. m + n
            OBVIOUS
          <6> QED
            BY <2>3, <5>1, <6>1
        <5> QED
          BY <2>5, <2>8, <5>2
      <4> QED
        BY <4>4, <4>5 DEF Positions
    <3>5. \A h \in Host : Positions(queue'[h][f], c) = IF h = g THEN {Len(q) + k} ELSE {}
      BY <2>2, <3>1, <3>3, <3>4
    <3>6. QueuedAt(c)' = {<<g, Len(q) + k>>}
      BY <3>5 DEF QueuedAt
    <3>7. \A u \in Exec : ~(pc'[u] = "executing" /\ msg'[u] = c)
      BY <1>1, <3>2 DEF HeldBy
    <3> QED
      BY <1>1, <2>6, <3>1, <3>2, <3>6, <3>7 DEF SinglePlace
  <2> QED
    BY <2>7, <2>8
<1>4. CASE s # <<>> /\ e # NoExec /\ ReturnThreads(g, e, s)
  <2>1. threads' = [threads EXCEPT ![e] = @ \cup ToSet(s)] /\ queue' = queue /\ e \in Exec
    BY <1>4 DEF ReturnThreads
  <2>2. \A u \in Exec : threads'[u] = IF u = e THEN threads[u] \cup ToSet(s) ELSE threads[u]
    BY <2>1 DEF TypeOK
  <2>3. QueuedAt(c)' = QueuedAt(c)
    BY <2>1 DEF QueuedAt
  <2>4. CASE c \notin ToSet(s)
    <3>1. HeldBy(c)' = HeldBy(c)
      BY <1>1, <2>2, <2>4 DEF HeldBy
    <3> QED
      BY <1>1, <2>2, <2>3, <2>4, <3>1 DEF SinglePlace, StayPlaced
  <2>5. CASE c \in ToSet(s)
    <3>1. Unplaced(c) /\ ~Unplaced(c)'
      BY <2>5 DEF Placeable, ToSet
    <3>2. QueuedAt(c) = {} /\ HeldBy(c) = {} /\ runs[c] = 0
      BY <3>1 DEF SinglePlace
    <3>3. /\ \A u \in Exec : ~(pc[u] = "executing" /\ msg[u] = c)
          /\ \A u \in Exec : c \notin threads[u]
      BY <3>2 DEF HeldBy
    <3>4. HeldBy(c)' = {e}
      <4>1. \A u \in Exec : ~(pc'[u] = "executing" /\ msg'[u] = c)
        BY <1>1, <3>3
      <4>2. \A u \in Exec : c \in threads'[u] <=> u = e
        BY <2>2, <2>5, <3>3
      <4> QED
        BY <2>1, <4>1, <4>2 DEF HeldBy
    <3> QED
      BY <1>1, <2>3, <3>1, <3>2, <3>3, <3>4 DEF SinglePlace
  <2> QED
    BY <2>4, <2>5
<1> QED
  BY <1>2, <1>3, <1>4 DEF PlaceHere


LEMMA TakeSingle ==
  ASSUME TypeOK, NEW c \in Call, SinglePlace(c), NEW e \in Exec, TakeCall(e), StayPlaced,
         QueueInv
  PROVE  SinglePlace(c)'
<1> DEFINE g == HostOf[e]
           x == bound[e]
           f == FuncOf[c]
           q == queue[g][x]
<1>1. /\ g \in Host /\ x \in Func /\ f \in Func
      /\ q \in Seq(Call) /\ q # <<>> /\ Len(q) \in Nat /\ DOMAIN q = 1 .. Len(q)
  <2>1. g \in Host /\ x \in Func /\ f \in Func
    BY Constants DEF AllAssumptions, TypeOK
  <2>2. OwnQueue(e) # <<>>
    BY DEF TakeCall
  <2>3. q \in Seq(Call) /\ q # <<>>
    BY <2>1, <2>2 DEF TypeOK, OwnQueue
  <2> QED
    BY <2>1, <2>3
<1>2. /\ queue' = [queue EXCEPT ![g][x] = Tail(@)] /\ msg' = [msg EXCEPT ![e] = Head(q)]
      /\ pc' = [pc EXCEPT ![e] = "executing"] /\ pc[e] \in {"bound", "waiting"}
      /\ UNCHANGED <<threads, runs>>
  BY DEF TakeCall, OwnQueue
<1>3. \A h \in Host : queue'[h][f] = IF h = g /\ f = x THEN Tail(q) ELSE queue[h][f]
  <2> TAKE h \in Host
  <2>1. queue'[h] = IF h = g THEN [queue[h] EXCEPT ![x] = Tail(@)] ELSE queue[h]
    BY <1>2 DEF TypeOK
  <2>2. queue[h] \in [Func -> Seq(Call)]
    BY DEF TypeOK
  <2> QED
    BY <1>1, <2>1, <2>2
<1>4. /\ DOMAIN Tail(q) = 1 .. Len(q) - 1 /\ Head(q) = q[1] /\ 1 \in DOMAIN q
      /\ \A k \in 1 .. Len(q) - 1 : Tail(q)[k] = q[k + 1] /\ k + 1 \in DOMAIN q /\ k + 1 # 1
  BY <1>1
<1>5. \A u \in Exec : /\ pc'[u] = IF u = e THEN "executing" ELSE pc[u]
                      /\ msg'[u] = IF u = e THEN Head(q) ELSE msg[u]
  BY <1>2 DEF TypeOK
<1>6. \A h \in Host : \A k \in Positions(queue'[h][f], c) :
        IF h = g /\ f = x THEN k + 1 \in Positions(queue[h][f], c) /\ k \in Nat
                          ELSE k \in Positions(queue[h][f], c)
  <2> SUFFICES ASSUME NEW h \in Host, NEW k \in Positions(queue'[h][f], c)
               PROVE  IF h = g /\ f = x THEN k + 1 \in Positions(queue[h][f], c) /\ k \in Nat
                                        ELSE k \in Positions(queue[h][f], c)
    OBVIOUS
  <2>1. CASE h = g /\ f = x
    <3>1. k \in 1 .. Len(q) - 1 /\ Tail(q)[k] = c
      BY <1>3, <1>4, <2>1 DEF Positions
    <3>2. k + 1 \in DOMAIN q /\ q[k + 1] = c /\ k \in Nat
      BY <1>1, <1>4, <3>1
    <3> QED
      BY <2>1, <3>2 DEF Positions
  <2>2. CASE ~(h = g /\ f = x)
    BY <1>3, <2>2
  <2> QED
    BY <2>1, <2>2
<1>7. /\ \A h \in Host : \A k \in Positions(queue[h][f], c) : <<h, k>> \in QueuedAt(c)
      /\ \A p \in QueuedAt(c)' : \E h \in Host : \E k \in Positions(queue'[h][f], c) : p = <<h, k>>
  <2>1. /\ \A h \in Host : \A k \in Positions(queue[h][f], c) : <<h, k>> \in QueuedAt(c)
    BY QueuedPlaces
  <2>2. ASSUME NEW p \in QueuedAt(c)' PROVE \E h \in Host : \E k \in Positions(queue'[h][f], c) : p = <<h, k>>
    <3> DEFINE P(h) == Positions(queue'[h][f], c)
    <3>1. QueuedAt(c)' = UNION {{h} \X P(h) : h \in Host}
      BY DEF QueuedAt, Positions
    <3> HIDE DEF P
    <3>2. PICK h \in Host : p \in {h} \X P(h)
      BY <2>2, <3>1
    <3>3. \E k \in P(h) : p = <<h, k>>
      BY <3>2
    <3> QED
      BY <3>3 DEF P
  <2> QED
    BY <2>1, <2>2
<1>8. \A p, r \in QueuedAt(c) : p = r
  BY DEF SinglePlace
<1>9. \A p, r \in QueuedAt(c)' : p = r
  <2> SUFFICES ASSUME NEW p \in QueuedAt(c)', NEW r \in QueuedAt(c)' PROVE p = r
    OBVIOUS
  <2>1. PICK h \in Host : \E k \in Positions(queue'[h][f], c) : p = <<h, k>>
    BY <1>7
  <2>2. PICK k \in Positions(queue'[h][f], c) : p = <<h, k>>
    BY <2>1
  <2>3. PICK i \in Host : \E l \in Positions(queue'[i][f], c) : r = <<i, l>>
    BY <1>7
  <2>4. PICK l \in Positions(queue'[i][f], c) : r = <<i, l>>
    BY <2>3
  <2>5. \E m : m \in Positions(queue[h][f], c) /\ m = IF h = g /\ f = x THEN k + 1 ELSE k
    BY <1>6, <2>2
  <2>6. \E m : m \in Positions(queue[i][f], c) /\ m = IF i = g /\ f = x THEN l + 1 ELSE l
    BY <1>6, <2>4
  <2>7. h = i /\ (IF h = g /\ f = x THEN k + 1 ELSE k) = (IF i = g /\ f = x THEN l + 1 ELSE l)
    BY <1>7, <1>8, <2>5, <2>6
  <2>8. CASE h = g /\ f = x
    <3>1. k \in Nat /\ l \in Nat /\ k + 1 = l + 1
      BY <1>6, <2>2, <2>4, <2>7, <2>8
    <3> QED
      BY <2>2, <2>4, <2>7, <3>1
  <2>9. CASE ~(h = g /\ f = x)
    BY <2>2, <2>4, <2>7, <2>9
  <2> QED
    BY <2>8, <2>9
<1>10. QueuedAt(c)' # {} => QueuedAt(c) # {}
  <2> SUFFICES ASSUME NEW p \in QueuedAt(c)' PROVE QueuedAt(c) # {}
    OBVIOUS
  <2>1. PICK h \in Host : \E k \in Positions(queue'[h][f], c) : p = <<h, k>>
    BY <1>7
  <2>2. PICK k \in Positions(queue'[h][f], c) : p = <<h, k>>
    BY <2>1
  <2> QED
    BY <1>6, <1>7, <2>2
<1>11. CASE Head(q) # c
  <2>1. HeldBy(c)' = HeldBy(c)
    BY <1>2, <1>5, <1>11 DEF HeldBy
  <2> QED
    BY <1>2, <1>5, <1>9, <1>10, <1>11, <2>1 DEF SinglePlace, StayPlaced
<1>12. CASE Head(q) = c /\ f = x
  <2>1. 1 \in Positions(queue[g][f], c)
    BY <1>4, <1>12 DEF Positions
  <2>2. <<g, 1>> \in QueuedAt(c)
    BY <1>1, <1>7, <2>1
  <2>3. HeldBy(c) = {} /\ runs[c] = 0 /\ ~Unplaced(c)
    BY <2>2 DEF SinglePlace
  <2>4. QueuedAt(c)' = {}
    <3> SUFFICES ASSUME NEW p \in QueuedAt(c)' PROVE FALSE
      OBVIOUS
    <3>1. PICK h \in Host : \E k \in Positions(queue'[h][f], c) : p = <<h, k>>
      BY <1>7
    <3>2. PICK k \in Positions(queue'[h][f], c) : p = <<h, k>>
      BY <3>1
    <3>3. CASE h = g
      <4>1. k \in Nat /\ <<g, k + 1>> \in QueuedAt(c)
        BY <1>6, <1>7, <1>12, <3>2, <3>3
      <4>2. k + 1 = 1
        BY <1>8, <2>2, <4>1
      <4>3. k \in DOMAIN Tail(q)
        BY <1>3, <1>12, <3>2, <3>3 DEF Positions
      <4> QED
        BY <1>1, <1>4, <4>2, <4>3
    <3>4. CASE h # g
      <4>1. <<h, k>> \in QueuedAt(c)
        BY <1>6, <1>7, <3>2, <3>4
      <4> QED
        BY <1>8, <2>2, <3>4, <4>1
    <3> QED
      BY <3>3, <3>4
  <2>5. HeldBy(c)' = {e} /\ \A u \in Exec : c \notin threads'[u]
    <3>1. \A u \in Exec : c \notin threads[u] /\ ~(pc[u] = "executing" /\ msg[u] = c)
      BY <2>3 DEF HeldBy
    <3>2. \A u \in Exec : pc'[u] = "executing" /\ msg'[u] = c <=> u = e
      BY <1>5, <1>12, <3>1
    <3>3. \A u \in Exec : c \notin threads'[u]
      BY <1>2, <3>1
    <3> QED
      BY <3>2, <3>3 DEF HeldBy
  <2> QED
    BY <1>2, <2>3, <2>4, <2>5 DEF SinglePlace, StayPlaced
<1> QED
  <2>1. Head(q) = c => f = x
    BY <1>1, <1>4 DEF QueueInv
  <2> QED
    BY <1>11, <1>12, <2>1


(* A call was executed: by the executor that held it, and no other. *)
LEMMA ExecuteSingle ==
  ASSUME TypeOK, NEW c \in Call, SinglePlace(c), NEW e \in Exec, ExecuteCall(e), StayPlaced
  PROVE  SinglePlace(c)'
<1>1. /\ pc[e] = "executing" /\ threads[e] = {} /\ pc' = [pc EXCEPT ![e] = "notify"]
      /\ runs' = [runs EXCEPT ![msg[e]] = @ + 1] /\ UNCHANGED <<queue, threads, msg>>
  BY DEF ExecuteCall, hostVars
<1>2. /\ \A u \in Exec : pc'[u] = IF u = e THEN "notify" ELSE pc[u]
      /\ runs'[c] = IF msg[e] = c THEN runs[c] + 1 ELSE runs[c]
  BY <1>1 DEF TypeOK
<1>3. QueuedAt(c)' = QueuedAt(c)
  BY <1>1 DEF QueuedAt
<1>4. CASE msg[e] # c
  <2>1. HeldBy(c)' = HeldBy(c)
    BY <1>1, <1>2, <1>4 DEF HeldBy
  <2> QED
    BY <1>1, <1>2, <1>3, <1>4, <2>1 DEF SinglePlace, StayPlaced
<1>5. CASE msg[e] = c
  <2>1. e \in HeldBy(c)
    BY <1>1, <1>5 DEF HeldBy
  <2>2. QueuedAt(c) = {} /\ runs[c] = 0 /\ ~Unplaced(c) /\ \A u \in HeldBy(c) : u = e
    BY <2>1 DEF SinglePlace
  <2>3. HeldBy(c)' = {}
    <3>1. \A u \in Exec \ {e} : c \notin threads[u] /\ ~(pc[u] = "executing" /\ msg[u] = c)
      BY <2>2 DEF HeldBy
    <3>2. \A u \in Exec : c \notin threads'[u] /\ ~(pc'[u] = "executing" /\ msg'[u] = c)
      BY <1>1, <1>2, <3>1
    <3> QED
      BY <3>2 DEF HeldBy
  <2>4. \A u \in Exec : ~(pc'[u] = "executing" /\ msg'[u] = c)
    BY <2>3 DEF HeldBy
  <2> QED
    BY <1>2, <1>3, <1>5, <2>2, <2>3, <2>4 DEF SinglePlace, StayPlaced
<1> QED
  BY <1>4, <1>5

LEMMA FinishSingle ==
  ASSUME TypeOK, NEW c \in Call, SinglePlace(c), NEW e \in Exec, NEW d \in Call, FinishThread(e, d),
         StayPlaced
  PROVE  SinglePlace(c)'
<1>1. /\ d \in threads[e] /\ threads' = [threads EXCEPT ![e] = @ \ {d}]
      /\ runs' = [runs EXCEPT ![d] = @ + 1] /\ UNCHANGED <<queue, msg, pc>>
  BY DEF FinishThread, execVars
<1>2. /\ \A u \in Exec : threads'[u] = IF u = e THEN threads[u] \ {d} ELSE threads[u]
      /\ runs'[c] = IF d = c THEN runs[c] + 1 ELSE runs[c]
  BY <1>1 DEF TypeOK
<1>3. QueuedAt(c)' = QueuedAt(c)
  BY <1>1 DEF QueuedAt
<1>4. CASE d # c
  <2>1. HeldBy(c)' = HeldBy(c)
    BY <1>1, <1>2, <1>4 DEF HeldBy
  <2> QED
    BY <1>1, <1>2, <1>3, <1>4, <2>1 DEF SinglePlace, StayPlaced
<1>5. CASE d = c
  <2>1. e \in HeldBy(c)
    BY <1>1, <1>5 DEF HeldBy
  <2>2. QueuedAt(c) = {} /\ runs[c] = 0 /\ ~Unplaced(c) /\ \A u \in HeldBy(c) : u = e
    BY <2>1 DEF SinglePlace
  <2>3. HeldBy(c)' = {}
    <3>1. \A u \in Exec \ {e} : c \notin threads[u] /\ ~(pc[u] = "executing" /\ msg[u] = c)
      BY <2>2 DEF HeldBy
    <3>2. ~(pc[e] = "executing" /\ msg[e] = c)
      BY <1>1, <1>5 DEF SinglePlace
    <3>3. \A u \in Exec : c \notin threads'[u] /\ ~(pc'[u] = "executing" /\ msg'[u] = c)
      BY <1>1, <1>2, <1>5, <3>1, <3>2
    <3> QED
      BY <3>3 DEF HeldBy
  <2>4. \A u \in Exec : ~(pc'[u] = "executing" /\ msg'[u] = c)
    BY <2>3 DEF HeldBy
  <2> QED
    BY <1>2, <1>3, <1>5, <2>2, <2>3, <2>4 DEF SinglePlace, StayPlaced
<1> QED
  BY <1>4, <1>5

LEMMA ExecSingle ==
  ASSUME TypeOK, QueueInv, JobInv, NEW c \in Call, SinglePlace(c), NEW e \in Exec, ExecStep(e)
  PROVE  SinglePlace(c)'
<1>1. StayPlaced
  BY ExecLeavesJobs DEF StayPlaced
<1>2. CASE TakeCall(e)
  BY <1>1, <1>2, TakeSingle
<1>3. CASE ExecuteCall(e)
  BY <1>1, <1>3, ExecuteSingle
<1>4. ASSUME NEW d \in Call, FinishThread(e, d) PROVE SinglePlace(c)'
  BY <1>1, <1>4, FinishSingle
<1>5. ASSUME UNCHANGED <<queue, threads, msg, runs>>, NEW p, pc' = [pc EXCEPT ![e] = p],
             p # "executing", pc[e] # "executing"
      PROVE  SinglePlace(c)'
  <2>1. \A u \in Exec : pc'[u] = "executing" <=> pc[u] = "executing"
    BY <1>5 DEF TypeOK
  <2>2. QueuedAt(c)' = QueuedAt(c)
    BY <1>5 DEF QueuedAt
  <2> QED
    BY <1>1, <1>5, <2>1, <2>2, SamePlace
<1>6. CASE TakeBind(e)
  BY <1>5, <1>6 DEF TakeBind, AfterBind
<1>7. CASE BeginWait(e)
  BY <1>5, <1>7 DEF BeginWait, hostVars
<1>8. CASE BoundTimeout(e)
  BY <1>5, <1>8 DEF BoundTimeout, hostVars
<1>9. CASE NotifyCallFinished(e)
  BY <1>5, <1>9 DEF NotifyCallFinished
<1>10. CASE SetFunctionResult(e)
  BY <1>5, <1>10 DEF SetFunctionResult, hostVars
<1>11. CASE NotifyFaasletFinished(e)
  BY <1>5, <1>11 DEF NotifyFaasletFinished
<1> QED
  BY <1>2, <1>3, <1>4, <1>6, <1>7, <1>8, <1>9, <1>10, <1>11 DEF ExecStep

LEMMA AtMostOne ==
  ASSUME NEW S, \A p, q \in S : p = q
  PROVE  Cardinality(S) \in {0, 1} /\ (S = {} => Cardinality(S) = 0)
<1>1. CASE S = {}
  BY <1>1, FS_EmptySet
<1>2. CASE S # {}
  <2>1. PICK p \in S : S = {p}
    BY <1>2
  <2> QED
    BY <2>1, FS_Singleton
<1> QED
  BY <1>1, <1>2

LEMMA SinglePlaces ==
  ASSUME SingleInv
  PROVE  SingleCallOnce
<1> SUFFICES ASSUME NEW b \in Batch, Len(b) = 1
             PROVE  Cardinality(QueuedAt(b[1])) + Cardinality(HeldBy(b[1])) + runs[b[1]] <= 1
  BY DEF SingleCallOnce
<1>1. b \in Seq(Call)
  BY Constants DEF AllAssumptions
<1>2. PICK c \in Call : c = b[1] /\ <<c>> = b
  BY <1>1
<1>3. SinglePlace(c)
  BY <1>2 DEF SingleInv
<1>4. /\ Cardinality(QueuedAt(c)) \in {0, 1} /\ (QueuedAt(c) = {} => Cardinality(QueuedAt(c)) = 0)
      /\ Cardinality(HeldBy(c)) \in {0, 1} /\ (HeldBy(c) = {} => Cardinality(HeldBy(c)) = 0)
  BY <1>3, AtMostOne DEF SinglePlace
<1>5. /\ runs[c] \in {0, 1} /\ (QueuedAt(c) # {} => HeldBy(c) = {} /\ runs[c] = 0)
      /\ (HeldBy(c) # {} => runs[c] = 0)
  BY <1>3 DEF SinglePlace
<1>6. Cardinality(QueuedAt(c)) + Cardinality(HeldBy(c)) + runs[c] <= 1
  BY <1>4, <1>5
<1> QED
  BY <1>2, <1>6

-----------------------------------------------------------------------------
(* Types and locks, the batches in dispatch, the counters of faaslets and  *)
(* of calls, and the places of single calls.                               *)
CallInv == SchedulerInv /\ JobInv /\ FaasletExact /\ CounterInv /\ SingleInv

LEMMA CallInit ==
  ASSUME Init
  PROVE  CallInv
<1>1. SchedulerInv
  BY SchedulerInit
<1>2. \A h \in Host : job[h].step = "free"
  BY DEF Init, Free
<1>3. JobInv
  BY <1>2 DEF JobInv
<1>4. ASSUME NEW h \in Host, NEW f \in Func
      PROVE  faaslets[h][f] = Cardinality(Positions(bindQueue[h], f)) + Cardinality(Alive(h, f))
  <2>1. Positions(bindQueue[h], f) = {} /\ Alive(h, f) = {} /\ faaslets[h][f] = 0
    BY DEF Init, Positions, Alive, On
  <2>2. Cardinality({}) = 0
    BY FS_EmptySet
  <2> QED
    BY <2>1, <2>2
<1>5. FaasletExact
  BY <1>4 DEF FaasletExact
<1>6. \A h \in Host, F \in SUBSET Func : Queued(h, F) = {} /\ Busy(h, F) = {} /\ Threads(h, F) = {}
  <2> SUFFICES ASSUME NEW h \in Host, NEW F \in SUBSET Func
               PROVE  Queued(h, F) = {} /\ Busy(h, F) = {} /\ Threads(h, F) = {}
    OBVIOUS
  <2>1. Queued(h, F) = {}
    <3>1. \A f \in F : DOMAIN queue[h][f] = {}
      BY DEF Init
    <3> QED
      BY <3>1 DEF Queued
  <2>2. Busy(h, F) = {}
    BY DEF Init, Busy, On
  <2>3. Threads(h, F) = {}
    <3>1. \A e \in On(h) : {c \in threads[e] : FuncOf[c] \in F} = {}
      BY DEF Init, On
    <3> QED
      BY <3>1 DEF Threads
  <2> QED
    BY <2>1, <2>2, <2>3
<1>7. Cardinality({}) = 0 /\ IsFiniteSet({})
  BY FS_EmptySet
<1>8. CounterInv
  <2>1. ThreadInv
    BY <1>7 DEF Init, ThreadInv
  <2>2. QueueInv
    <3>1. \A h \in Host : Queued(h, Func) = {}
      BY <1>6
    <3>2. \A h \in Host, f \in Func : \A k \in DOMAIN queue[h][f] : FALSE
      BY DEF Init
    <3>3. ASSUME NEW h \in Host PROVE IsFiniteSet(Queued(h, Func))
      <4>1. Queued(h, Func) = {}
        BY <3>1
      <4> QED
        BY <1>7, <4>1
    <3> QED
      BY <3>2, <3>3 DEF QueueInv
  <2>3. \A h \in Host : \A F \in SUBSET Func : Placed(h, F) = 0
    BY <1>6, <1>7 DEF Placed
  <2>4. InFlightExact
    BY <2>3 DEF Init, InFlightExact
  <2> QED
    BY <2>1, <2>2, <2>4 DEF CounterInv
<1>9. SingleInv
  <2> SUFFICES ASSUME NEW c \in Call PROVE SinglePlace(c)
    BY DEF SingleInv
  <2>1. QueuedAt(c) = {}
    <3>1. FuncOf[c] \in Func
      BY Constants DEF AllAssumptions
    <3>2. \A h \in Host : Positions(queue[h][FuncOf[c]], c) = {}
      BY <3>1 DEF Init, Positions
    <3> QED
      BY <3>2 DEF QueuedAt
  <2>2. HeldBy(c) = {} /\ runs[c] = 0 /\ \A e \in Exec : c \notin threads[e]
    BY DEF Init, HeldBy
  <2> QED
    BY <2>1, <2>2 DEF SinglePlace
<1> QED
  BY <1>1, <1>3, <1>5, <1>8, <1>9 DEF CallInv

(* Any dispatch. *)
LEMMA DispatchCalls ==
  ASSUME CallInv, Dispatches
  PROVE  JobInv' /\ FaasletExact' /\ CounterInv' /\ SingleInv'
<1>1. /\ TypeOK /\ JobInv' /\ StayPlaced /\ UNCHANGED <<execVars, runs>>
      /\ FaasletExact /\ CounterInv /\ SingleInv
  BY DEF CallInv, SchedulerInv, Dispatches, StayPlaced
<1>2. CASE UNCHANGED <<hostVars, threads>>
  <2>1. UNCHANGED <<queue, bindQueue, inFlight, running, faaslets, threads, pc, bound, msg, runs>>
    BY <1>1, <1>2 DEF hostVars, execVars
  <2>2. FaasletExact'
    BY <1>1, <2>1, SameFaasletCounts
  <2>3. CounterInv'
    BY <1>1, <2>1, SamePlaces
  <2>4. ASSUME NEW c \in Call, <<c>> \in Batch PROVE SinglePlace(c)'
    <3>1. SinglePlace(c)
      BY <1>1, <2>4 DEF SingleInv
    <3>2. QueuedAt(c)' = QueuedAt(c)
      BY <2>1 DEF QueuedAt
    <3> QED
      BY <1>1, <2>1, <3>1, <3>2, SamePlace
  <2>5. SingleInv'
    BY <2>4 DEF SingleInv
  <2> QED
    BY <1>1, <2>2, <2>3, <2>5
<1>3. ASSUME NEW g \in Host, NEW e \in Exec \cup {NoExec}, NEW s \in Seq(Call),
             PlaceHere(g, e, s), Placeable(g, e, s)
      PROVE  FaasletExact' /\ CounterInv' /\ SingleInv'
  <2>1. FaasletExact'
    BY <1>1, <1>3, PlaceFaaslets
  <2>2. CounterInv'
    BY <1>1, <1>3, PlaceCounters
  <2>3. ASSUME NEW c \in Call, <<c>> \in Batch PROVE SinglePlace(c)'
    <3>1. SinglePlace(c)
      BY <1>1, <2>3 DEF SingleInv
    <3> QED
      BY <1>1, <1>3, <2>3, <3>1, PlaceSingle
  <2>4. SingleInv'
    BY <2>3 DEF SingleInv
  <2> QED
    BY <2>1, <2>2, <2>4
<1> QED
  BY <1>1, <1>2, <1>3 DEF Dispatches

LEMMA CallNext ==
  ASSUME CallInv, [Next]_vars
  PROVE  CallInv'
<1>1. SchedulerInv'
  BY SchedulerNext DEF CallInv
<1>2. ASSUME NEW h \in Host, Submit(h) \/ Dispatch(h)
      PROVE  JobInv' /\ FaasletExact' /\ CounterInv' /\ SingleInv'
  <2>1. Dispatches
    BY <1>2, EveryDispatch DEF CallInv
  <2> QED
    BY <2>1, DispatchCalls
<1>3. ASSUME NEW e \in Exec, ExecStep(e)
      PROVE  JobInv' /\ FaasletExact' /\ CounterInv' /\ SingleInv'
  <2>1. TypeOK /\ JobInv /\ FaasletExact /\ CounterInv /\ SingleInv /\ QueueInv
    BY DEF CallInv, SchedulerInv, CounterInv
  <2>2. JobInv' /\ FaasletExact' /\ CounterInv'
    BY <1>3, <2>1, ExecLeavesJobs, ExecFaaslets, ExecCounters
  <2>3. ASSUME NEW c \in Call, <<c>> \in Batch PROVE SinglePlace(c)'
    <3>1. SinglePlace(c)
      BY <2>1, <2>3 DEF SingleInv
    <3> QED
      BY <1>3, <2>1, <3>1, ExecSingle
  <2>4. SingleInv'
    BY <2>3 DEF SingleInv
  <2> QED
    BY <2>2, <2>4
<1>4. ASSUME UNCHANGED vars
      PROVE  JobInv' /\ FaasletExact' /\ CounterInv' /\ SingleInv'
  <2>1. Dispatches
    <3>1. UNCHANGED <<dispatchVars, hostVars, execVars, threads, runs, results>>
      BY <1>4 DEF vars
    <3>2. pending' = pending /\ job' = job
      BY <3>1 DEF dispatchVars
    <3>3. JobInv'
      BY <3>2 DEF CallInv, JobInv, On
    <3>4. \A c \in Call : Unplaced(c)' => Unplaced(c)
      BY <3>2 DEF Unplaced
    <3> QED
      BY <3>1, <3>3, <3>4 DEF Dispatches
  <2> QED
    BY <2>1, DispatchCalls
<1>5. JobInv' /\ FaasletExact' /\ CounterInv' /\ SingleInv'
  <2>1. CASE Next
    BY <1>2, <1>3, <2>1 DEF Next
  <2> QED
    BY <1>4, <2>1
<1> QED
  BY <1>1, <1>5 DEF CallInv

(* faasletCounts is exact: it counts the bind messages not taken yet and   *)
(* the executors bound to the function, whatever dies and whenever.        *)
(* (addFaaslets, notifyFaasletFinished)                                    *)
THEOREM FaasletsCounted == Spec => []FaasletExact
<1>1. Init => CallInv
  BY CallInit
<1>2. CallInv /\ [Next]_vars => CallInv'
  BY CallNext
<1>3. CallInv => FaasletExact
  BY DEF CallInv
<1> QED
  BY <1>1, <1>2, <1>3, PTL DEF Spec

(* inFlightCounts and functionsinflight are exact: they count the calls in *)
(* the queues, executors and pthreads of a host, so what a host answers    *)
(* when it is asked for its cores is what it has.                          *)
(* (incrementInFlightCount, notifyCallFinished)                            *)
THEOREM InFlightCounted == Spec => []InFlightExact
<1>1. Init => CallInv
  BY CallInit
<1>2. CallInv /\ [Next]_vars => CallInv'
  BY CallNext
<1>3. CallInv => InFlightExact
  BY DEF CallInv, CounterInv
<1> QED
  BY <1>1, <1>2, <1>3, PTL DEF Spec

(* A call submitted on its own is in one place at a time, and executed at  *)
(* most once, whatever RPC fails on the way. (callFunctions)               *)
THEOREM SingleCallsOnce == Spec => []SingleCallOnce
<1>1. Init => CallInv
  BY CallInit
<1>2. CallInv /\ [Next]_vars => CallInv'
  BY CallNext
<1>3. CallInv => SingleCallOnce
  BY SinglePlaces DEF CallInv
<1> QED
  BY <1>1, <1>2, <1>3, PTL DEF Spec
=============================================================================
