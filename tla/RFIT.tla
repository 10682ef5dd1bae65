-------------------------------- MODULE RFIT --------------------------------
(***************************************************************************)
(* The RFIT runtime: Resources R, Functions F, request Instances I and     *)
(* Tasks T (the worker threads).  One dispatcher, main(), accepts requests *)
(* and hands each to a T; every T loops in task_done/getInstance, taking   *)
(* Is from its local map and from its F's global queue, and goes to the    *)
(* idle list of its R when it finds none.                                  *)
(*                                                                         *)
(* One action is one critical section of the code, with the private work   *)
(* of the same thread next to it.  The build modelled is the default one:  *)
(* STEAL_INSTANCE is off and WAVM_ASSERT does not stop the program, so the *)
(* asserted conditions are properties here and never guards.               *)
(***************************************************************************)
EXTENDS Integers, FiniteSets, Sequences

CONSTANTS
  Inst, Task, Func, Res, \* the objects I, T, F and R of the program
  Addr,                  \* values of an FCGX_Request*, what I::hash is computed from
  Null,                  \* nullptr
  Limit, ResOf,          \* concurrencyLimit and r of every F
  UninitCaps,            \* what the never initialised F::restCap.count may hold
  StaleHash,             \* what reading I::hash of a deleted I may yield
  Fcgi,                  \* FCGI_ENABLE: requests are malloc'ed, the function frees them
  CreateMayFail          \* may pthread_create fail?

Conc(f) == Limit[f] > 1
Half(f) == Limit[f] \div 2
TryCount == 3 \* TRY_COUNT

ASSUME NullAssumption == Null \notin Inst \cup Task \cup Func \cup Res \cup Addr
ASSUME FuncAssumption == Limit \in [Func -> Nat] /\ ResOf \in [Func -> Res]
ASSUME DataAssumption == UninitCaps \subseteq Int /\ StaleHash \subseteq Addr \cup {Null}
ASSUME BuildAssumption == Fcgi \in BOOLEAN /\ CreateMayFail \in BOOLEAN
ASSUME FiniteAssumption == IsFiniteSet(Inst) /\ IsFiniteSet(Task)

VARIABLES
  dpc, da, di, dt, fails,                          \* main(): pc, request, I, T, failed pthread_creates
  fOf, req, runs, frees, reqs,                     \* I::f, I::request, executions, deletes; live request values
  queue, cap, cap0,                                \* F::globalIQueue, F::restCap.count and its initial value
  idle, busy,                                      \* R::idleTask, R::busyTask
  tpc, got, home,                                  \* per T: pc, locals i and r of getInstance
  status, workFor, dealWith, directRun, sem, hash, local

dvars == <<dpc, da, di, dt, fails>>
ivars == <<fOf, req, runs, frees, reqs>>
fvars == <<queue, cap, cap0>>
rvars == <<idle, busy>>
tvars == <<tpc, got, home, status, workFor, dealWith, directRun, sem, hash, local>>
vars  == <<dvars, ivars, fvars, rvars, tvars>>

(* A new object: which of the unused names it gets makes no difference. *)
Fresh(S) == CHOOSE x \in S : TRUE

(***************************************************************************)
(* WAVM::HashMap as the code uses it: an add under a key that is present   *)
(* and a removal of a key that is absent do nothing.                       *)
(***************************************************************************)
HashMapAdd(m, k, v) == IF \E e \in m : e[1] = k THEN m ELSE m \cup {<<k, v>>}
HashMapRemoveNothing(m, k) == m
HashMapRemove(m, k) == {e \in m : e[1] # k}

(* addMultiI: the pulled Is enter the local map in order, keyed by their   *)
(* request; one whose key is present is dropped.                           *)
AddMultiI(loc, s) ==
  loc \cup {s[k] : k \in {k \in DOMAIN s :
                            \A j \in loc \cup {s[m] : m \in 1..(k - 1)} : req[j] # req[s[k]]}}

(* Up to half the limit of the n Is in the queue are pulled. *)
PullCount(f, n) == IF Half(f) < n THEN Half(f) ELSE n

(* tryDequeue, n times *)
RestUnpopped(q, n) == q
Rest(q, n) == SubSeq(q, n + 1, Len(q))

(* F::scaleCap *)
ScaleCap(f, n) == cap' = [cap EXCEPT ![f] = @ + n]

Init ==
  /\ dpc = "malloc" /\ da = Null /\ di = Null /\ dt = Null /\ fails = 0
  /\ fOf = [i \in Inst |-> Null]
  /\ req = [i \in Inst |-> Null]
  /\ runs = [i \in Inst |-> 0]
  /\ frees = [i \in Inst |-> 0]
  /\ reqs = {}
  /\ queue = [f \in Func |-> <<>>]
  /\ cap0 \in [Func -> UninitCaps]
  /\ cap = cap0
  /\ idle = [r \in Res |-> <<>>]
  /\ busy = [r \in Res |-> {}]
  /\ tpc = [t \in Task |-> "absent"]
  /\ got = [t \in Task |-> Null]
  /\ home = [t \in Task |-> Null]
  /\ status = [t \in Task |-> "None"]
  /\ workFor = [t \in Task |-> Null]
  /\ dealWith = [t \in Task |-> Null]
  /\ directRun = [t \in Task |-> FALSE]
  /\ sem = [t \in Task |-> 0]
  /\ hash = [t \in Task |-> Null]
  /\ local = [t \in Task |-> {}]

-----------------------------------------------------------------------------
(* The dispatcher: main's loop, I::make_request and T::get_T_for_I.        *)

(* The request value of the next I: a malloc'ed block, or the loop counter.*)
MallocRequest ==
  /\ dpc = "malloc"
  /\ reqs # Addr
  /\ \E a \in IF Fcgi THEN Addr \ reqs ELSE {Fresh(Addr \ reqs)} :
       da' = a /\ reqs' = reqs \cup {a}
  /\ dpc' = "accept"
  /\ UNCHANGED <<di, dt, fails, fOf, req, runs, frees, fvars, rvars, tvars>>

(* FCGX_Accept_r fails: main frees the request and returns, the process ends. *)
AcceptFails ==
  /\ Fcgi /\ dpc = "accept"
  /\ reqs' = reqs \ {da}
  /\ da' = Null
  /\ dpc' = "exited"
  /\ UNCHANGED <<di, dt, fails, fOf, req, runs, frees, fvars, rvars, tvars>>

MakeRequest(f) ==
  LET unused == {i \in Inst : fOf[i] = Null}  i == Fresh(unused)
  IN /\ dpc = "accept" /\ unused # {}
     /\ fOf' = [fOf EXCEPT ![i] = f]
     /\ req' = [req EXCEPT ![i] = da]
     /\ di' = i
     /\ da' = Null
     /\ dpc' = IF Conc(f) THEN "enqueue" ELSE "getT"
     /\ UNCHANGED <<dt, fails, runs, frees, reqs, fvars, rvars, tvars>>

EnqueueI ==
  /\ dpc = "enqueue"
  /\ queue' = [queue EXCEPT ![fOf[di]] = Append(@, di)]
  /\ dpc' = "tryDown"
  /\ UNCHANGED <<da, di, dt, fails, ivars, cap, cap0, rvars, tvars>>

Dispatched == dpc' = "malloc" /\ di' = Null /\ dt' = Null

TryScaleDownCap ==
  /\ dpc = "tryDown"
  /\ IF cap[fOf[di]] < 1
       THEN dpc' = "scaleUp" /\ UNCHANGED <<di, dt, cap>>
       ELSE ScaleCap(fOf[di], -1) /\ Dispatched
  /\ UNCHANGED <<da, fails, ivars, queue, cap0, rvars, tvars>>


ScaleUpCap ==
  /\ dpc = "scaleUp"
  /\ ScaleCap(fOf[di], Limit[fOf[di]] - 1)
  /\ dpc' = "getT"
  /\ UNCHANGED <<da, di, dt, fails, ivars, queue, cap0, rvars, tvars>>

(* R::getTFromIdle *)
TFromIdle(t, r) ==
  /\ idle' = [idle EXCEPT ![r] = Tail(@)]
  /\ status' = [status EXCEPT ![t] = "None"]

(* A T is told its I only when the F is not concurrent. *)
NameI(t, f) ==
  IF Conc(f) THEN UNCHANGED <<dealWith, directRun>>
  ELSE /\ dealWith' = [dealWith EXCEPT ![t] = di]
       /\ directRun' = [directRun EXCEPT ![t] = TRUE]

(* T::get_T_for_I when there is an idle T. *)
GetIdleT ==
  LET f == fOf[di]  r == ResOf[f]  t == Head(idle[r])
  IN /\ dpc = "getT" /\ idle[r] # <<>>
     /\ TFromIdle(t, r)
     /\ workFor' = [workFor EXCEPT ![t] = f]
     /\ NameI(t, f)
     /\ dt' = t
     /\ dpc' = "putBusy"
     /\ UNCHANGED <<da, di, fails, ivars, fvars, busy, tpc, got, home, sem, hash, local>>

(* Bound: with no unused T left in Task the dispatcher is slow and finds  *)
(* the next T that goes idle.                                              *)
NoIdleT ==
  /\ dpc = "getT" /\ idle[ResOf[fOf[di]]] = <<>>
  /\ \E t \in Task : tpc[t] = "absent"
  /\ dpc' = "newT"
  /\ UNCHANGED <<da, di, dt, fails, ivars, fvars, rvars, tvars>>

PutT2Busy(t, r, h) ==
  /\ status' = [status EXCEPT ![t] = "Busy"]
  /\ busy' = [busy EXCEPT ![r] = HashMapAdd(@, h, t)]

PutIdleT2Busy ==
  /\ dpc = "putBusy"
  /\ PutT2Busy(dt, ResOf[fOf[di]], hash[dt])
  /\ dpc' = "wake"
  /\ UNCHANGED <<da, di, dt, fails, ivars, fvars, idle, tpc, got, home, workFor, dealWith,
                 directRun, sem, hash, local>>

ThreadWakeUpMayBeLost ==
  /\ dpc = "wake"
  /\ sem' \in {sem, [sem EXCEPT ![dt] = @ + 1]}
  /\ Dispatched
  /\ UNCHANGED <<da, fails, ivars, fvars, rvars, tpc, got, home, status, workFor, dealWith,
                 directRun, hash, local>>

ThreadWakeUpOne ==
  /\ dpc = "wake"
  /\ sem' = [sem EXCEPT ![dt] = @ + 1]
  /\ Dispatched
  /\ UNCHANGED <<da, fails, ivars, fvars, rvars, tpc, got, home, status, workFor, dealWith,
                 directRun, hash, local>>

(* T::T: the hash of the new T is computed from I::hash, which is garbage  *)
(* when a T has already run and deleted that I.                            *)
NewT ==
  LET f == fOf[di]  absent == {u \in Task : tpc[u] = "absent"}  t == Fresh(absent)
  IN /\ dpc = "newT" /\ absent # {}
     /\ \E h \in IF frees[di] = 0 THEN {req[di]} ELSE StaleHash :
          /\ tpc' = [tpc EXCEPT ![t] = "created"]
          /\ workFor' = [workFor EXCEPT ![t] = f]
          /\ hash' = [hash EXCEPT ![t] = h]
          /\ NameI(t, f)
          /\ PutT2Busy(t, ResOf[f], h)
     /\ dt' = t
     /\ dpc' = "create"
     /\ UNCHANGED <<da, di, fails, ivars, fvars, idle, got, home, sem, local>>

PthreadCreate ==
  /\ dpc = "create"
  /\ tpc' = [tpc EXCEPT ![dt] = "top"]
  /\ fails' = 0
  /\ Dispatched
  /\ UNCHANGED <<da, ivars, fvars, rvars, got, home, status, workFor, dealWith, directRun,
                 sem, hash, local>>

Retry == fails < TryCount

(* bind_os_thread retries TRY_COUNT times and then returns false, which    *)
(* nobody looks at: the T stays in the busy map without a thread.          *)
PthreadCreateFails ==
  /\ CreateMayFail /\ dpc = "create"
  /\ IF Retry
       THEN fails' = fails + 1 /\ UNCHANGED <<dpc, di, dt>>
       ELSE fails' = 0 /\ Dispatched
  /\ UNCHANGED <<da, ivars, fvars, rvars, tvars>>

-----------------------------------------------------------------------------
(* A worker thread: task_done and getInstance.                             *)

(* task_done is entered by a fresh thread, which has no I to account for. *)
StartTask(t) ==
  /\ tpc[t] = "top" /\ (directRun[t] \/ dealWith[t] = Null)
  /\ tpc' = [tpc EXCEPT ![t] = "find"]
  /\ UNCHANGED <<dvars, ivars, fvars, rvars, got, home, status, workFor, dealWith, directRun,
                 sem, hash, local>>

(* The unit of capacity a finished I of f gives back. *)
KeepUnit(f) == UNCHANGED cap
GiveBackUnit(f) == IF Conc(f) THEN ScaleCap(f, 1) ELSE UNCHANGED cap

(* The I's context returned to task_done: give its unit of capacity back  *)
(* and delete it.                                                          *)
FinishI(t) ==
  /\ tpc[t] = "top" /\ ~directRun[t] /\ dealWith[t] # Null
  /\ GiveBackUnit(workFor[t])
  /\ frees' = [frees EXCEPT ![dealWith[t]] = @ + 1]
  /\ tpc' = [tpc EXCEPT ![t] = "find"]
  /\ UNCHANGED <<dvars, fOf, req, runs, reqs, queue, cap0, rvars, got, home, status, workFor,
                 dealWith, directRun, sem, hash, local>>

DirectIgnoringFlag(t) == dealWith[t] # Null /\ workFor[t] # Null /\ ~Conc(workFor[t])
Direct(t) == dealWith[t] # Null /\ workFor[t] # Null /\ ~Conc(workFor[t]) /\ directRun[t]

GetDirectI(t) ==
  /\ tpc[t] = "find" /\ Direct(t)
  /\ directRun' = [directRun EXCEPT ![t] = FALSE]
  /\ tpc' = [tpc EXCEPT ![t] = "run"]
  /\ UNCHANGED <<dvars, ivars, fvars, rvars, got, home, status, workFor, dealWith, sem, hash, local>>

(* A T whose F is not concurrent looks nowhere else. *)
NoDirectI(t) ==
  /\ tpc[t] = "find" /\ ~Direct(t) /\ ~Conc(workFor[t])
  /\ tpc' = [tpc EXCEPT ![t] = "unbusy"]
  /\ UNCHANGED <<dvars, ivars, fvars, rvars, got, home, status, workFor, dealWith, directRun,
                 sem, hash, local>>

(* getInstance returns I i. *)
Return(t, i) ==
  /\ workFor' = [workFor EXCEPT ![t] = fOf[i]]
  /\ dealWith' = [dealWith EXCEPT ![t] = i]
  /\ got' = [got EXCEPT ![t] = Null]
  /\ tpc' = [tpc EXCEPT ![t] = "run"]

(* takeIFromILocalMap_safe takes any I of the map, the first in hash order.*)
TakeLocalI(t) ==
  /\ tpc[t] = "find" /\ ~Direct(t) /\ Conc(workFor[t])
  /\ \E i \in local[t] :
       /\ local' = [local EXCEPT ![t] = @ \ {i}]
       /\ IF Cardinality(local[t] \ {i}) <= Half(workFor[t])
            THEN /\ got' = [got EXCEPT ![t] = i]
                 /\ tpc' = [tpc EXCEPT ![t] = "count"]
                 /\ UNCHANGED <<workFor, dealWith>>
            ELSE Return(t, i)
  /\ UNCHANGED <<dvars, ivars, fvars, rvars, home, status, directRun, sem, hash>>

NoLocalI(t) ==
  /\ tpc[t] = "find" /\ ~Direct(t) /\ Conc(workFor[t]) /\ local[t] = {}
  /\ tpc' = [tpc EXCEPT ![t] = "count"]
  /\ UNCHANGED <<dvars, ivars, fvars, rvars, got, home, status, workFor, dealWith, directRun,
                 sem, hash, local>>

(* tryGetIFromF2T_safe returns 0. *)
NothingPulledLeaves(t) ==
  tpc' = [tpc EXCEPT ![t] = "leave"] /\ UNCHANGED <<workFor, dealWith, got>>
NothingPulled(t) ==
  IF got[t] # Null THEN Return(t, got[t])
  ELSE tpc' = [tpc EXCEPT ![t] = "leave"] /\ UNCHANGED <<workFor, dealWith, got>>

(* F::getICount under the lock of the queue. *)
GetICount(t) ==
  /\ tpc[t] = "count"
  /\ IF queue[workFor[t]] = <<>>
       THEN NothingPulled(t)
       ELSE tpc' = [tpc EXCEPT ![t] = "peek"] /\ UNCHANGED <<workFor, dealWith, got>>
  /\ UNCHANGED <<dvars, ivars, fvars, rvars, home, status, directRun, sem, hash, local>>

(* Another thread is about to change the queue of f. *)
Racing(t, f) ==
  \/ dpc = "enqueue" /\ fOf[di] = f
  \/ queue[f] # <<>> /\ \E u \in Task \ {t} : tpc[u] = "pull" /\ workFor[u] = f

(* F::tryGetMultiI reads the size before it locks: a data race, after     *)
(* which either branch is possible.                                        *)
PeekSize(t) ==
  /\ tpc[t] = "peek"
  /\ \E empty \in IF Racing(t, workFor[t]) THEN BOOLEAN ELSE {queue[workFor[t]] = <<>>} :
       IF empty THEN NothingPulled(t)
       ELSE tpc' = [tpc EXCEPT ![t] = "pull"] /\ UNCHANGED <<workFor, dealWith, got>>
  /\ UNCHANGED <<dvars, ivars, fvars, rvars, home, status, directRun, sem, hash, local>>

(* The locked part of tryGetMultiI: up to half the limit of Is move to the *)
(* local map, and a T that had none takes one of them.                     *)
PullMultiI(t) ==
  LET q   == queue[workFor[t]]
      n   == PullCount(workFor[t], Len(q))
      loc == AddMultiI(local[t], SubSeq(q, 1, n))
  IN /\ tpc[t] = "pull"
     /\ queue' = [queue EXCEPT ![workFor[t]] = Rest(q, n)]
     /\ IF n = 0 \/ got[t] # Null
          THEN NothingPulled(t) /\ local' = [local EXCEPT ![t] = loc]
          ELSE \E i \in loc : Return(t, i) /\ local' = [local EXCEPT ![t] = loc \ {i}]
     /\ UNCHANGED <<dvars, ivars, cap, cap0, rvars, home, status, directRun, sem, hash>>

(* leaveFromF_safe *)

LeaveFromF(t) ==
  /\ tpc[t] = "leave"
  /\ ScaleCap(workFor[t], -Limit[workFor[t]])
  /\ tpc' = [tpc EXCEPT ![t] = "unbusy"]
  /\ UNCHANGED <<dvars, ivars, queue, cap0, rvars, got, home, status, workFor, dealWith,
                 directRun, sem, hash, local>>

RemoveTFromBusy(t) ==
  LET r == ResOf[workFor[t]]
  IN /\ tpc[t] = "unbusy"
     /\ home' = [home EXCEPT ![t] = r]
     /\ status' = [status EXCEPT ![t] = "None"]
     /\ busy' = [busy EXCEPT ![r] = HashMapRemove(@, hash[t])]
     /\ workFor' = [workFor EXCEPT ![t] = Null]
     /\ directRun' = [directRun EXCEPT ![t] = FALSE]
     /\ tpc' = [tpc EXCEPT ![t] = "putIdle"]
     /\ UNCHANGED <<dvars, ivars, fvars, idle, got, dealWith, sem, hash, local>>

PutT2Idle(t) ==
  /\ tpc[t] = "putIdle"
  /\ status' = [status EXCEPT ![t] = "Idle"]
  /\ idle' = [idle EXCEPT ![home[t]] = Append(@, t)]
  /\ home' = [home EXCEPT ![t] = Null]
  /\ tpc' = [tpc EXCEPT ![t] = "sleep"]
  /\ UNCHANGED <<dvars, ivars, fvars, busy, got, workFor, dealWith, directRun, sem, hash, local>>

ThreadSleepKeepingPost(t) ==
  /\ tpc[t] = "sleep" /\ sem[t] > 0
  /\ tpc' = [tpc EXCEPT ![t] = "find"]
  /\ UNCHANGED <<dvars, ivars, fvars, rvars, got, home, status, workFor, dealWith, directRun,
                 sem, hash, local>>

ThreadSleep(t) ==
  /\ tpc[t] = "sleep" /\ sem[t] > 0
  /\ sem' = [sem EXCEPT ![t] = @ - 1]
  /\ tpc' = [tpc EXCEPT ![t] = "find"]
  /\ UNCHANGED <<dvars, ivars, fvars, rvars, got, home, status, workFor, dealWith, directRun,
                 hash, local>>

(* The function of the F runs in the context of the I; with FCGI its last *)
(* act is to free the request.                                             *)
RunFunction(t) ==
  /\ tpc[t] = "run"
  /\ runs' = [runs EXCEPT ![dealWith[t]] = @ + 1]
  /\ reqs' = IF Fcgi THEN reqs \ {req[dealWith[t]]} ELSE reqs
  /\ tpc' = [tpc EXCEPT ![t] = "top"]
  /\ UNCHANGED <<dvars, fOf, req, frees, fvars, rvars, got, home, status, workFor, dealWith,
                 directRun, sem, hash, local>>

-----------------------------------------------------------------------------
DispatchStep ==
  \/ MallocRequest \/ EnqueueI \/ TryScaleDownCap \/ ScaleUpCap \/ GetIdleT \/ NoIdleT
  \/ PutIdleT2Busy \/ ThreadWakeUpOne \/ NewT \/ PthreadCreate \/ PthreadCreateFails

Accept == AcceptFails \/ \E f \in Func : MakeRequest(f)

TaskStep(t) ==
  \/ StartTask(t) \/ FinishI(t) \/ GetDirectI(t) \/ NoDirectI(t) \/ TakeLocalI(t)
  \/ NoLocalI(t) \/ GetICount(t) \/ PeekSize(t) \/ PullMultiI(t) \/ LeaveFromF(t)
  \/ RemoveTFromBusy(t) \/ PutT2Idle(t) \/ ThreadSleep(t) \/ RunFunction(t)

(* The process ended, or every request of the instance was made and every *)
(* T with a thread waits in thread_sleep.                                  *)
Quiescent ==
  \/ dpc = "exited"
  \/ /\ dpc \in {"malloc", "accept"} /\ \A i \in Inst : fOf[i] # Null
     /\ \A t \in Task : tpc[t] \in {"absent", "created", "sleep"} /\ sem[t] = 0

Stopped == Quiescent /\ UNCHANGED vars

Next ==
  \/ DispatchStep
  \/ Accept
  \/ dpc # "exited" /\ \E t \in Task : TaskStep(t)
  \/ Stopped

Spec == Init /\ [][Next]_vars

(* The dispatcher and every thread keep running; nothing makes a client   *)
(* send another request.                                                   *)
FairSpec ==
  /\ Spec
  /\ WF_vars(DispatchStep)
  /\ \A t \in Task : WF_vars(dpc # "exited" /\ TaskStep(t))

-----------------------------------------------------------------------------
DispatchPc == {"malloc", "accept", "exited", "enqueue", "tryDown", "scaleUp", "getT",
               "newT", "putBusy", "wake", "create"}
TaskPc == {"absent", "created", "top", "find", "run", "count", "peek", "pull", "leave",
           "unbusy", "putIdle", "sleep"}

MainTypes ==
  /\ dpc \in DispatchPc
  /\ da \in Addr \cup {Null} /\ di \in Inst \cup {Null} /\ dt \in Task \cup {Null}
  /\ fails \in 0..TryCount
InstTypes ==
  /\ fOf \in [Inst -> Func \cup {Null}]
  /\ req \in [Inst -> Addr \cup {Null}]
  /\ runs \in [Inst -> Nat]
  /\ frees \in [Inst -> Nat]
  /\ reqs \subseteq Addr
FuncTypes ==
  /\ queue \in [Func -> Seq(Inst)]
  /\ cap \in [Func -> Int]
  /\ cap0 \in [Func -> Int]
ResTypes ==
  /\ idle \in [Res -> Seq(Task)]
  /\ busy \in [Res -> SUBSET ((Addr \cup {Null}) \X Task)]
TaskTypes ==
  /\ tpc \in [Task -> TaskPc]
  /\ got \in [Task -> Inst \cup {Null}]
  /\ home \in [Task -> Res \cup {Null}]
  /\ status \in [Task -> {"None", "Idle", "Busy"}]
  /\ workFor \in [Task -> Func \cup {Null}]
  /\ dealWith \in [Task -> Inst \cup {Null}]
  /\ directRun \in [Task -> BOOLEAN]
  /\ sem \in [Task -> Nat]
  /\ hash \in [Task -> Addr \cup {Null}]
  /\ local \in [Task -> SUBSET Inst]

(* Every variable has its type. *)
TypeOK == MainTypes /\ InstTypes /\ FuncTypes /\ ResTypes /\ TaskTypes

-----------------------------------------------------------------------------
(* Where an I that is not deleted can be.  main holds it until it is in a  *)
(* queue or named to a T; "deal" is a T about to run it or running it,     *)
(* "done" a T about to delete it.                                          *)
HeldByMain(i) == di = i /\ (dpc = "enqueue" \/ (dpc \in {"getT", "newT"} /\ ~Conc(fOf[i])))
Deals(t, i) == dealWith[t] = i /\ (directRun[t] \/ tpc[t] = "run")
Finishes(t, i) == dealWith[t] = i /\ ~directRun[t] /\ tpc[t] = "top"

Queued(f, i) == {k \in DOMAIN queue[f] : queue[f][k] = i}

Waiting(i) ==
  (IF HeldByMain(i) THEN {<<"main", Null, 0>>} ELSE {})
    \cup (UNION {{"queue"} \X {f} \X Queued(f, i) : f \in Func})
    \cup {"local"} \X {t \in Task : i \in local[t]} \X {0}
    \cup {"got"} \X {t \in Task : got[t] = i} \X {0}
    \cup {"deal"} \X {t \in Task : Deals(t, i)} \X {0}

Made(i) == fOf[i] # Null

(* A T that is leaving its F or asleep holds no I: nothing waits in the    *)
(* local map of a T that nobody is bound to wake.  (getInstance)           *)
IdleHoldsNothing ==
  \A t \in Task : tpc[t] \in {"leave", "unbusy", "putIdle", "sleep"} =>
                    local[t] = {} /\ got[t] = Null

(* No I is lost, duplicated or run twice: an I that did not run yet is in  *)
(* exactly one place, one that ran is in none and is deleted once, by the  *)
(* one T that ran it; and nobody goes to sleep on one.                     *)
(* (addI2F, tryGetMultiI, addMultiI, getInstance, task_done)               *)
PlacedOnce ==
  /\ IdleHoldsNothing
  /\ \A i \in Inst :
       LET finishing == {t \in Task : Finishes(t, i)}
       IN /\ Cardinality(Waiting(i)) = IF Made(i) /\ runs[i] = 0 THEN 1 ELSE 0
          /\ runs[i] \in {0, 1}
          /\ Cardinality(finishing) = runs[i] - frees[i]
          /\ \A f \in Func : Queued(f, i) # {} => fOf[i] = f

Listed(t) == UNION {{r} \X {k \in DOMAIN idle[r] : idle[r][k] = t} : r \in Res}
InHand(t) == dt = t /\ dpc \in {"putBusy", "wake"}

(* A sleeping T is in one idle list once, or in the dispatcher's hand, or  *)
(* has one post pending, and never two of these; a T that is awake is in   *)
(* none, so no wake-up is lost or given twice (comment of getInstance).    *)
WakeUpExact ==
  \A t \in Task : Cardinality(Listed(t)) + (IF InHand(t) THEN 1 ELSE 0) + sem[t]
                  = IF tpc[t] = "sleep" THEN 1 ELSE 0

DirectOnly(r) == \A f \in Func : ResOf[f] = r => ~Conc(f)

Attached(f) == {t \in Task : workFor[t] = f /\ tpc[t] # "unbusy"}
Live(f) == {i \in Inst : fOf[i] = f /\ frees[i] = 0}
(* The T that scaleCap(limit - 1) paid for and get_T_for_I has not bound yet. *)
Owed(f) == IF dpc \in {"getT", "newT"} /\ fOf[di] = f THEN 1 ELSE 0
(* The I that addI2F has not charged yet. *)
Uncharged(f) == IF dpc \in {"enqueue", "tryDown", "scaleUp"} /\ fOf[di] = f THEN 1 ELSE 0

(* What restCap counts, at every point of every interleaving: the limit    *)
(* for every T attached to the F less one for every live I, from whatever  *)
(* the memory held at first.  (addI2F, task_done, leaveFromF_safe)         *)
CapAccounting ==
  \A f \in Func : Conc(f) =>
    cap[f] = cap0[f] + Limit[f] * (Cardinality(Attached(f)) + Owed(f))
                     - Cardinality(Live(f)) + Uncharged(f)

-----------------------------------------------------------------------------
Stranded(f) ==
  Conc(f) /\ queue[f] # <<>> /\ Attached(f) = {} /\ Owed(f) = 0 /\ Uncharged(f) = 0

(* Every request is run once and deleted once, or it is of a concurrent F  *)
(* that is left with a backlog and no T at all: no other way exists to     *)
(* miss a request.  (addI2F, get_T_for_I, getInstance)                      *)
ServedOrStranded ==
  \A i \in Inst, f \in Func :
    fOf[i] = f ~> (runs[i] = 1 /\ frees[i] = 1) \/ Stranded(f)

(* main's assert after sleep(10): once all requests are made, the busy map *)
(* of an R without concurrent functions empties.                           *)
BusyDrains ==
  (\A i \in Inst : Made(i)) ~> (\A r \in Res : DirectOnly(r) => busy[r] = {})

-----------------------------------------------------------------------------
Service == INSTANCE RequestService
  WITH Request <- Inst, Function <- Func, None <- Null,
       target <- fOf, served <- runs, deleted <- frees

(* RFIT implements the service: each request is handed to its function at  *)
(* most once and its I deleted at most once, after that.                   *)
ImplementsService == Service!ServiceSpec
=============================================================================
