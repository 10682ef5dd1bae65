----------------------------- MODULE RFITProofs -----------------------------
(***************************************************************************)
(* Theorems about RFIT, for every set of Is, Ts, Fs and Rs, every limit    *)
(* and every outcome of the choices the build leaves open.                 *)
(***************************************************************************)
EXTENDS RFIT, FiniteSetTheorems, TLAPS

-----------------------------------------------------------------------------
(* The pcs at which main() holds an I, and a T.                            *)
HoldingI == {"enqueue", "tryDown", "scaleUp", "getT", "newT", "putBusy", "wake", "create"}
HoldingT == {"putBusy", "wake", "create"}

(* The pcs at which a T works for an F. *)
Employed == {"created", "top", "find", "run", "count", "peek", "pull", "leave", "unbusy"}

(* What main() knows of the I and the T it holds. *)
MainInv ==
  /\ dpc \in HoldingI => di \in Inst /\ fOf[di] \in Func
  /\ dpc \in HoldingT => dt \in Task /\ workFor[dt] = fOf[di]
  /\ dpc = "create" => tpc[dt] = "created"
  /\ dpc \in {"putBusy", "wake"} => tpc[dt] = "sleep" /\ sem[dt] = 0

(* A T has an F while it works, and a post pending only while it sleeps. *)
TaskInv ==
  \A t \in Task :
    /\ tpc[t] \in Employed => workFor[t] \in Func
    /\ tpc[t] = "putIdle" => home[t] \in Res
    /\ sem[t] # 0 => sem[t] = 1 /\ tpc[t] = "sleep" /\ workFor[t] \in Func

(* A T that sleeps has been woken, is being woken or can be found. *)
SleepInv ==
  \A t \in Task : tpc[t] = "sleep" => \/ sem[t] = 1
                                     \/ InHand(t)
                                     \/ \E r \in Res : \E k \in DOMAIN idle[r] : idle[r][k] = t

(* The idle lists hold sleeping Ts nobody woke, each T once. *)
IdleInv ==
  /\ \A r \in Res : \A k \in DOMAIN idle[r] :
       tpc[idle[r][k]] = "sleep" /\ sem[idle[r][k]] = 0 /\ ~InHand(idle[r][k])
  /\ \A r, s \in Res : \A k \in DOMAIN idle[r], l \in DOMAIN idle[s] :
       idle[r][k] = idle[s][l] => r = s /\ k = l

(* Which Is a T and a queue may hold: those of their own F.  Only a T that *)
(* works for a concurrent F looks for more, and it keeps no I when it     *)
(* stops looking.                                                          *)
HoldInv ==
  /\ \A f \in Func : \A k \in DOMAIN queue[f] : fOf[queue[f][k]] = f
  /\ \A t \in Task :
       /\ local[t] # {} => Conc(workFor[t]) /\ tpc[t] \in {"top", "find", "run", "count", "peek", "pull"}
       /\ \A i \in local[t] : fOf[i] = workFor[t]
       /\ got[t] # Null => tpc[t] \in {"count", "peek", "pull"} /\ fOf[got[t]] = workFor[t]
       /\ tpc[t] \in {"count", "peek", "pull"} => Conc(workFor[t]) /\ (got[t] = Null => local[t] = {})
       /\ tpc[t] = "leave" => Conc(workFor[t])

ControlInv == TypeOK /\ MainInv /\ TaskInv /\ SleepInv /\ IdleInv /\ HoldInv


LEMMA FreshIn == ASSUME NEW S, S # {} PROVE Fresh(S) \in S
  BY DEF Fresh

LEMMA ControlInit == Init => ControlInv
<1> SUFFICES ASSUME Init PROVE ControlInv
  OBVIOUS
<1>1. MainTypes
  BY DEF Init, MainTypes, DispatchPc, TryCount
<1>2. InstTypes
  BY DEF Init, InstTypes
<1>3. FuncTypes
  <2>1. queue \in [Func -> Seq(Inst)]
    BY DEF Init
  <2> QED
  BY <2>1, DataAssumption DEF Init, FuncTypes
<1>4. ResTypes
  BY DEF Init, ResTypes
<1>5. TaskTypes
  BY DEF Init, TaskTypes, TaskPc
<1>6. MainInv
  BY DEF Init, MainInv, HoldingI, HoldingT
<1>7. TaskInv
  BY DEF Init, TaskInv, Employed
<1>8. SleepInv
  BY DEF Init, SleepInv
<1>9. IdleInv
  BY DEF Init, IdleInv
<1>10. HoldInv
  BY DEF Init, HoldInv
<1> QED
  BY <1>1, <1>2, <1>3, <1>4, <1>5, <1>6, <1>7, <1>8, <1>9, <1>10 DEF ControlInv, TypeOK


(* What NewT does to the T it creates. *)
Creates(t) ==
  /\ tpc[t] = "absent" /\ tpc' = [tpc EXCEPT ![t] = "created"]
  /\ workFor' = [workFor EXCEPT ![t] = fOf[di]]
  /\ NameI(t, fOf[di])
  /\ dt' = t

LEMMA NewFacts ==
  ASSUME ControlInv, NewT
  PROVE  di \in Inst /\ fOf[di] \in Func /\ \E t \in Task : Creates(t)
<1> DEFINE t == Fresh({u \in Task : tpc[u] = "absent"})
<1>1. di \in Inst /\ fOf[di] \in Func
  BY DEF NewT, ControlInv, MainInv, HoldingI
<1>2. t \in Task /\ tpc[t] = "absent"
  BY FreshIn DEF NewT
<1>3. Creates(t)
  BY <1>2 DEF NewT, Creates
<1> QED
  BY <1>1, <1>2, <1>3

(* What GetIdleT does to the T it finds. *)
Finds(t, r) ==
  /\ idle[r] # <<>> /\ t = idle[r][1] /\ idle' = [idle EXCEPT ![r] = Tail(idle[r])]
  /\ tpc[t] = "sleep" /\ sem[t] = 0 /\ ~InHand(t)
  /\ workFor' = [workFor EXCEPT ![t] = fOf[di]]
  /\ NameI(t, fOf[di])
  /\ dt' = t

LEMMA IdleFacts ==
  ASSUME ControlInv, GetIdleT
  PROVE  di \in Inst /\ fOf[di] \in Func /\ \E t \in Task, r \in Res : Finds(t, r)
<1> DEFINE r == ResOf[fOf[di]]
           t == Head(idle[r])
<1>1. di \in Inst /\ fOf[di] \in Func /\ r \in Res
  BY FuncAssumption DEF GetIdleT, ControlInv, MainInv, HoldingI
<1>2. idle[r] \in Seq(Task) /\ idle[r] # <<>>
  BY <1>1 DEF GetIdleT, ControlInv, TypeOK, ResTypes
<1>3. t \in Task /\ 1 \in DOMAIN idle[r] /\ t = idle[r][1]
  BY <1>2
<1>4. tpc[t] = "sleep" /\ sem[t] = 0 /\ ~InHand(t)
  <2> HIDE DEF t, r
  <2> QED
    BY <1>1, <1>3 DEF ControlInv, IdleInv
<1>5. Finds(t, r)
  BY <1>2, <1>3, <1>4 DEF GetIdleT, TFromIdle, Finds
<1> QED
  BY <1>1, <1>3, <1>5

LEMMA MainTypesNext == ControlInv /\ [Next]_vars => MainTypes'
<1> SUFFICES ASSUME ControlInv, [Next]_vars PROVE MainTypes'
  OBVIOUS
<1> USE DEF ControlInv, TypeOK, MainTypes, DispatchPc, TryCount, Dispatched
<1>1. CASE MallocRequest
  <2>1. PICK a \in Addr : da' = a /\ reqs' = reqs \cup {a}
    <3>1. Addr \ reqs # {}
      BY <1>1 DEF MallocRequest, InstTypes
    <3>2. Fresh(Addr \ reqs) \in Addr
      BY <3>1, FreshIn
    <3> QED
      BY <1>1, <3>2 DEF MallocRequest
  <2> QED
    BY <1>1, <2>1 DEF MallocRequest
<1>2. CASE AcceptFails
  BY <1>2 DEF AcceptFails
<1>3. CASE EnqueueI
  BY <1>3 DEF EnqueueI
<1>4. CASE TryScaleDownCap
  BY <1>4 DEF TryScaleDownCap
<1>5. CASE ScaleUpCap
  BY <1>5 DEF ScaleUpCap
<1>6. CASE GetIdleT
  BY <1>6, FuncAssumption DEF GetIdleT, MainInv, HoldingI, ResTypes
<1>7. CASE NoIdleT
  BY <1>7 DEF NoIdleT
<1>8. CASE PutIdleT2Busy
  BY <1>8 DEF PutIdleT2Busy
<1>9. CASE ThreadWakeUpOne
  BY <1>9 DEF ThreadWakeUpOne
<1>10. CASE NewT
  BY <1>10, FreshIn DEF NewT
<1>11. CASE PthreadCreate
  BY <1>11 DEF PthreadCreate
<1>12. CASE PthreadCreateFails
  BY <1>12 DEF PthreadCreateFails, Retry
<1>13. ASSUME NEW f \in Func, MakeRequest(f) PROVE MainTypes'
  BY <1>13, FreshIn DEF MakeRequest
<1>14. CASE UNCHANGED dvars
  BY <1>14 DEF dvars
<1> QED
  BY <1>1, <1>2, <1>3, <1>4, <1>5, <1>6, <1>7, <1>8, <1>9, <1>10, <1>11, <1>12, <1>13, <1>14
  DEF Next, DispatchStep, Accept, TaskStep, Stopped, vars, dvars, ivars, fvars, rvars, tvars,
  StartTask, FinishI, GetDirectI, NoDirectI, TakeLocalI, NoLocalI, GetICount, PeekSize,
  PullMultiI, LeaveFromF, RemoveTFromBusy, PutT2Idle, ThreadSleep, RunFunction

LEMMA InstTypesNext == ControlInv /\ [Next]_vars => InstTypes'
<1> SUFFICES ASSUME ControlInv, [Next]_vars PROVE InstTypes'
  OBVIOUS
<1> USE DEF ControlInv, TypeOK, InstTypes
<1>1. CASE MallocRequest
  <2>1. PICK a \in Addr : da' = a /\ reqs' = reqs \cup {a}
    <3>1. Addr \ reqs # {}
      BY <1>1 DEF MallocRequest, InstTypes
    <3>2. Fresh(Addr \ reqs) \in Addr
      BY <3>1, FreshIn
    <3> QED
      BY <1>1, <3>2 DEF MallocRequest
  <2> QED
    BY <1>1, <2>1 DEF MallocRequest
<1>2. CASE AcceptFails
  BY <1>2 DEF AcceptFails
<1>3. ASSUME NEW f \in Func, MakeRequest(f) PROVE InstTypes'
  BY <1>3, FreshIn DEF MakeRequest, MainTypes
<1>4. ASSUME NEW t \in Task, FinishI(t) PROVE InstTypes'
  BY <1>4 DEF FinishI, TaskTypes
<1>5. ASSUME NEW t \in Task, RunFunction(t) PROVE InstTypes'
  <2>1. CASE dealWith[t] \in Inst
    BY <1>5, <2>1 DEF RunFunction
  <2>2. CASE dealWith[t] = Null
    BY <1>5, <2>2, NullAssumption DEF RunFunction
  <2> QED
    BY <2>1, <2>2 DEF TaskTypes
<1>6. CASE UNCHANGED ivars
  BY <1>6 DEF ivars
<1> QED
  BY <1>1, <1>2, <1>3, <1>4, <1>5, <1>6
  DEF Next, DispatchStep, Accept, TaskStep, Stopped, vars, dvars, ivars, fvars, rvars, tvars,
  EnqueueI, TryScaleDownCap, ScaleUpCap, GetIdleT, NoIdleT, PutIdleT2Busy, ThreadWakeUpOne,
  NewT, PthreadCreate, PthreadCreateFails, StartTask, GetDirectI, NoDirectI, TakeLocalI,
  NoLocalI, GetICount, PeekSize, PullMultiI, LeaveFromF, RemoveTFromBusy, PutT2Idle, ThreadSleep

LEMMA FuncTypesNext == ControlInv /\ [Next]_vars => FuncTypes'
<1> SUFFICES ASSUME ControlInv, [Next]_vars PROVE FuncTypes'
  OBVIOUS
<1> USE FuncAssumption DEF ControlInv, TypeOK, FuncTypes
<1>1. CASE EnqueueI
  BY <1>1 DEF EnqueueI, MainInv, HoldingI
<1>2. CASE TryScaleDownCap
  BY <1>2 DEF TryScaleDownCap, ScaleCap
<1>3. CASE ScaleUpCap
  BY <1>3 DEF ScaleUpCap, ScaleCap, MainInv, HoldingI
<1>4. ASSUME NEW t \in Task, FinishI(t) PROVE FuncTypes'
  BY <1>4 DEF FinishI, GiveBackUnit, ScaleCap
<1>5. ASSUME NEW t \in Task, PullMultiI(t) PROVE FuncTypes'
  BY <1>5 DEF PullMultiI, PullCount, Rest, TaskInv, Employed, Half
<1>6. ASSUME NEW t \in Task, LeaveFromF(t) PROVE FuncTypes'
  BY <1>6 DEF LeaveFromF, ScaleCap, TaskInv, Employed
<1>7. CASE UNCHANGED fvars
  BY <1>7 DEF fvars
<1> QED
  BY <1>1, <1>2, <1>3, <1>4, <1>5, <1>6, <1>7
  DEF Next, DispatchStep, Accept, TaskStep, Stopped, vars, dvars, ivars, fvars, rvars, tvars,
  MallocRequest, AcceptFails, GetIdleT, NoIdleT, PutIdleT2Busy, ThreadWakeUpOne, NewT,
  PthreadCreate, PthreadCreateFails, MakeRequest, StartTask, GetDirectI, NoDirectI, TakeLocalI,
  NoLocalI, GetICount, PeekSize, RemoveTFromBusy, PutT2Idle, ThreadSleep, RunFunction

LEMMA ResTypesNext == ControlInv /\ [Next]_vars => ResTypes'
<1> SUFFICES ASSUME ControlInv, [Next]_vars PROVE ResTypes'
  OBVIOUS
<1> USE FuncAssumption DEF ControlInv, TypeOK, ResTypes
<1>1. CASE GetIdleT
  BY <1>1 DEF GetIdleT, TFromIdle, MainInv, HoldingI
<1>2. CASE PutIdleT2Busy
  BY <1>2 DEF PutIdleT2Busy, PutT2Busy, HashMapAdd, MainInv, HoldingI, HoldingT, TaskTypes
<1>3. CASE NewT
  BY <1>3, FreshIn, DataAssumption DEF NewT, PutT2Busy, HashMapAdd, MainInv, HoldingI, InstTypes
<1>4. ASSUME NEW t \in Task, RemoveTFromBusy(t) PROVE ResTypes'
  BY <1>4 DEF RemoveTFromBusy, HashMapRemove, TaskInv, Employed
<1>5. ASSUME NEW t \in Task, PutT2Idle(t) PROVE ResTypes'
  BY <1>5 DEF PutT2Idle, TaskInv
<1>6. CASE UNCHANGED rvars
  BY <1>6 DEF rvars
<1> QED
  BY <1>1, <1>2, <1>3, <1>4, <1>5, <1>6
  DEF Next, DispatchStep, Accept, TaskStep, Stopped, vars, dvars, ivars, fvars, rvars, tvars,
  MallocRequest, AcceptFails, EnqueueI, TryScaleDownCap, ScaleUpCap, NoIdleT, ThreadWakeUpOne,
  PthreadCreate, PthreadCreateFails, MakeRequest, StartTask, FinishI, GetDirectI, NoDirectI,
  TakeLocalI, NoLocalI, GetICount, PeekSize, PullMultiI, LeaveFromF, ThreadSleep, RunFunction

(* What tryGetMultiI and addMultiI do: Is of the T's own F leave the front *)
(* of the queue for its local map.                                         *)
Pulls(t, n, loc) ==
  /\ n <= Len(queue[workFor[t]])
  /\ loc = AddMultiI(local[t], SubSeq(queue[workFor[t]], 1, n))
  /\ n = 0 => loc = local[t]
  /\ \A i \in loc : i \in local[t] \/ \E k \in 1..n : i = queue[workFor[t]][k]
  /\ \A i \in loc : fOf[i] = workFor[t]
  /\ queue' = [queue EXCEPT ![workFor[t]] = Rest(queue[workFor[t]], n)]
  /\ \/ /\ n = 0 \/ got[t] # Null
        /\ NothingPulled(t)
        /\ local' = [local EXCEPT ![t] = loc]
     \/ /\ n # 0 /\ got[t] = Null
        /\ \E i \in loc : Return(t, i) /\ local' = [local EXCEPT ![t] = loc \ {i}]

LEMMA PullFacts ==
  ASSUME ControlInv, NEW t \in Task, PullMultiI(t)
  PROVE  \E n \in Nat, loc \in SUBSET Inst : Pulls(t, n, loc)
<1> DEFINE q == queue[workFor[t]]
           n == PullCount(workFor[t], Len(q))
           loc == AddMultiI(local[t], SubSeq(q, 1, n))
<1>1. workFor[t] \in Func
  BY DEF ControlInv, PullMultiI, TaskInv, Employed
<1>2. q \in Seq(Inst)
  BY <1>1 DEF ControlInv, TypeOK, FuncTypes
<1>3. n \in Nat /\ n <= Len(q)
  BY <1>1, <1>2, FuncAssumption DEF PullCount, Half
<1>4. SubSeq(q, 1, n) \in Seq(Inst) /\ Len(SubSeq(q, 1, n)) = n
      /\ \A k \in 1..n : SubSeq(q, 1, n)[k] = q[k]
  BY <1>2, <1>3
<1>5. \A i \in loc : i \in local[t] \/ \E k \in 1..n : i = q[k]
  <2> HIDE DEF q, n
  <2> QED
    BY <1>3, <1>4 DEF AddMultiI
<1>6. n = 0 => loc = local[t]
  <2> HIDE DEF q, n
  <2> QED
    BY <1>3, <1>4 DEF AddMultiI
<1>7. loc \subseteq Inst
  <2> HIDE DEF n
  <2> QED
    BY <1>2, <1>3, <1>5 DEF ControlInv, TypeOK, TaskTypes
<1>8. \A i \in loc : fOf[i] = workFor[t]
  <2> HIDE DEF n
  <2> QED
    BY <1>1, <1>2, <1>3, <1>5 DEF ControlInv, HoldInv
<1>9. /\ queue' = [queue EXCEPT ![workFor[t]] = Rest(q, n)]
      /\ \/ /\ n = 0 \/ got[t] # Null
            /\ NothingPulled(t)
            /\ local' = [local EXCEPT ![t] = loc]
         \/ /\ n # 0 /\ got[t] = Null
            /\ \E i \in loc : Return(t, i) /\ local' = [local EXCEPT ![t] = loc \ {i}]
  BY DEF PullMultiI
<1> HIDE DEF n, loc
<1> QED
  BY <1>3, <1>5, <1>6, <1>7, <1>8, <1>9 DEF loc, Pulls

LEMMA TaskTypesNext == ControlInv /\ [Next]_vars => TaskTypes'
<1> SUFFICES ASSUME ControlInv, [Next]_vars PROVE TaskTypes'
  OBVIOUS
<1> USE DEF ControlInv, TypeOK, TaskTypes, TaskPc
<1>1. CASE GetIdleT
  BY <1>1 DEF GetIdleT, TFromIdle, NameI, MainInv, HoldingI, MainTypes
<1>2. CASE PutIdleT2Busy
  BY <1>2 DEF PutIdleT2Busy, PutT2Busy
<1>3. CASE ThreadWakeUpOne
  BY <1>3 DEF ThreadWakeUpOne, MainInv, HoldingT
<1>4. CASE NewT
  <2> DEFINE n == Fresh({u \in Task : tpc[u] = "absent"})
  <2>1. PICK h \in IF frees[di] = 0 THEN {req[di]} ELSE StaleHash :
          /\ tpc' = [tpc EXCEPT ![n] = "created"]
          /\ workFor' = [workFor EXCEPT ![n] = fOf[di]]
          /\ hash' = [hash EXCEPT ![n] = h]
          /\ NameI(n, fOf[di])
          /\ status' = [status EXCEPT ![n] = "Busy"]
    BY <1>4 DEF NewT, PutT2Busy
  <2>2. n \in Task /\ di \in Inst /\ fOf[di] \in Func
    BY <1>4, FreshIn DEF NewT, MainInv, HoldingI
  <2>3. h \in Addr \cup {Null}
    BY <2>1, <2>2, DataAssumption DEF InstTypes
  <2>4. dealWith' \in [Task -> Inst \cup {Null}] /\ directRun' \in [Task -> BOOLEAN]
    BY <2>1, <2>2 DEF NameI
  <2> HIDE DEF n
  <2> QED
    BY <1>4, <2>1, <2>2, <2>3, <2>4 DEF NewT
<1>5. CASE PthreadCreate
  BY <1>5 DEF PthreadCreate
<1>6. ASSUME NEW t \in Task, StartTask(t) PROVE TaskTypes'
  BY <1>6 DEF StartTask
<1>7. ASSUME NEW t \in Task, FinishI(t) PROVE TaskTypes'
  BY <1>7 DEF FinishI
<1>8. ASSUME NEW t \in Task, GetDirectI(t) PROVE TaskTypes'
  BY <1>8 DEF GetDirectI
<1>9. ASSUME NEW t \in Task, NoDirectI(t) PROVE TaskTypes'
  BY <1>9 DEF NoDirectI
<1>10. ASSUME NEW t \in Task, TakeLocalI(t) PROVE TaskTypes'
  BY <1>10 DEF TakeLocalI, Return, InstTypes
<1>11. ASSUME NEW t \in Task, NoLocalI(t) PROVE TaskTypes'
  BY <1>11 DEF NoLocalI
<1>12. ASSUME NEW t \in Task, GetICount(t) PROVE TaskTypes'
  <2>1. CASE NothingPulled(t)
    <3>1. CASE got[t] # Null
      <4>1. PICK j \in Inst : j = got[t]
        BY <3>1
      <4>2. fOf[j] \in Func \cup {Null}
        BY DEF InstTypes
      <4> QED
        BY <1>12, <2>1, <3>1, <4>1, <4>2 DEF GetICount, NothingPulled, Return
    <3>2. CASE got[t] = Null
      BY <1>12, <2>1, <3>2 DEF GetICount, NothingPulled
    <3> QED
      BY <3>1, <3>2
  <2>2. CASE tpc' = [tpc EXCEPT ![t] = "peek"] /\ UNCHANGED <<workFor, dealWith, got>>
    BY <1>12, <2>2 DEF GetICount
  <2> QED
    BY <1>12, <2>1, <2>2 DEF GetICount
<1>13. ASSUME NEW t \in Task, PeekSize(t) PROVE TaskTypes'
  <2>1. CASE NothingPulled(t)
    <3>1. CASE got[t] # Null
      <4>1. PICK j \in Inst : j = got[t]
        BY <3>1
      <4>2. fOf[j] \in Func \cup {Null}
        BY DEF InstTypes
      <4> QED
        BY <1>13, <2>1, <3>1, <4>1, <4>2 DEF PeekSize, NothingPulled, Return
    <3>2. CASE got[t] = Null
      BY <1>13, <2>1, <3>2 DEF PeekSize, NothingPulled
    <3> QED
      BY <3>1, <3>2
  <2>2. CASE tpc' = [tpc EXCEPT ![t] = "pull"] /\ UNCHANGED <<workFor, dealWith, got>>
    BY <1>13, <2>2 DEF PeekSize
  <2> QED
    BY <1>13, <2>1, <2>2 DEF PeekSize
<1>14. ASSUME NEW t \in Task, PullMultiI(t) PROVE TaskTypes'
  <2> DEFINE q == queue[workFor[t]]
             n == PullCount(workFor[t], Len(q))
             loc == AddMultiI(local[t], SubSeq(q, 1, n))
  <2>1. loc \subseteq Inst
    <3>1. workFor[t] \in Func
      BY <1>14 DEF PullMultiI, TaskInv, Employed
    <3>2. q \in Seq(Inst)
      BY <3>1 DEF FuncTypes
    <3>3. n \in Nat /\ n <= Len(q)
      BY <3>1, <3>2, FuncAssumption DEF PullCount, Half
    <3>4. SubSeq(q, 1, n) \in Seq(Inst)
      BY <3>2, <3>3
    <3> HIDE DEF q, n
    <3> QED
      BY <3>4 DEF AddMultiI
  <2>2. CASE NothingPulled(t) /\ local' = [local EXCEPT ![t] = loc]
    <3> HIDE DEF loc
    <3>1. CASE got[t] # Null
      <4>1. PICK j \in Inst : j = got[t]
        BY <3>1
      <4>2. fOf[j] \in Func \cup {Null}
        BY DEF InstTypes
      <4> QED
        BY <1>14, <2>1, <2>2, <3>1, <4>1, <4>2 DEF PullMultiI, NothingPulled, Return
    <3>2. CASE got[t] = Null
      BY <1>14, <2>1, <2>2, <3>2 DEF PullMultiI, NothingPulled
    <3> QED
      BY <3>1, <3>2
  <2>3. ASSUME NEW i \in loc, Return(t, i), local' = [local EXCEPT ![t] = loc \ {i}]
        PROVE  TaskTypes'
    <3> HIDE DEF loc
    <3> QED
      BY <1>14, <2>1, <2>3 DEF PullMultiI, Return, InstTypes
  <2> QED
    BY <1>14, <2>2, <2>3 DEF PullMultiI
<1>15. ASSUME NEW t \in Task, LeaveFromF(t) PROVE TaskTypes'
  BY <1>15 DEF LeaveFromF
<1>16. ASSUME NEW t \in Task, RemoveTFromBusy(t) PROVE TaskTypes'
  BY <1>16, FuncAssumption DEF RemoveTFromBusy, TaskInv, Employed
<1>17. ASSUME NEW t \in Task, PutT2Idle(t) PROVE TaskTypes'
  BY <1>17 DEF PutT2Idle
<1>18. ASSUME NEW t \in Task, ThreadSleep(t) PROVE TaskTypes'
  BY <1>18 DEF ThreadSleep
<1>19. ASSUME NEW t \in Task, RunFunction(t) PROVE TaskTypes'
  BY <1>19 DEF RunFunction
<1>20. CASE UNCHANGED tvars
  BY <1>20 DEF tvars
<1> QED
  BY <1>1, <1>2, <1>3, <1>4, <1>5, <1>6, <1>7, <1>8, <1>9, <1>10, <1>11, <1>12, <1>13, <1>14,
  <1>15, <1>16, <1>17, <1>18, <1>19, <1>20
  DEF Next, DispatchStep, Accept, TaskStep, Stopped, vars, dvars, ivars, fvars, rvars, tvars,
  MallocRequest, AcceptFails, EnqueueI, TryScaleDownCap, ScaleUpCap, NoIdleT,
  PthreadCreateFails, MakeRequest

(* A step of T t leaves the dispatcher and the other Ts alone. *)
LEMMA TaskStepLocal ==
  ASSUME TypeOK, NEW t \in Task, TaskStep(t)
  PROVE  /\ UNCHANGED dvars /\ fOf' = fOf
         /\ tpc[t] \notin {"absent", "created"}
         /\ tpc[t] = "sleep" => sem[t] > 0
         /\ \A u \in Task \ {t} : tpc'[u] = tpc[u] /\ workFor'[u] = workFor[u] /\ sem'[u] = sem[u]
                                  /\ home'[u] = home[u]
         /\ PutT2Idle(t) \/ (idle' = idle /\ tpc'[t] # "sleep")
<1> USE DEF TypeOK, TaskTypes, dvars, ivars, rvars
<1>1. CASE StartTask(t)
  BY <1>1 DEF StartTask
<1>2. CASE FinishI(t)
  BY <1>2 DEF FinishI
<1>3. CASE GetDirectI(t)
  BY <1>3 DEF GetDirectI
<1>4. CASE NoDirectI(t)
  BY <1>4 DEF NoDirectI
<1>5. CASE TakeLocalI(t)
  BY <1>5 DEF TakeLocalI, Return, NothingPulled
<1>6. CASE NoLocalI(t)
  BY <1>6 DEF NoLocalI
<1>7. CASE GetICount(t)
  BY <1>7 DEF GetICount, Return, NothingPulled
<1>8. CASE PeekSize(t)
  BY <1>8 DEF PeekSize, Return, NothingPulled
<1>9. CASE PullMultiI(t)
  BY <1>9 DEF PullMultiI, Return, NothingPulled
<1>10. CASE LeaveFromF(t)
  BY <1>10 DEF LeaveFromF
<1>11. CASE RemoveTFromBusy(t)
  BY <1>11 DEF RemoveTFromBusy
<1>12. CASE PutT2Idle(t)
  BY <1>12 DEF PutT2Idle
<1>13. CASE ThreadSleep(t)
  BY <1>13 DEF ThreadSleep
<1>14. CASE RunFunction(t)
  BY <1>14 DEF RunFunction
<1> QED
  BY TaskStep(t), <1>1, <1>2, <1>3, <1>4, <1>5, <1>6, <1>7, <1>8, <1>9, <1>10, <1>11, <1>12,
  <1>13, <1>14 DEF TaskStep

LEMMA MainInvNext == ControlInv /\ [Next]_vars => MainInv'
<1> SUFFICES ASSUME ControlInv, [Next]_vars PROVE MainInv'
  OBVIOUS
<1> USE DEF ControlInv, MainInv, HoldingI, HoldingT, tvars, ivars
<1>1. CASE MallocRequest
  BY <1>1 DEF MallocRequest
<1>2. CASE AcceptFails
  BY <1>2 DEF AcceptFails
<1>3. CASE EnqueueI
  BY <1>3 DEF EnqueueI
<1>4. CASE TryScaleDownCap
  BY <1>4 DEF TryScaleDownCap, Dispatched
<1>5. CASE ScaleUpCap
  BY <1>5 DEF ScaleUpCap
<1>6. CASE GetIdleT
  <2>1. di \in Inst /\ fOf[di] \in Func
    BY <1>6, IdleFacts
  <2>2. PICK h \in Task, r \in Res : Finds(h, r)
    BY <1>6, IdleFacts
  <2> QED
    BY <1>6, <2>1, <2>2 DEF GetIdleT, Finds, TypeOK, TaskTypes
<1>7. CASE NoIdleT
  BY <1>7 DEF NoIdleT
<1>8. CASE PutIdleT2Busy
  BY <1>8 DEF PutIdleT2Busy
<1>9. CASE ThreadWakeUpOne
  BY <1>9 DEF ThreadWakeUpOne, Dispatched
<1>10. CASE NewT
  <2>1. di \in Inst /\ fOf[di] \in Func
    BY <1>10, NewFacts
  <2>2. PICK n \in Task : Creates(n)
    BY <1>10, NewFacts
  <2> QED
    BY <1>10, <2>1, <2>2 DEF NewT, Creates, TypeOK, TaskTypes
<1>11. CASE PthreadCreate
  BY <1>11 DEF PthreadCreate, Dispatched
<1>12. CASE PthreadCreateFails
  BY <1>12 DEF PthreadCreateFails, Dispatched
<1>13. ASSUME NEW f \in Func, MakeRequest(f) PROVE MainInv'
  BY <1>13, FreshIn DEF MakeRequest, TypeOK, InstTypes
<1>14. ASSUME NEW t \in Task, TaskStep(t) PROVE MainInv'
  BY <1>14, TaskStepLocal DEF dvars
<1>15. CASE UNCHANGED vars
  BY <1>15 DEF vars, dvars, ivars, fvars, rvars, tvars
<1> QED
  BY <1>1, <1>2, <1>3, <1>4, <1>5, <1>6, <1>7, <1>8, <1>9, <1>10, <1>11, <1>12, <1>13, <1>14,
  <1>15
  DEF Next, DispatchStep, Accept, Stopped

LEMMA TaskInvNext == ControlInv /\ [Next]_vars => TaskInv'
<1> SUFFICES ASSUME ControlInv, [Next]_vars PROVE TaskInv'
  OBVIOUS
<1> USE FuncAssumption DEF ControlInv, TaskInv, Employed, TypeOK, TaskTypes, tvars
<1>1. CASE MallocRequest
  BY <1>1 DEF MallocRequest
<1>2. CASE AcceptFails
  BY <1>2 DEF AcceptFails
<1>3. CASE EnqueueI
  BY <1>3 DEF EnqueueI
<1>4. CASE TryScaleDownCap
  BY <1>4 DEF TryScaleDownCap
<1>5. CASE ScaleUpCap
  BY <1>5 DEF ScaleUpCap
<1>6. CASE GetIdleT
  <2>1. di \in Inst /\ fOf[di] \in Func
    BY <1>6, IdleFacts
  <2>2. PICK h \in Task, r \in Res : Finds(h, r)
    BY <1>6, IdleFacts
  <2> QED
    BY <1>6, <2>1, <2>2 DEF GetIdleT, Finds
<1>7. CASE NoIdleT
  BY <1>7 DEF NoIdleT
<1>8. CASE PutIdleT2Busy
  BY <1>8 DEF PutIdleT2Busy
<1>9. CASE ThreadWakeUpOne
  BY <1>9 DEF ThreadWakeUpOne, MainInv, HoldingI, HoldingT
<1>10. CASE NewT
  <2>1. di \in Inst /\ fOf[di] \in Func
    BY <1>10, NewFacts
  <2>2. PICK n \in Task : Creates(n)
    BY <1>10, NewFacts
  <2> QED
    BY <1>10, <2>1, <2>2 DEF NewT, Creates
<1>11. CASE PthreadCreate
  BY <1>11 DEF PthreadCreate, MainInv
<1>12. CASE PthreadCreateFails
  BY <1>12 DEF PthreadCreateFails
<1>13. ASSUME NEW f \in Func, MakeRequest(f) PROVE TaskInv'
  BY <1>13 DEF MakeRequest
<1>14. ASSUME NEW t \in Task, StartTask(t) PROVE TaskInv'
  BY <1>14 DEF StartTask
<1>15. ASSUME NEW t \in Task, FinishI(t) PROVE TaskInv'
  BY <1>15 DEF FinishI
<1>16. ASSUME NEW t \in Task, GetDirectI(t) PROVE TaskInv'
  BY <1>16 DEF GetDirectI
<1>17. ASSUME NEW t \in Task, NoDirectI(t) PROVE TaskInv'
  BY <1>17 DEF NoDirectI
<1>18. ASSUME NEW t \in Task, TakeLocalI(t) PROVE TaskInv'
  BY <1>18 DEF TakeLocalI, Return, HoldInv
<1>19. ASSUME NEW t \in Task, NoLocalI(t) PROVE TaskInv'
  BY <1>19 DEF NoLocalI
<1>20. ASSUME NEW t \in Task, GetICount(t) PROVE TaskInv'
  BY <1>20 DEF GetICount, Return, NothingPulled, HoldInv
<1>21. ASSUME NEW t \in Task, PeekSize(t) PROVE TaskInv'
  BY <1>21 DEF PeekSize, Return, NothingPulled, HoldInv
<1>22. ASSUME NEW t \in Task, PullMultiI(t) PROVE TaskInv'
  <2>1. PICK n \in Nat, loc \in SUBSET Inst : Pulls(t, n, loc)
    BY <1>22, PullFacts
  <2>2. /\ workFor'[t] \in Func /\ tpc'[t] \in {"leave", "run"} /\ sem[t] = 0
        /\ \A u \in Task \ {t} : tpc'[u] = tpc[u] /\ workFor'[u] = workFor[u]
        /\ sem' = sem /\ home' = home
    BY <1>22, <2>1 DEF PullMultiI, Pulls, Return, NothingPulled, HoldInv
  <2> QED
    BY <2>2
<1>23. ASSUME NEW t \in Task, LeaveFromF(t) PROVE TaskInv'
  BY <1>23 DEF LeaveFromF
<1>24. ASSUME NEW t \in Task, RemoveTFromBusy(t) PROVE TaskInv'
  BY <1>24 DEF RemoveTFromBusy
<1>25. ASSUME NEW t \in Task, PutT2Idle(t) PROVE TaskInv'
  BY <1>25 DEF PutT2Idle
<1>26. ASSUME NEW t \in Task, ThreadSleep(t) PROVE TaskInv'
  BY <1>26 DEF ThreadSleep
<1>27. ASSUME NEW t \in Task, RunFunction(t) PROVE TaskInv'
  BY <1>27 DEF RunFunction
<1>28. CASE UNCHANGED vars
  BY <1>28 DEF vars, dvars, ivars, fvars, rvars, tvars
<1> QED
  BY <1>1, <1>2, <1>3, <1>4, <1>5, <1>6, <1>7, <1>8, <1>9, <1>10, <1>11, <1>12, <1>13, <1>14,
  <1>15, <1>16, <1>17, <1>18, <1>19, <1>20, <1>21, <1>22, <1>23, <1>24, <1>25, <1>26, <1>27,
  <1>28
  DEF Next, DispatchStep, Accept, TaskStep, Stopped

LEMMA SleepInvNext == ControlInv /\ [Next]_vars => SleepInv'
<1> SUFFICES ASSUME ControlInv, [Next]_vars PROVE SleepInv'
  OBVIOUS
<1> USE DEF ControlInv, SleepInv, InHand, TypeOK, TaskTypes, tvars, dvars, rvars
<1>1. CASE MallocRequest
  BY <1>1 DEF MallocRequest
<1>2. CASE AcceptFails
  BY <1>2 DEF AcceptFails
<1>3. CASE EnqueueI
  BY <1>3 DEF EnqueueI
<1>4. CASE TryScaleDownCap
  BY <1>4 DEF TryScaleDownCap, Dispatched
<1>5. CASE ScaleUpCap
  BY <1>5 DEF ScaleUpCap
<1>6. CASE GetIdleT
  <2>1. di \in Inst /\ fOf[di] \in Func
    BY <1>6, IdleFacts
  <2>2. PICK h \in Task, r \in Res : Finds(h, r)
    BY <1>6, IdleFacts
  <2>3. idle[r] \in Seq(Task)
    BY DEF ResTypes
  <2>4. \A k \in DOMAIN idle[r] : k # 1 => (k - 1) \in DOMAIN idle'[r] /\ idle'[r][k - 1] = idle[r][k]
    BY <2>2, <2>3 DEF Finds, ResTypes
  <2>5. \A q \in Res : q # r => idle'[q] = idle[q]
    BY <2>2 DEF Finds, ResTypes
  <2>6. dpc = "getT" /\ dpc' = "putBusy" /\ dt' = h /\ tpc' = tpc /\ sem' = sem /\ h = idle[r][1]
    BY <1>6, <2>2 DEF GetIdleT, Finds
  <2> SUFFICES ASSUME NEW t \in Task, tpc[t] = "sleep", t # h, sem[t] # 1
               PROVE  \E q \in Res : \E k \in DOMAIN idle'[q] : idle'[q][k] = t
    BY <2>6
  <2>7. PICK q \in Res : \E k \in DOMAIN idle[q] : idle[q][k] = t
    BY <2>6
  <2>8. CASE q = r
    BY <2>4, <2>6, <2>7, <2>8
  <2>9. CASE q # r
    BY <2>5, <2>7, <2>9
  <2> QED
    BY <2>8, <2>9
<1>7. CASE NoIdleT
  BY <1>7 DEF NoIdleT
<1>8. CASE PutIdleT2Busy
  BY <1>8 DEF PutIdleT2Busy
<1>9. CASE ThreadWakeUpOne
  BY <1>9 DEF ThreadWakeUpOne, Dispatched, MainInv, HoldingT
<1>10. CASE NewT
  <2>1. di \in Inst /\ fOf[di] \in Func
    BY <1>10, NewFacts
  <2>2. PICK n \in Task : Creates(n)
    BY <1>10, NewFacts
  <2> QED
    BY <1>10, <2>1, <2>2 DEF NewT, Creates
<1>11. CASE PthreadCreate
  BY <1>11 DEF PthreadCreate, Dispatched
<1>12. CASE PthreadCreateFails
  BY <1>12 DEF PthreadCreateFails, Dispatched
<1>13. ASSUME NEW f \in Func, MakeRequest(f) PROVE SleepInv'
  BY <1>13 DEF MakeRequest
<1>14. ASSUME NEW t \in Task, TaskStep(t) PROVE SleepInv'
  <2>1. CASE PutT2Idle(t)
    <3>1. home[t] \in Res /\ idle' = [idle EXCEPT ![home[t]] = Append(@, t)]
      BY <2>1 DEF PutT2Idle, TaskInv
    <3>2. \A r \in Res : \A k \in DOMAIN idle[r] : k \in DOMAIN idle'[r] /\ idle'[r][k] = idle[r][k]
      BY <3>1 DEF ResTypes
    <3>3. \E k \in DOMAIN idle'[home[t]] : idle'[home[t]][k] = t
      <4>1. idle[home[t]] \in Seq(Task) /\ idle'[home[t]] = Append(idle[home[t]], t)
        BY <3>1 DEF ResTypes
      <4>2. Len(idle[home[t]]) + 1 \in DOMAIN idle'[home[t]] /\ idle'[home[t]][Len(idle[home[t]]) + 1] = t
        BY <4>1
      <4> QED
        BY <4>2
    <3> QED
      BY <1>14, <3>1, <3>2, <3>3, TaskStepLocal
  <2>2. CASE idle' = idle /\ tpc'[t] # "sleep"
    BY <1>14, <2>2, TaskStepLocal
  <2> QED
    BY <1>14, <2>1, <2>2, TaskStepLocal
<1>15. CASE UNCHANGED vars
  BY <1>15 DEF vars, dvars, ivars, fvars, rvars, tvars
<1> QED
  BY <1>1, <1>2, <1>3, <1>4, <1>5, <1>6, <1>7, <1>8, <1>9, <1>10, <1>11, <1>12, <1>13, <1>14,
  <1>15
  DEF Next, DispatchStep, Accept, Stopped

LEMMA IdleInvNext == ControlInv /\ [Next]_vars => IdleInv'
<1> SUFFICES ASSUME ControlInv, [Next]_vars PROVE IdleInv'
  OBVIOUS
<1> USE DEF ControlInv, IdleInv, InHand, TypeOK, TaskTypes, tvars, dvars, rvars
<1>1. CASE MallocRequest
  BY <1>1 DEF MallocRequest
<1>2. CASE AcceptFails
  BY <1>2 DEF AcceptFails
<1>3. CASE EnqueueI
  BY <1>3 DEF EnqueueI
<1>4. CASE TryScaleDownCap
  BY <1>4 DEF TryScaleDownCap, Dispatched
<1>5. CASE ScaleUpCap
  BY <1>5 DEF ScaleUpCap
<1>6. CASE GetIdleT
  <2>1. di \in Inst /\ fOf[di] \in Func
    BY <1>6, IdleFacts
  <2>2. PICK h \in Task, r \in Res : Finds(h, r)
    BY <1>6, IdleFacts
  <2>3. idle[r] \in Seq(Task)
    BY DEF ResTypes
  <2>4. \A k \in DOMAIN idle'[r] : (k + 1) \in DOMAIN idle[r] /\ idle'[r][k] = idle[r][k + 1]
    BY <2>2, <2>3 DEF Finds, ResTypes
  <2>5. \A q \in Res : q # r => idle'[q] = idle[q]
    BY <2>2 DEF Finds, ResTypes
  <2>6. dpc = "getT" /\ dpc' = "putBusy" /\ dt' = h /\ tpc' = tpc /\ sem' = sem /\ h = idle[r][1]
    BY <1>6, <2>2 DEF GetIdleT, Finds
  <2>7. 1 \in DOMAIN idle[r] /\ \A k \in DOMAIN idle'[r] : k + 1 # 1
    BY <2>2, <2>3, <2>4 DEF Finds
  <2>8. \A q \in Res : \A k \in DOMAIN idle'[q] : \E m \in DOMAIN idle[q] :
           idle'[q][k] = idle[q][m] /\ m = (IF q = r THEN k + 1 ELSE k) /\ (q = r => m # 1)
    BY <2>4, <2>5, <2>7
  <2>9. \A q \in Res : \A k \in DOMAIN idle'[q] : idle'[q][k] # h
    BY <2>6, <2>7, <2>8
  <2>10. \A q \in Res : \A k \in DOMAIN idle'[q] :
           tpc'[idle'[q][k]] = "sleep" /\ sem'[idle'[q][k]] = 0
    BY <2>6, <2>8
  <2>11. ASSUME NEW q \in Res, NEW s \in Res, NEW k \in DOMAIN idle'[q], NEW l \in DOMAIN idle'[s],
               idle'[q][k] = idle'[s][l]
        PROVE  q = s /\ k = l
    <3>1. k \in Int /\ l \in Int
      <4>1. \A p \in Res : idle'[p] \in Seq(Task)
        BY <2>2, <2>3 DEF Finds, ResTypes
      <4>2. idle'[q] \in Seq(Task) /\ idle'[s] \in Seq(Task)
        BY <4>1
      <4> QED
        BY <4>2
    <3> QED
      BY <2>8, <2>11, <3>1
  <2> QED
    BY <2>6, <2>9, <2>10, <2>11
<1>7. CASE NoIdleT
  BY <1>7 DEF NoIdleT
<1>8. CASE PutIdleT2Busy
  BY <1>8 DEF PutIdleT2Busy
<1>9. CASE ThreadWakeUpOne
  BY <1>9 DEF ThreadWakeUpOne, Dispatched
<1>10. CASE NewT
  <2>1. di \in Inst /\ fOf[di] \in Func
    BY <1>10, NewFacts
  <2>2. PICK n \in Task : Creates(n)
    BY <1>10, NewFacts
  <2> QED
    BY <1>10, <2>1, <2>2 DEF NewT, Creates
<1>11. CASE PthreadCreate
  BY <1>11 DEF PthreadCreate, Dispatched, MainInv
<1>12. CASE PthreadCreateFails
  BY <1>12 DEF PthreadCreateFails, Dispatched
<1>13. ASSUME NEW f \in Func, MakeRequest(f) PROVE IdleInv'
  BY <1>13 DEF MakeRequest
<1>14. ASSUME NEW t \in Task, TaskStep(t) PROVE IdleInv'
  <2>1. CASE PutT2Idle(t)
    <3>1. home[t] \in Res /\ idle' = [idle EXCEPT ![home[t]] = Append(@, t)] /\ tpc[t] = "putIdle"
          /\ tpc'[t] = "sleep" /\ sem' = sem
      BY <2>1 DEF PutT2Idle, TaskInv
    <3>2. sem[t] = 0 /\ ~InHand(t)'
      BY <1>14, <3>1, TaskStepLocal DEF TaskInv, MainInv
    <3>3. \A r \in Res : \A k \in DOMAIN idle[r] : idle[r][k] # t
      BY <3>1
    <3>4. \A r \in Res : \A k \in DOMAIN idle'[r] :
            \/ k \in DOMAIN idle[r] /\ idle'[r][k] = idle[r][k]
            \/ r = home[t] /\ k = Len(idle[r]) + 1 /\ idle'[r][k] = t
      BY <3>1 DEF ResTypes
    <3>5. \A r \in Res : \A k \in DOMAIN idle'[r] :
            /\ tpc'[idle'[r][k]] = "sleep" /\ sem'[idle'[r][k]] = 0
            /\ ~(dt' = idle'[r][k] /\ dpc' \in {"putBusy", "wake"})
      <4> SUFFICES ASSUME NEW r \in Res, NEW k \in DOMAIN idle'[r]
                   PROVE  /\ tpc'[idle'[r][k]] = "sleep" /\ sem'[idle'[r][k]] = 0
                          /\ ~(dt' = idle'[r][k] /\ dpc' \in {"putBusy", "wake"})
        OBVIOUS
      <4>1. CASE k \in DOMAIN idle[r] /\ idle'[r][k] = idle[r][k]
        <5>1. PICK u \in Task \ {t} : u = idle[r][k] /\ u = idle'[r][k]
          BY <3>3, <4>1 DEF ResTypes
        <5>2. tpc[u] = "sleep" /\ sem[u] = 0 /\ ~InHand(u)
          BY <4>1, <5>1
        <5>3. tpc'[u] = tpc[u] /\ sem'[u] = sem[u] /\ dt' = dt /\ dpc' = dpc
          BY <1>14, <5>1, TaskStepLocal
        <5> QED
          BY <5>1, <5>2, <5>3
      <4>2. CASE idle'[r][k] = t
        BY <3>1, <3>2, <4>2
      <4> QED
        BY <3>4, <4>1, <4>2
    <3>6. ASSUME NEW r \in Res, NEW s \in Res, NEW k \in DOMAIN idle'[r], NEW l \in DOMAIN idle'[s],
                 idle'[r][k] = idle'[s][l]
          PROVE  r = s /\ k = l
      <4>1. \/ k \in DOMAIN idle[r] /\ idle'[r][k] = idle[r][k]
            \/ r = home[t] /\ k = Len(idle[r]) + 1 /\ idle'[r][k] = t
        BY <3>4
      <4>2. \/ l \in DOMAIN idle[s] /\ idle'[s][l] = idle[s][l]
            \/ s = home[t] /\ l = Len(idle[s]) + 1 /\ idle'[s][l] = t
        BY <3>4
      <4> QED
        BY <3>3, <3>6, <4>1, <4>2
    <3> QED
      BY <3>5, <3>6
  <2>2. CASE idle' = idle /\ tpc'[t] # "sleep"
    <3>1. \A r \in Res : \A k \in DOMAIN idle[r] : idle[r][k] \in Task \ {t}
      BY <1>14, TaskStepLocal DEF ResTypes
    <3> QED
      BY <1>14, <2>2, <3>1, TaskStepLocal
  <2> QED
    BY <1>14, <2>1, <2>2, TaskStepLocal
<1>15. CASE UNCHANGED vars
  BY <1>15 DEF vars, dvars, ivars, fvars, rvars, tvars
<1> QED
  BY <1>1, <1>2, <1>3, <1>4, <1>5, <1>6, <1>7, <1>8, <1>9, <1>10, <1>11, <1>12, <1>13, <1>14,
  <1>15
  DEF Next, DispatchStep, Accept, Stopped

LEMMA HoldInvNext == ControlInv /\ [Next]_vars => HoldInv'
<1> SUFFICES ASSUME ControlInv, [Next]_vars PROVE HoldInv'
  OBVIOUS
<1> USE DEF ControlInv, HoldInv, TypeOK, TaskTypes, tvars, ivars, fvars
<1>1. CASE MallocRequest
  BY <1>1 DEF MallocRequest
<1>2. CASE AcceptFails
  BY <1>2 DEF AcceptFails
<1>3. CASE EnqueueI
  BY <1>3 DEF EnqueueI, MainInv, HoldingI, FuncTypes
<1>4. CASE TryScaleDownCap
  BY <1>4 DEF TryScaleDownCap, Dispatched
<1>5. CASE ScaleUpCap
  BY <1>5 DEF ScaleUpCap
<1>6. CASE GetIdleT
  <2>1. di \in Inst /\ fOf[di] \in Func
    BY <1>6, IdleFacts
  <2>2. PICK h \in Task, r \in Res : Finds(h, r)
    BY <1>6, IdleFacts
  <2> QED
    BY <1>6, <2>1, <2>2 DEF GetIdleT, Finds
<1>7. CASE NoIdleT
  BY <1>7 DEF NoIdleT
<1>8. CASE PutIdleT2Busy
  BY <1>8 DEF PutIdleT2Busy
<1>9. CASE ThreadWakeUpOne
  BY <1>9 DEF ThreadWakeUpOne, Dispatched
<1>10. CASE NewT
  <2>1. di \in Inst /\ fOf[di] \in Func
    BY <1>10, NewFacts
  <2>2. PICK n \in Task : Creates(n)
    BY <1>10, NewFacts
  <2> QED
    BY <1>10, <2>1, <2>2 DEF NewT, Creates
<1>11. CASE PthreadCreate
  BY <1>11 DEF PthreadCreate, Dispatched, MainInv
<1>12. CASE PthreadCreateFails
  BY <1>12 DEF PthreadCreateFails, Dispatched
<1>13. ASSUME NEW f \in Func, MakeRequest(f) PROVE HoldInv'
  <2>1. PICK i \in Inst : fOf[i] = Null /\ fOf' = [fOf EXCEPT ![i] = f]
    BY <1>13, FreshIn DEF MakeRequest
  <2>2. \A j \in Inst : fOf[j] # Null => fOf'[j] = fOf[j]
    BY <2>1 DEF InstTypes
  <2>3. UNCHANGED <<queue, tpc, got, local, workFor>>
    BY <1>13 DEF MakeRequest
  <2>4. \A g \in Func : \A k \in DOMAIN queue[g] : queue[g][k] \in Inst /\ g # Null
    BY NullAssumption DEF FuncTypes
  <2>5. \A u \in Task : tpc[u] \in Employed => workFor[u] # Null
    BY NullAssumption DEF TaskInv
  <2>6. (\A g \in Func : \A k \in DOMAIN queue[g] : fOf[queue[g][k]] = g)'
    BY <2>2, <2>3, <2>4
  <2>7. ASSUME NEW u \in Task
        PROVE  /\ \A j \in local[u] : fOf'[j] = workFor[u]
               /\ got[u] # Null => fOf'[got[u]] = workFor[u]
    BY <2>2, <2>5 DEF Employed
  <2> QED
    BY <2>3, <2>6, <2>7
<1>14. ASSUME NEW t \in Task, StartTask(t) PROVE HoldInv'
  BY <1>14 DEF StartTask
<1>15. ASSUME NEW t \in Task, FinishI(t) PROVE HoldInv'
  BY <1>15 DEF FinishI
<1>16. ASSUME NEW t \in Task, GetDirectI(t) PROVE HoldInv'
  BY <1>16 DEF GetDirectI
<1>17. ASSUME NEW t \in Task, NoDirectI(t) PROVE HoldInv'
  BY <1>17 DEF NoDirectI
<1>18. ASSUME NEW t \in Task, TakeLocalI(t) PROVE HoldInv'
  <2>1. /\ tpc[t] = "find" /\ Conc(workFor[t]) /\ UNCHANGED <<fOf, queue>>
        /\ \A u \in Task \ {t} : UNCHANGED <<tpc[u], got[u], local[u], workFor[u]>>
    BY <1>18 DEF TakeLocalI, Return
  <2>2. PICK i \in local[t] :
          /\ local' = [local EXCEPT ![t] = @ \ {i}]
          /\ \/ Return(t, i)
             \/ /\ got' = [got EXCEPT ![t] = i] /\ tpc' = [tpc EXCEPT ![t] = "count"]
                /\ workFor' = workFor
    BY <1>18 DEF TakeLocalI
  <2>3. i \in Inst /\ fOf[i] = workFor[t] /\ i # Null
    BY <2>2, NullAssumption
  <2>4. CASE Return(t, i)
    BY <2>1, <2>2, <2>3, <2>4 DEF Return
  <2>5. CASE got' = [got EXCEPT ![t] = i] /\ tpc' = [tpc EXCEPT ![t] = "count"] /\ workFor' = workFor
    BY <2>1, <2>2, <2>3, <2>5
  <2> QED
    BY <2>2, <2>4, <2>5
<1>19. ASSUME NEW t \in Task, NoLocalI(t) PROVE HoldInv'
  BY <1>19 DEF NoLocalI
<1>20. ASSUME NEW t \in Task, GetICount(t) PROVE HoldInv'
  BY <1>20 DEF GetICount, Return, NothingPulled
<1>21. ASSUME NEW t \in Task, PeekSize(t) PROVE HoldInv'
  BY <1>21 DEF PeekSize, Return, NothingPulled
<1>22. ASSUME NEW t \in Task, PullMultiI(t) PROVE HoldInv'
  <2>1. PICK n \in Nat, loc \in SUBSET Inst : Pulls(t, n, loc)
    BY <1>22, PullFacts
  <2>2. workFor[t] \in Func /\ fOf' = fOf /\ tpc[t] = "pull" /\ Conc(workFor[t])
    BY <1>22 DEF PullMultiI, TaskInv, Employed
  <2>3. \A f \in Func : \A k \in DOMAIN queue'[f] : fOf[queue'[f][k]] = f
    <3>1. ASSUME NEW q \in Seq(Inst), NEW k \in DOMAIN Rest(q, n), n <= Len(q)
          PROVE  (k + n) \in DOMAIN q /\ Rest(q, n)[k] = q[k + n]
      BY <3>1 DEF Rest
    <3> QED
      BY <2>1, <2>2, <3>1 DEF Pulls, FuncTypes
  <2>4. CASE (n = 0 \/ got[t] # Null) /\ NothingPulled(t) /\ local' = [local EXCEPT ![t] = loc]
    <3>1. \A i \in loc : fOf[i] = workFor[t]
      BY <2>1 DEF Pulls
    <3>2. CASE got[t] # Null
      BY <2>2, <2>3, <2>4, <3>1, <3>2 DEF NothingPulled, Return
    <3>3. CASE got[t] = Null /\ loc = {}
      BY <2>2, <2>3, <2>4, <3>3 DEF NothingPulled
    <3>4. got[t] = Null => loc = {}
      BY <2>1, <2>2, <2>4 DEF Pulls
    <3> QED
      BY <3>2, <3>3, <3>4
  <2>5. ASSUME NEW i \in loc, Return(t, i), local' = [local EXCEPT ![t] = loc \ {i}]
        PROVE  HoldInv'
    BY <1>22, <2>1, <2>2, <2>3, <2>5 DEF PullMultiI, Pulls, Return
  <2> QED
    BY <2>1, <2>4, <2>5 DEF Pulls
<1>23. ASSUME NEW t \in Task, LeaveFromF(t) PROVE HoldInv'
  BY <1>23 DEF LeaveFromF
<1>24. ASSUME NEW t \in Task, RemoveTFromBusy(t) PROVE HoldInv'
  BY <1>24 DEF RemoveTFromBusy
<1>25. ASSUME NEW t \in Task, PutT2Idle(t) PROVE HoldInv'
  BY <1>25 DEF PutT2Idle
<1>26. ASSUME NEW t \in Task, ThreadSleep(t) PROVE HoldInv'
  BY <1>26 DEF ThreadSleep
<1>27. ASSUME NEW t \in Task, RunFunction(t) PROVE HoldInv'
  BY <1>27 DEF RunFunction
<1>28. CASE UNCHANGED vars
  BY <1>28 DEF vars, dvars, ivars, fvars, rvars, tvars
<1> QED
  BY <1>1, <1>2, <1>3, <1>4, <1>5, <1>6, <1>7, <1>8, <1>9, <1>10, <1>11, <1>12, <1>13, <1>14,
  <1>15, <1>16, <1>17, <1>18, <1>19, <1>20, <1>21, <1>22, <1>23, <1>24, <1>25, <1>26, <1>27,
  <1>28
  DEF Next, DispatchStep, Accept, TaskStep, Stopped


-----------------------------------------------------------------------------
LEMMA ControlNext == ControlInv /\ [Next]_vars => ControlInv'
  BY MainTypesNext, InstTypesNext, FuncTypesNext, ResTypesNext, TaskTypesNext, MainInvNext,
     TaskInvNext, SleepInvNext, IdleInvNext, HoldInvNext
  DEF ControlInv, TypeOK

(* The control invariant: what main() and every thread know of the objects *)
(* they hold, whoever runs in between.  (main, get_T_for_I, getInstance)   *)
THEOREM ControlInvariant == Spec => []ControlInv
<1>1. Init => ControlInv
  BY ControlInit
<1>2. ControlInv /\ [Next]_vars => ControlInv'
  BY ControlNext
<1> QED
  BY <1>1, <1>2, PTL DEF Spec

(* Every variable has its type; in particular main and the Ts find a       *)
(* function in the I and the T they follow a pointer of.                   *)
THEOREM TypeCorrect == Spec => []TypeOK
<1>1. ControlInv => TypeOK
  BY DEF ControlInv
<1> QED
  BY <1>1, ControlInvariant, PTL

(* A T that is leaving its F or asleep holds no I, whatever the limits and *)
(* the interleaving.  (getInstance, leaveFromF_safe)                       *)
THEOREM IdleHolds == Spec => []IdleHoldsNothing
<1>1. ControlInv => IdleHoldsNothing
  BY DEF ControlInv, HoldInv, IdleHoldsNothing
<1> QED
  BY <1>1, ControlInvariant, PTL

LEMMA ListedAtMostOnce ==
  ASSUME ControlInv, NEW t \in Task
  PROVE  \/ /\ Cardinality(Listed(t)) = 0
            /\ ~ \E r \in Res : \E k \in DOMAIN idle[r] : idle[r][k] = t
         \/ /\ Cardinality(Listed(t)) = 1
            /\ \E r \in Res : \E k \in DOMAIN idle[r] : idle[r][k] = t
<1>1. CASE \E r \in Res : \E k \in DOMAIN idle[r] : idle[r][k] = t
  <2>1. PICK r \in Res : \E k \in DOMAIN idle[r] : idle[r][k] = t
    BY <1>1
  <2>2. PICK k \in DOMAIN idle[r] : idle[r][k] = t
    BY <2>1
  <2>3. \A q \in Res : \A l \in DOMAIN idle[q] : idle[q][l] = t => q = r /\ l = k
    BY <2>2 DEF ControlInv, IdleInv
  <2>4. Listed(t) = {<<r, k>>}
    BY <2>2, <2>3 DEF Listed
  <2> QED
    BY <1>1, <2>4, FS_Singleton
<1>2. CASE ~ \E r \in Res : \E k \in DOMAIN idle[r] : idle[r][k] = t
  <2>1. Listed(t) = {}
    BY <1>2 DEF Listed
  <2> QED
    BY <1>2, <2>1, FS_EmptySet
<1> QED
  BY <1>1, <1>2

(* No wake-up is lost or given twice: a T asleep is in one idle list once, *)
(* or in main's hand, or has one post pending.  (getInstance, getTFromIdle,*)
(* thread_wake_up_one)                                                     *)
THEOREM WakeUp == Spec => []WakeUpExact
<1>1. ControlInv => WakeUpExact
  <2> SUFFICES ASSUME ControlInv, NEW t \in Task
               PROVE  Cardinality(Listed(t)) + (IF InHand(t) THEN 1 ELSE 0) + sem[t]
                      = IF tpc[t] = "sleep" THEN 1 ELSE 0
    BY DEF WakeUpExact
  <2>1. InHand(t) => tpc[t] = "sleep" /\ sem[t] = 0
    BY DEF ControlInv, MainInv, InHand
  <2>2. sem[t] \in Nat /\ (sem[t] = 0 \/ (sem[t] = 1 /\ tpc[t] = "sleep"))
    BY DEF ControlInv, TaskInv, TypeOK, TaskTypes
  <2>3. CASE /\ Cardinality(Listed(t)) = 0
             /\ ~ \E r \in Res : \E k \in DOMAIN idle[r] : idle[r][k] = t
    <3>1. tpc[t] = "sleep" => sem[t] = 1 \/ InHand(t)
      BY <2>3 DEF ControlInv, SleepInv
    <3> QED
      BY <2>1, <2>2, <2>3, <3>1
  <2>4. CASE /\ Cardinality(Listed(t)) = 1
             /\ \E r \in Res : \E k \in DOMAIN idle[r] : idle[r][k] = t
    <3>1. tpc[t] = "sleep" /\ sem[t] = 0 /\ ~InHand(t)
      BY <2>4 DEF ControlInv, IdleInv
    <3> QED
      BY <2>4, <3>1
  <2> QED
    BY <2>3, <2>4, ListedAtMostOnce
<1> QED
  BY <1>1, ControlInvariant, PTL

-----------------------------------------------------------------------------
(* The requests: no I is lost, duplicated or run twice, restCap counts     *)
(* what it is meant to count, and RFIT implements the service it promises. *)

(* The kinds of place an I that did not run yet can be in, besides main(). *)
InQueue(i) == \E f \in Func : \E k \in DOMAIN queue[f] : queue[f][k] = i
InLocal(i) == \E t \in Task : i \in local[t]
InGot(i) == \E t \in Task : got[t] = i
Dealing(t) == directRun[t] \/ tpc[t] = "run"
Dealt(i) == \E t \in Task : dealWith[t] = i /\ Dealing(t)

Finishing(t) == dealWith[t] # Null /\ ~directRun[t] /\ tpc[t] = "top"

(* What directRun says of a T: it was named an I of an F that is not       *)
(* concurrent and did not take it up yet.                                  *)
Named(t) ==
  directRun[t] => /\ tpc[t] \in {"created", "top", "find", "sleep"}
                  /\ tpc[t] = "sleep" => sem[t] = 1 \/ InHand(t)
                  /\ ~Conc(workFor[t])

(* A T works for the F of the I it has, and has none at first. *)
Owned(t) ==
  /\ tpc[t] \in {"absent", "created"} => directRun[t] \/ dealWith[t] = Null
  /\ Dealing(t) => dealWith[t] \in Inst /\ fOf[dealWith[t]] = workFor[t]
  /\ Finishing(t) => fOf[dealWith[t]] = workFor[t]

(* A T that nobody woke works for no F. *)
Unemployed(t) ==
  \/ tpc[t] \in {"absent", "putIdle"}
  \/ tpc[t] = "sleep" /\ sem[t] = 0 /\ ~InHand(t)
  => workFor[t] = Null

DirectInv ==
  /\ dpc \in {"enqueue", "tryDown", "scaleUp"} => Conc(fOf[di])
  /\ \A t \in Task : Named(t) /\ Owned(t) /\ Unemployed(t)

(* The requests of the Is that did not run yet are allocated and differ.   *)
RequestInv ==
  /\ \A i \in Inst : Made(i) /\ runs[i] = 0 => req[i] \in reqs
  /\ \A i, j \in Inst : Made(i) /\ Made(j) /\ runs[i] = 0 /\ runs[j] = 0 /\ req[i] = req[j] => i = j
  /\ dpc = "accept" => da \in reqs /\ \A i \in Inst : Made(i) /\ runs[i] = 0 => req[i] # da

(* No two places of the same kind hold the same I. *)
UniqueInv ==
  /\ \A f, g \in Func : \A k \in DOMAIN queue[f], l \in DOMAIN queue[g] :
       queue[f][k] = queue[g][l] => f = g /\ k = l
  /\ \A t, u \in Task : t # u =>
       /\ \A i \in local[t] : i \notin local[u]
       /\ got[t] = got[u] => got[t] = Null
       /\ Dealing(t) /\ Dealing(u) => dealWith[t] # dealWith[u]

(* An I that was made and did not run is in one kind of place, any other   *)
(* in none.                                                                *)
OnePlace(i) ==
  /\ HeldByMain(i) \/ InQueue(i) \/ InLocal(i) \/ InGot(i) \/ Dealt(i) <=> Made(i) /\ runs[i] = 0
  /\ HeldByMain(i) => ~InQueue(i) /\ ~InLocal(i) /\ ~InGot(i) /\ ~Dealt(i)
  /\ InQueue(i) => ~InLocal(i) /\ ~InGot(i) /\ ~Dealt(i)
  /\ InLocal(i) => ~InGot(i) /\ ~Dealt(i)
  /\ InGot(i) => ~Dealt(i)

PlaceInv == \A i \in Inst : OnePlace(i)

(* An I that ran is deleted once, by the one T that ran it. *)
FinishInv ==
  /\ \A i \in Inst : runs[i] \in {0, 1} /\ frees[i] \in 0..runs[i]
  /\ \A i \in Inst : runs[i] # 0 => Made(i)
  /\ \A i \in Inst : runs[i] # frees[i] <=> \E t \in Task : Finishes(t, i)
  /\ \A t, u \in Task : Finishing(t) /\ Finishing(u) /\ dealWith[t] = dealWith[u] => t = u

PlacementInv == ControlInv /\ DirectInv /\ RequestInv /\ UniqueInv /\ PlaceInv /\ FinishInv

-----------------------------------------------------------------------------
(* A step of T t leaves the other Ts, the dispatcher and the making of Is  *)
(* alone.                                                                  *)
LEMMA TaskFrame ==
  ASSUME ControlInv, NEW t \in Task, TaskStep(t), NEW u \in Task, u # t
  PROVE  /\ UNCHANGED <<dpc, da, di, dt, fOf, req>>
         /\ UNCHANGED <<tpc[u], workFor[u], sem[u], got[u], local[u], dealWith[u], directRun[u]>>
<1> USE DEF ControlInv, TypeOK, TaskTypes, dvars, ivars
<1>1. CASE StartTask(t)
  BY <1>1 DEF StartTask
<1>2. CASE FinishI(t)
  BY <1>2 DEF FinishI
<1>3. CASE GetDirectI(t)
  BY <1>3 DEF GetDirectI
<1>4. CASE NoDirectI(t)
  BY <1>4 DEF NoDirectI
<1>5. CASE TakeLocalI(t)
  BY <1>5 DEF TakeLocalI, Return
<1>6. CASE NoLocalI(t)
  BY <1>6 DEF NoLocalI
<1>7. CASE GetICount(t)
  BY <1>7 DEF GetICount, Return, NothingPulled
<1>8. CASE PeekSize(t)
  BY <1>8 DEF PeekSize, Return, NothingPulled
<1>9. CASE PullMultiI(t)
  <2>1. PICK n \in Nat, loc \in SUBSET Inst : Pulls(t, n, loc)
    BY <1>9, PullFacts
  <2> QED
    BY <1>9, <2>1 DEF PullMultiI, Pulls, Return, NothingPulled
<1>10. CASE LeaveFromF(t)
  BY <1>10 DEF LeaveFromF
<1>11. CASE RemoveTFromBusy(t)
  BY <1>11 DEF RemoveTFromBusy
<1>12. CASE PutT2Idle(t)
  BY <1>12 DEF PutT2Idle
<1>13. CASE ThreadSleep(t)
  BY <1>13 DEF ThreadSleep
<1>14. CASE RunFunction(t)
  BY <1>14 DEF RunFunction
<1> QED
  BY <1>1, <1>2, <1>3, <1>4, <1>5, <1>6, <1>7, <1>8, <1>9, <1>10, <1>11, <1>12, <1>13, <1>14
  DEF TaskStep

LEMMA DirectOfTask ==
  ASSUME ControlInv, DirectInv, NEW t \in Task, TaskStep(t)
  PROVE  (Named(t) /\ Owned(t) /\ Unemployed(t))'
<1>1. Named(t) /\ Owned(t) /\ Unemployed(t)
  BY DEF DirectInv
<1>2. /\ tpc[t] \in Employed => workFor[t] \in Func
      /\ sem[t] \in Nat
      /\ sem[t] # 0 => sem[t] = 1 /\ tpc[t] = "sleep" /\ workFor[t] \in Func
      /\ dealWith[t] \in Inst \cup {Null} /\ directRun[t] \in BOOLEAN
      /\ got[t] \in Inst \cup {Null} /\ local[t] \subseteq Inst
      /\ dpc \in {"putBusy", "wake"} => tpc[dt] = "sleep" /\ sem[dt] = 0
      /\ \A i \in local[t] : fOf[i] = workFor[t]
      /\ got[t] # Null => fOf[got[t]] = workFor[t]
      /\ tpc[t] \in {"count", "peek", "pull", "leave"} => Conc(workFor[t])
  BY DEF ControlInv, TypeOK, TaskTypes, TaskInv, HoldInv, MainInv
<1>3. /\ tpc \in [Task -> TaskPc] /\ workFor \in [Task -> Func \cup {Null}] /\ sem \in [Task -> Nat]
      /\ dealWith \in [Task -> Inst \cup {Null}] /\ directRun \in [Task -> BOOLEAN]
  BY DEF ControlInv, TypeOK, TaskTypes
<1> USE <1>1, <1>2, <1>3, NullAssumption
    DEF Named, Owned, Unemployed, Dealing, Finishing, InHand, Employed, dvars, ivars, Conc
<1>4. CASE StartTask(t)
  BY <1>4 DEF StartTask
<1>5. CASE FinishI(t)
  BY <1>5 DEF FinishI
<1>6. CASE GetDirectI(t)
  BY <1>6 DEF GetDirectI, Direct
<1>7. CASE NoDirectI(t)
  BY <1>7 DEF NoDirectI, Direct
<1>8. CASE TakeLocalI(t)
  BY <1>8 DEF TakeLocalI, Return, Direct
<1>9. CASE NoLocalI(t)
  BY <1>9 DEF NoLocalI, Direct
<1>10. CASE GetICount(t)
  BY <1>10 DEF GetICount, Return, NothingPulled
<1>11. CASE PeekSize(t)
  BY <1>11 DEF PeekSize, Return, NothingPulled
<1>12. CASE PullMultiI(t)
  <2>1. PICK n \in Nat, loc \in SUBSET Inst : Pulls(t, n, loc)
    BY <1>12, PullFacts
  <2>2. \A i \in loc : i \in Inst /\ fOf[i] = workFor[t]
    BY <2>1 DEF Pulls
  <2>3. tpc[t] = "pull" /\ UNCHANGED <<directRun, sem, dpc, dt, fOf>>
    BY <1>12 DEF PullMultiI
  <2>4. NothingPulled(t) \/ \E i \in loc : Return(t, i)
    BY <2>1 DEF Pulls
  <2> QED
    BY <2>2, <2>3, <2>4 DEF Return, NothingPulled
<1>13. CASE LeaveFromF(t)
  BY <1>13 DEF LeaveFromF
<1>14. CASE RemoveTFromBusy(t)
  BY <1>14 DEF RemoveTFromBusy
<1>15. CASE PutT2Idle(t)
  BY <1>15 DEF PutT2Idle
<1>16. CASE ThreadSleep(t)
  BY <1>16 DEF ThreadSleep
<1>17. CASE RunFunction(t)
  BY <1>17 DEF RunFunction
<1> QED
  BY <1>4, <1>5, <1>6, <1>7, <1>8, <1>9, <1>10, <1>11, <1>12, <1>13, <1>14, <1>15, <1>16, <1>17
  DEF TaskStep

(* The steps of main() that leave the Ts and what it holds of them alone. *)
LEMMA DirectKept ==
  ASSUME ControlInv, DirectInv,
         UNCHANGED <<tpc, workFor, dealWith, directRun, sem, fOf>>,
         dpc' \in {"putBusy", "wake"} <=> dpc \in {"putBusy", "wake"},
         dpc \in {"putBusy", "wake"} => dt' = dt,
         dpc' \in {"enqueue", "tryDown", "scaleUp"} => Conc(fOf'[di'])
  PROVE  DirectInv'
BY DEF DirectInv, Named, Owned, Unemployed, Dealing, Finishing, InHand, Conc

LEMMA DirectInvNext == ControlInv /\ DirectInv /\ [Next]_vars => DirectInv'
<1> SUFFICES ASSUME ControlInv, DirectInv, [Next]_vars PROVE DirectInv'
  OBVIOUS
<1> USE DEF dvars, ivars, tvars, Dispatched
<1>1. CASE MallocRequest
  BY <1>1, DirectKept DEF MallocRequest
<1>2. CASE AcceptFails
  BY <1>2, DirectKept DEF AcceptFails
<1>3. CASE EnqueueI
  BY <1>3, DirectKept DEF EnqueueI, DirectInv
<1>4. CASE TryScaleDownCap
  BY <1>4, DirectKept DEF TryScaleDownCap, DirectInv
<1>5. CASE ScaleUpCap
  BY <1>5, DirectKept DEF ScaleUpCap
<1>6. CASE GetIdleT
  <2>1. PICK h \in Task, r \in Res : Finds(h, r)
    BY <1>6, IdleFacts
  <2>2. di \in Inst /\ fOf[di] \in Func
    BY <1>6, IdleFacts
  <2>3. Named(h) /\ Owned(h) /\ Unemployed(h) /\ ~directRun[h]
    BY <2>1 DEF DirectInv, Named, Finds
  <2>4. dpc = "getT" /\ dpc' = "putBusy" /\ UNCHANGED <<fOf, tpc, sem, di>>
    BY <1>6 DEF GetIdleT
  <2>5. ASSUME NEW u \in Task PROVE (Named(u) /\ Owned(u) /\ Unemployed(u))'
    <3>1. Named(u) /\ Owned(u) /\ Unemployed(u) /\ tpc[u] \in TaskPc /\ sem[u] \in Nat
      BY DEF DirectInv, ControlInv, TypeOK, TaskTypes
    <3>2. u # h => UNCHANGED <<workFor[u], directRun[u], dealWith[u]>>
      BY <2>1 DEF Finds, NameI, ControlInv, TypeOK, TaskTypes
    <3>3. /\ workFor'[h] = fOf[di] /\ dt' = h /\ tpc[h] = "sleep"
          /\ \/ Conc(fOf[di]) /\ UNCHANGED <<directRun[h], dealWith[h]>>
             \/ ~Conc(fOf[di]) /\ directRun'[h] = TRUE /\ dealWith'[h] = di
      BY <2>1 DEF Finds, NameI, ControlInv, TypeOK, TaskTypes
    <3>4. CASE u = h
      BY <2>2, <2>3, <2>4, <3>3, <3>4 DEF Named, Owned, Unemployed, Dealing, Finishing, InHand, Conc
    <3>5. CASE u # h
      BY <2>4, <3>1, <3>2, <3>3, <3>5 DEF Named, Owned, Unemployed, Dealing, Finishing, InHand, Conc
    <3> QED
      BY <3>4, <3>5
  <2> QED
    BY <2>4, <2>5 DEF DirectInv
<1>7. CASE NoIdleT
  BY <1>7, DirectKept DEF NoIdleT
<1>8. CASE PutIdleT2Busy
  BY <1>8, DirectKept DEF PutIdleT2Busy
<1>9. CASE ThreadWakeUpOne
  <2>1. /\ dpc = "wake" /\ dt \in Task /\ sem[dt] = 0 /\ sem' = [sem EXCEPT ![dt] = @ + 1]
        /\ dpc' = "malloc" /\ UNCHANGED <<tpc, workFor, dealWith, directRun, fOf>>
    BY <1>9 DEF ThreadWakeUpOne, ControlInv, MainInv, HoldingT
  <2>2. ASSUME NEW u \in Task PROVE (Named(u) /\ Owned(u) /\ Unemployed(u))'
    <3>1. Named(u) /\ Owned(u) /\ Unemployed(u) /\ sem \in [Task -> Nat]
      BY DEF DirectInv, ControlInv, TypeOK, TaskTypes
    <3> QED
      BY <2>1, <3>1 DEF Named, Owned, Unemployed, Dealing, Finishing, InHand, Conc
  <2> QED
    BY <2>1, <2>2 DEF DirectInv
<1>10. CASE NewT
  <2>1. PICK n \in Task : Creates(n)
    BY <1>10, NewFacts
  <2>2. di \in Inst /\ fOf[di] \in Func
    BY <1>10, NewFacts
  <2>3. Named(n) /\ Owned(n) /\ Unemployed(n) /\ ~directRun[n] /\ tpc[n] = "absent"
    BY <2>1 DEF DirectInv, Named, Creates
  <2>4. dpc = "newT" /\ dpc' = "create" /\ UNCHANGED <<fOf, sem, di>>
    BY <1>10 DEF NewT
  <2>5. ASSUME NEW u \in Task PROVE (Named(u) /\ Owned(u) /\ Unemployed(u))'
    <3>1. Named(u) /\ Owned(u) /\ Unemployed(u) /\ tpc[u] \in TaskPc /\ sem[u] \in Nat
      BY DEF DirectInv, ControlInv, TypeOK, TaskTypes
    <3>2. u # n => UNCHANGED <<tpc[u], workFor[u], directRun[u], dealWith[u]>>
      BY <2>1 DEF Creates, NameI, ControlInv, TypeOK, TaskTypes
    <3>3. /\ workFor'[n] = fOf[di] /\ tpc'[n] = "created"
          /\ \/ Conc(fOf[di]) /\ UNCHANGED <<directRun[n], dealWith[n]>>
             \/ ~Conc(fOf[di]) /\ directRun'[n] = TRUE /\ dealWith'[n] = di
      BY <2>1 DEF Creates, NameI, ControlInv, TypeOK, TaskTypes
    <3>4. CASE u = n
      BY <2>2, <2>3, <2>4, <3>3, <3>4 DEF Named, Owned, Unemployed, Dealing, Finishing, InHand, Conc
    <3>5. CASE u # n
      BY <2>4, <3>1, <3>2, <3>5 DEF Named, Owned, Unemployed, Dealing, Finishing, InHand, Conc
    <3> QED
      BY <3>4, <3>5
  <2> QED
    BY <2>4, <2>5 DEF DirectInv
<1>11. CASE PthreadCreate
  <2>1. /\ dpc = "create" /\ dt \in Task /\ tpc[dt] = "created" /\ tpc' = [tpc EXCEPT ![dt] = "top"]
        /\ dpc' = "malloc" /\ UNCHANGED <<sem, workFor, dealWith, directRun, fOf>>
        /\ workFor[dt] = fOf[di] 
    BY <1>11 DEF PthreadCreate, ControlInv, MainInv, HoldingT
  <2>2. ASSUME NEW u \in Task PROVE (Named(u) /\ Owned(u) /\ Unemployed(u))'
    <3>1. Named(u) /\ Owned(u) /\ Unemployed(u) /\ tpc \in [Task -> TaskPc]
      BY DEF DirectInv, ControlInv, TypeOK, TaskTypes
    <3> QED
      BY <2>1, <3>1 DEF Named, Owned, Unemployed, Dealing, Finishing, InHand, Conc
  <2> QED
    BY <2>1, <2>2 DEF DirectInv
<1>12. CASE PthreadCreateFails
  BY <1>12, DirectKept DEF PthreadCreateFails
<1>13. ASSUME NEW f \in Func, MakeRequest(f) PROVE DirectInv'
  <2>1. PICK i \in Inst : fOf[i] = Null /\ fOf' = [fOf EXCEPT ![i] = f] /\ di' = i
    BY <1>13, FreshIn DEF MakeRequest
  <2>2. /\ dpc = "accept" /\ dpc' = IF Conc(f) THEN "enqueue" ELSE "getT"
        /\ UNCHANGED <<tpc, workFor, dealWith, directRun, sem>>
    BY <1>13 DEF MakeRequest
  <2>3. ASSUME NEW u \in Task PROVE (Named(u) /\ Owned(u) /\ Unemployed(u))'
    <3>1. Named(u) /\ Owned(u) /\ Unemployed(u) /\ fOf \in [Inst -> Func \cup {Null}]
      BY DEF DirectInv, ControlInv, TypeOK, InstTypes
    <3>2. Dealing(u) \/ Finishing(u) => dealWith[u] \in Inst /\ fOf[dealWith[u]] # Null
      <4>1. tpc[u] \in Employed => workFor[u] # Null
        BY NullAssumption DEF ControlInv, TaskInv
      <4>2. directRun[u] /\ tpc[u] = "sleep" => workFor[u] # Null
        <5>1. directRun[u] /\ tpc[u] = "sleep" => sem[u] = 1
          BY <2>2, <3>1 DEF Named, InHand
        <5> QED
          BY <5>1, NullAssumption DEF ControlInv, TaskInv
      <4>3. dealWith[u] \in Inst \cup {Null} 
        BY DEF ControlInv, TypeOK, TaskTypes
      <4> QED
        BY <3>1, <4>1, <4>2, <4>3 DEF Named, Owned, Dealing, Finishing, Employed
    <3>3. Dealing(u) \/ Finishing(u) => fOf'[dealWith[u]] = fOf[dealWith[u]]
      BY <2>1, <3>1, <3>2
    <3> QED
      BY <2>2, <3>1, <3>2, <3>3 DEF Named, Owned, Unemployed, Dealing, Finishing, InHand, Conc
  <2>4. (dpc \in {"enqueue", "tryDown", "scaleUp"} => Conc(fOf[di]))'
    BY <2>1, <2>2 DEF ControlInv, TypeOK, InstTypes, Conc
  <2> QED
    BY <2>3, <2>4 DEF DirectInv
<1>14. ASSUME NEW t \in Task, TaskStep(t) PROVE DirectInv'
  <2>1. UNCHANGED <<dpc, di, dt, fOf>>
    BY <1>14, TaskStepLocal DEF ControlInv
  <2>2. ASSUME NEW u \in Task PROVE (Named(u) /\ Owned(u) /\ Unemployed(u))'
    <3>1. CASE u = t
      BY <1>14, <3>1, DirectOfTask
    <3>2. CASE u # t
      <4>1. UNCHANGED <<tpc[u], workFor[u], sem[u], dealWith[u], directRun[u]>>
        BY <1>14, <3>2, TaskFrame
      <4> QED
        BY <2>1, <4>1 DEF DirectInv, Named, Owned, Unemployed, Dealing, Finishing, InHand, Conc
    <3> QED
      BY <3>1, <3>2
  <2> QED
    BY <2>1, <2>2 DEF DirectInv, Conc
<1>15. CASE UNCHANGED vars
  BY <1>15, DirectKept DEF vars, DirectInv
<1> QED
  BY <1>1, <1>2, <1>3, <1>4, <1>5, <1>6, <1>7, <1>8, <1>9, <1>10, <1>11, <1>12, <1>13, <1>14,
  <1>15 DEF Next, DispatchStep, Accept, Stopped

-----------------------------------------------------------------------------
(* The steps that move no I. *)
LEMMA PlacesKept ==
  ASSUME UniqueInv, PlaceInv,
         UNCHANGED <<queue, local, got, fOf, runs>>,
         \A u \in Task : Dealing(u)' <=> Dealing(u),
         \A u \in Task : Dealing(u) => dealWith'[u] = dealWith[u],
         \A i \in Inst : HeldByMain(i)' <=> HeldByMain(i)
  PROVE  UniqueInv' /\ PlaceInv'
<1>1. UniqueInv'
  BY DEF UniqueInv, Dealing
<1>2. ASSUME NEW i \in Inst
      PROVE  /\ HeldByMain(i)' <=> HeldByMain(i) 
             /\ InQueue(i)' <=> InQueue(i)
             /\ InLocal(i)' <=> InLocal(i)
             /\ InGot(i)' <=> InGot(i)
             /\ Dealt(i)' <=> Dealt(i)
             /\ Made(i)' <=> Made(i)
  BY DEF InQueue, InLocal, InGot, Dealt, Made, Dealing
<1>3. PlaceInv'
  BY <1>2 DEF PlaceInv, OnePlace
<1> QED
  BY <1>1, <1>3

(* A T that takes up no I and puts none down. *)
LEMMA PlacesKeptByTask ==
  ASSUME PlacementInv, NEW t \in Task, TaskStep(t),
         UNCHANGED <<queue, local, got, runs>>,
         Dealing(t)' <=> Dealing(t), dealWith'[t] = dealWith[t]
  PROVE  UniqueInv' /\ PlaceInv'
<1>1. ASSUME NEW u \in Task
      PROVE  (Dealing(u)' <=> Dealing(u)) /\ (Dealing(u) => dealWith'[u] = dealWith[u])
  <2>1. CASE u = t
    BY <2>1
  <2>2. CASE u # t
    BY <2>2, TaskFrame DEF PlacementInv, Dealing
  <2> QED
    BY <2>1, <2>2
<1>2. UNCHANGED <<dpc, di, fOf>>
  BY TaskStepLocal DEF PlacementInv, ControlInv, dvars
<1>3. \A i \in Inst : HeldByMain(i)' <=> HeldByMain(i)
  BY <1>2 DEF HeldByMain, Conc
<1> QED
  BY <1>1, <1>2, <1>3, PlacesKept DEF PlacementInv

(* The Is that T t has, and those the others have. *)
OthersLocal(t, i) == \E u \in Task \ {t} : i \in local[u]
OthersGot(t, i) == \E u \in Task \ {t} : got[u] = i
OthersDealt(t, i) == \E u \in Task \ {t} : dealWith[u] = i /\ Dealing(u)

LEMMA PlacesOf ==
  ASSUME NEW t \in Task, NEW i \in Inst
  PROVE  /\ InLocal(i) <=> i \in local[t] \/ OthersLocal(t, i)
         /\ InGot(i) <=> got[t] = i \/ OthersGot(t, i)
         /\ Dealt(i) <=> (dealWith[t] = i /\ Dealing(t)) \/ OthersDealt(t, i)
  BY DEF InLocal, InGot, Dealt, OthersLocal, OthersGot, OthersDealt

(* What a step of T t may do to the Is of the Ts. *)
LEMMA PlacesOfTask ==
  ASSUME PlacementInv, NEW t \in Task, TaskStep(t)
  PROVE  /\ \A i \in Inst : (HeldByMain(i)' <=> HeldByMain(i)) /\ (Made(i)' <=> Made(i))
         /\ \A i \in Inst : InLocal(i)' <=> i \in local'[t] \/ OthersLocal(t, i)
         /\ \A i \in Inst : InGot(i)' <=> got'[t] = i \/ OthersGot(t, i)
         /\ \A i \in Inst : Dealt(i)' <=> (dealWith'[t] = i /\ Dealing(t)') \/ OthersDealt(t, i)
         /\ \A u \in Task \ {t} : /\ UNCHANGED <<local[u], got[u], dealWith[u]>>
                                  /\ Dealing(u)' <=> Dealing(u)
<1>1. \A u \in Task \ {t} : UNCHANGED <<local[u], got[u], dealWith[u], directRun[u], tpc[u]>>
  BY TaskFrame DEF PlacementInv
<1>2. UNCHANGED <<dpc, di, fOf>>
  BY TaskStepLocal DEF PlacementInv, ControlInv, dvars
<1>3. \A u \in Task \ {t} : Dealing(u)' <=> Dealing(u)
  BY <1>1 DEF Dealing
<1>4. \A i \in Inst : (HeldByMain(i)' <=> HeldByMain(i)) /\ (Made(i)' <=> Made(i))
  BY <1>2 DEF HeldByMain, Conc, Made
<1>5. ASSUME NEW i \in Inst
      PROVE  /\ InLocal(i)' <=> i \in local'[t] \/ OthersLocal(t, i)
             /\ InGot(i)' <=> got'[t] = i \/ OthersGot(t, i)
             /\ Dealt(i)' <=> (dealWith'[t] = i /\ Dealing(t)') \/ OthersDealt(t, i)
  BY <1>1, <1>3 DEF InLocal, InGot, Dealt, Dealing, OthersLocal, OthersGot, OthersDealt
<1> QED
  BY <1>1, <1>3, <1>4, <1>5

(* A step of T t that takes no I off the queue. *)
LEMMA QueueKept ==
  ASSUME queue' = queue
  PROVE  /\ \A i \in Inst : InQueue(i)' <=> InQueue(i)
         /\ UniqueInv => (\A f, g \in Func : \A k \in DOMAIN queue[f], l \in DOMAIN queue[g] :
                            queue[f][k] = queue[g][l] => f = g /\ k = l)'
  BY DEF InQueue, UniqueInv

(* What a T that runs nothing has: its local map and the I it got.         *)
Has(t, i) == i \in local[t] \/ got[t] = i \/ (dealWith[t] = i /\ Dealing(t))

(* A T that runs nothing takes a set P of Is off the queue of its F, and   *)
(* spreads what it then has over its local map, the I it got and the I it  *)
(* runs.                                                                   *)
LEMMA PlacesMoved ==
  ASSUME PlacementInv, NEW t \in Task, TaskStep(t), runs' = runs, NEW P \in SUBSET Inst,
         \A i \in Inst : Has(t, i)' <=> Has(t, i) \/ i \in P,
         \A i \in Inst : InQueue(i)' <=> InQueue(i) /\ i \notin P,
         \A i \in P : InQueue(i),
         (\A f, g \in Func : \A k \in DOMAIN queue[f], l \in DOMAIN queue[g] :
            queue[f][k] = queue[g][l] => f = g /\ k = l)',
         \A i \in local'[t] : got'[t] # i /\ ~(dealWith'[t] = i /\ Dealing(t)'),
         Dealing(t)' => got'[t] = Null \/ got'[t] # dealWith'[t],
         local[t] \subseteq Inst, local'[t] \subseteq Inst,
         got[t] \in Inst \cup {Null}, got'[t] \in Inst \cup {Null},
         Dealing(t)' => dealWith'[t] \in Inst
  PROVE  UniqueInv' /\ PlaceInv'
<1>1. PlaceInv'
  <2> SUFFICES ASSUME NEW j \in Inst PROVE OnePlace(j)'
    BY DEF PlaceInv
  <2>1. /\ HeldByMain(j)' <=> HeldByMain(j)
        /\ Made(j)' <=> Made(j)
        /\ InLocal(j)' <=> j \in local'[t] \/ OthersLocal(t, j)
        /\ InGot(j)' <=> got'[t] = j \/ OthersGot(t, j)
        /\ Dealt(j)' <=> (dealWith'[t] = j /\ Dealing(t)') \/ OthersDealt(t, j)
    BY PlacesOfTask
  <2>2. /\ InLocal(j) <=> j \in local[t] \/ OthersLocal(t, j)
        /\ InGot(j) <=> got[t] = j \/ OthersGot(t, j)
        /\ Dealt(j) <=> (dealWith[t] = j /\ Dealing(t)) \/ OthersDealt(t, j)
    BY PlacesOf
  <2>3. OnePlace(j)
    BY DEF PlacementInv, PlaceInv
  <2>4. Has(t, j) => ~OthersLocal(t, j) /\ ~OthersGot(t, j) /\ ~OthersDealt(t, j)
    <3>1. j \in local[t] => ~OthersLocal(t, j)
      BY DEF PlacementInv, UniqueInv, OthersLocal
    <3>2. got[t] = j => ~OthersGot(t, j)
      BY NullAssumption DEF PlacementInv, UniqueInv, OthersGot
    <3>3. dealWith[t] = j /\ Dealing(t) => ~OthersDealt(t, j)
      BY DEF PlacementInv, UniqueInv, OthersDealt
    <3> QED
      BY <2>2, <2>3, <3>1, <3>2, <3>3 DEF Has, OnePlace
  <2>5. Has(t, j)' <=> j \in local'[t] \/ got'[t] = j \/ (dealWith'[t] = j /\ Dealing(t)')
    BY DEF Has, Dealing
  <2> QED
    BY <2>1, <2>2, <2>3, <2>4, <2>5, NullAssumption DEF OnePlace, Has
<1>2. UniqueInv'
  <2>1. \A u \in Task \ {t} : /\ UNCHANGED <<local[u], got[u], dealWith[u]>>
                              /\ Dealing(u)' <=> Dealing(u)
    BY PlacesOfTask
  <2>2. ASSUME NEW u \in Task \ {t}, NEW i \in Inst, Has(t, i) \/ i \in P
        PROVE  i \notin local[u] /\ got[u] # i /\ ~(dealWith[u] = i /\ Dealing(u))
    <3>1. OnePlace(i)
      BY DEF PlacementInv, PlaceInv
    <3>2. /\ i \in local[u] => InLocal(i)
          /\ got[u] = i => InGot(i)
          /\ dealWith[u] = i /\ Dealing(u) => Dealt(i)
      BY DEF InLocal, InGot, Dealt
    <3>3. CASE i \in P
      BY <3>1, <3>2, <3>3 DEF OnePlace
    <3>4. CASE Has(t, i)
      BY <3>1, <3>2, <3>4, NullAssumption, PlacesOf DEF OnePlace, Has, PlacementInv, UniqueInv
    <3> QED
      BY <2>2, <3>3, <3>4
  <2>3. ASSUME NEW i \in Inst, Has(t, i)', NEW u \in Task \ {t}
        PROVE  i \notin local'[u] /\ got'[u] # i /\ ~(dealWith'[u] = i /\ Dealing(u)')
    BY <2>1, <2>2, <2>3
  <2>4. \A i \in Inst : Has(t, i)' <=> i \in local'[t] \/ got'[t] = i \/ (dealWith'[t] = i /\ Dealing(t)')
    BY DEF Has, Dealing
  <2>5. ASSUME NEW u \in Task, NEW v \in Task, u # v
        PROVE  (/\ \A i \in local[u] : i \notin local[v]
                /\ got[u] = got[v] => got[u] = Null
                /\ Dealing(u) /\ Dealing(v) => dealWith[u] # dealWith[v])'
    <3>1. CASE u = t
      BY <2>3, <2>4, <2>5, <3>1, NullAssumption
    <3>2. CASE v = t
      BY <2>3, <2>4, <2>5, <3>2, NullAssumption
    <3>3. CASE u # t /\ v # t
      BY <2>1, <2>5, <3>3 DEF PlacementInv, UniqueInv
    <3> QED
      BY <3>1, <3>2, <3>3
  <2> QED
    BY <2>5 DEF UniqueInv
<1> QED
  BY <1>1, <1>2

LEMMA PlacesShuffled ==
  ASSUME PlacementInv, NEW t \in Task, TaskStep(t), UNCHANGED <<queue, runs>>,
         \A i \in Inst : Has(t, i)' <=> Has(t, i),
         \A i \in local'[t] : got'[t] # i /\ ~(dealWith'[t] = i /\ Dealing(t)'),
         Dealing(t)' => got'[t] = Null \/ got'[t] # dealWith'[t],
         local[t] \subseteq Inst, local'[t] \subseteq Inst,
         got[t] \in Inst \cup {Null}, got'[t] \in Inst \cup {Null},
         Dealing(t)' => dealWith'[t] \in Inst
  PROVE  UniqueInv' /\ PlaceInv'
<1>1. /\ \A i \in Inst : InQueue(i)' <=> InQueue(i) /\ i \notin {}
      /\ (\A f, g \in Func : \A k \in DOMAIN queue[f], l \in DOMAIN queue[g] :
            queue[f][k] = queue[g][l] => f = g /\ k = l)'
  BY QueueKept DEF PlacementInv
<1>2. /\ {} \in SUBSET Inst /\ \A i \in {} : InQueue(i)
      /\ \A i \in Inst : Has(t, i)' <=> Has(t, i) \/ i \in {}
  BY DEF Has, Dealing
<1> QED
  BY <1>1, <1>2, PlacesMoved DEF Has, Dealing

(* takeIFromILocalMap_safe: one I of the local map is got or run. *)
LEMMA PlacesTakeLocal ==
  ASSUME PlacementInv, NEW t \in Task, TakeLocalI(t)
  PROVE  UniqueInv' /\ PlaceInv'
<1>1. PICK i \in local[t] :
        /\ local' = [local EXCEPT ![t] = @ \ {i}]
        /\ \/ Return(t, i)
           \/ /\ got' = [got EXCEPT ![t] = i] /\ tpc' = [tpc EXCEPT ![t] = "count"]
              /\ UNCHANGED <<workFor, dealWith>>
  BY DEF TakeLocalI
<1>2. /\ tpc[t] = "find" /\ Conc(workFor[t])
      /\ UNCHANGED <<queue, runs, directRun>>
  BY DEF TakeLocalI, ivars, fvars
<1>3. i \in Inst /\ local[t] \subseteq Inst /\ got[t] = Null /\ i # Null
  BY <1>1, <1>2, NullAssumption DEF PlacementInv, ControlInv, TypeOK, TaskTypes, HoldInv
<1>4. ~Dealing(t) /\ ~directRun[t]
  BY <1>2 DEF PlacementInv, DirectInv, Named, Dealing
<1>5. TaskStep(t)
  BY DEF TaskStep
<1>6. /\ local'[t] = local[t] \ {i}
      /\ \/ got'[t] = Null /\ dealWith'[t] = i /\ Dealing(t)'
         \/ got'[t] = i /\ ~Dealing(t)'
  BY <1>1, <1>2, <1>3, <1>4 DEF Return, Dealing, PlacementInv, ControlInv, TypeOK, TaskTypes
<1>7. \A j \in Inst : Has(t, j)' <=> Has(t, j)
  BY <1>1, <1>3, <1>4, <1>6, NullAssumption DEF Has, Dealing
<1>8. /\ \A j \in local'[t] : got'[t] # j /\ ~(dealWith'[t] = j /\ Dealing(t)')
      /\ Dealing(t)' => got'[t] = Null \/ got'[t] # dealWith'[t]
      /\ local'[t] \subseteq Inst /\ got'[t] \in Inst \cup {Null}
      /\ Dealing(t)' => dealWith'[t] \in Inst
  BY <1>3, <1>6, NullAssumption DEF Dealing
<1> QED
  BY <1>2, <1>3, <1>5, <1>7, <1>8, PlacesShuffled

(* getInstance returns the I it got, or the T leaves its F. *)
LEMMA PlacesReturn ==
  ASSUME PlacementInv, NEW t \in Task, TaskStep(t), tpc[t] \in {"count", "peek", "pull"},
         UNCHANGED <<queue, local, runs, directRun>>, NothingPulled(t)
  PROVE  UniqueInv' /\ PlaceInv'
<1>1. got[t] \in Inst \cup {Null} /\ local[t] \subseteq Inst
  BY DEF PlacementInv, ControlInv, TypeOK, TaskTypes
<1>2. ~Dealing(t) /\ ~directRun[t]
  BY DEF PlacementInv, DirectInv, Named, Dealing
<1>3. CASE got[t] = Null
  <2>1. UNCHANGED got /\ dealWith'[t] = dealWith[t] /\ ~Dealing(t)'
    BY <1>2, <1>3 DEF NothingPulled, Dealing, PlacementInv, ControlInv, TypeOK, TaskTypes
  <2> QED
    BY <1>2, <2>1, PlacesKeptByTask
<1>4. CASE got[t] # Null
  <2>1. got'[t] = Null /\ dealWith'[t] = got[t] /\ Dealing(t)'
    BY <1>4 DEF NothingPulled, Return, Dealing, PlacementInv, ControlInv, TypeOK, TaskTypes
  <2>2. got[t] \notin local[t]
    <3>1. OnePlace(got[t]) /\ InGot(got[t])
      BY <1>1, <1>4 DEF PlacementInv, PlaceInv, InGot
    <3> QED
      BY <3>1 DEF OnePlace, InLocal
  <2>3. \A j \in Inst : Has(t, j)' <=> Has(t, j)
    BY <1>1, <1>2, <1>4, <2>1, NullAssumption DEF Has, Dealing
  <2>4. /\ \A j \in local'[t] : got'[t] # j /\ ~(dealWith'[t] = j /\ Dealing(t)')
        /\ Dealing(t)' => got'[t] = Null \/ got'[t] # dealWith'[t]
        /\ local'[t] \subseteq Inst /\ got'[t] \in Inst \cup {Null}
        /\ Dealing(t)' => dealWith'[t] \in Inst
    BY <1>1, <1>4, <2>1, <2>2, NullAssumption DEF Dealing
  <2> QED
    BY <1>1, <2>3, <2>4, PlacesShuffled
<1> QED
  BY <1>3, <1>4

(* The Is at the front of the queue of the F of T t. *)
Front(t, n) == {queue[workFor[t]][k] : k \in 1..n}

(* addMultiI drops no I, for no two Is that did not run have the same      *)
(* request.                                                                *)
LEMMA NothingDropped ==
  ASSUME PlacementInv, NEW t \in Task, workFor[t] \in Func, NEW n \in Nat, n <= Len(queue[workFor[t]])
  PROVE  AddMultiI(local[t], SubSeq(queue[workFor[t]], 1, n)) = local[t] \cup Front(t, n)
<1> DEFINE q == queue[workFor[t]]
           s == SubSeq(q, 1, n)
<1>1. q \in Seq(Inst) /\ local[t] \subseteq Inst
  BY DEF PlacementInv, ControlInv, TypeOK, FuncTypes, TaskTypes
<1>2. DOMAIN s = 1..n /\ \A k \in 1..n : s[k] = q[k] /\ q[k] \in Inst /\ k \in DOMAIN q
  BY <1>1
<1>3. \A k \in 1..n : InQueue(q[k])
  BY <1>2 DEF InQueue
<1>4. \A i \in Inst : InQueue(i) \/ InLocal(i) => Made(i) /\ runs[i] = 0
  BY DEF PlacementInv, PlaceInv, OnePlace
<1>5. \A i \in local[t] : InLocal(i)
  BY DEF InLocal
<1>6. \A k \in 1..n : \A j \in local[t] \cup {s[m] : m \in 1..(k - 1)} : req[j] # req[s[k]]
  <2> SUFFICES ASSUME NEW k \in 1..n, NEW j \in local[t] \cup {s[m] : m \in 1..(k - 1)}
               PROVE  req[j] # req[s[k]]
    OBVIOUS
  <2>1. CASE j \in local[t]
    <3>1. j # q[k]
      BY <1>1, <1>2, <1>3, <1>5, <2>1 DEF PlacementInv, PlaceInv, OnePlace
    <3> QED
      BY <1>1, <1>2, <1>3, <1>4, <1>5, <2>1, <3>1 DEF PlacementInv, RequestInv
  <2>2. CASE j \in {s[m] : m \in 1..(k - 1)}
    <3>1. PICK m \in 1..(k - 1) : j = s[m]
      BY <2>2
    <3>2. m \in 1..n /\ m # k
      BY <3>1
    <3>3. q[m] # q[k]
      BY <1>2, <3>2 DEF PlacementInv, UniqueInv
    <3> QED
      BY <1>2, <1>3, <1>4, <3>1, <3>2, <3>3 DEF PlacementInv, RequestInv
  <2> QED
    BY <2>1, <2>2
<1>7. AddMultiI(local[t], s) = local[t] \cup {s[k] : k \in 1..n}
  <2> HIDE DEF s
  <2> QED
    BY <1>2, <1>6 DEF AddMultiI
<1> QED
  BY <1>2, <1>7 DEF Front

(* tryGetMultiI and addMultiI: no I is lost or doubled between the queue   *)
(* and the local map of the T.                                             *)
LEMMA PlacesPull ==
  ASSUME PlacementInv, NEW t \in Task, PullMultiI(t)
  PROVE  UniqueInv' /\ PlaceInv'
<1> DEFINE w == workFor[t]
           q == queue[w]
           n == PullCount(w, Len(q))
           loc == AddMultiI(local[t], SubSeq(q, 1, n))
           P == Front(t, n)
<1>1. w \in Func /\ q \in Seq(Inst) /\ local[t] \subseteq Inst /\ got[t] \in Inst \cup {Null}
  BY DEF PullMultiI, PlacementInv, ControlInv, TypeOK, FuncTypes, TaskTypes, TaskInv, Employed
<1>2. n \in Nat /\ n <= Len(q)
  BY <1>1, FuncAssumption DEF PullCount, Half
<1>3. loc = local[t] \cup P
  <2> HIDE DEF n
  <2> QED
    BY <1>1, <1>2, NothingDropped
<1>4. TaskStep(t) /\ tpc[t] = "pull" /\ UNCHANGED <<runs, directRun>>
  BY DEF TaskStep, PullMultiI, ivars
<1>5. ~Dealing(t) /\ ~directRun[t]
  BY <1>4 DEF PlacementInv, DirectInv, Named, Dealing
<1>6. /\ queue' = [queue EXCEPT ![w] = SubSeq(q, n + 1, Len(q))]
      /\ \/ n = 0 /\ NothingPulled(t) /\ local' = [local EXCEPT ![t] = loc]
         \/ got[t] # Null /\ NothingPulled(t) /\ local' = [local EXCEPT ![t] = loc]
         \/ got[t] = Null /\ \E i \in loc : Return(t, i) /\ local' = [local EXCEPT ![t] = loc \ {i}]
  BY DEF PullMultiI, Rest
<1> HIDE DEF n, loc
<1>7. \A i \in P : i \in Inst /\ InQueue(i)
  BY <1>1, <1>2 DEF Front, InQueue
<1>8. \A k \in 1..(Len(q) - n) : queue'[w][k] = q[k + n] /\ k + n \in DOMAIN q
  <2>1. queue'[w] = SubSeq(q, n + 1, Len(q))
    BY <1>1, <1>6 DEF PlacementInv, ControlInv, TypeOK, FuncTypes
  <2>2. \A k \in 1..(Len(q) - n) : SubSeq(q, n + 1, Len(q))[k] = q[k + n] /\ k + n \in DOMAIN q
    BY <1>1, <1>2
  <2> QED
    BY <2>1, <2>2
<1>9. /\ queue'[w] \in Seq(Inst) /\ DOMAIN queue'[w] = 1..(Len(q) - n)
      /\ \A f \in Func \ {w} : queue'[f] = queue[f]
  BY <1>1, <1>2, <1>6 DEF PlacementInv, ControlInv, TypeOK, FuncTypes
<1>10. (\A f, g \in Func : \A k \in DOMAIN queue[f], l \in DOMAIN queue[g] :
          queue[f][k] = queue[g][l] => f = g /\ k = l)'
  <2> SUFFICES ASSUME NEW f \in Func, NEW g \in Func, NEW k \in DOMAIN queue'[f], NEW l \in DOMAIN queue'[g],
                      queue'[f][k] = queue'[g][l]
               PROVE  f = g /\ k = l
    OBVIOUS
  <2>1. \A a, b \in Func : \A c \in DOMAIN queue[a], d \in DOMAIN queue[b] :
          queue[a][c] = queue[b][d] => a = b /\ c = d
    BY DEF PlacementInv, UniqueInv
  <2>2. CASE f = w /\ g = w
    <3>1. /\ k \in 1..(Len(q) - n) /\ q[k + n] = queue'[w][k] /\ k + n \in DOMAIN q
          /\ l \in 1..(Len(q) - n) /\ q[l + n] = queue'[w][l] /\ l + n \in DOMAIN q
      BY <1>8, <1>9, <2>2
    <3>2. k + n = l + n
      BY <1>1, <2>1, <2>2, <3>1
    <3> QED
      BY <1>1, <1>2, <2>2, <3>1, <3>2
  <2>3. CASE f = w /\ g # w
    <3>1. q[k + n] = queue'[w][k] /\ k + n \in DOMAIN q
      BY <1>8, <1>9, <2>3
    <3> QED
      BY <1>1, <1>9, <2>1, <2>3, <3>1
  <2>4. CASE f # w /\ g = w
    <3>1. q[l + n] = queue'[w][l] /\ l + n \in DOMAIN q
      BY <1>8, <1>9, <2>4
    <3> QED
      BY <1>1, <1>9, <2>1, <2>4, <3>1
  <2>5. CASE f # w /\ g # w
    BY <1>9, <2>1, <2>5
  <2> QED
    BY <2>2, <2>3, <2>4, <2>5
<1>11. ASSUME NEW i \in Inst PROVE InQueue(i)' <=> InQueue(i) /\ i \notin P
  <2>1. ASSUME InQueue(i)' PROVE InQueue(i) /\ i \notin P
    <3>0. PICK f \in Func : \E k \in DOMAIN queue'[f] : queue'[f][k] = i
      BY <2>1 DEF InQueue
    <3>1. PICK k \in DOMAIN queue'[f] : queue'[f][k] = i
      BY <3>0
    <3>2. CASE f = w
      <4>1. k + n \in DOMAIN q /\ q[k + n] = i /\ k \in Nat /\ k > 0
        <5>1. k \in 1..(Len(q) - n)
          BY <1>9, <3>1, <3>2
        <5> QED
          BY <1>8, <3>1, <3>2, <5>1
      <4>2. \A m \in 1..n : m \in DOMAIN q /\ m # k + n
        BY <1>1, <1>2, <4>1
      <4>3. \A m \in 1..n : q[m] # i
        BY <1>1, <4>1, <4>2 DEF PlacementInv, UniqueInv
      <4> QED
        BY <1>1, <4>1, <4>3 DEF InQueue, Front
    <3>3. CASE f # w
      <4>1. queue[f][k] = i /\ k \in DOMAIN queue[f]
        BY <1>9, <3>1, <3>3
      <4>2. \A m \in 1..n : m \in DOMAIN q
        BY <1>1, <1>2
      <4>3. \A m \in 1..n : q[m] # i
        BY <1>1, <3>3, <4>1, <4>2 DEF PlacementInv, UniqueInv
      <4> QED
        BY <4>1, <4>3 DEF InQueue, Front
    <3> QED
      BY <3>2, <3>3
  <2>2. ASSUME InQueue(i), i \notin P PROVE InQueue(i)'
    <3>0. PICK f \in Func : \E k \in DOMAIN queue[f] : queue[f][k] = i
      BY <2>2 DEF InQueue
    <3>1. PICK k \in DOMAIN queue[f] : queue[f][k] = i
      BY <3>0
    <3>2. CASE f = w
      <4>1. k \in 1..Len(q) /\ k \notin 1..n
        BY <1>1, <2>2, <3>1, <3>2 DEF Front
      <4>2. (k - n) \in 1..(Len(q) - n) /\ queue'[w][k - n] = i
        BY <1>1, <1>2, <1>8, <3>1, <3>2, <4>1
      <4> QED
        BY <1>1, <1>9, <4>2 DEF InQueue
    <3>3. CASE f # w
      BY <1>9, <3>1, <3>3 DEF InQueue
    <3> QED
      BY <3>2, <3>3
  <2> QED
    BY <2>1, <2>2
<1>12. /\ n = 0 => P = {}
       /\ got[t] = Null => local[t] = {}
       /\ got[t] # Null => got[t] \notin local[t] /\ got[t] \notin P
  <2>1. n = 0 => P = {}
    BY DEF Front
  <2>2. got[t] = Null => local[t] = {}
    BY <1>4 DEF PlacementInv, ControlInv, HoldInv
  <2>3. ASSUME got[t] # Null PROVE got[t] \notin local[t] /\ got[t] \notin P
    <3>1. OnePlace(got[t]) /\ InGot(got[t])
      BY <1>1, <2>3 DEF PlacementInv, PlaceInv, InGot
    <3> QED
      BY <1>7, <3>1 DEF OnePlace, InLocal
  <2> QED
    BY <2>1, <2>2, <2>3
<1>13. /\ \A i \in Inst : Has(t, i)' <=> Has(t, i) \/ i \in P
       /\ \A i \in local'[t] : got'[t] # i /\ ~(dealWith'[t] = i /\ Dealing(t)')
       /\ Dealing(t)' => got'[t] = Null \/ got'[t] # dealWith'[t]
       /\ local'[t] \subseteq Inst /\ got'[t] \in Inst \cup {Null}
       /\ Dealing(t)' => dealWith'[t] \in Inst
  <2> HIDE DEF P, w, q
  <2>1. /\ local \in [Task -> SUBSET Inst] /\ got \in [Task -> Inst \cup {Null}]
        /\ dealWith \in [Task -> Inst \cup {Null}] /\ tpc \in [Task -> TaskPc]
    BY DEF PlacementInv, ControlInv, TypeOK, TaskTypes
  <2>2. CASE got[t] = Null /\ n = 0 /\ NothingPulled(t) /\ local' = [local EXCEPT ![t] = loc]
    <3>1. got' = got /\ dealWith' = dealWith /\ ~Dealing(t)' /\ local'[t] = local[t]
      BY <1>3, <1>4, <1>5, <1>12, <2>1, <2>2 DEF NothingPulled, Dealing
    <3> QED
      BY <1>1, <1>5, <1>12, <2>2, <3>1, NullAssumption DEF Has, Dealing
  <2>3. CASE got[t] # Null /\ NothingPulled(t) /\ local' = [local EXCEPT ![t] = loc]
    <3>1. got'[t] = Null /\ dealWith'[t] = got[t] /\ Dealing(t)' /\ local'[t] = local[t] \cup P
      BY <1>3, <2>1, <2>3 DEF NothingPulled, Return, Dealing
    <3> QED
      BY <1>1, <1>5, <1>7, <1>12, <2>3, <3>1, NullAssumption DEF Has, Dealing
  <2>4. CASE got[t] = Null /\ \E i \in loc : Return(t, i) /\ local' = [local EXCEPT ![t] = loc \ {i}]
    <3>1. PICK i \in loc : Return(t, i) /\ local' = [local EXCEPT ![t] = loc \ {i}]
      BY <2>4
    <3>2. got'[t] = Null /\ dealWith'[t] = i /\ Dealing(t)' /\ local'[t] = (local[t] \cup P) \ {i}
          /\ i \in local[t] \cup P
      BY <1>3, <2>1, <3>1 DEF Return, Dealing
    <3> QED
      BY <1>1, <1>5, <1>7, <1>12, <2>4, <3>2, NullAssumption DEF Has, Dealing
  <2> QED
    BY <1>6, <2>2, <2>3, <2>4
<1>14. P \in SUBSET Inst
  BY <1>7
<1> HIDE DEF P
<1> QED
  BY <1>1, <1>4, <1>7, <1>10, <1>11, <1>13, <1>14, PlacesMoved DEF Has, Dealing

(* The function of the F is run: the I leaves its place for good. *)
LEMMA PlacesRun ==
  ASSUME PlacementInv, NEW t \in Task, RunFunction(t)
  PROVE  UniqueInv' /\ PlaceInv'
<1> DEFINE d == dealWith[t]
<1>1. /\ tpc[t] = "run" /\ tpc' = [tpc EXCEPT ![t] = "top"] /\ runs' = [runs EXCEPT ![d] = @ + 1]
      /\ UNCHANGED <<queue, local, got, directRun, dealWith>>
  BY DEF RunFunction, fvars
<1>2. TaskStep(t)
  BY DEF TaskStep
<1>3. d \in Inst /\ Dealing(t) /\ ~directRun[t] /\ ~Dealing(t)'
  BY <1>1 DEF PlacementInv, DirectInv, Named, Owned, Dealing, ControlInv, TypeOK, TaskTypes
<1>4. runs \in [Inst -> Nat]
  BY DEF PlacementInv, ControlInv, TypeOK, InstTypes
<1>5. OnePlace(d) /\ Dealt(d)
  BY <1>3 DEF PlacementInv, PlaceInv, Dealt
<1>6. ~OthersDealt(t, d)
  BY <1>3 DEF PlacementInv, UniqueInv, OthersDealt
<1>7. PlaceInv'
  <2> SUFFICES ASSUME NEW j \in Inst PROVE OnePlace(j)'
    BY DEF PlaceInv
  <2>1. /\ HeldByMain(j)' <=> HeldByMain(j)
        /\ Made(j)' <=> Made(j)
        /\ InQueue(j)' <=> InQueue(j)
        /\ InLocal(j)' <=> j \in local'[t] \/ OthersLocal(t, j)
        /\ InGot(j)' <=> got'[t] = j \/ OthersGot(t, j)
        /\ Dealt(j)' <=> (dealWith'[t] = j /\ Dealing(t)') \/ OthersDealt(t, j)
    BY <1>1, <1>2, PlacesOfTask, QueueKept
  <2>2. /\ InLocal(j) <=> j \in local[t] \/ OthersLocal(t, j)
        /\ InGot(j) <=> got[t] = j \/ OthersGot(t, j)
        /\ Dealt(j) <=> (dealWith[t] = j /\ Dealing(t)) \/ OthersDealt(t, j)
    BY PlacesOf
  <2>3. OnePlace(j)
    BY DEF PlacementInv, PlaceInv
  <2>4. CASE j = d
    BY <1>1, <1>3, <1>4, <1>5, <1>6, <2>1, <2>2, <2>4 DEF OnePlace
  <2>5. CASE j # d
    BY <1>1, <1>3, <1>4, <2>1, <2>2, <2>3, <2>5 DEF OnePlace
  <2> QED
    BY <2>4, <2>5
<1>8. UniqueInv'
  <2>1. \A u \in Task \ {t} : Dealing(u)' <=> Dealing(u)
    BY <1>2, PlacesOfTask
  <2> QED
    BY <1>1, <1>3, <2>1 DEF PlacementInv, UniqueInv, Dealing
<1> QED
  BY <1>7, <1>8

LEMMA PlacesOfTaskStep ==
  ASSUME PlacementInv, NEW t \in Task, TaskStep(t)
  PROVE  UniqueInv' /\ PlaceInv'
<1>1. Named(t)
  BY DEF PlacementInv, DirectInv
<1>2. /\ tpc \in [Task -> TaskPc] /\ directRun \in [Task -> BOOLEAN]
      /\ dealWith \in [Task -> Inst \cup {Null}] /\ got \in [Task -> Inst \cup {Null}]
  BY DEF PlacementInv, ControlInv, TypeOK, TaskTypes
<1> USE <1>1, <1>2, PlacesKeptByTask DEF Named, Dealing, ivars, fvars
<1>3. CASE StartTask(t)
  BY <1>3 DEF StartTask
<1>4. CASE FinishI(t)
  BY <1>4 DEF FinishI
<1>5. CASE GetDirectI(t)
  BY <1>5 DEF GetDirectI, Direct
<1>6. CASE NoDirectI(t)
  BY <1>6 DEF NoDirectI
<1>7. CASE TakeLocalI(t)
  BY <1>7, PlacesTakeLocal
<1>8. CASE NoLocalI(t)
  BY <1>8 DEF NoLocalI
<1>9. CASE GetICount(t)
  <2>1. CASE NothingPulled(t)
    BY <1>9, <2>1, PlacesReturn DEF GetICount
  <2>2. CASE tpc' = [tpc EXCEPT ![t] = "peek"] /\ UNCHANGED <<workFor, dealWith, got>>
    BY <1>9, <2>2 DEF GetICount
  <2> QED
    BY <1>9, <2>1, <2>2 DEF GetICount
<1>10. CASE PeekSize(t)
  <2>1. CASE NothingPulled(t)
    BY <1>10, <2>1, PlacesReturn DEF PeekSize
  <2>2. CASE tpc' = [tpc EXCEPT ![t] = "pull"] /\ UNCHANGED <<workFor, dealWith, got>>
    BY <1>10, <2>2 DEF PeekSize
  <2> QED
    BY <1>10, <2>1, <2>2 DEF PeekSize
<1>11. CASE PullMultiI(t)
  BY <1>11, PlacesPull
<1>12. CASE LeaveFromF(t)
  BY <1>12 DEF LeaveFromF
<1>13. CASE RemoveTFromBusy(t)
  BY <1>13 DEF RemoveTFromBusy
<1>14. CASE PutT2Idle(t)
  BY <1>14 DEF PutT2Idle
<1>15. CASE ThreadSleep(t)
  BY <1>15 DEF ThreadSleep
<1>16. CASE RunFunction(t)
  BY <1>16, PlacesRun
<1> QED
  BY <1>3, <1>4, <1>5, <1>6, <1>7, <1>8, <1>9, <1>10, <1>11, <1>12, <1>13, <1>14, <1>15, <1>16
  DEF TaskStep

(* I::make_request: a new I is in main()'s hand.                           *)
LEMMA PlacesMake ==
  ASSUME PlacementInv, NEW f \in Func, MakeRequest(f)
  PROVE  UniqueInv' /\ PlaceInv'
<1>1. PICK i \in Inst : fOf[i] = Null /\ fOf' = [fOf EXCEPT ![i] = f] /\ di' = i
  BY FreshIn DEF MakeRequest
<1>2. /\ dpc = "accept" /\ dpc' = IF Conc(f) THEN "enqueue" ELSE "getT"
      /\ UNCHANGED <<queue, local, got, dealWith, directRun, tpc, runs>>
  BY DEF MakeRequest, fvars, tvars
<1>3. fOf \in [Inst -> Func \cup {Null}] /\ f # Null
  BY NullAssumption DEF PlacementInv, ControlInv, TypeOK, InstTypes
<1>4. OnePlace(i) /\ ~Made(i) /\ runs[i] = 0
  BY <1>1 DEF PlacementInv, PlaceInv, FinishInv, Made
<1>5. PlaceInv'
  <2> SUFFICES ASSUME NEW j \in Inst PROVE OnePlace(j)'
    BY DEF PlaceInv
  <2>1. /\ HeldByMain(j)' <=> j = i
        /\ Made(j)' <=> Made(j) \/ j = i
        /\ ~HeldByMain(j)
    BY <1>1, <1>2, <1>3 DEF HeldByMain, Made, Conc
  <2>2. /\ InQueue(j)' <=> InQueue(j)
        /\ InLocal(j)' <=> InLocal(j)
        /\ InGot(j)' <=> InGot(j)
        /\ Dealt(j)' <=> Dealt(j)
    BY <1>2 DEF InQueue, InLocal, InGot, Dealt, Dealing
  <2>3. OnePlace(j)
    BY DEF PlacementInv, PlaceInv
  <2> QED
    BY <1>2, <1>4, <2>1, <2>2, <2>3 DEF OnePlace
<1>6. UniqueInv'
  BY <1>2 DEF PlacementInv, UniqueInv, Dealing
<1> QED
  BY <1>5, <1>6

(* addI2F: the I goes to the end of the queue of its F. *)
LEMMA PlacesEnqueue ==
  ASSUME PlacementInv, EnqueueI
  PROVE  UniqueInv' /\ PlaceInv'
<1> DEFINE w == fOf[di]
           q == queue[w]
<1>1. /\ dpc = "enqueue" /\ dpc' = "tryDown" /\ queue' = [queue EXCEPT ![w] = Append(q, di)]
      /\ UNCHANGED <<di, fOf, local, got, dealWith, directRun, tpc, runs>>
  BY DEF EnqueueI, ivars, tvars
<1>2. di \in Inst /\ w \in Func /\ q \in Seq(Inst)
  BY <1>1 DEF PlacementInv, ControlInv, MainInv, HoldingI, TypeOK, FuncTypes
<1>3. OnePlace(di) /\ HeldByMain(di)
  BY <1>1, <1>2 DEF PlacementInv, PlaceInv, HeldByMain
<1>4. /\ queue'[w] = Append(q, di) /\ Len(q) \in Nat
      /\ DOMAIN queue'[w] = 1..(Len(q) + 1)
      /\ \A k \in 1..Len(q) : queue'[w][k] = q[k]
      /\ queue'[w][Len(q) + 1] = di
      /\ \A f \in Func \ {w} : queue'[f] = queue[f]
      /\ DOMAIN q = 1..Len(q)
  BY <1>1, <1>2 DEF PlacementInv, ControlInv, TypeOK, FuncTypes
<1>5. \A f \in Func : \A k \in DOMAIN queue[f] : queue[f][k] # di
  BY <1>3 DEF OnePlace, InQueue
<1>6. ASSUME NEW j \in Inst PROVE InQueue(j)' <=> InQueue(j) \/ j = di
  <2>1. ASSUME InQueue(j)', j # di PROVE InQueue(j)
    <3>1. PICK f \in Func : \E k \in DOMAIN queue'[f] : queue'[f][k] = j
      BY <2>1 DEF InQueue
    <3>2. PICK k \in DOMAIN queue'[f] : queue'[f][k] = j
      BY <3>1
    <3>3. CASE f = w
      <4>1. k \in 1..Len(q) /\ q[k] = j
        BY <1>4, <2>1, <3>2, <3>3
      <4> QED
        BY <1>2, <1>4, <4>1 DEF InQueue
    <3>4. CASE f # w
      BY <1>4, <3>2, <3>4 DEF InQueue
    <3> QED
      BY <3>3, <3>4
  <2>2. ASSUME InQueue(j) PROVE InQueue(j)'
    <3>1. PICK f \in Func : \E k \in DOMAIN queue[f] : queue[f][k] = j
      BY <2>2 DEF InQueue
    <3>2. PICK k \in DOMAIN queue[f] : queue[f][k] = j
      BY <3>1
    <3>3. k \in DOMAIN queue'[f] /\ queue'[f][k] = j
      BY <1>4, <3>2
    <3> QED
      BY <3>3 DEF InQueue
  <2>3. ASSUME j = di PROVE InQueue(j)'
    <3>1. Len(q) + 1 \in DOMAIN queue'[w]
      BY <1>4
    <3> QED
      BY <1>2, <1>4, <2>3, <3>1 DEF InQueue
  <2> QED
    BY <2>1, <2>2, <2>3
<1>7. PlaceInv'
  <2> SUFFICES ASSUME NEW j \in Inst PROVE OnePlace(j)'
    BY DEF PlaceInv
  <2>1. /\ ~HeldByMain(j)'
        /\ HeldByMain(j) <=> j = di
        /\ Made(j)' <=> Made(j)
    BY <1>1 DEF HeldByMain, Made, Conc
  <2>2. /\ InLocal(j)' <=> InLocal(j)
        /\ InGot(j)' <=> InGot(j)
        /\ Dealt(j)' <=> Dealt(j)
    BY <1>1 DEF InLocal, InGot, Dealt, Dealing
  <2>3. OnePlace(j)
    BY DEF PlacementInv, PlaceInv
  <2> QED
    BY <1>1, <1>6, <2>1, <2>2, <2>3 DEF OnePlace
<1>8. UniqueInv'
  <2>1. ASSUME NEW f \in Func, NEW g \in Func, NEW k \in DOMAIN queue'[f], NEW l \in DOMAIN queue'[g],
               queue'[f][k] = queue'[g][l]
        PROVE  f = g /\ k = l
    <3>1. \A a, b \in Func : \A c \in DOMAIN queue[a], d \in DOMAIN queue[b] :
            queue[a][c] = queue[b][d] => a = b /\ c = d
      BY DEF PlacementInv, UniqueInv
    <3>2. (f = w /\ k = Len(q) + 1) \/ (k \in DOMAIN queue[f] /\ queue'[f][k] = queue[f][k])
      BY <1>4
    <3>3. (g = w /\ l = Len(q) + 1) \/ (l \in DOMAIN queue[g] /\ queue'[g][l] = queue[g][l])
      BY <1>4
    <3> QED
      BY <1>4, <1>5, <2>1, <3>1, <3>2, <3>3
  <2> QED
    BY <1>1, <2>1 DEF PlacementInv, UniqueInv, Dealing
<1> QED
  BY <1>7, <1>8

(* get_T_for_I binds T h to the F, and names it the I if the F is not      *)
(* concurrent.                                                             *)
LEMMA PlacesNamed ==
  ASSUME PlacementInv, dpc \in {"getT", "newT"}, dpc' \in {"putBusy", "create"},
         di \in Inst, fOf[di] \in Func, NEW h \in Task, NameI(h, fOf[di]), ~Dealing(h),
         tpc'[h] # "run", \A u \in Task \ {h} : tpc'[u] = tpc[u],
         UNCHANGED <<di, fOf, queue, local, got, runs>>
  PROVE  UniqueInv' /\ PlaceInv'
<1>1. dealWith \in [Task -> Inst \cup {Null}] /\ directRun \in [Task -> BOOLEAN]
  BY DEF PlacementInv, ControlInv, TypeOK, TaskTypes
<1>2. \A i \in Inst : ~HeldByMain(i)'
  BY DEF HeldByMain
<1>3. \A u \in Task \ {h} : (Dealing(u)' <=> Dealing(u)) /\ dealWith'[u] = dealWith[u]
  BY <1>1 DEF NameI, Dealing
<1>4. CASE Conc(fOf[di])
  <2>1. \A i \in Inst : ~HeldByMain(i)
    BY <1>4 DEF HeldByMain
  <2>2. UNCHANGED <<directRun, dealWith>>
    BY <1>4 DEF NameI
  <2>3. \A u \in Task : (Dealing(u)' <=> Dealing(u)) /\ dealWith'[u] = dealWith[u]
    BY <1>3, <2>2 DEF Dealing
  <2> QED
    BY <1>2, <2>1, <2>3, PlacesKept DEF PlacementInv
<1>5. CASE ~Conc(fOf[di])
  <2>1. dealWith'[h] = di /\ directRun'[h] = TRUE
    BY <1>1, <1>5 DEF NameI
  <2>2. OnePlace(di) /\ HeldByMain(di)
    BY <1>5 DEF PlacementInv, PlaceInv, HeldByMain
  <2>3. Dealing(h)'
    BY <2>1 DEF Dealing
  <2>4. PlaceInv'
    <3> SUFFICES ASSUME NEW j \in Inst PROVE OnePlace(j)'
      BY DEF PlaceInv
    <3>1. HeldByMain(j) <=> j = di
      BY <1>5 DEF HeldByMain
    <3>2. Dealt(j)' <=> Dealt(j) \/ j = di
      BY <1>3, <2>1, <2>3 DEF Dealt, Dealing
    <3>3. /\ InQueue(j)' <=> InQueue(j)
          /\ InLocal(j)' <=> InLocal(j)
          /\ InGot(j)' <=> InGot(j)
          /\ Made(j)' <=> Made(j)
      BY DEF InQueue, InLocal, InGot, Made
    <3>4. OnePlace(j)
      BY DEF PlacementInv, PlaceInv
    <3> QED
      BY <1>2, <3>1, <3>2, <3>3, <3>4 DEF OnePlace
  <2>5. UniqueInv'
    <3>1. \A u \in Task : Dealing(u) => dealWith[u] # di
      BY <2>2 DEF OnePlace, Dealt
    <3> QED
      BY <1>3, <2>1, <2>3, <3>1 DEF PlacementInv, UniqueInv, Dealing
  <2> QED
    BY <2>4, <2>5
<1> QED
  BY <1>4, <1>5

LEMMA PlacesNext == PlacementInv /\ [Next]_vars => UniqueInv' /\ PlaceInv'
<1> SUFFICES ASSUME PlacementInv, [Next]_vars PROVE UniqueInv' /\ PlaceInv'
  OBVIOUS
<1>1. ASSUME UNCHANGED <<queue, local, got, fOf, runs, dealWith, directRun>>,
             \A u \in Task : tpc'[u] = "run" <=> tpc[u] = "run",
             \A i \in Inst : HeldByMain(i)' <=> HeldByMain(i)
      PROVE  UniqueInv' /\ PlaceInv'
  <2>1. \A u \in Task : (Dealing(u)' <=> Dealing(u)) /\ dealWith'[u] = dealWith[u]
    BY <1>1 DEF Dealing
  <2> QED
    BY <1>1, <2>1, PlacesKept DEF PlacementInv, HeldByMain
<1> USE DEF dvars, ivars, fvars, tvars, Dispatched
<1>2. CASE MallocRequest
  BY <1>1, <1>2 DEF MallocRequest, HeldByMain
<1>3. CASE AcceptFails
  BY <1>1, <1>3 DEF AcceptFails, HeldByMain
<1>4. CASE EnqueueI
  BY <1>4, PlacesEnqueue
<1>5. CASE TryScaleDownCap
  BY <1>1, <1>5 DEF TryScaleDownCap, HeldByMain
<1>6. CASE ScaleUpCap
  <2>1. Conc(fOf[di])
    BY <1>6 DEF ScaleUpCap, PlacementInv, DirectInv
  <2> QED
    BY <1>1, <1>6, <2>1 DEF ScaleUpCap, HeldByMain, Conc
<1>7. CASE GetIdleT
  <2>1. PICK h \in Task, r \in Res : Finds(h, r)
    BY <1>7, IdleFacts DEF PlacementInv
  <2>2. di \in Inst /\ fOf[di] \in Func
    BY <1>7, IdleFacts DEF PlacementInv
  <2>3. ~Dealing(h)
    BY <2>1 DEF PlacementInv, DirectInv, Named, Finds, Dealing
  <2> QED
    BY <1>7, <2>1, <2>2, <2>3, PlacesNamed DEF GetIdleT, Finds
<1>8. CASE NoIdleT
  BY <1>1, <1>8 DEF NoIdleT, HeldByMain, Conc
<1>9. CASE PutIdleT2Busy
  BY <1>1, <1>9 DEF PutIdleT2Busy, HeldByMain
<1>10. CASE ThreadWakeUpOne
  BY <1>1, <1>10 DEF ThreadWakeUpOne, HeldByMain
<1>11. CASE NewT
  <2>1. PICK n \in Task : Creates(n)
    BY <1>11, NewFacts DEF PlacementInv
  <2>2. di \in Inst /\ fOf[di] \in Func
    BY <1>11, NewFacts DEF PlacementInv
  <2>3. ~Dealing(n)
    BY <2>1 DEF PlacementInv, DirectInv, Named, Creates, Dealing
  <2>4. tpc'[n] # "run" /\ \A u \in Task \ {n} : tpc'[u] = tpc[u]
    BY <2>1 DEF Creates, PlacementInv, ControlInv, TypeOK, TaskTypes
  <2> QED
    BY <1>11, <2>1, <2>2, <2>3, <2>4, PlacesNamed DEF NewT, Creates
<1>12. CASE PthreadCreate
  <2>1. dt \in Task /\ tpc[dt] = "created" /\ tpc' = [tpc EXCEPT ![dt] = "top"]
    BY <1>12 DEF PthreadCreate, PlacementInv, ControlInv, MainInv, HoldingT
  <2>2. \A u \in Task : tpc'[u] = "run" <=> tpc[u] = "run"
    BY <2>1 DEF PlacementInv, ControlInv, TypeOK, TaskTypes
  <2> QED
    BY <1>1, <1>12, <2>2 DEF PthreadCreate, HeldByMain
<1>13. CASE PthreadCreateFails
  BY <1>1, <1>13 DEF PthreadCreateFails, HeldByMain
<1>14. ASSUME NEW f \in Func, MakeRequest(f) PROVE UniqueInv' /\ PlaceInv'
  BY <1>14, PlacesMake
<1>15. ASSUME NEW t \in Task, TaskStep(t) PROVE UniqueInv' /\ PlaceInv'
  BY <1>15, PlacesOfTaskStep
<1>16. CASE UNCHANGED vars
  BY <1>1, <1>16 DEF vars, HeldByMain, Conc
<1> QED
  BY <1>2, <1>3, <1>4, <1>5, <1>6, <1>7, <1>8, <1>9, <1>10, <1>11, <1>12, <1>13, <1>14, <1>15,
  <1>16 DEF Next, DispatchStep, Accept, Stopped

-----------------------------------------------------------------------------
LEMMA RequestInvNext == PlacementInv /\ [Next]_vars => RequestInv'
<1> SUFFICES ASSUME PlacementInv, [Next]_vars PROVE RequestInv'
  OBVIOUS
<1> USE DEF dvars, ivars
<1>1. ASSUME UNCHANGED <<fOf, req, runs, reqs, da>>, dpc' = "accept" => dpc = "accept"
      PROVE  RequestInv'
  BY <1>1 DEF PlacementInv, RequestInv, Made
<1>2. CASE MallocRequest
  <2>1. reqs \subseteq Addr
    BY DEF PlacementInv, ControlInv, TypeOK, InstTypes
  <2>2. PICK a \in Addr \ reqs : da' = a /\ reqs' = reqs \cup {a}
    <3>1. Addr \ reqs # {}
      BY <1>2, <2>1 DEF MallocRequest
    <3>2. Fresh(Addr \ reqs) \in Addr \ reqs
      BY <3>1, FreshIn
    <3> QED
      BY <1>2, <3>2 DEF MallocRequest
  <2>3. UNCHANGED <<fOf, req, runs>>
    BY <1>2 DEF MallocRequest
  <2> QED
    BY <2>2, <2>3 DEF PlacementInv, RequestInv, Made
<1>3. CASE AcceptFails
  <2>1. /\ dpc = "accept" /\ dpc' = "exited" /\ reqs' = reqs \ {da}
        /\ UNCHANGED <<fOf, req, runs>>
    BY <1>3 DEF AcceptFails
  <2> QED
    BY <2>1 DEF PlacementInv, RequestInv, Made
<1>4. ASSUME NEW f \in Func, MakeRequest(f) PROVE RequestInv'
  <2>1. PICK i \in Inst : fOf[i] = Null /\ fOf' = [fOf EXCEPT ![i] = f] /\ req' = [req EXCEPT ![i] = da]
    BY <1>4, FreshIn DEF MakeRequest
  <2>2. dpc = "accept" /\ dpc' # "accept" /\ UNCHANGED <<runs, reqs>>
    BY <1>4 DEF MakeRequest
  <2>3. fOf \in [Inst -> Func \cup {Null}] /\ req \in [Inst -> Addr \cup {Null}]
    BY DEF PlacementInv, ControlInv, TypeOK, InstTypes
  <2>4. \A j \in Inst \ {i} : (Made(j)' <=> Made(j)) /\ req'[j] = req[j]
    BY <2>1, <2>3 DEF Made
  <2>5. req'[i] = da /\ da \in reqs
    BY <2>1, <2>2, <2>3 DEF PlacementInv, RequestInv
  <2> QED
    BY <2>2, <2>4, <2>5 DEF PlacementInv, RequestInv, Made
<1>5. ASSUME NEW t \in Task, RunFunction(t) PROVE RequestInv'
  <2> DEFINE d == dealWith[t]
  <2>1. /\ runs' = [runs EXCEPT ![d] = @ + 1] /\ tpc[t] = "run"
        /\ reqs' \in {reqs, reqs \ {req[d]}}
        /\ UNCHANGED <<fOf, req, dpc, da>>
    BY <1>5 DEF RunFunction
  <2>2. d \in Inst /\ Dealt(d)
    BY <2>1 DEF PlacementInv, DirectInv, Owned, Dealing, Dealt
  <2>3. Made(d) /\ runs[d] = 0
    BY <2>2 DEF PlacementInv, PlaceInv, OnePlace
  <2>4. runs'[d] = 1 /\ \A j \in Inst \ {d} : runs'[j] = runs[j]
    BY <2>1, <2>2, <2>3 DEF PlacementInv, ControlInv, TypeOK, InstTypes
  <2>5. \A j \in Inst : Made(j) /\ runs'[j] = 0 => j # d /\ req[j] # req[d] /\ runs[j] = 0
    BY <2>2, <2>3, <2>4 DEF PlacementInv, RequestInv
  <2>6. dpc = "accept" => da \in reqs /\ da # req[d]
    BY <2>2, <2>3 DEF PlacementInv, RequestInv
  <2> QED
    BY <2>1, <2>5, <2>6 DEF PlacementInv, RequestInv, Made
<1>6. ASSUME NEW t \in Task, TaskStep(t) PROVE RequestInv'
  <2>1. req' = req /\ (RunFunction(t) \/ UNCHANGED <<runs, reqs>>)
    BY <1>6 DEF TaskStep, RunFunction, StartTask, FinishI, GetDirectI, NoDirectI, TakeLocalI, NoLocalI, GetICount,
                PeekSize, PullMultiI, LeaveFromF, RemoveTFromBusy, PutT2Idle, ThreadSleep
  <2>2. CASE UNCHANGED <<runs, reqs>>
    BY <1>1, <1>6, <2>1, <2>2, TaskStepLocal DEF PlacementInv, ControlInv
  <2>3. CASE RunFunction(t)
    BY <1>5, <2>3
  <2> QED
    BY <2>1, <2>2, <2>3
<1> QED
  BY <1>1, <1>2, <1>3, <1>4, <1>6
  DEF Next, DispatchStep, Accept, Stopped, vars, Dispatched, EnqueueI, TryScaleDownCap, ScaleUpCap,
  GetIdleT, NoIdleT, PutIdleT2Busy, ThreadWakeUpOne, NewT, PthreadCreate, PthreadCreateFails

(* What a step of T t does to the Is that ran. *)
LEMMA FinishOfTask ==
  ASSUME PlacementInv, NEW t \in Task, TaskStep(t)
  PROVE  \/ /\ UNCHANGED <<runs, frees>> /\ ~Finishing(t) /\ ~Finishing(t)'
         \/ /\ Finishing(t) /\ ~Finishing(t)' /\ runs' = runs
            /\ frees' = [frees EXCEPT ![dealWith[t]] = @ + 1]
         \/ /\ Dealing(t) /\ ~Finishing(t) /\ Finishing(t)' /\ frees' = frees
            /\ dealWith'[t] = dealWith[t]
            /\ runs' = [runs EXCEPT ![dealWith[t]] = @ + 1]
<1>1. Named(t) /\ Owned(t)
  BY DEF PlacementInv, DirectInv
<1>2. /\ tpc \in [Task -> TaskPc] /\ directRun \in [Task -> BOOLEAN]
      /\ dealWith \in [Task -> Inst \cup {Null}]
  BY DEF PlacementInv, ControlInv, TypeOK, TaskTypes
<1> USE <1>1, <1>2, NullAssumption DEF Finishing, ivars
<1>3. CASE StartTask(t)
  BY <1>3 DEF StartTask
<1>4. CASE FinishI(t)
  BY <1>4 DEF FinishI
<1>5. CASE GetDirectI(t)
  BY <1>5 DEF GetDirectI
<1>6. CASE NoDirectI(t)
  BY <1>6 DEF NoDirectI
<1>7. CASE TakeLocalI(t)
  BY <1>7 DEF TakeLocalI, Return
<1>8. CASE NoLocalI(t)
  BY <1>8 DEF NoLocalI
<1>9. CASE GetICount(t)
  BY <1>9 DEF GetICount, NothingPulled, Return
<1>10. CASE PeekSize(t)
  BY <1>10 DEF PeekSize, NothingPulled, Return
<1>11. CASE PullMultiI(t)
  BY <1>11 DEF PullMultiI, NothingPulled, Return
<1>12. CASE LeaveFromF(t)
  BY <1>12 DEF LeaveFromF
<1>13. CASE RemoveTFromBusy(t)
  BY <1>13 DEF RemoveTFromBusy
<1>14. CASE PutT2Idle(t)
  BY <1>14 DEF PutT2Idle
<1>15. CASE ThreadSleep(t)
  BY <1>15 DEF ThreadSleep
<1>16. CASE RunFunction(t)
  BY <1>16 DEF RunFunction, Dealing, Named, Owned
<1> QED
  BY <1>3, <1>4, <1>5, <1>6, <1>7, <1>8, <1>9, <1>10, <1>11, <1>12, <1>13, <1>14, <1>15, <1>16
  DEF TaskStep

LEMMA FinishKept ==
  ASSUME PlacementInv, UNCHANGED <<runs, frees>>,
         \A i \in Inst : Made(i) => Made(i)',
         \A u \in Task : Finishing(u)' <=> Finishing(u),
         \A u \in Task : Finishing(u) => dealWith'[u] = dealWith[u]
  PROVE  FinishInv'
<1>1. \A i \in Inst : \A u \in Task : Finishes(u, i)' <=> Finishes(u, i)
  BY NullAssumption DEF Finishes, Finishing
<1> QED
  BY <1>1 DEF PlacementInv, FinishInv, Made, Finishing, Finishes

LEMMA FinishByTask ==
  ASSUME PlacementInv, NEW t \in Task, TaskStep(t)
  PROVE  FinishInv'
<1> DEFINE d == dealWith[t]
<1>1. \A u \in Task \ {t} : (Finishing(u)' <=> Finishing(u)) /\ dealWith'[u] = dealWith[u]
  BY TaskFrame DEF PlacementInv, Finishing
<1>2. \A i \in Inst : Made(i)' <=> Made(i)
  BY PlacesOfTask
<1>3. /\ runs \in [Inst -> Nat] /\ frees \in [Inst -> Nat]
      /\ dealWith \in [Task -> Inst \cup {Null}] 
  BY DEF PlacementInv, ControlInv, TypeOK, InstTypes, TaskTypes
<1>4. \A i \in Inst, u \in Task : Finishes(u, i) <=> Finishing(u) /\ dealWith[u] = i
  BY NullAssumption DEF Finishes, Finishing
<1>5. \A i \in Inst, u \in Task : Finishes(u, i)' <=> Finishing(u)' /\ dealWith'[u] = i
  BY NullAssumption DEF Finishes, Finishing
<1>6. CASE UNCHANGED <<runs, frees>> /\ ~Finishing(t) /\ ~Finishing(t)'
  BY <1>1, <1>2, <1>6, FinishKept DEF Finishing
<1>7. CASE /\ Finishing(t) /\ ~Finishing(t)' /\ runs' = runs
           /\ frees' = [frees EXCEPT ![d] = @ + 1]
  <2>1. d \in Inst /\ runs[d] = 1 /\ frees[d] = 0
    <3>1. d \in Inst /\ Finishes(t, d)
      BY <1>3, <1>4, <1>7 DEF Finishing
    <3> QED
      BY <3>1 DEF PlacementInv, FinishInv
  <2>2. \A u \in Task \ {t} : Finishing(u) => dealWith[u] # d
    BY <1>7 DEF PlacementInv, FinishInv
  <2>3. frees'[d] = 1 /\ \A j \in Inst \ {d} : frees'[j] = frees[j]
    BY <1>3, <1>7, <2>1
  <2>4. ASSUME NEW i \in Inst PROVE runs'[i] # frees'[i] <=> \E u \in Task : Finishes(u, i)'
    <3>1. CASE i = d
      BY <1>1, <1>5, <1>7, <2>1, <2>2, <2>3, <3>1
    <3>2. CASE i # d
      <4>1. (\E u \in Task : Finishes(u, i)') <=> \E u \in Task : Finishes(u, i)
        BY <1>1, <1>4, <1>5, <1>7, <3>2
      <4> QED
        BY <1>7, <2>3, <3>2, <4>1 DEF PlacementInv, FinishInv
    <3> QED
      BY <3>1, <3>2
  <2>5. \A i \in Inst : runs'[i] \in {0, 1} /\ frees'[i] \in 0..runs'[i]
    BY <1>7, <2>1, <2>3 DEF PlacementInv, FinishInv
  <2>6. \A i \in Inst : runs'[i] # 0 => Made(i)'
    BY <1>2, <1>7 DEF PlacementInv, FinishInv
  <2>7. \A u, v \in Task : Finishing(u)' /\ Finishing(v)' /\ dealWith'[u] = dealWith'[v] => u = v
    BY <1>1, <1>7 DEF PlacementInv, FinishInv
  <2> QED
    BY <2>4, <2>5, <2>6, <2>7 DEF FinishInv, Made, Finishing, Finishes
<1>8. CASE /\ Dealing(t) /\ ~Finishing(t) /\ Finishing(t)' /\ frees' = frees
           /\ dealWith'[t] = dealWith[t]
           /\ runs' = [runs EXCEPT ![d] = @ + 1]
  <2>1. d \in Inst /\ Dealt(d)
    BY <1>8 DEF PlacementInv, DirectInv, Owned, Dealt
  <2>2. runs[d] = 0 /\ frees[d] = 0 /\ Made(d)
    BY <2>1 DEF PlacementInv, PlaceInv, OnePlace, FinishInv
  <2>3. runs'[d] = 1 /\ \A j \in Inst \ {d} : runs'[j] = runs[j]
    BY <1>3, <1>8, <2>1, <2>2
  <2>4. \A u \in Task : Finishing(u) => dealWith[u] # d
    BY <1>4, <2>1, <2>2 DEF PlacementInv, FinishInv
  <2>5. ASSUME NEW i \in Inst PROVE runs'[i] # frees'[i] <=> \E u \in Task : Finishes(u, i)'
    <3>1. CASE i = d
      BY <1>5, <1>8, <2>2, <2>3, <3>1
    <3>2. CASE i # d
      <4>1. (\E u \in Task : Finishes(u, i)') <=> \E u \in Task : Finishes(u, i)
        BY <1>1, <1>4, <1>5, <1>8, <3>2
      <4> QED
        BY <1>8, <2>3, <3>2, <4>1 DEF PlacementInv, FinishInv
    <3> QED
      BY <3>1, <3>2
  <2>6. \A i \in Inst : runs'[i] \in {0, 1} /\ frees'[i] \in 0..runs'[i]
    BY <1>8, <2>2, <2>3 DEF PlacementInv, FinishInv
  <2>7. \A i \in Inst : runs'[i] # 0 => Made(i)'
    BY <1>2, <2>2, <2>3 DEF PlacementInv, FinishInv
  <2>8. \A u, v \in Task : Finishing(u)' /\ Finishing(v)' /\ dealWith'[u] = dealWith'[v] => u = v
    BY <1>1, <1>8, <2>4 DEF PlacementInv, FinishInv
  <2> QED
    BY <2>5, <2>6, <2>7, <2>8 DEF FinishInv, Made, Finishing, Finishes
<1> QED
  BY <1>6, <1>7, <1>8, FinishOfTask

LEMMA FinishInvNext == PlacementInv /\ [Next]_vars => FinishInv'
<1> SUFFICES ASSUME PlacementInv, [Next]_vars PROVE FinishInv'
  OBVIOUS
<1>1. /\ tpc \in [Task -> TaskPc] /\ directRun \in [Task -> BOOLEAN]
      /\ dealWith \in [Task -> Inst \cup {Null}]
  BY DEF PlacementInv, ControlInv, TypeOK, TaskTypes
<1> USE DEF dvars, ivars, tvars
<1>2. ASSUME UNCHANGED <<fOf, runs, frees, tpc, directRun, dealWith>> PROVE FinishInv'
  BY <1>2, FinishKept DEF Finishing, Made
<1>3. ASSUME NEW h \in Task, tpc[h] # "top", tpc'[h] # "top", UNCHANGED <<fOf, runs, frees>>,
             \A u \in Task \ {h} : UNCHANGED <<tpc[u], directRun[u], dealWith[u]>>
      PROVE  FinishInv'
  <2>1. \A u \in Task : Finishing(u)' <=> Finishing(u)
    BY <1>3 DEF Finishing
  <2>2. \A u \in Task : Finishing(u) => dealWith'[u] = dealWith[u]
    BY <1>3 DEF Finishing
  <2> QED
    BY <1>3, <2>1, <2>2, FinishKept DEF Finishing, Made
<1>4. CASE GetIdleT
  <2>1. PICK h \in Task, r \in Res : Finds(h, r)
    BY <1>4, IdleFacts DEF PlacementInv
  <2>2. \A u \in Task \ {h} : UNCHANGED <<tpc[u], directRun[u], dealWith[u]>>
    BY <1>1, <1>4, <2>1 DEF GetIdleT, Finds, NameI
  <2> QED
    BY <1>3, <1>4, <2>1, <2>2 DEF GetIdleT, Finds
<1>5. CASE NewT
  <2>1. PICK n \in Task : Creates(n)
    BY <1>5, NewFacts DEF PlacementInv
  <2>2. tpc'[n] = "created" /\ \A u \in Task \ {n} : UNCHANGED <<tpc[u], directRun[u], dealWith[u]>>
    BY <1>1, <2>1 DEF Creates, NameI
  <2> QED
    BY <1>3, <1>5, <2>1, <2>2 DEF NewT, Creates
<1>6. CASE PthreadCreate
  <2>1. dt \in Task /\ tpc[dt] = "created" /\ tpc' = [tpc EXCEPT ![dt] = "top"]
    BY <1>6 DEF PthreadCreate, PlacementInv, ControlInv, MainInv, HoldingT
  <2>2. directRun[dt] \/ dealWith[dt] = Null
    BY <2>1 DEF PlacementInv, DirectInv, Owned
  <2>3. UNCHANGED <<fOf, runs, frees, dealWith, directRun>>
    BY <1>6 DEF PthreadCreate
  <2>4. \A u \in Task : Finishing(u)' <=> Finishing(u)
    BY <1>1, <2>1, <2>2, <2>3 DEF Finishing
  <2> QED
    BY <2>3, <2>4, FinishKept DEF Finishing, Made
<1>7. ASSUME NEW f \in Func, MakeRequest(f) PROVE FinishInv'
  <2>1. PICK i \in Inst : fOf[i] = Null /\ fOf' = [fOf EXCEPT ![i] = f]
    BY <1>7, FreshIn DEF MakeRequest
  <2>2. \A j \in Inst : Made(j) => Made(j)'
    BY <2>1 DEF Made, PlacementInv, ControlInv, TypeOK, InstTypes
  <2>3. UNCHANGED <<runs, frees, dealWith, directRun, tpc>>
    BY <1>7 DEF MakeRequest
  <2> QED
    BY <2>2, <2>3, FinishKept DEF Finishing, Made
<1>8. ASSUME NEW t \in Task, TaskStep(t) PROVE FinishInv'
  BY <1>8, FinishByTask
<1> QED
  BY <1>2, <1>4, <1>5, <1>6, <1>7, <1>8
  DEF Next, DispatchStep, Accept, Stopped, vars, MallocRequest, AcceptFails, EnqueueI, TryScaleDownCap,
  ScaleUpCap, NoIdleT, PutIdleT2Busy, ThreadWakeUpOne, PthreadCreateFails

-----------------------------------------------------------------------------
LEMMA PlacementInit == Init => PlacementInv
<1> SUFFICES ASSUME Init PROVE PlacementInv
  OBVIOUS
<1>1. ControlInv
  BY ControlInit
<1>2. DirectInv
  BY DEF Init, DirectInv, Named, Owned, Unemployed, Dealing, Finishing
<1>3. RequestInv
  BY DEF Init, RequestInv, Made
<1>4. UniqueInv
  BY DEF Init, UniqueInv, Dealing
<1>5. PlaceInv
  BY NullAssumption DEF Init, PlaceInv, OnePlace, HeldByMain, InQueue, InLocal, InGot, Dealt, Dealing, Made
<1>6. FinishInv
  BY DEF Init, FinishInv, Finishing, Finishes
<1> QED
  BY <1>1, <1>2, <1>3, <1>4, <1>5, <1>6 DEF PlacementInv

LEMMA PlacementNext == PlacementInv /\ [Next]_vars => PlacementInv'
  BY ControlNext, DirectInvNext, RequestInvNext, PlacesNext, FinishInvNext DEF PlacementInv

(* The placement invariant: where every I that did not run yet is, and who *)
(* will delete one that ran, whoever runs in between.  (addI2F,            *)
(* get_T_for_I, tryGetMultiI, addMultiI, getInstance, task_done)           *)
THEOREM PlacementInvariant == Spec => []PlacementInv
<1>1. Init => PlacementInv
  BY PlacementInit
<1>2. PlacementInv /\ [Next]_vars => PlacementInv'
  BY PlacementNext
<1> QED
  BY <1>1, <1>2, PTL DEF Spec

LEMMA OneElement ==
  ASSUME NEW S, NEW x \in S, \A y \in S : y = x
  PROVE  Cardinality(S) = 1
<1>1. S = {x}
  OBVIOUS
<1> QED
  BY <1>1, FS_Singleton

(* The places of an I as the property counts them. *)
LEMMA WaitingCases ==
  ASSUME NEW i \in Inst, NEW p
  PROVE  p \in Waiting(i) <=>
           \/ HeldByMain(i) /\ p = <<"main", Null, 0>>
           \/ \E f \in Func : \E k \in DOMAIN queue[f] : queue[f][k] = i /\ p = <<"queue", f, k>>
           \/ \E t \in Task : i \in local[t] /\ p = <<"local", t, 0>>
           \/ \E t \in Task : got[t] = i /\ p = <<"got", t, 0>>
           \/ \E t \in Task : Deals(t, i) /\ p = <<"deal", t, 0>>
<1> DEFINE M == IF HeldByMain(i) THEN {<<"main", Null, 0>>} ELSE {}
           Q == UNION {{"queue"} \X {f} \X Queued(f, i) : f \in Func}
           L == {"local"} \X {t \in Task : i \in local[t]} \X {0}
           G == {"got"} \X {t \in Task : got[t] = i} \X {0}
           D == {"deal"} \X {t \in Task : Deals(t, i)} \X {0}
<1>1. p \in M <=> HeldByMain(i) /\ p = <<"main", Null, 0>>
  OBVIOUS
<1>2. p \in Q <=> \E f \in Func : \E k \in DOMAIN queue[f] : queue[f][k] = i /\ p = <<"queue", f, k>>
  BY DEF Queued
<1>3. p \in L <=> \E t \in Task : i \in local[t] /\ p = <<"local", t, 0>>
  OBVIOUS
<1>4. p \in G <=> \E t \in Task : got[t] = i /\ p = <<"got", t, 0>>
  OBVIOUS
<1>5. p \in D <=> \E t \in Task : Deals(t, i) /\ p = <<"deal", t, 0>>
  OBVIOUS
<1>6. Waiting(i) = M \cup Q \cup L \cup G \cup D
  BY DEF Waiting
<1> HIDE DEF M, Q, L, G, D
<1> QED
  BY <1>1, <1>2, <1>3, <1>4, <1>5, <1>6

LEMMA WaitingOnce ==
  ASSUME PlacementInv, NEW i \in Inst
  PROVE  Cardinality(Waiting(i)) = IF Made(i) /\ runs[i] = 0 THEN 1 ELSE 0
<1>1. OnePlace(i)
  BY DEF PlacementInv, PlaceInv
<1>2. \A t \in Task : Deals(t, i) <=> dealWith[t] = i /\ Dealing(t)
  BY DEF Deals, Dealing
<1>3. CASE ~(Made(i) /\ runs[i] = 0)
  <2>1. \A p : p \notin Waiting(i)
    BY <1>1, <1>2, <1>3, WaitingCases DEF OnePlace, InQueue, InLocal, InGot, Dealt
  <2>2. Waiting(i) = {}
    BY <2>1
  <2> QED
    BY <1>3, <2>2, FS_EmptySet
<1>4. CASE Made(i) /\ runs[i] = 0
  <2>1. CASE HeldByMain(i)
    <3> DEFINE x == <<"main", Null, 0>>
    <3>1. x \in Waiting(i) /\ \A y \in Waiting(i) : y = x
      BY <1>1, <1>2, <2>1, WaitingCases DEF OnePlace, InQueue, InLocal, InGot, Dealt
    <3> QED
      BY <1>4, <3>1, OneElement
  <2>2. CASE InQueue(i)
    <3>1. PICK f \in Func : \E k \in DOMAIN queue[f] : queue[f][k] = i
      BY <2>2 DEF InQueue
    <3>2. PICK k \in DOMAIN queue[f] : queue[f][k] = i
      BY <3>1
    <3> DEFINE x == <<"queue", f, k>>
    <3>3. \A g \in Func : \A l \in DOMAIN queue[g] : queue[g][l] = i => g = f /\ l = k
      BY <3>2 DEF PlacementInv, UniqueInv
    <3>4. x \in Waiting(i) /\ \A y \in Waiting(i) : y = x
      BY <1>1, <1>2, <2>2, <3>2, <3>3, WaitingCases DEF OnePlace, InLocal, InGot, Dealt
    <3> QED
      BY <1>4, <3>4, OneElement
  <2>3. CASE InLocal(i)
    <3>1. PICK t \in Task : i \in local[t]
      BY <2>3 DEF InLocal
    <3> DEFINE x == <<"local", t, 0>>
    <3>2. \A u \in Task : i \in local[u] => u = t
      BY <3>1 DEF PlacementInv, UniqueInv
    <3>3. x \in Waiting(i) /\ \A y \in Waiting(i) : y = x
      BY <1>1, <1>2, <2>3, <3>1, <3>2, WaitingCases DEF OnePlace, InQueue, InGot, Dealt
    <3> QED
      BY <1>4, <3>3, OneElement
  <2>4. CASE InGot(i)
    <3>1. PICK t \in Task : got[t] = i
      BY <2>4 DEF InGot
    <3> DEFINE x == <<"got", t, 0>>
    <3>2. \A u \in Task : got[u] = i => u = t
      BY <3>1, NullAssumption DEF PlacementInv, UniqueInv
    <3>3. x \in Waiting(i) /\ \A y \in Waiting(i) : y = x
      BY <1>1, <1>2, <2>4, <3>1, <3>2, WaitingCases DEF OnePlace, InQueue, InLocal, Dealt
    <3> QED
      BY <1>4, <3>3, OneElement
  <2>5. CASE Dealt(i)
    <3>1. PICK t \in Task : dealWith[t] = i /\ Dealing(t)
      BY <2>5 DEF Dealt
    <3> DEFINE x == <<"deal", t, 0>>
    <3>2. \A u \in Task : dealWith[u] = i /\ Dealing(u) => u = t
      BY <3>1 DEF PlacementInv, UniqueInv
    <3>3. x \in Waiting(i) /\ \A y \in Waiting(i) : y = x
      BY <1>1, <1>2, <2>5, <3>1, <3>2, WaitingCases DEF OnePlace, InQueue, InLocal, InGot
    <3> QED
      BY <1>4, <3>3, OneElement
  <2> QED
    BY <1>1, <1>4, <2>1, <2>2, <2>3, <2>4, <2>5 DEF OnePlace
<1> QED
  BY <1>3, <1>4

LEMMA FinishingOnce ==
  ASSUME PlacementInv, NEW i \in Inst
  PROVE  Cardinality({t \in Task : Finishes(t, i)}) = runs[i] - frees[i]
<1> DEFINE S == {t \in Task : Finishes(t, i)}
<1>1. runs[i] \in {0, 1} /\ frees[i] \in 0..runs[i]
      /\ (runs[i] # frees[i] <=> \E t \in Task : Finishes(t, i))
  BY DEF PlacementInv, FinishInv
<1>2. CASE runs[i] = frees[i]
  <2>1. S = {}
    BY <1>1, <1>2
  <2> QED
    BY <1>1, <1>2, <2>1, FS_EmptySet
<1>3. CASE runs[i] # frees[i]
  <2>1. PICK t \in Task : Finishes(t, i)
    BY <1>1, <1>3
  <2>2. t \in S /\ \A u \in S : u = t
    BY <2>1, NullAssumption DEF PlacementInv, FinishInv, Finishing, Finishes
  <2>3. Cardinality(S) = 1
    BY <2>2, OneElement
  <2>4. runs[i] - frees[i] = 1
    BY <1>1, <1>3
  <2> QED
    BY <2>3, <2>4
<1> QED
  BY <1>2, <1>3

(* No I is lost, duplicated or run twice, for any number of Is, Ts and Fs: *)
(* between addI2F, tryGetMultiI, addMultiI, getInstance and task_done it   *)
(* is in one place until it runs, and one T deletes it after that.         *)
THEOREM NoInstanceLost == Spec => []PlacedOnce
<1>1. PlacementInv => PlacedOnce
  <2> SUFFICES ASSUME PlacementInv, NEW i \in Inst
               PROVE  /\ Cardinality(Waiting(i)) = IF Made(i) /\ runs[i] = 0 THEN 1 ELSE 0
                      /\ runs[i] \in {0, 1}
                      /\ Cardinality({t \in Task : Finishes(t, i)}) = runs[i] - frees[i]
                      /\ \A f \in Func : Queued(f, i) # {} => fOf[i] = f
    BY DEF PlacedOnce, IdleHoldsNothing, PlacementInv, ControlInv, HoldInv
  <2>1. \A f \in Func : Queued(f, i) # {} => fOf[i] = f
    BY DEF PlacementInv, ControlInv, HoldInv, Queued
  <2>2. runs[i] \in {0, 1}
    BY DEF PlacementInv, FinishInv
  <2> QED
    BY <2>1, <2>2, WaitingOnce, FinishingOnce
<1> QED
  BY <1>1, PlacementInvariant, PTL

-----------------------------------------------------------------------------
(* Every step of RFIT is a step of the service it implements, or a stutter.*)
LEMMA ServiceStep ==
  ASSUME PlacementInv, [Next]_vars
  PROVE  [Service!ServiceNext]_Service!svars
<1>1. /\ runs \in [Inst -> Nat] /\ frees \in [Inst -> Nat]
      /\ dealWith \in [Task -> Inst \cup {Null}]
  BY DEF PlacementInv, ControlInv, TypeOK, InstTypes, TaskTypes
<1>2. ASSUME NEW f \in Func, MakeRequest(f) PROVE Service!ServiceNext
  <2>1. PICK i \in Inst : fOf[i] = Null /\ fOf' = [fOf EXCEPT ![i] = f]
    BY <1>2, FreshIn DEF MakeRequest
  <2>2. UNCHANGED <<runs, frees>>
    BY <1>2 DEF MakeRequest
  <2>3. Service!Submit(i, f)
    BY <2>1, <2>2 DEF Service!Submit
  <2> QED
    BY <2>3 DEF Service!ServiceNext
<1>3. ASSUME NEW t \in Task, TaskStep(t) PROVE [Service!ServiceNext]_Service!svars
  <2> DEFINE d == dealWith[t]
  <2>1. fOf' = fOf
    BY <1>3, TaskStepLocal DEF PlacementInv, ControlInv
  <2>2. CASE UNCHANGED <<runs, frees>>
    BY <2>1, <2>2 DEF Service!svars
  <2>3. CASE Finishing(t) /\ runs' = runs /\ frees' = [frees EXCEPT ![d] = @ + 1]
    <3>1. d \in Inst /\ Finishes(t, d)
      BY <1>1, <2>3 DEF Finishing, Finishes
    <3>2. runs[d] = 1 /\ frees[d] = 0
      BY <3>1 DEF PlacementInv, FinishInv
    <3>3. Service!Delete(d)
      BY <2>1, <2>3, <3>2 DEF Service!Delete
    <3> QED
      BY <3>1, <3>3 DEF Service!ServiceNext
  <2>4. CASE Dealing(t) /\ frees' = frees /\ runs' = [runs EXCEPT ![d] = @ + 1]
    <3>1. d \in Inst /\ Dealt(d)
      BY <2>4 DEF PlacementInv, DirectInv, Owned, Dealt
    <3>2. runs[d] = 0 /\ fOf[d] # Null
      BY <3>1 DEF PlacementInv, PlaceInv, OnePlace, Made
    <3>3. Service!Serve(d)
      BY <2>1, <2>4, <3>2 DEF Service!Serve
    <3> QED
      BY <3>1, <3>3 DEF Service!ServiceNext
  <2> QED
    BY <1>3, <2>2, <2>3, <2>4, FinishOfTask
<1>4. CASE UNCHANGED <<fOf, runs, frees>>
  BY <1>4 DEF Service!svars
<1> QED
  BY <1>2, <1>3, <1>4
  DEF Next, DispatchStep, Accept, Stopped, vars, ivars, MallocRequest, AcceptFails, EnqueueI,
  TryScaleDownCap, ScaleUpCap, GetIdleT, NoIdleT, PutIdleT2Busy, ThreadWakeUpOne, NewT,
  PthreadCreate, PthreadCreateFails

(* RFIT implements the service, for every set of Is, Ts, Fs and Rs: a      *)
(* request is handed to its function at most once, and its I deleted at    *)
(* most once, after that.  (I::make_request, task_done)                    *)
THEOREM ServiceImplemented == Spec => ImplementsService
<1>1. Init => Service!ServiceInit
  BY DEF Init, Service!ServiceInit
<1>2. PlacementInv /\ [Next]_vars => [Service!ServiceNext]_Service!svars
  BY ServiceStep
<1> QED
  BY <1>1, <1>2, PlacementInvariant, PTL DEF Spec, ImplementsService, Service!ServiceSpec


-----------------------------------------------------------------------------
(* restCap.                                                                *)
Accounted(f) ==
  cap[f] = cap0[f] + Limit[f] * (Cardinality(Attached(f)) + Owed(f))
                   - Cardinality(Live(f)) + Uncharged(f)

LEMMA CapFacts ==
  ASSUME PlacementInv, NEW f \in Func
  PROVE  /\ Limit[f] \in Nat /\ cap[f] \in Int /\ cap0[f] \in Int
         /\ IsFiniteSet(Attached(f)) /\ Cardinality(Attached(f)) \in Nat
         /\ IsFiniteSet(Live(f)) /\ Cardinality(Live(f)) \in Nat
         /\ Owed(f) \in {0, 1} /\ Uncharged(f) \in {0, 1}
<1>1. Limit[f] \in Nat /\ cap[f] \in Int /\ cap0[f] \in Int
  BY FuncAssumption DEF PlacementInv, ControlInv, TypeOK, FuncTypes
<1>2. IsFiniteSet(Attached(f)) /\ Cardinality(Attached(f)) \in Nat
  <2>1. Attached(f) \subseteq Task
    BY DEF Attached
  <2> QED
    BY <2>1, FiniteAssumption, FS_Subset, FS_CardinalityType
<1>3. IsFiniteSet(Live(f)) /\ Cardinality(Live(f)) \in Nat
  <2>1. Live(f) \subseteq Inst
    BY DEF Live
  <2> QED
    BY <2>1, FiniteAssumption, FS_Subset, FS_CardinalityType
<1>4. Owed(f) \in {0, 1} /\ Uncharged(f) \in {0, 1}
  BY DEF Owed, Uncharged
<1> QED
  BY <1>1, <1>2, <1>3, <1>4

(* The account of f balances again when what it counts moves by da T's,    *)
(* dl I's and dw T's and du I's of the dispatcher, and restCap follows.    *)
LEMMA Balance ==
  ASSUME NEW l \in Nat, NEW c \in Int, NEW c0 \in Int, NEW a \in Nat, NEW o \in Nat,
         NEW n \in Nat, NEW u \in Nat, c = c0 + l * (a + o) - n + u,
         NEW cp \in Int, NEW ap \in Nat, NEW op \in Nat, NEW np \in Nat, NEW up \in Nat,
         \/ ap + op = a + o /\ cp = c - (np - n) + (up - u)
         \/ ap + op = a + o + 1 /\ cp = c + l - (np - n) + (up - u)
         \/ ap + op = a + o - 1 /\ cp = c - l - (np - n) + (up - u)
  PROVE  cp = c0 + l * (ap + op) - np + up
<1> DEFINE s == a + o
<1>1. s \in Nat /\ c = c0 + l * s - n + u
  OBVIOUS
<1>2. l * (s + 1) = l * s + l /\ l * (s - 1) = l * s - l /\ l * s \in Int
  BY <1>1
<1>3. CASE ap + op = s /\ cp = c - (np - n) + (up - u)
  BY <1>1, <1>2, <1>3
<1>4. CASE ap + op = s + 1 /\ cp = c + l - (np - n) + (up - u)
  BY <1>1, <1>2, <1>4
<1>5. CASE ap + op = s - 1 /\ cp = c - l - (np - n) + (up - u)
  BY <1>1, <1>2, <1>5
<1> QED
  BY <1>3, <1>4, <1>5

(* A step of T t leaves the other Ts attached as they were. *)
LEMMA AttachedByTask ==
  ASSUME PlacementInv, NEW t \in Task, TaskStep(t), NEW f \in Func
  PROVE  /\ Owed(f)' = Owed(f) /\ Uncharged(f)' = Uncharged(f)
         /\ \A u \in Task \ {t} : u \in Attached(f)' <=> u \in Attached(f)
<1>1. \A u \in Task \ {t} :
        /\ UNCHANGED <<dpc, da, di, dt, fOf, req>>
        /\ UNCHANGED <<tpc[u], workFor[u], sem[u], got[u], local[u], dealWith[u], directRun[u]>>
  BY TaskFrame DEF PlacementInv
<1>2. UNCHANGED <<dpc, di, fOf>>
  BY DEF TaskStep, dvars, ivars, StartTask, FinishI, GetDirectI, NoDirectI, TakeLocalI, NoLocalI,
         GetICount, PeekSize, PullMultiI, LeaveFromF, RemoveTFromBusy, PutT2Idle, ThreadSleep, RunFunction
<1> QED
  BY <1>1, <1>2 DEF Owed, Uncharged, Attached

(* A step that leaves T t where it was, and restCap and the Is alone. *)
LEMMA AccountKept ==
  ASSUME PlacementInv, NEW f \in Func, Accounted(f),
         Attached(f)' = Attached(f), Live(f)' = Live(f),
         Owed(f)' = Owed(f), Uncharged(f)' = Uncharged(f), UNCHANGED <<cap[f], cap0>>
  PROVE  Accounted(f)'
  BY DEF Accounted

LEMMA AccountedByTask ==
  ASSUME PlacementInv, NEW t \in Task, TaskStep(t), NEW f \in Func, Conc(f), Accounted(f),
         PlacementInv'
  PROVE  Accounted(f)'
<1>1. /\ Owed(f)' = Owed(f) /\ Uncharged(f)' = Uncharged(f)
      /\ \A u \in Task \ {t} : u \in Attached(f)' <=> u \in Attached(f)
  BY AttachedByTask
<1>2. /\ Limit[f] \in Nat /\ cap[f] \in Int /\ cap0[f] \in Int
      /\ IsFiniteSet(Attached(f)) /\ Cardinality(Attached(f)) \in Nat
      /\ IsFiniteSet(Live(f)) /\ Cardinality(Live(f)) \in Nat
      /\ Owed(f) \in {0, 1} /\ Uncharged(f) \in {0, 1}
  BY CapFacts
<1>3. /\ cap'[f] \in Int
      /\ Cardinality(Attached(f))' \in Nat /\ Cardinality(Live(f))' \in Nat
  <2>1. cap'[f] \in Int
    BY DEF PlacementInv, ControlInv, TypeOK, FuncTypes
  <2>2. Attached(f)' \subseteq Task /\ Live(f)' \subseteq Inst
    BY DEF Attached, Live
  <2> QED
    BY <2>1, <2>2, FiniteAssumption, FS_Subset, FS_CardinalityType
<1>4. /\ workFor \in [Task -> Func \cup {Null}] /\ tpc \in [Task -> TaskPc]
      /\ cap \in [Func -> Int] /\ frees \in [Inst -> Nat]
      /\ dealWith[t] \in Inst \cup {Null} /\ got[t] \in Inst \cup {Null}
      /\ \A i \in local[t] : fOf[i] = workFor[t]
      /\ got[t] # Null => fOf[got[t]] = workFor[t]
      /\ tpc[t] = "leave" => workFor[t] \in Func
      /\ tpc[t] = "top" => workFor[t] \in Func
  BY DEF PlacementInv, ControlInv, TypeOK, TaskTypes, InstTypes, FuncTypes, HoldInv, TaskInv, Employed
<1>5. ASSUME UNCHANGED <<cap, cap0, frees, fOf>>, t \in Attached(f)' <=> t \in Attached(f)
      PROVE  Accounted(f)'
  <2>1. Attached(f)' = Attached(f)
    BY <1>1, <1>5 DEF Attached
  <2>2. Live(f)' = Live(f)
    BY <1>5 DEF Live
  <2> QED
    BY <1>1, <1>5, <2>1, <2>2, AccountKept
<1>6. ASSUME UNCHANGED <<cap, cap0, frees, fOf>>, workFor'[t] = workFor[t],
             tpc[t] # "unbusy", tpc'[t] # "unbusy"
      PROVE  Accounted(f)'
  BY <1>5, <1>6 DEF Attached
<1>7. ASSUME UNCHANGED <<cap, cap0, frees, fOf>>, tpc[t] # "unbusy", NEW i \in Inst, fOf[i] = workFor[t], Return(t, i)
      PROVE  Accounted(f)'
  <2>1. workFor'[t] = workFor[t] /\ tpc'[t] = "run"
    BY <1>4, <1>7 DEF Return
  <2> QED
    BY <1>6, <1>7, <2>1
<1>8. ASSUME UNCHANGED <<cap, cap0, frees, fOf>>, tpc[t] # "unbusy", NothingPulled(t)
      PROVE  Accounted(f)'
  <2>1. CASE got[t] # Null
    BY <1>4, <1>7, <1>8, <2>1 DEF NothingPulled
  <2>2. CASE got[t] = Null
    BY <1>4, <1>6, <1>8, <2>2 DEF NothingPulled
  <2> QED
    BY <2>1, <2>2
<1> USE <1>4 DEF dvars, ivars, fvars
<1>11. CASE StartTask(t)
  BY <1>6, <1>11 DEF StartTask
<1>12. CASE FinishI(t)
  <2> DEFINE i == dealWith[t]
  <2>1. i \in Inst /\ fOf[i] = workFor[t] /\ Finishing(t)
    BY <1>12 DEF FinishI, Finishing, PlacementInv, DirectInv, Owned
  <2>2. Finishes(t, i)
    BY <1>12 DEF FinishI, Finishes
  <2>3. runs[i] # frees[i] /\ runs[i] \in {0, 1} /\ frees[i] \in 0..runs[i]
    BY <2>1, <2>2 DEF PlacementInv, FinishInv
  <2>4. frees[i] = 0
    BY <2>3
  <2>5. frees' = [frees EXCEPT ![i] = 1] /\ UNCHANGED <<cap0, fOf, workFor>>
    BY <1>12, <2>4 DEF FinishI, tvars
  <2>6. t \in Attached(f)' <=> t \in Attached(f)
    BY <1>12, <2>5 DEF FinishI, Attached
  <2>7. Attached(f)' = Attached(f)
    BY <1>1, <2>6 DEF Attached
  <2>8. CASE workFor[t] # f
    <3>1. Live(f)' = Live(f)
      BY <2>1, <2>5, <2>8 DEF Live
    <3>2. cap'[f] = cap[f]
      BY <1>12, <2>8 DEF FinishI, GiveBackUnit, ScaleCap
    <3> QED
      BY <1>1, <2>5, <2>7, <3>1, <3>2, AccountKept
  <2>9. CASE workFor[t] = f
    <3>1. Live(f)' = Live(f) \ {i} /\ i \in Live(f)
      BY <2>1, <2>4, <2>5, <2>9 DEF Live
    <3>2. Cardinality(Live(f))' = Cardinality(Live(f)) - 1
      <4> DEFINE S == Live(f)
      <4>1. IsFiniteSet(S) /\ i \in S /\ Live(f)' = S \ {i}
        BY <1>2, <3>1
      <4>2. Cardinality(S \ {i}) = Cardinality(S) - 1
        BY <4>1, FS_RemoveElement
      <4> QED
        BY <4>1, <4>2
    <3>3. cap'[f] = cap[f] + 1
      BY <1>12, <2>9 DEF FinishI, GiveBackUnit, ScaleCap
    <3> QED
      BY <1>1, <1>2, <1>3, <2>5, <2>7, <3>2, <3>3 DEF Accounted
  <2> QED
    BY <2>8, <2>9
<1>13. CASE GetDirectI(t)
  BY <1>6, <1>13 DEF GetDirectI
<1>14. CASE NoDirectI(t)
  <2>1. workFor[t] # f /\ workFor'[t] = workFor[t]
    BY <1>14 DEF NoDirectI
  <2> QED
    BY <1>5, <1>14, <2>1 DEF NoDirectI, Attached
<1>15. CASE TakeLocalI(t)
  <2>1. PICK i \in local[t] : \/ UNCHANGED workFor /\ tpc' = [tpc EXCEPT ![t] = "count"]
                              \/ Return(t, i)
    BY <1>15 DEF TakeLocalI
  <2>2. i \in Inst /\ fOf[i] = workFor[t]
    BY <2>1 DEF PlacementInv, ControlInv, TypeOK, TaskTypes
  <2>3. UNCHANGED <<cap, cap0, frees, fOf>> /\ tpc[t] # "unbusy"
    BY <1>15 DEF TakeLocalI
  <2> QED
    BY <1>6, <1>7, <2>1, <2>2, <2>3
<1>16. CASE NoLocalI(t)
  BY <1>6, <1>16 DEF NoLocalI
<1>17. CASE GetICount(t)
  <2>1. UNCHANGED <<cap, cap0, frees, fOf>> /\ tpc[t] # "unbusy"
    BY <1>17 DEF GetICount
  <2>2. workFor'[t] = workFor[t] /\ tpc'[t] # "unbusy"
    BY <1>17 DEF GetICount, NothingPulled, Return
  <2> QED
    BY <1>6, <2>1, <2>2
<1>18. CASE PeekSize(t)
  <2>1. UNCHANGED <<cap, cap0, frees, fOf>> /\ tpc[t] # "unbusy"
    BY <1>18 DEF PeekSize
  <2>2. workFor'[t] = workFor[t] /\ tpc'[t] # "unbusy"
    BY <1>18 DEF PeekSize, NothingPulled, Return
  <2> QED
    BY <1>6, <2>1, <2>2
<1>19. CASE PullMultiI(t)
  <2>1. PICK n \in Nat, loc \in SUBSET Inst : Pulls(t, n, loc)
    BY <1>19, PullFacts DEF PlacementInv
  <2>2. \A i \in loc : i \in Inst /\ fOf[i] = workFor[t]
    BY <2>1 DEF Pulls
  <2>3. UNCHANGED <<cap, cap0, frees, fOf>> /\ tpc[t] # "unbusy"
    BY <1>19 DEF PullMultiI
  <2>4. NothingPulled(t) \/ \E i \in loc : Return(t, i)
    BY <2>1 DEF Pulls
  <2> QED
    BY <1>7, <1>8, <2>2, <2>3, <2>4
<1>20. CASE LeaveFromF(t)
  <2>1. /\ cap' = [cap EXCEPT ![workFor[t]] = @ - Limit[workFor[t]]]
        /\ UNCHANGED <<cap0, frees, fOf, workFor>> /\ workFor[t] \in Func
        /\ tpc[t] = "leave" /\ tpc' = [tpc EXCEPT ![t] = "unbusy"]
    <3>1. workFor[t] \in Func
      BY <1>20 DEF LeaveFromF, PlacementInv, ControlInv, TaskInv, Employed
    <3>2. Limit[workFor[t]] \in Nat /\ cap[workFor[t]] \in Int
      BY <3>1, FuncAssumption
    <3> QED
      BY <1>20, <3>1, <3>2 DEF LeaveFromF, ScaleCap
  <2>2. Live(f)' = Live(f)
    BY <2>1 DEF Live
  <2>3. CASE workFor[t] # f
    <3>1. Attached(f)' = Attached(f)
      BY <1>1, <2>1, <2>3 DEF Attached
    <3> QED
      BY <1>1, <2>1, <2>2, <2>3, <3>1, AccountKept
  <2>4. CASE workFor[t] = f
    <3>1. Attached(f)' = Attached(f) \ {t} /\ t \in Attached(f)
      BY <1>1, <2>1, <2>4 DEF Attached
    <3>2. Cardinality(Attached(f))' = Cardinality(Attached(f)) - 1
      BY <1>2, <3>1, FS_RemoveElement
    <3>3. cap'[f] = cap[f] - Limit[f] /\ cap0'[f] = cap0[f]
      BY <2>1, <2>4
    <3>4. Cardinality(Live(f))' = Cardinality(Live(f))
      BY <2>2
    <3> DEFINE l == Limit[f]
               c == cap[f]
               c0 == cap0[f]
               a == Cardinality(Attached(f))
               o == Owed(f)
               n == Cardinality(Live(f))
               u == Uncharged(f)
    <3>5. c = c0 + l * (a + o) - n + u
      BY DEF Accounted
    <3>6. l \in Nat /\ c \in Int /\ c0 \in Int /\ a \in Nat /\ a - 1 \in Nat /\ o \in Nat /\ n \in Nat /\ u \in Nat
      BY <1>2, <1>3, <3>2
    <3>7. c - l = c0 + l * ((a - 1) + o) - n + u
      <4> HIDE DEF l, c, c0, a, o, n, u
      <4>1. (a - 1) + o = a + o - 1 /\ c - l = c - l - (n - n) + (u - u) /\ c - l \in Int
        BY <3>6
      <4> QED
        BY <3>5, <3>6, <4>1, Balance
    <3> QED
      BY <1>1, <3>2, <3>3, <3>4, <3>7 DEF Accounted
  <2> QED
    BY <2>3, <2>4
<1>21. CASE RemoveTFromBusy(t)
  <2>1. t \notin Attached(f) /\ t \notin Attached(f)'
    <3>1. workFor'[t] = Null /\ tpc[t] = "unbusy"
      BY <1>21 DEF RemoveTFromBusy
    <3> QED
      BY <3>1, NullAssumption DEF Attached
  <2> QED
    BY <1>5, <1>21, <2>1 DEF RemoveTFromBusy
<1>22. CASE PutT2Idle(t)
  BY <1>6, <1>22 DEF PutT2Idle
<1>23. CASE ThreadSleep(t)
  BY <1>6, <1>23 DEF ThreadSleep
<1>24. CASE RunFunction(t)
  BY <1>6, <1>24 DEF RunFunction
<1> QED
  BY <1>11, <1>12, <1>13, <1>14, <1>15, <1>16, <1>17, <1>18, <1>19, <1>20, <1>21, <1>22, <1>23, <1>24
  DEF TaskStep

LEMMA AccountedByMain ==
  ASSUME PlacementInv, NEW f \in Func, Conc(f), Accounted(f), DispatchStep \/ Accept, PlacementInv'
  PROVE  Accounted(f)'
<1>1. /\ Limit[f] \in Nat /\ cap[f] \in Int /\ cap0[f] \in Int
      /\ IsFiniteSet(Attached(f)) /\ Cardinality(Attached(f)) \in Nat
      /\ IsFiniteSet(Live(f)) /\ Cardinality(Live(f)) \in Nat
      /\ Owed(f) \in {0, 1} /\ Uncharged(f) \in {0, 1}
  BY CapFacts
<1>2. /\ cap'[f] \in Int
      /\ Cardinality(Attached(f))' \in Nat /\ Cardinality(Live(f))' \in Nat
  <2>1. cap'[f] \in Int
    BY DEF PlacementInv, ControlInv, TypeOK, FuncTypes
  <2>2. Attached(f)' \subseteq Task /\ Live(f)' \subseteq Inst
    BY DEF Attached, Live
  <2> QED
    BY <2>1, <2>2, FiniteAssumption, FS_Subset, FS_CardinalityType
<1>3. /\ workFor \in [Task -> Func \cup {Null}] /\ tpc \in [Task -> TaskPc]
      /\ cap \in [Func -> Int] /\ frees \in [Inst -> Nat] /\ fOf \in [Inst -> Func \cup {Null}]
      /\ dpc \in HoldingI => di \in Inst /\ fOf[di] \in Func
      /\ dpc \in HoldingT => dt \in Task
      /\ dpc = "create" => tpc[dt] = "created"
      /\ dpc \in {"enqueue", "tryDown", "scaleUp"} => Conc(fOf[di])
  BY DEF PlacementInv, ControlInv, TypeOK, TaskTypes, InstTypes, FuncTypes, MainInv, DirectInv
(* A step that only moves the pc of main(). *)
<1>4. ASSUME UNCHANGED <<cap, cap0, frees, fOf>>, Attached(f)' = Attached(f),
             Owed(f)' = Owed(f), Uncharged(f)' = Uncharged(f)
      PROVE  Accounted(f)'
  <2>1. Live(f)' = Live(f)
    BY <1>4 DEF Live
  <2> QED
    BY <1>4, <2>1, AccountKept
<1>5. ASSUME UNCHANGED <<tpc, workFor>> PROVE Attached(f)' = Attached(f)
  BY <1>5 DEF Attached
<1>6. ASSUME UNCHANGED <<cap, cap0, frees, fOf>>, UNCHANGED <<tpc, workFor>>,
             Owed(f) = 0, Owed(f)' = 0, Uncharged(f) = 0, Uncharged(f)' = 0
      PROVE  Accounted(f)'
  BY <1>4, <1>5, <1>6
(* A T is bound to the F it was paid for. *)
<1>7. ASSUME NEW t \in Task, workFor' = [workFor EXCEPT ![t] = fOf[di]], workFor[t] = Null,
             tpc[t] # "unbusy", tpc'[t] # "unbusy", \A u \in Task \ {t} : tpc'[u] = tpc[u],
             UNCHANGED <<cap, cap0, frees, fOf, di>>, dpc \in {"getT", "newT"},
             dpc' \notin {"getT", "newT", "enqueue", "tryDown", "scaleUp"}
      PROVE  Accounted(f)'
  <2>1. Live(f)' = Live(f)
    BY <1>7 DEF Live
  <2>2. Uncharged(f) = 0 /\ Uncharged(f)' = 0 /\ Owed(f)' = 0
    BY <1>7 DEF Uncharged, Owed
  <2>3. CASE fOf[di] # f
    <3>1. Attached(f)' = Attached(f)
      BY <1>3, <1>7, <2>3, NullAssumption DEF Attached
    <3>2. Owed(f) = 0
      BY <2>3 DEF Owed
    <3> QED
      BY <1>4, <1>7, <2>2, <3>1, <3>2
  <2>4. CASE fOf[di] = f
    <3>1. t \notin Attached(f) /\ Attached(f)' = Attached(f) \cup {t}
      BY <1>3, <1>7, <2>4, NullAssumption DEF Attached
    <3>2. Cardinality(Attached(f))' = Cardinality(Attached(f)) + 1
      <4> DEFINE S == Attached(f)
      <4>1. IsFiniteSet(S) /\ t \notin S /\ Attached(f)' = S \cup {t}
        BY <1>1, <3>1
      <4>2. Cardinality(S \cup {t}) = Cardinality(S) + 1
        BY <4>1, FS_AddElement
      <4> QED
        BY <4>1, <4>2
    <3>3. Owed(f) = 1
      BY <1>7, <2>4 DEF Owed
    <3> QED
      BY <1>1, <1>7, <2>1, <2>2, <3>2, <3>3 DEF Accounted
  <2> QED
    BY <2>3, <2>4
<1> USE DEF dvars, ivars, fvars, rvars, tvars, Dispatched, HoldingI, HoldingT
<1>11. CASE MallocRequest
  BY <1>6, <1>11 DEF MallocRequest, Owed, Uncharged
<1>12. CASE AcceptFails
  BY <1>6, <1>12 DEF AcceptFails, Owed, Uncharged
<1>13. CASE EnqueueI
  BY <1>4, <1>5, <1>13 DEF EnqueueI, Owed, Uncharged
<1>14. CASE TryScaleDownCap
  <2>1. UNCHANGED <<cap0, frees, fOf, tpc, workFor>> /\ dpc = "tryDown"
    BY <1>14 DEF TryScaleDownCap
  <2>2. Attached(f)' = Attached(f) /\ Live(f)' = Live(f)
    BY <2>1 DEF Attached, Live
  <2>3. CASE cap[fOf[di]] < 1
    <3>1. UNCHANGED <<cap, di>> /\ dpc' = "scaleUp"
      BY <1>14, <2>3 DEF TryScaleDownCap
    <3>2. Owed(f)' = Owed(f) /\ Uncharged(f)' = Uncharged(f)
      BY <2>1, <3>1 DEF Owed, Uncharged
    <3> QED
      BY <1>4, <2>1, <2>2, <3>1, <3>2
  <2>4. CASE ~(cap[fOf[di]] < 1)
    <3>1. cap' = [cap EXCEPT ![fOf[di]] = @ + -1] /\ dpc' = "malloc"
      BY <1>14, <2>4 DEF TryScaleDownCap, ScaleCap
    <3>2. Owed(f) = 0 /\ Owed(f)' = 0 /\ Uncharged(f)' = 0
      BY <2>1, <3>1 DEF Owed, Uncharged
    <3>3. CASE fOf[di] = f
      <4>1. Uncharged(f) = 1 /\ cap'[f] = cap[f] - 1
        BY <1>3, <2>1, <3>1, <3>3 DEF Uncharged
      <4> QED
        BY <1>1, <1>2, <2>1, <2>2, <3>2, <4>1 DEF Accounted
    <3>4. CASE fOf[di] # f
      <4>1. Uncharged(f) = 0 /\ cap'[f] = cap[f]
        BY <1>3, <2>1, <3>1, <3>4 DEF Uncharged
      <4> QED
        BY <2>1, <2>2, <3>2, <4>1, AccountKept
    <3> QED
      BY <3>3, <3>4
  <2> QED
    BY <2>3, <2>4
<1>15. CASE ScaleUpCap
  <2>1. /\ UNCHANGED <<cap0, frees, fOf, tpc, workFor, di>> /\ dpc = "scaleUp" /\ dpc' = "getT"
        /\ cap' = [cap EXCEPT ![fOf[di]] = @ + (Limit[fOf[di]] - 1)]
    BY <1>15 DEF ScaleUpCap, ScaleCap
  <2>2. Attached(f)' = Attached(f) /\ Live(f)' = Live(f)
    BY <2>1 DEF Attached, Live
  <2>3. CASE fOf[di] = f
    <3>1. cap'[f] = cap[f] + (Limit[f] - 1)
      BY <1>3, <2>1, <2>3
    <3>2. Owed(f) = 0 /\ Owed(f)' = 1 /\ Uncharged(f) = 1 /\ Uncharged(f)' = 0
      BY <2>1, <2>3 DEF Owed, Uncharged
    <3>3. cap'[f] = cap0'[f] + Limit[f] * (Cardinality(Attached(f)) + 1) - Cardinality(Live(f)) + 0
      <4> DEFINE l == Limit[f]
                 c == cap[f]
                 c0 == cap0[f]
                 a == Cardinality(Attached(f))
                 n == Cardinality(Live(f))
      <4>1. c = c0 + l * (a + 0) - n + 1
        BY <3>2 DEF Accounted
      <4>2. l \in Nat /\ c \in Int /\ c0 \in Int /\ a \in Nat /\ n \in Nat
        BY <1>1
      <4>3. c + (l - 1) = c0 + l * (a + 1) - n + 0
        <5> HIDE DEF l, c, c0, a, n
        <5>1. c + (l - 1) \in Int /\ c + (l - 1) = c + l - (n - n) + (0 - 1)
          BY <4>2
        <5> QED
          BY <4>1, <4>2, <5>1, Balance
      <4> QED
        BY <2>1, <3>1, <4>3
    <3> QED
      BY <2>2, <3>2, <3>3 DEF Accounted
  <2>4. CASE fOf[di] # f
    <3>1. cap'[f] = cap[f]
      BY <1>3, <2>1, <2>4
    <3>2. Owed(f) = 0 /\ Owed(f)' = 0 /\ Uncharged(f) = 0 /\ Uncharged(f)' = 0
      BY <2>1, <2>4 DEF Owed, Uncharged
    <3> QED
      BY <2>1, <2>2, <3>1, <3>2, AccountKept
  <2> QED
    BY <2>3, <2>4
<1>16. CASE GetIdleT
  <2>1. PICK t \in Task, r \in Res : Finds(t, r)
    BY <1>16, IdleFacts DEF PlacementInv
  <2>2. workFor[t] = Null
    BY <2>1 DEF Finds, PlacementInv, DirectInv, Unemployed
  <2>3. /\ UNCHANGED <<cap, cap0, frees, fOf, di, tpc>> /\ dpc = "getT" /\ dpc' = "putBusy"
    BY <1>16 DEF GetIdleT
  <2> QED
    BY <1>7, <2>1, <2>2, <2>3 DEF Finds
<1>17. CASE NoIdleT
  BY <1>4, <1>5, <1>17 DEF NoIdleT, Owed, Uncharged
<1>18. CASE PutIdleT2Busy
  BY <1>6, <1>18 DEF PutIdleT2Busy, Owed, Uncharged
<1>19. CASE ThreadWakeUpOne
  BY <1>6, <1>19 DEF ThreadWakeUpOne, Owed, Uncharged
<1>20. CASE NewT
  <2>1. PICK t \in Task : Creates(t)
    BY <1>20, NewFacts DEF PlacementInv
  <2>2. workFor[t] = Null
    BY <2>1 DEF Creates, PlacementInv, DirectInv, Unemployed
  <2>3. /\ UNCHANGED <<cap, cap0, frees, fOf, di>> /\ dpc = "newT" /\ dpc' = "create"
    BY <1>20 DEF NewT
  <2> QED
    BY <1>3, <1>7, <2>1, <2>2, <2>3 DEF Creates
<1>21. CASE PthreadCreate
  <2>1. UNCHANGED workFor /\ dt \in Task /\ tpc[dt] = "created" /\ tpc' = [tpc EXCEPT ![dt] = "top"]
    BY <1>3, <1>21 DEF PthreadCreate
  <2>2. Attached(f)' = Attached(f)
    BY <1>3, <2>1 DEF Attached
  <2> QED
    BY <1>4, <1>21, <2>2 DEF PthreadCreate, Owed, Uncharged
<1>22. CASE PthreadCreateFails
  <2>1. UNCHANGED <<cap, cap0, frees, fOf, tpc, workFor>> /\ dpc = "create" /\ dpc' \in {"create", "malloc"}
    BY <1>22 DEF PthreadCreateFails
  <2> QED
    BY <1>6, <2>1 DEF Owed, Uncharged
<1>23. ASSUME NEW g \in Func, MakeRequest(g) PROVE Accounted(f)'
  <2> DEFINE i == di'
  <2>1. /\ i \in Inst /\ fOf[i] = Null /\ fOf' = [fOf EXCEPT ![i] = g] /\ dpc = "accept"
        /\ dpc' = (IF Conc(g) THEN "enqueue" ELSE "getT")
        /\ UNCHANGED <<cap, cap0, frees, tpc, workFor>>
    BY <1>23, FreshIn DEF MakeRequest
  <2>2. Attached(f)' = Attached(f)
    BY <2>1 DEF Attached
  <2>3. Owed(f) = 0 /\ Uncharged(f) = 0
    BY <2>1 DEF Owed, Uncharged
  <2>4. fOf'[i] = g
    BY <1>3, <2>1
  <2>5. Owed(f)' = 0
    BY <2>1, <2>4 DEF Owed
  <2>6. CASE g = f
    <3>1. Uncharged(f)' = 1
      BY <2>1, <2>4, <2>6 DEF Uncharged
    <3>2. frees[i] = 0
      BY <2>1 DEF PlacementInv, FinishInv, Made
    <3>3. i \notin Live(f) /\ Live(f)' = Live(f) \cup {i}
      BY <1>3, <2>1, <2>6, <3>2, NullAssumption DEF Live
    <3>4. Cardinality(Live(f))' = Cardinality(Live(f)) + 1
      <4> DEFINE S == Live(f)
      <4>1. IsFiniteSet(S) /\ i \notin S /\ Live(f)' = S \cup {i}
        BY <1>1, <3>3
      <4>2. Cardinality(S \cup {i}) = Cardinality(S) + 1
        BY <4>1, FS_AddElement
      <4> QED
        BY <4>1, <4>2
    <3> QED
      BY <1>1, <2>1, <2>2, <2>3, <2>5, <3>1, <3>4 DEF Accounted
  <2>7. CASE g # f
    <3>1. Uncharged(f)' = 0
      BY <2>4, <2>7 DEF Uncharged
    <3>2. Live(f)' = Live(f)
      BY <1>3, <2>1, <2>7, NullAssumption DEF Live
    <3> QED
      BY <2>1, <2>2, <2>3, <2>5, <3>1, <3>2, AccountKept
  <2> QED
    BY <2>6, <2>7
<1> QED
  BY <1>11, <1>12, <1>13, <1>14, <1>15, <1>16, <1>17, <1>18, <1>19, <1>20, <1>21, <1>22, <1>23
  DEF DispatchStep, Accept

LEMMA AccountInit == Init => CapAccounting
<1> SUFFICES ASSUME Init, NEW f \in Func PROVE Accounted(f)
  BY DEF CapAccounting, Accounted
<1>1. Attached(f) = {} /\ Live(f) = {}
  BY NullAssumption DEF Init, Attached, Live
<1>2. Owed(f) = 0 /\ Uncharged(f) = 0 /\ cap[f] = cap0[f]
  BY DEF Init, Owed, Uncharged
<1>3. Limit[f] \in Nat /\ cap0[f] \in Int
  BY FuncAssumption, DataAssumption DEF Init
<1> QED
  BY <1>1, <1>2, <1>3, FS_EmptySet DEF Accounted

LEMMA AccountNext == PlacementInv /\ PlacementInv' /\ CapAccounting /\ [Next]_vars => CapAccounting'
<1> SUFFICES ASSUME PlacementInv, PlacementInv', CapAccounting, [Next]_vars, NEW f \in Func, Conc(f)
             PROVE  Accounted(f)'
  BY DEF CapAccounting, Accounted, Conc
<1>1. Accounted(f)
  BY DEF CapAccounting, Accounted
<1>2. CASE DispatchStep \/ Accept
  BY <1>1, <1>2, AccountedByMain
<1>3. ASSUME NEW t \in Task, TaskStep(t) PROVE Accounted(f)'
  BY <1>1, <1>3, AccountedByTask
<1>4. CASE UNCHANGED vars
  BY <1>1, <1>4 DEF Accounted, Attached, Live, Owed, Uncharged, vars, dvars, ivars, fvars, rvars, tvars
<1> QED
  BY <1>2, <1>3, <1>4 DEF Next, Stopped

(* restCap of every concurrent F is exactly what its Ts and Is account     *)
(* for, whatever the limit, the number of Ts and what the memory held.     *)
(* (addI2F, task_done, leaveFromF_safe)                                    *)
THEOREM RestCapExact == Spec => []CapAccounting
<1>1. Init => CapAccounting
  BY AccountInit
<1>2. PlacementInv /\ PlacementInv' /\ CapAccounting /\ [Next]_vars => CapAccounting'
  BY AccountNext
<1> QED
  BY <1>1, <1>2, PlacementInvariant, PTL DEF Spec
=============================================================================
