--------------------------- MODULE ThreadsProofs ---------------------------
(***************************************************************************)
(* Theorems about Threads: joins hand over what the joined thread          *)
(* returned, a thread that leaves starts from the memory it was forked in, *)
(* no thread outlives its call and no mutex is held twice, however many    *)
(* threads, calls and mutexes there are.                                   *)
(***************************************************************************)
EXTENDS Threads, SequenceTheorems, FiniteSetTheorems, TLAPS

-----------------------------------------------------------------------------
(* The pool: which OS threads were started, and that there is one for the  *)
(* tasks, once whoever queued the first has seen to it.                    *)
Resting == {"unborn", "wait", "gone"}
PoolInv ==
  /\ Len(pool) + Len(stacks) = PoolSize
  /\ pc[Main] \notin Resting
  /\ \A o \in OS \ {Main} : pc[o] \notin {"idle", "teardown"} /\ (pc[o] = "unborn" <=> o > Len(pool))
  /\ pc[Main] = "idle" => pool = <<>>
  /\ pool = <<>> /\ pc[Main] # "spawn" => tasks = <<>>

(* Who has a job, and that it is one of this call. *)
JobInv ==
  /\ \A o \in OS : job[o] # 0 <=> o # Main /\ pc[o] \notin Resting
  /\ \A o \in OS : job[o] # 0 => thread[job[o]].state = "running" /\ thread[job[o]].call = call /\ thread[job[o]].local
  /\ \A o, d \in OS : job[o] # 0 /\ job[o] = job[d] => o = d

(* What is queued is of this call, and queued once. *)
TaskInv ==
  /\ \A k \in DOMAIN tasks :
       tasks[k] # Shutdown => thread[tasks[k]].state = "queued" /\ thread[tasks[k]].call = call /\ thread[tasks[k]].local
  /\ \A k, l \in DOMAIN tasks : tasks[k] # Shutdown /\ tasks[k] = tasks[l] => k = l

(* A thread that has not ended is in the queue, on an OS thread, or left. *)
StateInv ==
  \A t \in DOMAIN thread :
    /\ thread[t].call <= call
    /\ thread[t].local => thread[t].state # "sent"
    /\ ~thread[t].local => thread[t].state \in {"sent", "ended"} /\ "chain" \in style
    /\ thread[t].state = "queued" => \E k \in DOMAIN tasks : tasks[k] = t
    /\ thread[t].state = "running" => \E o \in OS : job[o] = t

(* Threads of the call itself are queued before the messages that end the  *)
(* pool; behind these there are only threads that threads created.         *)
StopInv ==
  /\ \A k, l \in DOMAIN tasks : k < l /\ tasks[k] = Shutdown /\ tasks[l] # Shutdown => thread[tasks[l]].os # Main
  /\ \A o \in OS, k \in DOMAIN tasks : pc[o] = "gone" /\ tasks[k] # Shutdown => thread[tasks[k]].os # Main
  /\ pc[Main] # "teardown" => (\A k \in DOMAIN tasks : tasks[k] # Shutdown) /\ \A o \in OS : pc[o] # "gone"

(* The threads of this call that are not joined yet: a thread joins those  *)
(* it created before it ends, and uses one variable for each.              *)
Open == {t \in DOMAIN thread : thread[t].call = call /\ thread[t].joined = NotJoined}
OpenInv ==
  /\ \A t \in Open : thread[t].os # Main => pc[thread[t].os] \notin Resting
  /\ \A t \in Open : thread[t].os = Main /\ "abandon" \notin style => pc[Main] \notin {"teardown", "idle"}
  /\ \A t, u \in Open : thread[t].os = thread[u].os /\ thread[t].ptr = thread[u].ptr => t = u

(* They are found in the record that the join looks into; and unless       *)
(* threads are abandoned, nothing else is.                                 *)
RecordInv ==
  /\ \A t \in Open :
       thread[t].local => thread[t].ptr \in DOMAIN futures[thread[t].os] /\ futures[thread[t].os][thread[t].ptr] = t
  /\ \A t \in Open :
       ~thread[t].local =>
         /\ thread[t].ptr \in DOMAIN chained[thread[t].os] /\ chained[thread[t].os][thread[t].ptr] = t
         /\ thread[t].ptr \notin DOMAIN futures[thread[t].os]
FutureInv ==
  "abandon" \notin style =>
    \A o \in OS : \A p \in DOMAIN futures[o] :
      /\ futures[o][p] \in Open /\ thread[futures[o][p]].local
      /\ thread[futures[o][p]].os = o /\ thread[futures[o][p]].ptr = p
ChainedInv ==
  "abandon" \notin style =>
    \A o \in OS : \A p \in DOMAIN chained[o] :
      /\ chained[o][p] \in Open /\ ~thread[chained[o][p]].local
      /\ thread[chained[o][p]].os = o /\ thread[chained[o][p]].ptr = p

(* The snapshot's key is there while threads are, and its snapshot is of   *)
(* the memory as it is.                                                    *)
KeyInv ==
  "abandon" \notin style /\ key[Main] # NoKey =>
    snapshots[key[Main]] = [call |-> call, size |-> size] /\ \E t \in Open : thread[t].os = Main

(* Who ends, or waits for a mutex, holds none. *)
HeldInv ==
  /\ \A o \in OS \ {Main} : pc[o] \in Resting => held[o] = {}
  /\ pc[Main] \in {"teardown", "idle"} => held[Main] = {}
  /\ \A o \in OS : pc[o] = "lock" => held[o] = {} /\ waits[o] \in Mutex

RunInv == PoolInv /\ JobInv /\ TaskInv /\ StateInv /\ StopInv
JoinInv == OpenInv /\ RecordInv /\ FutureInv /\ ChainedInv /\ KeyInv /\ JoinMatches /\ SnapshotCurrent
MutexInv == HeldInv /\ MutexExclusive
IInv == TypeOK /\ RunInv /\ JoinInv /\ MutexInv

-----------------------------------------------------------------------------
(* The stacks of the pool: the last of what is left. *)
LEMMA LastFront ==
  ASSUME NEW s \in Seq(Nat), Len(s) > 0
  PROVE  Last(s) \in Nat /\ Front(s) \in Seq(Nat) /\ Len(Front(s)) = Len(s) - 1
<1>1. Last(s) = s[Len(s)] /\ Front(s) = SubSeq(s, 1, Len(s) - 1)
  BY DEF Last, Front
<1>2. 1 \in Int /\ Len(s) - 1 \in Int /\ \A k \in 1..(Len(s) - 1) : s[k] \in Nat
  OBVIOUS
<1>3. SubSeq(s, 1, Len(s) - 1) \in Seq(Nat)
  BY <1>2, SubSeqProperties
<1>4. Len(SubSeq(s, 1, Len(s) - 1)) = IF 1 <= Len(s) - 1 THEN (Len(s) - 1) - 1 + 1 ELSE 0
  BY <1>2, SubSeqProperties
<1>5. Len(s) \in Nat /\ s[Len(s)] \in Nat
  OBVIOUS
<1>6. \A m \in Nat : m > 0 => (IF 1 <= m - 1 THEN (m - 1) - 1 + 1 ELSE 0) = m - 1
  OBVIOUS
<1>7. (IF 1 <= Len(s) - 1 THEN (Len(s) - 1) - 1 + 1 ELSE 0) = Len(s) - 1
  BY <1>5, <1>6
<1>8. Len(SubSeq(s, 1, Len(s) - 1)) = Len(s) - 1
  BY <1>4, <1>7, SMT
<1> QED
  BY <1>1, <1>3, <1>5, <1>8

(* A thread's fields, and what setting its state or its result leaves.     *)
LEMMA ThreadFields ==
  ASSUME NEW th \in Seq(Thread), NEW t \in DOMAIN th
  PROVE  /\ th[t].os \in OS /\ th[t].ptr \in Ptr /\ th[t].call \in Nat /\ th[t].local \in BOOLEAN
         /\ th[t].state \in States /\ th[t].joined \in Int /\ th[t].size \in Nat /\ th[t].snap \in Forked
<1>1. th[t] \in Thread
  OBVIOUS
<1> QED
  BY <1>1 DEF Thread

Alike(u, t) ==
  /\ u.os = t.os /\ u.ptr = t.ptr /\ u.call = t.call /\ u.local = t.local /\ u.snap = t.snap /\ u.size = t.size

StateSet(th, i, s) == [th EXCEPT ![i].state = s]
LEMMA StateSetIs ==
  ASSUME NEW th \in Seq(Thread), NEW i \in DOMAIN th, NEW s \in States
  PROVE  /\ StateSet(th, i, s) \in Seq(Thread) /\ DOMAIN StateSet(th, i, s) = DOMAIN th
         /\ \A t \in DOMAIN th : Alike(StateSet(th, i, s)[t], th[t]) /\ StateSet(th, i, s)[t].joined = th[t].joined
         /\ StateSet(th, i, s)[i].state = s
         /\ \A t \in DOMAIN th \ {i} : StateSet(th, i, s)[t].state = th[t].state
<1>1. \A t \in DOMAIN th : th[t] \in Thread
  OBVIOUS
<1>2. [th[i] EXCEPT !.state = s] \in Thread
  BY <1>1 DEF Thread
<1>3. StateSet(th, i, s) = [th EXCEPT ![i] = [th[i] EXCEPT !.state = s]]
  BY DEF StateSet
<1>4. StateSet(th, i, s) \in Seq(Thread) /\ DOMAIN StateSet(th, i, s) = DOMAIN th
  BY <1>2, <1>3
<1>5. \A t \in DOMAIN th : StateSet(th, i, s)[t] = IF t = i THEN [th[i] EXCEPT !.state = s] ELSE th[t]
  BY <1>3
<1>6. /\ Alike([th[i] EXCEPT !.state = s], th[i])
      /\ [th[i] EXCEPT !.state = s].joined = th[i].joined /\ [th[i] EXCEPT !.state = s].state = s
  BY <1>1 DEF Thread, Alike
<1>7. \A t \in DOMAIN th : Alike(th[t], th[t])
  BY DEF Alike
<1> QED
  BY <1>4, <1>5, <1>6, <1>7

(* Who is joined: the threads of S. *)
JoinedAs(th, S, v) == [t \in DOMAIN th |-> IF t \in S THEN [th[t] EXCEPT !.joined = v] ELSE th[t]]
LEMMA JoinedAsIs ==
  ASSUME NEW th \in Seq(Thread), NEW S, NEW v \in Int
  PROVE  /\ JoinedAs(th, S, v) \in Seq(Thread) /\ DOMAIN JoinedAs(th, S, v) = DOMAIN th
         /\ \A t \in DOMAIN th : Alike(JoinedAs(th, S, v)[t], th[t]) /\ JoinedAs(th, S, v)[t].state = th[t].state
         /\ \A t \in DOMAIN th : JoinedAs(th, S, v)[t].joined = IF t \in S THEN v ELSE th[t].joined
<1>1. \A t \in DOMAIN th : th[t] \in Thread
  OBVIOUS
<1>2. \A t \in DOMAIN th : JoinedAs(th, S, v)[t] = IF t \in S THEN [th[t] EXCEPT !.joined = v] ELSE th[t]
  BY DEF JoinedAs
<1>3. \A t \in DOMAIN th : [th[t] EXCEPT !.joined = v] \in Thread
  BY <1>1 DEF Thread
<1>4. DOMAIN JoinedAs(th, S, v) = DOMAIN th
  BY DEF JoinedAs
<1>5. JoinedAs(th, S, v) \in Seq(Thread)
  BY <1>1, <1>2, <1>3 DEF JoinedAs
<1>6. \A t \in DOMAIN th :
         /\ Alike([th[t] EXCEPT !.joined = v], th[t])
         /\ [th[t] EXCEPT !.joined = v].state = th[t].state /\ [th[t] EXCEPT !.joined = v].joined = v
  BY <1>1 DEF Thread, Alike
<1>7. \A t \in DOMAIN th : Alike(th[t], th[t])
  BY DEF Alike
<1> QED
  BY <1>2, <1>4, <1>5, <1>6, <1>7

LEMMA RestingIsNotLive == "run" \notin Resting /\ "join" \notin Resting /\ "lock" \notin Resting /\ "spawn" \notin Resting
  BY DEF Resting

LEMMA MainInOS == Main \in OS
  BY PoolAssumption DEF Main, OS

(* A step that takes no OS thread into its rest or out of it, nor into the *)
(* end of a call.                                                          *)
Turning == {"idle", "teardown", "gone"}
LEMMA Passes ==
  ASSUME IInv, UNCHANGED <<style, call, job, chained, futures, key, tasks, thread, snapshots, size>>,
         \A o \in OS : pc'[o] \in Resting <=> pc[o] \in Resting,
         \A o \in OS : pc'[o] = pc[o] \/ (pc[o] \notin Turning /\ pc'[o] \notin Turning)
  PROVE  JobInv' /\ TaskInv' /\ StateInv' /\ StopInv' /\ JoinInv'
<1>1. Main \in OS
  BY MainInOS
<1>2. \A o \in OS : (pc'[o] = "gone" <=> pc[o] = "gone") /\ (pc'[o] = "idle" <=> pc[o] = "idle") /\ (pc'[o] = "teardown" <=> pc[o] = "teardown")
  BY DEF Turning
<1>3. JobInv'
  BY <1>1 DEF IInv, RunInv, JobInv
<1>4. TaskInv' /\ StateInv'
  BY DEF IInv, RunInv, TaskInv, StateInv
<1>5. StopInv'
  BY <1>1, <1>2 DEF IInv, RunInv, StopInv
<1>6. Open' = Open
  BY DEF Open
<1>7. \A t \in Open : thread[t].os \in OS
  BY ThreadFields DEF IInv, TypeOK, Open
<1>8. OpenInv'
  BY <1>1, <1>2, <1>6, <1>7 DEF IInv, JoinInv, OpenInv
<1>9. RecordInv' /\ FutureInv' /\ ChainedInv'
  BY <1>6 DEF IInv, JoinInv, RecordInv, FutureInv, ChainedInv
<1>10. KeyInv' /\ JoinMatches' /\ SnapshotCurrent'
  BY <1>6 DEF IInv, JoinInv, KeyInv, JoinMatches, SnapshotCurrent
<1> QED
  BY <1>3, <1>4, <1>5, <1>8, <1>9, <1>10 DEF JoinInv

(* One that only goes from one place in the function to another. *)
Live == {"run", "join", "lock"}
LEMMA Moves ==
  ASSUME IInv, UNCHANGED <<style, call, job, chained, futures, key, pool, stacks, tasks, asked, thread, snapshots, size>>,
         \A o \in OS : pc'[o] = pc[o] \/ {pc[o], pc'[o]} \subseteq Live
  PROVE  RunInv' /\ JoinInv'
<1>1. \A o \in OS : pc'[o] \in Resting <=> pc[o] \in Resting
  BY DEF Resting, Live
<1>2. \A o \in OS : pc'[o] = pc[o] \/ (pc[o] \notin Turning /\ pc'[o] \notin Turning)
  BY DEF Turning, Live
<1>3. PoolInv'
  <2>1. \A o \in OS : \A x \in {"idle", "teardown", "unborn", "spawn"} : pc'[o] = x <=> pc[o] = x
    BY DEF Live
  <2> QED
    BY <1>1, <2>1, MainInOS DEF IInv, RunInv, PoolInv
<1> QED
  BY <1>1, <1>2, <1>3, Passes DEF RunInv

-----------------------------------------------------------------------------
(* The initial states. *)
LEMMA IInvInit == Init => IInv
<1> SUFFICES ASSUME Init PROVE IInv
  OBVIOUS
<1>1. Main \in OS
  BY PoolAssumption DEF Main, OS
<1>2. thread = <<>> /\ tasks = <<>> /\ pool = <<>> /\ snapshots = <<>> /\ DOMAIN thread = {} /\ DOMAIN tasks = {}
  BY DEF Init
<1>3. \A o \in OS : DOMAIN chained[o] = {} /\ DOMAIN futures[o] = {} /\ chained[o] = NoneOf(Ptr) /\ futures[o] = NoneOf(Ptr)
  BY DEF Init, NoneOf
<1>4. NoneOf(Ptr) \in [{} -> {}] /\ NoneOf(Mutex) \in [{} -> BOOLEAN] /\ DOMAIN NoneOf(Mutex) = {} /\ DOMAIN NoneOf(Ptr) = {}
  BY DEF NoneOf
<1>5. \A o \in OS : Records(chained[o]) /\ Records(futures[o])
  BY <1>2, <1>3, <1>4 DEF Records
<1>6. TypeOK
  <2>1. /\ style \in Styles /\ {call, size, asked, locks} \subseteq Nat
        /\ pc \in [OS -> Places] /\ job \in [OS -> {0} \cup DOMAIN thread] /\ waits \in [OS -> Ptr \cup Mutex \cup {Nowhere}]
    BY DEF Init, InitSize, Places
  <2>2. /\ chained = [o \in OS |-> chained[o]] /\ futures = [o \in OS |-> futures[o]]
        /\ key \in [OS -> 0..Len(snapshots)] /\ snapshots \in Seq(Forked)
    BY <1>2 DEF Init, NoKey
  <2>3. /\ pool \in Seq(Nat) /\ stacks \in Seq(Nat) /\ tasks \in Seq({Shutdown} \cup DOMAIN thread)
        /\ thread \in Seq(Thread)
    BY <1>2, PoolAssumption DEF Init
  <2>4. /\ DOMAIN mutexes \subseteq Mutex /\ mutexes \in [DOMAIN mutexes -> BOOLEAN]
        /\ held \in [OS -> SUBSET Mutex]
    BY <1>4 DEF Init
  <2> QED
    BY <1>5, <2>1, <2>2, <2>3, <2>4 DEF TypeOK
<1>7. \A o \in OS : pc[o] = IF o = Main THEN "idle" ELSE "unborn"
  BY DEF Init
<1>8. RunInv
  <2>1. PoolInv
    BY <1>1, <1>2, <1>7, PoolAssumption DEF Init, PoolInv, Resting, OS, Main
  <2>2. JobInv
    BY <1>7 DEF Init, JobInv, Resting
  <2> QED
    BY <1>2, <1>7, <2>1, <2>2 DEF RunInv, TaskInv, StateInv, StopInv
<1>9. Open = {}
  BY <1>2 DEF Open
<1>10. JoinInv
  BY <1>1, <1>2, <1>3, <1>9 DEF JoinInv, OpenInv, RecordInv, FutureInv, ChainedInv, KeyInv, JoinMatches, SnapshotCurrent, Init
<1>11. MutexInv
  <2>1. \A o \in OS : held[o] = {}
    BY DEF Init
  <2>2. HeldInv
    BY <1>1, <1>7, <2>1 DEF HeldInv
  <2>3. MutexExclusive
    BY <2>1, Zenon DEF MutexExclusive
  <2> QED
    BY <2>2, <2>3 DEF MutexInv
<1> QED
  BY <1>6, <1>8, <1>10, <1>11 DEF IInv

-----------------------------------------------------------------------------
(* A call starts. *)
LEMMA StartCallKeeps == ASSUME IInv, StartCall PROVE IInv'
<1>1. Main \in OS /\ call \in Nat
  BY PoolAssumption DEF Main, OS, IInv, TypeOK
<1>2. /\ pc[Main] = "idle" /\ call' = call + 1 /\ pc' = [pc EXCEPT ![Main] = "run"]
      /\ UNCHANGED <<style, job, waits, chained, futures, key, pool, stacks, tasks, asked, thread, snapshots, size, mutexes, held, locks>>
  BY DEF StartCall, tls, poolVars, mutexVars
<1>3. pc'[Main] = "run" /\ \A o \in OS \ {Main} : pc'[o] = pc[o]
  BY <1>1, <1>2 DEF IInv, TypeOK
<1>4. pool = <<>> /\ tasks = <<>> /\ DOMAIN tasks = {}
  BY <1>2 DEF IInv, RunInv, PoolInv
<1>5. \A o \in OS \ {Main} : pc[o] = "unborn"
  BY <1>4, PoolAssumption DEF IInv, RunInv, PoolInv, OS, Main
<1>6. \A o \in OS : job[o] = 0
  BY <1>5 DEF IInv, RunInv, JobInv, Resting
<1>7. TypeOK'
  <2>1. pc' \in [OS -> Places]
    BY <1>2 DEF IInv, TypeOK, Places
  <2> QED
    BY <1>1, <1>2, <2>1 DEF IInv, TypeOK, Records
<1>8. PoolInv'
  BY <1>2, <1>3, <1>4, RestingIsNotLive DEF IInv, RunInv, PoolInv
<1>9. JobInv'
  BY <1>2, <1>3, <1>5, <1>6 DEF JobInv, Resting
<1>10. TaskInv' /\ StopInv'
  BY <1>2, <1>3, <1>4, <1>5 DEF TaskInv, StopInv
<1>11. StateInv'
  <2>1. \A t \in DOMAIN thread : thread[t].call <= call /\ thread[t].call \in Nat
    BY ThreadFields DEF IInv, TypeOK, RunInv, StateInv
  <2>2. \A t \in DOMAIN thread : thread[t].call <= call + 1
    BY <1>1, <2>1
  <2> QED
    BY <1>2, <2>2 DEF IInv, RunInv, StateInv
<1>12. Open' = {}
  <2>1. \A t \in DOMAIN thread : thread[t].call <= call /\ thread[t].call \in Nat
    BY ThreadFields DEF IInv, TypeOK, RunInv, StateInv
  <2>2. \A t \in DOMAIN thread : thread[t].call # call + 1
    BY <1>1, <2>1
  <2> QED
    BY <1>2, <2>2 DEF Open
<1>13. "abandon" \notin style => ~\E t \in Open : thread[t].os = Main
  BY <1>2 DEF IInv, JoinInv, OpenInv
<1>14. ~\E t \in Open : thread[t].os # Main
  <2>1. \A t \in Open : thread[t].os \in OS
    BY ThreadFields DEF IInv, TypeOK, Open
  <2> QED
    BY <1>5, <2>1 DEF IInv, JoinInv, OpenInv, Resting
<1>15. FutureInv' /\ ChainedInv' /\ KeyInv'
  BY <1>1, <1>2, <1>13, <1>14 DEF IInv, JoinInv, FutureInv, ChainedInv, KeyInv
<1>16. OpenInv' /\ RecordInv' /\ JoinMatches' /\ SnapshotCurrent'
  BY <1>2, <1>12 DEF IInv, JoinInv, OpenInv, RecordInv, JoinMatches, SnapshotCurrent
<1>17. MutexInv'
  <2>1. \A o \in OS : held[o] = {}
    BY <1>2, <1>5 DEF IInv, MutexInv, HeldInv, Resting
  <2>2. \A o \in OS : held'[o] = {}
    BY <1>2, <2>1
  <2>3. HeldInv'
    BY <1>1, <1>3, <1>5, <2>2 DEF HeldInv
  <2>4. MutexExclusive'
    BY <2>2, Zenon DEF MutexExclusive
  <2> QED
    BY <2>3, <2>4 DEF MutexInv
<1> QED
  BY <1>7, <1>8, <1>9, <1>10, <1>11, <1>15, <1>16, <1>17 DEF IInv, RunInv, JoinInv

LEMMA FinishCallKeeps == ASSUME IInv, FinishCall PROVE IInv'
<1>1. Main \in OS
  BY PoolAssumption DEF Main, OS
<1>2. /\ pc[Main] = "run" /\ held[Main] = {} /\ pc' = [pc EXCEPT ![Main] = "teardown"]
      /\ UNCHANGED <<style, call, job, waits, chained, futures, key, pool, stacks, tasks, asked, thread, snapshots, size, mutexes, held, locks>>
  BY DEF FinishCall, tls, poolVars, mutexVars, Runs
<1>3. pc'[Main] = "teardown" /\ \A o \in OS \ {Main} : pc'[o] = pc[o]
  BY <1>1, <1>2 DEF IInv, TypeOK
<1>4. TypeOK'
  <2>1. pc' \in [OS -> Places]
    BY <1>2 DEF IInv, TypeOK, Places
  <2> QED
    BY <1>2, <2>1 DEF IInv, TypeOK, Records
<1>5. PoolInv' /\ JobInv'
  BY <1>1, <1>2, <1>3 DEF IInv, RunInv, PoolInv, JobInv, Resting
<1>6. TaskInv' /\ StateInv' /\ StopInv'
  BY <1>1, <1>2, <1>3 DEF IInv, RunInv, TaskInv, StateInv, StopInv
<1>7. Open' = Open
  BY <1>2 DEF Open
<1>8. \A t \in Open : thread[t].os \in OS
  BY ThreadFields DEF IInv, TypeOK, Open
<1>9. "abandon" \notin style => \A t \in Open : thread[t].os # Main
  <2>1. Own(Main) = {} \/ "abandon" \in style
    BY DEF FinishCall
  <2> QED
    BY <2>1 DEF Own, Open
<1>10. OpenInv'
  BY <1>2, <1>3, <1>7, <1>8, <1>9 DEF IInv, JoinInv, OpenInv
<1>11. RecordInv' /\ FutureInv' /\ ChainedInv' /\ KeyInv' /\ JoinMatches' /\ SnapshotCurrent'
  BY <1>2, <1>7 DEF IInv, JoinInv, RecordInv, FutureInv, ChainedInv, KeyInv, JoinMatches, SnapshotCurrent
<1>12. HeldInv' /\ MutexExclusive'
  BY <1>2, <1>3 DEF IInv, MutexInv, HeldInv, MutexExclusive
<1> QED
  BY <1>4, <1>5, <1>6, <1>10, <1>11, <1>12 DEF IInv, RunInv, JoinInv, MutexInv

(* The function's memory grows: there is no thread, so no key, whose       *)
(* snapshot it could differ from.                                          *)
LEMMA GrowKeeps == ASSUME IInv, Grow PROVE IInv'
<1>1. /\ size' = size + 1
      /\ UNCHANGED <<style, call, pc, job, waits, chained, futures, key, pool, stacks, tasks, asked, thread, snapshots, mutexes, held, locks>>
  BY DEF Grow, tls, poolVars, mutexVars
<1>2. TypeOK'
  BY <1>1 DEF IInv, TypeOK, Records
<1>3. RunInv'
  BY <1>1 DEF IInv, RunInv, PoolInv, JobInv, TaskInv, StateInv, StopInv
<1>4. Open' = Open
  BY <1>1 DEF Open
<1>5. KeyInv'
  <2>1. ~\E t \in Open : thread[t].os = Main
    BY DEF Grow, Own, Open
  <2> QED
    BY <1>1, <2>1 DEF IInv, JoinInv, KeyInv
<1>6. OpenInv' /\ RecordInv' /\ FutureInv' /\ ChainedInv' /\ JoinMatches' /\ SnapshotCurrent'
  BY <1>1, <1>4 DEF IInv, JoinInv, OpenInv, RecordInv, FutureInv, ChainedInv, JoinMatches, SnapshotCurrent
<1>7. HeldInv' /\ MutexExclusive'
  BY <1>1 DEF IInv, MutexInv, HeldInv, MutexExclusive
<1> QED
  BY <1>2, <1>3, <1>5, <1>6, <1>7 DEF IInv, JoinInv, MutexInv

(* Another host ends a thread that was sent there. *)
LEMMA RemoteThreadKeeps == ASSUME IInv, NEW id \in DOMAIN thread, RemoteThread(id) PROVE IInv'
<1>1. /\ thread[id].state = "sent" /\ thread[id].joined = NotJoined /\ thread' = StateSet(thread, id, "ended")
      /\ UNCHANGED <<style, call, pc, job, waits, chained, futures, key, pool, stacks, tasks, asked, snapshots, size, mutexes, held, locks>>
  BY DEF RemoteThread, StateSet, tls, poolVars, mutexVars
<1>2. "ended" \in States /\ thread \in Seq(Thread)
  BY DEF IInv, TypeOK, States
<1>3. /\ thread' \in Seq(Thread) /\ DOMAIN thread' = DOMAIN thread
      /\ \A t \in DOMAIN thread : Alike(thread'[t], thread[t]) /\ thread'[t].joined = thread[t].joined
      /\ thread'[id].state = "ended"
      /\ \A t \in DOMAIN thread \ {id} : thread'[t].state = thread[t].state
  BY <1>1, <1>2, StateSetIs
<1>4. TypeOK'
  BY <1>1, <1>3 DEF IInv, TypeOK, Records
<1>5. PoolInv'
  BY <1>1 DEF IInv, RunInv, PoolInv
<1>6. \A k \in DOMAIN tasks : tasks[k] # Shutdown => tasks[k] \in DOMAIN thread \ {id}
  BY <1>1 DEF IInv, TypeOK, RunInv, TaskInv
<1>7. \A o \in OS : job[o] # 0 => job[o] \in DOMAIN thread \ {id}
  BY <1>1 DEF IInv, TypeOK, RunInv, JobInv
<1>8. JobInv'
  BY <1>1, <1>3, <1>7 DEF IInv, RunInv, JobInv, Alike
<1>9. TaskInv'
  BY <1>1, <1>3, <1>6 DEF IInv, RunInv, TaskInv, Alike
<1>10. StopInv'
  BY <1>1, <1>3, <1>6 DEF IInv, RunInv, StopInv, Alike
<1>11. StateInv'
  <2>1. ASSUME NEW t \in DOMAIN thread
        PROVE  /\ thread'[t].call <= call
               /\ thread'[t].local => thread'[t].state # "sent"
               /\ ~thread'[t].local => thread'[t].state \in {"sent", "ended"} /\ "chain" \in style
               /\ thread'[t].state = "queued" => \E k \in DOMAIN tasks : tasks[k] = t
               /\ thread'[t].state = "running" => \E o \in OS : job[o] = t
    BY <1>1, <1>3 DEF IInv, RunInv, StateInv, Alike
  <2> QED
    BY <1>1, <1>3, <2>1 DEF StateInv
<1>12. Open' = Open
  BY <1>1, <1>3 DEF Open, Alike
<1>13. OpenInv' /\ RecordInv'
  BY <1>1, <1>3, <1>12 DEF IInv, JoinInv, OpenInv, RecordInv, Open, Alike
<1>14. FutureInv' /\ ChainedInv' /\ KeyInv'
  BY <1>1, <1>3, <1>12 DEF IInv, JoinInv, FutureInv, ChainedInv, KeyInv, Open, Alike
<1>15. JoinMatches' /\ SnapshotCurrent'
  BY <1>1, <1>3 DEF IInv, JoinInv, JoinMatches, SnapshotCurrent, Alike, ReturnValue
<1>16. HeldInv' /\ MutexExclusive'
  BY <1>1 DEF IInv, MutexInv, HeldInv, MutexExclusive
<1> QED
  BY <1>4, <1>5, <1>8, <1>9, <1>10, <1>11, <1>13, <1>14, <1>15, <1>16 DEF IInv, RunInv, JoinInv, MutexInv

-----------------------------------------------------------------------------
(* The queue at its two ends. *)
LEMMA AppendIs ==
  ASSUME NEW S, NEW s \in Seq(S), NEW x \in S
  PROVE  /\ Append(s, x) \in Seq(S) /\ DOMAIN Append(s, x) = DOMAIN s \cup {Len(s) + 1}
         /\ Append(s, x)[Len(s) + 1] = x /\ \A k \in DOMAIN s : Append(s, x)[k] = s[k] /\ k < Len(s) + 1
         /\ Len(s) + 1 \notin DOMAIN s /\ Append(s, x) # <<>> /\ Len(Append(s, x)) = Len(s) + 1
  OBVIOUS

LEMMA TailIs ==
  ASSUME NEW S, NEW s \in Seq(S), s # <<>>
  PROVE  /\ Tail(s) \in Seq(S) /\ 1 \in DOMAIN s /\ s[1] = Head(s) /\ Head(s) \in S
         /\ \A k \in DOMAIN Tail(s) : k + 1 \in DOMAIN s /\ Tail(s)[k] = s[k + 1] /\ k + 1 # 1 /\ 1 < k + 1
         /\ \A k \in DOMAIN s : k # 1 => k - 1 \in DOMAIN Tail(s) /\ Tail(s)[k - 1] = s[k]
         /\ \A k, l \in DOMAIN Tail(s) : (k + 1 = l + 1 => k = l) /\ (k < l => k + 1 < l + 1)
  OBVIOUS

LEMMA AskToStopKeeps == ASSUME IInv, AskToStop PROVE IInv'
<1>1. /\ pc[Main] = "teardown" /\ asked < Len(pool) /\ asked' = asked + 1 /\ tasks' = Append(tasks, Shutdown)
      /\ UNCHANGED <<style, call, pc, job, waits, chained, futures, key, pool, stacks, thread, snapshots, size, mutexes, held, locks>>
  BY DEF AskToStop, MoreToStop, tls, mutexVars
<1>12. tasks \in Seq({Shutdown} \cup DOMAIN thread) /\ Shutdown \in {Shutdown} \cup DOMAIN thread /\ asked \in Nat
  BY DEF IInv, TypeOK
<1>2. /\ tasks' \in Seq({Shutdown} \cup DOMAIN thread) /\ DOMAIN tasks' = DOMAIN tasks \cup {Len(tasks) + 1}
      /\ tasks'[Len(tasks) + 1] = Shutdown /\ \A k \in DOMAIN tasks : tasks'[k] = tasks[k]
      /\ Len(tasks) + 1 \notin DOMAIN tasks
  BY <1>1, <1>12, AppendIs
<1>3. TypeOK'
  <2>1. {call', size', asked', locks'} \subseteq Nat
    BY <1>1, <1>12 DEF IInv, TypeOK
  <2> QED
    BY <1>1, <1>2, <2>1 DEF IInv, TypeOK, Records
<1>4. pool # <<>>
  BY <1>1 DEF IInv, TypeOK
<1>5. PoolInv'
  BY <1>1, <1>4 DEF IInv, RunInv, PoolInv
<1>6. JobInv'
  BY <1>1 DEF IInv, RunInv, JobInv
<1>7. TaskInv' /\ StateInv'
  BY <1>1, <1>2 DEF IInv, RunInv, TaskInv, StateInv
<1>8. StopInv'
  <2>1. ASSUME NEW k \in DOMAIN tasks', NEW l \in DOMAIN tasks', k < l, tasks'[k] = Shutdown, tasks'[l] # Shutdown
        PROVE  thread[tasks'[l]].os # Main
    <3>1. l \in DOMAIN tasks /\ tasks'[l] = tasks[l]
      BY <1>2, <2>1
    <3>2. k \in DOMAIN tasks /\ tasks'[k] = tasks[k]
      <4>1. Len(tasks) + 1 > l
        BY <1>12, <3>1
      <4>2. k # Len(tasks) + 1
        BY <1>12, <2>1, <3>1, <4>1
      <4> QED
        BY <1>2, <4>2
    <3> QED
      BY <2>1, <3>1, <3>2 DEF IInv, RunInv, StopInv
  <2> QED
    BY <1>1, <1>2, <2>1 DEF IInv, RunInv, StopInv
<1>9. Open' = Open
  BY <1>1 DEF Open
<1>10. JoinInv'
  BY <1>1, <1>9 DEF IInv, JoinInv, OpenInv, RecordInv, FutureInv, ChainedInv, KeyInv, JoinMatches, SnapshotCurrent
<1>11. HeldInv' /\ MutexExclusive'
  BY <1>1 DEF IInv, MutexInv, HeldInv, MutexExclusive
<1> QED
  BY <1>3, <1>5, <1>6, <1>7, <1>8, <1>10, <1>11 DEF IInv, RunInv, MutexInv

(* When as many are gone as were started, nobody is left. *)
LEMMA AllGone ==
  ASSUME IInv, pc[Main] = "teardown", PoolStopped
  PROVE  \A o \in OS \ {Main} : pc[o] \in Resting /\ (pc[o] = "gone" \/ o > Len(pool))
<1>1. Main \in OS /\ Len(pool) \in Nat /\ OS = 0..PoolSize /\ Main = 0 /\ PoolSize \in Nat
  BY PoolAssumption DEF Main, OS, IInv, TypeOK
<1>2. IsFiniteSet(1..Len(pool)) /\ Cardinality(1..Len(pool)) = Len(pool)
  <2>1. 1 \in Int /\ Len(pool) \in Int
    BY <1>1
  <2>2. IsFiniteSet(1..Len(pool)) /\ Cardinality(1..Len(pool)) = IF 1 > Len(pool) THEN 0 ELSE Len(pool) - 1 + 1
    BY <2>1, FS_Interval
  <2> QED
    BY <1>1, <2>2
<1>3. Gone \subseteq 1..Len(pool)
  <2>1. \A o \in Gone : o # Main /\ pc[o] # "unborn" /\ o \in OS
    BY DEF Gone
  <2>2. \A o \in Gone : ~(o > Len(pool))
    BY <2>1 DEF IInv, RunInv, PoolInv
  <2> QED
    BY <1>1, <2>1, <2>2
<1>4. Gone = 1..Len(pool)
  BY <1>2, <1>3, FS_Subset DEF PoolStopped
<1>5. \A o \in OS \ {Main} : o \in 1..Len(pool) \/ o > Len(pool)
  BY <1>1
<1> QED
  BY <1>4, <1>5 DEF Gone, IInv, RunInv, PoolInv, Resting

(* The module is reset: whatever its pool was asked to do is done, for     *)
(* what the call queued came before the messages that ended the pool, and  *)
(* what threads queued they joined.                                        *)
LEMMA ResetModuleKeeps == ASSUME IInv, ResetModule PROVE IInv'
<1>1. Main \in OS
  BY PoolAssumption DEF Main, OS
<1>2. /\ pc[Main] = "teardown" /\ PoolStopped
      /\ pc' = [o \in OS |-> IF o = Main THEN "idle" ELSE "unborn"]
      /\ job' = [o \in OS |-> 0]
      /\ chained' = [o \in OS |-> IF o = Main THEN chained[o] ELSE NoneOf(Ptr)]
      /\ futures' = [o \in OS |-> IF o = Main THEN futures[o] ELSE NoneOf(Ptr)]
      /\ key' = [o \in OS |-> IF o = Main THEN key[o] ELSE NoKey]
      /\ pool' = <<>> /\ stacks' = StackTops /\ tasks' = <<>> /\ asked' = 0
      /\ size' = InitSize /\ mutexes' = NoneOf(Mutex)
      /\ UNCHANGED <<style, call, waits, thread, snapshots, held, locks>>
  BY DEF ResetModule
<1>3. \A o \in OS \ {Main} : pc[o] \in Resting /\ (pc[o] = "gone" \/ o > Len(pool))
  BY <1>2, AllGone
<1>4. \A t \in DOMAIN thread : thread[t].os \in OS
  BY ThreadFields DEF IInv, TypeOK
<1>5. \A t \in Open : thread[t].os = Main
  BY <1>3, <1>4 DEF IInv, JoinInv, OpenInv, Open
<1>6. \A k \in DOMAIN tasks : tasks[k] = Shutdown
  <2> SUFFICES ASSUME NEW k \in DOMAIN tasks, tasks[k] # Shutdown
               PROVE  FALSE
    OBVIOUS
  <2>1. /\ tasks[k] \in DOMAIN thread /\ thread[tasks[k]].state = "queued" /\ thread[tasks[k]].call = call
        /\ thread[tasks[k]].local
    BY DEF IInv, TypeOK, RunInv, TaskInv
  <2>2. tasks[k] \in Open
    BY <2>1 DEF IInv, JoinInv, JoinMatches, Open
  <2>3. Len(pool) > 0
    <3>1. tasks # <<>>
      OBVIOUS
    <3> QED
      BY <1>2, <3>1 DEF IInv, RunInv, PoolInv, TypeOK
  <2>4. 1 \in OS \ {Main} /\ ~(1 > Len(pool))
    <3>1. Len(pool) \in Nat
      BY DEF IInv, TypeOK
    <3> QED
      BY <2>3, <3>1, PoolAssumption DEF OS, Main
  <2>5. pc[1] = "gone"
    BY <1>3, <2>4
  <2>6. thread[tasks[k]].os # Main
    BY <2>4, <2>5 DEF IInv, RunInv, StopInv
  <2> QED
    BY <1>5, <2>2, <2>6
<1>7. \A o \in OS : job[o] = 0
  BY <1>3 DEF IInv, RunInv, JobInv
<1>8. \A t \in DOMAIN thread : thread[t].state \in {"sent", "ended"}
  <2>1. thread \in Seq(Thread)
    BY DEF IInv, TypeOK
  <2>2. \A t \in DOMAIN thread : t # 0
    BY <2>1
  <2>3. ASSUME NEW t \in DOMAIN thread PROVE thread[t].state \notin {"queued", "running"}
    <3>1. thread[t].state # "queued"
      <4>1. \A k \in DOMAIN tasks : tasks[k] # t
        BY <1>6, <2>2 DEF Shutdown
      <4> QED
        BY <4>1 DEF IInv, RunInv, StateInv
    <3>2. thread[t].state # "running"
      <4>1. \A o \in OS : job[o] # t
        BY <1>7, <2>2
      <4> QED
        BY <4>1 DEF IInv, RunInv, StateInv
    <3> QED
      BY <3>1, <3>2
  <2> QED
    BY <2>1, <2>3, ThreadFields DEF States
<1>9. \A o \in OS : (o = Main => chained'[o] = chained[o] /\ futures'[o] = futures[o]) /\ (o # Main => chained'[o] = NoneOf(Ptr) /\ futures'[o] = NoneOf(Ptr))
  BY <1>2
<1>10. DOMAIN NoneOf(Ptr) = {} /\ NoneOf(Ptr) \in [{} -> DOMAIN thread]
       /\ DOMAIN NoneOf(Mutex) = {} /\ NoneOf(Mutex) \in [{} -> BOOLEAN]
  BY DEF NoneOf
<1>11. TypeOK'
  <2>1. \A o \in OS :
          /\ DOMAIN chained'[o] \subseteq Ptr /\ chained'[o] \in [DOMAIN chained'[o] -> DOMAIN thread']
          /\ DOMAIN futures'[o] \subseteq Ptr /\ futures'[o] \in [DOMAIN futures'[o] -> DOMAIN thread']
    BY <1>1, <1>2, <1>9, <1>10 DEF IInv, TypeOK, Records
  <2>2. /\ style' \in Styles /\ {call', size', asked', locks'} \subseteq Nat
        /\ pc' \in [OS -> Places] /\ job' \in [OS -> {0} \cup DOMAIN thread'] /\ waits' \in [OS -> Ptr \cup Mutex \cup {Nowhere}]
    BY <1>2 DEF IInv, TypeOK, InitSize, Places
  <2>3. /\ chained' = [o \in OS |-> chained'[o]] /\ futures' = [o \in OS |-> futures'[o]]
    BY <1>2
  <2>4. /\ key' \in [OS -> 0..Len(snapshots')] /\ snapshots' \in Seq(Forked)
    BY <1>2 DEF IInv, TypeOK, NoKey
  <2>5. /\ pool' \in Seq(Nat) /\ stacks' \in Seq(Nat) /\ tasks' \in Seq({Shutdown} \cup DOMAIN thread')
        /\ thread' \in Seq(Thread)
    BY <1>2, PoolAssumption DEF IInv, TypeOK
  <2>6. /\ DOMAIN mutexes' \subseteq Mutex /\ mutexes' \in [DOMAIN mutexes' -> BOOLEAN]
        /\ held' \in [OS -> SUBSET Mutex]
    BY <1>2, <1>10 DEF IInv, TypeOK
  <2> QED
    BY <1>2, <2>1, <2>2, <2>3, <2>4, <2>5, <2>6 DEF TypeOK, Records
<1>12. \A o \in OS : pc'[o] = IF o = Main THEN "idle" ELSE "unborn"
  BY <1>2
<1>13. PoolInv'
  BY <1>1, <1>2, <1>12, PoolAssumption DEF PoolInv, Resting, OS, Main
<1>14. JobInv'
  BY <1>2, <1>12 DEF JobInv, Resting
<1>15. TaskInv' /\ StopInv'
  BY <1>1, <1>2, <1>12 DEF TaskInv, StopInv
<1>16. StateInv'
  BY <1>2, <1>8 DEF IInv, RunInv, StateInv
<1>17. Open' = Open
  BY <1>2 DEF Open
<1>18. OpenInv'
  BY <1>2, <1>5, <1>12, <1>17 DEF IInv, JoinInv, OpenInv
<1>19. RecordInv'
  BY <1>1, <1>2, <1>5, <1>9, <1>17 DEF IInv, JoinInv, RecordInv
<1>20. FutureInv' /\ ChainedInv'
  BY <1>1, <1>2, <1>9, <1>10, <1>17 DEF IInv, JoinInv, FutureInv, ChainedInv
<1>21. KeyInv'
  <2>1. "abandon" \notin style => Open = {}
    BY <1>2, <1>5 DEF IInv, JoinInv, OpenInv
  <2>2. key'[Main] = key[Main]
    BY <1>1, <1>2
  <2> QED
    BY <1>2, <1>17, <2>1, <2>2 DEF IInv, JoinInv, KeyInv
<1>22. JoinMatches' /\ SnapshotCurrent'
  BY <1>2 DEF IInv, JoinInv, JoinMatches, SnapshotCurrent
<1>23. MutexInv'
  <2>1. \A o \in OS : held'[o] = {}
    BY <1>2, <1>3 DEF IInv, MutexInv, HeldInv
  <2>2. HeldInv'
    BY <1>1, <1>12, <2>1 DEF HeldInv
  <2>3. MutexExclusive'
    BY <2>1, Zenon DEF MutexExclusive
  <2> QED
    BY <2>2, <2>3 DEF MutexInv
<1> QED
  BY <1>11, <1>13, <1>14, <1>15, <1>16, <1>18, <1>19, <1>20, <1>21, <1>22, <1>23 DEF IInv, RunInv, JoinInv

-----------------------------------------------------------------------------
(* A pool thread is started, if there is room. *)
LEMMA ExecutePthreadTaskKeeps == ASSUME IInv, NEW o \in OS, ExecutePthreadTask(o) PROVE IInv'
<1>1. /\ pc[o] = "spawn"
      /\ UNCHANGED <<style, call, job, waits, chained, futures, key, tasks, asked, thread, snapshots, size, mutexes, held, locks>>
  BY DEF ExecutePthreadTask, tls, mutexVars
<1>2. Main = 0 /\ OS = 0..PoolSize /\ PoolSize \in Nat \ {0} /\ Len(pool) \in Nat /\ Len(stacks) \in Nat
  BY PoolAssumption DEF Main, OS, IInv, TypeOK
<1>3. Len(pool) + Len(stacks) = PoolSize /\ \A q \in OS \ {Main} : pc[q] = "unborn" <=> q > Len(pool)
  BY DEF IInv, RunInv, PoolInv
<1> SUFFICES TypeOK' /\ PoolInv' /\ (\A q \in OS : pc'[q] \in Resting <=> pc[q] \in Resting)
             /\ (\A q \in OS : pc'[q] = pc[q] \/ (pc[q] \notin Turning /\ pc'[q] \notin Turning)) /\ MutexInv'
  BY <1>1, Passes DEF IInv, RunInv
<1>4. CASE ~PoolHasRoom /\ UNCHANGED <<pool, stacks>> /\ pc' = [pc EXCEPT ![o] = "run"]
  <2>1. pc'[o] = "run" /\ \A q \in OS \ {o} : pc'[q] = pc[q]
    BY <1>4 DEF IInv, TypeOK
  <2>2. TypeOK'
    <3>1. pc' \in [OS -> Places]
      BY <1>4 DEF IInv, TypeOK, Places
    <3> QED
      BY <1>1, <1>4, <3>1 DEF IInv, TypeOK, Records
  <2>3. pool # <<>>
    BY <1>2, <1>4 DEF PoolHasRoom
  <2>4. PoolInv'
    BY <1>1, <1>2, <1>4, <2>1, <2>3 DEF IInv, RunInv, PoolInv, Resting
  <2>5. HeldInv' /\ MutexExclusive'
    <3>1. \A q \in OS : pc'[q] \in {"teardown", "idle", "lock"} \cup Resting => pc[q] = pc'[q]
      BY <2>1 DEF Resting
    <3> QED
      BY <1>1, <3>1, MainInOS DEF IInv, MutexInv, HeldInv, MutexExclusive
  <2> QED
    BY <1>1, <2>1, <2>2, <2>4, <2>5 DEF Resting, Turning, MutexInv
<1>5. CASE PoolHasRoom /\ Spawn(o) /\ pc' = [pc EXCEPT ![o] = "run", ![Len(pool) + 1] = "wait"]
  <2>1. Len(pool) + 1 \in OS \ {Main} /\ Len(pool) + 1 > Len(pool) /\ Len(stacks) > 0
    BY <1>2, <1>3, <1>5 DEF PoolHasRoom
  <2>2. PICK n : n = Len(pool) + 1
    OBVIOUS
  <2>3. n \in OS \ {Main} /\ pc[n] = "unborn" /\ n # o
    BY <1>1, <1>3, <2>1, <2>2
  <2>4. pc'[o] = "run" /\ pc'[n] = "wait" /\ \A q \in OS \ {o, n} : pc'[q] = pc[q]
    BY <1>5, <2>2, <2>3 DEF IInv, TypeOK
  <2>5. /\ pool' \in Seq(Nat) /\ Len(pool') = Len(pool) + 1 /\ pool' # <<>>
        /\ stacks' \in Seq(Nat) /\ Len(stacks') = Len(stacks) - 1
    <3>1. Last(stacks) \in Nat /\ Front(stacks) \in Seq(Nat) /\ Len(Front(stacks)) = Len(stacks) - 1
      BY <2>1, LastFront DEF IInv, TypeOK
    <3>2. pool \in Seq(Nat) /\ pool' = Append(pool, Last(stacks)) /\ stacks' = Front(stacks)
      BY <1>5 DEF Spawn, IInv, TypeOK
    <3> QED
      BY <3>1, <3>2, AppendIs
  <2>6. TypeOK'
    <3>1. pc' \in [OS -> Places]
      BY <1>5 DEF IInv, TypeOK, Places
    <3> QED
      BY <1>1, <2>5, <3>1 DEF IInv, TypeOK, Records
  <2>7. \A q \in OS : (pc'[q] \in Resting <=> pc[q] \in Resting) /\ (pc'[q] = pc[q] \/ (pc[q] \notin Turning /\ pc'[q] \notin Turning))
    BY <1>1, <2>3, <2>4 DEF Resting, Turning
  <2>8. PoolInv'
    <3>1. Len(pool') + Len(stacks') = PoolSize
      <4>1. \A m, l \in Nat : (m + 1) + (l - 1) = m + l
        OBVIOUS
      <4> QED
        BY <1>2, <1>3, <2>5, <4>1
    <3>2. \A q \in OS \ {Main} : pc'[q] = "unborn" <=> q > Len(pool')
      <4>1. \A q \in OS \ {Main, n} : q > Len(pool') <=> q > Len(pool)
        BY <1>2, <2>2, <2>5
      <4>2. ~(n > Len(pool'))
        BY <1>2, <2>2, <2>5
      <4> QED
        BY <1>1, <1>3, <2>3, <2>4, <4>1, <4>2
    <3>3. pc'[Main] \notin Resting
      BY <2>7, MainInOS DEF IInv, RunInv, PoolInv
    <3>4. pc'[Main] # "idle" /\ \A q \in OS \ {Main} : pc'[q] \notin {"idle", "teardown"}
      BY <1>1, <2>1, <2>3, <2>4, MainInOS, <1>2 DEF IInv, RunInv, PoolInv
    <3> QED
      BY <2>5, <3>1, <3>2, <3>3, <3>4 DEF PoolInv
  <2>9. HeldInv' /\ MutexExclusive'
    <3>1. \A q \in OS : pc'[q] \in {"teardown", "idle", "lock"} => pc[q] = pc'[q]
      BY <2>4
    <3> QED
      BY <1>1, <2>7, <3>1, MainInOS DEF IInv, MutexInv, HeldInv, MutexExclusive
  <2> QED
    BY <2>6, <2>7, <2>8, <2>9 DEF MutexInv
<1> QED
  BY <1>4, <1>5 DEF ExecutePthreadTask

(* A pool thread takes what is next in the queue. *)
LEMMA TakeTaskKeeps == ASSUME IInv, NEW o \in OS, TakeTask(o) PROVE IInv'
<1>1. /\ pc[o] = "wait" /\ tasks # <<>> /\ tasks' = Tail(tasks)
      /\ UNCHANGED <<style, call, waits, chained, futures, key, pool, stacks, asked, snapshots, size, mutexes, held, locks>>
  BY DEF TakeTask, tls, mutexVars
<1>2. o # Main /\ Main \in OS /\ job[o] = 0
  BY <1>1, MainInOS DEF IInv, RunInv, PoolInv, JobInv, Resting
<1>3. tasks \in Seq({Shutdown} \cup DOMAIN thread) /\ thread \in Seq(Thread)
  BY DEF IInv, TypeOK
<1>4. /\ tasks' \in Seq({Shutdown} \cup DOMAIN thread) /\ 1 \in DOMAIN tasks /\ tasks[1] = Head(tasks)
      /\ Head(tasks) \in {Shutdown} \cup DOMAIN thread
      /\ \A k \in DOMAIN tasks' : k + 1 \in DOMAIN tasks /\ tasks'[k] = tasks[k + 1] /\ k + 1 # 1 /\ 1 < k + 1
      /\ \A k \in DOMAIN tasks : k # 1 => k - 1 \in DOMAIN tasks' /\ tasks'[k - 1] = tasks[k]
      /\ \A k, l \in DOMAIN tasks' : (k + 1 = l + 1 => k = l) /\ (k < l => k + 1 < l + 1)
  BY <1>1, <1>3, TailIs
<1>5. PoolInv'
  <2>1. /\ pc'[o] \notin {"idle", "teardown", "unborn", "spawn"} /\ \A q \in OS \ {o} : pc'[q] = pc[q]
    BY <1>1 DEF TakeTask, IInv, TypeOK
  <2>2. pool # <<>>
    <3>1. o > 0 /\ Len(<<>>) = 0
      BY <1>2, PoolAssumption DEF OS, Main
    <3>2. pc[o] = "unborn" <=> o > Len(pool)
      BY <1>2 DEF IInv, RunInv, PoolInv
    <3> QED
      BY <1>1, <3>1, <3>2
  <2> QED
    BY <1>1, <1>2, <2>1, <2>2 DEF IInv, RunInv, PoolInv
<1>6. \A k \in DOMAIN tasks' : tasks'[k] # Shutdown => tasks'[k] # Head(tasks)
  BY <1>4 DEF IInv, RunInv, TaskInv
<1>7. CASE Head(tasks) = Shutdown
  <2>1. pc' = [pc EXCEPT ![o] = "gone"] /\ UNCHANGED <<job, thread>>
    BY <1>7 DEF TakeTask
  <2>2. pc'[o] = "gone" /\ \A q \in OS \ {o} : pc'[q] = pc[q]
    BY <2>1 DEF IInv, TypeOK
  <2>3. TypeOK'
    <3>1. pc' \in [OS -> Places]
      BY <2>1 DEF IInv, TypeOK, Places
    <3> QED
      BY <1>1, <1>4, <2>1, <3>1 DEF IInv, TypeOK, Records
  <2>4. JobInv'
    BY <1>1, <1>2, <2>1, <2>2 DEF IInv, RunInv, JobInv, Resting
  <2>5. TaskInv'
    BY <1>1, <1>4, <2>1 DEF IInv, RunInv, TaskInv
  <2>6. StateInv'
    <3>1. ASSUME NEW t \in DOMAIN thread, thread[t].state = "queued" PROVE \E k \in DOMAIN tasks' : tasks'[k] = t
      <4>1. PICK k \in DOMAIN tasks : tasks[k] = t
        BY <3>1 DEF IInv, RunInv, StateInv
      <4>2. k # 1
        BY <1>3, <1>4, <1>7, <4>1 DEF Shutdown
      <4> QED
        BY <1>4, <4>1, <4>2
    <3> QED
      BY <1>1, <2>1, <3>1 DEF IInv, RunInv, StateInv
  <2>7. StopInv'
    <3>1. pc[Main] = "teardown"
      BY <1>4, <1>7 DEF IInv, RunInv, StopInv
    <3>2. \A k \in DOMAIN tasks' : tasks'[k] # Shutdown => thread[tasks'[k]].os # Main
      BY <1>4, <1>7 DEF IInv, RunInv, StopInv
    <3> QED
      BY <1>2, <2>1, <2>2, <3>1, <3>2 DEF StopInv
  <2>8. Open' = Open
    BY <1>1, <2>1 DEF Open
  <2>9. \A t \in Open : thread[t].os \in OS
    BY ThreadFields DEF IInv, TypeOK, Open
  <2>10. OpenInv'
    BY <1>1, <1>2, <2>1, <2>2, <2>8, <2>9 DEF IInv, JoinInv, OpenInv, Resting
  <2>11. RecordInv' /\ FutureInv' /\ ChainedInv' /\ KeyInv' /\ JoinMatches' /\ SnapshotCurrent'
    BY <1>1, <2>1, <2>8 DEF IInv, JoinInv, RecordInv, FutureInv, ChainedInv, KeyInv, JoinMatches, SnapshotCurrent
  <2>12. HeldInv' /\ MutexExclusive'
    BY <1>1, <1>2, <2>2 DEF IInv, MutexInv, HeldInv, MutexExclusive, Resting
  <2> QED
    BY <1>5, <2>3, <2>4, <2>5, <2>6, <2>7, <2>10, <2>11, <2>12 DEF IInv, RunInv, JoinInv, MutexInv
<1>8. CASE Head(tasks) # Shutdown
  <2>1. PICK id : id = Head(tasks)
    OBVIOUS
  <2>2. /\ pc' = [pc EXCEPT ![o] = "run"] /\ job' = [job EXCEPT ![o] = id]
        /\ thread' = StateSet(thread, id, "running") /\ id \in DOMAIN thread
    BY <1>4, <1>8, <2>1 DEF TakeTask, StateSet
  <2>3. /\ pc'[o] = "run" /\ \A q \in OS \ {o} : pc'[q] = pc[q]
        /\ job'[o] = id /\ \A q \in OS \ {o} : job'[q] = job[q]
    BY <2>2 DEF IInv, TypeOK
  <2>4. "running" \in States
    BY DEF States
  <2>5. /\ thread' \in Seq(Thread) /\ DOMAIN thread' = DOMAIN thread
        /\ \A t \in DOMAIN thread : Alike(thread'[t], thread[t]) /\ thread'[t].joined = thread[t].joined
        /\ thread'[id].state = "running"
        /\ \A t \in DOMAIN thread \ {id} : thread'[t].state = thread[t].state
    BY <1>3, <2>2, <2>4, StateSetIs
  <2>6. thread[id].state = "queued" /\ thread[id].call = call /\ thread[id].local /\ id # 0
    BY <1>3, <1>4, <1>8, <2>1, <2>2 DEF IInv, RunInv, TaskInv
  <2>7. \A q \in OS : job[q] # 0 => job[q] \in DOMAIN thread \ {id}
    BY <2>6 DEF IInv, TypeOK, RunInv, JobInv
  <2>8. \A k \in DOMAIN tasks' : tasks'[k] # Shutdown => tasks'[k] \in DOMAIN thread \ {id}
    BY <1>4, <1>6, <2>1
  <2>9. TypeOK'
    <3>1. pc' \in [OS -> Places] /\ job' \in [OS -> {0} \cup DOMAIN thread]
      BY <2>2 DEF IInv, TypeOK, Places
    <3> QED
      BY <1>1, <1>4, <2>5, <3>1 DEF IInv, TypeOK, Records
  <2>10. JobInv'
    <3>1. \A q \in OS : job'[q] # 0 <=> q # Main /\ pc'[q] \notin Resting
      BY <1>2, <2>3, <2>6, RestingIsNotLive DEF IInv, RunInv, JobInv
    <3>2. \A q \in OS : job'[q] # 0 => thread'[job'[q]].state = "running" /\ thread'[job'[q]].call = call /\ thread'[job'[q]].local
      BY <2>2, <2>3, <2>5, <2>6, <2>7 DEF IInv, RunInv, JobInv, Alike
    <3>3. \A q, d \in OS : job'[q] # 0 /\ job'[q] = job'[d] => q = d
      BY <2>3, <2>7 DEF IInv, RunInv, JobInv
    <3> QED
      BY <1>1, <3>1, <3>2, <3>3 DEF JobInv
  <2>11. TaskInv'
    <3>1. ASSUME NEW k \in DOMAIN tasks', tasks'[k] # Shutdown
          PROVE  thread'[tasks'[k]].state = "queued" /\ thread'[tasks'[k]].call = call /\ thread'[tasks'[k]].local
      <4>1. PICK t \in DOMAIN thread \ {id} : t = tasks'[k]
        BY <2>8, <3>1
      <4>2. k + 1 \in DOMAIN tasks /\ tasks[k + 1] = t
        BY <1>4, <4>1
      <4>3. thread[t].state = "queued" /\ thread[t].call = call /\ thread[t].local
        BY <3>1, <4>1, <4>2 DEF IInv, RunInv, TaskInv
      <4> QED
        BY <2>5, <4>1, <4>3 DEF Alike
    <3>2. \A k, l \in DOMAIN tasks' : tasks'[k] # Shutdown /\ tasks'[k] = tasks'[l] => k = l
      BY <1>4 DEF IInv, RunInv, TaskInv
    <3> QED
      BY <1>1, <3>1, <3>2 DEF TaskInv
  <2>12. StateInv'
    <3>1. ASSUME NEW t \in DOMAIN thread, thread'[t].state = "queued" PROVE \E k \in DOMAIN tasks' : tasks'[k] = t
      <4>1. t # id /\ thread[t].state = "queued"
        BY <2>5, <3>1
      <4>2. PICK k \in DOMAIN tasks : tasks[k] = t
        BY <4>1 DEF IInv, RunInv, StateInv
      <4>3. k # 1
        BY <1>4, <2>1, <4>1, <4>2
      <4> QED
        BY <1>4, <4>2, <4>3
    <3>2. ASSUME NEW t \in DOMAIN thread, thread'[t].state = "running" PROVE \E q \in OS : job'[q] = t
      <4>1. CASE t = id
        BY <2>3, <4>1
      <4>2. CASE t # id
        <5>1. PICK q \in OS : job[q] = t
          BY <2>5, <3>2, <4>2 DEF IInv, RunInv, StateInv
        <5>2. q # o
          BY <1>2, <1>3, <5>1
        <5> QED
          BY <2>3, <5>1, <5>2
      <4> QED
        BY <4>1, <4>2
    <3>3. \A t \in DOMAIN thread :
            /\ thread'[t].call <= call
            /\ thread'[t].local => thread'[t].state # "sent"
            /\ ~thread'[t].local => thread'[t].state \in {"sent", "ended"} /\ "chain" \in style
      BY <2>5, <2>6 DEF IInv, RunInv, StateInv, Alike
    <3> QED
      BY <1>1, <2>5, <3>1, <3>2, <3>3 DEF StateInv
  <2>13. StopInv'
    <3>4. \A k \in DOMAIN tasks' : tasks'[k] # Shutdown => thread'[tasks'[k]].os = thread[tasks'[k]].os
      BY <2>5, <2>8 DEF Alike
    <3>1. ASSUME NEW k \in DOMAIN tasks', NEW l \in DOMAIN tasks', k < l, tasks'[k] = Shutdown, tasks'[l] # Shutdown
          PROVE  thread'[tasks'[l]].os # Main
      <4>1. /\ k + 1 \in DOMAIN tasks /\ l + 1 \in DOMAIN tasks /\ k + 1 < l + 1
            /\ tasks[k + 1] = Shutdown /\ tasks[l + 1] # Shutdown /\ tasks[l + 1] = tasks'[l]
        BY <1>4, <3>1
      <4>2. thread[tasks[l + 1]].os # Main
        BY <4>1 DEF IInv, RunInv, StopInv
      <4> QED
        BY <3>1, <3>4, <4>1, <4>2
    <3>2. ASSUME NEW q \in OS, NEW k \in DOMAIN tasks', pc'[q] = "gone", tasks'[k] # Shutdown
          PROVE  thread'[tasks'[k]].os # Main
      <4>1. pc[q] = "gone" /\ k + 1 \in DOMAIN tasks /\ tasks[k + 1] # Shutdown /\ tasks[k + 1] = tasks'[k]
        BY <1>4, <2>3, <3>2
      <4>2. thread[tasks[k + 1]].os # Main
        BY <4>1 DEF IInv, RunInv, StopInv
      <4> QED
        BY <3>2, <3>4, <4>1, <4>2
    <3>3. pc'[Main] # "teardown" => (\A k \in DOMAIN tasks' : tasks'[k] # Shutdown) /\ \A q \in OS : pc'[q] # "gone"
      BY <1>2, <1>4, <2>3 DEF IInv, RunInv, StopInv
    <3> QED
      BY <3>1, <3>2, <3>3 DEF StopInv
  <2>14. Open' = Open
    BY <1>1, <2>5 DEF Open, Alike
  <2>15. \A t \in Open : thread[t].os \in OS /\ t \in DOMAIN thread
    BY ThreadFields DEF IInv, TypeOK, Open
  <2>16. OpenInv'
    <3>1. \A t \in Open : thread'[t].os = thread[t].os /\ thread'[t].ptr = thread[t].ptr
      BY <2>5, <2>15 DEF Alike
    <3>2. \A q \in OS : pc'[q] \in Resting => pc[q] \in Resting
      BY <2>3, RestingIsNotLive
    <3>3. pc'[Main] = pc[Main]
      BY <1>2, <2>3
    <3> QED
      BY <1>1, <2>14, <2>15, <3>1, <3>2, <3>3 DEF IInv, JoinInv, OpenInv
  <2>17. RecordInv'
    BY <1>1, <2>5, <2>14, <2>15 DEF IInv, JoinInv, RecordInv, Alike
  <2>18. FutureInv' /\ ChainedInv' /\ KeyInv'
    BY <1>1, <2>5, <2>14, <2>15 DEF IInv, JoinInv, FutureInv, ChainedInv, KeyInv, Alike
  <2>19. JoinMatches'
    <3>1. \A t \in DOMAIN thread : thread[t].joined # NotJoined => t # id
      BY <2>6 DEF IInv, JoinInv, JoinMatches
    <3> QED
      BY <2>5, <3>1 DEF IInv, JoinInv, JoinMatches, Alike
  <2>20. SnapshotCurrent'
    BY <2>5 DEF IInv, JoinInv, SnapshotCurrent, Alike
  <2>21. HeldInv' /\ MutexExclusive'
    BY <1>1, <1>2, <2>3, RestingIsNotLive DEF IInv, MutexInv, HeldInv, MutexExclusive
  <2> QED
    BY <1>5, <2>9, <2>10, <2>11, <2>12, <2>13, <2>16, <2>17, <2>18, <2>19, <2>20, <2>21 DEF IInv, RunInv, JoinInv, MutexInv
<1> QED
  BY <1>7, <1>8

(* A thread ends on its OS thread. *)
LEMMA EndThreadKeeps == ASSUME IInv, NEW o \in OS, EndThread(o) PROVE IInv'
<1>1. /\ o # Main /\ pc[o] = "run" /\ held[o] = {} /\ Own(o) = {}
      /\ pc' = [pc EXCEPT ![o] = "wait"] /\ job' = [job EXCEPT ![o] = 0]
      /\ UNCHANGED <<style, call, waits, chained, futures, key, pool, stacks, tasks, asked, snapshots, size, mutexes, held, locks>>
  BY DEF EndThread, Runs, tls, poolVars, mutexVars
<1>2. PICK id : id = job[o]
  OBVIOUS
<1>3. id \in DOMAIN thread /\ thread[id].state = "running" /\ thread[id].call = call /\ thread[id].local /\ id # 0
  BY <1>1, <1>2, RestingIsNotLive DEF IInv, TypeOK, RunInv, JobInv
<1>4. thread' = StateSet(thread, id, "ended") /\ thread \in Seq(Thread) /\ "ended" \in States
  BY <1>2 DEF EndThread, StateSet, IInv, TypeOK, States
<1>5. /\ thread' \in Seq(Thread) /\ DOMAIN thread' = DOMAIN thread
      /\ \A t \in DOMAIN thread : Alike(thread'[t], thread[t]) /\ thread'[t].joined = thread[t].joined
      /\ thread'[id].state = "ended"
      /\ \A t \in DOMAIN thread \ {id} : thread'[t].state = thread[t].state
  BY <1>3, <1>4, StateSetIs
<1>6. /\ pc'[o] = "wait" /\ \A q \in OS \ {o} : pc'[q] = pc[q]
      /\ job'[o] = 0 /\ \A q \in OS \ {o} : job'[q] = job[q]
  BY <1>1 DEF IInv, TypeOK
<1>7. TypeOK'
  <2>1. pc' \in [OS -> Places] /\ job' \in [OS -> {0} \cup DOMAIN thread]
    BY <1>1 DEF IInv, TypeOK, Places
  <2> QED
    BY <1>1, <1>5, <2>1 DEF IInv, TypeOK, Records
<1>8. PoolInv'
  BY <1>1, <1>6, MainInOS DEF IInv, RunInv, PoolInv
<1>9. \A q \in OS \ {o} : job[q] # 0 => job[q] \in DOMAIN thread \ {id}
  BY <1>2, <1>3 DEF IInv, TypeOK, RunInv, JobInv
<1>10. \A k \in DOMAIN tasks : tasks[k] # Shutdown => tasks[k] \in DOMAIN thread \ {id}
  BY <1>3 DEF IInv, TypeOK, RunInv, TaskInv
<1>11. JobInv'
  <2>1. \A q \in OS : job'[q] # 0 <=> q # Main /\ pc'[q] \notin Resting
    BY <1>6 DEF IInv, RunInv, JobInv, Resting
  <2>2. \A q \in OS : job'[q] # 0 => thread'[job'[q]].state = "running" /\ thread'[job'[q]].call = call /\ thread'[job'[q]].local
    BY <1>5, <1>6, <1>9 DEF IInv, RunInv, JobInv, Alike
  <2>3. \A q, d \in OS : job'[q] # 0 /\ job'[q] = job'[d] => q = d
    BY <1>6 DEF IInv, RunInv, JobInv
  <2> QED
    BY <1>1, <2>1, <2>2, <2>3 DEF JobInv
<1>12. TaskInv'
  BY <1>1, <1>5, <1>10 DEF IInv, RunInv, TaskInv, Alike
<1>13. StateInv'
  <2>1. ASSUME NEW t \in DOMAIN thread, thread'[t].state = "running" PROVE \E q \in OS : job'[q] = t
    <3>1. t # id /\ thread[t].state = "running"
      BY <1>5, <2>1
    <3>2. PICK q \in OS : job[q] = t
      BY <3>1 DEF IInv, RunInv, StateInv
    <3> QED
      BY <1>2, <1>6, <3>1, <3>2
  <2>2. \A t \in DOMAIN thread : thread'[t].state = "queued" => \E k \in DOMAIN tasks' : tasks'[k] = t
    BY <1>1, <1>5 DEF IInv, RunInv, StateInv
  <2>3. \A t \in DOMAIN thread :
          /\ thread'[t].call <= call
          /\ thread'[t].local => thread'[t].state # "sent"
          /\ ~thread'[t].local => thread'[t].state \in {"sent", "ended"} /\ "chain" \in style
    BY <1>5 DEF IInv, RunInv, StateInv, Alike
  <2> QED
    BY <1>1, <1>5, <2>1, <2>2, <2>3 DEF StateInv
<1>14. StopInv'
  <2>1. \A k \in DOMAIN tasks : tasks[k] # Shutdown => thread'[tasks[k]].os = thread[tasks[k]].os
    BY <1>5, <1>10 DEF Alike
  <2>2. \A q \in OS : pc'[q] = "gone" <=> pc[q] = "gone"
    BY <1>1, <1>6
  <2> QED
    BY <1>1, <1>6, <2>1, <2>2, MainInOS DEF IInv, RunInv, StopInv
<1>15. Open' = Open
  BY <1>1, <1>5 DEF Open, Alike
<1>16. \A t \in Open : thread[t].os \in OS \ {o} /\ t \in DOMAIN thread
  <2>1. \A t \in Open : thread[t].os \in OS /\ t \in DOMAIN thread
    BY ThreadFields DEF IInv, TypeOK, Open
  <2> QED
    BY <1>1, <2>1 DEF Own, Open
<1>17. OpenInv'
  <2>1. \A t \in Open : thread'[t].os = thread[t].os /\ thread'[t].ptr = thread[t].ptr /\ pc'[thread[t].os] = pc[thread[t].os]
    BY <1>5, <1>6, <1>16 DEF Alike
  <2>2. pc'[Main] = pc[Main]
    BY <1>1, <1>6, MainInOS
  <2> QED
    BY <1>1, <1>15, <2>1, <2>2 DEF IInv, JoinInv, OpenInv
<1>18. RecordInv'
  BY <1>1, <1>5, <1>15, <1>16 DEF IInv, JoinInv, RecordInv, Alike
<1>19. FutureInv' /\ ChainedInv' /\ KeyInv'
  BY <1>1, <1>5, <1>15, <1>16 DEF IInv, JoinInv, FutureInv, ChainedInv, KeyInv, Alike
<1>20. JoinMatches' /\ SnapshotCurrent'
  BY <1>5 DEF IInv, JoinInv, JoinMatches, SnapshotCurrent, Alike
<1>21. HeldInv' /\ MutexExclusive'
  BY <1>1, <1>6, MainInOS DEF IInv, MutexInv, HeldInv, MutexExclusive
<1> QED
  BY <1>7, <1>8, <1>11, <1>12, <1>13, <1>14, <1>17, <1>18, <1>19, <1>20, <1>21 DEF IInv, RunInv, JoinInv, MutexInv

-----------------------------------------------------------------------------
(* pthread_join: what is left of a record without the joined thread. *)
Left(f, g, p) ==
  /\ f \in [DOMAIN f -> Nat] /\ DOMAIN f \subseteq DOMAIN g /\ DOMAIN g \ {p} \subseteq DOMAIN f
  /\ \A x \in DOMAIN f : f[x] = g[x]

LEMMA WithoutLeft ==
  ASSUME NEW g, NEW p, g \in [DOMAIN g -> Nat]
  PROVE  Left(Without(g, p), g, p) /\ p \notin DOMAIN Without(g, p) /\ Left(g, g, p)
  BY DEF Left, Without, Restrict

LEMMA JoinedKeeps ==
  ASSUME IInv, NEW o \in OS, NEW value \in Int, NEW ch, NEW fu, pc[o] = "join", value # NotJoined,
         Left(ch, chained[o], waits[o]), Left(fu, futures[o], waits[o]),
         "abandon" \notin style => waits[o] \notin DOMAIN ch /\ waits[o] \notin DOMAIN fu,
         \A t \in Open : thread[t].os = o /\ thread[t].ptr = waits[o] =>
           (value = t /\ thread[t].state = "ended") \/ (value = TimedOut /\ ~thread[t].local),
         Joined(o, value, ch, fu)
  PROVE  IInv'
<1> DEFINE p == waits[o]
           J == {t \in Own(o) : thread[t].ptr = p}
<1>1. /\ chained' = [chained EXCEPT ![o] = ch] /\ futures' = [futures EXCEPT ![o] = fu]
      /\ key' = [key EXCEPT ![o] = KeyAfterJoin(o, ch, fu)]
      /\ pc' = [pc EXCEPT ![o] = "run"] /\ waits' = [waits EXCEPT ![o] = Nowhere]
      /\ UNCHANGED <<style, call, job, pool, stacks, tasks, asked, snapshots, size, mutexes, held, locks>>
  BY DEF Joined, poolVars, mutexVars
<1>2. thread' = JoinedAs(thread, J, value)
  <2>1. \A t \in DOMAIN thread : t \in J <=> t \in Own(o) /\ thread[t].ptr = waits[o]
    OBVIOUS
  <2> QED
    BY <2>1 DEF Joined, JoinedAs
<1>3. \A t : t \in J <=> t \in Open /\ thread[t].os = o /\ thread[t].ptr = p
  BY DEF Own, Open
<1> HIDE DEF J, p
<1>4. thread \in Seq(Thread)
  BY DEF IInv, TypeOK
<1>5. /\ thread' \in Seq(Thread) /\ DOMAIN thread' = DOMAIN thread
      /\ \A t \in DOMAIN thread : Alike(thread'[t], thread[t]) /\ thread'[t].state = thread[t].state
      /\ \A t \in DOMAIN thread : thread'[t].joined = IF t \in J THEN value ELSE thread[t].joined
  BY <1>2, <1>4, JoinedAsIs
<1>6. /\ pc'[o] = "run" /\ \A q \in OS \ {o} : pc'[q] = pc[q] /\ waits'[q] = waits[q]
      /\ chained'[o] = ch /\ futures'[o] = fu
      /\ \A q \in OS \ {o} : chained'[q] = chained[q] /\ futures'[q] = futures[q]
      /\ key'[o] = KeyAfterJoin(o, ch, fu) /\ \A q \in OS \ {o} : key'[q] = key[q]
  BY <1>1 DEF IInv, TypeOK
<1>7. TypeOK'
  <2>1. pc' \in [OS -> Places] /\ waits' \in [OS -> Ptr \cup Mutex \cup {Nowhere}]
    BY <1>1 DEF IInv, TypeOK, Places
  <2>2. key' \in [OS -> 0..Len(snapshots)]
    <3>1. KeyAfterJoin(o, ch, fu) \in 0..Len(snapshots)
      BY DEF KeyAfterJoin, NoKey, IInv, TypeOK
    <3> QED
      BY <1>1, <3>1 DEF IInv, TypeOK
  <2>3. Records(ch) /\ Records(fu)
    BY DEF Records, Left, IInv, TypeOK
  <2>4. \A q \in OS :
          /\ DOMAIN chained'[q] \subseteq Ptr /\ chained'[q] \in [DOMAIN chained'[q] -> DOMAIN thread']
          /\ DOMAIN futures'[q] \subseteq Ptr /\ futures'[q] \in [DOMAIN futures'[q] -> DOMAIN thread']
    BY <1>5, <1>6, <2>3 DEF IInv, TypeOK, Records
  <2>5. chained' = [q \in OS |-> chained'[q]] /\ futures' = [q \in OS |-> futures'[q]]
    BY <1>1 DEF IInv, TypeOK
  <2> QED
    BY <1>1, <1>5, <2>1, <2>2, <2>4, <2>5 DEF IInv, TypeOK, Records
<1>8. PoolInv'
  BY <1>1, <1>6 DEF IInv, RunInv, PoolInv, Resting
<1>9. JobInv'
  <2>1. \A q \in OS : pc'[q] \in Resting <=> pc[q] \in Resting
    BY <1>6, RestingIsNotLive
  <2>2. \A q \in OS : job[q] # 0 => job[q] \in DOMAIN thread
    BY DEF IInv, TypeOK
  <2> QED
    BY <1>1, <1>5, <2>1, <2>2 DEF IInv, RunInv, JobInv, Alike
<1>10. \A k \in DOMAIN tasks : tasks[k] # Shutdown => tasks[k] \in DOMAIN thread
  BY DEF IInv, TypeOK
<1>11. TaskInv'
  BY <1>1, <1>5, <1>10 DEF IInv, RunInv, TaskInv, Alike
<1>12. StateInv'
  <2>1. \A t \in DOMAIN thread :
          /\ thread'[t].call <= call
          /\ thread'[t].local => thread'[t].state # "sent"
          /\ ~thread'[t].local => thread'[t].state \in {"sent", "ended"} /\ "chain" \in style
          /\ thread'[t].state = "queued" => \E k \in DOMAIN tasks : tasks[k] = t
          /\ thread'[t].state = "running" => \E q \in OS : job[q] = t
    BY <1>5 DEF IInv, RunInv, StateInv, Alike
  <2> QED
    BY <1>1, <1>5, <2>1 DEF StateInv
<1>13. StopInv'
  <2>1. \A k \in DOMAIN tasks : tasks[k] # Shutdown => thread'[tasks[k]].os = thread[tasks[k]].os
    BY <1>5, <1>10 DEF Alike
  <2>2. (\A q \in OS : pc'[q] = "gone" <=> pc[q] = "gone") /\ (pc'[Main] = "teardown" <=> pc[Main] = "teardown")
    BY <1>6, MainInOS
  <2> QED
    BY <1>1, <2>1, <2>2 DEF IInv, RunInv, StopInv
<1>14. Open' = Open \ J
  <2>1. \A t \in DOMAIN thread : t \in Open' <=> t \in Open \ J
    BY <1>1, <1>5 DEF Open, Alike
  <2> QED
    BY <1>5, <2>1 DEF Open
<1>15. \A t \in Open :
         /\ t \in DOMAIN thread /\ thread[t].os \in OS
         /\ thread'[t].os = thread[t].os /\ thread'[t].ptr = thread[t].ptr /\ thread'[t].local = thread[t].local
  BY <1>4, <1>5, ThreadFields DEF Open, Alike
<1>16. OpenInv'
  <2>1. \A q \in OS : (pc'[q] \in Resting <=> pc[q] \in Resting) /\ (pc'[q] \in {"teardown", "idle"} <=> pc[q] \in {"teardown", "idle"})
    BY <1>6, RestingIsNotLive
  <2> QED
    BY <1>1, <1>14, <1>15, <2>1, MainInOS DEF IInv, JoinInv, OpenInv
<1>17. RecordInv'
  <2>1. ASSUME NEW t \in Open \ J, thread[t].os = o
        PROVE  /\ thread[t].local => thread[t].ptr \in DOMAIN fu /\ fu[thread[t].ptr] = t
               /\ ~thread[t].local => thread[t].ptr \in DOMAIN ch /\ ch[thread[t].ptr] = t /\ thread[t].ptr \notin DOMAIN fu
    <3>1. thread[t].ptr # p
      BY <1>3, <2>1
    <3> QED
      BY <2>1, <3>1 DEF IInv, JoinInv, RecordInv, Left, p
  <2>2. ASSUME NEW t \in Open \ J
        PROVE  /\ thread[t].local =>
                    thread[t].ptr \in DOMAIN futures'[thread[t].os] /\ futures'[thread[t].os][thread[t].ptr] = t
               /\ ~thread[t].local =>
                    /\ thread[t].ptr \in DOMAIN chained'[thread[t].os] /\ chained'[thread[t].os][thread[t].ptr] = t
                    /\ thread[t].ptr \notin DOMAIN futures'[thread[t].os]
    <3>1. CASE thread[t].os = o
      BY <1>6, <2>1, <3>1
    <3>2. CASE thread[t].os # o
      BY <1>6, <1>15, <3>2 DEF IInv, JoinInv, RecordInv
    <3> QED
      BY <3>1, <3>2
  <2> QED
    BY <1>14, <1>15, <2>2 DEF RecordInv
<1>18. FutureInv'
  <2> SUFFICES ASSUME "abandon" \notin style, NEW q \in OS, NEW x \in DOMAIN futures'[q]
               PROVE  futures'[q][x] \in Open \ J /\ thread[futures'[q][x]].local
                      /\ thread[futures'[q][x]].os = q /\ thread[futures'[q][x]].ptr = x
    BY <1>1, <1>14, <1>15 DEF FutureInv
  <2>1. x \in DOMAIN futures[q] /\ futures'[q][x] = futures[q][x] /\ (q = o => x # p)
    BY <1>6 DEF Left, p
  <2> QED
    BY <1>3, <2>1 DEF IInv, JoinInv, FutureInv
<1>19. ChainedInv'
  <2> SUFFICES ASSUME "abandon" \notin style, NEW q \in OS, NEW x \in DOMAIN chained'[q]
               PROVE  chained'[q][x] \in Open \ J /\ ~thread[chained'[q][x]].local
                      /\ thread[chained'[q][x]].os = q /\ thread[chained'[q][x]].ptr = x
    BY <1>1, <1>14, <1>15 DEF ChainedInv
  <2>1. x \in DOMAIN chained[q] /\ chained'[q][x] = chained[q][x] /\ (q = o => x # p)
    BY <1>6 DEF Left, p
  <2> QED
    BY <1>3, <2>1 DEF IInv, JoinInv, ChainedInv
<1>20. KeyInv'
  <2> SUFFICES ASSUME "abandon" \notin style, key'[Main] # NoKey
               PROVE  /\ key'[Main] = key[Main]
                      /\ \E t \in Open \ J : thread[t].os = Main
    BY <1>1, <1>14, <1>15 DEF IInv, JoinInv, KeyInv
  <2>1. CASE o # Main
    <3>1. key'[Main] = key[Main]
      BY <1>6, <2>1, MainInOS
    <3>2. PICK t \in Open : thread[t].os = Main
      BY <3>1 DEF IInv, JoinInv, KeyInv
    <3>3. t \notin J
      BY <1>3, <2>1, <3>2
    <3> QED
      BY <3>1, <3>2, <3>3
  <2>2. CASE o = Main
    <3>1. key'[Main] = key[Main] /\ (DOMAIN ch # {} \/ DOMAIN fu # {})
      BY <1>6, <2>2 DEF KeyAfterJoin
    <3>2. CASE DOMAIN ch # {}
      <4>1. PICK x : x \in DOMAIN ch
        BY <3>2
      <4>2. ch[x] \in Open \ J /\ thread'[ch[x]].os = Main
        BY <1>1, <1>6, <1>14, <1>19, <2>2, <4>1, MainInOS DEF ChainedInv
      <4> QED
        BY <1>15, <3>1, <4>2
    <3>3. CASE DOMAIN fu # {}
      <4>1. PICK x : x \in DOMAIN fu
        BY <3>3
      <4>2. fu[x] \in Open \ J /\ thread'[fu[x]].os = Main
        BY <1>1, <1>6, <1>14, <1>18, <2>2, <4>1, MainInOS DEF FutureInv
      <4> QED
        BY <1>15, <3>1, <4>2
    <3> QED
      BY <3>1, <3>2, <3>3
  <2> QED
    BY <2>1, <2>2
<1>21. JoinMatches'
  <2> SUFFICES ASSUME NEW t \in DOMAIN thread, thread'[t].joined # NotJoined
               PROVE  \/ thread'[t].joined = t /\ thread[t].state = "ended"
                      \/ thread'[t].joined = TimedOut /\ ~thread[t].local
    BY <1>5 DEF JoinMatches, ReturnValue, Alike
  <2>1. CASE t \in J
    BY <1>3, <1>5, <2>1 DEF p
  <2>2. CASE t \notin J
    BY <1>5, <2>2 DEF IInv, JoinInv, JoinMatches, ReturnValue
  <2> QED
    BY <2>1, <2>2
<1>22. SnapshotCurrent'
  BY <1>5 DEF IInv, JoinInv, SnapshotCurrent, Alike
<1>23. HeldInv' /\ MutexExclusive'
  BY <1>1, <1>6, RestingIsNotLive DEF IInv, MutexInv, HeldInv, MutexExclusive
<1> QED
  BY <1>7, <1>8, <1>9, <1>11, <1>12, <1>13, <1>16, <1>17, <1>18, <1>19, <1>20, <1>21, <1>22, <1>23
  DEF IInv, RunInv, JoinInv, MutexInv

LEMMA RecordsAre ==
  ASSUME IInv, NEW o \in OS
  PROVE  /\ chained[o] \in [DOMAIN chained[o] -> Nat] /\ futures[o] \in [DOMAIN futures[o] -> Nat]
         /\ \A p \in DOMAIN chained[o] : chained[o][p] \in DOMAIN thread /\ chained[o][p] \in Nat \ {0}
         /\ \A p \in DOMAIN futures[o] : futures[o][p] \in DOMAIN thread /\ futures[o][p] \in Nat \ {0}
<1>1. thread \in Seq(Thread) /\ Records(chained[o]) /\ Records(futures[o])
  BY DEF IInv, TypeOK
<1>2. DOMAIN thread \subseteq Nat \ {0}
  BY <1>1
<1> QED
  BY <1>1, <1>2 DEF Records

(* The thread ran here. *)
LEMMA JoinLocalKeeps == ASSUME IInv, NEW o \in OS, JoinLocal(o) PROVE IInv'
<1>1. /\ pc[o] = "join" /\ waits[o] \in DOMAIN futures[o] /\ thread[futures[o][waits[o]]].state = "ended"
      /\ Joined(o, futures[o][waits[o]], chained[o], Without(futures[o], waits[o]))
  BY DEF JoinLocal, ReturnValue
<1>2. futures[o][waits[o]] \in Int /\ futures[o][waits[o]] # NotJoined
  BY <1>1, RecordsAre DEF NotJoined
<1>3. /\ Left(chained[o], chained[o], waits[o])
      /\ Left(Without(futures[o], waits[o]), futures[o], waits[o]) /\ waits[o] \notin DOMAIN Without(futures[o], waits[o])
  BY RecordsAre, WithoutLeft
<1>4. \A t \in Open : thread[t].os = o /\ thread[t].ptr = waits[o] => thread[t].local /\ futures[o][waits[o]] = t
  BY <1>1 DEF IInv, JoinInv, RecordInv, Open
<1>5. "abandon" \notin style => waits[o] \notin DOMAIN chained[o]
  BY <1>4 DEF IInv, JoinInv, ChainedInv
<1> QED
  BY <1>1, <1>2, <1>3, <1>4, <1>5, JoinedKeeps

(* The thread left, and its result came or did not. *)
LEMMA JoinChainedKeeps == ASSUME IInv, NEW o \in OS, JoinChained(o) PROVE IInv'
<1>1. /\ pc[o] = "join" /\ waits[o] \notin DOMAIN futures[o] /\ waits[o] \in DOMAIN chained[o]
  BY DEF JoinChained
<1>2. PICK value \in {chained[o][waits[o]], TimedOut} :
         /\ value # TimedOut => thread[value].state = "ended"
         /\ Joined(o, value, Without(chained[o], waits[o]), futures[o])
  BY DEF JoinChained
<1>3. value \in Int /\ value # NotJoined
  BY <1>1, RecordsAre DEF NotJoined, TimedOut
<1>4. /\ Left(futures[o], futures[o], waits[o])
      /\ Left(Without(chained[o], waits[o]), chained[o], waits[o]) /\ waits[o] \notin DOMAIN Without(chained[o], waits[o])
  BY RecordsAre, WithoutLeft
<1>5. \A t \in Open : thread[t].os = o /\ thread[t].ptr = waits[o] => ~thread[t].local /\ chained[o][waits[o]] = t
  BY <1>1, ThreadFields DEF IInv, TypeOK, JoinInv, RecordInv, Open
<1>6. \A t \in Open : thread[t].os = o /\ thread[t].ptr = waits[o] =>
        (value = t /\ thread[t].state = "ended") \/ (value = TimedOut /\ ~thread[t].local)
  BY <1>2, <1>5
<1> QED
  BY <1>1, <1>2, <1>3, <1>4, <1>6, JoinedKeeps

LEMMA BeginJoinKeeps == ASSUME IInv, NEW o \in OS, NEW p \in Ptr, BeginJoin(o, p) PROVE IInv'
<1>1. /\ pc[o] = "run" /\ pc' = [pc EXCEPT ![o] = "join"] /\ waits' = [waits EXCEPT ![o] = p]
      /\ UNCHANGED <<style, call, job, chained, futures, key, pool, stacks, tasks, asked, thread, snapshots, size, mutexes, held, locks>>
  BY DEF BeginJoin, Runs, tls, poolVars, mutexVars
<1>2. pc'[o] = "join" /\ \A q \in OS \ {o} : pc'[q] = pc[q] /\ waits'[q] = waits[q]
  BY <1>1 DEF IInv, TypeOK
<1>3. \A q \in OS : pc'[q] = pc[q] \/ {pc[q], pc'[q]} \subseteq Live
  BY <1>1, <1>2 DEF Live
<1>4. TypeOK'
  <2>1. pc' \in [OS -> Places] /\ waits' \in [OS -> Ptr \cup Mutex \cup {Nowhere}]
    BY <1>1 DEF IInv, TypeOK, Places
  <2> QED
    BY <1>1, <2>1 DEF IInv, TypeOK, Records
<1>5. HeldInv' /\ MutexExclusive'
  BY <1>1, <1>2, RestingIsNotLive DEF IInv, MutexInv, HeldInv, MutexExclusive
<1> QED
  BY <1>1, <1>3, <1>4, <1>5, Moves DEF IInv, MutexInv

-----------------------------------------------------------------------------
(* Mutexes: what they leave alone, and what they do. *)
LEMMA MutexStep ==
  ASSUME IInv, UNCHANGED <<style, call, job, chained, futures, key, pool, stacks, tasks, asked, thread, snapshots, size>>,
         \A o \in OS : pc'[o] = pc[o] \/ {pc[o], pc'[o]} \subseteq Live,
         pc' \in [OS -> Places], waits' \in [OS -> Ptr \cup Mutex \cup {Nowhere}], locks' \in Nat,
         DOMAIN mutexes' \subseteq Mutex /\ mutexes' \in [DOMAIN mutexes' -> BOOLEAN], held' \in [OS -> SUBSET Mutex],
         \A o \in OS : held'[o] = held[o] \/ pc[o] \in Live,
         \A o \in OS : pc'[o] = "lock" => held'[o] = {} /\ waits'[o] \in Mutex,
         MutexExclusive'
  PROVE  IInv'
<1>1. TypeOK'
  BY DEF IInv, TypeOK, Records
<1>2. HeldInv'
  BY MainInOS DEF IInv, MutexInv, HeldInv, Live, Resting
<1> QED
  BY <1>1, <1>2, Moves DEF IInv, MutexInv

LEMMA WithIs ==
  ASSUME NEW f, NEW x, NEW v
  PROVE  /\ DOMAIN With(f, x, v) = DOMAIN f \cup {x} /\ With(f, x, v)[x] = v
         /\ \A y \in DOMAIN f \ {x} : With(f, x, v)[y] = f[y]
         /\ With(f, x, v) = [y \in DOMAIN With(f, x, v) |-> With(f, x, v)[y]]
  BY DEF With

LEMMA PresentIs ==
  ASSUME IInv, NEW mx \in Mutex
  PROVE  /\ DOMAIN Present(mx) \subseteq Mutex /\ Present(mx) \in [DOMAIN Present(mx) -> BOOLEAN] /\ mx \in DOMAIN Present(mx)
         /\ \A y \in DOMAIN mutexes : y \in DOMAIN Present(mx) /\ Present(mx)[y] = mutexes[y]
<1>1. DOMAIN mutexes \subseteq Mutex /\ mutexes \in [DOMAIN mutexes -> BOOLEAN]
  BY DEF IInv, TypeOK
<1>2. FALSE \in BOOLEAN
  OBVIOUS
<1> QED
  BY <1>1, <1>2 DEF Present, Inserted, With

LEMMA LocksIs ==
  ASSUME IInv, NEW o \in OS, NEW mx \in Mutex, held[o] = {}, Locks(o, mx), mx \notin DOMAIN mutexes \/ ~mutexes[mx]
  PROVE  /\ DOMAIN mutexes' \subseteq Mutex /\ mutexes' \in [DOMAIN mutexes' -> BOOLEAN]
         /\ held' \in [OS -> SUBSET Mutex] /\ MutexExclusive'
         /\ held'[o] = {mx} /\ \A q \in OS \ {o} : held'[q] = held[q]
<1>1. mutexes' = With(mutexes, mx, TRUE) /\ held' = [held EXCEPT ![o] = held[o] \cup {mx}]
  BY DEF Locks
<1>2. DOMAIN mutexes \subseteq Mutex /\ mutexes \in [DOMAIN mutexes -> BOOLEAN] /\ held \in [OS -> SUBSET Mutex]
  BY DEF IInv, TypeOK
<1>3. /\ DOMAIN mutexes' = DOMAIN mutexes \cup {mx} /\ mutexes'[mx] = TRUE
      /\ \A y \in DOMAIN mutexes \ {mx} : mutexes'[y] = mutexes[y]
      /\ mutexes' = [y \in DOMAIN mutexes' |-> mutexes'[y]]
  <2>1. mutexes' = [y \in DOMAIN mutexes \cup {mx} |-> IF y = mx THEN TRUE ELSE mutexes[y]]
    BY <1>1 DEF With
  <2> QED
    BY <2>1
<1>4. held'[o] = {mx} /\ \A q \in OS \ {o} : held'[q] = held[q]
  BY <1>1, <1>2
<1>5. mutexes' \in [DOMAIN mutexes' -> BOOLEAN]
  <2>1. \A y \in DOMAIN mutexes' : mutexes'[y] \in BOOLEAN
    BY <1>2, <1>3
  <2> QED
    BY <1>3, <2>1
<1>6. \A q \in OS : mx \notin held[q]
  BY DEF IInv, MutexInv, MutexExclusive
<1>7. \A q \in OS : \A y \in held'[q] : y \in DOMAIN mutexes' /\ mutexes'[y]
  <2>1. \A q \in OS : \A y \in held[q] : y # mx /\ y \in DOMAIN mutexes /\ mutexes[y]
    BY <1>6 DEF IInv, MutexInv, MutexExclusive
  <2> QED
    BY <1>3, <1>4, <2>1
<1>8. \A q, d \in OS : q # d => held'[q] \cap held'[d] = {}
  BY <1>4, <1>6 DEF IInv, MutexInv, MutexExclusive
<1>9. MutexExclusive'
  BY <1>7, <1>8, Zenon DEF MutexExclusive
<1> QED
  BY <1>1, <1>2, <1>3, <1>4, <1>5, <1>9

LEMMA MutexInitKeeps == ASSUME IInv, NEW o \in OS, NEW mx \in Mutex, MutexInit(o, mx) PROVE IInv'
<1>1. /\ pc[o] = "run" /\ locks' = locks + 1 /\ mutexes' = Present(mx)
      /\ UNCHANGED <<style, call, pc, job, waits, chained, futures, key, pool, stacks, tasks, asked, thread, snapshots, size, held>>
  BY DEF MutexInit, CreateMutex, Sync, Runs, tls, poolVars
<1>2. locks' \in Nat /\ pc' \in [OS -> Places] /\ waits' \in [OS -> Ptr \cup Mutex \cup {Nowhere}] /\ held' \in [OS -> SUBSET Mutex]
  BY <1>1 DEF IInv, TypeOK
<1>3. /\ DOMAIN mutexes' \subseteq Mutex /\ mutexes' \in [DOMAIN mutexes' -> BOOLEAN]
      /\ \A y \in DOMAIN mutexes : y \in DOMAIN mutexes' /\ mutexes'[y] = mutexes[y]
  BY <1>1, PresentIs
<1>4. MutexExclusive'
  BY <1>1, <1>3, Zenon DEF IInv, MutexInv, MutexExclusive
<1>5. \A q \in OS : pc'[q] = "lock" => held'[q] = {} /\ waits'[q] \in Mutex
  BY <1>1 DEF IInv, MutexInv, HeldInv
<1> QED
  BY <1>1, <1>2, <1>3, <1>4, <1>5, MutexStep

LEMMA MutexLockKeeps == ASSUME IInv, NEW o \in OS, NEW mx \in Mutex, MutexLock(o, mx) PROVE IInv'
<1>1. /\ pc[o] = "run" /\ held[o] = {} /\ locks' = locks + 1 /\ mutexes' = Present(mx)
      /\ pc' = [pc EXCEPT ![o] = "lock"] /\ waits' = [waits EXCEPT ![o] = mx]
      /\ UNCHANGED <<style, call, job, chained, futures, key, pool, stacks, tasks, asked, thread, snapshots, size, held>>
  BY DEF MutexLock, Sync, Runs, tls, poolVars
<1>2. locks' \in Nat /\ pc' \in [OS -> Places] /\ waits' \in [OS -> Ptr \cup Mutex \cup {Nowhere}] /\ held' \in [OS -> SUBSET Mutex]
  BY <1>1 DEF IInv, TypeOK, Places
<1>3. /\ DOMAIN mutexes' \subseteq Mutex /\ mutexes' \in [DOMAIN mutexes' -> BOOLEAN]
      /\ \A y \in DOMAIN mutexes : y \in DOMAIN mutexes' /\ mutexes'[y] = mutexes[y]
  BY <1>1, PresentIs
<1>4. MutexExclusive'
  BY <1>1, <1>3, Zenon DEF IInv, MutexInv, MutexExclusive
<1>5. pc'[o] = "lock" /\ waits'[o] = mx /\ \A q \in OS \ {o} : pc'[q] = pc[q] /\ waits'[q] = waits[q]
  BY <1>1 DEF IInv, TypeOK
<1>6. \A q \in OS : (pc'[q] = pc[q] \/ {pc[q], pc'[q]} \subseteq Live) /\ (pc'[q] = "lock" => held'[q] = {} /\ waits'[q] \in Mutex)
  BY <1>1, <1>5 DEF IInv, MutexInv, HeldInv, Live
<1> QED
  BY <1>1, <1>2, <1>3, <1>4, <1>6, MutexStep

LEMMA LockMutexKeeps == ASSUME IInv, NEW o \in OS, LockMutex(o) PROVE IInv'
<1>1. /\ pc[o] = "lock" /\ ~mutexes[waits[o]] /\ Locks(o, waits[o])
      /\ pc' = [pc EXCEPT ![o] = "run"] /\ waits' = [waits EXCEPT ![o] = Nowhere]
      /\ UNCHANGED <<style, call, job, chained, futures, key, pool, stacks, tasks, asked, thread, snapshots, size, locks>>
  BY DEF LockMutex, tls, poolVars
<1>2. /\ locks' \in Nat /\ pc' \in [OS -> Places] /\ waits' \in [OS -> Ptr \cup Mutex \cup {Nowhere}]
      /\ held[o] = {} /\ waits[o] \in Mutex
  BY <1>1 DEF IInv, TypeOK, Places, MutexInv, HeldInv
<1>3. /\ DOMAIN mutexes' \subseteq Mutex /\ mutexes' \in [DOMAIN mutexes' -> BOOLEAN]
      /\ held' \in [OS -> SUBSET Mutex] /\ MutexExclusive'
      /\ \A q \in OS \ {o} : held'[q] = held[q]
  BY <1>1, <1>2, LocksIs
<1>4. pc'[o] = "run" /\ \A q \in OS \ {o} : pc'[q] = pc[q] /\ waits'[q] = waits[q]
  BY <1>1 DEF IInv, TypeOK
<1>5. \A q \in OS : /\ pc'[q] = pc[q] \/ {pc[q], pc'[q]} \subseteq Live
                    /\ pc'[q] = "lock" => held'[q] = {} /\ waits'[q] \in Mutex
                    /\ held'[q] = held[q] \/ pc[q] \in Live
  BY <1>1, <1>3, <1>4 DEF IInv, MutexInv, HeldInv, Live
<1> QED
  BY <1>1, <1>2, <1>3, <1>5, MutexStep

LEMMA MutexTrylockKeeps == ASSUME IInv, NEW o \in OS, NEW mx \in Mutex, MutexTrylock(o, mx) PROVE IInv'
<1>1. /\ pc[o] = "run" /\ held[o] = {} /\ locks' = locks + 1
      /\ UNCHANGED <<style, call, pc, job, waits, chained, futures, key, pool, stacks, tasks, asked, thread, snapshots, size>>
  BY DEF MutexTrylock, Sync, Runs, tls, poolVars
<1>2. locks' \in Nat /\ pc' \in [OS -> Places] /\ waits' \in [OS -> Ptr \cup Mutex \cup {Nowhere}]
  BY <1>1 DEF IInv, TypeOK
<1>3. /\ DOMAIN mutexes' \subseteq Mutex /\ mutexes' \in [DOMAIN mutexes' -> BOOLEAN]
      /\ held' \in [OS -> SUBSET Mutex] /\ MutexExclusive'
      /\ \A q \in OS \ {o} : held'[q] = held[q]
  <2>1. CASE Present(mx)[mx]
    <3>1. UNCHANGED <<mutexes, held>>
      BY <2>1, Zenon DEF MutexTrylock
    <3> QED
      BY <3>1, Zenon DEF IInv, TypeOK, MutexInv, MutexExclusive
  <2>2. CASE ~Present(mx)[mx]
    <3>1. Locks(o, mx)
      BY <2>2, Zenon DEF MutexTrylock
    <3>2. mx \notin DOMAIN mutexes \/ ~mutexes[mx]
      BY <2>2, PresentIs, Zenon
    <3> QED
      BY <1>1, <3>1, <3>2, LocksIs
  <2> QED
    BY <2>1, <2>2
<1>4. \A q \in OS : (pc'[q] = "lock" => held'[q] = {} /\ waits'[q] \in Mutex) /\ (held'[q] = held[q] \/ pc[q] \in Live)
  BY <1>1, <1>3 DEF IInv, MutexInv, HeldInv, Live
<1> QED
  BY <1>1, <1>2, <1>3, <1>4, MutexStep

LEMMA UnlockMutexKeeps == ASSUME IInv, NEW o \in OS, NEW mx \in Mutex, UnlockMutex(o, mx) PROVE IInv'
<1>1. /\ pc[o] = "run" /\ mx \in held[o] /\ held' = [held EXCEPT ![o] = held[o] \ {mx}]
      /\ UNCHANGED <<style, call, pc, job, waits, chained, futures, key, pool, stacks, tasks, asked, thread, snapshots, size, locks>>
  BY DEF UnlockMutex, Runs, tls, poolVars
<1>2. /\ locks' \in Nat /\ pc' \in [OS -> Places] /\ waits' \in [OS -> Ptr \cup Mutex \cup {Nowhere}]
      /\ held' \in [OS -> SUBSET Mutex]
  BY <1>1 DEF IInv, TypeOK
<1>3. DOMAIN mutexes \subseteq Mutex /\ mutexes \in [DOMAIN mutexes -> BOOLEAN] /\ mx \in DOMAIN mutexes
  BY <1>1 DEF IInv, TypeOK, MutexInv, MutexExclusive
<1>4. mutexes' = [mutexes EXCEPT ![mx] = FALSE]
  BY <1>3 DEF UnlockMutex
<1>5. /\ DOMAIN mutexes' = DOMAIN mutexes /\ mutexes' \in [DOMAIN mutexes' -> BOOLEAN]
      /\ \A y \in DOMAIN mutexes \ {mx} : mutexes'[y] = mutexes[y]
  BY <1>3, <1>4
<1>6. held'[o] = held[o] \ {mx} /\ \A q \in OS \ {o} : held'[q] = held[q]
  BY <1>1 DEF IInv, TypeOK
<1>7. \A q \in OS \ {o} : mx \notin held[q]
  BY <1>1 DEF IInv, MutexInv, MutexExclusive
<1>8. \A q \in OS : \A y \in held'[q] : y \in held[q] /\ y # mx
  BY <1>6, <1>7
<1>9. \A q \in OS : \A y \in held'[q] : y \in DOMAIN mutexes' /\ mutexes'[y]
  <2>1. \A q \in OS : \A y \in held[q] : y \in DOMAIN mutexes /\ mutexes[y]
    BY DEF IInv, MutexInv, MutexExclusive
  <2> QED
    BY <1>5, <1>8, <2>1
<1>10. \A q, d \in OS : q # d => held'[q] \cap held'[d] = {}
  BY <1>8 DEF IInv, MutexInv, MutexExclusive
<1>11. MutexExclusive'
  BY <1>9, <1>10, Zenon DEF MutexExclusive
<1>12. \A q \in OS : /\ pc'[q] = "lock" => held'[q] = {} /\ waits'[q] \in Mutex
                     /\ held'[q] = held[q] \/ pc[q] \in Live
  BY <1>1, <1>6 DEF IInv, MutexInv, HeldInv, Live
<1> QED
  BY <1>1, <1>2, <1>3, <1>5, <1>11, <1>12, MutexStep

LEMMA DestroyMutexKeeps == ASSUME IInv, NEW o \in OS, NEW mx \in Mutex, DestroyMutex(o, mx) PROVE IInv'
<1>1. /\ pc[o] = "run" /\ locks' = locks + 1 /\ mutexes' = Without(mutexes, mx)
      /\ UNCHANGED <<style, call, pc, job, waits, chained, futures, key, pool, stacks, tasks, asked, thread, snapshots, size, held>>
  BY DEF DestroyMutex, Sync, Runs, tls, poolVars
<1>2. /\ locks' \in Nat /\ pc' \in [OS -> Places] /\ waits' \in [OS -> Ptr \cup Mutex \cup {Nowhere}]
      /\ held' \in [OS -> SUBSET Mutex]
  BY <1>1 DEF IInv, TypeOK
<1>3. DOMAIN mutexes \subseteq Mutex /\ mutexes \in [DOMAIN mutexes -> BOOLEAN]
  BY DEF IInv, TypeOK
<1>4. /\ DOMAIN mutexes' = DOMAIN mutexes \ {mx} /\ mutexes' \in [DOMAIN mutexes' -> BOOLEAN]
      /\ \A y \in DOMAIN mutexes \ {mx} : mutexes'[y] = mutexes[y]
  BY <1>1, <1>3 DEF Without, Restrict
<1>5. \A q \in OS : mx \notin held[q]
  BY DEF DestroyMutex
<1>6. \A q \in OS : \A y \in held'[q] : y \in DOMAIN mutexes' /\ mutexes'[y]
  <2>1. \A q \in OS : \A y \in held[q] : y # mx /\ y \in DOMAIN mutexes /\ mutexes[y]
    BY <1>5 DEF IInv, MutexInv, MutexExclusive
  <2> QED
    BY <1>1, <1>4, <2>1
<1>7. \A q, d \in OS : q # d => held'[q] \cap held'[d] = {}
  BY <1>1 DEF IInv, MutexInv, MutexExclusive
<1>8. MutexExclusive'
  BY <1>6, <1>7, Zenon DEF MutexExclusive
<1>9. \A q \in OS : pc'[q] = "lock" => held'[q] = {} /\ waits'[q] \in Mutex
  BY <1>1 DEF IInv, MutexInv, HeldInv
<1>10. DOMAIN mutexes' \subseteq Mutex
  BY <1>3, <1>4
<1> QED
  BY <1>1, <1>2, <1>4, <1>8, <1>9, <1>10, MutexStep

-----------------------------------------------------------------------------
(* pthread_create: the record of the new thread, with the snapshot it      *)
(* would start from elsewhere.                                             *)
LEMMA SnapshotTaken ==
  ASSUME IInv, NEW o \in OS
  PROVE  /\ TakeSnapshotKey(key[o]) \in 1..Len(SnapshotsWith(key[o])) /\ SnapshotsWith(key[o]) \in Seq(Forked)
         /\ Len(SnapshotsWith(key[o])) >= Len(snapshots) /\ Len(SnapshotsWith(key[o])) \in Nat
         /\ \A k \in 1..Len(snapshots) : k \in 1..Len(SnapshotsWith(key[o])) /\ SnapshotsWith(key[o])[k] = snapshots[k]
         /\ key[o] = NoKey => SnapshotsWith(key[o])[TakeSnapshotKey(key[o])] = [call |-> call, size |-> size]
         /\ key[o] # NoKey => TakeSnapshotKey(key[o]) = key[o]
<1>1. snapshots \in Seq(Forked) /\ key[o] \in 0..Len(snapshots) /\ Snapshot \in Forked /\ Snapshot = [call |-> call, size |-> size]
  BY DEF IInv, TypeOK, Snapshot, Forked
<1>2. CASE key[o] = NoKey
  <2>1. SnapshotsWith(key[o]) = Append(snapshots, Snapshot) /\ TakeSnapshotKey(key[o]) = Len(snapshots) + 1
    BY <1>2 DEF SnapshotsWith, TakeSnapshotKey
  <2> QED
    BY <1>1, <1>2, <2>1
<1>3. CASE key[o] # NoKey
  <2>1. SnapshotsWith(key[o]) = snapshots /\ TakeSnapshotKey(key[o]) = key[o]
    BY <1>3 DEF SnapshotsWith, TakeSnapshotKey
  <2> QED
    BY <1>1, <1>3, <2>1 DEF NoKey
<1> QED
  BY <1>2, <1>3

LEMMA NewThreadIs ==
  ASSUME IInv, NEW o \in OS, NEW p \in Ptr, NEW local \in BOOLEAN
  PROVE  LET r == NewThread(o, p, local, key[o]) IN
         /\ r \in Thread /\ r.os = o /\ r.ptr = p /\ r.call = call /\ r.local = local /\ r.size = size /\ r.joined = NotJoined
         /\ r.snap = SnapshotsWith(key[o])[TakeSnapshotKey(key[o])]
         /\ (local => r.state = "queued") /\ (~local => r.state = "sent")
<1>1. SnapshotsWith(key[o])[TakeSnapshotKey(key[o])] \in Forked
  BY SnapshotTaken
<1>2. call \in Nat /\ size \in Nat
  BY DEF IInv, TypeOK
<1> QED
  BY <1>1, <1>2 DEF NewThread, Thread, NotJoined, States

Created(th, r) == Append(th, r)
LEMMA CreatedIs ==
  ASSUME NEW th \in Seq(Thread), NEW r \in Thread
  PROVE  /\ Created(th, r) \in Seq(Thread) /\ DOMAIN Created(th, r) = DOMAIN th \cup {Len(th) + 1}
         /\ Created(th, r)[Len(th) + 1] = r /\ \A t \in DOMAIN th : Created(th, r)[t] = th[t]
         /\ Len(th) + 1 \notin DOMAIN th /\ Len(th) + 1 \in Nat \ {0}
  BY DEF Created

LEMMA PoolThere == ASSUME IInv, NEW o \in OS, o # Main, pc[o] # "unborn" PROVE pool # <<>>
<1>1. o > 0 /\ Len(<<>>) = 0
  BY PoolAssumption DEF OS, Main
<1>2. pc[o] = "unborn" <=> o > Len(pool)
  BY DEF IInv, RunInv, PoolInv
<1> QED
  BY <1>1, <1>2

LEMMA PthreadCreateKeeps == ASSUME IInv, NEW o \in OS, NEW p \in Ptr, PthreadCreate(o, p) PROVE IInv'
<1>1. PICK local \in BOOLEAN :
        /\ ~local => MayLeave(o)
        /\ thread' = Append(thread, NewThread(o, p, local, key[o]))
        /\ IF local THEN StaysHere(o, p, Len(thread) + 1) ELSE Leaves(o, p, Len(thread) + 1)
  BY DEF PthreadCreate
<1>2. /\ pc[o] = "run" /\ p \notin {thread[t].ptr : t \in Own(o)}
      /\ key' = [key EXCEPT ![o] = TakeSnapshotKey(key[o])] /\ snapshots' = SnapshotsWith(key[o])
      /\ UNCHANGED <<style, call, job, waits, pool, stacks, asked, size, mutexes, held, locks>>
  BY DEF PthreadCreate, Runs, mutexVars
<1>3. PICK id : id = Len(thread) + 1
  OBVIOUS
<1>4. PICK r : r = NewThread(o, p, local, key[o])
  OBVIOUS
<1>5. /\ r \in Thread /\ r.os = o /\ r.ptr = p /\ r.call = call /\ r.local = local /\ r.size = size /\ r.joined = NotJoined
      /\ r.snap = SnapshotsWith(key[o])[TakeSnapshotKey(key[o])]
      /\ (local => r.state = "queued") /\ (~local => r.state = "sent")
  BY <1>4, NewThreadIs
<1>6. thread \in Seq(Thread) /\ thread' = Created(thread, r)
  BY <1>1, <1>4 DEF Created, IInv, TypeOK
<1>7. /\ thread' \in Seq(Thread) /\ DOMAIN thread' = DOMAIN thread \cup {id}
      /\ thread'[id] = r /\ \A t \in DOMAIN thread : thread'[t] = thread[t]
      /\ id \notin DOMAIN thread /\ id \in Nat \ {0}
  <2>1. /\ Created(thread, r) \in Seq(Thread) /\ DOMAIN Created(thread, r) = DOMAIN thread \cup {Len(thread) + 1}
        /\ Created(thread, r)[Len(thread) + 1] = r /\ \A t \in DOMAIN thread : Created(thread, r)[t] = thread[t]
        /\ Len(thread) + 1 \notin DOMAIN thread /\ Len(thread) + 1 \in Nat \ {0}
    BY <1>5, <1>6, CreatedIs
  <2> QED
    BY <1>3, <1>6, <2>1
<1>8. Open' = Open \cup {id}
  <2>1. \A t \in DOMAIN thread' : t \in Open' <=> t \in Open \cup {id}
    BY <1>2, <1>5, <1>7 DEF Open
  <2> QED
    BY <1>7, <2>1 DEF Open
<1>9. \A t \in Open : t \in DOMAIN thread /\ t # id /\ thread'[t] = thread[t] /\ thread[t].os \in OS /\ (thread[t].os = o => thread[t].ptr # p)
  <2>1. \A t \in Open : t \in DOMAIN thread /\ thread[t].os \in OS /\ (thread[t].os = o => t \in Own(o))
    BY <1>6, ThreadFields DEF Open, Own
  <2> QED
    BY <1>2, <1>7, <2>1
<1>10. ~local => o = Main /\ "chain" \in style /\ "abandon" \notin style
  BY <1>1, AbandonAssumption DEF MayLeave, IInv, TypeOK
<1>11. "abandon" \notin style => p \notin DOMAIN futures[o] /\ p \notin DOMAIN chained[o]
  BY <1>9 DEF IInv, JoinInv, FutureInv, ChainedInv
<1>12. /\ \A q \in OS \ {o} : key'[q] = key[q] /\ key'[o] = TakeSnapshotKey(key[o])
       /\ key' \in [OS -> 0..Len(snapshots')] /\ snapshots' \in Seq(Forked)
  <2>1. /\ TakeSnapshotKey(key[o]) \in 1..Len(snapshots') /\ snapshots' \in Seq(Forked) /\ Len(snapshots') >= Len(snapshots)
        /\ Len(snapshots') \in Nat /\ Len(snapshots) \in Nat /\ key \in [OS -> 0..Len(snapshots)]
    BY <1>2, SnapshotTaken DEF IInv, TypeOK
  <2>2. TakeSnapshotKey(key[o]) \in 0..Len(snapshots') /\ \A q \in OS : key[q] \in 0..Len(snapshots')
    BY <2>1
  <2> QED
    BY <1>2, <2>1, <2>2
<1>13. KeyInv'
  <2> SUFFICES ASSUME "abandon" \notin style
               PROVE  key'[Main] # NoKey => /\ snapshots'[key'[Main]] = [call |-> call, size |-> size]
                                            /\ \E t \in Open' : thread'[t].os = Main
    BY <1>2 DEF KeyInv
  <2>1. key[Main] # NoKey =>
          /\ snapshots[key[Main]] = [call |-> call, size |-> size] /\ key[Main] \in 1..Len(snapshots)
          /\ \E t \in Open : thread[t].os = Main
    BY MainInOS DEF IInv, JoinInv, KeyInv, TypeOK, NoKey
  <2>2. key[Main] # NoKey => snapshots'[key[Main]] = [call |-> call, size |-> size]
    BY <1>2, <2>1, SnapshotTaken
  <2>3. CASE o = Main
    <3>1. snapshots'[key'[Main]] = [call |-> call, size |-> size]
      BY <1>2, <1>12, <2>2, <2>3, SnapshotTaken
    <3>2. thread'[id].os = Main
      BY <1>5, <1>7, <2>3
    <3> QED
      BY <1>8, <3>1, <3>2
  <2>4. CASE o # Main
    BY <1>8, <1>9, <1>12, <2>1, <2>2, <2>4, MainInOS
  <2> QED
    BY <2>3, <2>4
<1>14. SnapshotCurrent'
  <2>1. ~local => r.snap = [call |-> call, size |-> size]
    <3> SUFFICES ASSUME ~local PROVE r.snap = [call |-> call, size |-> size]
      OBVIOUS
    <3>1. o = Main /\ "abandon" \notin style
      BY <1>10
    <3>2. CASE key[o] = NoKey
      BY <1>5, <3>2, SnapshotTaken
    <3>3. CASE key[o] # NoKey
      <4>1. snapshots[key[o]] = [call |-> call, size |-> size] /\ key[o] \in 1..Len(snapshots)
        BY <3>1, <3>3 DEF IInv, JoinInv, KeyInv, TypeOK, NoKey
      <4> QED
        BY <1>5, <3>3, <4>1, SnapshotTaken
    <3> QED
      BY <3>2, <3>3
  <2> QED
    BY <1>5, <1>7, <2>1 DEF IInv, JoinInv, SnapshotCurrent
<1>15. JoinMatches'
  BY <1>5, <1>7 DEF IInv, JoinInv, JoinMatches, ReturnValue
<1>16. \A t \in DOMAIN thread' :
         /\ thread'[t].call <= call
         /\ thread'[t].local => thread'[t].state # "sent"
         /\ ~thread'[t].local => thread'[t].state \in {"sent", "ended"} /\ "chain" \in style
         /\ thread'[t].state = "running" => \E q \in OS : job[q] = t
  <2>1. call \in Nat /\ call <= call
    BY DEF IInv, TypeOK
  <2> QED
    BY <1>5, <1>7, <1>10, <2>1 DEF IInv, RunInv, StateInv
<1>17. \A q \in OS : job[q] # 0 => job[q] \in DOMAIN thread
  BY DEF IInv, TypeOK
<1>18. \A k \in DOMAIN tasks : tasks[k] # Shutdown => tasks[k] \in DOMAIN thread
  BY DEF IInv, TypeOK
<1>19. /\ tasks \in Seq({Shutdown} \cup DOMAIN thread') /\ job' \in [OS -> {0} \cup DOMAIN thread']
       /\ \A q \in OS : /\ DOMAIN chained[q] \subseteq Ptr /\ chained[q] \in [DOMAIN chained[q] -> DOMAIN thread']
                        /\ DOMAIN futures[q] \subseteq Ptr /\ futures[q] \in [DOMAIN futures[q] -> DOMAIN thread']
  <2>1. \A q \in OS : Records(chained[q]) /\ Records(futures[q])
    BY DEF IInv, TypeOK
  <2>2. DOMAIN thread \subseteq DOMAIN thread'
    BY <1>7
  <2>3. tasks \in Seq({Shutdown} \cup DOMAIN thread) /\ job \in [OS -> {0} \cup DOMAIN thread]
    BY DEF IInv, TypeOK
  <2>4. tasks \in Seq({Shutdown} \cup DOMAIN thread')
    BY <2>2, <2>3
  <2> QED
    BY <1>2, <2>1, <2>2, <2>3, <2>4 DEF Records
<1>20. CASE local
  <2>1. /\ futures' = [futures EXCEPT ![o] = With(futures[o], p, id)]
        /\ tasks' = Append(tasks, id) /\ pc' = [pc EXCEPT ![o] = "spawn"] /\ chained' = chained
    BY <1>1, <1>3, <1>20 DEF StaysHere, AssignFuture
  <2>2. PICK fu : fu = With(futures[o], p, id)
    OBVIOUS
  <2>3. /\ DOMAIN fu = DOMAIN futures[o] \cup {p} /\ fu[p] = id /\ \A x \in DOMAIN futures[o] \ {p} : fu[x] = futures[o][x]
        /\ fu = [x \in DOMAIN fu |-> fu[x]]
    BY <2>2 DEF With
  <2>4. /\ futures'[o] = fu /\ \A q \in OS \ {o} : futures'[q] = futures[q]
        /\ pc'[o] = "spawn" /\ \A q \in OS \ {o} : pc'[q] = pc[q]
    BY <2>1, <2>2 DEF IInv, TypeOK
  <2>5. /\ tasks' \in Seq({Shutdown} \cup DOMAIN thread') /\ DOMAIN tasks' = DOMAIN tasks \cup {Len(tasks) + 1}
        /\ tasks'[Len(tasks) + 1] = id /\ \A k \in DOMAIN tasks : tasks'[k] = tasks[k] /\ k < Len(tasks) + 1
        /\ Len(tasks) + 1 \notin DOMAIN tasks /\ tasks' # <<>>
    <3>1. id \in {Shutdown} \cup DOMAIN thread'
      BY <1>7
    <3> QED
      BY <1>19, <2>1, <3>1, AppendIs
  <2>6. TypeOK'
    <3>1. pc' \in [OS -> Places]
      BY <2>1 DEF IInv, TypeOK, Places
    <3>2. DOMAIN fu \subseteq Ptr /\ fu \in [DOMAIN fu -> DOMAIN thread']
      <4>1. \A x \in DOMAIN fu : fu[x] \in DOMAIN thread'
        BY <1>7, <1>19, <2>3
      <4> QED
        BY <1>19, <2>3, <4>1
    <3>3. \A q \in OS :
            /\ DOMAIN chained'[q] \subseteq Ptr /\ chained'[q] \in [DOMAIN chained'[q] -> DOMAIN thread']
            /\ DOMAIN futures'[q] \subseteq Ptr /\ futures'[q] \in [DOMAIN futures'[q] -> DOMAIN thread']
      BY <1>19, <2>1, <2>4, <3>2
    <3>4. futures' = [q \in OS |-> futures'[q]]
      BY <2>1 DEF IInv, TypeOK
    <3> QED
      BY <1>2, <1>7, <1>12, <1>19, <2>1, <2>5, <3>1, <3>3, <3>4 DEF IInv, TypeOK, Records
  <2>7. PoolInv'
    <3>1. o # Main => pool # <<>>
      BY <1>2, PoolThere
    <3> QED
      BY <1>2, <2>4, <3>1, MainInOS, RestingIsNotLive DEF IInv, RunInv, PoolInv
  <2>8. JobInv'
    <3>1. \A q \in OS : pc'[q] \in Resting <=> pc[q] \in Resting
      BY <1>2, <2>4, RestingIsNotLive
    <3> QED
      BY <1>2, <1>7, <1>17, <3>1 DEF IInv, RunInv, JobInv
  <2>9. TaskInv'
    <3>1. ASSUME NEW k \in DOMAIN tasks', tasks'[k] # Shutdown
          PROVE  thread'[tasks'[k]].state = "queued" /\ thread'[tasks'[k]].call = call /\ thread'[tasks'[k]].local
      <4>1. CASE k = Len(tasks) + 1
        BY <1>5, <1>7, <1>20, <2>5, <4>1
      <4>2. CASE k # Len(tasks) + 1
        BY <1>7, <1>18, <2>5, <3>1, <4>2 DEF IInv, RunInv, TaskInv
      <4> QED
        BY <4>1, <4>2
    <3>2. ASSUME NEW k \in DOMAIN tasks', NEW l \in DOMAIN tasks', tasks'[k] # Shutdown, tasks'[k] = tasks'[l]
          PROVE  k = l
      BY <1>7, <1>18, <2>5, <3>2 DEF IInv, RunInv, TaskInv
    <3> QED
      BY <1>2, <3>1, <3>2 DEF TaskInv
  <2>10. StateInv'
    <3>1. ASSUME NEW t \in DOMAIN thread', thread'[t].state = "queued" PROVE \E k \in DOMAIN tasks' : tasks'[k] = t
      <4>1. CASE t = id
        BY <2>5, <4>1
      <4>2. CASE t # id
        <5>1. PICK k \in DOMAIN tasks : tasks[k] = t
          BY <1>7, <3>1, <4>2 DEF IInv, RunInv, StateInv
        <5> QED
          BY <2>5, <5>1
      <4> QED
        BY <4>1, <4>2
    <3> QED
      BY <1>2, <1>16, <3>1 DEF StateInv
  <2>11. StopInv'
    <3>1. CASE o = Main
      <4>1. (\A k \in DOMAIN tasks : tasks[k] # Shutdown) /\ \A q \in OS : pc[q] # "gone"
        BY <1>2, <3>1 DEF IInv, RunInv, StopInv
      <4>2. (\A k \in DOMAIN tasks' : tasks'[k] # Shutdown) /\ \A q \in OS : pc'[q] # "gone"
        BY <1>7, <2>4, <2>5, <4>1 DEF Shutdown
      <4> QED
        BY <4>2 DEF StopInv
    <3>2. CASE o # Main
      <4>1. \A k \in DOMAIN tasks' : k \notin DOMAIN tasks => tasks'[k] # Shutdown /\ thread'[tasks'[k]].os # Main
        BY <1>5, <1>7, <2>5, <3>2 DEF Shutdown
      <4>2. \A k \in DOMAIN tasks : tasks'[k] = tasks[k] /\ (tasks[k] # Shutdown => thread'[tasks[k]] = thread[tasks[k]])
        BY <1>7, <1>18, <2>5
      <4>3. \A q \in OS : pc'[q] = "gone" <=> pc[q] = "gone"
        BY <1>2, <2>4
      <4>4. pc'[Main] = pc[Main]
        BY <2>4, <3>2, MainInOS
      <4> QED
        BY <4>1, <4>2, <4>3, <4>4 DEF IInv, RunInv, StopInv
    <3> QED
      BY <3>1, <3>2
  <2>12. OpenInv'
    <3>1. \A q \in OS : (pc'[q] \in Resting <=> pc[q] \in Resting) /\ (pc'[q] \in {"teardown", "idle"} <=> pc[q] \in {"teardown", "idle"})
      BY <1>2, <2>4, RestingIsNotLive
    <3> QED
      BY <1>2, <1>5, <1>7, <1>8, <1>9, <2>4, <3>1, MainInOS, RestingIsNotLive DEF IInv, JoinInv, OpenInv
  <2>13. RecordInv'
    <3>1. ASSUME NEW t \in Open
          PROVE  /\ thread[t].local => thread[t].ptr \in DOMAIN futures'[thread[t].os] /\ futures'[thread[t].os][thread[t].ptr] = t
                 /\ ~thread[t].local =>
                      /\ thread[t].ptr \in DOMAIN chained[thread[t].os] /\ chained[thread[t].os][thread[t].ptr] = t
                      /\ thread[t].ptr \notin DOMAIN futures'[thread[t].os]
      <4>1. CASE thread[t].os = o
        BY <1>9, <2>3, <2>4, <4>1 DEF IInv, JoinInv, RecordInv
      <4>2. CASE thread[t].os # o
        BY <1>9, <2>4, <4>2 DEF IInv, JoinInv, RecordInv
      <4> QED
        BY <4>1, <4>2
    <3>2. r.local /\ r.ptr \in DOMAIN futures'[r.os] /\ futures'[r.os][r.ptr] = id
      BY <1>5, <1>20, <2>3, <2>4
    <3> QED
      BY <1>7, <1>8, <1>9, <2>1, <3>1, <3>2 DEF RecordInv
  <2>14. FutureInv'
    <3> SUFFICES ASSUME "abandon" \notin style, NEW q \in OS, NEW x \in DOMAIN futures'[q]
                 PROVE  futures'[q][x] \in Open' /\ thread'[futures'[q][x]].local
                        /\ thread'[futures'[q][x]].os = q /\ thread'[futures'[q][x]].ptr = x
      BY <1>2 DEF FutureInv
    <3>1. CASE q = o /\ x = p
      BY <1>5, <1>7, <1>8, <1>20, <2>3, <2>4, <3>1
    <3>2. CASE q # o \/ x # p
      <4>1. x \in DOMAIN futures[q] /\ futures'[q][x] = futures[q][x]
        BY <2>3, <2>4, <3>2
      <4> QED
        BY <1>8, <1>9, <4>1 DEF IInv, JoinInv, FutureInv
    <3> QED
      BY <3>1, <3>2
  <2>15. ChainedInv'
    BY <1>2, <1>8, <1>9, <2>1 DEF IInv, JoinInv, ChainedInv
  <2>16. HeldInv' /\ MutexExclusive'
    <3>1. \A q \in OS : pc'[q] \in {"teardown", "idle", "lock"} \cup Resting => pc[q] = pc'[q]
      BY <2>4, RestingIsNotLive
    <3>2. HeldInv'
      BY <1>2, <3>1, MainInOS DEF IInv, MutexInv, HeldInv
    <3>3. MutexExclusive'
      BY <1>2 DEF IInv, MutexInv, MutexExclusive
    <3> QED
      BY <3>2, <3>3
  <2> QED
    BY <1>13, <1>14, <1>15, <2>6, <2>7, <2>8, <2>9, <2>10, <2>11, <2>12, <2>13, <2>14, <2>15, <2>16
    DEF IInv, RunInv, JoinInv, MutexInv
<1>21. CASE ~local
  <2>1. chained' = [chained EXCEPT ![o] = Inserted(chained[o], p, id)] /\ UNCHANGED <<futures, tasks, pc>>
    BY <1>1, <1>3, <1>21 DEF Leaves
  <2>2. PICK ch : ch = Inserted(chained[o], p, id)
    OBVIOUS
  <2>3. o = Main /\ "chain" \in style /\ "abandon" \notin style /\ p \notin DOMAIN futures[o] /\ p \notin DOMAIN chained[o]
    BY <1>10, <1>11, <1>21
  <2>4. /\ DOMAIN ch = DOMAIN chained[o] \cup {p} /\ ch[p] = id /\ \A x \in DOMAIN chained[o] : ch[x] = chained[o][x]
        /\ ch = [x \in DOMAIN ch |-> ch[x]]
    BY <2>2, <2>3 DEF Inserted, With
  <2>5. chained'[o] = ch /\ \A q \in OS \ {o} : chained'[q] = chained[q]
    BY <2>1, <2>2 DEF IInv, TypeOK
  <2>6. TypeOK'
    <3>1. DOMAIN ch \subseteq Ptr /\ ch \in [DOMAIN ch -> DOMAIN thread']
      <4>1. \A x \in DOMAIN ch : ch[x] \in DOMAIN thread'
        BY <1>7, <1>19, <2>4
      <4> QED
        BY <1>19, <2>4, <4>1
    <3>2. \A q \in OS :
            /\ DOMAIN chained'[q] \subseteq Ptr /\ chained'[q] \in [DOMAIN chained'[q] -> DOMAIN thread']
            /\ DOMAIN futures'[q] \subseteq Ptr /\ futures'[q] \in [DOMAIN futures'[q] -> DOMAIN thread']
      BY <1>19, <2>1, <2>5, <3>1
    <3>3. chained' = [q \in OS |-> chained'[q]]
      BY <2>1 DEF IInv, TypeOK
    <3> QED
      BY <1>2, <1>7, <1>12, <1>19, <2>1, <3>2, <3>3 DEF IInv, TypeOK, Records
  <2>7. PoolInv'
    BY <1>2, <2>1 DEF IInv, RunInv, PoolInv
  <2>8. JobInv'
    BY <1>2, <1>7, <1>17, <2>1 DEF IInv, RunInv, JobInv
  <2>9. TaskInv' /\ StopInv'
    BY <1>2, <1>7, <1>18, <2>1 DEF IInv, RunInv, TaskInv, StopInv
  <2>10. StateInv'
    <3>1. ASSUME NEW t \in DOMAIN thread', thread'[t].state = "queued" PROVE \E k \in DOMAIN tasks' : tasks'[k] = t
      <4>1. t # id
        BY <1>5, <1>7, <1>21, <3>1
      <4> QED
        BY <1>7, <2>1, <3>1, <4>1 DEF IInv, RunInv, StateInv
    <3> QED
      BY <1>2, <1>16, <3>1 DEF StateInv
  <2>11. OpenInv'
    BY <1>2, <1>5, <1>7, <1>8, <1>9, <2>1, <2>3, MainInOS, RestingIsNotLive DEF IInv, JoinInv, OpenInv
  <2>12. RecordInv'
    <3>1. ASSUME NEW t \in Open
          PROVE  /\ thread[t].local => thread[t].ptr \in DOMAIN futures[thread[t].os] /\ futures[thread[t].os][thread[t].ptr] = t
                 /\ ~thread[t].local =>
                      /\ thread[t].ptr \in DOMAIN chained'[thread[t].os] /\ chained'[thread[t].os][thread[t].ptr] = t
                      /\ thread[t].ptr \notin DOMAIN futures[thread[t].os]
      BY <1>9, <2>4, <2>5 DEF IInv, JoinInv, RecordInv
    <3>2. ~r.local /\ r.ptr \in DOMAIN chained'[r.os] /\ chained'[r.os][r.ptr] = id /\ r.ptr \notin DOMAIN futures[r.os]
      BY <1>5, <1>21, <2>3, <2>4, <2>5
    <3> QED
      BY <1>7, <1>8, <1>9, <2>1, <3>1, <3>2 DEF RecordInv
  <2>13. FutureInv'
    BY <1>2, <1>8, <1>9, <2>1 DEF IInv, JoinInv, FutureInv
  <2>14. ChainedInv'
    <3> SUFFICES ASSUME "abandon" \notin style, NEW q \in OS, NEW x \in DOMAIN chained'[q]
                 PROVE  chained'[q][x] \in Open' /\ ~thread'[chained'[q][x]].local
                        /\ thread'[chained'[q][x]].os = q /\ thread'[chained'[q][x]].ptr = x
      BY <1>2 DEF ChainedInv
    <3>1. CASE q = o /\ x = p
      BY <1>5, <1>7, <1>8, <1>21, <2>4, <2>5, <3>1
    <3>2. CASE q # o \/ x # p
      <4>1. x \in DOMAIN chained[q] /\ chained'[q][x] = chained[q][x]
        BY <2>4, <2>5, <3>2
      <4> QED
        BY <1>8, <1>9, <4>1 DEF IInv, JoinInv, ChainedInv
    <3> QED
      BY <3>1, <3>2
  <2>15. HeldInv' /\ MutexExclusive'
    BY <1>2, <2>1 DEF IInv, MutexInv, HeldInv, MutexExclusive
  <2> QED
    BY <1>13, <1>14, <1>15, <2>6, <2>7, <2>8, <2>9, <2>10, <2>11, <2>12, <2>13, <2>14, <2>15
    DEF IInv, RunInv, JoinInv, MutexInv
<1> QED
  BY <1>20, <1>21

-----------------------------------------------------------------------------
LEMMA IInvNext == IInv /\ [Next]_vars => IInv'
<1> SUFFICES ASSUME IInv, [Next]_vars PROVE IInv'
  OBVIOUS
<1>1. ASSUME StartCall \/ FinishCall \/ Teardown \/ Grow PROVE IInv'
  BY <1>1, StartCallKeeps, FinishCallKeeps, AskToStopKeeps, ResetModuleKeeps, GrowKeeps DEF Teardown
<1>2. ASSUME Remote PROVE IInv'
  BY <1>2, RemoteThreadKeeps DEF Remote
<1>3. ASSUME NEW o \in OS, PoolStep(o) PROVE IInv'
  BY <1>3, ExecutePthreadTaskKeeps, TakeTaskKeeps, EndThreadKeeps DEF PoolStep
<1>4. ASSUME NEW o \in OS, Joins(o) PROVE IInv'
  BY <1>4, BeginJoinKeeps, JoinLocalKeeps, JoinChainedKeeps DEF Joins
<1>5. ASSUME NEW o \in OS, Unlocks(o) \/ Syncs(o) \/ LockMutex(o) PROVE IInv'
  BY <1>5, UnlockMutexKeeps, MutexInitKeeps, MutexLockKeeps, MutexTrylockKeeps, DestroyMutexKeeps, LockMutexKeeps
  DEF Unlocks, Syncs
<1>6. ASSUME NEW o \in OS, NEW p \in Ptr, PthreadCreate(o, p) PROVE IInv'
  BY <1>6, PthreadCreateKeeps
<1>7. CASE UNCHANGED vars
  <2>1. /\ UNCHANGED <<style, call, pc, job, waits, chained, futures, key, pool, stacks, tasks, asked, thread, snapshots, size>>
        /\ UNCHANGED <<mutexes, held, locks>>
    BY <1>7 DEF vars, tls, poolVars, mutexVars
  <2>2. TypeOK'
    BY <2>1 DEF IInv, TypeOK, Records
  <2>3. HeldInv' /\ MutexExclusive'
    BY <2>1 DEF IInv, MutexInv, HeldInv, MutexExclusive
  <2> QED
    BY <2>1, <2>2, <2>3, Moves DEF IInv, MutexInv
<1> QED
  BY <1>1, <1>2, <1>3, <1>4, <1>5, <1>6, <1>7 DEF Next

(* The inductive invariant of threads: who runs what, which record knows   *)
(* the thread that a join waits for, and what the queue still holds when   *)
(* the module is reset. (pthread_create, pthread_join, executePthreadTask, *)
(* shutdownPthreads)                                                       *)
THEOREM ThreadsInvariant == Spec => []IInv
<1>1. Init => IInv
  BY IInvInit
<1>2. IInv /\ [Next]_vars => IInv'
  BY IInvNext
<1> QED
  BY <1>1, <1>2, PTL DEF Spec

(* A join hands over what the thread returned that was created last with   *)
(* the variable, or that it did not come back in time, whatever stays here *)
(* and whatever leaves. (pthread_join)                                     *)
THEOREM JoinsMatch == Spec => []JoinMatches
<1>1. IInv => JoinMatches
  BY DEF IInv, JoinInv
<1> QED
  BY <1>1, ThreadsInvariant, PTL

(* A thread that leaves starts from the memory of its call as it is when   *)
(* it is created: the thread_local key of the snapshot is forgotten with   *)
(* the last join. (pthread_create, pthread_join)                           *)
THEOREM SnapshotsCurrent == Spec => []SnapshotCurrent
<1>1. IInv => SnapshotCurrent
  BY DEF IInv, JoinInv
<1> QED
  BY <1>1, ThreadsInvariant, PTL

(* No thread outlives its call: what the pool runs is the call's, and it   *)
(* has ended all of it when the module has been reset, abandoned threads   *)
(* too. (shutdownPthreads, preFinishCall)                                  *)
THEOREM NoThreadOutlivesCall == Spec => []ThreadsEndWithCall
<1>1. IInv => ThreadsEndWithCall
  <2> SUFFICES ASSUME IInv PROVE ThreadsEndWithCall
    OBVIOUS
  <2>1. \A o \in OS : job[o] # 0 => thread[job[o]].call = call
    BY DEF IInv, RunInv, JobInv
  <2>2. ASSUME pc[Main] = "idle", NEW t \in DOMAIN thread, thread[t].local PROVE thread[t].state = "ended"
    <3>1. pool = <<>> /\ tasks = <<>> /\ DOMAIN tasks = {}
      BY <2>2 DEF IInv, RunInv, PoolInv
    <3>2. \A o \in OS : job[o] = 0
      <4>1. \A o \in OS : o # Main => pc[o] = "unborn"
        BY <3>1, PoolThere
      <4> QED
        BY <4>1 DEF IInv, RunInv, JobInv, Resting
    <3>3. thread \in Seq(Thread)
      BY DEF IInv, TypeOK
    <3>4. t # 0 /\ thread[t].state \in States
      BY <3>3, ThreadFields
    <3> QED
      BY <2>2, <3>1, <3>2, <3>4 DEF IInv, RunInv, StateInv, States
  <2> QED
    BY <2>1, <2>2 DEF ThreadsEndWithCall
<1> QED
  BY <1>1, ThreadsInvariant, PTL

(* A mutex is held by one thread at most. (MutexManager) *)
THEOREM MutualExclusion == Spec => []MutexExclusive
<1>1. IInv => MutexExclusive
  BY DEF IInv, MutexInv
<1> QED
  BY <1>1, ThreadsInvariant, PTL
=============================================================================
