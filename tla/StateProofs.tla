---------------------------- MODULE StateProofs ----------------------------
(***************************************************************************)
(* Theorems about the state of a key, for every set of hosts and threads:  *)
(* in the registry (StateMaster), type correctness, and that all hosts     *)
(* agree on the master as long as no claim outlasts its lock in Redis; of  *)
(* the value (StateValue), its types, that what was written and not sent   *)
(* is marked, that no pull loses a write, and that a push writes what its  *)
(* host wrote, for every size of the value and every set of chunks.        *)
(***************************************************************************)
EXTENDS StateMaster, StateValue, FiniteSetTheorems, TLAPS

-----------------------------------------------------------------------------
(* The registry: the assumptions on the constants, in one fact. *)
LEMMA MasterConstants ==
  /\ HostOf \in [Thread -> Host] /\ None \notin Host /\ None \notin Proc
  /\ MaxRetries \in Nat /\ MaxDisturbances \in Nat
BY HostAssumption, NoneAssumption, BoundAssumption, NoProcAssumption

(* Who has the lock in Redis, and what its holder knows. *)
LockHolder == \A p \in Proc : InClaim(p) => redisLock = p
ClaimFresh == \A p \in Proc : proc[p].pc = "claim" => redisMaster = None
FoundSome == \A p \in Proc : proc[p].pc \in {"release", "send", "rpc"} => proc[p].found # None

TypeInv == MasterTypeOK /\ FoundSome
ClaimInv == LockHolder /\ ClaimFresh /\ OneMaster

(* The two halves of a thread, and the state of an idle one. *)
LEMMA Halves ==
  ASSUME NEW p \in Proc
  PROVE  /\ Server(p) \in Proc /\ Caller(p) \in Proc /\ IdleProc(p) \in ProcState
         /\ IdleProc(p).pc = "idle" /\ IdleProc(p).found = None
         /\ (~IsServer(p) => Server(p) # p)
BY MasterConstants DEF Proc, Server, Caller, IsServer, IdleProc, ProcState, ProcPc

(* What an update of a process record returns. *)
LEMMA Updates ==
  ASSUME NEW r \in ProcState, NEW l \in ProcPc, NEW m \in Host \cup {None}, NEW h \in Host,
         NEW o \in {"get", "size", "delete", "access"}
  PROVE  /\ [r EXCEPT !.pc = l] \in ProcState
         /\ [r EXCEPT !.pc = l, !.found = m] \in ProcState
         /\ [r EXCEPT !.op = o, !.pc = l] \in ProcState
         /\ [r EXCEPT !.op = o, !.pc = l, !.found = m] \in ProcState
         /\ [r EXCEPT !.pc = l, !.at = h, !.op = o] \in ProcState
<1>1. /\ r = [pc |-> r.pc, op |-> r.op, at |-> r.at, found |-> r.found, tries |-> r.tries]
      /\ r.pc \in ProcPc /\ r.op \in {"get", "size", "delete", "access"} /\ r.at \in Host
      /\ r.found \in Host \cup {None} /\ r.tries \in 0..MaxRetries
  BY DEF ProcState
<1>2. [r EXCEPT !.pc = l] \in ProcState
  BY DEF ProcState
<1>3. ASSUME NEW s \in ProcState
      PROVE [s EXCEPT !.found = m] \in ProcState /\ [s EXCEPT !.op = o] \in ProcState
            /\ [s EXCEPT !.at = h] \in ProcState /\ [s EXCEPT !.pc = l] \in ProcState
  BY DEF ProcState
<1> QED
  BY <1>2, <1>3

-----------------------------------------------------------------------------
(* Steps that move one process only; and those to a label where nothing is known of  *)
(* what it found, keep the types. *)
LEMMA UpdateTypes ==
  ASSUME TypeInv, NEW p \in Proc, NEW r \in ProcState,
         r.pc \in {"release", "send", "rpc"} => r.found # None,
         proc' = [proc EXCEPT ![p] = r]
  PROVE  proc' \in [Proc -> ProcState] /\ FoundSome'
BY DEF TypeInv, MasterTypeOK, FoundSome

LEMMA GotoTypes ==
  ASSUME TypeInv, NEW p \in Proc, NEW l \in ProcPc \ {"release", "send", "rpc"}, Goto(p, l)
  PROVE  proc' \in [Proc -> ProcState] /\ FoundSome'
BY DEF TypeInv, MasterTypeOK, FoundSome, Goto, ProcState

LEMMA GotoWithTypes ==
  ASSUME TypeInv, NEW p \in Proc, NEW l \in ProcPc, NEW m \in Host, GotoWith(p, l, m)
  PROVE  proc' \in [Proc -> ProcState] /\ FoundSome'
BY MasterConstants, ZenonT(60) DEF TypeInv, MasterTypeOK, FoundSome, GotoWith, ProcState

(* A process that finishes is idle; its caller may get a reply. *)
LEMMA FinishTypes ==
  ASSUME TypeInv, NEW p \in Proc, Finish(p)
  PROVE  proc' \in [Proc -> ProcState] /\ FoundSome'
<1>1. \A q \in Proc : proc'[q] = IdleProc(q) \/ proc'[q] = proc[q] \/ proc'[q] = [proc[q] EXCEPT !.pc = "replied"]
  BY DEF Finish
<1>2. \A q \in Proc : proc'[q] \in ProcState
  <2>1. \A q \in Proc : proc[q] \in ProcState /\ "replied" \in ProcPc
    BY DEF TypeInv, MasterTypeOK, ProcPc
  <2>2. \A q \in Proc : [proc[q] EXCEPT !.pc = "replied"] \in ProcState
    BY <2>1 DEF ProcState
  <2> QED
    BY <1>1, <2>1, <2>2, Halves
<1>3. DOMAIN proc' = Proc /\ proc' = [q \in Proc |-> proc'[q]]
  BY DEF Finish
<1>4. FoundSome'
  BY <1>1, Halves DEF TypeInv, MasterTypeOK, FoundSome, ProcState
<1> QED
  BY <1>2, <1>3, <1>4

(* Locks are held by processes or free. *)
LEMMA UnlockTypes ==
  ASSUME NEW lock \in [Host -> Proc \cup {None}], NEW p \in Proc
  PROVE  Unlock(lock, p) \in [Host -> Proc \cup {None}]
BY DEF Unlock

LEMMA GotMasterTypes ==
  ASSUME TypeInv, NEW p \in Proc, NEW m \in Host, GotMaster(p, m)
  PROVE  /\ proc' \in [Proc -> ProcState] /\ FoundSome'
         /\ kvMap' \in [Host -> Host \cup {None}] /\ mapLock' \in [Host -> Proc \cup {None}]
<1>1. CASE proc[p].op = "get" /\ kvMap' = [kvMap EXCEPT ![At(p)] = m] /\ FinishUnlocking(p)
  BY <1>1, FinishTypes, UnlockTypes DEF FinishUnlocking, TypeInv, MasterTypeOK
<1>2. CASE GotoWith(p, "send", m) /\ UNCHANGED <<kvMap, mapLock>>
  BY <1>2, GotoWithTypes DEF TypeInv, MasterTypeOK, ProcPc
<1>3. CASE FinishUnlocking(p) /\ UNCHANGED kvMap
  BY <1>3, FinishTypes, UnlockTypes DEF FinishUnlocking, TypeInv, MasterTypeOK
<1>4. CASE GotoWith(p, "erase", m) /\ UNCHANGED <<kvMap, mapLock>>
  BY <1>4, GotoWithTypes DEF TypeInv, MasterTypeOK, ProcPc
<1> QED
  BY <1>1, <1>2, <1>3, <1>4 DEF GotMaster

LEMMA CacheTypes ==
  ASSUME TypeInv, NEW p \in Proc, NEW m \in Host, Cache(p, m)
  PROVE  /\ proc' \in [Proc -> ProcState] /\ FoundSome'
         /\ kvMap' \in [Host -> Host \cup {None}] /\ mapLock' \in [Host -> Proc \cup {None}]
         /\ masterMap' \in [Host -> Host \cup {None}] /\ regLock' \in [Host -> Proc \cup {None}]
BY GotMasterTypes, UnlockTypes DEF Cache, TypeInv, MasterTypeOK

LEMMA ThrowTypes ==
  ASSUME TypeInv, NEW p \in Proc, Throw(p)
  PROVE  /\ proc' \in [Proc -> ProcState] /\ FoundSome'
         /\ kvMap' \in [Host -> Host \cup {None}] /\ mapLock' \in [Host -> Proc \cup {None}]
         /\ masterMap' \in [Host -> Host \cup {None}] /\ regLock' \in [Host -> Proc \cup {None}]
BY FinishTypes, UnlockTypes DEF Throw, FinishUnlocking, TypeInv, MasterTypeOK

-----------------------------------------------------------------------------
(* A step of a process keeps the types. *)
LEMMA StepTypes ==
  ASSUME TypeInv, NEW p \in Proc, Begin(p) \/ Step(p)
  PROVE  TypeInv'
<1> USE MasterConstants
<1>0. proc[p] \in ProcState /\ At(p) \in Host
  BY DEF TypeInv, MasterTypeOK, ProcState, At
<1>1. CASE Begin(p)
  <2>1. redisVars' = redisVars /\ hostVars' = hostVars /\ envVars' = envVars
    BY <1>1 DEF Begin
  <2>2. proc' \in [Proc -> ProcState] /\ FoundSome'
    <3>0. {"find", "lookup", "send"} \subseteq ProcPc
      BY DEF ProcPc
    <3>1. CASE \E o \in {"get", "size"} : proc' = [proc EXCEPT ![p] = [@ EXCEPT !.op = o, !.pc = "find"]]
      <4>1. PICK o \in {"get", "size"} : proc' = [proc EXCEPT ![p] = [@ EXCEPT !.op = o, !.pc = "find"]]
        BY <3>1
      <4> DEFINE r == [proc[p] EXCEPT !.op = o, !.pc = "find"]
      <4>2. r \in ProcState
        BY <1>0, <3>0, Updates
      <4>5. r.pc = "find"
        BY <1>0 DEF ProcState
      <4>3. proc' = [proc EXCEPT ![p] = r]
        BY <4>1
      <4> QED
        BY <4>2, <4>5, <4>3, UpdateTypes
    <3>2. CASE proc' = [proc EXCEPT ![p] = [@ EXCEPT !.op = "delete", !.pc = "lookup"]]
      <4> DEFINE r == [proc[p] EXCEPT !.op = "delete", !.pc = "lookup"]
      <4>2. r \in ProcState
        BY <1>0, <3>0, Updates
      <4>5. r.pc = "lookup"
        BY <1>0 DEF ProcState
      <4>3. proc' = [proc EXCEPT ![p] = r]
        BY <3>2
      <4> QED
        BY <4>2, <4>5, <4>3, UpdateTypes
    <3>3. CASE /\ kvMap[At(p)] \notin {None, At(p)}
               /\ proc' = [proc EXCEPT ![p] = [@ EXCEPT !.op = "access", !.pc = "send", !.found = kvMap[At(p)]]]
      <4> DEFINE r == [proc[p] EXCEPT !.op = "access", !.pc = "send", !.found = kvMap[At(p)]]
      <4>1. kvMap[At(p)] \in Host
        BY <1>0, <3>3 DEF TypeInv, MasterTypeOK
      <4>2. r \in ProcState
        BY <1>0, <3>0, <4>1, Updates
      <4>5. r.found # None
        BY <1>0, <4>1, MasterConstants DEF ProcState
      <4>3. proc' = [proc EXCEPT ![p] = r]
        BY <3>3
      <4> QED
        BY <4>2, <4>5, <4>3, UpdateTypes
    <3> QED
      BY <1>1, <3>1, <3>2, <3>3 DEF Begin
  <2> QED
    BY <2>1, <2>2 DEF TypeInv, MasterTypeOK, redisVars, hostVars, envVars
<1>2. CASE Find(p)
  BY <1>2, GotoTypes, FinishTypes DEF Find, TypeInv, MasterTypeOK, redisVars, hostVars, envVars, ProcPc
<1>3. CASE LockMap(p)
  BY <1>0, <1>3, GotoTypes, FinishTypes DEF LockMap, TypeInv, MasterTypeOK, redisVars, envVars, ProcPc
<1>4. CASE Lookup(p)
  <2>1. CASE masterMap[At(p)] # None
    <3>1. masterMap[At(p)] \in Host
      BY <1>0, <2>1 DEF TypeInv, MasterTypeOK
    <3> QED
      BY <1>4, <2>1, <3>1, GotMasterTypes DEF Lookup, TypeInv, MasterTypeOK, redisVars, envVars
  <2>2. CASE masterMap[At(p)] = None
    BY <1>4, <2>2, GotoTypes DEF Lookup, TypeInv, MasterTypeOK, redisVars, envVars, ProcPc
  <2> QED
    BY <2>1, <2>2
<1>5. CASE LockReg(p)
  <2>1. CASE masterMap[At(p)] # None
    <3>1. masterMap[At(p)] \in Host
      BY <1>0, <2>1 DEF TypeInv, MasterTypeOK
    <3> QED
      BY <1>5, <2>1, <3>1, GotMasterTypes DEF LockReg, TypeInv, MasterTypeOK, redisVars, envVars
  <2>2. CASE masterMap[At(p)] = None
    BY <1>0, <1>5, <2>2, GotoTypes DEF LockReg, TypeInv, MasterTypeOK, redisVars, envVars, ProcPc
  <2> QED
    BY <2>1, <2>2
<1>6. CASE Query(p)
  <2>1. redisVars' = redisVars /\ envVars' = envVars
    BY <1>6 DEF Query
  <2>2. CASE redisMaster # None /\ Cache(p, redisMaster)
    <3>1. redisMaster \in Host
      BY <2>2 DEF TypeInv, MasterTypeOK
    <3> QED
      BY <2>1, <2>2, <3>1, CacheTypes DEF TypeInv, MasterTypeOK, redisVars, envVars
  <2>3. CASE Throw(p)
    BY <2>1, <2>3, ThrowTypes DEF TypeInv, MasterTypeOK, redisVars, envVars
  <2>4. CASE Goto(p, "acquire") /\ UNCHANGED hostVars
    BY <2>1, <2>4, GotoTypes DEF TypeInv, MasterTypeOK, redisVars, envVars, hostVars, ProcPc
  <2> QED
    BY <1>6, <2>2, <2>3, <2>4 DEF Query
<1>7. CASE AcquireLock(p)
  BY <1>7, GotoTypes DEF AcquireLock, TypeInv, MasterTypeOK, hostVars, envVars, ProcPc
<1>8. CASE LockTaken(p)
  <2>1. CASE Retry(p) /\ proc' = [proc EXCEPT ![p].tries = @ + 1] /\ UNCHANGED hostVars
    <3>1. proc[p].tries + 1 \in 0..MaxRetries
      BY <1>0, <2>1 DEF Retry, ProcState
    <3>2. proc' \in [Proc -> ProcState] /\ FoundSome'
      BY <2>1, <3>1 DEF TypeInv, MasterTypeOK, FoundSome, ProcState
    <3> QED
      BY <1>8, <2>1, <3>2 DEF LockTaken, TypeInv, MasterTypeOK, redisVars, envVars, hostVars
  <2>2. CASE Throw(p)
    BY <1>8, <2>2, ThrowTypes DEF LockTaken, TypeInv, MasterTypeOK, redisVars, envVars
  <2> QED
    BY <1>8, <2>1, <2>2 DEF LockTaken
<1>9. CASE Recheck(p)
  <2>1. proc' \in [Proc -> ProcState] /\ FoundSome'
    BY <1>9, GotoTypes, GotoWithTypes DEF Recheck, TypeInv, MasterTypeOK, ProcPc
  <2> QED
    BY <1>9, <2>1 DEF Recheck, TypeInv, MasterTypeOK, redisVars, hostVars, envVars
<1>10. CASE Claim(p)
  <2>1. proc' \in [Proc -> ProcState] /\ FoundSome'
    BY <1>0, <1>10, GotoWithTypes DEF Claim, ProcPc
  <2> QED
    BY <1>0, <1>10, <2>1 DEF Claim, TypeInv, MasterTypeOK, hostVars, envVars
<1>11. CASE ReleaseLock(p)
  <2>1. proc[p].found \in Host
    BY <1>0, <1>11 DEF ReleaseLock, TypeInv, FoundSome, ProcState
  <2>2. redisLock' \in Proc \cup {None}
    BY <1>11 DEF ReleaseLock, TypeInv, MasterTypeOK
  <2> QED
    BY <1>11, <2>1, <2>2, CacheTypes DEF ReleaseLock, TypeInv, MasterTypeOK, envVars
<1>12. CASE Send(p)
  <2>1. Server(p) \in Proc /\ Server(p) # p
    BY <1>12, Halves DEF Send
  <2>2. proc[p].found \in Host
    BY <1>0, <1>12 DEF Send, TypeInv, FoundSome, ProcState
  <2>3. proc' \in [Proc -> ProcState] /\ FoundSome'
    <3>1. PICK l \in {"lookup", "find"}, o \in {"delete", "get"} :
            /\ proc' = [proc EXCEPT ![p].pc = "rpc",
                         ![Server(p)] = [@ EXCEPT !.pc = l, !.at = proc[p].found, !.op = o]]
      BY <1>12 DEF Send
    <3>2. {"lookup", "find", "rpc"} \subseteq ProcPc
      BY DEF ProcPc
    <3>3. /\ proc'[p] = [proc[p] EXCEPT !.pc = "rpc"]
          /\ proc'[Server(p)] = [proc[Server(p)] EXCEPT !.pc = l, !.at = proc[p].found, !.op = o]
          /\ \A q \in Proc \ {p, Server(p)} : proc'[q] = proc[q]
          /\ proc' = [q \in Proc |-> proc'[q]]
      BY <2>1, <3>1 DEF TypeInv, MasterTypeOK
    <3>4. proc'[p] \in ProcState /\ proc'[p].found # None
      <4>1. proc'[p] \in ProcState
        BY <1>0, <3>2, <3>3 DEF ProcState
      <4>2. proc'[p].found = proc[p].found
        BY <1>0, <3>3 DEF ProcState
      <4> QED
        BY <2>2, <4>1, <4>2, MasterConstants
    <3>5. proc[Server(p)] \in ProcState
      BY <2>1 DEF TypeInv, MasterTypeOK
    <3>6. proc'[Server(p)] \in ProcState /\ proc'[Server(p)].pc = l
      <4>1. proc'[Server(p)] \in ProcState
        <5>1. l \in ProcPc /\ o \in {"get", "size", "delete", "access"} /\ proc[p].found \in Host \cup {None}
          BY <2>2, <3>2
        <5>2. [proc[Server(p)] EXCEPT !.pc = l, !.at = proc[p].found, !.op = o] \in ProcState
          BY <2>2, <3>5, <5>1, Updates
        <5> QED
          BY <3>3, <5>2
      <4>2. proc'[Server(p)].pc = l
        BY <3>3, <3>5 DEF ProcState
      <4> QED
        BY <4>1, <4>2
    <3>7. \A q \in Proc : proc'[q] \in ProcState
      BY <3>3, <3>4, <3>6 DEF TypeInv, MasterTypeOK
    <3>8. FoundSome'
      BY <3>3, <3>4, <3>6 DEF TypeInv, FoundSome
    <3> QED
      BY <3>3, <3>7, <3>8
  <2> QED
    BY <1>12, <2>3 DEF Send, TypeInv, MasterTypeOK, redisVars, hostVars, envVars
<1>13. CASE GetReply(p)
  BY <1>13, GotoTypes, FinishTypes, UnlockTypes
  DEF GetReply, FinishUnlocking, TypeInv, MasterTypeOK, redisVars, envVars, ProcPc
<1>14. CASE Erase(p)
  BY <1>14, FinishTypes DEF Erase, TypeInv, MasterTypeOK, redisVars, envVars
<1> QED
  BY <1>1, <1>2, <1>3, <1>4, <1>5, <1>6, <1>7, <1>8, <1>9, <1>10, <1>11, <1>12, <1>13, <1>14 DEF Step

(* So does everything else that can happen. *)
LEMMA NextTypes == TypeInv /\ [NextMaster]_masterVars => TypeInv'
<1> SUFFICES ASSUME TypeInv, [NextMaster]_masterVars PROVE TypeInv'
  OBVIOUS
<1> USE MasterConstants
<1>1. ASSUME NEW p \in Proc, Begin(p) \/ Step(p) PROVE TypeInv'
  BY <1>1, StepTypes
<1>2. CASE Expire
  BY <1>2 DEF Expire, TypeInv, MasterTypeOK, FoundSome, hostVars, envVars
<1>3. ASSUME NEW h \in Host, Restart(h) PROVE TypeInv'
  <2>1. \A q \in Proc : proc'[q] = IdleProc(q) \/ proc'[q] = proc[q]
    BY <1>3 DEF Restart
  <2>2. proc' \in [Proc -> ProcState] /\ FoundSome'
    <3>1. \A q \in Proc : proc'[q] \in ProcState
      BY <2>1, Halves DEF TypeInv, MasterTypeOK
    <3>2. proc' = [q \in Proc |-> proc'[q]]
      BY <1>3 DEF Restart
    <3>3. FoundSome'
      BY <2>1, Halves DEF TypeInv, FoundSome
    <3> QED
      BY <3>1, <3>2, <3>3
  <2>3. mapLock' \in [Host -> Proc \cup {None}]
    BY <1>3 DEF Restart, TypeInv, MasterTypeOK
  <2> QED
    BY <1>3, <2>2, <2>3 DEF Restart, TypeInv, MasterTypeOK, redisVars
<1>4. ASSUME NEW h \in Host, FlushRegistry(h) PROVE TypeInv'
  BY <1>4 DEF FlushRegistry, TypeInv, MasterTypeOK, FoundSome, redisVars
<1>5. ASSUME NEW h \in Host, FlushKVs(h) PROVE TypeInv'
  BY <1>5 DEF FlushKVs, TypeInv, MasterTypeOK, FoundSome, redisVars
<1>6. CASE UNCHANGED masterVars
  BY <1>6 DEF masterVars, TypeInv, MasterTypeOK, FoundSome, redisVars, hostVars, envVars
<1> QED
  BY <1>1, <1>2, <1>3, <1>4, <1>5, <1>6 DEF NextMaster

LEMMA InitTypes == InitMaster => TypeInv
<1> SUFFICES ASSUME InitMaster PROVE TypeInv
  OBVIOUS
<1>1. proc \in [Proc -> ProcState] /\ FoundSome
  BY Halves DEF InitMaster, FoundSome
<1> QED
  BY <1>1, MasterConstants DEF InitMaster, TypeInv, MasterTypeOK

(* Every variable of the registry keeps its type, in particular no claim   *)
(* retries more often than REMOTE_LOCK_MAX_RETRIES.                        *)
THEOREM RegistryTypes == MasterSpec => []MasterTypeOK
<1>1. TypeInv => MasterTypeOK
  BY DEF TypeInv
<1> QED
  BY InitTypes, NextTypes, <1>1, PTL DEF MasterSpec

-----------------------------------------------------------------------------
(* Most steps are quiet: no process enters the claim, and what processes   *)
(* find and what hosts keep is the master in Redis.                        *)
QuietProcs == \A q \in Proc : /\ InClaim(q)' => proc'[q].pc = proc[q].pc
                             /\ proc'[q].found \in {None, redisMaster}
QuietMaps == \A h \in Host : masterMap'[h] \in {None, redisMaster} /\ kvMap'[h] \in {None, redisMaster}

LEMMA QuietProcStep ==
  ASSUME TypeInv, ClaimInv, QuietProcs, QuietMaps, UNCHANGED redisVars
  PROVE  ClaimInv'
<1>1. redisMaster' = redisMaster /\ redisLock' = redisLock
  BY DEF redisVars
<1>2. \A q \in Proc : InClaim(q)' => InClaim(q)
  BY DEF QuietProcs, InClaim
<1>3. LockHolder'
  BY <1>1, <1>2 DEF ClaimInv, LockHolder
<1>4. ClaimFresh'
  BY <1>1 DEF ClaimInv, ClaimFresh, QuietProcs, InClaim
<1>5. OneMaster'
  BY <1>1 DEF OneMaster, QuietProcs, QuietMaps
<1> QED
  BY <1>3, <1>4, <1>5 DEF ClaimInv

LEMMA QuietUpdate ==
  ASSUME TypeInv, ClaimInv, NEW p \in Proc, NEW r \in ProcState,
         r.pc \notin {"recheck", "claim", "release"}, r.found \in {None, redisMaster},
         proc' = [proc EXCEPT ![p] = r]
  PROVE  QuietProcs /\ ~InClaim(p)'
BY DEF TypeInv, MasterTypeOK, ClaimInv, OneMaster, QuietProcs, InClaim

LEMMA QuietGoto ==
  ASSUME TypeInv, ClaimInv, NEW p \in Proc,
         NEW l \in ProcPc \ {"recheck", "claim", "release"}, Goto(p, l)
  PROVE  QuietProcs
<1> DEFINE r == [proc[p] EXCEPT !.pc = l]
<1>1. proc[p] \in ProcState
  BY DEF TypeInv, MasterTypeOK
<1>2. r \in ProcState /\ r.pc = l /\ r.found = proc[p].found
  BY <1>1 DEF ProcState
<1>3. proc' = [proc EXCEPT ![p] = r]
  BY DEF Goto
<1>4. r.found \in {None, redisMaster}
  BY <1>2 DEF ClaimInv, OneMaster
<1> HIDE DEF r
<1> QED
  BY <1>2, <1>3, <1>4, QuietUpdate

LEMMA QuietGotoWith ==
  ASSUME TypeInv, ClaimInv, NEW p \in Proc, redisMaster \in Host,
         NEW l \in ProcPc \ {"recheck", "claim", "release"}, GotoWith(p, l, redisMaster)
  PROVE  QuietProcs /\ ~InClaim(p)'
<1> DEFINE r == [proc[p] EXCEPT !.pc = l, !.found = redisMaster]
<1>1. proc[p] \in ProcState
  BY DEF TypeInv, MasterTypeOK
<1>2. r \in ProcState /\ r.pc = l /\ r.found = redisMaster
  BY <1>1 DEF ProcState
<1>3. proc' = [proc EXCEPT ![p] = r]
  BY DEF GotoWith
<1> HIDE DEF r
<1> QED
  BY <1>2, <1>3, QuietUpdate

LEMMA QuietFinish ==
  ASSUME TypeInv, ClaimInv, NEW p \in Proc, Finish(p)
  PROVE  QuietProcs /\ ~InClaim(p)'
<1>1. ASSUME NEW q \in Proc
      PROVE /\ proc'[q] = IdleProc(q) \/ proc'[q] = proc[q] \/ proc'[q] = [proc[q] EXCEPT !.pc = "replied"]
            /\ proc'[p] = IdleProc(p)
  BY DEF Finish
<1>2. \A q \in Proc : proc[q] \in ProcState /\ proc[q].found \in {None, redisMaster}
  BY DEF TypeInv, MasterTypeOK, ClaimInv, OneMaster
<1>3. \A q \in Proc : [proc[q] EXCEPT !.pc = "replied"].pc = "replied"
                     /\ [proc[q] EXCEPT !.pc = "replied"].found = proc[q].found
  BY <1>2 DEF ProcState
<1>4. ASSUME NEW q \in Proc
      PROVE /\ proc'[q].pc \in {"recheck", "claim", "release"} => proc'[q].pc = proc[q].pc
            /\ proc'[q].found \in {None, redisMaster}
  <2>1. IdleProc(q).pc = "idle" /\ IdleProc(q).found = None
    BY Halves
  <2> QED
    BY <1>1, <1>2, <1>3, <2>1
<1>5. proc'[p].pc = "idle"
  BY <1>1, Halves
<1> QED
  BY <1>4, <1>5 DEF QuietProcs, InClaim

LEMMA QuietGotMaster ==
  ASSUME TypeInv, ClaimInv, NEW p \in Proc, redisMaster \in Host, GotMaster(p, redisMaster)
  PROVE  /\ QuietProcs /\ ~InClaim(p)'
         /\ \A h \in Host : kvMap'[h] \in {None, redisMaster}
<1>0. {"send", "erase"} \subseteq ProcPc \ {"recheck", "claim", "release"}
  BY DEF ProcPc
<1>1. kvMap' = kvMap \/ kvMap' = [kvMap EXCEPT ![At(p)] = redisMaster]
  BY DEF GotMaster
<1>2. \A h \in Host : kvMap'[h] \in {None, redisMaster}
  BY <1>1 DEF TypeInv, MasterTypeOK, ClaimInv, OneMaster
<1>3. Finish(p) \/ GotoWith(p, "send", redisMaster) \/ GotoWith(p, "erase", redisMaster)
  BY DEF GotMaster, FinishUnlocking
<1> QED
  BY <1>0, <1>2, <1>3, QuietFinish, QuietGotoWith

LEMMA QuietCache ==
  ASSUME TypeInv, ClaimInv, NEW p \in Proc, redisMaster \in Host, Cache(p, redisMaster)
  PROVE  QuietProcs /\ ~InClaim(p)' /\ QuietMaps
<1>1. \A h \in Host : masterMap'[h] \in {None, redisMaster}
  BY DEF Cache, TypeInv, MasterTypeOK, ClaimInv, OneMaster
<1> QED
  BY <1>1, QuietGotMaster DEF Cache, QuietMaps

LEMMA QuietThrow ==
  ASSUME TypeInv, ClaimInv, NEW p \in Proc, Throw(p)
  PROVE  QuietProcs /\ QuietMaps
BY QuietFinish DEF Throw, FinishUnlocking, QuietMaps, ClaimInv, OneMaster

(* What a host cached is the master in Redis. *)
LEMMA CachedMaster ==
  ASSUME TypeInv, ClaimInv, NEW h \in Host, masterMap[h] # None
  PROVE  masterMap[h] = redisMaster /\ redisMaster \in Host
BY DEF TypeInv, MasterTypeOK, ClaimInv, OneMaster

-----------------------------------------------------------------------------
(* A step of a process keeps the claim's invariant: only the holder of the *)
(* lock in Redis is in the claim, so nobody writes a master but once.      *)
LEMMA StepClaim ==
  ASSUME TypeInv, ClaimInv, NEW p \in Proc, Begin(p) \/ Step(p)
  PROVE  ClaimInv'
<1> USE MasterConstants
<1>0. proc[p] \in ProcState /\ At(p) \in Host /\ proc[p].found \in {None, redisMaster}
  BY DEF TypeInv, MasterTypeOK, ProcState, At, ClaimInv, OneMaster
<1>q. {"find", "lockMap", "lookup", "lockReg", "query", "acquire", "send", "rpc", "erase"}
        \subseteq ProcPc \ {"recheck", "claim", "release"}
  BY DEF ProcPc
<1>m. ASSUME masterMap' = masterMap, kvMap' = kvMap PROVE QuietMaps
  BY <1>m DEF QuietMaps, ClaimInv, OneMaster
<1>1. CASE Begin(p)
  <2>1. UNCHANGED redisVars /\ masterMap' = masterMap /\ kvMap' = kvMap
    BY <1>1 DEF Begin, hostVars
  <2>2. PICK o \in {"get", "size", "delete", "access"}, l \in {"find", "lookup", "send"},
             m \in {None, redisMaster} :
             \/ proc' = [proc EXCEPT ![p] = [@ EXCEPT !.op = o, !.pc = l]]
             \/ proc' = [proc EXCEPT ![p] = [@ EXCEPT !.op = o, !.pc = l, !.found = m]]
    <3>1. kvMap[At(p)] \in {None, redisMaster}
      BY <1>0 DEF ClaimInv, OneMaster
    <3> QED
      BY <1>1, <3>1 DEF Begin
  <2>3. QuietProcs
    <3>1. CASE proc' = [proc EXCEPT ![p] = [@ EXCEPT !.op = o, !.pc = l]]
      <4> DEFINE r == [proc[p] EXCEPT !.op = o, !.pc = l]
      <4>1. r \in ProcState /\ r.pc = l /\ r.found = proc[p].found
        BY <1>0, <1>q DEF ProcState
      <4>2. proc' = [proc EXCEPT ![p] = r]
        BY <3>1
      <4> HIDE DEF r
      <4> QED
        BY <1>0, <4>1, <4>2, QuietUpdate
    <3>2. CASE proc' = [proc EXCEPT ![p] = [@ EXCEPT !.op = o, !.pc = l, !.found = m]]
      <4> DEFINE r == [proc[p] EXCEPT !.op = o, !.pc = l, !.found = m]
      <4>0. m \in Host \cup {None}
        BY DEF TypeInv, MasterTypeOK
      <4>1. r \in ProcState /\ r.pc = l /\ r.found = m
        BY <1>0, <1>q, <4>0 DEF ProcState
      <4>2. proc' = [proc EXCEPT ![p] = r]
        BY <3>2
      <4> HIDE DEF r
      <4> QED
        BY <4>1, <4>2, QuietUpdate
    <3> QED
      BY <2>2, <3>1, <3>2
  <2> QED
    BY <1>m, <2>1, <2>3, QuietProcStep
<1>2. CASE Find(p)
  <2>1. QuietProcs
    BY <1>q, <1>2, QuietGoto, QuietFinish DEF Find
  <2> QED
    BY <1>m, <1>2, <2>1, QuietProcStep DEF Find, hostVars
<1>3. CASE LockMap(p)
  <2>1. QuietProcs
    BY <1>q, <1>3, QuietGoto, QuietFinish DEF LockMap
  <2> QED
    BY <1>m, <1>3, <2>1, QuietProcStep DEF LockMap
<1>4. CASE Lookup(p)
  <2>1. CASE masterMap[At(p)] # None
    <3>1. redisMaster \in Host /\ GotMaster(p, redisMaster)
      BY <1>0, <1>4, <2>1, CachedMaster DEF Lookup
    <3>2. QuietProcs /\ QuietMaps
      BY <1>4, <3>1, QuietGotMaster DEF Lookup, QuietMaps, ClaimInv, OneMaster
    <3> QED
      BY <1>4, <3>2, QuietProcStep DEF Lookup
  <2>2. CASE masterMap[At(p)] = None
    <3>1. QuietProcs /\ masterMap' = masterMap /\ kvMap' = kvMap
      BY <1>q, <1>4, <2>2, QuietGoto DEF Lookup
    <3> QED
      BY <1>m, <1>4, <3>1, QuietProcStep DEF Lookup
  <2> QED
    BY <2>1, <2>2
<1>5. CASE LockReg(p)
  <2>1. CASE masterMap[At(p)] # None
    <3>1. redisMaster \in Host /\ GotMaster(p, redisMaster)
      BY <1>0, <1>5, <2>1, CachedMaster DEF LockReg
    <3>2. QuietProcs /\ QuietMaps
      BY <1>5, <3>1, QuietGotMaster DEF LockReg, QuietMaps, ClaimInv, OneMaster
    <3> QED
      BY <1>5, <3>2, QuietProcStep DEF LockReg
  <2>2. CASE masterMap[At(p)] = None
    <3>1. QuietProcs /\ masterMap' = masterMap /\ kvMap' = kvMap
      BY <1>q, <1>5, <2>2, QuietGoto DEF LockReg
    <3> QED
      BY <1>m, <1>5, <3>1, QuietProcStep DEF LockReg
  <2> QED
    BY <2>1, <2>2
<1>6. CASE Query(p)
  <2>1. UNCHANGED redisVars
    BY <1>6 DEF Query
  <2>2. CASE redisMaster # None /\ Cache(p, redisMaster)
    <3>1. redisMaster \in Host
      BY <2>2 DEF TypeInv, MasterTypeOK
    <3> QED
      BY <2>1, <2>2, <3>1, QuietCache, QuietProcStep
  <2>3. CASE Throw(p)
    BY <2>1, <2>3, QuietThrow, QuietProcStep
  <2>4. CASE Goto(p, "acquire") /\ UNCHANGED hostVars
    <3>1. QuietProcs /\ QuietMaps
      BY <1>q, <1>m, <2>4, QuietGoto DEF hostVars
    <3> QED
      BY <2>1, <3>1, QuietProcStep
  <2> QED
    BY <1>6, <2>2, <2>3, <2>4 DEF Query
<1>7. CASE AcquireLock(p)
  <2>1. \A q \in Proc : ~InClaim(q)
    BY <1>7 DEF AcquireLock, SetNx, ClaimInv, LockHolder
  <2>2. /\ redisLock' = p /\ redisMaster' = redisMaster /\ masterMap' = masterMap /\ kvMap' = kvMap
        /\ \A q \in Proc : q # p => proc'[q] = proc[q]
        /\ proc'[p] = [proc[p] EXCEPT !.pc = "recheck"]
    BY <1>7 DEF AcquireLock, Goto, hostVars, TypeInv, MasterTypeOK
  <2>3. proc'[p].pc = "recheck" /\ proc'[p].found = proc[p].found
    BY <1>0, <2>2 DEF ProcState
  <2>4. LockHolder'
    BY <2>1, <2>2 DEF LockHolder, InClaim
  <2>5. ClaimFresh'
    BY <2>1, <2>2, <2>3 DEF ClaimFresh, InClaim
  <2>6. OneMaster'
    BY <2>2, <2>3 DEF ClaimInv, OneMaster
  <2> QED
    BY <2>4, <2>5, <2>6 DEF ClaimInv
<1>8. CASE LockTaken(p)
  <2>1. CASE proc' = [proc EXCEPT ![p].tries = @ + 1] /\ UNCHANGED hostVars
    <3>1. /\ \A q \in Proc : q # p => proc'[q] = proc[q]
          /\ proc'[p] = [proc[p] EXCEPT !.tries = @ + 1]
      BY <2>1 DEF TypeInv, MasterTypeOK
    <3>2. proc'[p].pc = proc[p].pc /\ proc'[p].found = proc[p].found
      BY <1>0, <3>1 DEF ProcState
    <3>3. QuietProcs
      BY <3>1, <3>2 DEF QuietProcs, ClaimInv, OneMaster
    <3> QED
      BY <1>m, <1>8, <2>1, <3>3, QuietProcStep DEF LockTaken, hostVars
  <2>2. CASE Throw(p)
    BY <1>8, <2>2, QuietThrow, QuietProcStep DEF LockTaken
  <2> QED
    BY <1>8, <2>1, <2>2 DEF LockTaken
<1>9. CASE Recheck(p)
  <2>1. PICK l \in {"claim", "release"} :
          /\ \A q \in Proc : q # p => proc'[q] = proc[q]
          /\ proc'[p].pc = l /\ proc'[p].found \in {None, redisMaster}
          /\ l = "claim" => redisMaster = None
    <3>1. CASE redisMaster = None
      <4>1. /\ \A q \in Proc : q # p => proc'[q] = proc[q]
            /\ proc'[p] = [proc[p] EXCEPT !.pc = "claim"]
        BY <1>9, <3>1 DEF Recheck, Goto, TypeInv, MasterTypeOK
      <4>2. proc'[p].pc = "claim" /\ proc'[p].found = proc[p].found
        BY <1>0, <4>1 DEF ProcState
      <4> QED
        BY <1>0, <3>1, <4>1, <4>2
    <3>2. CASE redisMaster # None
      <4>1. /\ \A q \in Proc : q # p => proc'[q] = proc[q]
            /\ proc'[p] = [proc[p] EXCEPT !.pc = "release", !.found = redisMaster]
        BY <1>9, <3>2 DEF Recheck, GotoWith, TypeInv, MasterTypeOK
      <4>2. proc'[p].pc = "release" /\ proc'[p].found = redisMaster
        BY <1>0, <4>1 DEF ProcState
      <4> QED
        BY <4>1, <4>2
    <3> QED
      BY <3>1, <3>2
  <2>2. /\ InClaim(p) /\ redisMaster' = redisMaster /\ redisLock' = redisLock
        /\ masterMap' = masterMap /\ kvMap' = kvMap
    BY <1>9 DEF Recheck, InClaim, redisVars, hostVars
  <2>3. LockHolder'
    BY <2>1, <2>2 DEF ClaimInv, LockHolder, InClaim
  <2>4. ClaimFresh'
    BY <2>1, <2>2 DEF ClaimInv, ClaimFresh
  <2>5. OneMaster'
    BY <2>1, <2>2 DEF ClaimInv, OneMaster
  <2> QED
    BY <2>3, <2>4, <2>5 DEF ClaimInv
<1>10. CASE Claim(p)
  <2>1. InClaim(p) /\ redisMaster = None /\ redisLock = p
    BY <1>10 DEF Claim, InClaim, ClaimInv, ClaimFresh, LockHolder
  <2>2. /\ \A q \in Proc : q # p => proc'[q] = proc[q]
        /\ proc'[p] = [proc[p] EXCEPT !.pc = "release", !.found = At(p)]
        /\ redisMaster' = At(p) /\ redisLock' = redisLock /\ masterMap' = masterMap /\ kvMap' = kvMap
    BY <1>10 DEF Claim, GotoWith, hostVars, TypeInv, MasterTypeOK
  <2>3. proc'[p].pc = "release" /\ proc'[p].found = At(p)
    BY <1>0, <2>2 DEF ProcState
  <2>4. LockHolder'
    BY <2>1, <2>2 DEF ClaimInv, LockHolder, InClaim
  <2>5. ClaimFresh'
    BY <2>1, <2>2, <2>3 DEF ClaimInv, ClaimFresh, LockHolder, InClaim
  <2>6. OneMaster'
    BY <2>1, <2>2, <2>3 DEF ClaimInv, OneMaster
  <2> QED
    BY <2>4, <2>5, <2>6 DEF ClaimInv
<1>11. CASE ReleaseLock(p)
  <2>1. InClaim(p) /\ proc[p].found = redisMaster /\ redisMaster \in Host
    BY <1>0, <1>11 DEF ReleaseLock, InClaim, TypeInv, MasterTypeOK, FoundSome
  <2>2. QuietProcs /\ ~InClaim(p)' /\ QuietMaps
    BY <1>11, <2>1, QuietCache DEF ReleaseLock
  <2>3. \A q \in Proc : ~InClaim(q)'
    BY <2>1, <2>2 DEF QuietProcs, InClaim, ClaimInv, LockHolder
  <2>4. redisMaster' = redisMaster
    BY <1>11 DEF ReleaseLock
  <2>5. LockHolder' /\ ClaimFresh'
    BY <2>3 DEF LockHolder, ClaimFresh, InClaim
  <2>6. OneMaster'
    BY <2>2, <2>4 DEF QuietProcs, QuietMaps, OneMaster
  <2> QED
    BY <2>5, <2>6 DEF ClaimInv
<1>12. CASE Send(p)
  <2>1. Server(p) \in Proc /\ Server(p) # p
    BY <1>12, Halves DEF Send
  <2>2. PICK l \in {"lookup", "find"}, o \in {"delete", "get"} :
          /\ proc'[p] = [proc[p] EXCEPT !.pc = "rpc"]
          /\ proc'[Server(p)] = [proc[Server(p)] EXCEPT !.pc = l, !.at = proc[p].found, !.op = o]
          /\ \A q \in Proc \ {p, Server(p)} : proc'[q] = proc[q]
    <3>1. PICK l \in {"lookup", "find"}, o \in {"delete", "get"} :
            /\ proc' = [proc EXCEPT ![p].pc = "rpc",
                         ![Server(p)] = [@ EXCEPT !.pc = l, !.at = proc[p].found, !.op = o]]
      BY <1>12 DEF Send
    <3> QED
      BY <2>1, <3>1 DEF TypeInv, MasterTypeOK
  <2>3. proc'[p].pc = "rpc" /\ proc'[p].found = proc[p].found
    BY <1>0, <2>2 DEF ProcState
  <2>4. proc'[Server(p)].pc = l /\ proc'[Server(p)].found = proc[Server(p)].found
    BY <2>1, <2>2 DEF TypeInv, MasterTypeOK, ProcState
  <2>5. QuietProcs
    BY <2>1, <2>2, <2>3, <2>4 DEF QuietProcs, InClaim, ClaimInv, OneMaster
  <2> QED
    BY <1>m, <1>12, <2>5, QuietProcStep DEF Send, hostVars
<1>13. CASE GetReply(p)
  <2>1. QuietProcs
    BY <1>q, <1>13, QuietGoto, QuietFinish DEF GetReply, FinishUnlocking
  <2> QED
    BY <1>m, <1>13, <2>1, QuietProcStep DEF GetReply
<1>14. CASE Erase(p)
  <2>1. QuietProcs
    BY <1>14, QuietFinish DEF Erase
  <2>2. QuietMaps
    BY <1>14 DEF Erase, QuietMaps, TypeInv, MasterTypeOK, ClaimInv, OneMaster
  <2> QED
    BY <1>14, <2>1, <2>2, QuietProcStep DEF Erase
<1> QED
  BY <1>1, <1>2, <1>3, <1>4, <1>5, <1>6, <1>7, <1>8, <1>9, <1>10, <1>11, <1>12, <1>13, <1>14 DEF Step

(* So does all the rest, unless the lock expires under its holder. *)
LEMMA NextClaim == ~Slow /\ TypeInv /\ ClaimInv /\ [NextMaster]_masterVars => ClaimInv'
<1> SUFFICES ASSUME ~Slow, TypeInv, ClaimInv, [NextMaster]_masterVars PROVE ClaimInv'
  OBVIOUS
<1>1. ASSUME NEW p \in Proc, Begin(p) \/ Step(p) PROVE ClaimInv'
  BY <1>1, StepClaim
<1>2. CASE Expire
  <2>1. \A q \in Proc : ~InClaim(q)
    BY <1>2 DEF Expire, TypeInv, MasterTypeOK, ClaimInv, LockHolder
  <2>2. redisMaster' = redisMaster /\ proc' = proc /\ masterMap' = masterMap /\ kvMap' = kvMap
    BY <1>2 DEF Expire, hostVars
  <2> QED
    BY <2>1, <2>2 DEF ClaimInv, LockHolder, ClaimFresh, OneMaster, InClaim
<1>3. ASSUME NEW h \in Host, Restart(h) PROVE ClaimInv'
  <2>1. \A q \in Proc : proc'[q] = IdleProc(q) \/ proc'[q] = proc[q]
    BY <1>3 DEF Restart
  <2>2. QuietProcs
    BY <2>1, Halves DEF QuietProcs, InClaim, ClaimInv, OneMaster
  <2>3. QuietMaps
    BY <1>3 DEF Restart, QuietMaps, TypeInv, MasterTypeOK, ClaimInv, OneMaster
  <2> QED
    BY <1>3, <2>2, <2>3, QuietProcStep DEF Restart
<1>4. ASSUME NEW h \in Host, FlushRegistry(h) PROVE ClaimInv'
  <2>1. QuietProcs
    BY <1>4 DEF FlushRegistry, QuietProcs, ClaimInv, OneMaster
  <2>2. QuietMaps
    BY <1>4 DEF FlushRegistry, QuietMaps, TypeInv, MasterTypeOK, ClaimInv, OneMaster
  <2> QED
    BY <1>4, <2>1, <2>2, QuietProcStep DEF FlushRegistry
<1>5. ASSUME NEW h \in Host, FlushKVs(h) PROVE ClaimInv'
  <2>1. QuietProcs
    BY <1>5 DEF FlushKVs, QuietProcs, ClaimInv, OneMaster
  <2>2. QuietMaps
    BY <1>5 DEF FlushKVs, QuietMaps, TypeInv, MasterTypeOK, ClaimInv, OneMaster
  <2> QED
    BY <1>5, <2>1, <2>2, QuietProcStep DEF FlushKVs
<1>6. CASE UNCHANGED masterVars
  BY <1>6 DEF masterVars, redisVars, hostVars, ClaimInv, LockHolder, ClaimFresh, OneMaster, InClaim
<1> QED
  BY <1>1, <1>2, <1>3, <1>4, <1>5, <1>6 DEF NextMaster

LEMMA InitClaim == InitMaster => ClaimInv
BY Halves DEF InitMaster, ClaimInv, LockHolder, ClaimFresh, OneMaster, InClaim

(* Where no claim outlasts its lock in Redis, all hosts agree on the       *)
(* master of the key, through restarts, flushes and expired locks.         *)
THEOREM MasterAgreement == ~Slow => (MasterSpec => []OneMaster)
<1>1. ClaimInv => OneMaster
  BY DEF ClaimInv
<1>2. CASE ~Slow
  <2>1. TypeInv /\ ClaimInv /\ [NextMaster]_masterVars => TypeInv' /\ ClaimInv'
    BY <1>2, NextTypes, NextClaim
  <2> QED
    BY <1>1, <2>1, InitTypes, InitClaim, PTL DEF MasterSpec
<1> QED
  BY <1>2

-----------------------------------------------------------------------------
(* The value: its types. *)
Ops == Moving \cup {"idle", "wrote", "appended", "readLocked", "writeLocked", "global"}
Values == [Cell -> Nat]
KV == [mem : Values, pages : SUBSET Page, fullyAllocated : BOOLEAN, fullyPulled : BOOLEAN,
       pulledMask : SUBSET Cell, dirtyMask : SUBSET Cell, isDirty : BOOLEAN]
Doing == [op : Ops, todo : Seq(SUBSET Cell) \cup Seq(Nat), of : SUBSET Cell]

TypeOK ==
  /\ style \in Styles
  /\ kv \in [Host -> KV]
  /\ mask \in [Host -> SUBSET Cell]
  /\ appended \in Seq(Nat)
  /\ pc \in [Thread -> Doing]
  /\ mapped \in [Thread -> SUBSET Cell]
  /\ unsent \in [Host -> SUBSET Cell]
  /\ writes \in Nat /\ calls \in Nat /\ faults \in Nat

(* Which operations a style has. *)
Allowed(op) ==
  /\ op = "pull" => style \in {"set", "offset", "ptr", "mask"}
  /\ op = "pullChunk" => style \in {"offset", "offsetPtr"}
  /\ op = "push" => style \in {"set", "ptr"}
  /\ op = "partial" => style \in {"offset", "offsetPtr"}
  /\ op = "mask" => style = "mask"
  /\ op = "refresh" => InPart
  /\ op = "wrote" => style \in {"ptr", "offsetPtr", "mask"}
StyleInv == \A t \in Thread : Allowed(pc[t].op)

(* One thread of a host moves chunks at a time, and in the styles with one *)
(* writer it is the writer that writes and pushes.                         *)
LockInv ==
  \A t, u \in Thread :
    HostOf[t] = HostOf[u] /\ pc[t].op \in Moving /\ pc[u].op \in Moving => t = u
ForWriter(t, op) ==
  style \in {"offsetPtr", "mask"} /\ op \in {"wrote", "partial", "mask", "refresh"} => t = Writer[HostOf[t]]
WriterInv == \A t \in Thread : ForWriter(t, pc[t].op)

(* What is pulled or flagged has its pages. *)
PagesOK(k) ==
  /\ k.fullyAllocated => k.pages = Page
  /\ k.fullyPulled => k.pages = Page
  /\ PagesOf(k.pulledMask) \subseteq k.pages
PullHasPages(d, k) ==
  /\ d.op = "pull" => k.pages = Page
  /\ d.op = "pullChunk" => PagesOf(d.of) \subseteq k.pages
AllocInv ==
  /\ \A h \in Host : PagesOK(kv[h])
  /\ \A t \in Thread : PullHasPages(pc[t], kv[HostOf[t]])

(* The master has nothing to send, and moves nothing. *)
MasterInv ==
  /\ unsent[Master] = {}
  /\ \A t \in Thread : HostOf[t] = Master /\ pc[t].op \in Moving => pc[t].todo = <<>>

(* Elsewhere only what was pulled is written, chunks are pulled whole,     *)
(* and what is flagged was pulled, and is not sent yet.                    *)
KeptOK(h) ==
  /\ unsent[h] # {} => IsChunkPulled(kv[h], unsent[h])
  /\ style \notin {"offset", "offsetPtr"} => kv[h].pulledMask = {}
  /\ style \in {"set", "ptr"} /\ kv[h].isDirty => kv[h].fullyPulled
  /\ \A C \in Chunk : C \subseteq kv[h].pulledMask \/ C \cap kv[h].pulledMask = {}
  /\ InPart => kv[h].dirtyMask \cup mask[h] \subseteq unsent[h]
  /\ style = "mask" => kv[h].dirtyMask = {}
  /\ style # "mask" => mask[h] = {}

(* The cells of chunks, and where a cell that is unsent may be.            *)
Cells(chunks) == UNION ToSet(chunks)
NoOverlap(chunks) == \A i, j \in DOMAIN chunks : i # j => chunks[i] \cap chunks[j] = {}

Wrote(h, c) == \E t \in Thread : HostOf[t] = h /\ pc[t].op = "wrote" /\ c \in pc[t].of
Sends(h, c) ==
  \E t \in Thread : HostOf[t] = h /\ pc[t].op \in {"push", "partial", "mask"} /\ c \in Cells(pc[t].todo)
PromisedOK(h) == \A c \in unsent[h] : Wrote(h, c) \/ Sends(h, c) \/ c \in WillSend(h)

(* What a thread that moves chunks, or has just written, knows. *)
MoveOK(t, h) ==
  /\ pc[t].op = "pull" => unsent[h] = {} /\ (style \in {"ptr", "mask"} => ~kv[h].fullyPulled)
  /\ pc[t].op = "pullChunk" =>
       /\ pc[t].of \in Chunk /\ ToSet(pc[t].todo) \subseteq {pc[t].of}
       /\ ~kv[h].fullyPulled /\ pc[t].of \cap kv[h].pulledMask = {}
  /\ pc[t].op = "push" =>
       kv[h].isDirty /\ \A c \in unsent[h] : Wrote(h, c) \/ c \in Cells(pc[t].todo)
  /\ pc[t].op \in {"partial", "mask"} =>
       /\ unsent[h] = Cells(pc[t].todo) /\ NoOverlap(pc[t].todo)
       /\ kv[h].dirtyMask = {} /\ mask[h] = {}
  /\ pc[t].op = "refresh" => unsent[h] = {}
  /\ pc[t].op = "wrote" /\ InPart => pc[t].of \subseteq unsent[h]
  /\ pc[t].op = "wrote" /\ style = "ptr" => kv[h].fullyPulled
  /\ pc[t].op = "wrote" /\ style = "mask" => pc[t].of \subseteq mask[h]

HostOK(h) == KeptOK(h) /\ PromisedOK(h) /\ \A t \in Thread : HostOf[t] = h => MoveOK(t, h)
RemoteInv == \A h \in Host \ {Master} : HostOK(h)

TodoInv == \A t \in Thread : pc[t].op \in Moving => pc[t].todo \in Seq(SUBSET Cell)

IInv ==
  /\ TypeOK /\ TodoInv /\ StyleInv /\ LockInv /\ WriterInv
  /\ AllocInv /\ MasterInv /\ RemoteInv

-----------------------------------------------------------------------------
(* The assumptions on the constants, in one fact. *)
LEMMA Constants ==
  /\ Master \in Host /\ HostOf \in [Thread -> Host]
  /\ NCells \in Nat /\ NCells >= 1 /\ CellsPerPage \in Nat /\ CellsPerPage >= 1
  /\ MaxWrites \in Nat /\ MaxCalls \in [Styles -> Nat] /\ MaxFaults \in [Styles -> Nat]
  /\ Cell = 1..NCells /\ Cell \subseteq Nat
  /\ \A C \in Chunk : C \subseteq Cell
BY HostAssumption, ValueAssumption, ChunkAssumption DEF Cell

(* Induction over an interval, with a set in place of a predicate. *)
LEMMA LeastElement ==
  ASSUME NEW T, T \subseteq Nat, IsFiniteSet(T), T # {}
  PROVE  \E m \in T : \A k \in T : m <= k
<1> DEFINE Below(x) == {y \in T : y < x}
           B == {Below(x) : x \in T}
<1>1. B \subseteq SUBSET T /\ B # {}
  OBVIOUS
<1>2. IsWellFoundedOn(StrictSubsetOrdering(T), SUBSET T)
  BY FS_StrictSubsetOrderingWellFounded, FS_FiniteSubsetsOfFinite
<1>3. \E U \in B : \A V \in B : ~ (<<V, U>> \in StrictSubsetOrdering(T))
  BY <1>1, <1>2, WFMin
<1>4. PICK x \in T : \A z \in T : ~ (<<Below(z), Below(x)>> \in StrictSubsetOrdering(T))
  BY <1>3
<1>5. ASSUME NEW y \in T PROVE x <= y
  <2>1. SUFFICES ASSUME y < x PROVE FALSE
    BY <1>5
  <2>2. y \in Below(x) /\ y \notin Below(y)
    BY <2>1, <1>5
  <2>3. ASSUME NEW z \in Below(y) PROVE z \in Below(x)
    <3>1. z \in T /\ z \in Nat /\ z < y /\ x \in Nat /\ y \in Nat
      BY <2>3, <1>4, <1>5
    <3> QED
      BY <3>1, <2>1
  <2>4. <<Below(y), Below(x)>> \in (SUBSET T) \X (SUBSET T)
    OBVIOUS
  <2>5. <<Below(y), Below(x)>> \in StrictSubsetOrdering(T)
    BY <2>2, <2>3, <2>4 DEF StrictSubsetOrdering
  <2> QED
    BY <2>5, <1>4, <1>5
<1> QED
  BY <1>5

LEMMA IntervalInduction ==
  ASSUME NEW N \in Nat, NEW S, 0 \in S, \A i \in 1..N : i - 1 \in S => i \in S
  PROVE  \A i \in 0..N : i \in S
<1> DEFINE T == (0..N) \ S
<1>1. SUFFICES ASSUME T # {} PROVE FALSE
  OBVIOUS
<1>2. IsFiniteSet(0..N) /\ T \in SUBSET (0..N)
  BY FS_Interval
<1>3. IsFiniteSet(T) /\ T \subseteq Nat
  BY <1>2, FS_Subset
<1> HIDE DEF T
<1>4. PICK m \in T : \A k \in T : m <= k
  BY <1>1, <1>3, LeastElement
<1> USE DEF T
<1>5. m \in 0..N /\ m \notin S
  BY <1>4
<1>6. m # 0
  BY <1>5
<1>7. m \in 1..N /\ m - 1 \in 0..N /\ ~ (m <= m - 1)
  BY <1>5, <1>6
<1>8. m - 1 \in S
  BY <1>4, <1>7
<1> QED
  BY <1>5, <1>7, <1>8

-----------------------------------------------------------------------------
(* The scan of a mask.  First, that its recursive definition defines it. *)
NoRun == [chunks |-> <<>>, startIdx |-> 0]

LEMMA ScanDefined ==
  ASSUME NEW D
  PROVE  \E f : /\ ScanNoTail(D) = f[NCells] /\ f[0] = NoRun
                /\ \A i \in 1..NCells : f[i] = ScanCell(f[i - 1], i, D)
<1> DEFINE Body(g, i) == IF i = 0 THEN NoRun ELSE ScanCell(g[i - 1], i, D)
           Some(g, n) == g = [i \in 0..n |-> Body(g, i)]
           S == {n \in 0..NCells : \E g : Some(g, n)}
<1>1. 0 \in S
  <2> DEFINE g == [i \in 0..0 |-> NoRun]
  <2>1. Some(g, 0)
    BY 0..0 = {0}
  <2> HIDE DEF Some, g
  <2> QED
    BY <2>1, Constants
<1>2. ASSUME NEW n \in 1..NCells, n - 1 \in S PROVE n \in S
  <2>1. PICK g : Some(g, n - 1)
    BY <1>2
  <2> DEFINE h == [i \in 0..n |-> IF i = n THEN ScanCell(g[n - 1], n, D) ELSE g[i]]
  <2>2. \A i \in 0..(n - 1) : h[i] = g[i]
    OBVIOUS
  <2>3. \A i \in 0..(n - 1) : g[i] = Body(g, i)
    BY <2>1
  <2>4. ASSUME NEW i \in 0..n PROVE h[i] = Body(h, i)
    <3>1. CASE i = n
      BY <3>1, <2>2
    <3>2. CASE i # n
      <4>1. i \in 0..(n - 1) /\ (i # 0 => i - 1 \in 0..(n - 1))
        BY <3>2
      <4> HIDE DEF h
      <4> QED
        BY <4>1, <2>2, <2>3
    <3> QED
      BY <3>1, <3>2
  <2>5. h = [i \in 0..n |-> h[i]]
    OBVIOUS
  <2>6. Some(h, n)
    <3> HIDE DEF h
    <3> QED
      BY <2>4, <2>5
  <2> HIDE DEF Some, h
  <2> QED
    BY <2>6
<1>3. NCells \in S
  <2> HIDE DEF S
  <2> QED
    BY <1>1, <1>2, IntervalInduction, Constants, SMTT(30)
<1> DEFINE scan == CHOOSE f : Some(f, NCells)
<1>4. Some(scan, NCells)
  <2> HIDE DEF Some
  <2> QED
    BY <1>3
<1>5. ScanNoTail(D) = scan[NCells]
  BY DEF ScanNoTail, NoRun
<1>6. \A i \in 0..NCells : scan[i] = Body(scan, i)
  <2> HIDE DEF scan
  <2> QED
    BY <1>4
<1> HIDE DEF scan
<1>7. scan[0] = NoRun
  BY <1>6, Constants
<1>8. \A i \in 1..NCells : scan[i] = ScanCell(scan[i - 1], i, D)
  BY <1>6, Constants
<1> QED
  BY <1>5, <1>7, <1>8

(* What the scan has found when it is past cell i: runs, in order, and the *)
(* beginning of one that is still open.                                    *)
IsRun(C, D) ==
  \E a, b \in Cell : a <= b /\ C = a..b /\ C \subseteq D /\ a - 1 \notin D /\ b + 1 \notin D
InOrder(chunks) ==
  \A j, k \in DOMAIN chunks : j < k => \A x \in chunks[j], y \in chunks[k] : x < y
RunsUpTo(chunks, D, n) ==
  /\ chunks \in Seq(SUBSET Cell) /\ InOrder(chunks)
  /\ \A j \in DOMAIN chunks : IsRun(chunks[j], D) /\ \A c \in chunks[j] : c < n
  /\ \A c \in D : c < n => \E j \in DOMAIN chunks : c \in chunks[j]
Scanned(s, i, D) ==
  /\ s \in [chunks : Seq(SUBSET Cell), startIdx : Nat]
  /\ s.startIdx \in 0..i
  /\ s.startIdx = 0 => i \notin D /\ RunsUpTo(s.chunks, D, i + 1)
  /\ s.startIdx # 0 =>
       RunsUpTo(s.chunks, D, s.startIdx) /\ s.startIdx..i \subseteq D /\ s.startIdx - 1 \notin D

LEMMA AppendRun ==
  ASSUME NEW D \in SUBSET Cell, NEW chunks, NEW a \in Cell, NEW b \in Cell, a <= b,
         RunsUpTo(chunks, D, a), a..b \subseteq D, a - 1 \notin D, b + 1 \notin D
  PROVE  RunsUpTo(Append(chunks, a..b), D, b + 2)
<1> DEFINE new == Append(chunks, a..b)
<1>1. a \in Nat /\ b \in Nat /\ a..b \in SUBSET Cell /\ chunks \in Seq(SUBSET Cell)
  BY Constants DEF RunsUpTo
<1>2. PICK n \in Nat : n = Len(chunks) /\ DOMAIN chunks = 1..n
  BY <1>1
<1>3. /\ new \in Seq(SUBSET Cell) /\ DOMAIN new = 1..(n + 1)
      /\ new[n + 1] = a..b /\ \A j \in 1..n : new[j] = chunks[j]
  BY <1>1, <1>2
<1> HIDE DEF new
<1>4. \A j \in 1..n : IsRun(chunks[j], D) /\ (\A c \in chunks[j] : c < a /\ c \in Nat)
  <2>1. \A j \in DOMAIN chunks : IsRun(chunks[j], D) /\ \A c \in chunks[j] : c < a
    BY Zenon DEF RunsUpTo
  <2>2. \A j \in 1..n : chunks[j] \in SUBSET Nat
    BY <1>1, <1>2, Constants
  <2> QED
    BY <2>1, <2>2, <1>2
<1>5. IsRun(a..b, D)
  BY DEF IsRun
<1>6. InOrder(new)
  <2> SUFFICES ASSUME NEW j \in 1..(n + 1), NEW k \in 1..(n + 1), j < k, NEW x \in new[j], NEW y \in new[k]
               PROVE  x < y
    BY <1>3 DEF InOrder
  <2>1. j \in 1..n /\ x \in chunks[j] /\ x < a /\ x \in Nat
    BY <1>2, <1>3, <1>4
  <2>2. CASE k = n + 1
    BY <2>1, <2>2, <1>3, <1>1
  <2>3. CASE k # n + 1
    <3>1. k \in 1..n /\ y \in chunks[k]
      BY <2>3, <1>2, <1>3
    <3> QED
      BY <2>1, <3>1, <1>2 DEF RunsUpTo, InOrder
  <2> QED
    BY <2>2, <2>3
<1>7. ASSUME NEW j \in DOMAIN new PROVE IsRun(new[j], D) /\ \A c \in new[j] : c < b + 2
  <2>1. CASE j = n + 1
    BY <2>1, <1>1, <1>3, <1>5
  <2>2. CASE j # n + 1
    <3>1. j \in 1..n
      BY <2>2, <1>2, <1>3
    <3> QED
      BY <3>1, <1>1, <1>3, <1>4
  <2> QED
    BY <2>1, <2>2
<1>8. ASSUME NEW c \in D, c < b + 2 PROVE \E j \in DOMAIN new : c \in new[j]
  <2>1. c \in Nat /\ c # b + 1
    BY Constants
  <2>2. CASE c < a
    BY <2>2, <1>2, <1>3 DEF RunsUpTo
  <2>3. CASE ~ (c < a)
    <3>1. c \in a..b
      BY <2>1, <2>3, <1>1, <1>8
    <3>2. n + 1 \in DOMAIN new /\ c \in new[n + 1]
      BY <3>1, <1>2, <1>3
    <3> QED
      BY <3>2
  <2> QED
    BY <2>2, <2>3
<1> QED
  BY <1>3, <1>6, <1>7, <1>8 DEF RunsUpTo, new

LEMMA ScanStep ==
  ASSUME NEW D \in SUBSET Cell, NEW i \in 1..NCells, NEW s, Scanned(s, i - 1, D)
  PROVE  Scanned(ScanCell(s, i, D), i, D)
<1>1. /\ i \in Nat /\ i >= 1 /\ i \in Cell /\ s.startIdx \in 0..(i - 1) /\ s.startIdx \in Nat
      /\ s \in [chunks : Seq(SUBSET Cell), startIdx : Nat] /\ i..i = {i} /\ i - 1 + 1 = i
  BY Constants DEF Scanned
<1>2. CASE i \in D /\ s.startIdx = 0
  <2>1. ScanCell(s, i, D) = [s EXCEPT !.startIdx = i]
    BY <1>2 DEF ScanCell
  <2> DEFINE r == ScanCell(s, i, D)
  <2>2. r \in [chunks : Seq(SUBSET Cell), startIdx : Nat] /\ r.startIdx = i /\ r.chunks = s.chunks
    BY <1>1, <2>1
  <2>3. RunsUpTo(s.chunks, D, i) /\ i - 1 \notin D
    BY <1>1, <1>2 DEF Scanned
  <2> HIDE DEF r
  <2>4. Scanned(r, i, D)
    BY <2>2, <2>3, <1>1, <1>2 DEF Scanned
  <2> QED
    BY <2>4 DEF r
<1>3. CASE i \in D /\ s.startIdx # 0
  <2>1. ScanCell(s, i, D) = s
    BY <1>1, <1>3 DEF ScanCell
  <2>2. s.startIdx..i \subseteq D
    <3>1. s.startIdx..(i - 1) \subseteq D
      BY <1>3 DEF Scanned
    <3>2. \A c \in s.startIdx..i : c \in s.startIdx..(i - 1) \/ c = i
      BY <1>1
    <3> QED
      BY <3>1, <3>2, <1>3
  <2> QED
    BY <2>1, <2>2, <1>1, <1>3 DEF Scanned
<1>4. CASE i \notin D /\ s.startIdx = 0
  <2>1. ScanCell(s, i, D) = s /\ RunsUpTo(s.chunks, D, i)
    BY <1>1, <1>4 DEF ScanCell, Scanned
  <2>2. ASSUME NEW j \in DOMAIN s.chunks PROVE IsRun(s.chunks[j], D) /\ \A c \in s.chunks[j] : c < i + 1
    <3>1. IsRun(s.chunks[j], D) /\ (\A c \in s.chunks[j] : c < i) /\ s.chunks[j] \subseteq Cell
      BY <2>1, <1>1 DEF RunsUpTo
    <3> QED
      BY <3>1, <1>1, Constants
  <2>3. \A c \in D : c < i + 1 => c < i
    BY <1>1, <1>4, Constants
  <2>4. RunsUpTo(s.chunks, D, i + 1)
    BY <2>1, <2>2, <2>3 DEF RunsUpTo
  <2> QED
    BY <2>1, <2>4, <1>1, <1>4 DEF Scanned
<1>5. CASE i \notin D /\ s.startIdx # 0
  <2>1. PICK a \in Cell : a = s.startIdx /\ a \in Nat /\ a <= i - 1
    BY <1>1, <1>5, Constants
  <2>2. PICK b \in Cell : b = i - 1 /\ b + 1 = i /\ b + 2 = i + 1 /\ b \in Nat
    BY <1>1, <1>5, Constants
  <2> DEFINE r == ScanCell(s, i, D)
  <2>3. r = [chunks |-> Append(s.chunks, a..b), startIdx |-> 0]
    BY <1>5, <2>1, <2>2 DEF ScanCell
  <2>4. RunsUpTo(s.chunks, D, a) /\ a..b \subseteq D /\ a - 1 \notin D /\ b + 1 \notin D
    BY <1>5, <2>1, <2>2 DEF Scanned
  <2>5. RunsUpTo(Append(s.chunks, a..b), D, b + 2)
    BY <2>1, <2>2, <2>4, AppendRun
  <2>6. r \in [chunks : Seq(SUBSET Cell), startIdx : Nat] /\ r.startIdx = 0 /\ r.chunks = Append(s.chunks, a..b)
    BY <2>3, <2>5 DEF RunsUpTo
  <2> HIDE DEF r
  <2>7. Scanned(r, i, D)
    BY <2>2, <2>5, <2>6, <1>1, <1>5 DEF Scanned
  <2> QED
    BY <2>7 DEF r
<1> QED
  BY <1>2, <1>3, <1>4, <1>5

(* What a scan returns: every run of dirty cells, once and in order. *)
LEMMA DirtyChunks ==
  ASSUME NEW D \in SUBSET Cell
  PROVE  RunsUpTo(GetDirtyChunks(D), D, NCells + 2)
<1>1. PICK f : /\ ScanNoTail(D) = f[NCells] /\ f[0] = NoRun
               /\ \A i \in 1..NCells : f[i] = ScanCell(f[i - 1], i, D)
  BY ScanDefined
<1> DEFINE S == {i \in 0..NCells : Scanned(f[i], i, D)}
<1>2. 0 \in S
  <2>1. 0 \notin D /\ \A c \in D : ~ (c < 1)
    BY Constants
  <2>2. NoRun \in [chunks : Seq(SUBSET Cell), startIdx : Nat] /\ NoRun.startIdx = 0 /\ NoRun.chunks = <<>>
    BY DEF NoRun
  <2>3. RunsUpTo(<<>>, D, 0 + 1)
    BY <2>1 DEF RunsUpTo, InOrder
  <2>4. Scanned(NoRun, 0, D)
    BY <2>1, <2>2, <2>3 DEF Scanned
  <2> QED
    BY <1>1, <2>4, Constants
<1>3. ASSUME NEW i \in 1..NCells, i - 1 \in S PROVE i \in S
  <2>1. Scanned(ScanCell(f[i - 1], i, D), i, D)
    BY <1>3, ScanStep
  <2> QED
    BY <2>1, <1>1, Constants
<1>4. NCells \in S
  <2> HIDE DEF S
  <2> QED
    BY <1>2, <1>3, IntervalInduction, Constants, SMTT(30)
<1>5. PICK s : s = ScanNoTail(D) /\ Scanned(s, NCells, D)
  BY <1>1, <1>4
<1>6. CASE s.startIdx = 0
  <2>1. GetDirtyChunks(D) = s.chunks /\ RunsUpTo(s.chunks, D, NCells + 1)
    BY <1>5, <1>6 DEF GetDirtyChunks, Scanned
  <2>2. \A j \in DOMAIN s.chunks : s.chunks[j] \subseteq Cell
    BY <2>1 DEF RunsUpTo
  <2> QED
    BY <2>1, <2>2, Constants DEF RunsUpTo
<1>7. CASE s.startIdx # 0
  <2>1. PICK a \in Cell : a = s.startIdx /\ a <= NCells
    BY <1>5, <1>7, Constants DEF Scanned
  <2>2. NCells \in Cell /\ NCells + 1 \notin D
    BY Constants
  <2>3. RunsUpTo(s.chunks, D, a) /\ a..NCells \subseteq D /\ a - 1 \notin D
    BY <1>5, <1>7, <2>1 DEF Scanned
  <2>4. RunsUpTo(Append(s.chunks, a..NCells), D, NCells + 2)
    BY <2>1, <2>2, <2>3, AppendRun
  <2> QED
    BY <2>1, <2>4, <1>5, <1>7 DEF GetDirtyChunks
<1> QED
  BY <1>6, <1>7

(* The chunks of a push in part cover the mask, and each other not. *)
LEMMA DirtyCells ==
  ASSUME NEW D \in SUBSET Cell
  PROVE  /\ GetDirtyChunks(D) \in Seq(SUBSET Cell)
         /\ Cells(GetDirtyChunks(D)) = D /\ NoOverlap(GetDirtyChunks(D))
<1>1. PICK cs : cs = GetDirtyChunks(D) /\ RunsUpTo(cs, D, NCells + 2)
  BY DirtyChunks
<1>2. cs \in Seq(SUBSET Cell) /\ InOrder(cs) /\ \A j \in DOMAIN cs : IsRun(cs[j], D)
  BY <1>1 DEF RunsUpTo
<1>3. \A c \in D : c < NCells + 2
  BY Constants
<1>4. Cells(cs) = D
  <2>1. \A c \in D : \E j \in DOMAIN cs : c \in cs[j]
    BY <1>1, <1>3 DEF RunsUpTo
  <2>2. \A j \in DOMAIN cs : cs[j] \subseteq D
    BY <1>2 DEF IsRun
  <2> QED
    BY <2>1, <2>2 DEF Cells, ToSet
<1>5. NoOverlap(cs)
  <2> SUFFICES ASSUME NEW i \in DOMAIN cs, NEW j \in DOMAIN cs, i # j, NEW x \in cs[i], x \in cs[j] PROVE FALSE
    BY DEF NoOverlap
  <2>1. i \in Nat /\ j \in Nat /\ x \in Nat
    BY <1>2, Constants
  <2>2. i < j \/ j < i
    BY <2>1
  <2> QED
    BY <2>1, <2>2, <1>2 DEF InOrder
<1> QED
  BY <1>1, <1>2, <1>4, <1>5

LEMMA AllCells ==
  GetAllChunks \in Seq(SUBSET Cell) /\ Cells(GetAllChunks) = Cell
<1>1. GetAllChunks \in Seq(SUBSET Cell) /\ DOMAIN GetAllChunks = Cell
  BY Constants DEF GetAllChunks
<1> QED
  BY <1>1 DEF GetAllChunks, Cells, ToSet

LEMMA NoCells ==
  <<>> \in Seq(SUBSET Cell) /\ Cells(<<>>) = {} /\ ToSet(<<>>) = {} /\ NoOverlap(<<>>)
BY DEF Cells, ToSet, NoOverlap

LEMMA OneChunk ==
  ASSUME NEW C \in SUBSET Cell
  PROVE  <<C>> \in Seq(SUBSET Cell) /\ ToSet(<<C>>) = {C}
BY DEF ToSet

LEMMA TailCells ==
  ASSUME NEW todo \in Seq(SUBSET Cell), todo # <<>>
  PROVE  /\ Head(todo) \subseteq Cell /\ Tail(todo) \in Seq(SUBSET Cell)
         /\ Cells(todo) = Head(todo) \cup Cells(Tail(todo))
         /\ Head(todo) \in ToSet(todo) /\ ToSet(Tail(todo)) \subseteq ToSet(todo)
         /\ NoOverlap(todo) => NoOverlap(Tail(todo)) /\ Head(todo) \cap Cells(Tail(todo)) = {}
<1>1. PICK n \in Nat : n = Len(todo) /\ n >= 1 /\ DOMAIN todo = 1..n /\ Head(todo) = todo[1]
  OBVIOUS
<1> DEFINE r == Tail(todo)
<1>2. r \in Seq(SUBSET Cell) /\ DOMAIN r = 1..(n - 1) /\ \A i \in 1..(n - 1) : r[i] = todo[i + 1]
  BY <1>1
<1> HIDE DEF r
<1>3. ToSet(r) \subseteq ToSet(todo) /\ Head(todo) \in ToSet(todo) /\ Head(todo) \subseteq Cell
  <2>1. \A i \in 1..(n - 1) : i + 1 \in 1..n
    BY <1>1
  <2>2. ToSet(r) \subseteq ToSet(todo)
    BY <2>1, <1>1, <1>2, SMTT(30) DEF ToSet
  <2>3. 1 \in 1..n /\ todo[1] \subseteq Cell
    BY <1>1
  <2> QED
    BY <2>2, <2>3, <1>1 DEF ToSet
<1>4. \A i \in 1..n : i = 1 \/ (i - 1 \in 1..(n - 1) /\ r[i - 1] = todo[i])
  BY <1>1, <1>2
<1>5. ToSet(todo) = {Head(todo)} \cup ToSet(r)
  <2>1. ASSUME NEW i \in 1..n PROVE todo[i] \in {Head(todo)} \cup ToSet(r)
    BY <1>1, <1>2, <1>4 DEF ToSet
  <2> QED
    BY <2>1, <1>1, <1>3 DEF ToSet
<1>6. Cells(todo) = Head(todo) \cup Cells(r)
  BY <1>5 DEF Cells
<1>7. ASSUME NoOverlap(todo) PROVE NoOverlap(r) /\ Head(todo) \cap Cells(r) = {}
  <2>1. NoOverlap(r)
    <3> SUFFICES ASSUME NEW i \in 1..(n - 1), NEW j \in 1..(n - 1), i # j PROVE r[i] \cap r[j] = {}
      BY <1>2 DEF NoOverlap
    <3>1. i + 1 \in DOMAIN todo /\ j + 1 \in DOMAIN todo /\ i + 1 # j + 1
      BY <1>1
    <3>2. todo[i + 1] \cap todo[j + 1] = {}
      BY <3>1, <1>7 DEF NoOverlap
    <3> QED
      BY <3>2, <1>2
  <2>2. ASSUME NEW i \in 1..(n - 1) PROVE Head(todo) \cap r[i] = {}
    <3>1. 1 \in DOMAIN todo /\ i + 1 \in DOMAIN todo /\ 1 # i + 1
      BY <1>1
    <3> QED
      BY <3>1, <1>1, <1>2, <1>7 DEF NoOverlap
  <2>3. Head(todo) \cap Cells(r) = {}
    BY <2>2, <1>2 DEF Cells, ToSet
  <2> QED
    BY <2>1, <2>3
<1> QED
  BY <1>2, <1>3, <1>6, <1>7 DEF r

(* The chunks of a mask are its maximal runs, each once and in order. *)
LEMMA RunsFound ==
  ASSUME NEW D \in SUBSET Cell
  PROVE  LET chunks == GetDirtyChunks(D)
         IN  /\ ToSet(chunks) = Runs(D) /\ Len(chunks) = Cardinality(Runs(D))
             /\ \A i, j \in DOMAIN chunks : i < j => Max(chunks[i]) < Min(chunks[j])
<1>1. PICK cs : cs = GetDirtyChunks(D) /\ RunsUpTo(cs, D, NCells + 2)
  BY DirtyChunks
<1>2. cs \in Seq(SUBSET Cell) /\ InOrder(cs) /\ \A j \in DOMAIN cs : IsRun(cs[j], D)
  BY <1>1 DEF RunsUpTo
<1>3. ASSUME NEW C, IsRun(C, D) PROVE C \in Runs(D)
  <2>1. PICK a \in Cell, b \in Cell :
          a <= b /\ C = a..b /\ C \subseteq D /\ a - 1 \notin D /\ b + 1 \notin D
    BY <1>3 DEF IsRun
  <2>2. a \in C /\ a \in Nat /\ b \in Nat
    BY <2>1, Constants
  <2>3. C \in Ranges
    BY <2>1, <2>2 DEF Ranges
  <2>4. ASSUME NEW c \in D \ C PROVE c + 1 \notin C /\ c - 1 \notin C
    <3>1. c \in Nat /\ c # a - 1 /\ c # b + 1 /\ ~ (a <= c /\ c <= b)
      BY <2>1, <2>2, Constants
    <3> QED
      BY <3>1, <2>1, <2>2
  <2> QED
    BY <2>1, <2>3, <2>4 DEF Runs
<1>4. ASSUME NEW C \in Runs(D) PROVE C \in ToSet(cs)
  <2>1. PICK a \in Cell, b \in Cell : C = a..b
    BY DEF Runs, Ranges
  <2>2. a \in Nat /\ b \in Nat /\ a <= b /\ a \in C /\ b \in C
    <3>1. a \in Nat /\ b \in Nat /\ C # {}
      BY Constants DEF Runs, Ranges
    <3> QED
      BY <2>1, <3>1
  <2>3. C \subseteq D /\ \A c \in D \ C : c + 1 \notin C /\ c - 1 \notin C
    BY DEF Runs
  <2>4. PICK j \in DOMAIN cs : a \in cs[j]
    <3>1. a \in D /\ a < NCells + 2
      BY <2>2, <2>3, Constants
    <3> QED
      BY <3>1, <1>1 DEF RunsUpTo
  <2>5. PICK x \in Cell, y \in Cell :
          x <= y /\ cs[j] = x..y /\ cs[j] \subseteq D /\ x - 1 \notin D /\ y + 1 \notin D
    BY <1>2 DEF IsRun
  <2>6. x \in Nat /\ y \in Nat /\ x <= a /\ a <= y
    BY <2>4, <2>5, Constants
  <2>7. x = a
    <3>1. SUFFICES ASSUME x < a PROVE FALSE
      BY <2>2, <2>6
    <3>2. a - 1 \in D /\ a - 1 \notin C /\ a - 1 + 1 = a
      <4>1. a - 1 \in x..y
        BY <2>2, <2>6, <3>1
      <4> QED
        BY <4>1, <2>1, <2>2, <2>5
    <3> QED
      BY <3>2, <2>2, <2>3
  <2>8. y = b
    <3>1. CASE y < b
      <4>1. y + 1 \in C
        BY <3>1, <2>1, <2>2, <2>6
      <4> QED
        BY <4>1, <2>3, <2>5
    <3>2. CASE b < y
      <4>1. b + 1 \in D /\ b + 1 \notin C /\ b + 1 - 1 = b
        <5>1. b + 1 \in x..y
          BY <2>2, <2>6, <2>7, <3>2
        <5> QED
          BY <5>1, <2>1, <2>2, <2>5
      <4> QED
        BY <4>1, <2>2, <2>3
    <3> QED
      BY <3>1, <3>2, <2>2, <2>6
  <2> QED
    BY <2>1, <2>5, <2>7, <2>8 DEF ToSet
<1>5. ToSet(cs) = Runs(D)
  BY <1>2, <1>3, <1>4 DEF ToSet
<1>6. \A i, j \in DOMAIN cs : i < j => Max(cs[i]) < Min(cs[j])
  <2> SUFFICES ASSUME NEW i \in DOMAIN cs, NEW j \in DOMAIN cs, i < j PROVE Max(cs[i]) < Min(cs[j])
    OBVIOUS
  <2>1. ASSUME NEW k \in DOMAIN cs PROVE Max(cs[k]) \in cs[k] /\ Min(cs[k]) \in cs[k]
    <3>1. PICK a \in Cell, b \in Cell : a <= b /\ cs[k] = a..b
      BY <1>2 DEF IsRun
    <3>2. a \in Nat /\ b \in Nat /\ a \in cs[k] /\ b \in cs[k] /\ \A c \in cs[k] : a <= c /\ c <= b /\ b >= c
      BY <3>1, Constants
    <3> QED
      BY <3>2 DEF Max, Min
  <2> QED
    BY <2>1, <1>2 DEF InOrder
<1>7. Len(cs) = Cardinality(ToSet(cs))
  <2>1. Len(cs) \in Nat /\ DOMAIN cs = 1..Len(cs)
    BY <1>2
  <2>2. \A i, j \in DOMAIN cs : i # j => cs[i] # cs[j]
    <3> SUFFICES ASSUME NEW i \in DOMAIN cs, NEW j \in DOMAIN cs, i # j, cs[i] = cs[j] PROVE FALSE
      OBVIOUS
    <3>1. PICK x \in Nat : x \in cs[i] /\ x \in cs[j]
      BY <1>2, Constants DEF IsRun
    <3>2. i < j \/ j < i
      BY <2>1
    <3> QED
      BY <3>1, <3>2, <1>2 DEF InOrder
  <2>3. cs \in Bijection(1..Len(cs), ToSet(cs))
    <3>1. cs \in [1..Len(cs) -> ToSet(cs)]
      BY <1>2, <2>1 DEF ToSet
    <3> QED
      BY <3>1, <2>1, <2>2 DEF Bijection, Injection, Surjection, IsInjective, ToSet
  <2>4. ExistsBijection(1..Len(cs), ToSet(cs))
    BY <2>3 DEF ExistsBijection
  <2> QED
    BY <2>1, <2>4, FS_CountingElements
<1> QED
  BY <1>1, <1>5, <1>6, <1>7

-----------------------------------------------------------------------------
(* What the methods of a key-value object do to it. *)
LEMMA PagesGrow ==
  ASSUME NEW C \in SUBSET Cell, NEW D \in SUBSET Cell
  PROVE  /\ PagesOf(C) \subseteq Page /\ PagesOf(C \cup D) = PagesOf(C) \cup PagesOf(D)
         /\ C \subseteq D => PagesOf(C) \subseteq PagesOf(D)
         /\ PagesOf({}) = {}
BY DEF PagesOf, Page

LEMMA AllocateFacts ==
  ASSUME NEW k \in KV, NEW C \in SUBSET Cell
  PROVE  LET r == AllocateChunk(k, C)
         IN  /\ r \in KV /\ r.mem = k.mem /\ r.fullyPulled = k.fullyPulled /\ r.pulledMask = k.pulledMask
             /\ r.dirtyMask = k.dirtyMask /\ r.isDirty = k.isDirty
             /\ k.pages \subseteq r.pages
             /\ k.fullyAllocated => r.pages = k.pages /\ r.fullyAllocated
             /\ ~k.fullyAllocated => PagesOf(C) \subseteq r.pages /\ (r.fullyAllocated => C = Cell)
<1>1. PagesOf(C) \subseteq Page
  BY PagesGrow
<1>2. CASE k.fullyAllocated
  BY <1>2 DEF AllocateChunk, KV
<1>3. CASE ~k.fullyAllocated
  <2> DEFINE r == [k EXCEPT !.pages = @ \cup PagesOf(C), !.fullyAllocated = (C = Cell)]
  <2>1. AllocateChunk(k, C) = r
    BY <1>3 DEF AllocateChunk
  <2>2. /\ r.mem = k.mem /\ r.fullyPulled = k.fullyPulled /\ r.pulledMask = k.pulledMask
        /\ r.dirtyMask = k.dirtyMask /\ r.isDirty = k.isDirty /\ r.pages = k.pages \cup PagesOf(C)
        /\ r.fullyAllocated = (C = Cell)
    BY DEF KV, Values
  <2>3. r \in KV
    BY <1>1, Zenon DEF KV, Values
  <2> QED
    BY <1>3, <2>1, <2>2, <2>3
<1> QED
  BY <1>2, <1>3

LEMMA AllocatedPages ==
  ASSUME NEW k \in KV, NEW C \in SUBSET Cell, k.fullyAllocated => k.pages = Page
  PROVE  /\ AllocateChunk(k, C).fullyAllocated => AllocateChunk(k, C).pages = Page
         /\ PagesOf(C) \subseteq AllocateChunk(k, C).pages
         /\ C = Cell => AllocateChunk(k, C).pages = Page
         /\ k.pages = Page => AllocateChunk(k, C).pages = Page
<1>1. PagesOf(C) \subseteq Page /\ PagesOf(Cell) = Page
  BY PagesGrow DEF Page
<1>2. AllocateChunk(k, C).pages \subseteq Page
  BY AllocateFacts DEF KV, Values
<1> QED
  BY <1>1, <1>2, AllocateFacts

LEMMA SetFacts ==
  ASSUME NEW k \in KV, NEW C \in SUBSET Cell, NEW val \in Values
  PROVE  LET r == DoSetChunk(k, C, val)
             a == AllocateChunk(k, C)
         IN  /\ r \in KV
             /\ r.pages = a.pages /\ r.fullyAllocated = a.fullyAllocated /\ r.fullyPulled = k.fullyPulled
             /\ r.pulledMask = k.pulledMask /\ r.dirtyMask = k.dirtyMask /\ r.isDirty = k.isDirty
<1>1. PICK a : a = AllocateChunk(k, C) /\ a \in KV /\ a.mem = k.mem
  BY AllocateFacts
<1>2. DoSetChunk(k, C, val) = [a EXCEPT !.mem = [c \in Cell |-> IF c \in C THEN val[c] ELSE a.mem[c]]]
  BY <1>1 DEF DoSetChunk
<1>3. [c \in Cell |-> IF c \in C THEN val[c] ELSE a.mem[c]] \in Values
  BY <1>1 DEF KV, Values
<1>4. DoSetChunk(k, C, val) \in KV
  BY <1>1, <1>2, <1>3 DEF KV, Values
<1>5. /\ a.fullyPulled = k.fullyPulled /\ a.pulledMask = k.pulledMask
      /\ a.dirtyMask = k.dirtyMask /\ a.isDirty = k.isDirty
  BY <1>1, AllocateFacts
<1> QED
  BY <1>1, <1>2, <1>4, <1>5 DEF KV, Values

LEMMA MarkFacts ==
  ASSUME NEW k \in KV, NEW C \in SUBSET Cell
  PROVE  LET r == MarkDirtyChunk(k, C)
         IN  /\ r \in KV /\ r.mem = k.mem /\ r.pages = k.pages /\ r.fullyAllocated = k.fullyAllocated
             /\ r.fullyPulled = k.fullyPulled /\ r.pulledMask = k.pulledMask
             /\ r.dirtyMask = k.dirtyMask \cup C /\ r.isDirty = TRUE
BY DEF MarkDirtyChunk, KV

LEMMA WholeFacts ==
  ASSUME NEW k \in KV, NEW v \in Nat
  PROVE  LET r == [DoSet(k, v) EXCEPT !.isDirty = TRUE]
             a == AllocateChunk(k, Cell)
         IN  /\ r \in KV /\ r.pages = a.pages /\ r.fullyAllocated = a.fullyAllocated /\ r.fullyPulled = TRUE
             /\ r.pulledMask = k.pulledMask /\ r.dirtyMask = k.dirtyMask /\ r.isDirty = TRUE
<1>1. PICK a : a = AllocateChunk(k, Cell) /\ a \in KV /\ a.pulledMask = k.pulledMask /\ a.dirtyMask = k.dirtyMask
  BY AllocateFacts
<1>2. [c \in Cell |-> v] \in [Cell -> Nat]
  OBVIOUS
<1>3. DoSet(k, v) = [a EXCEPT !.mem = [c \in Cell |-> v], !.fullyPulled = TRUE]
  BY <1>1 DEF DoSet
<1>4. DoSet(k, v) \in KV
  BY <1>1, <1>2, <1>3 DEF KV, Values
<1> QED
  BY <1>1, <1>3, <1>4 DEF KV, Values

LEMMA ServePullFacts ==
  ASSUME NEW C \in SUBSET Cell, kv[Master] \in KV
  PROVE  LET r == ServePull(C)
             a == AllocateChunk(kv[Master], C)
         IN  /\ r \in KV /\ r.mem = kv[Master].mem /\ r.pages = a.pages /\ r.fullyAllocated = a.fullyAllocated
             /\ r.fullyPulled = kv[Master].fullyPulled /\ r.pulledMask = kv[Master].pulledMask \cup C
<1>1. PICK a : a = AllocateChunk(kv[Master], C) /\ a \in KV /\ a.mem = kv[Master].mem
               /\ a.fullyPulled = kv[Master].fullyPulled /\ a.pulledMask = kv[Master].pulledMask
  BY AllocateFacts
<1> QED
  BY <1>1 DEF ServePull, KV

LEMMA ServePushFacts ==
  ASSUME NEW C \in SUBSET Cell, kv[Master] \in KV, NEW val \in Values
  PROVE  LET r == ServePush(C, val)
             a == AllocateChunk(kv[Master], C)
         IN  /\ r \in KV
             /\ r.pages = a.pages /\ r.fullyAllocated = a.fullyAllocated
             /\ r.fullyPulled = kv[Master].fullyPulled /\ r.pulledMask = kv[Master].pulledMask
<1>1. PICK k : k = DoSetChunk(kv[Master], C, val)
  OBVIOUS
<1>2. /\ k \in KV /\ ServePush(C, val) = MarkDirtyChunk(k, C)
      /\ k.pages = AllocateChunk(kv[Master], C).pages
      /\ k.fullyAllocated = AllocateChunk(kv[Master], C).fullyAllocated
      /\ k.fullyPulled = kv[Master].fullyPulled /\ k.pulledMask = kv[Master].pulledMask
  BY <1>1, SetFacts DEF ServePush
<1>3. PICK r : r = MarkDirtyChunk(k, C) /\ r \in KV /\ r.pages = k.pages
               /\ r.fullyAllocated = k.fullyAllocated /\ r.fullyPulled = k.fullyPulled
               /\ r.pulledMask = k.pulledMask
  BY <1>2, MarkFacts
<1> QED
  BY <1>2, <1>3

LEMMA NotDirtyFacts ==
  ASSUME NEW k \in KV, NEW op
  PROVE  LET r == NotDirty(k, op)
         IN  /\ r \in KV /\ r.mem = k.mem /\ r.pages = k.pages /\ r.fullyAllocated = k.fullyAllocated
             /\ r.fullyPulled = k.fullyPulled /\ r.pulledMask = k.pulledMask /\ r.isDirty = FALSE
             /\ r.dirtyMask = IF op = "push" THEN {} ELSE k.dirtyMask
BY DEF NotDirty, KV

-----------------------------------------------------------------------------
(* What a step of one thread keeps, whatever the thread does. *)
LEMMA ThreadStep ==
  ASSUME IInv, NEW t \in Thread, NEW x \in Doing, style' = style, pc' = [pc EXCEPT ![t] = x],
         x.op \in Moving => x.todo \in Seq(SUBSET Cell) /\ (pc[t].op \in Moving \/ CanShare(HostOf[t])),
         Allowed(x.op), ForWriter(t, x.op)
  PROVE  /\ pc' \in [Thread -> Doing] /\ pc'[t] = x /\ \A u \in Thread \ {t} : pc'[u] = pc[u]
         /\ TodoInv' /\ StyleInv' /\ LockInv' /\ WriterInv'
<1>1. pc \in [Thread -> Doing] /\ TodoInv /\ StyleInv /\ LockInv /\ WriterInv
  BY DEF IInv, TypeOK
<1>2. pc' \in [Thread -> Doing] /\ pc'[t] = x /\ \A u \in Thread \ {t} : pc'[u] = pc[u]
  BY <1>1
<1>3. TodoInv'
  BY <1>1, <1>2 DEF TodoInv
<1>4. StyleInv'
  BY <1>1, <1>2 DEF StyleInv, Allowed, InPart
<1>5. WriterInv'
  BY <1>1, <1>2 DEF WriterInv, ForWriter
<1>6. LockInv'
  <2>1. ASSUME NEW u \in Thread, HostOf[u] = HostOf[t], x.op \in Moving, pc[u].op \in Moving PROVE u = t
    <3>1. CASE pc[t].op \in Moving
      BY <2>1, <3>1, <1>1 DEF LockInv
    <3>2. CASE CanShare(HostOf[t])
      BY <2>1, <3>2 DEF CanShare, HoldsFull
    <3> QED
      BY <2>1, <3>1, <3>2
  <2> QED
    BY <2>1, <1>1, <1>2 DEF LockInv
<1> QED
  BY <1>2, <1>3, <1>4, <1>5, <1>6

LEMMA PagesKept ==
  ASSUME IInv, NEW t \in Thread, NEW x, kv' \in [Host -> KV],
         \A g \in Host : PagesOK(kv'[g]) /\ kv[g].pages \subseteq kv'[g].pages,
         pc'[t] = x, \A u \in Thread \ {t} : pc'[u] = pc[u],
         PullHasPages(x, kv'[HostOf[t]])
  PROVE  AllocInv'
<1>1. \A g \in Host : kv'[g].pages \subseteq Page
  BY DEF KV
<1>2. ASSUME NEW u \in Thread \ {t} PROVE PullHasPages(pc[u], kv'[HostOf[u]])
  <2>1. PullHasPages(pc[u], kv[HostOf[u]]) /\ HostOf[u] \in Host
    BY Constants DEF IInv, AllocInv
  <2> QED
    BY <2>1, <1>1 DEF PullHasPages
<1> QED
  BY <1>2 DEF AllocInv

SameMarks(h) ==
  /\ kv'[h].fullyPulled = kv[h].fullyPulled /\ kv'[h].pulledMask = kv[h].pulledMask
  /\ kv'[h].isDirty = kv[h].isDirty /\ kv'[h].dirtyMask = kv[h].dirtyMask
  /\ mask'[h] = mask[h] /\ unsent'[h] = unsent[h]

LEMMA Elsewhere ==
  ASSUME NEW g \in Host, HostOK(g), style' = style, SameMarks(g),
         \A u \in Thread : HostOf[u] = g => pc'[u] = pc[u]
  PROVE  HostOK(g)'
<1>1. KeptOK(g)'
  BY DEF HostOK, KeptOK, SameMarks, InPart, IsChunkPulled
<1>2. WillSend(g)' = WillSend(g)
  BY DEF WillSend, SameMarks
<1>3. \A c : (Wrote(g, c)' <=> Wrote(g, c)) /\ (Sends(g, c)' <=> Sends(g, c))
  BY DEF Wrote, Sends, Cells
<1>4. PromisedOK(g)'
  BY <1>2, <1>3 DEF HostOK, PromisedOK, SameMarks
<1>5. ASSUME NEW u \in Thread, HostOf[u] = g PROVE MoveOK(u, g)'
  <2>1. MoveOK(u, g) /\ pc'[u] = pc[u]
    BY <1>5 DEF HostOK
  <2> QED
    BY <2>1, <1>3 DEF MoveOK, SameMarks, InPart, Cells, NoOverlap
<1> QED
  BY <1>1, <1>4, <1>5 DEF HostOK

(* A step of a thread of h leaves the marks of all other hosts but the     *)
(* master alone.                                                           *)
LEMMA RemoteStep ==
  ASSUME IInv, NEW t \in Thread, style' = style, \A u \in Thread \ {t} : pc'[u] = pc[u],
         \A g \in Host \ {Master, HostOf[t]} : SameMarks(g),
         HostOf[t] # Master => HostOK(HostOf[t])'
  PROVE  RemoteInv'
<1> SUFFICES ASSUME NEW g \in Host \ {Master} PROVE HostOK(g)'
  BY DEF RemoteInv
<1>1. CASE g = HostOf[t]
  BY <1>1
<1>2. CASE g # HostOf[t]
  <2>1. HostOK(g) /\ SameMarks(g) /\ \A u \in Thread : HostOf[u] = g => pc'[u] = pc[u]
    BY <1>2 DEF IInv, RemoteInv
  <2> QED
    BY <2>1, Elsewhere
<1> QED
  BY <1>1, <1>2

LEMMA MasterStep ==
  ASSUME IInv, NEW t \in Thread, NEW x, pc'[t] = x, \A u \in Thread \ {t} : pc'[u] = pc[u],
         unsent'[Master] = {}, HostOf[t] = Master /\ x.op \in Moving => x.todo = <<>>
  PROVE  MasterInv'
BY DEF IInv, MasterInv

-----------------------------------------------------------------------------
(* Who else moves chunks on a host. *)
LEMMA Alone ==
  ASSUME IInv, NEW t \in Thread, NEW u \in Thread, HostOf[u] = HostOf[t]
  PROVE  /\ CanShare(HostOf[t]) => pc[u].op \notin Moving
         /\ pc[t].op \in Moving /\ u # t => pc[u].op \notin Moving
BY DEF IInv, LockInv, CanShare, HoldsFull

LEMMA CanLockShares ==
  ASSUME NEW h, CanLock(h)
  PROVE  CanShare(h)
BY DEF CanLock

(* Steps that move nothing, write nothing and flag nothing. *)
OtherTypes ==
  /\ appended \in Seq(Nat) /\ mapped \in [Thread -> SUBSET Cell]
  /\ writes \in Nat /\ calls \in Nat /\ faults \in Nat

LEMMA QuietStep ==
  ASSUME IInv, NEW t \in Thread, NEW x \in Doing, UNCHANGED <<style, kv, mask, unsent>>, OtherTypes',
         pc' = [pc EXCEPT ![t] = x], pc[t].op \notin Moving \cup {"wrote"}, x.op \notin Moving \cup {"wrote"}
  PROVE  IInv'
<1>1. /\ Allowed(x.op) /\ ForWriter(t, x.op) /\ x.op \notin {"pull", "pullChunk"}
      /\ x.op \notin {"push", "partial", "mask", "refresh", "wrote"}
      /\ pc[t].op \notin {"push", "partial", "mask", "wrote"}
  BY DEF Allowed, ForWriter, Moving
<1>2. /\ pc' \in [Thread -> Doing] /\ pc'[t] = x /\ \A u \in Thread \ {t} : pc'[u] = pc[u]
      /\ TodoInv' /\ StyleInv' /\ LockInv' /\ WriterInv'
  BY <1>1, ThreadStep
<1>3. TypeOK'
  BY <1>2 DEF IInv, TypeOK, OtherTypes
<1>4. AllocInv'
  <2>1. kv' \in [Host -> KV] /\ \A g \in Host : PagesOK(kv'[g]) /\ kv[g].pages \subseteq kv'[g].pages
    BY <1>3 DEF TypeOK, IInv, AllocInv
  <2>2. PullHasPages(x, kv'[HostOf[t]])
    BY <1>1 DEF PullHasPages
  <2> QED
    BY <1>2, <2>1, <2>2, PagesKept
<1>5. MasterInv'
  BY <1>2, MasterStep DEF IInv, MasterInv
<1>6. \A g \in Host : SameMarks(g)
  BY DEF SameMarks
<1>7. ASSUME NEW h \in Host \ {Master}, h = HostOf[t] PROVE HostOK(h)'
  <2>1. HostOK(h)
    BY DEF IInv, RemoteInv
  <2>2. KeptOK(h)' /\ WillSend(h)' = WillSend(h)
    BY <2>1 DEF HostOK, KeptOK, InPart, IsChunkPulled, WillSend
  <2>3. \A c : (Wrote(h, c) => Wrote(h, c)') /\ (Sends(h, c) => Sends(h, c)')
    BY <1>1, <1>2 DEF Wrote, Sends, Cells
  <2>4. PromisedOK(h)'
    BY <2>1, <2>2, <2>3 DEF HostOK, PromisedOK
  <2>5. ASSUME NEW u \in Thread, HostOf[u] = h PROVE MoveOK(u, h)'
    <3>1. CASE u = t
      BY <3>1, <1>1, <1>2 DEF MoveOK
    <3>2. CASE u # t
      <4>1. MoveOK(u, h) /\ pc'[u] = pc[u]
        BY <2>1, <2>5, <3>2, <1>2 DEF HostOK
      <4> QED
        BY <4>1, <2>3 DEF MoveOK, InPart, Cells, NoOverlap
    <3> QED
      BY <3>1, <3>2
  <2> QED
    BY <2>2, <2>4, <2>5 DEF HostOK
<1>8. RemoteInv'
  BY <1>2, <1>6, <1>7, RemoteStep, Constants
<1> QED
  BY <1>2, <1>3, <1>4, <1>5, <1>8 DEF IInv

(* The locks, the appended values and mapping what is there already. *)
LEMMA IdleDoing ==
  ASSUME NEW op \in Ops
  PROVE  Idle \in Doing /\ [Idle EXCEPT !.op = op] \in Doing /\ [Idle EXCEPT !.op = op].op = op
         /\ Idle.op = "idle" /\ Idle.todo = <<>> /\ Idle.of = {}
<1>1. "idle" \in Ops /\ <<>> \in Seq(SUBSET Cell) \cup Seq(Nat)
  BY DEF Ops
<1>2. Idle \in Doing
  BY <1>1 DEF Idle, Doing
<1> QED
  BY <1>2 DEF Idle, Doing

LEMMA LocksStep ==
  ASSUME IInv, NEW t \in Thread,
         \/ LockStateRead(t) \/ LockStateWrite(t) \/ LockStateGlobal(t)
         \/ UnlockStateRead(t) \/ UnlockStateWrite(t) \/ UnlockStateGlobal(t)
  PROVE  IInv'
<1>1. pc[t].op \notin Moving \cup {"wrote"}
  BY DEF LockStateRead, LockStateWrite, LockStateGlobal, UnlockStateRead, UnlockStateWrite, UnlockStateGlobal,
         Acquire, Release, Free, Moving
<1>2. PICK x \in Doing : pc' = [pc EXCEPT ![t] = x] /\ x.op \notin Moving \cup {"wrote"}
  <2>1. ASSUME NEW op \in {"readLocked", "writeLocked", "global"}, Acquire(t, op) \/ Release(t, op)
        PROVE  \E x \in Doing : pc' = [pc EXCEPT ![t] = x] /\ x.op \notin Moving \cup {"wrote"}
    <3>1. op \in Ops
      BY DEF Ops
    <3>2. CASE Acquire(t, op)
      <4> DEFINE x == [Idle EXCEPT !.op = op]
      <4>1. pc' = [pc EXCEPT ![t] = x] /\ x \in Doing /\ x.op = op
        BY <3>1, <3>2, IdleDoing DEF Acquire
      <4> HIDE DEF x
      <4> QED
        BY <4>1 DEF Moving
    <3>3. CASE Release(t, op)
      BY <3>1, <3>3, IdleDoing DEF Release, Moving
    <3> QED
      BY <2>1, <3>2, <3>3
  <2> QED
    BY <2>1 DEF LockStateRead, LockStateWrite, LockStateGlobal, UnlockStateRead, UnlockStateWrite,
                UnlockStateGlobal
<1>3. UNCHANGED <<style, kv, mask, unsent, appended, mapped, writes, faults>> /\ calls' \in {calls, calls + 1}
  BY DEF LockStateRead, LockStateWrite, LockStateGlobal, UnlockStateRead, UnlockStateWrite, UnlockStateGlobal,
         Acquire, Release, counters
<1>4. OtherTypes'
  BY <1>3 DEF OtherTypes, IInv, TypeOK
<1> QED
  BY <1>1, <1>2, <1>3, <1>4, QuietStep

LEMMA AppendStep ==
  ASSUME IInv, NEW t \in Thread,
         \/ AppendState(t) \/ UseAppended(t) \/ ClearAppendedState(t)
         \/ \E n \in 1..MaxWrites : ReadAppendedState(t, n)
  PROVE  IInv'
<1>1. pc \in [Thread -> Doing] /\ pc[t] \in Doing /\ appended \in Seq(Nat) /\ writes \in Nat
      /\ mapped \in [Thread -> SUBSET Cell] /\ calls \in Nat /\ faults \in Nat
  BY DEF IInv, TypeOK
<1>2. CASE AppendState(t)
  <2>1. /\ UNCHANGED <<style, kv, mask, unsent, mapped, calls, faults>> /\ pc' = pc /\ pc[t].op = "idle"
        /\ writes' = writes + 1 /\ appended' = Append(appended, writes')
    BY <1>2 DEF AppendState, Calling, Free, AppendToRemote
  <2>2. OtherTypes'
    BY <1>1, <2>1 DEF OtherTypes
  <2> QED
    BY <1>1, <2>1, <2>2, QuietStep DEF Moving
<1>3. CASE UseAppended(t)
  <2>1. /\ UNCHANGED <<style, kv, mask, unsent, mapped, appended, calls, faults, writes>>
        /\ pc' = [pc EXCEPT ![t] = Idle] /\ pc[t].op = "appended"
    BY <1>3 DEF UseAppended, NothingWritten, counters
  <2>2. OtherTypes' /\ "idle" \in Ops
    BY <1>1, <2>1 DEF OtherTypes, Ops
  <2>3. Idle \in Doing /\ Idle.op = "idle"
    BY <2>2, IdleDoing
  <2> QED
    BY <2>1, <2>2, <2>3, QuietStep DEF Moving
<1>4. CASE ClearAppendedState(t)
  <2>1. /\ UNCHANGED <<style, kv, mask, unsent, mapped, calls, faults, writes>> /\ pc' = pc /\ pc[t].op = "idle"
        /\ appended' = <<>>
    BY <1>4 DEF ClearAppendedState, Calling, Free, ClearAppendedFromRemote, counters
  <2>2. OtherTypes'
    BY <1>1, <2>1 DEF OtherTypes
  <2> QED
    BY <1>1, <2>1, <2>2, QuietStep DEF Moving
<1>5. ASSUME NEW n \in 1..MaxWrites, ReadAppendedState(t, n) PROVE IInv'
  <2> DEFINE x == [op |-> "appended", todo |-> PullAppended(n), of |-> {}]
  <2>1. /\ UNCHANGED <<style, kv, mask, unsent, mapped, appended, calls, faults, writes>>
        /\ pc' = [pc EXCEPT ![t] = x] /\ pc[t].op = "idle" /\ n <= Len(appended)
    BY <1>5 DEF ReadAppendedState, Calling, Free, NothingWritten, counters
  <2>2. PullAppended(n) \in Seq(Nat)
    BY <1>1, <2>1, Constants DEF PullAppended
  <2>3. x \in Doing /\ x.op = "appended"
    BY <2>2 DEF Doing, Ops
  <2>4. OtherTypes'
    BY <1>1, <2>1 DEF OtherTypes
  <2> HIDE DEF x
  <2> QED
    BY <2>1, <2>3, <2>4, QuietStep DEF Moving
<1> QED
  BY <1>2, <1>3, <1>4, <1>5

-----------------------------------------------------------------------------
(* Pulls. *)
LEMMA BeginPull ==
  ASSUME IInv, NEW t \in Thread, NEW op \in {"pull", "pullChunk"}, NEW C \in SUBSET Cell,
         NEW chunks \in Seq(SUBSET Cell), PullStep(t, op, C, chunks), pc[t].op = "idle",
         UNCHANGED <<style, mask, unsent>>, OtherTypes', Allowed(op), op = "pull" => C = Cell,
         HostOf[t] # Master /\ op = "pull" =>
           unsent[HostOf[t]] = {} /\ (style \in {"ptr", "mask"} => ~kv[HostOf[t]].fullyPulled),
         HostOf[t] # Master /\ op = "pullChunk" =>
           /\ C \in Chunk /\ ToSet(chunks) \subseteq {C}
           /\ ~kv[HostOf[t]].fullyPulled /\ C \cap kv[HostOf[t]].pulledMask = {}
  PROVE  IInv'
<1> DEFINE h == HostOf[t]
           k == AllocateChunk(kv[h], C)
           x == [op |-> op, todo |-> Remote(h, chunks), of |-> C]
<1>1. h \in Host /\ kv \in [Host -> KV] /\ kv[h] \in KV /\ PagesOK(kv[h])
  BY Constants DEF IInv, TypeOK, AllocInv
<1>2. Remote(h, chunks) \in Seq(SUBSET Cell) /\ (h = Master => Remote(h, chunks) = <<>>)
      /\ (h # Master => Remote(h, chunks) = chunks)
  BY DEF Remote
<1>3. x \in Doing /\ x.op = op /\ x.todo = Remote(h, chunks) /\ x.of = C
  BY <1>2 DEF Doing, Ops, Moving
<1>4. CanShare(h) /\ kv' = [kv EXCEPT ![h] = k] /\ pc' = [pc EXCEPT ![t] = x]
  BY CanLockShares DEF PullStep
<1>5. /\ k \in KV /\ k.fullyPulled = kv[h].fullyPulled /\ k.pulledMask = kv[h].pulledMask
      /\ k.dirtyMask = kv[h].dirtyMask /\ k.isDirty = kv[h].isDirty /\ kv[h].pages \subseteq k.pages
  BY <1>1, AllocateFacts
<1>6. PagesOK(k) /\ PullHasPages(x, k)
  BY <1>1, <1>3, <1>5, AllocatedPages DEF PagesOK, PullHasPages
<1> HIDE DEF k, x
<1>7. kv' \in [Host -> KV] /\ kv'[h] = k /\ \A g \in Host \ {h} : kv'[g] = kv[g]
  BY <1>1, <1>4, <1>5
<1>8. \A g \in Host : SameMarks(g)
  BY <1>5, <1>7 DEF SameMarks
<1>9. /\ pc' \in [Thread -> Doing] /\ pc'[t] = x /\ \A u \in Thread \ {t} : pc'[u] = pc[u]
      /\ TodoInv' /\ StyleInv' /\ LockInv' /\ WriterInv'
  BY <1>2, <1>3, <1>4, ThreadStep DEF ForWriter
<1>10. TypeOK'
  BY <1>7, <1>9 DEF IInv, TypeOK, OtherTypes
<1>11. AllocInv'
  <2>1. \A g \in Host : PagesOK(kv'[g]) /\ kv[g].pages \subseteq kv'[g].pages
    BY <1>5, <1>6, <1>7 DEF IInv, AllocInv
  <2> QED
    BY <2>1, <1>6, <1>7, <1>9, PagesKept
<1>12. MasterInv'
  BY <1>2, <1>3, <1>9, MasterStep DEF IInv, MasterInv
<1>13. ASSUME h # Master PROVE HostOK(h)'
  <2>1. HostOK(h) /\ SameMarks(h)
    BY <1>1, <1>8, <1>13 DEF IInv, RemoteInv
  <2>2. KeptOK(h)' /\ WillSend(h)' = WillSend(h)
    BY <2>1 DEF HostOK, KeptOK, InPart, IsChunkPulled, WillSend, SameMarks
  <2>3. \A c : (Wrote(h, c) => Wrote(h, c)') /\ (Sends(h, c) => Sends(h, c)')
    BY <1>3, <1>9 DEF Wrote, Sends, Cells
  <2>4. PromisedOK(h)'
    BY <2>1, <2>2, <2>3 DEF HostOK, PromisedOK, SameMarks
  <2>5. ASSUME NEW u \in Thread, HostOf[u] = h PROVE MoveOK(u, h)'
    <3>1. CASE u = t
      BY <3>1, <1>2, <1>3, <1>9, <1>13, <2>1 DEF MoveOK, SameMarks
    <3>2. CASE u # t
      <4>1. MoveOK(u, h) /\ pc'[u] = pc[u] /\ pc[u].op \notin Moving
        BY <2>1, <2>5, <3>2, <1>4, <1>9, Alone DEF HostOK
      <4> QED
        BY <4>1, <2>1 DEF MoveOK, InPart, SameMarks, Moving
    <3> QED
      BY <3>1, <3>2
  <2> QED
    BY <2>2, <2>4, <2>5 DEF HostOK
<1>14. RemoteInv'
  BY <1>8, <1>9, <1>13, RemoteStep
<1> QED
  BY <1>9, <1>10, <1>11, <1>12, <1>14 DEF IInv

(* A whole value is pulled where nothing is written: a lazy pull finds the *)
(* value not pulled, an explicit one nothing to send.                      *)
LEMMA PullOnlyUnwritten ==
  ASSUME IInv, NEW h \in Host \ {Master}, ~kv[h].fullyPulled,
         style \in {"set", "ptr", "mask"}
  PROVE  unsent[h] = {}
<1>1. KeptOK(h) /\ style \notin {"offset", "offsetPtr"}
  BY DEF IInv, RemoteInv, HostOK
<1> QED
  BY <1>1 DEF KeptOK, IsChunkPulled

LEMMA PullsStep ==
  ASSUME IInv, NEW t \in Thread,
         \/ ReadState(t) \/ ReadStatePtr(t) \/ PullState(t)
         \/ \E C \in Chunk : ReadStateOffset(t, C) \/ ReadStateOffsetPtr(t, C)
  PROVE  IInv'
<1> DEFINE h == HostOf[t]
<1>1. /\ h \in Host /\ pc \in [Thread -> Doing] /\ pc[t] \in Doing /\ OtherTypes
      /\ mapped[t] \subseteq Cell /\ style \in Styles
  BY Constants DEF IInv, TypeOK, OtherTypes
<1>2. GetAllChunks \in Seq(SUBSET Cell) /\ Cell \in SUBSET Cell
  BY AllCells
<1>3. CASE ReadState(t)
  <2>1. /\ pc[t].op = "idle" /\ style = "set" /\ ~kv[h].fullyPulled
        /\ PullStep(t, "pull", Cell, GetAllChunks) /\ UNCHANGED <<style, mask, unsent>>
        /\ UNCHANGED <<appended, mapped, writes, calls, faults>>
    BY <1>3 DEF ReadState, Calling, Free, In, DoPull, NothingWritten, counters
  <2>2. OtherTypes' /\ Allowed("pull")
    BY <1>1, <2>1 DEF OtherTypes, Allowed
  <2>3. h # Master => unsent[h] = {}
    BY <1>1, <2>1, PullOnlyUnwritten
  <2> QED
    BY <1>2, <2>1, <2>2, <2>3, BeginPull
<1>4. CASE ReadStatePtr(t)
  <2>1. /\ pc[t].op = "idle" /\ style \in {"ptr", "mask"} /\ UNCHANGED <<style, mask, unsent>>
        /\ UNCHANGED <<appended, writes, calls, faults>> /\ mapped' = [mapped EXCEPT ![t] = @ \cup Cell]
    BY <1>4 DEF ReadStatePtr, Calling, Free, In, NothingWritten, counters, MapSharedStateMemory
  <2>2. OtherTypes' /\ Allowed("pull")
    BY <1>1, <2>1 DEF OtherTypes, Allowed
  <2>3. CASE kv[h].fullyPulled
    <3>1. UNCHANGED <<kv, pc>>
      BY <1>4, <2>3 DEF ReadStatePtr
    <3> QED
      BY <3>1, <2>1, <2>2, <1>1, QuietStep DEF Moving
  <2>4. CASE ~kv[h].fullyPulled
    <3>1. PullStep(t, "pull", Cell, GetAllChunks)
      BY <1>4, <2>4 DEF ReadStatePtr, DoPull
    <3>2. h # Master => unsent[h] = {}
      BY <1>1, <2>1, <2>4, PullOnlyUnwritten
    <3> QED
      BY <1>2, <2>1, <2>2, <2>4, <3>1, <3>2, BeginPull
  <2> QED
    BY <2>3, <2>4
<1>5. CASE PullState(t)
  <2>1. /\ pc[t].op = "idle" /\ style \in {"set", "offset"} /\ UNCHANGED <<style, mask, unsent>>
        /\ UNCHANGED <<appended, mapped, writes, faults>> /\ calls' = calls + 1 /\ unsent[h] = {}
        /\ PullStep(t, "pull", Cell, GetAllChunks)
    BY <1>5 DEF PullState, Calling, Free, In, DoPull
  <2>2. OtherTypes' /\ Allowed("pull")
    BY <1>1, <2>1 DEF OtherTypes, Allowed
  <2> QED
    BY <1>2, <2>1, <2>2, BeginPull
<1>6. ASSUME NEW C \in Chunk, ReadStateOffset(t, C) \/ ReadStateOffsetPtr(t, C) PROVE IInv'
  <2>1. /\ pc[t].op = "idle" /\ style \in {"offset", "offsetPtr"} /\ UNCHANGED <<style, mask, unsent>>
        /\ UNCHANGED <<appended, writes, calls, faults>>
        /\ mapped' = mapped \/ mapped' = [mapped EXCEPT ![t] = @ \cup C]
    BY <1>6 DEF ReadStateOffset, ReadStateOffsetPtr, Calling, Free, In, NothingWritten, counters,
                MapSharedStateMemory
  <2>2. C \in SUBSET Cell /\ <<C>> \in Seq(SUBSET Cell) /\ ToSet(<<C>>) = {C}
    BY Constants, OneChunk
  <2>3. OtherTypes' /\ Allowed("pullChunk")
    BY <1>1, <2>1, <2>2 DEF OtherTypes, Allowed
  <2>4. CASE IsChunkPulled(kv[h], C)
    <3>1. UNCHANGED <<kv, pc>>
      BY <1>6, <2>4 DEF ReadStateOffset, ReadStateOffsetPtr, DoPullChunk
    <3> QED
      BY <3>1, <2>1, <2>3, <1>1, QuietStep DEF Moving
  <2>5. CASE ~IsChunkPulled(kv[h], C)
    <3>1. PullStep(t, "pullChunk", C, <<C>>)
      BY <1>6, <2>5 DEF ReadStateOffset, ReadStateOffsetPtr, DoPullChunk
    <3>2. ~kv[h].fullyPulled /\ ~(C \subseteq kv[h].pulledMask)
      BY <2>5 DEF IsChunkPulled
    <3>3. h # Master => C \cap kv[h].pulledMask = {}
      BY <1>1, <3>2 DEF IInv, RemoteInv, HostOK, KeptOK
    <3> QED
      BY <2>1, <2>2, <2>3, <3>1, <3>2, <3>3, BeginPull
  <2> QED
    BY <2>4, <2>5
<1> QED
  BY <1>3, <1>4, <1>5, <1>6

(* A chunk that is pulled was not written here since it was last sent.     *)
LEMMA PullsUnwritten ==
  ASSUME IInv, NEW t \in Thread, pc[t].op \in {"pull", "pullChunk", "refresh"}, pc[t].todo # <<>>
  PROVE  /\ HostOf[t] \in Host \ {Master}
         /\ Head(pc[t].todo) \subseteq Cell /\ Tail(pc[t].todo) \in Seq(SUBSET Cell)
         /\ ToSet(Tail(pc[t].todo)) \subseteq ToSet(pc[t].todo)
         /\ unsent[HostOf[t]] \cap Head(pc[t].todo) = {}
<1> DEFINE h == HostOf[t]
<1>1. h \in Host \ {Master} /\ pc[t].op \in Moving
  BY Constants DEF IInv, MasterInv, Moving
<1>2. pc[t].todo \in Seq(SUBSET Cell)
  BY <1>1 DEF IInv, TodoInv
<1>3. KeptOK(h) /\ MoveOK(t, h)
  BY <1>1 DEF IInv, RemoteInv, HostOK
<1>4. Head(pc[t].todo) \in ToSet(pc[t].todo)
  BY <1>2, TailCells
<1>5. CASE pc[t].op \in {"pull", "refresh"}
  BY <1>1, <1>2, <1>3, <1>5, TailCells DEF MoveOK
<1>6. CASE pc[t].op = "pullChunk"
  <2>1. /\ Head(pc[t].todo) = pc[t].of /\ ~kv[h].fullyPulled /\ pc[t].of \cap kv[h].pulledMask = {}
    BY <1>3, <1>4, <1>6 DEF MoveOK
  <2>2. unsent[h] # {} => unsent[h] \subseteq kv[h].pulledMask
    BY <1>3, <2>1 DEF KeptOK, IsChunkPulled
  <2> QED
    BY <1>1, <1>2, <2>1, <2>2, TailCells
<1> QED
  BY <1>5, <1>6

LEMMA PullChunksStep ==
  ASSUME IInv, NEW t \in Thread, PullChunks(t)
  PROVE  IInv'
<1> DEFINE h == HostOf[t]
           C == Head(pc[t].todo)
           x == [pc[t] EXCEPT !.todo = Tail(@)]
           val == [c \in Cell |-> IF c \in C THEN kv[Master].mem[c] ELSE kv[h].mem[c]]
           k == [kv[h] EXCEPT !.mem = val]
           m == ServePull(C)
<1>1. /\ pc[t].op \in {"pull", "pullChunk", "refresh"} /\ pc[t].todo # <<>>
      /\ kv' = [kv EXCEPT ![Master] = ServePull(C),
                          ![h].mem = [c \in Cell |-> IF c \in C THEN kv[Master].mem[c] ELSE @[c]]]
      /\ unsent' = [unsent EXCEPT ![h] = @ \ C] /\ pc' = [pc EXCEPT ![t].todo = Tail(@)]
      /\ UNCHANGED <<style, mask, appended, mapped, writes, calls, faults>>
  BY DEF PullChunks, counters
<1>2. /\ h \in Host \ {Master} /\ C \subseteq Cell /\ Tail(pc[t].todo) \in Seq(SUBSET Cell)
      /\ ToSet(Tail(pc[t].todo)) \subseteq ToSet(pc[t].todo) /\ unsent[h] \cap C = {}
  BY <1>1, PullsUnwritten
<1>3. /\ kv \in [Host -> KV] /\ kv[h] \in KV /\ kv[Master] \in KV /\ pc \in [Thread -> Doing] /\ pc[t] \in Doing
      /\ unsent \in [Host -> SUBSET Cell] /\ PagesOK(kv[h]) /\ PagesOK(kv[Master])
  BY <1>2, Constants DEF IInv, TypeOK, AllocInv
<1>4. x \in Doing /\ x.op = pc[t].op /\ x.todo = Tail(pc[t].todo) /\ x.of = pc[t].of
  BY <1>2, <1>3 DEF Doing
<1>5. pc' = [pc EXCEPT ![t] = x]
  BY <1>1, <1>3
<1>6. val \in Values
  BY <1>3 DEF KV, Values
<1> HIDE DEF val
<1>7. /\ k \in KV /\ k.mem = val /\ k.pages = kv[h].pages /\ k.fullyAllocated = kv[h].fullyAllocated
      /\ k.fullyPulled = kv[h].fullyPulled /\ k.pulledMask = kv[h].pulledMask
      /\ k.dirtyMask = kv[h].dirtyMask /\ k.isDirty = kv[h].isDirty
  BY <1>3, <1>6 DEF KV
<1>8. kv' = [kv EXCEPT ![Master] = m, ![h] = k]
  BY <1>1, <1>2, <1>3 DEF val
<1>9. /\ m \in KV /\ m.pages = AllocateChunk(kv[Master], C).pages
      /\ m.fullyAllocated = AllocateChunk(kv[Master], C).fullyAllocated
      /\ m.fullyPulled = kv[Master].fullyPulled /\ m.pulledMask = kv[Master].pulledMask \cup C
  BY <1>2, <1>3, ServePullFacts
<1>10. PagesOK(m) /\ PagesOK(k) /\ kv[Master].pages \subseteq m.pages
  <2>1. kv[Master].pages \subseteq m.pages
    BY <1>2, <1>3, <1>9, AllocateFacts
  <2>2. PagesOf(m.pulledMask) = PagesOf(kv[Master].pulledMask) \cup PagesOf(C)
    <3>1. C \in SUBSET Cell /\ kv[Master].pulledMask \in SUBSET Cell
      BY <1>2, <1>3 DEF KV
    <3> QED
      BY <3>1, <1>9, PagesGrow
  <2>3. /\ PagesOf(C) \subseteq m.pages /\ (m.fullyAllocated => m.pages = Page)
        /\ (kv[Master].pages = Page => m.pages = Page)
    BY <1>2, <1>3, <1>9, AllocatedPages DEF PagesOK
  <2>4. PagesOK(m)
    BY <2>1, <2>2, <2>3, <1>3, <1>9 DEF PagesOK
  <2> QED
    BY <2>1, <2>4, <1>3, <1>7 DEF PagesOK
<1> HIDE DEF k, m, x
<1>11. /\ kv' \in [Host -> KV] /\ kv'[h] = k /\ kv'[Master] = m
       /\ \A g \in Host \ {Master, h} : kv'[g] = kv[g]
  BY <1>2, <1>3, <1>7, <1>8, <1>9, Constants
<1>12. unsent' = unsent
  BY <1>1, <1>2, <1>3
<1>13. \A g \in Host \ {Master} : SameMarks(g)
  BY <1>1, <1>7, <1>11, <1>12 DEF SameMarks
<1>14. /\ pc' \in [Thread -> Doing] /\ pc'[t] = x /\ \A u \in Thread \ {t} : pc'[u] = pc[u]
       /\ TodoInv' /\ StyleInv' /\ LockInv' /\ WriterInv'
  <2>1. pc[t].op \in Moving /\ Allowed(x.op) /\ ForWriter(t, x.op)
    BY <1>1, <1>4 DEF IInv, StyleInv, WriterInv, Moving
  <2> QED
    BY <2>1, <1>1, <1>2, <1>4, <1>5, ThreadStep
<1>15. TypeOK'
  BY <1>1, <1>11, <1>12, <1>14 DEF IInv, TypeOK
<1>16. AllocInv'
  <2>1. \A g \in Host : PagesOK(kv'[g]) /\ kv[g].pages \subseteq kv'[g].pages
    BY <1>7, <1>10, <1>11 DEF IInv, AllocInv
  <2>2. PullHasPages(x, kv'[h])
    BY <1>4, <1>7, <1>11 DEF IInv, AllocInv, PullHasPages
  <2> QED
    BY <2>1, <2>2, <1>11, <1>14, PagesKept
<1>17. MasterInv'
  BY <1>2, <1>12, <1>14, MasterStep DEF IInv, MasterInv
<1>18. HostOK(h)'
  <2>1. HostOK(h) /\ SameMarks(h)
    BY <1>2, <1>13 DEF IInv, RemoteInv
  <2>2. KeptOK(h)' /\ WillSend(h)' = WillSend(h)
    BY <2>1, <1>1 DEF HostOK, KeptOK, InPart, IsChunkPulled, WillSend, SameMarks
  <2>3. \A c : (Wrote(h, c) => Wrote(h, c)') /\ (Sends(h, c) => Sends(h, c)')
    BY <1>1, <1>14 DEF Wrote, Sends, Cells
  <2>4. PromisedOK(h)'
    BY <2>1, <2>2, <2>3 DEF HostOK, PromisedOK, SameMarks
  <2>5. ASSUME NEW u \in Thread, HostOf[u] = h PROVE MoveOK(u, h)'
    <3>1. CASE u = t
      <4>1. MoveOK(t, h)
        BY <2>1 DEF HostOK
      <4> QED
        BY <4>1, <2>1, <3>1, <1>1, <1>2, <1>4, <1>14 DEF MoveOK, SameMarks
    <3>2. CASE u # t
      <4>1. MoveOK(u, h) /\ pc'[u] = pc[u] /\ pc[u].op \notin Moving
        BY <2>1, <2>5, <3>2, <1>1, <1>14, Alone DEF HostOK, Moving
      <4> QED
        BY <4>1, <2>1, <1>1 DEF MoveOK, InPart, SameMarks, Moving
    <3> QED
      BY <3>1, <3>2
  <2> QED
    BY <2>2, <2>4, <2>5 DEF HostOK
<1>19. RemoteInv'
  BY <1>1, <1>13, <1>14, <1>18, RemoteStep
<1> QED
  BY <1>14, <1>15, <1>16, <1>17, <1>19 DEF IInv

LEMMA PullDoneStep ==
  ASSUME IInv, NEW t \in Thread, PullDone(t)
  PROVE  IInv'
<1> DEFINE h == HostOf[t]
           k == Pulled(kv[h], pc[t].op, pc[t].of)
<1>1. /\ pc[t].op \in {"pull", "pullChunk"} /\ kv' = [kv EXCEPT ![h] = k] /\ pc' = [pc EXCEPT ![t] = Idle]
      /\ UNCHANGED <<style, mask, appended, mapped, unsent, writes, calls, faults>>
  BY DEF PullDone, counters
<1>2. /\ h \in Host /\ kv \in [Host -> KV] /\ kv[h] \in KV /\ pc[t] \in Doing /\ pc[t].of \in SUBSET Cell
      /\ PagesOK(kv[h]) /\ PullHasPages(pc[t], kv[h])
  BY Constants DEF IInv, TypeOK, AllocInv, Doing
<1>3. /\ k \in KV /\ k.pages = kv[h].pages /\ k.fullyAllocated = kv[h].fullyAllocated
      /\ k.dirtyMask = kv[h].dirtyMask /\ k.isDirty = kv[h].isDirty
      /\ pc[t].op = "pull" => k.fullyPulled = TRUE /\ k.pulledMask = kv[h].pulledMask
      /\ pc[t].op # "pull" => k.fullyPulled = kv[h].fullyPulled /\ k.pulledMask = kv[h].pulledMask \cup pc[t].of
  <2>1. PICK k0, op, C : k0 = kv[h] /\ op = pc[t].op /\ C = pc[t].of
    OBVIOUS
  <2>2. k0 \in KV /\ C \in SUBSET Cell /\ k = Pulled(k0, op, C)
    BY <1>2, <2>1
  <2>3. PICK r : r = Pulled(k0, op, C)
    OBVIOUS
  <2>4. /\ r \in KV /\ r.pages = k0.pages /\ r.fullyAllocated = k0.fullyAllocated
        /\ r.dirtyMask = k0.dirtyMask /\ r.isDirty = k0.isDirty
        /\ op = "pull" => r.fullyPulled = TRUE /\ r.pulledMask = k0.pulledMask
        /\ op # "pull" => r.fullyPulled = k0.fullyPulled /\ r.pulledMask = k0.pulledMask \cup C
    BY <2>2, <2>3 DEF Pulled, KV
  <2> HIDE DEF k
  <2> QED
    BY <2>1, <2>2, <2>3, <2>4
<1> HIDE DEF k
<1>4. kv' \in [Host -> KV] /\ kv'[h] = k /\ \A g \in Host \ {h} : kv'[g] = kv[g]
  BY <1>1, <1>2, <1>3
<1>5. PagesOK(k)
  <2>1. CASE pc[t].op = "pull"
    BY <2>1, <1>2, <1>3 DEF PagesOK, PullHasPages
  <2>2. CASE pc[t].op = "pullChunk"
    <3>1. PagesOf(k.pulledMask) = PagesOf(kv[h].pulledMask) \cup PagesOf(pc[t].of)
      <4>1. pc[t].of \in SUBSET Cell /\ kv[h].pulledMask \in SUBSET Cell
        BY <1>2 DEF KV
      <4> QED
        BY <4>1, <2>2, <1>3, PagesGrow
    <3> QED
      BY <3>1, <2>2, <1>2, <1>3 DEF PagesOK, PullHasPages
  <2> QED
    BY <2>1, <2>2, <1>1
<1>6. Idle \in Doing /\ Idle.op = "idle"
  BY IdleDoing DEF Ops
<1>7. /\ pc' \in [Thread -> Doing] /\ pc'[t] = Idle /\ \A u \in Thread \ {t} : pc'[u] = pc[u]
      /\ TodoInv' /\ StyleInv' /\ LockInv' /\ WriterInv'
  BY <1>1, <1>6, ThreadStep DEF Moving, Allowed, ForWriter
<1>8. TypeOK'
  BY <1>1, <1>4, <1>7 DEF IInv, TypeOK
<1>9. AllocInv'
  <2>1. \A g \in Host : PagesOK(kv'[g]) /\ kv[g].pages \subseteq kv'[g].pages
    BY <1>3, <1>4, <1>5 DEF IInv, AllocInv
  <2> QED
    BY <2>1, <1>4, <1>6, <1>7, PagesKept DEF PullHasPages
<1>10. MasterInv'
  BY <1>1, <1>6, <1>7, MasterStep DEF IInv, MasterInv, Moving
<1>11. \A g \in Host \ {h} : SameMarks(g)
  BY <1>1, <1>4 DEF SameMarks
<1>12. ASSUME h # Master PROVE HostOK(h)'
  <2>1. KeptOK(h) /\ PromisedOK(h) /\ MoveOK(t, h) /\ \A u \in Thread : HostOf[u] = h => MoveOK(u, h)
    BY <1>2, <1>12 DEF IInv, RemoteInv, HostOK
  <2>2. k.isDirty = kv[h].isDirty /\ kv[h].pulledMask \subseteq k.pulledMask
        /\ (kv[h].fullyPulled => k.fullyPulled) /\ k.dirtyMask = kv[h].dirtyMask
    BY <1>1, <1>3
  <2>3. \A C \in Chunk : C \subseteq k.pulledMask \/ C \cap k.pulledMask = {}
    <3>1. CASE pc[t].op = "pull"
      BY <3>1, <2>1, <1>3 DEF KeptOK
    <3>2. CASE pc[t].op = "pullChunk"
      <4>1. pc[t].of \in Chunk /\ \A C \in Chunk : C = pc[t].of \/ C \cap pc[t].of = {}
        BY <3>2, <2>1, DisciplineAssumption DEF MoveOK
      <4> QED
        BY <4>1, <3>2, <2>1, <1>3 DEF KeptOK
    <3> QED
      BY <3>1, <3>2, <1>1
  <2>4. style \notin {"offset", "offsetPtr"} => k.pulledMask = {}
    BY <2>1, <1>1, <1>3 DEF KeptOK, IInv, StyleInv, Allowed
  <2>5. KeptOK(h)' /\ WillSend(h)' = WillSend(h)
    BY <2>1, <2>2, <2>3, <2>4, <1>1, <1>4 DEF KeptOK, InPart, IsChunkPulled, WillSend
  <2>6. \A c : (Wrote(h, c) => Wrote(h, c)') /\ (Sends(h, c) => Sends(h, c)')
    BY <1>1, <1>7 DEF Wrote, Sends, Cells
  <2>7. PromisedOK(h)'
    BY <2>1, <2>5, <2>6, <1>1 DEF PromisedOK
  <2>8. ASSUME NEW u \in Thread, HostOf[u] = h PROVE MoveOK(u, h)'
    <3>1. CASE u = t
      BY <3>1, <1>6, <1>7 DEF MoveOK
    <3>2. CASE u # t
      <4>1. MoveOK(u, h) /\ pc'[u] = pc[u] /\ pc[u].op \notin Moving
        BY <2>1, <2>8, <3>2, <1>1, <1>7, Alone DEF Moving
      <4> QED
        BY <4>1, <2>2, <1>1, <1>4 DEF MoveOK, InPart, Moving
    <3> QED
      BY <3>1, <3>2
  <2> QED
    BY <2>5, <2>7, <2>8 DEF HostOK
<1>13. RemoteInv'
  BY <1>1, <1>7, <1>11, <1>12, RemoteStep
<1> QED
  BY <1>7, <1>8, <1>9, <1>10, <1>13 DEF IInv

-----------------------------------------------------------------------------
(* A step of one thread that changes nothing but its own host. *)
LEMMA HostStep ==
  ASSUME IInv, NEW t \in Thread, NEW k \in KV, NEW x \in Doing, style' = style, OtherTypes',
         kv' = [kv EXCEPT ![HostOf[t]] = k], pc' = [pc EXCEPT ![t] = x],
         mask' \in [Host -> SUBSET Cell], unsent' \in [Host -> SUBSET Cell],
         \A g \in Host \ {HostOf[t]} : mask'[g] = mask[g] /\ unsent'[g] = unsent[g],
         x.op \in Moving => x.todo \in Seq(SUBSET Cell) /\ (pc[t].op \in Moving \/ CanShare(HostOf[t])),
         Allowed(x.op), ForWriter(t, x.op), PagesOK(k), kv[HostOf[t]].pages \subseteq k.pages,
         x.op \in {"pull", "pullChunk"} => x = pc[t],
         HostOf[t] = Master => unsent'[Master] = {} /\ (x.op \in Moving => x.todo = <<>>),
         HostOf[t] # Master => HostOK(HostOf[t])'
  PROVE  IInv'
<1> DEFINE h == HostOf[t]
<1>1. h \in Host /\ kv \in [Host -> KV] /\ unsent[Master] = {} /\ Master \in Host
  BY Constants DEF IInv, TypeOK, MasterInv
<1>2. kv' \in [Host -> KV] /\ kv'[h] = k /\ \A g \in Host \ {h} : kv'[g] = kv[g]
  BY <1>1
<1>3. /\ pc' \in [Thread -> Doing] /\ pc'[t] = x /\ \A u \in Thread \ {t} : pc'[u] = pc[u]
      /\ TodoInv' /\ StyleInv' /\ LockInv' /\ WriterInv'
  BY ThreadStep
<1>4. TypeOK'
  BY <1>2, <1>3 DEF IInv, TypeOK, OtherTypes
<1>5. AllocInv'
  <2>1. \A g \in Host : PagesOK(kv'[g]) /\ kv[g].pages \subseteq kv'[g].pages
    BY <1>2 DEF IInv, AllocInv
  <2>2. k.pages \subseteq Page
    BY DEF KV
  <2>3. PullHasPages(x, k)
    BY <1>2, <2>1, <2>2 DEF IInv, AllocInv, PullHasPages
  <2> QED
    BY <2>1, <2>3, <1>2, <1>3, PagesKept
<1>6. MasterInv'
  BY <1>1, <1>3, MasterStep
<1>7. \A g \in Host \ {Master, h} : SameMarks(g)
  BY <1>2 DEF SameMarks
<1>8. RemoteInv'
  BY <1>3, <1>7, RemoteStep
<1> QED
  BY <1>3, <1>4, <1>5, <1>6, <1>8 DEF IInv

-----------------------------------------------------------------------------
(* Writes. *)
LEMMA WrittenTypes ==
  ASSUME IInv, NEW h \in Host, NEW C \in SUBSET Cell, Written(h, C)
  PROVE  /\ style' = style /\ unsent' \in [Host -> SUBSET Cell]
         /\ \A g \in Host \ {h} : unsent'[g] = unsent[g]
         /\ unsent'[Master] = {}
         /\ h # Master => unsent'[h] = unsent[h] \cup C
         /\ writes' = writes + 1 /\ UNCHANGED <<appended, calls, faults>>
BY Constants DEF IInv, TypeOK, MasterInv, Written

(* Where no thread moves chunks, a write gives the next push more to send. *)
LEMMA WriteStep ==
  ASSUME IInv, NEW t \in Thread, NEW C \in SUBSET Cell, NEW k \in KV, Written(HostOf[t], C),
         kv' = [kv EXCEPT ![HostOf[t]] = k], pc[t].op = "idle", CanLock(HostOf[t]),
         UNCHANGED <<mask, mapped, pc>>, PagesOK(k), kv[HostOf[t]].pages \subseteq k.pages,
         style \in {"set", "offset"}, k.isDirty, kv[HostOf[t]].fullyPulled => k.fullyPulled,
         k.pulledMask = kv[HostOf[t]].pulledMask,
         style = "set" => k.fullyPulled /\ k.dirtyMask = kv[HostOf[t]].dirtyMask,
         style = "offset" =>
           IsChunkPulled(kv[HostOf[t]], C) /\ k.dirtyMask = kv[HostOf[t]].dirtyMask \cup C
  PROVE  IInv'
<1> DEFINE h == HostOf[t]
<1>1. /\ h \in Host /\ kv \in [Host -> KV] /\ pc \in [Thread -> Doing] /\ pc[t] \in Doing
      /\ mask \in [Host -> SUBSET Cell] /\ OtherTypes
  BY Constants DEF IInv, TypeOK, OtherTypes
<1>2. /\ style' = style /\ unsent' \in [Host -> SUBSET Cell]
      /\ \A g \in Host \ {h} : unsent'[g] = unsent[g]
      /\ unsent'[Master] = {} /\ (h # Master => unsent'[h] = unsent[h] \cup C)
      /\ writes' = writes + 1 /\ UNCHANGED <<appended, calls, faults>>
  BY <1>1, WrittenTypes
<1>3. pc' = [pc EXCEPT ![t] = pc[t]] /\ OtherTypes'
  BY <1>1, <1>2 DEF OtherTypes
<1>4. kv'[h] = k
  BY <1>1
<1>5. \A u \in Thread : HostOf[u] = h => pc[u].op \notin Moving \cup {"wrote"}
  BY Alone, CanLockShares DEF IInv, StyleInv, Allowed
<1>6. ASSUME h # Master PROVE HostOK(h)'
  <2>1. KeptOK(h) /\ PromisedOK(h)
    BY <1>1, <1>6 DEF IInv, RemoteInv, HostOK
  <2>2. KeptOK(h)'
    BY <1>2, <1>4, <1>6, <2>1 DEF KeptOK, IsChunkPulled, InPart, PartStyles
  <2>3. \A c : ~Wrote(h, c) /\ ~Sends(h, c)
    BY <1>5 DEF Wrote, Sends, Moving
  <2>4. unsent[h] \subseteq WillSend(h)
    BY <2>1, <2>3 DEF PromisedOK
  <2>5. unsent'[h] \subseteq WillSend(h)'
    <3>1. CASE style = "set"
      BY <3>1, <1>1, <1>2, <1>4 DEF WillSend
    <3>2. CASE style = "offset"
      BY <3>2, <1>2, <1>4, <1>6, <2>4 DEF WillSend
    <3> QED
      BY <3>1, <3>2
  <2>6. PromisedOK(h)'
    BY <2>5 DEF PromisedOK
  <2>7. ASSUME NEW u \in Thread, HostOf[u] = h PROVE MoveOK(u, h)'
    BY <1>5, <2>7 DEF MoveOK, Moving
  <2> QED
    BY <2>2, <2>6, <2>7 DEF HostOK
<1>7. Allowed(pc[t].op) /\ ForWriter(t, pc[t].op) /\ pc[t].op \notin Moving
  BY <1>5 DEF IInv, StyleInv, WriterInv
<1> QED
  BY <1>1, <1>2, <1>3, <1>6, <1>7, HostStep

LEMMA WritesStep ==
  ASSUME IInv, NEW t \in Thread,
         WriteState(t) \/ WriteStateFromFile(t) \/ \E C \in Chunk : WriteStateOffset(t, C)
  PROVE  IInv'
<1> DEFINE h == HostOf[t]
<1>1. h \in Host /\ kv \in [Host -> KV] /\ kv[h] \in KV /\ PagesOK(kv[h]) /\ writes \in Nat
  BY Constants DEF IInv, TypeOK, AllocInv
<1>2. CASE WriteState(t) \/ WriteStateFromFile(t)
  <2>1. /\ pc[t].op = "idle" /\ style = "set" /\ CanLock(h) /\ Written(h, Cell)
        /\ kv' = [kv EXCEPT ![h] = [DoSet(@, writes + 1) EXCEPT !.isDirty = TRUE]]
        /\ UNCHANGED <<mask, mapped, pc>>
    BY <1>2 DEF WriteState, WriteStateFromFile, Calling, Free, In
  <2>2. PICK k : k = [DoSet(kv[h], writes + 1) EXCEPT !.isDirty = TRUE]
    OBVIOUS
  <2>3. PICK a : a = AllocateChunk(kv[h], Cell)
    OBVIOUS
  <2>4. PICK v \in Nat : v = writes + 1
    BY <1>1
  <2>5. /\ k \in KV /\ k.pages = a.pages /\ k.fullyAllocated = a.fullyAllocated /\ k.fullyPulled = TRUE
        /\ k.pulledMask = kv[h].pulledMask /\ k.dirtyMask = kv[h].dirtyMask /\ k.isDirty = TRUE
    BY <1>1, <2>2, <2>3, <2>4, WholeFacts
  <2>6. a.pages = Page /\ kv[h].pages \subseteq a.pages
    BY <1>1, <2>3, AllocateFacts, AllocatedPages DEF PagesOK
  <2>7. PagesOK(k)
    BY <2>5, <2>6, <1>1 DEF PagesOK, KV
  <2>8. kv' = [kv EXCEPT ![h] = k]
    BY <2>1, <2>2, <1>1
  <2> QED
    BY <2>1, <2>5, <2>6, <2>7, <2>8, WriteStep
<1>3. ASSUME NEW C \in Chunk, WriteStateOffset(t, C) PROVE IInv'
  <2>1. /\ pc[t].op = "idle" /\ style = "offset" /\ CanLock(h) /\ IsChunkPulled(kv[h], C) /\ Written(h, C)
        /\ kv' = [kv EXCEPT ![h] = MarkDirtyChunk(DoSetChunk(@, C, Fill(writes + 1)), C)]
        /\ UNCHANGED <<mask, mapped, pc>>
    BY <1>3 DEF WriteStateOffset, Calling, Free, In
  <2>2. C \in SUBSET Cell /\ Fill(writes + 1) \in Values
    BY <1>1, Constants DEF Fill, Values
  <2>3. PICK k0, val, a, r, k : /\ k0 = kv[h] /\ val = Fill(writes + 1) /\ a = AllocateChunk(k0, C)
                                /\ r = DoSetChunk(k0, C, val) /\ k = MarkDirtyChunk(r, C)
    OBVIOUS
  <2>4. k0 \in KV /\ val \in Values
    BY <1>1, <2>2, <2>3
  <2>5. /\ r \in KV /\ r.pages = a.pages /\ r.fullyAllocated = a.fullyAllocated
        /\ r.fullyPulled = k0.fullyPulled /\ r.pulledMask = k0.pulledMask /\ r.dirtyMask = k0.dirtyMask
    BY <2>2, <2>3, <2>4, SetFacts
  <2>7. /\ k \in KV /\ k.pages = a.pages /\ k.fullyAllocated = a.fullyAllocated
        /\ k.fullyPulled = k0.fullyPulled /\ k.pulledMask = k0.pulledMask
        /\ k.dirtyMask = k0.dirtyMask \cup C /\ k.isDirty = TRUE
    BY <2>2, <2>3, <2>5 DEF MarkDirtyChunk, KV
  <2>8. /\ kv[h].pages \subseteq a.pages /\ (a.fullyAllocated => a.pages = Page)
        /\ (kv[h].pages = Page => a.pages = Page)
    BY <1>1, <2>2, <2>3, AllocateFacts, AllocatedPages DEF PagesOK
  <2>9. PagesOK(k)
    BY <2>3, <2>7, <2>8, <1>1 DEF PagesOK
  <2>10. kv' = [kv EXCEPT ![h] = k]
    BY <2>1, <2>3, <1>1
  <2> QED
    BY <2>1, <2>2, <2>3, <2>7, <2>8, <2>9, <2>10, WriteStep
<1> QED
  BY <1>2, <1>3

-----------------------------------------------------------------------------
(* Writes through a pointer, which take no lock.  A write finds its cell   *)
(* pulled, so no lazy pull of it is under way; and a push in part is the   *)
(* business of the thread that writes.                                     *)
LEMMA ThroughPtrStep ==
  ASSUME IInv, NEW t \in Thread, NEW c \in Cell, WriteThroughPtr(t, c)
  PROVE  IInv'
<1> DEFINE h == HostOf[t]
           x == [Idle EXCEPT !.op = "wrote", !.of = {c}]
<1>1. /\ pc[t].op = "idle" /\ style \in {"ptr", "offsetPtr", "mask"} /\ OneWriter(t)
      /\ IsChunkPulled(kv[h], {c}) /\ kv' = [kv EXCEPT ![h].mem[c] = writes + 1]
      /\ mask' = [mask EXCEPT ![h] = IF style = "mask" THEN @ \cup {c} ELSE @]
      /\ pc' = [pc EXCEPT ![t] = x] /\ Written(h, {c}) /\ mapped' = mapped
  BY DEF WriteThroughPtr, Calling, Free, In
<1>2. /\ h \in Host /\ kv \in [Host -> KV] /\ kv[h] \in KV /\ PagesOK(kv[h]) /\ pc \in [Thread -> Doing]
      /\ mask \in [Host -> SUBSET Cell] /\ OtherTypes /\ writes \in Nat
  BY Constants DEF IInv, TypeOK, AllocInv, OtherTypes
<1>3. {c} \in SUBSET Cell
  OBVIOUS
<1>4. /\ style' = style /\ unsent' \in [Host -> SUBSET Cell]
      /\ \A g \in Host \ {h} : unsent'[g] = unsent[g]
      /\ unsent'[Master] = {} /\ (h # Master => unsent'[h] = unsent[h] \cup {c})
      /\ writes' = writes + 1 /\ UNCHANGED <<appended, calls, faults>>
  BY <1>1, <1>2, <1>3, WrittenTypes
<1>5. /\ mask' \in [Host -> SUBSET Cell] /\ \A g \in Host \ {h} : mask'[g] = mask[g]
      /\ mask'[h] = IF style = "mask" THEN mask[h] \cup {c} ELSE mask[h]
  BY <1>1, <1>2
<1>6. PICK k : k = [kv[h] EXCEPT !.mem[c] = writes + 1]
  OBVIOUS
<1>7. /\ k \in KV /\ k.pages = kv[h].pages /\ k.fullyAllocated = kv[h].fullyAllocated
      /\ k.fullyPulled = kv[h].fullyPulled /\ k.pulledMask = kv[h].pulledMask
      /\ k.dirtyMask = kv[h].dirtyMask /\ k.isDirty = kv[h].isDirty
  <2>1. PICK k0, val : k0 = kv[h] /\ val = [k0.mem EXCEPT ![c] = writes + 1]
    OBVIOUS
  <2>2. k0 \in KV /\ val \in Values
    <3>1. k0 \in KV /\ k0.mem \in [Cell -> Nat] /\ writes + 1 \in Nat
      BY <2>1, <1>2 DEF KV, Values
    <3> QED
      BY <3>1, <2>1 DEF Values
  <2>3. k = [k0 EXCEPT !.mem = val]
    BY <2>1, <2>2, <1>6 DEF KV
  <2> QED
    BY <2>1, <2>2, <2>3 DEF KV
<1>8. kv' = [kv EXCEPT ![h] = k] /\ kv'[h] = k
  BY <1>1, <1>2, <1>6
<1>9. x \in Doing /\ x.op = "wrote" /\ x.of = {c}
  <2>1. Idle \in Doing /\ "wrote" \in Ops
    BY IdleDoing DEF Ops
  <2> QED
    BY <2>1, <1>3 DEF Idle, Doing
<1> HIDE DEF x
<1>10. pc'[t] = x /\ \A u \in Thread \ {t} : pc'[u] = pc[u]
  BY <1>1, <1>2
<1>11. OtherTypes' /\ PagesOK(k)
  BY <1>1, <1>2, <1>4, <1>7 DEF OtherTypes, PagesOK
<1>12. Allowed(x.op) /\ ForWriter(t, x.op) /\ x.op \notin Moving
  BY <1>1, <1>9 DEF Allowed, ForWriter, OneWriter, In, Moving
<1>13. ASSUME h # Master PROVE HostOK(h)'
  <2>1. KeptOK(h) /\ PromisedOK(h) /\ \A u \in Thread : HostOf[u] = h => MoveOK(u, h)
    BY <1>2, <1>13 DEF IInv, RemoteInv, HostOK
  <2>2. style \in {"ptr", "mask"} => kv[h].fullyPulled
    BY <2>1, <1>1 DEF KeptOK, IsChunkPulled
  <2>3. KeptOK(h)'
    <3>1. IsChunkPulled(kv[h], unsent[h] \cup {c})
      BY <2>1, <1>1 DEF KeptOK, IsChunkPulled
    <3>2. IsChunkPulled(k, unsent'[h])
      BY <3>1, <1>4, <1>7, <1>13 DEF IsChunkPulled
    <3>3. InPart => kv[h].dirtyMask \cup mask'[h] \subseteq unsent'[h]
      BY <2>1, <1>4, <1>5, <1>13 DEF KeptOK
    <3> QED
      BY <2>1, <3>2, <3>3, <1>4, <1>5, <1>7, <1>8 DEF KeptOK, InPart
  <2>4. \A d : (Wrote(h, d) => Wrote(h, d)') /\ (Sends(h, d) => Sends(h, d)')
    BY <1>1, <1>10 DEF Wrote, Sends, Cells
  <2>5. WillSend(h) \subseteq WillSend(h)'
    BY <1>4, <1>5, <1>7, <1>8 DEF WillSend
  <2>6. Wrote(h, c)'
    BY <1>9, <1>10 DEF Wrote
  <2>7. PromisedOK(h)'
    BY <2>1, <2>4, <2>5, <2>6, <1>4, <1>13 DEF PromisedOK
  <2>8. ASSUME NEW u \in Thread, HostOf[u] = h PROVE MoveOK(u, h)'
    <3>1. CASE u = t
      BY <3>1, <2>2, <1>1, <1>4, <1>5, <1>7, <1>8, <1>9, <1>10, <1>13 DEF MoveOK, InPart
    <3>2. CASE u # t
      <4>1. MoveOK(u, h) /\ pc'[u] = pc[u]
        BY <2>1, <2>8, <3>2, <1>10
      <4>2. pc[u].op # "pull"
        BY <4>1, <2>2, <1>1 DEF MoveOK, IInv, StyleInv, Allowed
      <4>3. pc[u].op \notin {"partial", "mask", "refresh"}
        BY <2>8, <3>2, <1>1 DEF IInv, StyleInv, WriterInv, Allowed, ForWriter, OneWriter, In, InPart, PartStyles
      <4>4. pc[u].op = "push" => \A d \in unsent'[h] : Wrote(h, d)' \/ d \in Cells(pc[u].todo)
        BY <4>1, <2>4, <2>6, <1>4, <1>13 DEF MoveOK
      <4> QED
        BY <4>1, <4>2, <4>3, <4>4, <1>4, <1>5, <1>7, <1>8, <1>13 DEF MoveOK, InPart, Cells
    <3> QED
      BY <3>1, <3>2
  <2> QED
    BY <2>3, <2>7, <2>8 DEF HostOK
<1> QED
  BY <1>1, <1>2, <1>4, <1>5, <1>7, <1>8, <1>9, <1>11, <1>12, <1>13, HostStep

(* What was written is flagged: the next push sends it.                    *)
LEMMA FlagStep ==
  ASSUME IInv, NEW t \in Thread, FlagStateDirty(t) \/ FlagStateOffsetDirty(t)
  PROVE  IInv'
<1> DEFINE h == HostOf[t]
<1>1. /\ pc[t].op = "wrote" /\ CanShare(h) /\ pc' = [pc EXCEPT ![t] = Idle]
      /\ UNCHANGED <<style, mask, mapped, appended, unsent, writes, calls, faults>>
  BY DEF FlagStateDirty, FlagStateOffsetDirty, NothingWritten, counters
<1>2. /\ h \in Host /\ kv \in [Host -> KV] /\ kv[h] \in KV /\ PagesOK(kv[h]) /\ pc \in [Thread -> Doing]
      /\ pc[t] \in Doing /\ pc[t].of \in SUBSET Cell /\ mask \in [Host -> SUBSET Cell]
      /\ unsent \in [Host -> SUBSET Cell] /\ unsent[Master] = {} /\ OtherTypes
  BY Constants DEF IInv, TypeOK, AllocInv, OtherTypes, MasterInv, Doing
<1>3. PICK k : /\ kv' = [kv EXCEPT ![h] = k]
               /\ \/ style \in {"ptr", "mask"} /\ k = [kv[h] EXCEPT !.isDirty = TRUE]
                  \/ style = "offsetPtr" /\ k = MarkDirtyChunk(kv[h], pc[t].of)
  <2>1. CASE FlagStateDirty(t)
    BY <2>1 DEF FlagStateDirty, In
  <2>2. CASE FlagStateOffsetDirty(t)
    BY <2>2 DEF FlagStateOffsetDirty, In
  <2> QED
    BY <2>1, <2>2
<1>4. /\ k \in KV /\ k.pages = kv[h].pages /\ k.fullyAllocated = kv[h].fullyAllocated
      /\ k.fullyPulled = kv[h].fullyPulled /\ k.pulledMask = kv[h].pulledMask /\ k.isDirty = TRUE
      /\ style = "offsetPtr" => k.dirtyMask = kv[h].dirtyMask \cup pc[t].of
      /\ style # "offsetPtr" => k.dirtyMask = kv[h].dirtyMask
  BY <1>2, <1>3 DEF MarkDirtyChunk, KV
<1>5. kv'[h] = k /\ style \in {"ptr", "mask", "offsetPtr"}
  BY <1>2, <1>3
<1>6. Idle \in Doing /\ Idle.op = "idle"
  BY IdleDoing DEF Ops
<1>7. pc'[t] = Idle /\ \A u \in Thread \ {t} : pc'[u] = pc[u]
  BY <1>1, <1>2
<1>8. \A u \in Thread : HostOf[u] = h => pc[u].op \notin Moving
  BY <1>1, Alone
<1>9. ASSUME h # Master PROVE HostOK(h)'
  <2>1. KeptOK(h) /\ PromisedOK(h) /\ MoveOK(t, h) /\ \A u \in Thread : HostOf[u] = h => MoveOK(u, h)
    BY <1>2, <1>9 DEF IInv, RemoteInv, HostOK
  <2>2. KeptOK(h)'
    BY <2>1, <1>1, <1>4, <1>5 DEF KeptOK, MoveOK, IsChunkPulled, InPart, PartStyles
  <2>3. ASSUME NEW c \in unsent[h] PROVE Wrote(h, c)' \/ c \in WillSend(h)'
    <3>1. pc[t].of \subseteq WillSend(h)'
      BY <2>1, <1>1, <1>2, <1>4, <1>5 DEF WillSend, MoveOK
    <3>2. WillSend(h) \subseteq WillSend(h)'
      BY <1>1, <1>4, <1>5 DEF WillSend
    <3>3. ~Sends(h, c)
      BY <1>8 DEF Sends, Moving
    <3>4. Wrote(h, c) => Wrote(h, c)' \/ c \in pc[t].of
      BY <1>7 DEF Wrote
    <3> QED
      BY <2>1, <3>1, <3>2, <3>3, <3>4 DEF PromisedOK
  <2>4. PromisedOK(h)'
    BY <2>3, <1>1 DEF PromisedOK
  <2>5. ASSUME NEW u \in Thread, HostOf[u] = h PROVE MoveOK(u, h)'
    <3>1. CASE u = t
      BY <3>1, <1>6, <1>7 DEF MoveOK
    <3>2. CASE u # t
      <4>1. MoveOK(u, h) /\ pc'[u] = pc[u] /\ pc[u].op \notin Moving
        BY <2>1, <2>5, <3>2, <1>7, <1>8
      <4> QED
        BY <4>1, <1>1, <1>4, <1>5 DEF MoveOK, InPart, Moving
    <3> QED
      BY <3>1, <3>2
  <2> QED
    BY <2>2, <2>4, <2>5 DEF HostOK
<1>10. OtherTypes' /\ PagesOK(k) /\ Allowed(Idle.op) /\ ForWriter(t, Idle.op) /\ Idle.op \notin Moving
  BY <1>1, <1>2, <1>4, <1>6 DEF OtherTypes, PagesOK, Allowed, ForWriter, Moving
<1> QED
  BY <1>1, <1>2, <1>3, <1>4, <1>6, <1>9, <1>10, HostStep

-----------------------------------------------------------------------------
(* Pushes. *)
LEMMA PushFullStep ==
  ASSUME IInv, NEW t \in Thread, PushState(t)
  PROVE  IInv'
<1> DEFINE h == HostOf[t]
           x == [op |-> "push", todo |-> Remote(h, GetAllChunks), of |-> Cell]
<1>1. /\ pc[t].op = "idle" /\ style \in {"set", "ptr"} /\ kv[h].isDirty /\ CanShare(h)
      /\ pc' = [pc EXCEPT ![t] = x]
      /\ UNCHANGED <<style, kv, mask, mapped, appended, unsent, writes, calls, faults>>
  BY CanLockShares DEF PushState, PushFull, Calling, Free, In, NothingWritten, counters
<1>2. /\ h \in Host /\ kv \in [Host -> KV] /\ kv[h] \in KV /\ PagesOK(kv[h]) /\ pc \in [Thread -> Doing]
      /\ mask \in [Host -> SUBSET Cell] /\ unsent \in [Host -> SUBSET Cell] /\ unsent[Master] = {} /\ OtherTypes
  BY Constants DEF IInv, TypeOK, AllocInv, OtherTypes, MasterInv
<1>3. /\ Remote(h, GetAllChunks) \in Seq(SUBSET Cell) /\ (h = Master => Remote(h, GetAllChunks) = <<>>)
      /\ (h # Master => Cells(Remote(h, GetAllChunks)) = Cell)
  BY AllCells DEF Remote
<1>4. x \in Doing /\ x.op = "push" /\ x.todo = Remote(h, GetAllChunks)
  BY <1>3 DEF Doing, Ops, Moving
<1> HIDE DEF x
<1>5. pc'[t] = x /\ \A u \in Thread \ {t} : pc'[u] = pc[u]
  BY <1>1, <1>2
<1>6. \A u \in Thread : HostOf[u] = h => pc[u].op \notin Moving
  BY <1>1, Alone
<1>7. ASSUME h # Master PROVE HostOK(h)'
  <2>1. KeptOK(h) /\ PromisedOK(h) /\ \A u \in Thread : HostOf[u] = h => MoveOK(u, h)
    BY <1>2, <1>7 DEF IInv, RemoteInv, HostOK
  <2>2. KeptOK(h)' /\ WillSend(h)' = WillSend(h)
    BY <2>1, <1>1 DEF KeptOK, InPart, IsChunkPulled, WillSend
  <2>3. \A c : Wrote(h, c) => Wrote(h, c)'
    BY <1>1, <1>5 DEF Wrote
  <2>4. \A c : ~Sends(h, c)
    BY <1>6 DEF Sends, Moving
  <2>5. PromisedOK(h)'
    BY <2>1, <2>2, <2>3, <2>4, <1>1 DEF PromisedOK
  <2>6. ASSUME NEW u \in Thread, HostOf[u] = h PROVE MoveOK(u, h)'
    <3>1. CASE u = t
      BY <3>1, <1>1, <1>2, <1>3, <1>4, <1>5, <1>7 DEF MoveOK
    <3>2. CASE u # t
      <4>1. MoveOK(u, h) /\ pc'[u] = pc[u] /\ pc[u].op \notin Moving
        BY <2>1, <2>6, <3>2, <1>5, <1>6
      <4> QED
        BY <4>1, <1>1 DEF MoveOK, InPart, Moving
    <3> QED
      BY <3>1, <3>2
  <2> QED
    BY <2>2, <2>5, <2>6 DEF HostOK
<1>8. OtherTypes' /\ Allowed(x.op) /\ ForWriter(t, x.op) /\ kv' = [kv EXCEPT ![h] = kv[h]]
  BY <1>1, <1>2, <1>4 DEF OtherTypes, Allowed, ForWriter
<1> QED
  BY <1>1, <1>2, <1>3, <1>4, <1>7, <1>8, HostStep

(* A push in part takes everything that is unsent: the thread that writes  *)
(* has flagged its writes, and no other thread writes.                     *)
LEMMA PushPartStep ==
  ASSUME IInv, NEW t \in Thread, PushStatePartial(t) \/ PushStatePartialMask(t)
  PROVE  IInv'
<1> DEFINE h == HostOf[t]
<1> DEFINE Push(op, D, k) ==
             /\ DoPushPartial(t, op, D) /\ OneWriter(t) /\ pc[t].op = "idle"
             /\ \/ /\ op = "partial" /\ style \in {"offset", "offsetPtr"} /\ D = kv[h].dirtyMask
                   /\ k = [kv[h] EXCEPT !.dirtyMask = {}] /\ mask' = mask
                \/ /\ op = "mask" /\ style = "mask" /\ D = mask[h]
                   /\ k = kv[h] /\ mask' = [mask EXCEPT ![h] = {}]
             /\ kv' = [kv EXCEPT ![h] = k]
             /\ UNCHANGED <<style, mapped, appended, unsent, writes, calls, faults>>
<1>1. PICK op \in {"partial", "mask"}, D \in SUBSET Cell, k \in KV : Push(op, D, k)
  <2>1. h \in Host /\ kv \in [Host -> KV] /\ mask \in [Host -> SUBSET Cell] /\ kv[h] \in KV
    BY Constants DEF IInv, TypeOK
  <2>2. kv[h].dirtyMask \in SUBSET Cell /\ mask[h] \in SUBSET Cell
    BY <2>1 DEF KV
  <2>3. [kv[h] EXCEPT !.dirtyMask = {}] \in KV
    BY <2>1 DEF KV
  <2>4. CASE PushStatePartial(t)
    <3>1. Push("partial", kv[h].dirtyMask, [kv[h] EXCEPT !.dirtyMask = {}])
      BY <2>1, <2>4 DEF PushStatePartial, PushPartial, Calling, Free, In, NothingWritten, counters
    <3> QED
      BY <3>1, <2>2, <2>3
  <2>5. CASE PushStatePartialMask(t)
    <3>1. kv' = [kv EXCEPT ![h] = kv[h]]
      BY <2>1, <2>5 DEF PushStatePartialMask, PushPartialMask
    <3>2. Push("mask", mask[h], kv[h])
      BY <3>1, <2>5 DEF PushStatePartialMask, PushPartialMask, Calling, Free, In, NothingWritten, counters
    <3> QED
      BY <3>2, <2>1, <2>2
  <2> QED
    BY <2>4, <2>5
<1> DEFINE x == [op |-> op, todo |-> Remote(h, GetDirtyChunks(D)), of |-> D]
<1>2. /\ h \in Host /\ kv \in [Host -> KV] /\ kv[h] \in KV /\ PagesOK(kv[h]) /\ pc \in [Thread -> Doing]
      /\ mask \in [Host -> SUBSET Cell] /\ unsent \in [Host -> SUBSET Cell] /\ unsent[Master] = {} /\ OtherTypes
      /\ mask[h] \in SUBSET Cell /\ kv[h].dirtyMask \in SUBSET Cell
  BY Constants DEF IInv, TypeOK, AllocInv, OtherTypes, MasterInv, KV
<1>3. D \in SUBSET Cell /\ kv[h].isDirty /\ CanShare(h) /\ pc' = [pc EXCEPT ![t] = x]
  BY <1>1, <1>2, CanLockShares DEF DoPushPartial
<1>4. /\ Remote(h, GetDirtyChunks(D)) \in Seq(SUBSET Cell)
      /\ (h = Master => Remote(h, GetDirtyChunks(D)) = <<>>)
      /\ h # Master =>
           /\ Cells(Remote(h, GetDirtyChunks(D))) = D
           /\ NoOverlap(Remote(h, GetDirtyChunks(D)))
  BY <1>3, DirtyCells DEF Remote
<1>5. x \in Doing /\ x.op = op /\ x.todo = Remote(h, GetDirtyChunks(D))
  BY <1>3, <1>4 DEF Doing, Ops, Moving
<1> HIDE DEF x
<1>6. pc'[t] = x /\ \A u \in Thread \ {t} : pc'[u] = pc[u]
  BY <1>2, <1>3
<1>7. /\ k \in KV /\ k.pages = kv[h].pages /\ k.fullyAllocated = kv[h].fullyAllocated
      /\ k.fullyPulled = kv[h].fullyPulled /\ k.pulledMask = kv[h].pulledMask
      /\ k.isDirty = kv[h].isDirty /\ k.dirtyMask \subseteq kv[h].dirtyMask
      /\ op = "partial" => k.dirtyMask = {}
  BY <1>1, <1>2 DEF KV
<1>8. /\ kv'[h] = k /\ mask' \in [Host -> SUBSET Cell] /\ \A g \in Host \ {h} : mask'[g] = mask[g]
      /\ mask'[h] \subseteq mask[h] /\ (op = "mask" => mask'[h] = {})
  BY <1>1, <1>2
<1>9. \A u \in Thread : HostOf[u] = h => pc[u].op \notin Moving \cup {"wrote"}
  <2>1. \A u \in Thread : HostOf[u] = h => pc[u].op \notin Moving
    BY <1>3, Alone
  <2>2. ASSUME NEW u \in Thread, HostOf[u] = h, pc[u].op = "wrote" PROVE FALSE
    BY <2>2, <1>1 DEF IInv, StyleInv, WriterInv, Allowed, ForWriter, OneWriter, In
  <2> QED
    BY <2>1, <2>2
<1>10. ASSUME h # Master PROVE HostOK(h)'
  <2>1. KeptOK(h) /\ PromisedOK(h) /\ \A u \in Thread : HostOf[u] = h => MoveOK(u, h)
    BY <1>2, <1>10 DEF IInv, RemoteInv, HostOK
  <2>2. unsent[h] = D
    <3>1. \A c : ~Wrote(h, c) /\ ~Sends(h, c)
      BY <1>9 DEF Wrote, Sends, Moving
    <3>2. WillSend(h) = D
      BY <1>1, <1>3 DEF WillSend
    <3>3. D \subseteq unsent[h]
      BY <2>1, <1>1 DEF KeptOK, InPart, PartStyles
    <3> QED
      BY <2>1, <3>1, <3>2, <3>3 DEF PromisedOK
  <2>3. k.dirtyMask = {} /\ mask'[h] = {}
    BY <2>1, <1>1, <1>7, <1>8 DEF KeptOK
  <2>4. KeptOK(h)'
    BY <2>1, <2>3, <1>1, <1>7, <1>8 DEF KeptOK, InPart, IsChunkPulled
  <2>5. \A c \in D : Sends(h, c)'
    BY <1>4, <1>5, <1>6, <1>10 DEF Sends
  <2>6. PromisedOK(h)'
    BY <2>2, <2>5, <1>1 DEF PromisedOK
  <2>7. ASSUME NEW u \in Thread, HostOf[u] = h PROVE MoveOK(u, h)'
    <3>1. CASE u = t
      BY <3>1, <2>2, <2>3, <1>1, <1>4, <1>5, <1>6, <1>8, <1>10 DEF MoveOK
    <3>2. CASE u # t
      BY <2>7, <3>2, <1>6, <1>9 DEF MoveOK, Moving
    <3> QED
      BY <3>1, <3>2
  <2> QED
    BY <2>4, <2>6, <2>7 DEF HostOK
<1>11. /\ OtherTypes' /\ Allowed(x.op) /\ ForWriter(t, x.op) /\ PagesOK(k)
       /\ x.op \notin {"pull", "pullChunk"}
  BY <1>1, <1>2, <1>5, <1>7 DEF OtherTypes, Allowed, ForWriter, OneWriter, In, PagesOK
<1> QED
  BY <1>1, <1>2, <1>3, <1>4, <1>5, <1>7, <1>8, <1>10, <1>11, HostStep

(* A chunk is sent by a host that is not the master, to the master: what   *)
(* is left to send is what is left unsent.                                 *)
LEMMA PushesUnsent ==
  ASSUME IInv, NEW t \in Thread, pc[t].op \in {"push", "partial", "mask"}, pc[t].todo # <<>>
  PROVE  /\ HostOf[t] \in Host \ {Master} /\ KeptOK(HostOf[t]) /\ PromisedOK(HostOf[t])
         /\ \A u \in Thread : HostOf[u] = HostOf[t] => MoveOK(u, HostOf[t])
         /\ pc[t].todo \in Seq(SUBSET Cell)
         /\ Head(pc[t].todo) \in SUBSET Cell /\ Tail(pc[t].todo) \in Seq(SUBSET Cell)
         /\ Cells(pc[t].todo) = Head(pc[t].todo) \cup Cells(Tail(pc[t].todo))
         /\ pc[t].op \in {"partial", "mask"} =>
              /\ NoOverlap(Tail(pc[t].todo)) /\ Head(pc[t].todo) \cap Cells(Tail(pc[t].todo)) = {}
              /\ unsent[HostOf[t]] = Cells(pc[t].todo)
<1>1. HostOf[t] \in Host \ {Master} /\ pc[t].op \in Moving
  BY Constants DEF IInv, MasterInv, Moving
<1>2. /\ KeptOK(HostOf[t]) /\ PromisedOK(HostOf[t])
      /\ \A u \in Thread : HostOf[u] = HostOf[t] => MoveOK(u, HostOf[t])
  BY <1>1 DEF IInv, RemoteInv, HostOK
<1>3. pc[t].todo \in Seq(SUBSET Cell)
  BY <1>1 DEF IInv, TodoInv
<1>4. pc[t].op \in {"partial", "mask"} => NoOverlap(pc[t].todo) /\ unsent[HostOf[t]] = Cells(pc[t].todo)
  BY <1>2 DEF MoveOK
<1> QED
  BY <1>1, <1>2, <1>3, <1>4, TailCells

LEMMA PushChunksStep ==
  ASSUME IInv, NEW t \in Thread, PushChunks(t)
  PROVE  IInv'
<1> DEFINE h == HostOf[t]
           C == Head(pc[t].todo)
           x == [pc[t] EXCEPT !.todo = Tail(@)]
           m == ServePush(C, kv[h].mem)
<1>1. /\ pc[t].op \in {"push", "partial", "mask"} /\ pc[t].todo # <<>>
      /\ kv' = [kv EXCEPT ![Master] = ServePush(C, kv[h].mem)]
      /\ unsent' = [unsent EXCEPT ![h] = @ \ C] /\ pc' = [pc EXCEPT ![t].todo = Tail(@)]
      /\ UNCHANGED <<style, mask, appended, mapped, writes, calls, faults>>
  BY DEF PushChunks, counters
<1>2. /\ h \in Host \ {Master} /\ KeptOK(h) /\ PromisedOK(h)
      /\ \A u \in Thread : HostOf[u] = h => MoveOK(u, h)
      /\ C \in SUBSET Cell /\ Tail(pc[t].todo) \in Seq(SUBSET Cell)
      /\ Cells(pc[t].todo) = C \cup Cells(Tail(pc[t].todo))
      /\ pc[t].op \in {"partial", "mask"} =>
           /\ NoOverlap(Tail(pc[t].todo)) /\ C \cap Cells(Tail(pc[t].todo)) = {}
           /\ unsent[h] = Cells(pc[t].todo)
  BY <1>1, PushesUnsent
<1>3. /\ kv \in [Host -> KV] /\ kv[h] \in KV /\ kv[Master] \in KV /\ kv[h].mem \in Values
      /\ pc \in [Thread -> Doing] /\ pc[t] \in Doing /\ unsent \in [Host -> SUBSET Cell] /\ PagesOK(kv[Master])
  BY <1>2, Constants DEF IInv, TypeOK, AllocInv, KV
<1>4. x \in Doing /\ x.op = pc[t].op /\ x.todo = Tail(pc[t].todo) /\ x.of = pc[t].of
  BY <1>2, <1>3 DEF Doing
<1>5. pc' = [pc EXCEPT ![t] = x]
  BY <1>1, <1>3
<1>6. /\ m \in KV /\ m.pages = AllocateChunk(kv[Master], C).pages
      /\ m.fullyAllocated = AllocateChunk(kv[Master], C).fullyAllocated
      /\ m.fullyPulled = kv[Master].fullyPulled /\ m.pulledMask = kv[Master].pulledMask
  <2>1. PICK D, val : D = C /\ val = kv[h].mem
    OBVIOUS
  <2>2. D \in SUBSET Cell /\ val \in Values /\ m = ServePush(D, val)
    BY <2>1, <1>2, <1>3
  <2> HIDE DEF m
  <2> QED
    BY <2>1, <2>2, <1>3, ServePushFacts
<1>7. PagesOK(m) /\ kv[Master].pages \subseteq m.pages
  <2>1. /\ kv[Master].pages \subseteq m.pages /\ (m.fullyAllocated => m.pages = Page)
        /\ (kv[Master].pages = Page => m.pages = Page)
    BY <1>2, <1>3, <1>6, AllocateFacts, AllocatedPages DEF PagesOK
  <2> QED
    BY <2>1, <1>3, <1>6 DEF PagesOK
<1>8. kv' = [kv EXCEPT ![Master] = m]
  BY <1>1
<1> HIDE DEF m, x
<1>9. kv' \in [Host -> KV] /\ kv'[Master] = m /\ \A g \in Host \ {Master} : kv'[g] = kv[g]
  BY <1>3, <1>6, <1>8, Constants
<1>10. /\ unsent' \in [Host -> SUBSET Cell] /\ unsent'[h] = unsent[h] \ C
       /\ \A g \in Host \ {h} : unsent'[g] = unsent[g]
  BY <1>1, <1>2, <1>3
<1>11. \A g \in Host \ {Master, h} : SameMarks(g)
  BY <1>1, <1>9, <1>10 DEF SameMarks
<1>12. /\ pc' \in [Thread -> Doing] /\ pc'[t] = x /\ \A u \in Thread \ {t} : pc'[u] = pc[u]
       /\ TodoInv' /\ StyleInv' /\ LockInv' /\ WriterInv'
  <2>1. pc[t].op \in Moving /\ Allowed(x.op) /\ ForWriter(t, x.op)
    BY <1>1, <1>4 DEF IInv, StyleInv, WriterInv, Moving
  <2> QED
    BY <2>1, <1>1, <1>2, <1>4, <1>5, ThreadStep
<1>13. TypeOK'
  BY <1>1, <1>9, <1>10, <1>12 DEF IInv, TypeOK
<1>14. AllocInv'
  <2>1. \A g \in Host : PagesOK(kv'[g]) /\ kv[g].pages \subseteq kv'[g].pages
    BY <1>7, <1>9 DEF IInv, AllocInv
  <2>2. PullHasPages(x, kv'[h])
    BY <1>1, <1>4 DEF PullHasPages
  <2> QED
    BY <2>1, <2>2, <1>9, <1>12, PagesKept
<1>15. MasterInv'
  BY <1>2, <1>10, <1>12, MasterStep, Constants DEF IInv, MasterInv
<1>16. HostOK(h)'
  <2>1. KeptOK(h)'
    <3>1. kv'[h] = kv[h] /\ unsent'[h] \subseteq unsent[h]
      BY <1>2, <1>9, <1>10
    <3>2. InPart => kv[h].dirtyMask = {} /\ mask[h] = {}
      BY <1>1, <1>2 DEF MoveOK, InPart, PartStyles, IInv, StyleInv, Allowed
    <3> QED
      BY <3>1, <3>2, <1>1, <1>2 DEF KeptOK, InPart, IsChunkPulled
  <2>2. \A c : Wrote(h, c) => Wrote(h, c)'
    BY <1>1, <1>12 DEF Wrote
  <2>3. ASSUME NEW c \in unsent'[h], Sends(h, c) PROVE Sends(h, c)'
    <3>1. c \notin C
      BY <1>10
    <3>2. PICK u \in Thread : HostOf[u] = h /\ pc[u].op \in {"push", "partial", "mask"} /\ c \in Cells(pc[u].todo)
      BY <2>3 DEF Sends
    <3>3. u = t
      BY <3>2, <1>1, Alone DEF Moving
    <3>4. c \in Cells(x.todo)
      BY <3>1, <3>2, <3>3, <1>2, <1>4
    <3> QED
      BY <3>4, <1>1, <1>4, <1>12 DEF Sends
  <2>4. WillSend(h)' = WillSend(h)
    BY <1>1, <1>2, <1>9 DEF WillSend
  <2>5. PromisedOK(h)'
    BY <2>2, <2>3, <2>4, <1>2, <1>10 DEF PromisedOK
  <2>6. ASSUME NEW u \in Thread, HostOf[u] = h PROVE MoveOK(u, h)'
    <3>1. CASE u = t /\ pc[t].op = "push"
      <4>1. kv[h].isDirty /\ \A c \in unsent[h] : Wrote(h, c) \/ c \in Cells(pc[t].todo)
        BY <3>1, <1>2 DEF MoveOK
      <4>2. \A c \in unsent'[h] : Wrote(h, c)' \/ c \in Cells(x.todo)
        BY <4>1, <2>2, <1>2, <1>4, <1>10
      <4> QED
        BY <4>1, <4>2, <3>1, <1>2, <1>4, <1>9, <1>12 DEF MoveOK
    <3>2. CASE u = t /\ pc[t].op # "push"
      <4>1. kv[h].dirtyMask = {} /\ mask[h] = {} /\ pc[t].op \in {"partial", "mask"}
        BY <3>2, <1>1, <1>2 DEF MoveOK
      <4>2. unsent'[h] = Cells(x.todo) /\ NoOverlap(x.todo)
        BY <4>1, <1>2, <1>4, <1>10
      <4> QED
        BY <4>1, <4>2, <3>2, <1>1, <1>2, <1>4, <1>9, <1>12 DEF MoveOK
    <3>3. CASE u # t
      <4>1. MoveOK(u, h) /\ pc'[u] = pc[u] /\ pc[u].op \notin Moving
        BY <2>6, <3>3, <1>1, <1>2, <1>12, Alone DEF Moving
      <4>2. ~(InPart /\ pc[u].op = "wrote")
        BY <2>6, <3>3, <1>1 DEF IInv, StyleInv, WriterInv, Allowed, ForWriter, InPart, PartStyles
      <4> QED
        BY <4>1, <4>2, <1>1, <1>2, <1>9 DEF MoveOK, InPart, PartStyles, Moving
    <3> QED
      BY <3>1, <3>2, <3>3
  <2> QED
    BY <2>1, <2>5, <2>6 DEF HostOK
<1>17. RemoteInv'
  BY <1>1, <1>11, <1>12, <1>16, RemoteStep
<1> QED
  BY <1>12, <1>13, <1>14, <1>15, <1>17 DEF IInv

(* When all is sent, what is still unsent has been written since, and its  *)
(* writer is about to flag it.                                             *)
LEMMA PushDoneStep ==
  ASSUME IInv, NEW t \in Thread, PushDone(t)
  PROVE  IInv'
<1> DEFINE h == HostOf[t]
<1>1. /\ pc[t].op \in {"push", "partial", "mask", "refresh"} /\ pc[t].todo = <<>>
      /\ UNCHANGED <<style, mask, mapped, appended, unsent, writes, calls, faults>>
  BY DEF PushDone, counters
<1>2. /\ h \in Host /\ kv \in [Host -> KV] /\ kv[h] \in KV /\ PagesOK(kv[h]) /\ pc \in [Thread -> Doing]
      /\ pc[t] \in Doing /\ mask \in [Host -> SUBSET Cell] /\ unsent \in [Host -> SUBSET Cell]
      /\ unsent[Master] = {} /\ OtherTypes
  BY Constants DEF IInv, TypeOK, AllocInv, OtherTypes, MasterInv
<1>3. PICK k \in KV, x \in Doing :
        /\ kv' = [kv EXCEPT ![h] = k] /\ pc' = [pc EXCEPT ![t] = x]
        /\ k.pages = kv[h].pages /\ k.fullyAllocated = kv[h].fullyAllocated
        /\ k.fullyPulled = kv[h].fullyPulled /\ k.pulledMask = kv[h].pulledMask
        /\ \/ /\ k = kv[h] /\ x.op = "refresh" /\ x.todo = Remote(h, GetAllChunks)
              /\ pc[t].op \in {"partial", "mask"}
           \/ /\ k.isDirty = FALSE /\ x.op = "idle"
              /\ k.dirtyMask = IF pc[t].op = "push" THEN {} ELSE kv[h].dirtyMask
  <2>1. CASE Refreshes(t)
    <3> DEFINE x == [op |-> "refresh", todo |-> Remote(h, GetAllChunks), of |-> pc[t].of]
    <3>1. kv' = [kv EXCEPT ![h] = kv[h]] /\ pc' = [pc EXCEPT ![t] = x] /\ pc[t].op \in {"partial", "mask"}
      BY <2>1, <1>2 DEF PushDone, Refreshes
    <3>2. Remote(h, GetAllChunks) \in Seq(SUBSET Cell) /\ pc[t].of \in SUBSET Cell
      BY <1>2, AllCells DEF Remote, Doing
    <3>3. x \in Doing /\ x.op = "refresh" /\ x.todo = Remote(h, GetAllChunks)
      BY <3>2 DEF Doing, Ops, Moving
    <3> HIDE DEF x
    <3> QED
      BY <3>1, <3>3, <1>2
  <2>2. CASE ~Refreshes(t)
    <3>1. PICK k : k = NotDirty(kv[h], pc[t].op)
      OBVIOUS
    <3>2. /\ k \in KV /\ k.pages = kv[h].pages /\ k.fullyAllocated = kv[h].fullyAllocated
          /\ k.fullyPulled = kv[h].fullyPulled /\ k.pulledMask = kv[h].pulledMask /\ k.isDirty = FALSE
          /\ k.dirtyMask = IF pc[t].op = "push" THEN {} ELSE kv[h].dirtyMask
      BY <3>1, <1>2 DEF NotDirty, KV
    <3>3. kv' = [kv EXCEPT ![h] = k] /\ pc' = [pc EXCEPT ![t] = Idle]
      BY <2>2, <3>1, <1>2 DEF PushDone
    <3>4. Idle \in Doing /\ Idle.op = "idle"
      BY IdleDoing DEF Ops
    <3> QED
      BY <3>2, <3>3, <3>4
  <2> QED
    BY <2>1, <2>2
<1>4. /\ Remote(h, GetAllChunks) \in Seq(SUBSET Cell)
      /\ (h = Master => Remote(h, GetAllChunks) = <<>>)
  BY AllCells DEF Remote
<1>5. kv'[h] = k /\ pc'[t] = x /\ \A u \in Thread \ {t} : pc'[u] = pc[u]
  BY <1>2, <1>3
<1>6. ASSUME h # Master PROVE HostOK(h)'
  <2>1. KeptOK(h) /\ PromisedOK(h) /\ \A u \in Thread : HostOf[u] = h => MoveOK(u, h)
    BY <1>2, <1>6 DEF IInv, RemoteInv, HostOK
  <2>2. pc[t].op # "push" => unsent[h] = {}
    BY <2>1, <1>1, NoCells DEF MoveOK
  <2>3. \A c \in unsent[h] : Wrote(h, c)'
    <3>1. \A c \in unsent[h] : Wrote(h, c)
      BY <2>1, <2>2, <1>1, NoCells DEF MoveOK
    <3> QED
      BY <3>1, <1>1, <1>5 DEF Wrote
  <2>4. PromisedOK(h)'
    BY <2>3, <1>1 DEF PromisedOK
  <2>5. KeptOK(h)'
    BY <2>1, <1>1, <1>3, <1>5 DEF KeptOK, InPart, IsChunkPulled
  <2>6. ASSUME NEW u \in Thread, HostOf[u] = h PROVE MoveOK(u, h)'
    <3>1. CASE u = t
      BY <3>1, <2>2, <1>1, <1>3, <1>5 DEF MoveOK
    <3>2. CASE u # t
      <4>1. MoveOK(u, h) /\ pc'[u] = pc[u] /\ pc[u].op \notin Moving
        BY <2>1, <2>6, <3>2, <1>1, <1>5, Alone DEF Moving
      <4> QED
        BY <4>1, <1>1, <1>3, <1>5 DEF MoveOK, InPart, Moving
    <3> QED
      BY <3>1, <3>2
  <2> QED
    BY <2>4, <2>5, <2>6 DEF HostOK
<1>7. Allowed(x.op) /\ ForWriter(t, x.op)
  BY <1>3 DEF IInv, StyleInv, WriterInv, Allowed, ForWriter, InPart, PartStyles
<1>8. pc[t].op \in Moving /\ (x.op \in Moving => x.todo \in Seq(SUBSET Cell)) /\ x.op \notin {"pull", "pullChunk"}
  BY <1>1, <1>3, <1>4 DEF Moving
<1>9. OtherTypes' /\ PagesOK(k)
  BY <1>1, <1>2, <1>3 DEF OtherTypes, PagesOK
<1>10. h = Master => (x.op \in Moving => x.todo = <<>>)
  BY <1>3, <1>4 DEF Moving
<1> QED
  BY <1>1, <1>2, <1>3, <1>6, <1>7, <1>8, <1>9, <1>10, HostStep

(* RPCs fail where values are pushed whole: the flag that asks for the     *)
(* push is still set, and the next push sends everything.                  *)
LEMMA RpcFailsStep ==
  ASSUME IInv, NEW t \in Thread, RpcFails(t)
  PROVE  IInv'
<1> DEFINE h == HostOf[t]
<1>1. /\ pc[t].op \in Moving /\ faults < MaxFaults[style] /\ faults' = faults + 1
      /\ pc' = [pc EXCEPT ![t] = Idle]
      /\ UNCHANGED <<style, kv, mask, appended, mapped, unsent, writes, calls>>
  BY DEF RpcFails
<1>2. /\ h \in Host /\ kv \in [Host -> KV] /\ kv[h] \in KV /\ PagesOK(kv[h]) /\ pc \in [Thread -> Doing]
      /\ mask \in [Host -> SUBSET Cell] /\ unsent \in [Host -> SUBSET Cell] /\ unsent[Master] = {}
      /\ OtherTypes /\ style \in Styles /\ faults \in Nat
  BY Constants DEF IInv, TypeOK, AllocInv, OtherTypes, MasterInv
<1>3. ~InPart
  <2>1. ASSUME InPart PROVE FALSE
    <3>1. MaxFaults[style] = 0
      BY <2>1, <1>2, DisciplineAssumption DEF InPart
    <3> QED
      BY <3>1, <1>1, <1>2
  <2> QED
    BY <2>1
<1>4. Idle \in Doing /\ Idle.op = "idle"
  BY IdleDoing DEF Ops
<1>5. pc'[t] = Idle /\ \A u \in Thread \ {t} : pc'[u] = pc[u]
  BY <1>1, <1>2
<1>6. ASSUME h # Master PROVE HostOK(h)'
  <2>1. KeptOK(h) /\ PromisedOK(h) /\ \A u \in Thread : HostOf[u] = h => MoveOK(u, h)
    BY <1>2, <1>6 DEF IInv, RemoteInv, HostOK
  <2>2. KeptOK(h)' /\ WillSend(h)' = WillSend(h)
    BY <2>1, <1>1 DEF KeptOK, InPart, IsChunkPulled, WillSend
  <2>3. ASSUME NEW c \in unsent[h] PROVE Wrote(h, c)' \/ c \in WillSend(h)'
    <3>1. Wrote(h, c) => Wrote(h, c)'
      BY <1>1, <1>5 DEF Wrote, Moving
    <3>2. ASSUME Sends(h, c) PROVE c \in WillSend(h)
      <4>1. PICK u \in Thread : HostOf[u] = h /\ pc[u].op \in {"push", "partial", "mask"}
        BY <3>2 DEF Sends
      <4>2. pc[u].op = "push" /\ style \in {"set", "ptr"}
        BY <4>1, <1>3 DEF IInv, StyleInv, Allowed, InPart, PartStyles
      <4>3. kv[h].isDirty
        BY <4>1, <4>2, <2>1 DEF MoveOK
      <4> QED
        BY <4>2, <4>3, <1>2 DEF WillSend
    <3> QED
      BY <3>1, <3>2, <2>1, <2>2 DEF PromisedOK
  <2>4. PromisedOK(h)'
    BY <2>3, <1>1 DEF PromisedOK
  <2>5. ASSUME NEW u \in Thread, HostOf[u] = h PROVE MoveOK(u, h)'
    <3>1. CASE u = t
      BY <3>1, <1>4, <1>5 DEF MoveOK
    <3>2. CASE u # t
      <4>1. MoveOK(u, h) /\ pc'[u] = pc[u] /\ pc[u].op \notin Moving
        BY <2>1, <2>5, <3>2, <1>1, <1>5, Alone
      <4> QED
        BY <4>1, <1>1 DEF MoveOK, InPart, Moving
    <3> QED
      BY <3>1, <3>2
  <2> QED
    BY <2>2, <2>4, <2>5 DEF HostOK
<1>7. /\ OtherTypes' /\ Allowed(Idle.op) /\ ForWriter(t, Idle.op) /\ Idle.op \notin Moving
      /\ kv' = [kv EXCEPT ![h] = kv[h]]
  BY <1>1, <1>2, <1>4 DEF OtherTypes, Allowed, ForWriter, Moving
<1> QED
  BY <1>1, <1>2, <1>4, <1>6, <1>7, HostStep

-----------------------------------------------------------------------------
(* The inductive invariant. *)
LEMMA InitInvariant == Init => IInv
<1> SUFFICES ASSUME Init PROVE IInv
  OBVIOUS
<1>1. FreshKV \in KV /\ PagesOK(FreshKV)
  <2>1. [c \in Cell |-> 0] \in Values
    BY DEF Values
  <2>2. PagesOf({}) = {}
    BY DEF PagesOf
  <2> QED
    BY <2>1, <2>2, Zenon DEF FreshKV, KV, PagesOK
<1>2. Idle \in Doing /\ Idle.op = "idle"
  BY IdleDoing DEF Ops
<1>3. TypeOK
  <2>1. <<>> \in Seq(Nat)
    OBVIOUS
  <2> QED
    BY <1>1, <1>2, <2>1 DEF Init, TypeOK
<1>4. \A t \in Thread : pc[t].op = "idle"
  BY <1>2 DEF Init
<1>5. TodoInv /\ StyleInv /\ LockInv /\ WriterInv
  BY <1>4 DEF TodoInv, StyleInv, LockInv, WriterInv, Allowed, ForWriter, Moving
<1>6. AllocInv
  BY <1>1, <1>4 DEF Init, AllocInv, PullHasPages
<1>7. MasterInv
  BY <1>4, Constants DEF Init, MasterInv, Moving
<1>8. RemoteInv
  <2> SUFFICES ASSUME NEW h \in Host \ {Master} PROVE HostOK(h)
    BY DEF RemoteInv
  <2>1. unsent[h] = {} /\ mask[h] = {} /\ kv[h] = FreshKV
    BY DEF Init
  <2>2. FreshKV.pulledMask = {} /\ FreshKV.dirtyMask = {} /\ FreshKV.isDirty = FALSE
    BY DEF FreshKV
  <2>3. KeptOK(h) /\ PromisedOK(h)
    BY <2>1, <2>2 DEF KeptOK, PromisedOK
  <2>4. \A t \in Thread : MoveOK(t, h)
    BY <1>4 DEF MoveOK
  <2> QED
    BY <2>3, <2>4 DEF HostOK
<1> QED
  BY <1>3, <1>5, <1>6, <1>7, <1>8 DEF IInv

LEMMA StutterInvariant == IInv /\ UNCHANGED vars => IInv'
<1> SUFFICES ASSUME IInv, UNCHANGED vars PROVE IInv'
  OBVIOUS
<1>1. UNCHANGED <<style, kv, mask, appended, pc, mapped, unsent, writes, calls, faults>>
  BY DEF vars
<1>2. (TypeOK' <=> TypeOK) /\ (TodoInv' <=> TodoInv) /\ (StyleInv' <=> StyleInv) /\ (LockInv' <=> LockInv)
  BY <1>1 DEF TypeOK, TodoInv, StyleInv, LockInv, Allowed, InPart
<1>3. (WriterInv' <=> WriterInv) /\ (AllocInv' <=> AllocInv) /\ (MasterInv' <=> MasterInv)
  BY <1>1 DEF WriterInv, ForWriter, AllocInv, MasterInv
<1>4. RemoteInv'
  <2> SUFFICES ASSUME NEW h \in Host \ {Master} PROVE HostOK(h)'
    BY DEF RemoteInv
  <2>1. HostOK(h) /\ SameMarks(h)
    BY <1>1 DEF IInv, RemoteInv, SameMarks
  <2> QED
    BY <2>1, <1>1, Elsewhere
<1> QED
  BY <1>2, <1>3, <1>4 DEF IInv

LEMMA NextInvariant == IInv /\ [Next]_vars => IInv'
<1> SUFFICES ASSUME IInv, Next PROVE IInv'
  BY StutterInvariant
<1>1. PICK t \in Thread : Call(t) \/ Continue(t) \/ RpcFails(t)
  BY DEF Next
<1>2. CASE Call(t)
  <2>1. CASE \/ ReadState(t) \/ ReadStatePtr(t) \/ PullState(t)
             \/ \E C \in Chunk : ReadStateOffset(t, C) \/ ReadStateOffsetPtr(t, C)
    BY <2>1, PullsStep
  <2>2. CASE WriteState(t) \/ WriteStateFromFile(t) \/ \E C \in Chunk : WriteStateOffset(t, C)
    BY <2>2, WritesStep
  <2>3. CASE \E c \in Cell : WriteThroughPtr(t, c)
    BY <2>3, ThroughPtrStep
  <2>4. CASE PushState(t)
    BY <2>4, PushFullStep
  <2>5. CASE PushStatePartial(t) \/ PushStatePartialMask(t)
    BY <2>5, PushPartStep
  <2>6. CASE AppendState(t) \/ ClearAppendedState(t) \/ \E n \in 1..MaxWrites : ReadAppendedState(t, n)
    BY <2>6, AppendStep
  <2>7. CASE LockStateRead(t) \/ LockStateWrite(t) \/ LockStateGlobal(t)
    BY <2>7, LocksStep
  <2> QED
    BY <1>2, <2>1, <2>2, <2>3, <2>4, <2>5, <2>6, <2>7 DEF Call
<1>3. CASE Continue(t)
  <2>1. CASE PullChunks(t) \/ PullDone(t)
    BY <2>1, PullChunksStep, PullDoneStep
  <2>2. CASE PushChunks(t) \/ PushDone(t)
    BY <2>2, PushChunksStep, PushDoneStep
  <2>3. CASE FlagStateDirty(t) \/ FlagStateOffsetDirty(t)
    BY <2>3, FlagStep
  <2>4. CASE UseAppended(t)
    BY <2>4, AppendStep
  <2>5. CASE UnlockStateRead(t) \/ UnlockStateWrite(t) \/ UnlockStateGlobal(t)
    BY <2>5, LocksStep
  <2> QED
    BY <1>3, <2>1, <2>2, <2>3, <2>4, <2>5 DEF Continue
<1> QED
  BY <1>1, <1>2, <1>3, RpcFailsStep

(* Whatever threads of any hosts do with the key, in any of the styles:    *)
(* what a host wrote and has not sent is flagged, being sent or about to   *)
(* be flagged; chunks are moved whole, by one thread of a host at a time,  *)
(* where nothing is unsent; and the master moves nothing                   *)
(* (StateKeyValue.cpp:395-544, 575-593).                                   *)
THEOREM ValueInvariant == Spec => []IInv
<1> QED
  BY InitInvariant, NextInvariant, PTL DEF Spec

(* Memory, pages and masks of every key-value, and what every thread still *)
(* has to move, keep their types.                                          *)
THEOREM ValueTypes == Spec => []TypeOK
<1>1. IInv => TypeOK
  BY DEF IInv
<1> QED
  BY <1>1, ValueInvariant, PTL

-----------------------------------------------------------------------------
(* No write is lost on the way to the master, by a flag or a mask that is  *)
(* cleared under it, and only allocated memory is sent: at every moment of *)
(* every interleaving of reads, writes and pushes of a key                 *)
(* (StateKeyValue.cpp:418-440, 511-544).                                   *)
LEMMA UnsentPromised == IInv => UnsentWillBePushed
<1> SUFFICES ASSUME IInv, NEW h \in Host
             PROVE  /\ unsent[h] \subseteq OfThreads(h, {"wrote"}) \cup BeingSent(h) \cup WillSend(h)
                    /\ ReadsAllocated(h)
  BY DEF UnsentWillBePushed
<1>1. \A c : (Wrote(h, c) => c \in OfThreads(h, {"wrote"})) /\ (Sends(h, c) <=> c \in BeingSent(h))
  BY DEF Wrote, Sends, Cells, OfThreads, BeingSent
<1>2. kv[h] \in KV /\ unsent[h] \in SUBSET Cell /\ PagesOK(kv[h]) /\ kv[h].pulledMask \in SUBSET Cell
      /\ kv[h].pages \subseteq Page
  BY DEF IInv, TypeOK, AllocInv, KV
<1>3. CASE h = Master
  <2>1. unsent[h] = {}
    BY <1>3 DEF IInv, MasterInv
  <2>2. BeingSent(h) = {}
    <3>1. \A c : ~Sends(h, c)
      BY <1>3, NoCells DEF Sends, IInv, MasterInv, Moving
    <3> QED
      BY <1>1, <3>1
  <2> QED
    BY <2>1, <2>2, <1>2 DEF ReadsAllocated, PagesOK
<1>4. CASE h # Master
  <2>1. KeptOK(h) /\ PromisedOK(h) /\ \A t \in Thread : HostOf[t] = h => MoveOK(t, h)
    BY <1>4 DEF IInv, RemoteInv, HostOK
  <2>2. BeingSent(h) \in SUBSET Cell
    <3>1. ASSUME NEW c, Sends(h, c) PROVE c \in Cell
      <4>1. PICK t \in Thread : HostOf[t] = h /\ pc[t].op \in Moving /\ c \in Cells(pc[t].todo)
        BY <3>1 DEF Sends, Moving
      <4>2. pc[t].todo \in Seq(SUBSET Cell)
        BY <4>1 DEF IInv, TodoInv
      <4> QED
        BY <4>1, <4>2 DEF Cells, ToSet
    <3> QED
      BY <1>1, <3>1
  <2>3. kv[h].fullyPulled \/ BeingSent(h) \subseteq kv[h].pulledMask
    <3> SUFFICES ASSUME NEW c, Sends(h, c), ~kv[h].fullyPulled PROVE c \in kv[h].pulledMask
      BY <1>1
    <3>1. PICK t \in Thread : /\ HostOf[t] = h /\ pc[t].op \in {"push", "partial", "mask"}
                              /\ c \in Cells(pc[t].todo)
      BY DEF Sends
    <3>2. pc[t].op # "push"
      BY <3>1, <2>1 DEF MoveOK, KeptOK, IInv, StyleInv, Allowed
    <3>3. c \in unsent[h]
      BY <3>1, <3>2, <2>1 DEF MoveOK
    <3> QED
      BY <3>3, <2>1 DEF KeptOK, IsChunkPulled
  <2>4. PagesOf(kv[h].pulledMask \cup BeingSent(h)) \subseteq kv[h].pages
    <3>1. PICK P, B : P = kv[h].pulledMask /\ B = BeingSent(h)
      OBVIOUS
    <3>2. P \in SUBSET Cell /\ B \in SUBSET Cell /\ P \cup B \in SUBSET Cell
      BY <3>1, <1>2, <2>2
    <3>3. PagesOf(P \cup B) \subseteq Page
      BY <3>2, PagesGrow
    <3>4. CASE kv[h].fullyPulled
      BY <3>1, <3>3, <3>4, <1>2 DEF PagesOK
    <3>5. CASE ~kv[h].fullyPulled
      <4>1. P \cup B = P
        BY <3>1, <3>5, <2>3
      <4> QED
        BY <4>1, <3>1, <1>2 DEF PagesOK
    <3> QED
      BY <3>4, <3>5
  <2> QED
    BY <2>1, <2>4, <1>1, <1>2 DEF PromisedOK, ReadsAllocated, PagesOK
<1> QED
  BY <1>3, <1>4

(* What was written on a host and has not reached the master is about to   *)
(* be flagged, is being sent, or will be sent by the next push, and what   *)
(* is sent is memory that may be read (StateKeyValue.cpp:418-440,          *)
(* 511-544).                                                               *)
THEOREM UnsentWillBePushedHolds == Spec => []UnsentWillBePushed
<1> QED
  BY ValueInvariant, UnsentPromised, PTL

(* The chunks that a partial push sends are the maximal runs of dirty      *)
(* cells, each once and in order, whatever the mask and however long the   *)
(* value: no cell is dropped at either end (StateKeyValue.cpp:595-632).    *)
THEOREM ChunksAreRunsHolds == Spec => []ChunksAreRuns
<1>1. IInv => ChunksAreRuns
  <2> SUFFICES ASSUME IInv, NEW h \in Host, NEW D, D = kv[h].dirtyMask \cup mask[h]
               PROVE  LET chunks == GetDirtyChunks(D)
                      IN  /\ ToSet(chunks) = Runs(D) /\ Len(chunks) = Cardinality(Runs(D))
                          /\ \A i, j \in DOMAIN chunks : i < j => Max(chunks[i]) < Min(chunks[j])
    BY DEF ChunksAreRuns
  <2>1. D \in SUBSET Cell
    BY DEF IInv, TypeOK, KV
  <2> QED
    BY <2>1, RunsFound
<1> QED
  BY <1>1, ValueInvariant, PTL

-----------------------------------------------------------------------------
(* Who changes memory: a write, or a chunk that is moved. *)
LEMMA ServePushMem ==
  ASSUME NEW C \in SUBSET Cell, kv[Master] \in KV, NEW val, NEW c \in Cell \ C
  PROVE  ServePush(C, val).mem[c] = kv[Master].mem[c]
<1>1. PICK a : a = AllocateChunk(kv[Master], C) /\ a \in KV /\ a.mem = kv[Master].mem
  BY AllocateFacts
<1>2. PICK r : r = DoSetChunk(kv[Master], C, val)
  OBVIOUS
<1>3. r.mem = [d \in Cell |-> IF d \in C THEN val[d] ELSE a.mem[d]]
  BY <1>1, <1>2 DEF DoSetChunk, KV
<1>4. ServePush(C, val) = MarkDirtyChunk(r, C)
  BY <1>2 DEF ServePush
<1>5. MarkDirtyChunk(r, C).mem = r.mem
  <2>1. r = [a EXCEPT !.mem = [d \in Cell |-> IF d \in C THEN val[d] ELSE a.mem[d]]]
    BY <1>1, <1>2 DEF DoSetChunk
  <2> QED
    BY <2>1, <1>1 DEF MarkDirtyChunk, KV
<1> QED
  BY <1>1, <1>3, <1>4, <1>5

SameMem == \A h \in Host : kv'[h].mem = kv[h].mem

LEMMA OneHostMem ==
  ASSUME NEW h \in Host, kv \in [Host -> KV], NEW k, kv' = [kv EXCEPT ![h] = k], k.mem = kv[h].mem
  PROVE  SameMem
BY DEF SameMem

LEMMA PullStepMem ==
  ASSUME IInv, NEW t \in Thread, NEW op, NEW C \in SUBSET Cell, NEW chunks, PullStep(t, op, C, chunks)
  PROVE  SameMem
<1>1. HostOf[t] \in Host /\ kv \in [Host -> KV] /\ kv[HostOf[t]] \in KV
  BY Constants DEF IInv, TypeOK
<1>2. PICK k : k = AllocateChunk(kv[HostOf[t]], C) /\ k.mem = kv[HostOf[t]].mem
  BY <1>1, AllocateFacts
<1>3. kv' = [kv EXCEPT ![HostOf[t]] = k]
  BY <1>1, <1>2 DEF PullStep
<1> QED
  BY <1>1, <1>2, <1>3, OneHostMem

LEMMA CallMem ==
  ASSUME IInv, NEW t \in Thread, Call(t)
  PROVE  writes' = writes + 1 \/ SameMem
<1>1. HostOf[t] \in Host /\ kv \in [Host -> KV] /\ kv[HostOf[t]] \in KV /\ Cell \in SUBSET Cell
  BY Constants DEF IInv, TypeOK
<1>2. kv' = kv => SameMem
  BY DEF SameMem
<1>3. CASE ReadState(t) \/ ReadStatePtr(t) \/ PullState(t)
  <2>1. kv' = kv \/ PullStep(t, "pull", Cell, GetAllChunks)
    BY <1>3 DEF ReadState, ReadStatePtr, PullState, DoPull
  <2> QED
    BY <2>1, <1>1, <1>2, PullStepMem
<1>4. ASSUME NEW C \in Chunk, ReadStateOffset(t, C) \/ ReadStateOffsetPtr(t, C) PROVE SameMem
  <2>1. kv' = kv \/ PullStep(t, "pullChunk", C, <<C>>)
    BY <1>4 DEF ReadStateOffset, ReadStateOffsetPtr, DoPullChunk
  <2>2. C \in SUBSET Cell
    BY Constants
  <2> QED
    BY <2>1, <2>2, <1>2, PullStepMem
<1>5. CASE WriteState(t) \/ WriteStateFromFile(t) \/ (\E C \in Chunk : WriteStateOffset(t, C))
           \/ \E c \in Cell : WriteThroughPtr(t, c)
  <2>1. CASE WriteState(t) \/ WriteStateFromFile(t)
    BY <2>1 DEF WriteState, WriteStateFromFile, Written
  <2>2. ASSUME NEW C \in Chunk, WriteStateOffset(t, C) PROVE writes' = writes + 1
    BY <2>2 DEF WriteStateOffset, Written
  <2>3. ASSUME NEW c \in Cell, WriteThroughPtr(t, c) PROVE writes' = writes + 1
    BY <2>3 DEF WriteThroughPtr, Written
  <2> QED
    BY <1>5, <2>1, <2>2, <2>3
<1>6. CASE PushStatePartial(t)
  <2>1. PICK k : k = [kv[HostOf[t]] EXCEPT !.dirtyMask = {}]
    OBVIOUS
  <2>2. k.mem = kv[HostOf[t]].mem
    BY <2>1, <1>1 DEF KV
  <2>3. kv' = [kv EXCEPT ![HostOf[t]] = k]
    BY <2>1, <1>1, <1>6 DEF PushStatePartial, PushPartial
  <2> QED
    BY <2>2, <2>3, <1>1, OneHostMem
<1>7. CASE \/ PushState(t) \/ PushStatePartialMask(t) \/ AppendState(t) \/ ClearAppendedState(t)
           \/ (\E n \in 1..MaxWrites : ReadAppendedState(t, n))
           \/ LockStateRead(t) \/ LockStateWrite(t) \/ LockStateGlobal(t)
  BY <1>2, <1>7 DEF PushState, PushFull, PushStatePartialMask, PushPartialMask, AppendState, ClearAppendedState,
              ReadAppendedState, LockStateRead, LockStateWrite, LockStateGlobal, Acquire
<1> QED
  BY <1>3, <1>4, <1>5, <1>6, <1>7 DEF Call

LEMMA ContinueMem ==
  ASSUME IInv, NEW t \in Thread, Continue(t) \/ RpcFails(t)
  PROVE  PullChunks(t) \/ PushChunks(t) \/ SameMem
<1>1. /\ HostOf[t] \in Host /\ kv \in [Host -> KV] /\ kv[HostOf[t]] \in KV
  BY Constants DEF IInv, TypeOK
<1>2. kv' = kv => SameMem
  BY DEF SameMem
<1>3. CASE PullDone(t)
  <2>1. PICK k : k = Pulled(kv[HostOf[t]], pc[t].op, pc[t].of)
    OBVIOUS
  <2>2. k.mem = kv[HostOf[t]].mem
    BY <2>1, <1>1 DEF Pulled, KV
  <2>3. kv' = [kv EXCEPT ![HostOf[t]] = k]
    BY <2>1, <1>1, <1>3 DEF PullDone
  <2> QED
    BY <2>2, <2>3, <1>1, OneHostMem
<1>4. CASE PushDone(t)
  <2>1. PICK k : k = NotDirty(kv[HostOf[t]], pc[t].op)
    OBVIOUS
  <2>2. k.mem = kv[HostOf[t]].mem
    BY <2>1, <1>1 DEF NotDirty, KV
  <2>3. kv' = kv \/ kv' = [kv EXCEPT ![HostOf[t]] = k]
    BY <2>1, <1>1, <1>4 DEF PushDone
  <2> QED
    BY <2>2, <2>3, <1>1, <1>2, OneHostMem
<1>5. CASE FlagStateDirty(t)
  <2>1. PICK k : k = [kv[HostOf[t]] EXCEPT !.isDirty = TRUE]
    OBVIOUS
  <2>2. k.mem = kv[HostOf[t]].mem
    BY <2>1, <1>1 DEF KV
  <2>3. kv' = [kv EXCEPT ![HostOf[t]] = k]
    BY <2>1, <1>1, <1>5 DEF FlagStateDirty
  <2> QED
    BY <2>2, <2>3, <1>1, OneHostMem
<1>6. CASE FlagStateOffsetDirty(t)
  <2>1. PICK k : k = MarkDirtyChunk(kv[HostOf[t]], pc[t].of)
    OBVIOUS
  <2>2. k.mem = kv[HostOf[t]].mem
    BY <2>1, <1>1 DEF MarkDirtyChunk, KV
  <2>3. kv' = [kv EXCEPT ![HostOf[t]] = k]
    BY <2>1, <1>1, <1>6 DEF FlagStateOffsetDirty
  <2> QED
    BY <2>2, <2>3, <1>1, OneHostMem
<1>7. CASE UseAppended(t) \/ UnlockStateRead(t) \/ UnlockStateWrite(t) \/ UnlockStateGlobal(t) \/ RpcFails(t)
  BY <1>2, <1>7 DEF UseAppended, UnlockStateRead, UnlockStateWrite, UnlockStateGlobal, Release, RpcFails
<1> QED
  BY <1>3, <1>4, <1>5, <1>6, <1>7 DEF Continue

(* What the two steps that move a chunk do to the memory of every host.    *)
LEMMA PullChunksMem ==
  ASSUME IInv, NEW t \in Thread, PullChunks(t)
  PROVE  /\ kv'[Master].mem = kv[Master].mem
         /\ \A h \in Host \ {Master} : \A c \in unsent[h] : kv'[h].mem[c] = kv[h].mem[c]
<1> DEFINE g == HostOf[t]
           C == Head(pc[t].todo)
<1>1. /\ pc[t].op \in {"pull", "pullChunk", "refresh"} /\ pc[t].todo # <<>>
      /\ kv' = [kv EXCEPT ![Master] = ServePull(C),
                          ![g].mem = [c \in Cell |-> IF c \in C THEN kv[Master].mem[c] ELSE @[c]]]
  BY DEF PullChunks
<1>2. g \in Host \ {Master} /\ C \subseteq Cell /\ unsent[g] \cap C = {}
  BY <1>1, PullsUnwritten
<1>3. kv \in [Host -> KV] /\ kv[g] \in KV /\ kv[Master] \in KV /\ Master \in Host /\ unsent[g] \subseteq Cell
  BY <1>2, Constants DEF IInv, TypeOK
<1>4. ServePull(C).mem = kv[Master].mem
  BY <1>2, <1>3, ServePullFacts
<1>5. kv'[g].mem = [c \in Cell |-> IF c \in C THEN kv[Master].mem[c] ELSE kv[g].mem[c]]
  BY <1>1, <1>2, <1>3 DEF KV
<1>6. kv'[Master] = ServePull(C) /\ \A h \in Host \ {Master, g} : kv'[h] = kv[h]
  BY <1>1, <1>2, <1>3
<1> QED
  BY <1>2, <1>3, <1>4, <1>5, <1>6

LEMMA PushChunksMem ==
  ASSUME IInv, NEW t \in Thread, PushChunks(t)
  PROVE  /\ \A h \in Host \ {Master} : kv'[h] = kv[h]
         /\ \A c \in Cell : InPart /\ kv'[Master].mem[c] # kv[Master].mem[c] => SentNow(c)
<1> DEFINE g == HostOf[t]
           C == Head(pc[t].todo)
<1>1. /\ pc[t].op \in {"push", "partial", "mask"} /\ pc[t].todo # <<>>
      /\ kv' = [kv EXCEPT ![Master] = ServePush(C, kv[g].mem)]
      /\ unsent' = [unsent EXCEPT ![g] = @ \ C]
  BY DEF PushChunks
<1>2. /\ g \in Host \ {Master} /\ C \in SUBSET Cell /\ Cells(pc[t].todo) = C \cup Cells(Tail(pc[t].todo))
      /\ pc[t].op \in {"partial", "mask"} => unsent[g] = Cells(pc[t].todo)
  BY <1>1, PushesUnsent
<1>3. kv \in [Host -> KV] /\ kv[Master] \in KV /\ Master \in Host /\ unsent \in [Host -> SUBSET Cell]
  BY Constants DEF IInv, TypeOK
<1>4. kv'[Master] = ServePush(C, kv[g].mem) /\ \A h \in Host \ {Master} : kv'[h] = kv[h]
  BY <1>1, <1>3
<1>5. ASSUME NEW c \in Cell, InPart, kv'[Master].mem[c] # kv[Master].mem[c] PROVE SentNow(c)
  <2>1. c \in C
    BY <1>2, <1>3, <1>4, <1>5, ServePushMem
  <2>2. pc[t].op \in {"partial", "mask"}
    BY <1>1, <1>5 DEF IInv, StyleInv, Allowed, InPart, PartStyles
  <2>3. c \in unsent[g] /\ c \notin unsent'[g]
    BY <2>1, <2>2, <1>1, <1>2, <1>3
  <2> QED
    BY <2>3, <1>2 DEF SentNow
<1> QED
  BY <1>4, <1>5

(* A lazy read, or the pull at the end of a partial push, never replaces   *)
(* what was written on this host and not pushed yet                        *)
(* (StateKeyValue.cpp:442-509, 535-544).                                   *)
THEOREM LocalWriteKeptHolds == Spec => LocalWriteKept
<1> DEFINE A == \A h \in Host \ {Master} : \A c \in unsent[h] :
                  kv'[h].mem[c] # kv[h].mem[c] => writes' = writes + 1
<1>1. IInv /\ [Next]_vars => [A]_vars
  <2> SUFFICES ASSUME IInv, Next PROVE A
    BY DEF vars
  <2>1. PICK t \in Thread : Call(t) \/ Continue(t) \/ RpcFails(t)
    BY DEF Next
  <2>2. \/ writes' = writes + 1 \/ SameMem \/ PullChunks(t) \/ PushChunks(t)
    BY <2>1, CallMem, ContinueMem
  <2>3. CASE writes' = writes + 1 \/ SameMem
    BY <2>3 DEF SameMem
  <2>4. CASE PullChunks(t)
    BY <2>4, PullChunksMem
  <2>5. CASE PushChunks(t)
    BY <2>5, PushChunksMem
  <2> QED
    BY <2>2, <2>3, <2>4, <2>5
<1> QED
  BY <1>1, ValueInvariant, PTL DEF Spec, LocalWriteKept

(* A cell of the master changes only by a write on the master or by the    *)
(* push of a host that wrote this very cell: a push in part leaves what    *)
(* others wrote elsewhere (StateKeyValue.cpp:511-544).                     *)
THEOREM PushesOwnWritesHolds == Spec => PushesOwnWrites
<1> DEFINE A == \A c \in Cell : InPart /\ kv'[Master].mem[c] # kv[Master].mem[c] =>
                                writes' = writes + 1 \/ SentNow(c)
<1>1. IInv /\ [Next]_vars => [A]_vars
  <2> SUFFICES ASSUME IInv, Next PROVE A
    BY DEF vars
  <2>1. PICK t \in Thread : Call(t) \/ Continue(t) \/ RpcFails(t)
    BY DEF Next
  <2>2. \/ writes' = writes + 1 \/ SameMem \/ PullChunks(t) \/ PushChunks(t)
    BY <2>1, CallMem, ContinueMem
  <2>3. CASE writes' = writes + 1 \/ SameMem
    BY <2>3, Constants DEF SameMem
  <2>4. CASE PullChunks(t)
    BY <2>4, PullChunksMem
  <2>5. CASE PushChunks(t)
    BY <2>5, PushChunksMem
  <2> QED
    BY <2>2, <2>3, <2>4, <2>5
<1> QED
  BY <1>1, ValueInvariant, PTL DEF Spec, PushesOwnWrites
=============================================================================
