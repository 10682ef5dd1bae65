---------------------------- MODULE StateMaster ----------------------------
(***************************************************************************)
(* Which host is the master of a state key, in faabric's in-memory mode:   *)
(* State::doGetKV, getStateSize and deleteKV, the registry that looks the  *)
(* master up in Redis and claims it under a Redis lock that expires, and   *)
(* the RPCs to the master that StateServer answers.  One key is modelled;  *)
(* mapMutex and masterMapMutex are shared with all the others.             *)
(*                                                                         *)
(* A process <<t, "call">> is a thread of a host; <<t, "serve">> is the    *)
(* thread of a state server that serves the RPC t is waiting for.          *)
(***************************************************************************)
EXTENDS StateHosts, Naturals

CONSTANTS
  None,
  MaxRetries,      \* REMOTE_LOCK_MAX_RETRIES
  MaxDisturbances, \* bound: restarts and flushes
  Slow             \* may a claim outlast REMOTE_LOCK_TIMEOUT_SECS?

ASSUME NoneAssumption == None \notin Host
ASSUME BoundAssumption == MaxRetries \in Nat /\ MaxDisturbances \in Nat
ASSUME SlowAssumption == Slow \in BOOLEAN

Proc == Thread \X {"call", "serve"}
Server(p) == <<p[1], "serve">>
Caller(p) == <<p[1], "call">>
IsServer(p) == p[2] = "serve"

ASSUME NoProcAssumption == None \notin Proc

VARIABLES
  redisMaster, redisLock,  \* master_<user>_<key> and its _lock in Redis
  masterMap, regLock,      \* per host: masterMap[key], who holds masterMapMutex
  kvMap, mapLock,             \* per host: masterIP of kvMap[key], who holds mapMutex
  proc,                    \* per process: pc, operation, host, masterIP(Bytes), retryCount
  flushing, disturbed      \* per host: forceClearAll between its two halves; restarts and flushes

redisVars == <<redisMaster, redisLock>>
hostVars == <<masterMap, regLock, kvMap, mapLock>>
envVars == <<flushing, disturbed>>
masterVars == <<redisVars, hostVars, proc, envVars>>

At(p) == proc[p].at
IdleProc(p) == [pc |-> "idle", op |-> "get", at |-> HostOf[p[1]], found |-> None, tries |-> 0]

InitMaster ==
  /\ redisMaster = None /\ redisLock = None
  /\ masterMap = [h \in Host |-> None] /\ regLock = [h \in Host |-> None]
  /\ kvMap = [h \in Host |-> None] /\ mapLock = [h \in Host |-> None]
  /\ proc = [p \in Proc |-> IdleProc(p)]
  /\ flushing = [h \in Host |-> FALSE] /\ disturbed = 0

Goto(p, label) == proc' = [proc EXCEPT ![p].pc = label]
GotoWith(p, label, m) == proc' = [proc EXCEPT ![p] = [@ EXCEPT !.pc = label, !.found = m]]
Unlock(lock, p) == [lock EXCEPT ![At(p)] = IF @ = p THEN None ELSE @]

(* The operation of p is over, by return or exception; a process that      *)
(* served an RPC replies to its caller, unless that one has given up.      *)
Finish(p) ==
  proc' = [q \in Proc |->
             IF q = p THEN IdleProc(p)
             ELSE IF IsServer(p) /\ q = Caller(p) /\ proc[q].pc = "rpc" THEN [proc[q] EXCEPT !.pc = "replied"]
             ELSE proc[q]]

FinishUnlocking(p) == Finish(p) /\ mapLock' = Unlock(mapLock, p)

-----------------------------------------------------------------------------
(* A thread calls getKV, getStateSize or deleteKV, or uses a KV of which   *)
(* another host is the master: pull, push, append, lock.                   *)
Begin(p) ==
  /\ ~IsServer(p) /\ proc[p].pc = "idle" /\ proc[Server(p)].pc = "idle"
  /\ \/ \E o \in {"get", "size"} : proc' = [proc EXCEPT ![p] = [@ EXCEPT !.op = o, !.pc = "find"]]
     \/ proc' = [proc EXCEPT ![p] = [@ EXCEPT !.op = "delete", !.pc = "lookup"]]
     \/ /\ kvMap[At(p)] \notin {None, At(p)}
        /\ proc' = [proc EXCEPT ![p] = [@ EXCEPT !.op = "access", !.pc = "send", !.found = kvMap[At(p)]]]
  /\ UNCHANGED <<redisVars, hostVars, envVars>>

(* Under a shared lock of mapMutex. *)
Find(p) ==
  /\ proc[p].pc = "find" /\ mapLock[At(p)] = None
  /\ IF kvMap[At(p)] # None THEN Finish(p) ELSE Goto(p, "lockMap")
  /\ UNCHANGED <<redisVars, hostVars, envVars>>

(* Under the full lock, which p keeps when it does not find the key. *)
LockMap(p) ==
  /\ proc[p].pc = "lockMap" /\ mapLock[At(p)] = None
  /\ IF kvMap[At(p)] # None
     THEN Finish(p) /\ UNCHANGED mapLock
     ELSE mapLock' = [mapLock EXCEPT ![At(p)] = p] /\ Goto(p, "lookup")
  /\ UNCHANGED <<redisVars, masterMap, regLock, kvMap, envVars>>

(* getMasterIP returned m: create the KV, ask m for the size unless m is   *)
(* this host, or have m delete the state.                                  *)
GotMaster(p, m) ==
  \/ /\ proc[p].op = "get"
     /\ kvMap' = [kvMap EXCEPT ![At(p)] = m]
     /\ FinishUnlocking(p)
  \/ /\ proc[p].op = "size"
     /\ IF m # At(p) THEN GotoWith(p, "send", m) /\ UNCHANGED mapLock
        ELSE FinishUnlocking(p)
     /\ UNCHANGED kvMap
  \/ /\ proc[p].op = "delete"
     /\ GotoWith(p, IF m = At(p) THEN "erase" ELSE "send", m)
     /\ UNCHANGED <<kvMap, mapLock>>

(* getMasterIP: the map under a shared lock, *)
Lookup(p) ==
  /\ proc[p].pc = "lookup" /\ regLock[At(p)] = None
  /\ IF masterMap[At(p)] # None THEN GotMaster(p, masterMap[At(p)])
     ELSE Goto(p, "lockReg") /\ UNCHANGED <<kvMap, mapLock>>
  /\ UNCHANGED <<redisVars, masterMap, regLock, envVars>>

(* again under the full lock, *)
LockReg(p) ==
  /\ proc[p].pc = "lockReg" /\ regLock[At(p)] = None
  /\ IF masterMap[At(p)] # None
     THEN GotMaster(p, masterMap[At(p)]) /\ UNCHANGED regLock
     ELSE /\ regLock' = [regLock EXCEPT ![At(p)] = p]
          /\ Goto(p, "query") /\ UNCHANGED <<kvMap, mapLock>>
  /\ UNCHANGED <<redisVars, masterMap, envVars>>

(* It is cached, and the registry's lock freed. *)
Cache(p, m) ==
  /\ masterMap' = [masterMap EXCEPT ![At(p)] = m]
  /\ regLock' = Unlock(regLock, p)
  /\ GotMaster(p, m)

ThrowKeepingMap(p) ==
  /\ regLock' = Unlock(regLock, p)
  /\ Finish(p)
  /\ UNCHANGED <<kvMap, mapLock, masterMap>>
(* getMasterIP throws; doGetKV and getStateSize give up their lock too. *)
Throw(p) ==
  /\ regLock' = Unlock(regLock, p)
  /\ FinishUnlocking(p)
  /\ UNCHANGED <<kvMap, masterMap>>

(* then Redis; only doGetKV claims. *)
Query(p) ==
  /\ proc[p].pc = "query"
  /\ \/ redisMaster # None /\ Cache(p, redisMaster)
     \/ redisMaster = None /\ proc[p].op # "get" /\ Throw(p)
     \/ redisMaster = None /\ proc[p].op = "get" /\ Goto(p, "acquire") /\ UNCHANGED hostVars
  /\ UNCHANGED <<redisVars, envVars>>

(* SET ... NX EX 1 *)
SetAlways(p) == TRUE
SetNx(p) == redisLock = None
Retry(p) == proc[p].tries < MaxRetries

AcquireLock(p) ==
  /\ proc[p].pc = "acquire" /\ SetNx(p)
  /\ redisLock' = p
  /\ Goto(p, "recheck")
  /\ UNCHANGED <<redisMaster, hostVars, envVars>>

LockTaken(p) ==
  /\ proc[p].pc = "acquire" /\ ~SetNx(p)
  /\ IF Retry(p) THEN proc' = [proc EXCEPT ![p].tries = @ + 1] /\ UNCHANGED hostVars
     ELSE Throw(p)
  /\ UNCHANGED <<redisVars, envVars>>

Recheck(p) ==
  /\ proc[p].pc = "recheck"
  /\ IF redisMaster = None THEN Goto(p, "claim") ELSE GotoWith(p, "release", redisMaster)
  /\ UNCHANGED <<redisVars, hostVars, envVars>>

Claim(p) ==
  /\ proc[p].pc = "claim"
  /\ redisMaster' = At(p)
  /\ GotoWith(p, "release", At(p))
  /\ UNCHANGED <<redisLock, hostVars, envVars>>

(* delIfEq removes the lock only when it is still the one p set. *)
ReleaseLock(p) ==
  /\ proc[p].pc = "release"
  /\ redisLock' = IF redisLock = p THEN None ELSE redisLock
  /\ Cache(p, proc[p].found)
  /\ UNCHANGED <<redisMaster, envVars>>

-----------------------------------------------------------------------------
(* The RPC: a thread of the master's state server takes the request.  All  *)
(* of them start with getKV, but for Delete.  An RPC is made by a server   *)
(* only when masters disagree; it is not followed.                         *)
Send(p) ==
  /\ ~IsServer(p) /\ proc[p].pc = "send"
  /\ LET deletes == proc[p].op = "delete"
     IN proc' = [proc EXCEPT ![p].pc = "rpc",
          ![Server(p)] = [@ EXCEPT !.pc = IF deletes THEN "lookup" ELSE "find", !.at = proc[p].found,
                                   !.op = IF deletes THEN "delete" ELSE "get"]]
  /\ UNCHANGED <<redisVars, hostVars, envVars>>

GetReply(p) ==
  /\ proc[p].pc = "replied"
  /\ IF proc[p].op = "delete" THEN Goto(p, "erase") /\ UNCHANGED mapLock ELSE FinishUnlocking(p)
  /\ UNCHANGED <<redisVars, masterMap, regLock, kvMap, envVars>>

(* deleteKVLocally *)
Erase(p) ==
  /\ proc[p].pc = "erase" /\ mapLock[At(p)] = None
  /\ kvMap' = [kvMap EXCEPT ![At(p)] = None]
  /\ Finish(p)
  /\ UNCHANGED <<redisVars, masterMap, regLock, mapLock, envVars>>

-----------------------------------------------------------------------------
InClaim(p) == proc[p].pc \in {"recheck", "claim", "release"}

(* The lock expires after a second: on its own once its holder has gone,   *)
(* and under the holder when that one is slow.                             *)
Expire ==
  /\ redisLock # None
  /\ Slow \/ ~InClaim(redisLock)
  /\ redisLock' = None
  /\ UNCHANGED <<redisMaster, hostVars, proc, envVars>>

(* A host dies and comes back under the same address; those who wait for   *)
(* its server get an error, which they throw.                              *)
GivesUp(q, h) ==
  \/ At(q) = h
  \/ proc[q].pc = "rpc" /\ proc[q].found = h

Restart(h) ==
  /\ disturbed < MaxDisturbances
  /\ disturbed' = disturbed + 1
  /\ masterMap' = [masterMap EXCEPT ![h] = None]
  /\ regLock' = [regLock EXCEPT ![h] = None]
  /\ kvMap' = [kvMap EXCEPT ![h] = None]
  /\ mapLock' = [g \in Host |-> IF \E q \in Proc : mapLock[g] = q /\ GivesUp(q, h) THEN None
                                ELSE mapLock[g]]
  /\ proc' = [q \in Proc |-> IF GivesUp(q, h) THEN IdleProc(q) ELSE proc[q]]
  /\ flushing' = [flushing EXCEPT ![h] = FALSE]
  /\ UNCHANGED redisVars

(* forceClearAll, for the Flush RPC: first the registry, *)
FlushRegistry(h) ==
  /\ disturbed < MaxDisturbances /\ ~flushing[h] /\ regLock[h] = None
  /\ disturbed' = disturbed + 1
  /\ masterMap' = [masterMap EXCEPT ![h] = None]
  /\ flushing' = [flushing EXCEPT ![h] = TRUE]
  /\ UNCHANGED <<redisVars, regLock, kvMap, mapLock, proc>>

(* then the key-values. *)
FlushKVs(h) ==
  /\ flushing[h] /\ mapLock[h] = None
  /\ kvMap' = [kvMap EXCEPT ![h] = None]
  /\ flushing' = [flushing EXCEPT ![h] = FALSE]
  /\ UNCHANGED <<redisVars, masterMap, regLock, mapLock, proc, disturbed>>

Step(p) ==
  \/ Find(p) \/ LockMap(p) \/ Lookup(p) \/ LockReg(p) \/ Query(p) \/ AcquireLock(p) \/ LockTaken(p)
  \/ Recheck(p) \/ Claim(p) \/ ReleaseLock(p) \/ Send(p) \/ GetReply(p) \/ Erase(p)

NextMaster ==
  \/ (\E p \in Proc : Begin(p) \/ Step(p))
  \/ Expire
  \/ (\E h \in Host : Restart(h) \/ FlushRegistry(h) \/ FlushKVs(h))

MasterSpec == InitMaster /\ [][NextMaster]_masterVars

(* Every thread goes on, and a mutex that is free again and again lets a   *)
(* thread that waits for it in at last.                                    *)
FairMasterSpec == MasterSpec /\ \A p \in Proc : SF_masterVars(Step(p))

-----------------------------------------------------------------------------
ProcPc == {"idle", "find", "lockMap", "lookup", "lockReg", "query", "acquire", "recheck", "claim",
           "release", "send", "rpc", "replied", "erase"}
ProcState == [pc : ProcPc, op : {"get", "size", "delete", "access"}, at : Host,
              found : Host \cup {None}, tries : 0..MaxRetries]

(* The values of the registry's and the processes' state. *)
MasterTypeOK ==
  /\ redisMaster \in Host \cup {None} /\ redisLock \in Proc \cup {None}
  /\ masterMap \in [Host -> Host \cup {None}] /\ regLock \in [Host -> Proc \cup {None}]
  /\ kvMap \in [Host -> Host \cup {None}] /\ mapLock \in [Host -> Proc \cup {None}]
  /\ proc \in [Proc -> ProcState]
  /\ flushing \in [Host -> BOOLEAN] /\ disturbed \in 0..MaxDisturbances

(* All hosts agree who the master of the key is: what a host cached, what  *)
(* its KV object was built with and what a process is about to cache or    *)
(* calls is the master in Redis.  (getMasterIP: "Check there's still no    *)
(* master, if so, claim")                                                  *)
OneMaster ==
  /\ \A h \in Host : masterMap[h] \in {None, redisMaster} /\ kvMap[h] \in {None, redisMaster}
  /\ \A p \in Proc : proc[p].found \in {None, redisMaster}

(* Every operation comes to an end, although getStateSize holds mapMutex   *)
(* over an RPC whose server needs the mapMutex of its own host, doGetKV    *)
(* holds it while it waits for the lock in Redis, and hosts restart.       *)
OperationsEnd == \A p \in Proc : proc[p].pc # "idle" ~> proc[p].pc = "idle"
=============================================================================
