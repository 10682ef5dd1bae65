---------------------------- MODULE CallsProofs ----------------------------
(***************************************************************************)
(* Theorems about Calls: no result is lost, no answer is false and the     *)
(* execution graph of calls that ended is complete, however many calls,    *)
(* clients and Faaslets there are.                                         *)
(***************************************************************************)
EXTENDS Calls, SequenceTheorems, TLAPS

-----------------------------------------------------------------------------
(* A call is in the queue once, or on one Faaslet, or neither.             *)
QueueInv ==
  /\ \A k \in DOMAIN queue : queue[k] \in Ids /\ call[queue[k]].rv = Running
  /\ \A k, l \in DOMAIN queue : queue[k] = queue[l] => k = l
FaasletInv ==
  \A e \in Faaslets :
    ex[e].at # "free" =>
      /\ ex[e].id \in Ids
      /\ \A k \in DOMAIN queue : queue[k] # ex[e].id
      /\ \A d \in Faaslets : ex[d].at # "free" /\ ex[d].id = ex[e].id => d = e
      /\ ex[e].at # "status" => call[ex[e].id].rv = Running
      /\ ex[e].at \in {"push", "status"} => ex[e].rv \in {0, 1}

(* Who waits, or has a call to note, knows which. *)
WaitInv ==
  /\ \A c \in Clients : client[c] \in Ids \cup {NoCall}
  /\ \A e \in Faaslets : ex[e].at \in {"log", "await", "output"} => ex[e].target \in Ids

(* The result of a call that has published one is in its list, was taken,  *)
(* or expired; before, there is nothing.                                   *)
Unpublished(i) == (i \in Ids => call[i].rv = Running) /\ list[i] = <<>> /\ i \notin taken /\ i \notin gone
Published(i) ==
  /\ i \in Ids /\ call[i].rv \in {0, 1}
  /\ \/ list[i] = <<call[i].rv>> /\ i \notin taken /\ i \notin gone
     \/ list[i] = <<>> /\ i \in taken /\ i \notin gone
     \/ list[i] = <<>> /\ i \notin taken /\ i \in gone
ResultInv == \A i \in Id : Unpublished(i) \/ Published(i)

IInv == TypeOK /\ QueueInv /\ FaasletInv /\ WaitInv /\ ResultInv

-----------------------------------------------------------------------------
(* What a new call changes: it gets the next id and goes to the end of the *)
(* queue.                                                                  *)
LEMMA NewFacts ==
  ASSUME IInv, NEW p \in Id \cup {NoCall}, CallFunction(p)
  PROVE  /\ Len(call) + 1 \in Id /\ Len(call) + 1 \notin Ids
         /\ call' \in Seq(Call) /\ Len(call') <= MaxCalls
         /\ DOMAIN call' = Ids \cup {Len(call) + 1}
         /\ \A i \in Ids : call'[i] = call[i]
         /\ call'[Len(call) + 1].rv = Running
         /\ queue' \in Seq(Id) /\ DOMAIN queue' = DOMAIN queue \cup {Len(queue) + 1}
         /\ \A k \in DOMAIN queue : queue'[k] = queue[k]
         /\ queue'[Len(queue) + 1] = Len(call) + 1
<1> DEFINE new == [parent |-> p, rv |-> Running]
<1>1. call \in Seq(Call) /\ Len(call) \in Nat /\ Len(call) < MaxCalls /\ Ids = 1..Len(call)
  BY DEF IInv, TypeOK, CallFunction, Ids
<1>2. Len(call) + 1 \in Id /\ Len(call) + 1 \notin Ids
  BY <1>1, CallsAssumption DEF Id
<1>3. new \in Call /\ new.rv = Running
  BY DEF Call, Value, Running
<1>4. call' = Append(call, new) /\ queue' = Append(queue, Len(call) + 1)
  BY DEF CallFunction, NewCall
<1> HIDE DEF new
<1>5. /\ call' \in Seq(Call) /\ Len(call') = Len(call) + 1 /\ DOMAIN call' = Ids \cup {Len(call) + 1}
      /\ \A i \in Ids : call'[i] = call[i]
      /\ call'[Len(call) + 1] = new
  BY <1>1, <1>3, <1>4
<1>6. queue \in Seq(Id)
  BY DEF IInv, TypeOK
<1>7. /\ queue' \in Seq(Id) /\ DOMAIN queue' = DOMAIN queue \cup {Len(queue) + 1}
      /\ \A k \in DOMAIN queue : queue'[k] = queue[k]
      /\ queue'[Len(queue) + 1] = Len(call) + 1
  BY <1>2, <1>4, <1>6
<1>8. Len(call') <= MaxCalls
  BY <1>1, <1>5, CallsAssumption
<1> QED
  BY <1>2, <1>3, <1>5, <1>7, <1>8

(* What taking a call from the queue leaves there.                         *)
LEMMA TakeFacts ==
  ASSUME IInv, queue # <<>>, queue' = Tail(queue)
  PROVE  /\ 1 \in DOMAIN queue /\ Head(queue) = queue[1]
         /\ queue' \in Seq(Id)
         /\ \A k \in DOMAIN queue' : k \in Nat /\ k > 0 /\ k + 1 \in DOMAIN queue /\ queue'[k] = queue[k + 1]
<1>1. queue \in Seq(Id)
  BY DEF IInv, TypeOK
<1> QED
  BY <1>1

(* What popping the result of a call gives and leaves.                     *)
LEMMA PopFacts ==
  ASSUME IInv, NEW i \in Id, HasResult(i), DequeueBytes(i)
  PROVE  /\ i \in Ids /\ call[i].rv \in {0, 1} /\ Head(list[i]) = call[i].rv
         /\ list' = [list EXCEPT ![i] = <<>>]
         /\ i \notin taken /\ i \notin gone /\ taken' = taken \cup {i}
<1>1. i \in Ids /\ call[i].rv \in {0, 1} /\ list[i] = <<call[i].rv>> /\ i \notin taken /\ i \notin gone
  BY DEF IInv, ResultInv, Published, Unpublished, HasResult
<1>2. Head(list[i]) = call[i].rv /\ Tail(list[i]) = <<>>
  BY <1>1
<1> QED
  BY <1>1, <1>2 DEF DequeueBytes

(* What publishing a result changes.                                       *)
LEMMA PublishFacts ==
  ASSUME IInv, NEW e \in Faaslets, PublishResult(e)
  PROVE  /\ ex[e].id \in Id /\ ex[e].id \in Ids /\ call[ex[e].id].rv = Running /\ ex[e].rv \in {0, 1}
         /\ call' \in Seq(Call) /\ Len(call') <= MaxCalls /\ DOMAIN call' = Ids
         /\ \A j \in Ids : j # ex[e].id => call'[j] = call[j]
         /\ call'[ex[e].id].rv = ex[e].rv
         /\ list' = [list EXCEPT ![ex[e].id] = <<ex[e].rv>>]
         /\ ex[e].id \notin taken /\ ex[e].id \notin gone
<1> DEFINE i == ex[e].id
           r == ex[e].rv
<1>1. i \in Ids /\ call[i].rv = Running /\ r \in {0, 1}
  BY DEF IInv, FaasletInv, PublishResult, At
<1>2. call \in Seq(Call) /\ Len(call) <= MaxCalls /\ Ids = 1..Len(call) /\ Len(call) \in Nat
  BY DEF IInv, TypeOK, Ids
<1>3. i \in Id
  BY <1>1, <1>2, CallsAssumption DEF Id
<1>4. call' = [call EXCEPT ![i].rv = r] /\ list' = [list EXCEPT ![i] = Append(@, r)]
  BY DEF PublishResult, EnqueueBytes
<1>5. list[i] = <<>> /\ i \notin taken /\ i \notin gone
  BY <1>1, <1>3 DEF IInv, ResultInv, Unpublished, Published, Running
<1>6. Append(<<>>, r) = <<r>>
  OBVIOUS
<1>7. list' = [list EXCEPT ![i] = <<r>>]
  BY <1>4, <1>5, <1>6
<1> HIDE DEF i, r
<1>8. call' \in Seq(Call) /\ Len(call') = Len(call)
  <2>1. call \in [1..Len(call) -> Call] /\ i \in 1..Len(call)
    BY <1>1, <1>2
  <2>2. call' \in [1..Len(call) -> Call]
    BY <1>1, <1>4, <2>1 DEF Call, Value
  <2> QED
    BY <1>2, <2>2
<1>9. call'[i].rv = r /\ \A j \in Ids : j # i => call'[j] = call[j]
  BY <1>1, <1>2, <1>4 DEF Call
<1>10. DOMAIN call' = Ids
  BY <1>4 DEF Ids
<1> QED
  BY <1>1, <1>2, <1>3, <1>5, <1>7, <1>8, <1>9, <1>10 DEF i, r

-----------------------------------------------------------------------------
(* What a step of Faaslet e leaves of the Faaslets.                        *)
Goes(e, a, t, v) ==
  /\ ex' \in [Faaslets -> Execution]
  /\ \A d \in Faaslets : d # e => ex'[d] = ex[d]
  /\ ex'[e].at = a /\ ex'[e].id = ex[e].id /\ ex'[e].target = t /\ ex'[e].rv = v

Freed(e) ==
  /\ ex' \in [Faaslets -> Execution]
  /\ \A d \in Faaslets : d # e => ex'[d] = ex[d]
  /\ ex'[e] = Free

LEMMA ExTypes == IInv => ex \in [Faaslets -> Execution]
  BY DEF IInv, TypeOK

LEMMA IdsInId == IInv => Ids \subseteq Id
  BY CallsAssumption DEF IInv, TypeOK, Ids, Id

LEMMA OwnIds == ASSUME IInv, NEW e \in Faaslets PROVE Own(e) \subseteq Ids /\ Ids \subseteq Id
  BY CallsAssumption DEF IInv, TypeOK, Own, Ids, Id

LEMMA TakeGoes ==
  ASSUME IInv, NEW e \in Faaslets, TakeCall(e)
  PROVE  /\ ex' \in [Faaslets -> Execution]
         /\ \A d \in Faaslets : d # e => ex'[d] = ex[d]
         /\ ex'[e].at = "run" /\ ex'[e].id = queue[1]
<1>1. queue[1] \in Id /\ Head(queue) = queue[1]
  BY TakeFacts DEF TakeCall, IInv, TypeOK
<1> QED
  BY <1>1, ExTypes DEF TakeCall, Execution, Places

LEMMA ChainGoes ==
  ASSUME IInv, NEW e \in Faaslets, ChainFunction(e)
  PROVE  Goes(e, "log", Len(call) + 1, ex[e].rv) /\ ex[e].at = "run" /\ CallFunction(ex[e].id) /\ ex[e].id \in Id
<1>1. ex[e].at = "run" /\ CallFunction(ex[e].id) /\ ex[e].id \in Ids
  BY DEF IInv, FaasletInv, ChainFunction, MakeChainedCall, At
<1>2. ex[e].id \in Id /\ Len(call) + 1 \in Id
  BY <1>1, OwnIds, NewFacts
<1> QED
  BY <1>1, <1>2, ExTypes DEF ChainFunction, MakeChainedCall, Goes, Execution, Places

LEMMA LogGoes ==
  ASSUME IInv, NEW e \in Faaslets, LogChainedFunction(e)
  PROVE  Goes(e, "run", NoCall, ex[e].rv) /\ ex[e].at = "log"
  BY ExTypes DEF LogChainedFunction, At, Goes, Execution, Places

LEMMA AwaitGoes ==
  ASSUME IInv, NEW e \in Faaslets, AwaitChainedCall(e)
  PROVE  ex[e].at = "run" /\ \E i \in Ids, how \in {"await", "output"} : Goes(e, how, i, ex[e].rv)
<1>1. PICK i \in Own(e), how \in {"await", "output"} : AwaitCall(e, i, how)
  BY DEF AwaitChainedCall
<1>2. i \in Ids /\ i \in Id
  BY OwnIds
<1>3. Goes(e, how, i, ex[e].rv)
  BY <1>1, <1>2, ExTypes, CallsAssumption DEF AwaitCall, Goes, Execution, Places
<1> QED
  BY <1>1, <1>2, <1>3 DEF AwaitCall, At

LEMMA GotGoes ==
  ASSUME IInv, NEW e \in Faaslets, GotChainedResult(e)
  PROVE  Goes(e, "run", NoCall, ex[e].rv) /\ ex[e].at \in {"await", "output"}
  BY ExTypes DEF GotChainedResult, At, Goes, Execution, Places

LEMMA TimeoutGoes ==
  ASSUME IInv, NEW e \in Faaslets, AwaitTimesOut(e)
  PROVE  \/ Goes(e, "run", NoCall, ex[e].rv) /\ ex[e].at = "await"
         \/ Goes(e, "push", NoCall, 1) /\ ex[e].at = "output"
<1>1. CASE At(e, "await") /\ ex' = [ex EXCEPT ![e].at = "run", ![e].target = NoCall]
  BY <1>1, ExTypes DEF At, Goes, Execution, Places
<1>2. CASE At(e, "output") /\ ex' = [ex EXCEPT ![e].at = "push", ![e].target = NoCall, ![e].rv = 1]
  BY <1>2, ExTypes DEF At, Goes, Execution, Places, Value
<1> QED
  BY <1>1, <1>2 DEF AwaitTimesOut

LEMMA ExecuteGoes ==
  ASSUME IInv, NEW e \in Faaslets, ExecuteCall(e)
  PROVE  ex[e].at = "run" /\ \E r \in {0, 1} : Goes(e, "push", ex[e].target, r)
<1>1. PICK r \in {0, 1} : ex' = [ex EXCEPT ![e].at = "push", ![e].rv = r]
  BY DEF ExecuteCall
<1>2. Goes(e, "push", ex[e].target, r)
  BY <1>1, ExTypes DEF Goes, Execution, Places, Value
<1> QED
  BY <1>2 DEF ExecuteCall, At

LEMMA PublishGoes ==
  ASSUME IInv, NEW e \in Faaslets, PublishResult(e)
  PROVE  Goes(e, "status", ex[e].target, ex[e].rv) /\ ex[e].at = "push"
  BY ExTypes DEF PublishResult, At, Goes, Execution, Places

LEMMA FreeGoes ==
  ASSUME IInv, NEW e \in Faaslets, SetStatus(e) \/ Dies(e)
  PROVE  Freed(e) /\ ex[e].at # "free"
  BY ExTypes, CallsAssumption DEF SetStatus, Dies, At, Freed, Free, Execution, Places, Value, Running

(* The parts of the invariant, one after another, action by action. *)
LEMMA QueueInvNext == IInv /\ [Next]_vars => QueueInv'
<1> SUFFICES ASSUME IInv, [Next]_vars PROVE QueueInv'
  OBVIOUS
<1>1. ASSUME NEW c \in Clients, ExecuteFunction(c) PROVE QueueInv'
  <2>1. CallFunction(NoCall)
    BY <1>1 DEF ExecuteFunction
  <2> QED
    BY <2>1, NewFacts DEF IInv, QueueInv, FaasletInv, Ids
<1>2. ASSUME NEW c \in Clients, GetFunctionResult(c) PROVE QueueInv'
  BY <1>2 DEF GetFunctionResult, IInv, QueueInv, FaasletInv, Ids
<1>3. ASSUME NEW c \in Clients, NoResponse(c) PROVE QueueInv'
  BY <1>3 DEF NoResponse, IInv, QueueInv, FaasletInv, Ids
<1>4. ASSUME NEW i \in Ids, GetMessageStatus(i) PROVE QueueInv'
  BY <1>4 DEF GetMessageStatus, IInv, QueueInv, FaasletInv, Ids
<1>5. ASSUME NEW i \in Ids, ResultExpires(i) PROVE QueueInv'
  BY <1>5 DEF ResultExpires, IInv, QueueInv, FaasletInv, Ids
<1>6. ASSUME NEW i \in Ids, GraphExpires(i) PROVE QueueInv'
  BY <1>6 DEF GraphExpires, IInv, QueueInv, FaasletInv, Ids
<1>7. ASSUME NEW e \in Faaslets, TakeCall(e) PROVE QueueInv'
  BY <1>7, TakeFacts DEF TakeCall, IInv, QueueInv, FaasletInv, Ids
<1>8. ASSUME NEW e \in Faaslets, ChainFunction(e) PROVE QueueInv'
  <2>1. Goes(e, "log", Len(call) + 1, ex[e].rv) /\ ex[e].at = "run" /\ CallFunction(ex[e].id) /\ ex[e].id \in Id
    BY <1>8, ChainGoes
  <2> QED
    BY <2>1, NewFacts DEF IInv, QueueInv, FaasletInv, Ids
<1>9. ASSUME NEW e \in Faaslets, LogChainedFunction(e) PROVE QueueInv'
  BY <1>9 DEF LogChainedFunction, IInv, QueueInv, FaasletInv, Ids
<1>10. ASSUME NEW e \in Faaslets, AwaitChainedCall(e) PROVE QueueInv'
  BY <1>10 DEF AwaitChainedCall, AwaitCall, IInv, QueueInv, FaasletInv, Ids
<1>11. ASSUME NEW e \in Faaslets, GotChainedResult(e) PROVE QueueInv'
  BY <1>11 DEF GotChainedResult, IInv, QueueInv, FaasletInv, Ids
<1>12. ASSUME NEW e \in Faaslets, AwaitTimesOut(e) PROVE QueueInv'
  BY <1>12 DEF AwaitTimesOut, IInv, QueueInv, FaasletInv, Ids
<1>13. ASSUME NEW e \in Faaslets, ExecuteCall(e) PROVE QueueInv'
  BY <1>13 DEF ExecuteCall, IInv, QueueInv, FaasletInv, Ids
<1>14. ASSUME NEW e \in Faaslets, PublishResult(e) PROVE QueueInv'
  <2>1. ex[e].at # "free" /\ ex[e].id \in Ids
    BY <1>14, PublishGoes, PublishFacts
  <2>2. queue' = queue
    BY <1>14 DEF PublishResult
  <2> QED
    BY <1>14, <2>1, <2>2, PublishFacts DEF IInv, QueueInv, FaasletInv, Ids
<1>15. ASSUME NEW e \in Faaslets, SetStatus(e) PROVE QueueInv'
  BY <1>15 DEF SetStatus, IInv, QueueInv, FaasletInv, Ids
<1>16. ASSUME NEW e \in Faaslets, Dies(e) PROVE QueueInv'
  BY <1>16 DEF Dies, IInv, QueueInv, FaasletInv, Ids
<1>17. CASE UNCHANGED vars
  BY <1>17 DEF vars, redis, IInv, QueueInv, FaasletInv, Ids
<1> QED
  BY <1>1, <1>2, <1>3, <1>4, <1>5, <1>6, <1>7, <1>8, <1>9, <1>10, <1>11, <1>12, <1>13, <1>14, <1>15, <1>16, <1>17
  DEF Next, Endpoint, Executes

LEMMA WaitInvNext == IInv /\ [Next]_vars => WaitInv'
<1> SUFFICES ASSUME IInv, [Next]_vars PROVE WaitInv'
  OBVIOUS
<1>1. ASSUME NEW c \in Clients, ExecuteFunction(c) PROVE WaitInv'
  <2>1. CallFunction(NoCall)
    BY <1>1 DEF ExecuteFunction
  <2>2. ex' = ex /\ (client' = client \/ client' = [client EXCEPT ![c] = Len(call) + 1])
    BY <1>1 DEF ExecuteFunction
  <2>3. DOMAIN call' = Ids \cup {Len(call) + 1}
    BY <2>1, NewFacts
  <2>4. \A d \in Clients : client'[d] = client[d] \/ client'[d] = Len(call) + 1
    BY <2>2 DEF IInv, TypeOK
  <2> QED
    BY <2>2, <2>3, <2>4 DEF IInv, WaitInv, Ids
<1>2. ASSUME NEW c \in Clients, GetFunctionResult(c) PROVE WaitInv'
  <2>1. call' = call /\ ex' = ex /\ client' = [client EXCEPT ![c] = NoCall]
    BY <1>2 DEF GetFunctionResult
  <2>2. \A d \in Clients : client'[d] = client[d] \/ client'[d] = NoCall
    BY <2>1 DEF IInv, TypeOK
  <2> QED
    BY <2>1, <2>2 DEF IInv, WaitInv, Ids
<1>3. ASSUME NEW c \in Clients, NoResponse(c) PROVE WaitInv'
  <2>1. call' = call /\ ex' = ex /\ client' = [client EXCEPT ![c] = NoCall]
    BY <1>3 DEF NoResponse
  <2>2. \A d \in Clients : client'[d] = client[d] \/ client'[d] = NoCall
    BY <2>1 DEF IInv, TypeOK
  <2> QED
    BY <2>1, <2>2 DEF IInv, WaitInv, Ids
<1>4. ASSUME NEW i \in Ids, GetMessageStatus(i) PROVE WaitInv'
  BY <1>4 DEF GetMessageStatus, IInv, WaitInv, FaasletInv, Ids
<1>5. ASSUME NEW i \in Ids, ResultExpires(i) PROVE WaitInv'
  BY <1>5 DEF ResultExpires, IInv, WaitInv, FaasletInv, Ids
<1>6. ASSUME NEW i \in Ids, GraphExpires(i) PROVE WaitInv'
  BY <1>6 DEF GraphExpires, IInv, WaitInv, FaasletInv, Ids
<1>7. ASSUME NEW e \in Faaslets, TakeCall(e) PROVE WaitInv'
  <2>1. call' = call /\ client' = client
    BY <1>7 DEF TakeCall
  <2> QED
    BY <1>7, <2>1, TakeGoes DEF IInv, WaitInv, FaasletInv, Ids, Goes, Freed, Free
<1>8. ASSUME NEW e \in Faaslets, ChainFunction(e) PROVE WaitInv'
  <2>1. Goes(e, "log", Len(call) + 1, ex[e].rv) /\ ex[e].at = "run" /\ CallFunction(ex[e].id) /\ ex[e].id \in Id
    BY <1>8, ChainGoes
  <2>2. client' = client /\ DOMAIN call' = Ids \cup {Len(call) + 1}
    BY <1>8, <2>1, NewFacts DEF ChainFunction, MakeChainedCall
  <2>3. \A d \in Faaslets : d # e => ex'[d] = ex[d]
    BY <2>1 DEF Goes
  <2>4. ex'[e].target = Len(call) + 1
    BY <2>1 DEF Goes
  <2> QED
    BY <2>2, <2>3, <2>4 DEF IInv, WaitInv, Ids
<1>9. ASSUME NEW e \in Faaslets, LogChainedFunction(e) PROVE WaitInv'
  <2>1. call' = call /\ client' = client
    BY <1>9 DEF LogChainedFunction
  <2> QED
    BY <1>9, <2>1, LogGoes DEF IInv, WaitInv, FaasletInv, Ids, Goes, Freed, Free
<1>10. ASSUME NEW e \in Faaslets, AwaitChainedCall(e) PROVE WaitInv'
  <2>1. call' = call /\ client' = client
    BY <1>10 DEF AwaitChainedCall, AwaitCall
  <2> QED
    BY <1>10, <2>1, AwaitGoes DEF IInv, WaitInv, FaasletInv, Ids, Goes, Freed, Free
<1>11. ASSUME NEW e \in Faaslets, GotChainedResult(e) PROVE WaitInv'
  <2>1. call' = call /\ client' = client
    BY <1>11 DEF GotChainedResult
  <2> QED
    BY <1>11, <2>1, GotGoes DEF IInv, WaitInv, FaasletInv, Ids, Goes, Freed, Free
<1>12. ASSUME NEW e \in Faaslets, AwaitTimesOut(e) PROVE WaitInv'
  <2>1. call' = call /\ client' = client
    BY <1>12 DEF AwaitTimesOut
  <2> QED
    BY <1>12, <2>1, TimeoutGoes DEF IInv, WaitInv, FaasletInv, Ids, Goes, Freed, Free
<1>13. ASSUME NEW e \in Faaslets, ExecuteCall(e) PROVE WaitInv'
  <2>1. call' = call /\ client' = client
    BY <1>13 DEF ExecuteCall
  <2> QED
    BY <1>13, <2>1, ExecuteGoes DEF IInv, WaitInv, FaasletInv, Ids, Goes, Freed, Free
<1>14. ASSUME NEW e \in Faaslets, PublishResult(e) PROVE WaitInv'
  <2>1. client' = client /\ DOMAIN call' = Ids
    BY <1>14, PublishFacts DEF PublishResult
  <2> QED
    BY <1>14, <2>1, PublishGoes DEF IInv, WaitInv, FaasletInv, Ids, Goes
<1>15. ASSUME NEW e \in Faaslets, SetStatus(e) PROVE WaitInv'
  <2>1. call' = call /\ client' = client
    BY <1>15 DEF SetStatus
  <2> QED
    BY <1>15, <2>1, FreeGoes DEF IInv, WaitInv, FaasletInv, Ids, Goes, Freed, Free
<1>16. ASSUME NEW e \in Faaslets, Dies(e) PROVE WaitInv'
  <2>1. call' = call /\ client' = client
    BY <1>16 DEF Dies
  <2> QED
    BY <1>16, <2>1, FreeGoes DEF IInv, WaitInv, FaasletInv, Ids, Goes, Freed, Free
<1>17. CASE UNCHANGED vars
  BY <1>17 DEF vars, redis, IInv, WaitInv, FaasletInv, Ids
<1> QED
  BY <1>1, <1>2, <1>3, <1>4, <1>5, <1>6, <1>7, <1>8, <1>9, <1>10, <1>11, <1>12, <1>13, <1>14, <1>15, <1>16, <1>17
  DEF Next, Endpoint, Executes

(* A Faaslet that goes on with its call keeps it to itself. *)
LEMMA GoesOn ==
  ASSUME IInv, NEW e \in Faaslets, NEW a, NEW t, NEW v, Goes(e, a, t, v),
         call' = call, queue' = queue,
         ex[e].at \notin {"free", "status"}, a # "status", a = "push" => v \in {0, 1}
  PROVE  FaasletInv'
<1>1. /\ ex[e].id \in Ids /\ call[ex[e].id].rv = Running
      /\ \A k \in DOMAIN queue : queue[k] # ex[e].id
      /\ \A d \in Faaslets : ex[d].at # "free" /\ ex[d].id = ex[e].id => d = e
  BY DEF IInv, FaasletInv
<1>2. ex'[e].id = ex[e].id /\ ex'[e].at = a /\ ex'[e].rv = v /\ \A d \in Faaslets : d # e => ex'[d] = ex[d]
  BY DEF Goes
<1> QED
  BY <1>1, <1>2 DEF IInv, FaasletInv, Ids

LEMMA FaasletInvNext == IInv /\ [Next]_vars => FaasletInv'
<1> SUFFICES ASSUME IInv, [Next]_vars PROVE FaasletInv'
  OBVIOUS
<1>1. ASSUME NEW c \in Clients, ExecuteFunction(c) PROVE FaasletInv'
  <2>1. CallFunction(NoCall)
    BY <1>1 DEF ExecuteFunction
  <2>2. ex' = ex
    BY <1>1 DEF ExecuteFunction
  <2> QED
    BY <2>1, <2>2, NewFacts DEF IInv, FaasletInv, Ids
<1>2. ASSUME NEW c \in Clients, GetFunctionResult(c) PROVE FaasletInv'
  BY <1>2 DEF GetFunctionResult, IInv, FaasletInv, Ids
<1>3. ASSUME NEW c \in Clients, NoResponse(c) PROVE FaasletInv'
  BY <1>3 DEF NoResponse, IInv, FaasletInv, Ids
<1>4. ASSUME NEW i \in Ids, GetMessageStatus(i) PROVE FaasletInv'
  BY <1>4 DEF GetMessageStatus, IInv, FaasletInv, Ids
<1>5. ASSUME NEW i \in Ids, ResultExpires(i) PROVE FaasletInv'
  BY <1>5 DEF ResultExpires, IInv, FaasletInv, Ids
<1>6. ASSUME NEW i \in Ids, GraphExpires(i) PROVE FaasletInv'
  BY <1>6 DEF GraphExpires, IInv, FaasletInv, Ids
<1>7. ASSUME NEW e \in Faaslets, TakeCall(e) PROVE FaasletInv'
  <2>1. call' = call /\ queue # <<>> /\ queue' = Tail(queue)
    BY <1>7 DEF TakeCall
  <2>2. 1 \in DOMAIN queue /\ \A k \in DOMAIN queue' : k + 1 # 1 /\ k + 1 \in DOMAIN queue /\ queue'[k] = queue[k + 1]
    BY <2>1, TakeFacts
  <2>3. /\ queue[1] \in Ids /\ call[queue[1]].rv = Running
        /\ \A d \in Faaslets : ex[d].at # "free" => ex[d].id # queue[1]
        /\ \A k \in DOMAIN queue' : queue'[k] # queue[1]
    BY <2>2 DEF IInv, QueueInv, FaasletInv
  <2>4. ex'[e].id = queue[1] /\ ex'[e].at = "run" /\ \A d \in Faaslets : d # e => ex'[d] = ex[d]
    BY <1>7, TakeGoes
  <2>5. \A d \in Faaslets : ex[d].at # "free" => \A k \in DOMAIN queue' : queue'[k] # ex[d].id
    BY <2>2 DEF IInv, FaasletInv
  <2> QED
    BY <2>1, <2>3, <2>4, <2>5 DEF IInv, FaasletInv, Ids
<1>8. ASSUME NEW e \in Faaslets, ChainFunction(e) PROVE FaasletInv'
  <2>1. Goes(e, "log", Len(call) + 1, ex[e].rv) /\ ex[e].at = "run" /\ CallFunction(ex[e].id) /\ ex[e].id \in Id
    BY <1>8, ChainGoes
  <2>2. /\ ex'[e].id = ex[e].id /\ ex'[e].at = "log" /\ \A d \in Faaslets : d # e => ex'[d] = ex[d]
    BY <2>1 DEF Goes
  <2>3. \A d \in Faaslets : ex'[d].at # "free" => ex[d].at # "free" /\ ex'[d].id = ex[d].id
    BY <2>1, <2>2
  <2>4. \A d \in Faaslets : ex'[d].at # "free" =>
          ex[d].id \in Ids /\ call'[ex[d].id] = call[ex[d].id] /\ \A k \in DOMAIN queue' : queue'[k] # ex[d].id
    BY <2>1, <2>3, NewFacts DEF IInv, FaasletInv
  <2>5. Ids \subseteq DOMAIN call'
    BY <2>1, NewFacts
  <2> QED
    BY <2>1, <2>2, <2>3, <2>4, <2>5 DEF IInv, FaasletInv, Ids
<1>9. ASSUME NEW e \in Faaslets, LogChainedFunction(e) PROVE FaasletInv'
  <2>1. call' = call /\ queue' = queue
    BY <1>9 DEF LogChainedFunction
  <2> QED
    BY <1>9, <2>1, LogGoes, GoesOn
<1>10. ASSUME NEW e \in Faaslets, AwaitChainedCall(e) PROVE FaasletInv'
  <2>1. call' = call /\ queue' = queue
    BY <1>10 DEF AwaitChainedCall, AwaitCall
  <2> QED
    BY <1>10, <2>1, AwaitGoes, GoesOn
<1>11. ASSUME NEW e \in Faaslets, GotChainedResult(e) PROVE FaasletInv'
  <2>1. call' = call /\ queue' = queue
    BY <1>11 DEF GotChainedResult
  <2> QED
    BY <1>11, <2>1, GotGoes, GoesOn
<1>12. ASSUME NEW e \in Faaslets, AwaitTimesOut(e) PROVE FaasletInv'
  <2>1. call' = call /\ queue' = queue
    BY <1>12 DEF AwaitTimesOut
  <2> QED
    BY <1>12, <2>1, TimeoutGoes, GoesOn
<1>13. ASSUME NEW e \in Faaslets, ExecuteCall(e) PROVE FaasletInv'
  <2>1. call' = call /\ queue' = queue
    BY <1>13 DEF ExecuteCall
  <2> QED
    BY <1>13, <2>1, ExecuteGoes, GoesOn
<1>14. ASSUME NEW e \in Faaslets, PublishResult(e) PROVE FaasletInv'
  <2>1. queue' = queue /\ ex[e].at = "push" /\ ex[e].rv \in {0, 1}
    BY <1>14, PublishGoes, PublishFacts DEF PublishResult
  <2>2. ex'[e].id = ex[e].id /\ ex'[e].at = "status" /\ ex'[e].rv = ex[e].rv /\ \A d \in Faaslets : d # e => ex'[d] = ex[d]
    BY <1>14, PublishGoes DEF Goes
  <2>3. DOMAIN call' = Ids /\ \A j \in Ids : j # ex[e].id => call'[j] = call[j]
    BY <1>14, PublishFacts
  <2> QED
    BY <2>1, <2>2, <2>3 DEF IInv, FaasletInv, Ids
<1>15. ASSUME NEW e \in Faaslets, SetStatus(e) PROVE FaasletInv'
  <2>1. call' = call /\ queue' = queue
    BY <1>15 DEF SetStatus
  <2>2. ex'[e].at = "free" /\ \A d \in Faaslets : d # e => ex'[d] = ex[d]
    BY <1>15, FreeGoes DEF Freed, Free
  <2> QED
    BY <2>1, <2>2 DEF IInv, FaasletInv, Ids
<1>16. ASSUME NEW e \in Faaslets, Dies(e) PROVE FaasletInv'
  <2>1. call' = call /\ queue' = queue
    BY <1>16 DEF Dies
  <2>2. ex'[e].at = "free" /\ \A d \in Faaslets : d # e => ex'[d] = ex[d]
    BY <1>16, FreeGoes DEF Freed, Free
  <2> QED
    BY <2>1, <2>2 DEF IInv, FaasletInv, Ids
<1>17. CASE UNCHANGED vars
  BY <1>17 DEF vars, redis, IInv, FaasletInv, Ids
<1> QED
  BY <1>1, <1>2, <1>3, <1>4, <1>5, <1>6, <1>7, <1>8, <1>9, <1>10, <1>11, <1>12, <1>13, <1>14, <1>15, <1>16, <1>17
  DEF Next, Endpoint, Executes

(* Who takes a result that was published leaves it accounted for. *)
LEMMA PopAccounted ==
  ASSUME IInv, NEW i \in Id, HasResult(i), DequeueBytes(i), call' = call, gone' = gone
  PROVE  ResultInv'
<1>1. i \in Ids /\ call[i].rv \in {0, 1} /\ i \notin gone /\ taken' = taken \cup {i}
  BY PopFacts
<1>2. \A j \in Id : list'[j] = IF j = i THEN <<>> ELSE list[j]
  BY PopFacts DEF IInv, TypeOK
<1> QED
  BY <1>1, <1>2 DEF IInv, ResultInv, Unpublished, Published, Ids

LEMMA ResultInvNext == IInv /\ [Next]_vars => ResultInv'
<1> SUFFICES ASSUME IInv, [Next]_vars PROVE ResultInv'
  OBVIOUS
<1>1. ASSUME NEW c \in Clients, ExecuteFunction(c) PROVE ResultInv'
  <2>1. CallFunction(NoCall)
    BY <1>1 DEF ExecuteFunction
  <2>2. UNCHANGED <<list, taken, gone>>
    BY <1>1 DEF ExecuteFunction, redis
  <2>3. DOMAIN call' = Ids \cup {Len(call) + 1} /\ call'[Len(call) + 1].rv = Running
        /\ Len(call) + 1 \notin Ids /\ \A i \in Ids : call'[i] = call[i]
    BY <2>1, NewFacts
  <2> QED
    BY <2>2, <2>3 DEF IInv, ResultInv, Unpublished, Published, Ids
<1>2. ASSUME NEW c \in Clients, GetFunctionResult(c) PROVE ResultInv'
  <2>1. client[c] \in Id /\ HasResult(client[c]) /\ DequeueBytes(client[c]) /\ call' = call /\ gone' = gone
    BY <1>2, OwnIds DEF GetFunctionResult, IInv, TypeOK, WaitInv, At
  <2> QED
    BY <2>1, PopAccounted
<1>3. ASSUME NEW c \in Clients, NoResponse(c) PROVE ResultInv'
  <2>1. UNCHANGED <<call, list, taken, gone>>
    BY <1>3 DEF NoResponse, redis
  <2> QED
    BY <2>1 DEF IInv, ResultInv, Unpublished, Published, Ids
<1>4. ASSUME NEW i \in Ids, GetMessageStatus(i) PROVE ResultInv'
  <2>1. CASE HasResult(i) /\ DequeueBytes(i)
    <3>1. i \in Id /\ call' = call /\ gone' = gone
      BY <1>4, IdsInId DEF GetMessageStatus
    <3> QED
      BY <2>1, <3>1, PopAccounted
  <2>2. CASE UNCHANGED <<list, taken>>
    <3>1. UNCHANGED <<call, gone>>
      BY <1>4 DEF GetMessageStatus
    <3> QED
      BY <2>2, <3>1 DEF IInv, ResultInv, Unpublished, Published, Ids
  <2> QED
    BY <1>4, <2>1, <2>2 DEF GetMessageStatus
<1>5. ASSUME NEW i \in Ids, ResultExpires(i) PROVE ResultInv'
  <2>1. i \in Id /\ call' = call /\ taken' = taken /\ gone' = gone \cup {i} /\ list[i] # <<>>
    BY <1>5, IdsInId DEF ResultExpires, HasResult
  <2>2. \A j \in Id : list'[j] = IF j = i THEN <<>> ELSE list[j]
    BY <1>5 DEF ResultExpires, IInv, TypeOK
  <2> QED
    BY <2>1, <2>2 DEF IInv, ResultInv, Unpublished, Published, Ids
<1>6. ASSUME NEW i \in Ids, GraphExpires(i) PROVE ResultInv'
  <2>1. UNCHANGED <<call, list, taken, gone>>
    BY <1>6 DEF GraphExpires, redis
  <2> QED
    BY <2>1 DEF IInv, ResultInv, Unpublished, Published, Ids
<1>7. ASSUME NEW e \in Faaslets, TakeCall(e) PROVE ResultInv'
  <2>1. UNCHANGED <<call, list, taken, gone>>
    BY <1>7 DEF TakeCall, redis
  <2> QED
    BY <2>1 DEF IInv, ResultInv, Unpublished, Published, Ids
<1>8. ASSUME NEW e \in Faaslets, ChainFunction(e) PROVE ResultInv'
  <2>1. Goes(e, "log", Len(call) + 1, ex[e].rv) /\ ex[e].at = "run" /\ CallFunction(ex[e].id) /\ ex[e].id \in Id
    BY <1>8, ChainGoes
  <2>2. UNCHANGED <<list, taken, gone>>
    BY <1>8 DEF ChainFunction, MakeChainedCall, redis
  <2>3. DOMAIN call' = Ids \cup {Len(call) + 1} /\ call'[Len(call) + 1].rv = Running
        /\ Len(call) + 1 \notin Ids /\ \A i \in Ids : call'[i] = call[i]
    BY <2>1, NewFacts
  <2> QED
    BY <2>2, <2>3 DEF IInv, ResultInv, Unpublished, Published, Ids
<1>9. ASSUME NEW e \in Faaslets, LogChainedFunction(e) PROVE ResultInv'
  <2>1. UNCHANGED <<call, list, taken, gone>>
    BY <1>9 DEF LogChainedFunction, redis
  <2> QED
    BY <2>1 DEF IInv, ResultInv, Unpublished, Published, Ids
<1>10. ASSUME NEW e \in Faaslets, AwaitChainedCall(e) PROVE ResultInv'
  <2>1. UNCHANGED <<call, list, taken, gone>>
    BY <1>10 DEF AwaitChainedCall, AwaitCall, redis
  <2> QED
    BY <2>1 DEF IInv, ResultInv, Unpublished, Published, Ids
<1>11. ASSUME NEW e \in Faaslets, GotChainedResult(e) PROVE ResultInv'
  <2>1. ex[e].target \in Ids
    BY <1>11, GotGoes DEF IInv, WaitInv
  <2>2. ex[e].target \in Id /\ HasResult(ex[e].target) /\ DequeueBytes(ex[e].target) /\ call' = call /\ gone' = gone
    BY <1>11, <2>1, IdsInId DEF GotChainedResult, IInv, TypeOK, WaitInv, At
  <2> QED
    BY <2>2, PopAccounted
<1>12. ASSUME NEW e \in Faaslets, AwaitTimesOut(e) PROVE ResultInv'
  <2>1. UNCHANGED <<call, list, taken, gone>>
    BY <1>12 DEF AwaitTimesOut, redis
  <2> QED
    BY <2>1 DEF IInv, ResultInv, Unpublished, Published, Ids
<1>13. ASSUME NEW e \in Faaslets, ExecuteCall(e) PROVE ResultInv'
  <2>1. UNCHANGED <<call, list, taken, gone>>
    BY <1>13 DEF ExecuteCall, redis
  <2> QED
    BY <2>1 DEF IInv, ResultInv, Unpublished, Published, Ids
<1>14. ASSUME NEW e \in Faaslets, PublishResult(e) PROVE ResultInv'
  <2>1. taken' = taken /\ gone' = gone
    BY <1>14 DEF PublishResult
  <2>2. \A j \in Id : list'[j] = IF j = ex[e].id THEN <<ex[e].rv>> ELSE list[j]
    BY <1>14, PublishFacts DEF IInv, TypeOK
  <2>3. DOMAIN call' = Ids /\ call'[ex[e].id].rv = ex[e].rv /\ \A j \in Ids : j # ex[e].id => call'[j] = call[j]
    BY <1>14, PublishFacts
  <2>4. ex[e].id \in Ids /\ ex[e].rv \in {0, 1} /\ ex[e].id \notin taken /\ ex[e].id \notin gone
    BY <1>14, PublishFacts
  <2> QED
    BY <2>1, <2>2, <2>3, <2>4 DEF IInv, ResultInv, Unpublished, Published, Ids
<1>15. ASSUME NEW e \in Faaslets, SetStatus(e) PROVE ResultInv'
  <2>1. UNCHANGED <<call, list, taken, gone>>
    BY <1>15 DEF SetStatus, redis
  <2> QED
    BY <2>1 DEF IInv, ResultInv, Unpublished, Published, Ids
<1>16. ASSUME NEW e \in Faaslets, Dies(e) PROVE ResultInv'
  <2>1. UNCHANGED <<call, list, taken, gone>>
    BY <1>16 DEF Dies, redis
  <2> QED
    BY <2>1 DEF IInv, ResultInv, Unpublished, Published, Ids
<1>17. CASE UNCHANGED vars
  BY <1>17 DEF vars, redis, IInv, ResultInv, Unpublished, Published, Ids
<1> QED
  BY <1>1, <1>2, <1>3, <1>4, <1>5, <1>6, <1>7, <1>8, <1>9, <1>10, <1>11, <1>12, <1>13, <1>14, <1>15, <1>16, <1>17
  DEF Next, Endpoint, Executes

(* The answer a step gives. *)
LEMMA ToldTypes ==
  /\ \A i \in Id \cup {NoCall}, a \in Answers : Answer(i, a) => told' \in [id : Id \cup {NoCall}, answer : Answers]
  /\ Quiet => told' \in [id : Id \cup {NoCall}, answer : Answers]
  /\ \A r : Outcome(r) \in Answers
<1>1. \A i \in Id \cup {NoCall}, a \in Answers : Answer(i, a) => told' \in [id : Id \cup {NoCall}, answer : Answers]
  BY DEF Answer
<1>2. Quiet => told' \in [id : Id \cup {NoCall}, answer : Answers]
  BY DEF Quiet, Silent, Answers
<1>3. ASSUME NEW r PROVE Outcome(r) \in Answers
  BY DEF Outcome, Answers
<1> QED
  BY <1>1, <1>2, <1>3

LEMMA PopTypes ==
  ASSUME IInv, NEW i \in Id, HasResult(i), DequeueBytes(i)
  PROVE  list' \in [Id -> Seq({0, 1})] /\ taken' \subseteq Id
<1>1. <<>> \in Seq({0, 1})
  OBVIOUS
<1>2. list' = [list EXCEPT ![i] = <<>>] /\ taken' = taken \cup {i}
  BY PopFacts
<1> QED
  BY <1>1, <1>2 DEF IInv, TypeOK

LEMMA TypeOKNext == IInv /\ [Next]_vars => TypeOK'
<1> SUFFICES ASSUME IInv, [Next]_vars PROVE TypeOK'
  OBVIOUS
<1>1. ASSUME NEW c \in Clients, ExecuteFunction(c) PROVE TypeOK'
  <2>1. CallFunction(NoCall)
    BY <1>1 DEF ExecuteFunction
  <2>2. Len(call) + 1 \in Id
    BY <2>1, NewFacts
  <2>3. call' \in Seq(Call) /\ Len(call') <= MaxCalls /\ queue' \in Seq(Id)
    BY <2>1, NewFacts
  <2>4. client' \in [Clients -> Id \cup {NoCall}]
    BY <1>1, <2>2 DEF ExecuteFunction, IInv, TypeOK
  <2>5. told' \in [id : Id \cup {NoCall}, answer : Answers]
    BY <1>1, <2>2, ToldTypes DEF ExecuteFunction, Answers
  <2>6. UNCHANGED <<style, ex, list, status, chained, taken, gone, forgotten, lost>>
    BY <1>1 DEF ExecuteFunction, redis
  <2> QED
    BY <2>1, <2>2, <2>3, <2>4, <2>5, <2>6 DEF IInv, TypeOK
<1>2. ASSUME NEW c \in Clients, GetFunctionResult(c) PROVE TypeOK'
  <2>1. client[c] \in Id /\ HasResult(client[c]) /\ DequeueBytes(client[c])
    BY <1>2 DEF GetFunctionResult, IInv, TypeOK
  <2>2. list' \in [Id -> Seq({0, 1})] /\ taken' \subseteq Id
    BY <2>1, PopTypes
  <2>3. client' \in [Clients -> Id \cup {NoCall}]
    BY <1>2 DEF GetFunctionResult, IInv, TypeOK
  <2>4. told' \in [id : Id \cup {NoCall}, answer : Answers]
    BY <1>2, <2>1, ToldTypes DEF GetFunctionResult
  <2>5. UNCHANGED <<style, call, queue, ex, status, chained, gone, forgotten, lost>>
    BY <1>2 DEF GetFunctionResult, redis
  <2> QED
    BY <2>1, <2>2, <2>3, <2>4, <2>5 DEF IInv, TypeOK
<1>3. ASSUME NEW c \in Clients, NoResponse(c) PROVE TypeOK'
  <2>1. client' \in [Clients -> Id \cup {NoCall}]
    BY <1>3 DEF NoResponse, IInv, TypeOK
  <2>2. told' \in [id : Id \cup {NoCall}, answer : Answers]
    BY <1>3, ToldTypes DEF NoResponse, IInv, TypeOK, Answers
  <2>3. UNCHANGED <<style, call, queue, ex, list, status, chained, taken, gone, forgotten, lost>>
    BY <1>3 DEF NoResponse, redis
  <2> QED
    BY <2>1, <2>2, <2>3 DEF IInv, TypeOK
<1>4. ASSUME NEW i \in Ids, GetMessageStatus(i) PROVE TypeOK'
  <2>1. i \in Id
    BY <1>4, IdsInId
  <2>2. list' \in [Id -> Seq({0, 1})] /\ taken' \subseteq Id
    BY <1>4, <2>1, PopTypes DEF GetMessageStatus, IInv, TypeOK
  <2>3. told' \in [id : Id \cup {NoCall}, answer : Answers]
    BY <1>4, <2>1, ToldTypes DEF GetMessageStatus, Answers
  <2>4. UNCHANGED <<style, call, queue, client, ex, status, chained, gone, forgotten, lost>>
    BY <1>4 DEF GetMessageStatus, redis
  <2> QED
    BY <2>1, <2>2, <2>3, <2>4 DEF IInv, TypeOK
<1>5. ASSUME NEW i \in Ids, ResultExpires(i) PROVE TypeOK'
  <2>1. list' \in [Id -> Seq({0, 1})] /\ gone' \subseteq Id
    BY <1>5, IdsInId DEF ResultExpires, IInv, TypeOK
  <2>2. told' \in [id : Id \cup {NoCall}, answer : Answers]
    BY <1>5, ToldTypes DEF ResultExpires
  <2>3. UNCHANGED <<style, call, queue, client, ex, status, chained, taken, forgotten, lost>>
    BY <1>5 DEF ResultExpires, redis
  <2> QED
    BY <2>1, <2>2, <2>3 DEF IInv, TypeOK
<1>6. ASSUME NEW i \in Ids, GraphExpires(i) PROVE TypeOK'
  <2>1. i \in Id
    BY <1>6, IdsInId
  <2>2. status' \in [Id -> Value]
    BY <1>6, <2>1 DEF GraphExpires, IInv, TypeOK, Value
  <2>3. chained' \in [Id -> SUBSET Id] /\ forgotten' \subseteq Id
    BY <1>6, <2>1 DEF GraphExpires, IInv, TypeOK
  <2>4. told' \in [id : Id \cup {NoCall}, answer : Answers]
    BY <1>6, ToldTypes DEF GraphExpires
  <2>5. UNCHANGED <<style, call, queue, client, ex, list, taken, gone, lost>>
    BY <1>6 DEF GraphExpires, redis
  <2> QED
    BY <2>1, <2>2, <2>3, <2>4, <2>5 DEF IInv, TypeOK
<1>7. ASSUME NEW e \in Faaslets, TakeCall(e) PROVE TypeOK'
  <2>1. ex' \in [Faaslets -> Execution]
    BY <1>7, TakeGoes
  <2>2. queue' \in Seq(Id)
    BY <1>7, TakeFacts DEF TakeCall
  <2>3. told' \in [id : Id \cup {NoCall}, answer : Answers]
    BY <1>7, ToldTypes DEF TakeCall
  <2>4. UNCHANGED <<style, call, client, list, status, chained, taken, gone, forgotten, lost>>
    BY <1>7 DEF TakeCall, redis
  <2> QED
    BY <2>1, <2>2, <2>3, <2>4 DEF IInv, TypeOK
<1>8. ASSUME NEW e \in Faaslets, ChainFunction(e) PROVE TypeOK'
  <2>1. Goes(e, "log", Len(call) + 1, ex[e].rv) /\ ex[e].at = "run" /\ CallFunction(ex[e].id) /\ ex[e].id \in Id
    BY <1>8, ChainGoes
  <2>2. call' \in Seq(Call) /\ Len(call') <= MaxCalls /\ queue' \in Seq(Id)
    BY <2>1, NewFacts
  <2>3. ex' \in [Faaslets -> Execution]
    BY <2>1 DEF Goes
  <2>4. told' \in [id : Id \cup {NoCall}, answer : Answers]
    BY <1>8, ToldTypes DEF ChainFunction, MakeChainedCall
  <2>5. UNCHANGED <<style, client, list, status, chained, taken, gone, forgotten, lost>>
    BY <1>8 DEF ChainFunction, MakeChainedCall, redis
  <2> QED
    BY <2>1, <2>2, <2>3, <2>4, <2>5 DEF IInv, TypeOK
<1>9. ASSUME NEW e \in Faaslets, LogChainedFunction(e) PROVE TypeOK'
  <2>1. ex' \in [Faaslets -> Execution]
    BY <1>9, LogGoes DEF Goes
  <2>2. ex[e].id \in Id /\ ex[e].target \in Id
    BY <1>9, LogGoes, IdsInId DEF IInv, FaasletInv, WaitInv
  <2>3. chained' \in [Id -> SUBSET Id]
    BY <1>9, <2>2 DEF LogChainedFunction, ParentOf, IInv, TypeOK
  <2>4. told' \in [id : Id \cup {NoCall}, answer : Answers]
    BY <1>9, ToldTypes DEF LogChainedFunction
  <2>5. UNCHANGED <<style, call, queue, client, list, status, taken, gone, forgotten, lost>>
    BY <1>9 DEF LogChainedFunction, redis
  <2> QED
    BY <2>1, <2>2, <2>3, <2>4, <2>5 DEF IInv, TypeOK
<1>10. ASSUME NEW e \in Faaslets, AwaitChainedCall(e) PROVE TypeOK'
  <2>1. ex' \in [Faaslets -> Execution]
    BY <1>10, AwaitGoes DEF Goes
  <2>2. told' \in [id : Id \cup {NoCall}, answer : Answers]
    BY <1>10, ToldTypes DEF AwaitChainedCall, AwaitCall
  <2>3. UNCHANGED <<style, call, queue, client, list, status, chained, taken, gone, forgotten, lost>>
    BY <1>10 DEF AwaitChainedCall, AwaitCall, redis
  <2> QED
    BY <2>1, <2>2, <2>3 DEF IInv, TypeOK
<1>11. ASSUME NEW e \in Faaslets, GotChainedResult(e) PROVE TypeOK'
  <2>1. ex' \in [Faaslets -> Execution]
    BY <1>11, GotGoes DEF Goes
  <2>2. ex[e].target \in Id
    BY <1>11, GotGoes, IdsInId DEF IInv, WaitInv
  <2>3. HasResult(ex[e].target) /\ DequeueBytes(ex[e].target)
    BY <1>11 DEF GotChainedResult
  <2>4. list' \in [Id -> Seq({0, 1})] /\ taken' \subseteq Id
    BY <2>2, <2>3, PopTypes
  <2>5. told' \in [id : Id \cup {NoCall}, answer : Answers]
    BY <1>11, <2>2, ToldTypes DEF GotChainedResult
  <2>6. UNCHANGED <<style, call, queue, client, status, chained, gone, forgotten, lost>>
    BY <1>11 DEF GotChainedResult, redis
  <2> QED
    BY <2>1, <2>2, <2>3, <2>4, <2>5, <2>6 DEF IInv, TypeOK
<1>12. ASSUME NEW e \in Faaslets, AwaitTimesOut(e) PROVE TypeOK'
  <2>1. ex' \in [Faaslets -> Execution]
    BY <1>12, TimeoutGoes DEF Goes
  <2>2. ex[e].target \in Id
    BY <1>12, TimeoutGoes, IdsInId DEF IInv, WaitInv
  <2>3. told' \in [id : Id \cup {NoCall}, answer : Answers]
    BY <1>12, <2>2, ToldTypes DEF AwaitTimesOut, Answers
  <2>4. UNCHANGED <<style, call, queue, client, list, status, chained, taken, gone, forgotten, lost>>
    BY <1>12 DEF AwaitTimesOut, redis
  <2> QED
    BY <2>1, <2>2, <2>3, <2>4 DEF IInv, TypeOK
<1>13. ASSUME NEW e \in Faaslets, ExecuteCall(e) PROVE TypeOK'
  <2>1. ex' \in [Faaslets -> Execution]
    BY <1>13, ExecuteGoes DEF Goes
  <2>2. told' \in [id : Id \cup {NoCall}, answer : Answers]
    BY <1>13, ToldTypes DEF ExecuteCall
  <2>3. UNCHANGED <<style, call, queue, client, list, status, chained, taken, gone, forgotten, lost>>
    BY <1>13 DEF ExecuteCall, redis
  <2> QED
    BY <2>1, <2>2, <2>3 DEF IInv, TypeOK
<1>14. ASSUME NEW e \in Faaslets, PublishResult(e) PROVE TypeOK'
  <2>1. ex' \in [Faaslets -> Execution]
    BY <1>14, PublishGoes DEF Goes
  <2>2. call' \in Seq(Call) /\ Len(call') <= MaxCalls
    BY <1>14, PublishFacts
  <2>3. <<ex[e].rv>> \in Seq({0, 1}) /\ list' = [list EXCEPT ![ex[e].id] = <<ex[e].rv>>]
    BY <1>14, PublishFacts
  <2>4. list' \in [Id -> Seq({0, 1})]
    BY <2>3 DEF IInv, TypeOK
  <2>5. told' \in [id : Id \cup {NoCall}, answer : Answers]
    BY <1>14, ToldTypes DEF PublishResult
  <2>6. UNCHANGED <<style, queue, client, status, chained, taken, gone, forgotten, lost>>
    BY <1>14 DEF PublishResult, redis
  <2> QED
    BY <2>1, <2>2, <2>3, <2>4, <2>5, <2>6 DEF IInv, TypeOK
<1>15. ASSUME NEW e \in Faaslets, SetStatus(e) PROVE TypeOK'
  <2>1. ex' \in [Faaslets -> Execution]
    BY <1>15, FreeGoes DEF Freed
  <2>2. ex[e].rv \in Value
    BY ExTypes DEF Execution
  <2>3. status' \in [Id -> Value]
    BY <1>15, <2>2 DEF SetStatus, StatusKey, IInv, TypeOK
  <2>4. told' \in [id : Id \cup {NoCall}, answer : Answers]
    BY <1>15, ToldTypes DEF SetStatus
  <2>5. UNCHANGED <<style, call, queue, client, list, chained, taken, gone, forgotten, lost>>
    BY <1>15 DEF SetStatus, redis
  <2> QED
    BY <2>1, <2>2, <2>3, <2>4, <2>5 DEF IInv, TypeOK
<1>16. ASSUME NEW e \in Faaslets, Dies(e) PROVE TypeOK'
  <2>1. ex' \in [Faaslets -> Execution]
    BY <1>16, FreeGoes DEF Freed
  <2>2. ex[e].id \in Id
    BY <1>16, FreeGoes, IdsInId DEF IInv, FaasletInv
  <2>3. lost' \subseteq Id
    BY <1>16, <2>2 DEF Dies, IInv, TypeOK
  <2>4. told' \in [id : Id \cup {NoCall}, answer : Answers]
    BY <1>16, ToldTypes DEF Dies
  <2>5. UNCHANGED <<style, call, queue, client, list, status, chained, taken, gone, forgotten>>
    BY <1>16 DEF Dies, redis
  <2> QED
    BY <2>1, <2>2, <2>3, <2>4, <2>5 DEF IInv, TypeOK
<1>17. CASE UNCHANGED vars
  BY <1>17 DEF vars, redis, IInv, TypeOK
<1> QED
  BY <1>1, <1>2, <1>3, <1>4, <1>5, <1>6, <1>7, <1>8, <1>9, <1>10, <1>11, <1>12, <1>13, <1>14, <1>15, <1>16, <1>17
  DEF Next, Endpoint, Executes

-----------------------------------------------------------------------------
LEMMA IInvInit == Init => IInv
<1> SUFFICES ASSUME Init PROVE IInv
  OBVIOUS
<1>1. call = <<>> /\ Ids = {} /\ queue = <<>> /\ DOMAIN queue = {}
  BY DEF Init, Ids
<1>2. TypeOK
  <2>1. call \in Seq(Call) /\ Len(call) <= MaxCalls /\ queue \in Seq(Id)
    BY <1>1, CallsAssumption
  <2>2. ex \in [Faaslets -> Execution]
    BY CallsAssumption DEF Init, Free, Execution, Places, Value, Running
  <2>3. told \in [id : Id \cup {NoCall}, answer : Answers]
    BY DEF Init, Silent, Answers
  <2> QED
    BY <2>1, <2>2, <2>3 DEF Init, TypeOK, Value, Id
<1>3. QueueInv /\ FaasletInv /\ WaitInv
  BY <1>1 DEF Init, QueueInv, FaasletInv, WaitInv, Free
<1>4. ResultInv
  BY <1>1 DEF Init, ResultInv, Unpublished, Id
<1> QED
  BY <1>2, <1>3, <1>4 DEF IInv

LEMMA IInvNext == IInv /\ [Next]_vars => IInv'
  BY TypeOKNext, QueueInvNext, FaasletInvNext, WaitInvNext, ResultInvNext DEF IInv

(* What is known of every call, wherever it is: no two Faaslets have it,   *)
(* its result exists once it has one, and who waits for it knows its id.   *)
(* (callFunctions, setFunctionResult, getFunctionResult)                   *)
THEOREM CallsInvariant == Spec => []IInv
<1>1. Init => IInv
  BY IInvInit
<1>2. IInv /\ [Next]_vars => IInv'
  BY IInvNext
<1> QED
  BY <1>1, <1>2, PTL DEF Spec

(* Every variable has its type; in particular whoever waits, notes or      *)
(* publishes does so for a call that exists.                               *)
THEOREM CallsTypes == Spec => []TypeOK
<1>1. IInv => TypeOK
  BY DEF IInv
<1> QED
  BY <1>1, CallsInvariant, PTL

(* No result is lost, doubled or taken by two: it waits in Redis, or was   *)
(* taken once, or expired, for any number of calls, clients and Faaslets.  *)
(* (setFunctionResult, getFunctionResult, getMessageStatus)                *)
THEOREM NoResultLost == Spec => []ResultAccounted
<1>1. IInv => ResultAccounted
  <2> SUFFICES ASSUME IInv, NEW i \in Ids
               PROVE  Len(list[i]) + (IF i \in taken THEN 1 ELSE 0) + (IF i \in gone THEN 1 ELSE 0)
                      = IF call[i].rv # Running THEN 1 ELSE 0
    BY DEF ResultAccounted
  <2>1. i \in Id
    BY IdsInId
  <2>2. Len(<<>>) = 0 /\ \A r : Len(<<r>>) = 1
    OBVIOUS
  <2>3. CASE Unpublished(i)
    BY <2>2, <2>3 DEF Unpublished
  <2>4. CASE Published(i)
    <3>1. call[i].rv # Running
      BY <2>4 DEF Published, Running
    <3>2. \/ Len(list[i]) = 1 /\ i \notin taken /\ i \notin gone
          \/ Len(list[i]) = 0 /\ i \in taken /\ i \notin gone
          \/ Len(list[i]) = 0 /\ i \notin taken /\ i \in gone
      BY <2>2, <2>4 DEF Published
    <3>3. Len(list[i]) + (IF i \in taken THEN 1 ELSE 0) + (IF i \in gone THEN 1 ELSE 0) = 1
      <4>1. CASE Len(list[i]) = 1 /\ i \notin taken /\ i \notin gone
        BY <4>1
      <4>2. CASE Len(list[i]) = 0 /\ i \in taken /\ i \notin gone
        BY <4>2
      <4>3. CASE Len(list[i]) = 0 /\ i \notin taken /\ i \in gone
        BY <4>3
      <4> QED
        BY <3>2, <4>1, <4>2, <4>3
    <3> QED
      BY <3>1, <3>3
  <2> QED
    BY <2>1, <2>3, <2>4 DEF IInv, ResultInv
<1> QED
  BY <1>1, CallsInvariant, PTL

(* Whoever takes a result is told what the call returned. *)
LEMMA PopTells ==
  ASSUME IInv, NEW i \in Id, HasResult(i), DequeueBytes(i), call' = call, Answer(i, Outcome(Head(list[i])))
  PROVE  IsTrue(told')
<1>1. told'.id = i /\ told'.answer = Outcome(call[i].rv) /\ told'.answer \in {"SUCCESS", "FAILED"}
  BY PopFacts DEF Answer, Outcome
<1> QED
  BY <1>1 DEF IsTrue

LEMMA QuietTells == Quiet => IsTrue(told')
  BY DEF Quiet, Silent, IsTrue

LEMMA StepTells == IInv /\ Next => IsTrue(told')
<1> SUFFICES ASSUME IInv, Next PROVE IsTrue(told')
  OBVIOUS
<1>1. ASSUME NEW c \in Clients, ExecuteFunction(c) PROVE IsTrue(told')
  BY <1>1, QuietTells DEF ExecuteFunction, Answer, IsTrue
<1>2. ASSUME NEW c \in Clients, GetFunctionResult(c) PROVE IsTrue(told')
  <2>1. client[c] \in Id
    BY <1>2 DEF GetFunctionResult, IInv, TypeOK
  <2> QED
    BY <1>2, <2>1, PopTells DEF GetFunctionResult
<1>3. ASSUME NEW c \in Clients, NoResponse(c) PROVE IsTrue(told')
  BY <1>3 DEF NoResponse, Answer, IsTrue
<1>4. ASSUME NEW i \in Ids, GetMessageStatus(i) PROVE IsTrue(told')
  <2>1. i \in Id /\ call' = call /\ gone' = gone
    BY <1>4, IdsInId DEF GetMessageStatus
  <2>2. CASE HasResult(i) /\ DequeueBytes(i) /\ Answer(i, Outcome(Head(list[i])))
    BY <2>1, <2>2, PopTells
  <2>3. CASE ~HasResult(i) /\ Answer(i, "RUNNING") /\ UNCHANGED <<list, taken>>
    <3>1. call[i].rv = Running \/ i \in taken \cup gone
      BY <2>1, <2>3 DEF IInv, ResultInv, Unpublished, Published, HasResult
    <3>2. told'.id = i /\ told'.answer = "RUNNING"
      BY <2>3 DEF Answer
    <3> QED
      BY <2>1, <2>3, <3>1, <3>2 DEF IsTrue
  <2> QED
    BY <1>4, <2>2, <2>3 DEF GetMessageStatus
<1>5. ASSUME NEW e \in Faaslets, GotChainedResult(e) PROVE IsTrue(told')
  <2>1. ex[e].target \in Id
    BY <1>5, GotGoes, IdsInId DEF IInv, WaitInv
  <2> QED
    BY <1>5, <2>1, PopTells DEF GotChainedResult
<1>6. ASSUME NEW e \in Faaslets, AwaitTimesOut(e) PROVE IsTrue(told')
  BY <1>6 DEF AwaitTimesOut, Answer, IsTrue
<1>7. CASE Quiet
  BY <1>7, QuietTells
<1>8. ASSUME NEW i \in Ids, ResultExpires(i) \/ GraphExpires(i) PROVE Quiet
  BY <1>8 DEF ResultExpires, GraphExpires
<1>9. ASSUME NEW e \in Faaslets,
             \/ TakeCall(e) \/ ChainFunction(e) \/ LogChainedFunction(e) \/ AwaitChainedCall(e)
             \/ ExecuteCall(e) \/ PublishResult(e) \/ SetStatus(e) \/ Dies(e)
      PROVE  Quiet
  BY <1>9 DEF TakeCall, ChainFunction, MakeChainedCall, LogChainedFunction, AwaitChainedCall, AwaitCall,
              ExecuteCall, PublishResult, SetStatus, Dies
<1> QED
  BY <1>1, <1>2, <1>3, <1>4, <1>5, <1>6, <1>7, <1>8, <1>9 DEF Next, Endpoint, Executes

(* What a client, a status query or a function is told is true, whoever    *)
(* else takes results at the same time.  (getFunctionResult,               *)
(* getMessageStatus, awaitChainedCall)                                     *)
THEOREM NoFalseAnswer == Spec => AnswersTrue
<1>1. IInv /\ [Next]_vars => [IsTrue(told')]_vars
  BY StepTells
<1> QED
  BY <1>1, CallsInvariant, PTL DEF Spec, AnswersTrue


-----------------------------------------------------------------------------
(* What a call has chained is in its graph, but for the one that its       *)
(* Faaslet is about to note.                                               *)
ChainInv ==
  /\ \A i \in Id : \A j \in chained[i] : j \in Ids /\ call[j].parent = i
  /\ \A j \in Ids : call[j].parent # NoCall =>
       \/ j \in chained[call[j].parent]
       \/ call[j].parent \in forgotten \cup lost
       \/ \E e \in Faaslets : ex[e].at = "log" /\ ex[e].id = call[j].parent /\ ex[e].target = j
  /\ \A e \in Faaslets : ex[e].at = "log" => call[ex[e].target].parent = ex[e].id

(* The status of a call says what it returned, once it is over. *)
StatusInv ==
  /\ \A i \in Id : status[i] # Running => i \in Ids /\ call[i].rv = status[i]
  /\ \A k \in DOMAIN queue : status[queue[k]] = Running
  /\ \A e \in Faaslets :
       /\ ex[e].at # "free" => status[ex[e].id] = Running
       /\ ex[e].at = "status" => call[ex[e].id].rv = ex[e].rv


GraphInv == IInv /\ ChainInv /\ StatusInv

(* A call keeps its parent, and a new one has the call that chained it.    *)
LEMMA NewParent ==
  ASSUME IInv, NEW p \in Id \cup {NoCall}, CallFunction(p)
  PROVE  call'[Len(call) + 1].parent = p /\ \A j \in Ids : call'[j].parent = call[j].parent
<1>1. call \in Seq(Call)
  BY DEF IInv, TypeOK
<1>2. call' = Append(call, [parent |-> p, rv |-> Running])
  BY DEF CallFunction, NewCall
<1>3. call'[Len(call) + 1] = [parent |-> p, rv |-> Running]
  BY <1>1, <1>2
<1> QED
  BY <1>3, NewFacts

LEMMA PublishParent ==
  ASSUME IInv, NEW e \in Faaslets, PublishResult(e)
  PROVE  \A j \in Ids : call'[j].parent = call[j].parent
<1>1. call \in Seq(Call) /\ DOMAIN call = Ids
  BY DEF IInv, TypeOK, Ids
<1>2. call' = [call EXCEPT ![ex[e].id].rv = ex[e].rv]
  BY DEF PublishResult
<1>3. \A j \in Ids : call[j] \in Call
  BY <1>1
<1> QED
  BY <1>1, <1>2, <1>3 DEF Call

LEMMA ParentTypes ==
  ASSUME IInv, NEW j \in Ids, call[j].parent # NoCall
  PROVE  call[j].parent \in Id
<1>1. call \in Seq(Call) /\ j \in DOMAIN call
  BY DEF IInv, TypeOK, Ids
<1>2. call[j] \in Call
  BY <1>1
<1> QED
  BY <1>2 DEF Call

(* A Faaslet goes on that has no call to note, or dies with it. *)
LEMMA SameChains ==
  ASSUME IInv, ChainInv, DOMAIN call' = Ids, \A j \in Ids : call'[j].parent = call[j].parent,
         chained' = chained, forgotten' = forgotten, lost \subseteq lost', NEW e \in Faaslets,
         \A d \in Faaslets : d # e => ex'[d] = ex[d], ex'[e].at # "log",
         ex[e].at = "log" => ex[e].id \in lost'
  PROVE  ChainInv'
<1>1. ASSUME NEW i \in Id, NEW j \in chained'[i] PROVE j \in Ids' /\ call'[j].parent = i
  BY <1>1 DEF ChainInv, Ids
<1>2. ASSUME NEW j \in Ids', call'[j].parent # NoCall
      PROVE  \/ j \in chained'[call'[j].parent]
             \/ call'[j].parent \in forgotten' \cup lost'
             \/ \E d \in Faaslets : ex'[d].at = "log" /\ ex'[d].id = call'[j].parent /\ ex'[d].target = j
  <2>1. j \in Ids /\ call'[j].parent = call[j].parent
    BY DEF Ids
  <2> QED
    BY <1>2, <2>1 DEF ChainInv
<1>3. ASSUME NEW d \in Faaslets, ex'[d].at = "log" PROVE call'[ex'[d].target].parent = ex'[d].id
  <2>1. d # e /\ ex'[d] = ex[d] /\ ex[d].target \in Ids
    BY <1>3 DEF IInv, WaitInv
  <2> QED
    BY <1>3, <2>1 DEF ChainInv
<1> QED
  BY <1>1, <1>2, <1>3 DEF ChainInv

LEMMA ChainInvNext ==
  ASSUME IInv, ChainInv, [Next]_vars
  PROVE  ChainInv'
<1>1. ASSUME UNCHANGED <<call, ex, chained, forgotten, lost>> PROVE ChainInv'
  BY <1>1 DEF ChainInv, Ids
<1>2. ASSUME NEW c \in Clients, ExecuteFunction(c) PROVE ChainInv'
  <2>1. CallFunction(NoCall) /\ UNCHANGED <<ex, chained, forgotten, lost>>
    BY <1>2 DEF ExecuteFunction, redis
  <2>2. /\ DOMAIN call' = Ids \cup {Len(call) + 1} /\ call'[Len(call) + 1].parent = NoCall
        /\ \A j \in Ids : call'[j].parent = call[j].parent
    BY <2>1, NewFacts, NewParent
  <2>3. \A e \in Faaslets : ex[e].at = "log" => ex[e].target \in Ids
    BY DEF IInv, WaitInv
  <2> QED
    BY <2>1, <2>2, <2>3 DEF ChainInv, Ids
<1>3. ASSUME NEW e \in Faaslets, ChainFunction(e) PROVE ChainInv'
  <2> DEFINE n == Len(call) + 1
             p == ex[e].id
  <2>1. /\ Goes(e, "log", n, ex[e].rv) /\ ex[e].at = "run" /\ CallFunction(p) /\ p \in Id
        /\ UNCHANGED <<chained, forgotten, lost>>
    BY <1>3, ChainGoes DEF ChainFunction, MakeChainedCall, redis
  <2>2. /\ DOMAIN call' = Ids \cup {n} /\ call'[n].parent = p
        /\ \A j \in Ids : call'[j].parent = call[j].parent
    BY <2>1, NewFacts, NewParent
  <2>3. /\ ex'[e].at = "log" /\ ex'[e].id = p /\ ex'[e].target = n
        /\ \A d \in Faaslets : d # e => ex'[d] = ex[d]
    BY <2>1 DEF Goes
  <2>4. \A d \in Faaslets : ex[d].at = "log" => d # e /\ ex[d].target \in Ids
    BY <2>1 DEF IInv, WaitInv
  <2> HIDE DEF n, p
  <2>5. \A i \in Id : \A j \in chained'[i] : j \in Ids' /\ call'[j].parent = i
    BY <2>1, <2>2 DEF ChainInv, Ids
  <2>6. ASSUME NEW j \in Ids', call'[j].parent # NoCall
        PROVE  \/ j \in chained'[call'[j].parent]
               \/ call'[j].parent \in forgotten' \cup lost'
               \/ \E d \in Faaslets : ex'[d].at = "log" /\ ex'[d].id = call'[j].parent /\ ex'[d].target = j
    <3>1. CASE j \in Ids
      BY <2>1, <2>2, <2>3, <2>4, <2>6, <3>1 DEF ChainInv
    <3>2. CASE j = n
      BY <2>2, <2>3, <3>2
    <3> QED
      BY <2>2, <3>1, <3>2 DEF Ids
  <2>7. \A d \in Faaslets : ex'[d].at = "log" => call'[ex'[d].target].parent = ex'[d].id
    BY <2>2, <2>3, <2>4 DEF ChainInv
  <2> QED
    BY <2>5, <2>6, <2>7 DEF ChainInv
<1>4. ASSUME NEW e \in Faaslets, LogChainedFunction(e) PROVE ChainInv'
  <2> DEFINE p == ex[e].id
             t == ex[e].target
  <2>1. /\ ex[e].at = "log" /\ ex'[e].at = "run" /\ \A d \in Faaslets : d # e => ex'[d] = ex[d]
        /\ UNCHANGED <<call, forgotten, lost>>
    BY <1>4, LogGoes DEF LogChainedFunction, Goes
  <2>2. p \in Id /\ t \in Ids /\ call[t].parent = p
    BY <2>1, IdsInId DEF IInv, FaasletInv, WaitInv, ChainInv
  <2>3. \A i \in Id : chained'[i] = IF i = p THEN chained[i] \cup {t} ELSE chained[i]
    BY <1>4, <2>2 DEF LogChainedFunction, ParentOf, IInv, TypeOK
  <2> HIDE DEF p
  <2>4. ASSUME NEW i \in Id, NEW j \in chained'[i] PROVE j \in Ids' /\ call'[j].parent = i
    <3>1. j \in chained[i] \/ (i = p /\ j = t)
      BY <2>3
    <3> HIDE DEF t
    <3> QED
      BY <2>1, <2>2, <3>1 DEF ChainInv, Ids
  <2>5. ASSUME NEW j \in Ids', call'[j].parent # NoCall
        PROVE  \/ j \in chained'[call'[j].parent]
               \/ call'[j].parent \in forgotten' \cup lost'
               \/ \E d \in Faaslets : ex'[d].at = "log" /\ ex'[d].id = call'[j].parent /\ ex'[d].target = j
    <3>1. j \in Ids /\ call[j].parent # NoCall /\ call'[j].parent = call[j].parent
      BY <2>1, <2>5 DEF Ids
    <3>2. call[j].parent \in Id
      BY <3>1, ParentTypes
    <3>3. CASE j \in chained[call[j].parent]
      BY <2>3, <3>1, <3>2, <3>3
    <3>4. CASE call[j].parent \in forgotten \cup lost
      BY <2>1, <3>1, <3>4
    <3>5. ASSUME NEW d \in Faaslets, ex[d].at = "log", ex[d].id = call[j].parent, ex[d].target = j
          PROVE  \/ j \in chained'[call'[j].parent]
                 \/ \E u \in Faaslets : ex'[u].at = "log" /\ ex'[u].id = call'[j].parent /\ ex'[u].target = j
      <4>1. CASE d = e
        BY <2>2, <2>3, <3>1, <3>2, <3>5, <4>1 DEF p
      <4>2. CASE d # e
        BY <2>1, <3>1, <3>5, <4>2
      <4> QED
        BY <4>1, <4>2
    <3> QED
      BY <3>1, <3>3, <3>4, <3>5 DEF ChainInv
  <2>6. \A d \in Faaslets : ex'[d].at = "log" => call'[ex'[d].target].parent = ex'[d].id
    BY <2>1 DEF ChainInv
  <2> QED
    BY <2>4, <2>5, <2>6 DEF ChainInv
<1>5. ASSUME NEW e \in Faaslets, UNCHANGED <<call, chained, forgotten, lost>>,
             \A d \in Faaslets : d # e => ex'[d] = ex[d], ex'[e].at # "log", ex[e].at # "log"
      PROVE  ChainInv'
  BY <1>5, SameChains DEF Ids
<1>6. ASSUME NEW e \in Faaslets, NEW a, NEW t, NEW v, Goes(e, a, t, v), a # "log",
             UNCHANGED <<call, chained, forgotten, lost>>, ex[e].at # "log"
      PROVE  ChainInv'
  BY <1>5, <1>6 DEF Goes
<1>7. ASSUME NEW e \in Faaslets, TakeCall(e) PROVE ChainInv'
  <2>1. UNCHANGED <<call, chained, forgotten, lost>> /\ ex[e].at = "free"
    BY <1>7 DEF TakeCall, At, redis
  <2>2. ex'[e].at = "run" /\ \A d \in Faaslets : d # e => ex'[d] = ex[d]
    BY <1>7, TakeGoes
  <2> QED
    BY <1>5, <2>1, <2>2
<1>8. ASSUME NEW e \in Faaslets, AwaitChainedCall(e) PROVE ChainInv'
  <2>1. UNCHANGED <<call, chained, forgotten, lost>>
    BY <1>8 DEF AwaitChainedCall, AwaitCall, redis
  <2> QED
    BY <1>6, <1>8, <2>1, AwaitGoes
<1>9. ASSUME NEW e \in Faaslets, GotChainedResult(e) PROVE ChainInv'
  <2>1. UNCHANGED <<call, chained, forgotten, lost>>
    BY <1>9 DEF GotChainedResult
  <2> QED
    BY <1>6, <1>9, <2>1, GotGoes
<1>10. ASSUME NEW e \in Faaslets, AwaitTimesOut(e) PROVE ChainInv'
  <2>1. UNCHANGED <<call, chained, forgotten, lost>>
    <3>1. UNCHANGED <<call, forgotten, lost, redis>>
      BY <1>10, Zenon DEF AwaitTimesOut
    <3> QED
      BY <3>1 DEF redis
  <2> QED
    BY <1>6, <1>10, <2>1, TimeoutGoes
<1>11. ASSUME NEW e \in Faaslets, ExecuteCall(e) PROVE ChainInv'
  <2>1. UNCHANGED <<call, chained, forgotten, lost>>
    BY <1>11 DEF ExecuteCall, redis
  <2> QED
    BY <1>6, <1>11, <2>1, ExecuteGoes
<1>12. ASSUME NEW e \in Faaslets, PublishResult(e) PROVE ChainInv'
  <2>1. UNCHANGED <<chained, forgotten, lost>>
    BY <1>12 DEF PublishResult
  <2>2. DOMAIN call' = Ids /\ \A j \in Ids : call'[j].parent = call[j].parent
    BY <1>12, PublishFacts, PublishParent
  <2>3. ex[e].at = "push" /\ ex'[e].at = "status" /\ \A d \in Faaslets : d # e => ex'[d] = ex[d]
    BY <1>12, PublishGoes DEF Goes
  <2> QED
    BY <2>1, <2>2, <2>3, SameChains
<1>13. ASSUME NEW e \in Faaslets, SetStatus(e) PROVE ChainInv'
  <2>1. UNCHANGED <<call, chained, forgotten, lost>> /\ ex[e].at = "status"
    BY <1>13 DEF SetStatus, At
  <2>2. ex'[e].at = "free" /\ \A d \in Faaslets : d # e => ex'[d] = ex[d]
    BY <1>13, FreeGoes DEF Freed, Free
  <2> QED
    BY <1>5, <2>1, <2>2
<1>14. ASSUME NEW e \in Faaslets, Dies(e) PROVE ChainInv'
  <2>1. UNCHANGED <<call, chained, forgotten>> /\ lost' = lost \cup {ex[e].id}
    BY <1>14 DEF Dies, redis
  <2>2. ex'[e].at = "free" /\ \A d \in Faaslets : d # e => ex'[d] = ex[d]
    BY <1>14, FreeGoes DEF Freed, Free
  <2> QED
    BY <2>1, <2>2, SameChains DEF Ids
<1>15. ASSUME NEW i \in Ids, GraphExpires(i) PROVE ChainInv'
  <2>1. UNCHANGED <<call, ex, lost>> /\ forgotten' = forgotten \cup {i} /\ chained' = [chained EXCEPT ![i] = {}]
    BY <1>15 DEF GraphExpires
  <2>2. \A l \in Id : chained'[l] = IF l = i THEN {} ELSE chained[l]
    BY <2>1 DEF IInv, TypeOK
  <2>3. \A j \in Ids : call[j].parent # NoCall => call[j].parent \in Id
    BY ParentTypes
  <2> QED
    BY <2>1, <2>2, <2>3 DEF ChainInv, Ids
<1>16. ASSUME NEW c \in Clients, GetFunctionResult(c) \/ NoResponse(c) PROVE ChainInv'
  <2>1. CASE GetFunctionResult(c)
    BY <1>1, <2>1 DEF GetFunctionResult
  <2>2. CASE NoResponse(c)
    <3>1. UNCHANGED <<call, ex, forgotten, lost, redis>>
      BY <2>2, Zenon DEF NoResponse
    <3> QED
      BY <1>1, <3>1 DEF redis
  <2> QED
    BY <1>16, <2>1, <2>2
<1>17. ASSUME NEW i \in Ids, GetMessageStatus(i) \/ ResultExpires(i) PROVE ChainInv'
  BY <1>1, <1>17 DEF GetMessageStatus, ResultExpires
<1>18. CASE UNCHANGED vars
  BY <1>1, <1>18 DEF vars, redis
<1> QED
  BY <1>2, <1>3, <1>4, <1>7, <1>8, <1>9, <1>10, <1>11, <1>12, <1>13, <1>14, <1>15, <1>16, <1>17, <1>18
  DEF Next, Endpoint, Executes


(* A status is set for one call at most, and by the Faaslet that executed  *)
(* it.                                                                     *)
LEMMA SameStatus ==
  ASSUME IInv, StatusInv, status' = status, queue' = queue, DOMAIN call' = Ids,
         \A j \in Ids : call'[j] = call[j], NEW e \in Faaslets,
         \A d \in Faaslets : d # e => ex'[d] = ex[d],
         ex'[e].at # "free" => ex[e].at # "free" /\ ex'[e].id = ex[e].id,
         ex'[e].at # "status"
  PROVE  StatusInv'
<1>1. \A i \in Id : status'[i] # Running => i \in Ids' /\ call'[i].rv = status'[i]
  BY DEF StatusInv, Ids
<1>2. \A k \in DOMAIN queue' : status'[queue'[k]] = Running
  BY DEF StatusInv
<1>3. ASSUME NEW d \in Faaslets
      PROVE  /\ ex'[d].at # "free" => status'[ex'[d].id] = Running
             /\ ex'[d].at = "status" => call'[ex'[d].id].rv = ex'[d].rv
  <2>1. ex[d].at = "status" => ex[d].id \in Ids
    BY DEF IInv, FaasletInv
  <2> QED
    BY <2>1 DEF StatusInv
<1> QED
  BY <1>1, <1>2, <1>3 DEF StatusInv

(* A new call has no status. *)
LEMMA NewStatus ==
  ASSUME IInv, StatusInv, NEW p \in Id \cup {NoCall}, CallFunction(p), status' = status,
         \A e \in Faaslets :
           /\ ex'[e].at # "free" => ex[e].at # "free" /\ ex'[e].id = ex[e].id
           /\ ex'[e].at = "status" => ex'[e] = ex[e]
  PROVE  StatusInv'
<1> DEFINE n == Len(call) + 1
           m == Len(queue) + 1
<1>1. /\ n \in Id /\ n \notin Ids /\ DOMAIN call' = Ids \cup {n} /\ \A i \in Ids : call'[i] = call[i]
      /\ DOMAIN queue' = DOMAIN queue \cup {m} /\ queue'[m] = n
      /\ \A k \in DOMAIN queue : queue'[k] = queue[k]
  BY NewFacts
<1>2. status[n] = Running
  BY <1>1 DEF StatusInv
<1> HIDE DEF n, m
<1>3. \A i \in Id : status'[i] # Running => i \in Ids' /\ call'[i].rv = status'[i]
  BY <1>1 DEF StatusInv, Ids
<1>4. \A k \in DOMAIN queue' : status'[queue'[k]] = Running
  BY <1>1, <1>2 DEF StatusInv
<1>5. ASSUME NEW d \in Faaslets
      PROVE  /\ ex'[d].at # "free" => status'[ex'[d].id] = Running
             /\ ex'[d].at = "status" => call'[ex'[d].id].rv = ex'[d].rv
  <2>1. ex[d].at = "status" => ex[d].id \in Ids
    BY DEF IInv, FaasletInv
  <2> QED
    BY <1>1, <2>1 DEF StatusInv
<1> QED
  BY <1>3, <1>4, <1>5 DEF StatusInv

LEMMA StatusInvNext ==
  ASSUME IInv, StatusInv, [Next]_vars
  PROVE  StatusInv'
<1>1. ASSUME UNCHANGED <<call, queue, ex, status>> PROVE StatusInv'
  BY <1>1 DEF StatusInv, Ids
<1>2. ASSUME NEW c \in Clients, ExecuteFunction(c) PROVE StatusInv'
  <2>1. CallFunction(NoCall) /\ ex' = ex /\ redis' = redis
    BY <1>2 DEF ExecuteFunction
  <2>2. status' = status
    BY <2>1 DEF redis
  <2> QED
    BY <2>1, <2>2, NewStatus
<1>3. ASSUME NEW e \in Faaslets, ChainFunction(e) PROVE StatusInv'
  <2>1. /\ Goes(e, "log", Len(call) + 1, ex[e].rv) /\ ex[e].at = "run" /\ CallFunction(ex[e].id)
        /\ ex[e].id \in Id
    BY <1>3, ChainGoes
  <2>2. redis' = redis
    BY <1>3 DEF ChainFunction, MakeChainedCall
  <2>3. /\ ex'[e].at = "log" /\ ex'[e].id = ex[e].id
        /\ \A d \in Faaslets : d # e => ex'[d] = ex[d]
    BY <2>1 DEF Goes
  <2>4. status' = status
    BY <2>2 DEF redis
  <2>5. \A d \in Faaslets :
           /\ ex'[d].at # "free" => ex[d].at # "free" /\ ex'[d].id = ex[d].id
           /\ ex'[d].at = "status" => ex'[d] = ex[d]
    BY <2>1, <2>3
  <2> QED
    BY <2>1, <2>4, <2>5, NewStatus
<1>4. ASSUME NEW e \in Faaslets, NEW a, NEW t, NEW v, Goes(e, a, t, v), a # "status",
             ex[e].at # "free", UNCHANGED <<call, queue, status>>
      PROVE  StatusInv'
  BY <1>4, SameStatus DEF Goes, Ids
<1>5. ASSUME NEW e \in Faaslets, LogChainedFunction(e) PROVE StatusInv'
  <2>1. UNCHANGED <<call, queue, status>>
    BY <1>5 DEF LogChainedFunction
  <2> QED
    BY <1>4, <1>5, <2>1, LogGoes
<1>6. ASSUME NEW e \in Faaslets, TakeCall(e) PROVE StatusInv'
  <2>1. call' = call /\ queue # <<>> /\ queue' = Tail(queue) /\ redis' = redis
    BY <1>6 DEF TakeCall
  <2>2. 1 \in DOMAIN queue /\ \A k \in DOMAIN queue' : k + 1 \in DOMAIN queue /\ queue'[k] = queue[k + 1]
    BY <2>1, TakeFacts
  <2>3. ex'[e].id = queue[1] /\ ex'[e].at = "run" /\ \A d \in Faaslets : d # e => ex'[d] = ex[d]
    BY <1>6, TakeGoes
  <2>4. status' = status
    BY <2>1 DEF redis
  <2>5. \A k \in DOMAIN queue' : status[queue'[k]] = Running
    BY <2>2 DEF StatusInv
  <2>6. ASSUME NEW d \in Faaslets
        PROVE  /\ ex'[d].at # "free" => status[ex'[d].id] = Running
               /\ ex'[d].at = "status" => call[ex'[d].id].rv = ex'[d].rv
    BY <2>2, <2>3 DEF StatusInv
  <2> QED
    BY <2>1, <2>4, <2>5, <2>6 DEF StatusInv, Ids
<1>7. ASSUME NEW e \in Faaslets, AwaitChainedCall(e) PROVE StatusInv'
  <2>1. call' = call /\ queue' = queue /\ redis' = redis
    BY <1>7 DEF AwaitChainedCall, AwaitCall
  <2>2. status' = status
    BY <2>1 DEF redis
  <2> QED
    BY <1>4, <1>7, <2>1, <2>2, AwaitGoes
<1>8. ASSUME NEW e \in Faaslets, GotChainedResult(e) PROVE StatusInv'
  <2>1. UNCHANGED <<call, queue, status>>
    BY <1>8 DEF GotChainedResult
  <2> QED
    BY <1>4, <1>8, <2>1, GotGoes
<1>9. ASSUME NEW e \in Faaslets, AwaitTimesOut(e) PROVE StatusInv'
  <2>1. UNCHANGED <<call, queue, redis>>
    BY <1>9, Zenon DEF AwaitTimesOut
  <2>2. status' = status
    BY <2>1 DEF redis
  <2> QED
    BY <1>4, <1>9, <2>1, <2>2, TimeoutGoes
<1>10. ASSUME NEW e \in Faaslets, ExecuteCall(e) PROVE StatusInv'
  <2>1. call' = call /\ queue' = queue /\ redis' = redis
    BY <1>10 DEF ExecuteCall
  <2>2. status' = status
    BY <2>1 DEF redis
  <2> QED
    BY <1>4, <1>10, <2>1, <2>2, ExecuteGoes
<1>11. ASSUME NEW e \in Faaslets, PublishResult(e) PROVE StatusInv'
  <2> DEFINE p == ex[e].id
  <2>1. status' = status /\ queue' = queue
    BY <1>11 DEF PublishResult
  <2>2. /\ p \in Id /\ p \in Ids /\ DOMAIN call' = Ids /\ \A j \in Ids : j # p => call'[j] = call[j]
        /\ call'[p].rv = ex[e].rv
    BY <1>11, PublishFacts
  <2>3. /\ ex[e].at = "push" /\ ex'[e].at = "status" /\ ex'[e].id = p /\ ex'[e].rv = ex[e].rv
        /\ \A d \in Faaslets : d # e => ex'[d] = ex[d]
    BY <1>11, PublishGoes DEF Goes
  <2>4. status[p] = Running
    BY <2>3 DEF StatusInv
  <2>5. \A d \in Faaslets : d # e /\ ex[d].at # "free" => ex[d].id # p /\ ex[d].id \in Ids
    BY <2>3 DEF IInv, FaasletInv
  <2> HIDE DEF p
  <2>6. \A i \in Id : status'[i] # Running => i \in Ids' /\ call'[i].rv = status'[i]
    BY <2>1, <2>2, <2>4 DEF StatusInv, Ids
  <2>7. \A k \in DOMAIN queue' : status'[queue'[k]] = Running
    BY <2>1 DEF StatusInv
  <2>8. ASSUME NEW d \in Faaslets
        PROVE  /\ ex'[d].at # "free" => status'[ex'[d].id] = Running
               /\ ex'[d].at = "status" => call'[ex'[d].id].rv = ex'[d].rv
    BY <2>1, <2>2, <2>3, <2>4, <2>5 DEF StatusInv
  <2> QED
    BY <2>6, <2>7, <2>8 DEF StatusInv
<1>12. ASSUME NEW e \in Faaslets, SetStatus(e) PROVE StatusInv'
  <2> DEFINE p == ex[e].id
  <2>1. /\ call' = call /\ queue' = queue /\ ex[e].at = "status"
        /\ status' = [status EXCEPT ![p] = ex[e].rv]
    BY <1>12 DEF SetStatus, StatusKey, At
  <2>2. ex'[e].at = "free" /\ \A d \in Faaslets : d # e => ex'[d] = ex[d]
    BY <1>12, FreeGoes DEF Freed, Free
  <2>3. /\ p \in Ids /\ call[p].rv = ex[e].rv
        /\ \A k \in DOMAIN queue : queue[k] # p
        /\ \A d \in Faaslets : d # e /\ ex[d].at # "free" => ex[d].id # p /\ ex[d].id \in Ids
    BY <2>1 DEF IInv, FaasletInv, StatusInv
  <2>4. Ids \subseteq Id /\ status \in [Id -> Value] /\ queue \in Seq(Id)
    BY IdsInId DEF IInv, TypeOK
  <2>5. \A i \in Id : status'[i] = IF i = p THEN ex[e].rv ELSE status[i]
    BY <2>1, <2>3, <2>4
  <2> HIDE DEF p
  <2>6. \A i \in Id : status'[i] # Running => i \in Ids' /\ call'[i].rv = status'[i]
    BY <2>1, <2>3, <2>5 DEF StatusInv, Ids
  <2>7. \A k \in DOMAIN queue' : status'[queue'[k]] = Running
    <3>1. \A k \in DOMAIN queue : queue[k] \in Id
      BY <2>4
    <3> QED
      BY <2>1, <2>3, <2>5, <3>1 DEF StatusInv
  <2>8. ASSUME NEW d \in Faaslets
        PROVE  /\ ex'[d].at # "free" => status'[ex'[d].id] = Running
               /\ ex'[d].at = "status" => call'[ex'[d].id].rv = ex'[d].rv
    BY <2>1, <2>2, <2>3, <2>4, <2>5 DEF StatusInv
  <2> QED
    BY <2>6, <2>7, <2>8 DEF StatusInv
<1>13. ASSUME NEW e \in Faaslets, Dies(e) PROVE StatusInv'
  <2>1. call' = call /\ queue' = queue /\ redis' = redis
    BY <1>13 DEF Dies
  <2>2. ex'[e].at = "free" /\ \A d \in Faaslets : d # e => ex'[d] = ex[d]
    BY <1>13, FreeGoes DEF Freed, Free
  <2>3. status' = status
    BY <2>1 DEF redis
  <2> QED
    BY <2>1, <2>2, <2>3, SameStatus DEF Ids
<1>14. ASSUME NEW i \in Ids, GraphExpires(i) PROVE StatusInv'
  <2>1. /\ UNCHANGED <<call, queue, ex>>
        /\ status' = [status EXCEPT ![i] = IF chained[i] = {} THEN Running ELSE @]
    BY <1>14 DEF GraphExpires
  <2>2. Ids \subseteq Id /\ status \in [Id -> Value] /\ queue \in Seq(Id)
    BY IdsInId DEF IInv, TypeOK
  <2>3. \A l \in Id : status'[l] = status[l] \/ status'[l] = Running
    BY <2>1, <2>2
  <2>4. \A k \in DOMAIN queue : queue[k] \in Id
    BY <2>2
  <2>5. \A d \in Faaslets : ex[d].at # "free" => ex[d].id \in Id
    BY <2>2 DEF IInv, FaasletInv
  <2>6. \A l \in Id : status'[l] # Running => l \in Ids' /\ call'[l].rv = status'[l]
    BY <2>1, <2>3 DEF StatusInv, Ids
  <2>7. \A k \in DOMAIN queue' : status'[queue'[k]] = Running
    BY <2>1, <2>3, <2>4 DEF StatusInv
  <2>8. ASSUME NEW d \in Faaslets
        PROVE  /\ ex'[d].at # "free" => status'[ex'[d].id] = Running
               /\ ex'[d].at = "status" => call'[ex'[d].id].rv = ex'[d].rv
    BY <2>1, <2>3, <2>5 DEF StatusInv
  <2> QED
    BY <2>6, <2>7, <2>8 DEF StatusInv
<1>15. ASSUME NEW c \in Clients, GetFunctionResult(c) \/ NoResponse(c) PROVE StatusInv'
  <2>1. CASE GetFunctionResult(c)
    BY <1>1, <2>1 DEF GetFunctionResult
  <2>2. CASE NoResponse(c)
    <3>1. UNCHANGED <<call, queue, ex, redis>>
      BY <2>2, Zenon DEF NoResponse
    <3> QED
      BY <1>1, <3>1 DEF redis
  <2> QED
    BY <1>15, <2>1, <2>2
<1>16. ASSUME NEW i \in Ids, GetMessageStatus(i) \/ ResultExpires(i) PROVE StatusInv'
  BY <1>1, <1>16 DEF GetMessageStatus, ResultExpires
<1>17. CASE UNCHANGED vars
  BY <1>1, <1>17 DEF vars, redis
<1> QED
  BY <1>2, <1>3, <1>5, <1>6, <1>7, <1>8, <1>9, <1>10, <1>11, <1>12, <1>13, <1>14, <1>15, <1>16, <1>17
  DEF Next, Endpoint, Executes


(* A call that is over, and of which nothing was lost or expired, has      *)
(* noted all it chained, and its status.                                   *)
LEMMA OverFacts ==
  ASSUME GraphInv, NEW i \in Ids, status[i] # Running, i \notin forgotten, i \notin lost
  PROVE  chained[i] = Children(i) /\ status[i] = call[i].rv
<1>1. i \in Id /\ i # NoCall
  BY IdsInId DEF GraphInv, Id, NoCall
<1>2. chained[i] \subseteq Children(i)
  BY <1>1 DEF GraphInv, ChainInv, Children
<1>3. ASSUME NEW j \in Children(i) PROVE j \in chained[i]
  <2>1. j \in Ids /\ call[j].parent = i
    BY DEF Children
  <2>2. \A e \in Faaslets : ex[e].at = "log" => ex[e].id # i
    BY DEF GraphInv, StatusInv
  <2> QED
    BY <1>1, <2>1, <2>2 DEF GraphInv, ChainInv
<1> QED
  BY <1>1, <1>2, <1>3 DEF GraphInv, StatusInv

(* Two relations that agree on what one of them reaches reach the same. *)
LEMMA GraphShown ==
  ASSUME GraphInv
  PROVE  GraphComplete
<1> SUFFICES ASSUME NEW i \in Ids,
                    \A j \in Descendants(i) : status[j] # Running /\ j \notin forgotten,
                    Descendants(i) \cap lost = {}
             PROVE  GetFunctionExecGraph(i) = {<<j, call[j].rv>> : j \in Descendants(i)}
  BY DEF GraphComplete
<1> DEFINE D == Descendants(i)
           C == Closure(GetChainedFunctions, {i})
<1>1. i \in Id /\ Ids \subseteq Id
  BY IdsInId DEF GraphInv
<1>2. \A x \in Id : x \in D <=> \A T \in SUBSET Id : {i} \subseteq T /\ (\A j \in T : Children(j) \subseteq T) => x \in T
  BY DEF Descendants, Closure
<1>3. \A x \in Id : x \in C <=> \A T \in SUBSET Id : {i} \subseteq T /\ (\A j \in T : chained[j] \subseteq T) => x \in T
  BY DEF Closure, GetChainedFunctions
<1>4. D \subseteq Id /\ C \subseteq Id
  BY DEF Descendants, Closure
<1>5. \A j \in Id : Children(j) \subseteq Id /\ chained[j] \subseteq Id
  BY <1>1 DEF Children, GraphInv, IInv, TypeOK
<1>6. GetFunctionExecGraph(i) = {<<j, status[j]>> : j \in C}
  BY DEF GetFunctionExecGraph
<1> HIDE DEF D, C
<1>7. i \in D /\ \A j \in D : Children(j) \subseteq D
  BY <1>1, <1>2, <1>4, <1>5
<1>8. i \in C /\ \A j \in C : chained[j] \subseteq C
  BY <1>1, <1>3, <1>4, <1>5
<1>9. D \subseteq Ids
  <2>1. \A j \in D \cap Ids : Children(j) \subseteq D \cap Ids
    BY <1>7 DEF Children
  <2>2. \A T \in SUBSET Id : {i} \subseteq T /\ (\A j \in T : Children(j) \subseteq T) => D \subseteq T
    BY <1>2, <1>4
  <2>3. D \cap Ids \in SUBSET Id /\ {i} \subseteq D \cap Ids
    BY <1>1, <1>7
  <2>4. D \subseteq D \cap Ids
    BY <2>1, <2>2, <2>3
  <2> QED
    BY <2>4
<1>10. \A j \in D : chained[j] = Children(j) /\ status[j] = call[j].rv
  BY <1>9, OverFacts DEF D
<1>11. C \subseteq D
  BY <1>1, <1>3, <1>4, <1>7, <1>10
<1>12. D \subseteq C
  BY <1>1, <1>2, <1>4, <1>8, <1>10, <1>11
<1>13. {<<j, status[j]>> : j \in C} = {<<j, call[j].rv>> : j \in D}
  BY <1>10, <1>11, <1>12
<1> QED
  BY <1>6, <1>13 DEF D

LEMMA GraphInit == Init => GraphInv
<1> SUFFICES ASSUME Init PROVE GraphInv
  OBVIOUS
<1>1. IInv
  BY IInvInit
<1>2. Ids = {} /\ queue = <<>> /\ \A e \in Faaslets : ex[e].at = "free"
  BY DEF Init, Ids, Free
<1>3. \A i \in Id : chained[i] = {} /\ status[i] = Running
  BY DEF Init, Id
<1>4. ChainInv
  BY <1>2, <1>3 DEF ChainInv
<1>5. StatusInv
  BY <1>2, <1>3 DEF StatusInv
<1> QED
  BY <1>1, <1>4, <1>5 DEF GraphInv

(* The execution graph of a call that ended, with all it started, shows    *)
(* exactly the calls there were and what they returned, in whatever order  *)
(* they were noted and ended. (logChainedFunction, setFunctionResult,      *)
(* getFunctionExecGraph)                                                   *)
THEOREM GraphsComplete == Spec => []GraphComplete
<1>1. Init => GraphInv
  BY GraphInit
<1>2. GraphInv /\ [Next]_vars => GraphInv'
  BY IInvNext, ChainInvNext, StatusInvNext DEF GraphInv
<1>3. GraphInv => GraphComplete
  BY GraphShown
<1> QED
  BY <1>1, <1>2, <1>3, PTL DEF Spec
=============================================================================
