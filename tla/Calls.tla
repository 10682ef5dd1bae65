------------------------------- MODULE Calls -------------------------------
(***************************************************************************)
(* A call from its request to its answer (FaabricEndpointHandler, the      *)
(* results in Scheduler, the queues of Redis, chaining.cpp): a client      *)
(* posts a call and waits for it or asks for its status later; a function  *)
(* chains calls and waits for them on the Faaslet it occupies; the result  *)
(* of a call goes to a list in Redis, from which whoever comes first takes *)
(* it, and its status and the calls it chained are kept for the execution  *)
(* graph.  Where a call is scheduled, and that a Faaslet whose call failed  *)
(* is replaced, is FaabricScheduler's matter: here the Faaslets take calls *)
(* from one queue.                                                         *)
(***************************************************************************)
EXTENDS Integers, SequencesExt, FiniteSets

CONSTANTS
  Clients,          \* threads of the HTTP endpoint
  Faaslets,
  MaxCalls, MaxWaits,   \* and one request, unless there are "many"
  GlobalMessageTimeout, ChainedCallTimeout,   \* milliseconds
  Styles            \* sets of things that happen: "many", "status", "chain", "output", "die", "expire", "forget"

ASSUME CallsAssumption ==
  /\ {MaxCalls, MaxWaits} \subseteq Nat
  /\ GlobalMessageTimeout \in Nat \ {0} /\ ChainedCallTimeout \in Nat \ {0}

VARIABLES
  style,
  call,       \* every call so far: the call that chained it, and its return value
  queue,      \* calls that wait for a Faaslet
  client,     \* per client: the call whose result it waits for
  ex,         \* per Faaslet: where it is, its call, the call it chains or waits for, its waits so far
  list, status, chained,  \* in Redis: the result of a call, its status, its chained calls
  taken, gone, forgotten, lost,  \* calls whose result was taken, or expired, whose graph did, that ended with their Faaslet
  told        \* what the step before, if it was an answer, answered

redis == <<list, status, chained>>
vars == <<style, call, queue, client, ex, redis, taken, gone, forgotten, lost, told>>

Ids == DOMAIN call
NoCall == 0
Running == 2
Free == [at |-> "free", id |-> NoCall, target |-> NoCall, rv |-> Running, waits |-> 0]
Silent == [id |-> NoCall, answer |-> "none"]

Init ==
  /\ style \in Styles
  /\ call = <<>> /\ queue = <<>>
  /\ client = [c \in Clients |-> NoCall] /\ ex = [e \in Faaslets |-> Free]
  /\ list = [i \in 1..MaxCalls |-> <<>>]
  /\ status = [i \in 1..MaxCalls |-> Running] /\ chained = [i \in 1..MaxCalls |-> {}]
  /\ taken = {} /\ gone = {} /\ forgotten = {} /\ lost = {}
  /\ told = Silent

-----------------------------------------------------------------------------
(* Redis: a pop without a timeout does not block, one with a timeout ends  *)
(* after whole seconds; BLPOP would take 0 seconds for ever.               *)
(* Mutant: half a second becomes no timeout. *)
RoundedDown(ms) == ms \div 1000
TimeoutSecs(ms) == IF ms \div 1000 > 1 THEN ms \div 1000 ELSE 1
BlocksForEver(ms) == TimeoutSecs(ms) = 0
(* Mutants: before the return value is set; successes only. *)
EnqueueEarly(i, r) == list' = [list EXCEPT ![i] = Append(@, 0)]
OnlySuccess(i, r) == list' = IF r = 0 THEN [list EXCEPT ![i] = Append(@, r)] ELSE list
EnqueueBytes(i, r) == list' = [list EXCEPT ![i] = Append(@, r)]
DequeueBytes(i) == list' = [list EXCEPT ![i] = Tail(@)] /\ taken' = taken \cup {i}
HasResult(i) == list[i] # <<>>

Answer(i, a) == told' = [id |-> i, answer |-> a]
Quiet == told' = Silent
Outcome(r) == IF r = 0 THEN "SUCCESS" ELSE "FAILED"

(* messageFactory and setMessageId: a new call has an id of its own.       *)
NewCall(parent) == Append(call, [parent |-> parent, rv |-> Running])
CallFunction(parent) ==
  /\ Len(call) < MaxCalls
  /\ call' = NewCall(parent) /\ queue' = Append(queue, Len(call) + 1)

-----------------------------------------------------------------------------
(* The HTTP endpoint.                                                      *)
ExecuteFunction(c) ==
  /\ client[c] = NoCall /\ CallFunction(NoCall) /\ (Ids = {} \/ "many" \in style)
  /\ \/ client' = [client EXCEPT ![c] = Len(call) + 1] /\ Quiet
     \/ "status" \in style /\ Answer(Len(call) + 1, "id") /\ UNCHANGED client
  /\ UNCHANGED <<style, ex, redis, taken, gone, forgotten, lost>>

GetFunctionResult(c) ==
  LET i == client[c] IN
  /\ i # NoCall /\ HasResult(i) /\ DequeueBytes(i)
  /\ Answer(i, Outcome(Head(list[i]))) /\ client' = [client EXCEPT ![c] = NoCall]
  /\ UNCHANGED <<style, call, queue, ex, status, chained, gone, forgotten, lost>>

NoResponse(c) ==
  /\ client[c] # NoCall /\ ~BlocksForEver(GlobalMessageTimeout)
  /\ Answer(client[c], "No response") /\ client' = [client EXCEPT ![c] = NoCall]
  /\ UNCHANGED <<style, call, queue, ex, redis, taken, gone, forgotten, lost>>

(* A status query, by anybody at any time, pops the result too.            *)
GetMessageStatus(i) ==
  /\ "status" \in style
  /\ \/ HasResult(i) /\ DequeueBytes(i) /\ Answer(i, Outcome(Head(list[i])))
     \/ ~HasResult(i) /\ Answer(i, "RUNNING") /\ UNCHANGED <<list, taken>>
  /\ UNCHANGED <<style, call, queue, client, ex, status, chained, gone, forgotten, lost>>

-----------------------------------------------------------------------------
(* A Faaslet and the function it executes.                                 *)
At(e, a) == ex[e].at = a
Own(e) == {i \in Ids : call[i].parent = ex[e].id}

TakeCall(e) ==
  /\ At(e, "free") /\ queue # <<>>
  /\ ex' = [ex EXCEPT ![e].at = "run", ![e].id = Head(queue)] /\ queue' = Tail(queue)
  /\ Quiet /\ UNCHANGED <<style, call, client, redis, taken, gone, forgotten, lost>>

(* The call is submitted, and then noted as chained.                       *)
MakeChainedCall(e) ==
  /\ CallFunction(ex[e].id)
  /\ ex' = [ex EXCEPT ![e].at = "log", ![e].target = Len(call) + 1]
  /\ Quiet /\ UNCHANGED <<style, client, redis, taken, gone, forgotten, lost>>

ChainFunction(e) == At(e, "run") /\ "chain" \in style /\ MakeChainedCall(e)

(* Mutant: noted for the call's own parent. *)
TopOf(e) == call[ex[e].id].parent
ParentOf(e) == ex[e].id
LogChainedFunction(e) ==
  /\ At(e, "log")
  /\ chained' = [chained EXCEPT ![ParentOf(e)] = @ \cup {ex[e].target}]
  /\ ex' = [ex EXCEPT ![e].at = "run", ![e].target = NoCall]
  /\ Quiet /\ UNCHANGED <<style, call, queue, client, list, status, taken, gone, forgotten, lost>>

AwaitCall(e, i, how) ==
  /\ At(e, "run") /\ ex[e].waits < MaxWaits
  /\ ex' = [ex EXCEPT ![e].at = how, ![e].target = i, ![e].waits = @ + 1]
  /\ Quiet /\ UNCHANGED <<style, call, queue, client, redis, taken, gone, forgotten, lost>>
AwaitChainedCall(e) == \E i \in Own(e) : AwaitCall(e, i, "await") \/ ("output" \in style /\ AwaitCall(e, i, "output"))

GotChainedResult(e) ==
  LET i == ex[e].target IN
  /\ At(e, "await") \/ At(e, "output")
  /\ HasResult(i) /\ DequeueBytes(i) /\ Answer(i, Outcome(Head(list[i])))
  /\ ex' = [ex EXCEPT ![e].at = "run", ![e].target = NoCall]
  /\ UNCHANGED <<style, call, queue, client, status, chained, gone, forgotten, lost>>

(* No answer in time is return code 1; while it waits for output it is an  *)
(* exception, which fails the call that waits.                             *)
AwaitTimesOut(e) ==
  /\ ~BlocksForEver(ChainedCallTimeout)
  /\ \/ At(e, "await") /\ ex' = [ex EXCEPT ![e].at = "run", ![e].target = NoCall]
     \/ At(e, "output") /\ ex' = [ex EXCEPT ![e].at = "push", ![e].target = NoCall, ![e].rv = 1]
  /\ Answer(ex[e].target, "No response")
  /\ UNCHANGED <<style, call, queue, client, redis, taken, gone, forgotten, lost>>

ExecuteCall(e) ==
  /\ At(e, "run") /\ \E r \in {0, 1} : ex' = [ex EXCEPT ![e].at = "push", ![e].rv = r]
  /\ Quiet /\ UNCHANGED <<style, call, queue, client, redis, taken, gone, forgotten, lost>>

(* setFunctionResult: the result with its expiry, and then the status.      *)
PublishResult(e) ==
  LET i == ex[e].id IN
  /\ At(e, "push") /\ EnqueueBytes(i, ex[e].rv)
  /\ call' = [call EXCEPT ![i].rv = ex[e].rv]
  /\ ex' = [ex EXCEPT ![e].at = "status"]
  /\ Quiet /\ UNCHANGED <<style, queue, client, status, chained, taken, gone, forgotten, lost>>

StatusKey(e) == ex[e].id
SetStatus(e) ==
  /\ At(e, "status")
  /\ status' = [status EXCEPT ![StatusKey(e)] = ex[e].rv]
  /\ ex' = [ex EXCEPT ![e] = Free]
  /\ Quiet /\ UNCHANGED <<style, call, queue, client, list, chained, taken, gone, forgotten, lost>>

-----------------------------------------------------------------------------
(* What else can happen: a Faaslet ends in the middle; keys expire.        *)
Dies(e) ==
  /\ "die" \in style /\ ~At(e, "free")
  /\ lost' = lost \cup {ex[e].id}
  /\ ex' = [ex EXCEPT ![e] = Free]
  /\ Quiet /\ UNCHANGED <<style, call, queue, client, redis, taken, gone, forgotten>>

ResultExpires(i) ==
  /\ "expire" \in style /\ HasResult(i)
  /\ list' = [list EXCEPT ![i] = <<>>] /\ gone' = gone \cup {i}
  /\ Quiet /\ UNCHANGED <<style, call, queue, client, ex, status, chained, taken, forgotten, lost>>

(* The calls a call chained were noted before its status was: they go      *)
(* first.                                                                  *)
GraphExpires(i) ==
  /\ "forget" \in style /\ (status[i] # Running \/ chained[i] # {})
  /\ status' = [status EXCEPT ![i] = IF chained[i] = {} THEN Running ELSE @]
  /\ chained' = [chained EXCEPT ![i] = {}] /\ forgotten' = forgotten \cup {i}
  /\ Quiet /\ UNCHANGED <<style, call, queue, client, ex, list, taken, gone, lost>>

Endpoint(c) == ExecuteFunction(c) \/ GetFunctionResult(c) \/ NoResponse(c)
Executes(e) ==
  \/ TakeCall(e) \/ ChainFunction(e) \/ LogChainedFunction(e) \/ AwaitChainedCall(e) \/ GotChainedResult(e) \/ AwaitTimesOut(e)
  \/ ExecuteCall(e) \/ PublishResult(e) \/ SetStatus(e)
Next ==
  \/ \E c \in Clients : Endpoint(c)
  \/ \E e \in Faaslets : Executes(e) \/ Dies(e)
  \/ \E i \in Ids : GetMessageStatus(i) \/ ResultExpires(i) \/ GraphExpires(i)

Spec == Init /\ [][Next]_vars

(* Faaslets go on, functions end, and Redis ends a wait.                   *)
FairSpec ==
  /\ Spec
  /\ \A e \in Faaslets : WF_vars(Executes(e))
  /\ \A c \in Clients : WF_vars(GetFunctionResult(c) \/ NoResponse(c))

-----------------------------------------------------------------------------
Id == 1..MaxCalls
Value == {0, 1, Running}
Places == {"free", "run", "log", "await", "output", "push", "status"}
Answers == {"none", "id", "SUCCESS", "FAILED", "No response", "RUNNING"}
Call == [parent : Id \cup {NoCall}, rv : Value]
Execution == [at : Places, id : Id \cup {NoCall}, target : Id \cup {NoCall}, rv : Value, waits : 0..MaxWaits]

(* Every variable has its type. *)
TypeOK ==
  /\ style \in Styles
  /\ call \in Seq(Call) /\ Len(call) <= MaxCalls
  /\ queue \in Seq(Id)
  /\ client \in [Clients -> Id \cup {NoCall}]
  /\ ex \in [Faaslets -> Execution]
  /\ list \in [Id -> Seq({0, 1})] /\ status \in [Id -> Value] /\ chained \in [Id -> SUBSET Id]
  /\ taken \subseteq Id /\ gone \subseteq Id /\ forgotten \subseteq Id /\ lost \subseteq Id
  /\ told \in [id : Id \cup {NoCall}, answer : Answers]

-----------------------------------------------------------------------------
(* The execution graph: a call with the status it is known to have, and    *)
(* the graphs of the calls it chained.                                     *)
Closure(next(_), S) ==
  {i \in Id : \A T \in SUBSET Id : S \subseteq T /\ (\A j \in T : next(j) \subseteq T) => i \in T}
GetChainedFunctions(i) == chained[i]
GetFunctionExecGraph(i) == {<<j, status[j]>> : j \in Closure(GetChainedFunctions, {i})}

Children(i) == {j \in Ids : call[j].parent = i}
Descendants(i) == Closure(Children, {i})

(* Clients, status queries and chaining functions take results from the    *)
(* same lists, and what each of them is told is true: a success or a       *)
(* failure is that of the call it asked about, and a call that is said to  *)
(* be running has not published its result, or somebody took it, or it     *)
(* expired.                                                                *)
IsTrue(r) ==
  /\ r.answer \in {"SUCCESS", "FAILED"} => r.answer = Outcome(call'[r.id].rv)
  /\ r.answer = "RUNNING" => call'[r.id].rv = Running \/ r.id \in taken' \cup gone'
AnswersTrue == [][IsTrue(told')]_vars

(* A result that was published is waiting in Redis once, or was taken, or  *)
(* expired: none gets lost between the steps of publishing it, none is     *)
(* there twice, none is taken before it was there or by two who wait.      *)
ResultAccounted ==
  \A i \in Ids :
    Len(list[i]) + (IF i \in taken THEN 1 ELSE 0) + (IF i \in gone THEN 1 ELSE 0)
      = IF call[i].rv # Running THEN 1 ELSE 0

(* When a call and all it started, directly or not, have ended and nothing *)
(* of them was lost or expired, the execution graph shows exactly these    *)
(* calls, with what they returned.                                         *)
GraphComplete ==
  \A i \in Ids :
    LET D == Descendants(i) IN
    (\A j \in D : status[j] # Running /\ j \notin forgotten) /\ D \cap lost = {} =>
      GetFunctionExecGraph(i) = {<<j, call[j].rv>> : j \in D}

(* Every call is executed to its end, however few the Faaslets: one that   *)
(* blocks its Faaslet waiting for a chained call which finds no Faaslet    *)
(* gives up.  And every client that waits is answered.                     *)
Over(i) == call[i].rv # Running \/ i \in lost
CallsEnd ==
  /\ \A i \in 1..MaxCalls : i \in Ids ~> (i \in Ids => Over(i))
  /\ \A c \in Clients : client[c] # NoCall ~> client[c] = NoCall
=============================================================================
