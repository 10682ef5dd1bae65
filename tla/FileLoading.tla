---------------------------- MODULE FileLoading ----------------------------
(***************************************************************************)
(* How a new version of a function reaches the Faaslets: the upload server *)
(* (UploadServer, LocalFileLoader) stores the Wasm, generates its machine  *)
(* code and keeps a hash to see what is built already; the codegen tools   *)
(* do the same for a directory; a worker loads over HTTP and keeps copies  *)
(* on its disk (FileserverFileLoader), in the IR cache, in the zygote, in  *)
(* the map of shared files; a flush makes it forget them.                  *)
(*                                                                         *)
(* One server and one worker, whose Faaslets all run the function Main.    *)
(* The content of a file is its version; the hash and the machine code of  *)
(* a version are that version.  A write of a file is one step.             *)
(***************************************************************************)
EXTENDS Integers, Sequences, FiniteSets, Functions

CONSTANTS
  Faaslets,
  Handlers,       \* threads of the upload server, and of the codegen tools
  FunctionNames, Main, SharedObjects,
  SharedFiles,    \* shared files other than Python functions
  PythonFiles,    \* Python functions
  MaxVersion,
  Styles          \* sets of things that happen: "fresh", "upload", "codegen_func", "codegen_shared_obj", "crash", "bind", "flush", "dlopen", "files"

ASSUME LoadingAssumption == Main \in FunctionNames /\ MaxVersion \in Nat /\ FunctionNames \cap SharedObjects = {}
(* The first part of a request's path tells units and files apart: one     *)
(* name never stands for both.                                             *)
ASSUME NamesAssumption == (FunctionNames \cup SharedObjects) \cap (SharedFiles \cup PythonFiles) = {}

VARIABLES
  style,
  disk,       \* per host: the files it has and their versions
  job,        \* per handler: the upload or code generation it is at
  todo,       \* the directory iterator of a codegen tool
  tried,      \* per unit or file: the last version a client sent, acknowledged or not
  acked,      \* per unit or file: the last version a client was told is in place
  moduleMap, compiledModuleMap,   \* IRModuleCache
  zygote,     \* the entry of WasmModuleCache
  marks,      \* sharedFileMap
  at, unit, got,      \* per Faaslet: where it is, what it loads, the answer to its GET
  held, module, linked, \* per Faaslet: the module it is about to use, its module, the shared objects it opened
  pending,    \* Faaslets that have a flush message in their queue
  goal, floor \* what was acknowledged when the flush began, and when the last complete one did

serverVars == <<job, todo, tried, acked>>
cacheVars == <<moduleMap, compiledModuleMap, zygote, marks>>
faasletVars == <<at, unit, got, held, module, linked>>
flushVars == <<pending, goal, floor>>
vars == <<style, disk, serverVars, cacheVars, faasletVars, flushVars>>

Units == FunctionNames \cup SharedObjects
Files == SharedFiles \cup PythonFiles
Versions == 1..MaxVersion
Failed == 0
Nothing == <<>>
None == [x \in {} |-> 0]
With(m, x, v) == [y \in DOMAIN m \cup {x} |-> IF y = x THEN v ELSE m[y]]
Unbound == [wasm |-> Failed, object |-> Failed]

-----------------------------------------------------------------------------
(* Where files are: a directory of the configuration and a name below it.  *)
Dir(base, x) == <<base, x>>
FunctionFile(u) == Dir("functionDir", u)
SharedObjectPath(u) == Dir("runtimeFilesDir", u)
GetFunctionObjectFile(u) == Dir("objectFileDir", u)
GetSharedObjectObjectFile(u) == Dir("objectFileDir", u)
GetSharedFileFile(x) == Dir("sharedFilesStorageDir", x)
PythonFile(base, x) == Dir(base, x)
PythonFunctionFile(x) == PythonFile("sharedFilesStorageDir", x)
PythonRuntimeFunctionFile(x) == PythonFile("runtimeFilesDir", x)
PrependSharedRoot(x) == Dir("sharedFilesDir", x)
HashFilePath(p) == Append(p, "md5")

Wasm(u) == IF u \in FunctionNames THEN FunctionFile(u) ELSE SharedObjectPath(u)
ObjectFile(u) == IF u \in FunctionNames THEN GetFunctionObjectFile(u) ELSE GetSharedObjectObjectFile(u)
HashFile(u) == HashFilePath(ObjectFile(u))

(* The server has nothing yet, or a first version of everything; a worker  *)
(* comes with the shared objects: dlopen does not look further for them.   *)
FirstVersions ==
  [p \in {Wasm(u) : u \in Units} \cup {ObjectFile(u) : u \in Units} \cup {HashFile(u) : u \in Units}
         \cup {GetSharedFileFile(x) : x \in Files} |-> 1]
OnTheWorker == [p \in {SharedObjectPath(u) : u \in SharedObjects} |-> 1]

Init ==
  /\ style \in Styles
  /\ tried = [u \in Units \cup Files |-> IF "fresh" \in style THEN Failed ELSE 1] /\ acked = tried
  /\ disk = [h \in {"server", "worker"} |->
               IF "fresh" \in style THEN None ELSE IF h = "server" THEN FirstVersions ELSE OnTheWorker]
  /\ job = [h \in Handlers |-> [at |-> "idle", unit |-> Main, bytes |-> Failed]] /\ todo = {}
  /\ moduleMap = None /\ compiledModuleMap = None /\ zygote = Nothing /\ marks = None
  /\ at = [f \in Faaslets |-> "cold"] /\ unit = [f \in Faaslets |-> Main]
  /\ got = [f \in Faaslets |-> Failed] /\ held = [f \in Faaslets |-> Unbound] /\ module = [f \in Faaslets |-> Unbound]
  /\ linked = [f \in Faaslets |-> {}]
  /\ pending = {} /\ goal = [u \in Units |-> Failed] /\ floor = goal

Exists(h, p) == p \in DOMAIN disk[h]
WriteBytesToFile(h, p, v) == [disk EXCEPT ![h] = With(@, p, v)]
RemoveAll(dirs) == [disk EXCEPT !["worker"] = Restrict(@, {p \in DOMAIN @ : p[1] \notin dirs})]

-----------------------------------------------------------------------------
(* The server.  A client sends a newer version, or again the one whose     *)
(* upload was not acknowledged; nobody works twice on one unit at a time.  *)
Busy(u) == u \in todo \/ \E h \in Handlers : job[h].at # "idle" /\ job[h].unit = u
Idle(h) == job[h].at = "idle"
Sent(u) == {v \in Versions : v = tried[u] + 1 \/ (v = tried[u] /\ acked[u] # v)}

(* The first part of a request's path says what it is about.               *)
PathType(x) == IF x \in FunctionNames THEN "f" ELSE IF x \in PythonFiles THEN "p" ELSE "file"
HandlePut(x, v, type) == PathType(x) = type /\ v \in Sent(x) /\ tried' = [tried EXCEPT ![x] = v]
BuildMessageFromRequest(u, v) == [function |-> u, inputdata |-> v]

UploadFunction(h, msg) ==
  /\ disk' = WriteBytesToFile("server", Wasm(msg.function), msg.inputdata)
  /\ job' = [job EXCEPT ![h] = [at |-> "codegen", unit |-> msg.function, bytes |-> Failed]]

HandleFunctionUpload(h, u, v) ==
  /\ "upload" \in style /\ Idle(h) /\ ~Busy(u)
  /\ HandlePut(u, v, "f") /\ UploadFunction(h, BuildMessageFromRequest(u, v))
  /\ UNCHANGED <<style, todo, acked, cacheVars, faasletVars, flushVars>>

UploadPythonFunction(msg) == disk' = WriteBytesToFile("server", PythonFunctionFile(msg.function), msg.inputdata)
HandlePythonFunctionUpload(x, v) ==
  /\ "files" \in style /\ HandlePut(x, v, "p") /\ UploadPythonFunction(BuildMessageFromRequest(x, v))
  /\ acked' = [acked EXCEPT ![x] = v]
  /\ UNCHANGED <<style, job, todo, cacheVars, faasletVars, flushVars>>

UploadSharedFile(x, v) == disk' = WriteBytesToFile("server", GetSharedFileFile(x), v)
HandleSharedFileUpload(x, v) ==
  /\ "files" \in style /\ HandlePut(x, v, "file") /\ UploadSharedFile(x, v)
  /\ acked' = [acked EXCEPT ![x] = v]
  /\ UNCHANGED <<style, job, todo, cacheVars, faasletVars, flushVars>>

LoadHashForPath(u) == IF Exists("server", HashFile(u)) THEN disk["server"][HashFile(u)] ELSE Failed

(* codegenForFunction and codegenForSharedObject: load the bytes and       *)
(* compare the hashes.                                                     *)
SkipsCodegen(u) == LoadHashForPath(u) = disk["server"][Wasm(u)]
CodegenFor(h) ==
  LET u == job[h].unit IN
  /\ job[h].at = "codegen"
  /\ job' = [job EXCEPT ![h].at = IF SkipsCodegen(u) THEN "reply" ELSE "object", ![h].bytes = disk["server"][Wasm(u)]]
  /\ UNCHANGED <<style, disk, todo, tried, acked, cacheVars, faasletVars, flushVars>>

(* The machine code and then the hash, each a file.                        *)
(* Mutant: the hash first. *)
HashFirst(u) == <<HashFile(u), ObjectFile(u)>>
Built(u) == <<ObjectFile(u), HashFile(u)>>
Upload(h, from, p, to) ==
  /\ job[h].at = from
  /\ disk' = WriteBytesToFile("server", p, job[h].bytes)
  /\ job' = [job EXCEPT ![h].at = to]
  /\ UNCHANGED <<style, todo, tried, acked, cacheVars, faasletVars, flushVars>>
UploadObjectFile(h) == Upload(h, "object", Built(job[h].unit)[1], "hash")
UploadObjectHash(h) == Upload(h, "hash", Built(job[h].unit)[2], "reply")

Reply(h) ==
  /\ job[h].at = "reply"
  /\ acked' = [acked EXCEPT ![job[h].unit] = job[h].bytes]
  /\ job' = [job EXCEPT ![h] = [at |-> "idle", unit |-> Main, bytes |-> Failed]]
  /\ UNCHANGED <<style, disk, todo, tried, cacheVars, faasletVars, flushVars>>

(* A shared object is put in place by other means.                         *)
InstallSharedObject(u, v) ==
  /\ "codegen_shared_obj" \in style /\ u \in SharedObjects /\ ~Busy(u) /\ v \in Sent(u)
  /\ disk' = WriteBytesToFile("server", Wasm(u), v)
  /\ tried' = [tried EXCEPT ![u] = v]
  /\ UNCHANGED <<style, job, todo, acked, cacheVars, faasletVars, flushVars>>

(* The tools: threads that take turns at one directory iterator.           *)
IsValidFunction(u) == Exists("server", Wasm(u))
CodegenForDirectory(tool, dir) ==
  /\ tool \in style /\ todo = {} /\ \A u \in dir : ~Busy(u)
  /\ todo' = {u \in dir : IsValidFunction(u)} /\ todo' # {}
  /\ UNCHANGED <<style, disk, job, tried, acked, cacheVars, faasletVars, flushVars>>

TakePath(u) == todo' = todo \ {u}
CodegenThread(h) ==
  \E u \in todo :
    /\ Idle(h) /\ TakePath(u)
    /\ job' = [job EXCEPT ![h] = [at |-> "codegen", unit |-> u, bytes |-> Failed]]
    /\ UNCHANGED <<style, disk, tried, acked, cacheVars, faasletVars, flushVars>>

ServerCrash ==
  /\ "crash" \in style /\ (todo # {} \/ \E h \in Handlers : ~Idle(h))
  /\ job' = [h \in Handlers |-> [at |-> "idle", unit |-> Main, bytes |-> Failed]] /\ todo' = {}
  /\ UNCHANGED <<style, disk, tried, acked, cacheVars, faasletVars, flushVars>>

(* What a GET names, and where the server has it.                          *)
FileOf(type, x) ==
  CASE type \in {"f", "sobjwasm"} -> Wasm(x) [] type \in {"fo", "sobjobj"} -> ObjectFile(x) [] type = "file" -> GetSharedFileFile(x)
HandleGet(type, x) == LET p == FileOf(type, x) IN IF Exists("server", p) THEN disk["server"][p] ELSE Failed

-----------------------------------------------------------------------------
(* The worker: its locks, and what happens when its process ends.          *)
(* Mutant: a flush that holds the lock already when it clears. *)
RegistryHeldTwice == \A f \in Faaslets : at[f] \notin {"wasmGet", "objectGet", "ir"}
RegistryFree == \A f \in Faaslets : at[f] \notin {"wasmGet", "objectGet"}
ZygoteFree == \A f \in Faaslets : ~(unit[f] = Main /\ at[f] \in {"wasm", "wasmGet", "object", "objectGet", "build"})
MapFree == \A f \in Faaslets : at[f] # "sync"
FlushFree == \A f \in Faaslets : at[f] \notin {"remove", "files", "ir", "zygote"}
Warm == {f \in Faaslets : at[f] # "cold"}

Go(f, to) == at' = [at EXCEPT ![f] = to]
Clean(f) == got' = [got EXCEPT ![f] = Failed] /\ held' = [held EXCEPT ![f] = Unbound]

WorkerDies ==
  /\ at' = [f \in Faaslets |-> "cold"] /\ unit' = [f \in Faaslets |-> Main]
  /\ got' = [f \in Faaslets |-> Failed] /\ held' = [f \in Faaslets |-> Unbound]
  /\ module' = [f \in Faaslets |-> Unbound] /\ linked' = [f \in Faaslets |-> {}]
  /\ moduleMap' = None /\ compiledModuleMap' = None /\ zygote' = Nothing /\ marks' = None
  /\ pending' = {} /\ goal' = [u \in Units |-> Failed]
  /\ UNCHANGED <<style, disk, serverVars, floor>>

(* An exception while it binds or resets its module ends the process; one  *)
(* while it executes a call is caught, and the call fails.                 *)
CallFails(f) ==
  /\ Go(f, "check") /\ Clean(f) /\ unit' = [unit EXCEPT ![f] = Main]
  /\ UNCHANGED <<style, disk, serverVars, cacheVars, module, linked, flushVars>>
Throws(f) == IF unit[f] = Main THEN WorkerDies ELSE CallFails(f)

(* doLoad: a copy on the disk is taken; if there is none, a GET is sent,   *)
(* whose answer is written to the disk before it is used.                  *)
Get(f, u, type, to) ==
  /\ got' = [got EXCEPT ![f] = HandleGet(type, u)] /\ unit' = [unit EXCEPT ![f] = u] /\ Go(f, to)
  /\ UNCHANGED <<style, disk, serverVars, held, module, linked, flushVars>>
Answered(f) == got[f] # Failed
GetFails(f) == at[f] \in {"wasmGet", "objectGet", "sync"} /\ Throws(f)
Stored(f, p) == WriteBytesToFile("worker", p, got[f])

-----------------------------------------------------------------------------
(* A module comes from the zygote, which the first to ask for it builds    *)
(* under the lock of WasmModuleCache; the map is read again without it.    *)
Bind(f) ==
  /\ at[f] = "cold" /\ "bind" \in style /\ pending = {}
  /\ Go(f, "check")
  /\ UNCHANGED <<style, disk, serverVars, cacheVars, unit, got, held, module, linked, flushVars>>

GetCachedModule(f) ==
  /\ at[f] = "check" /\ ZygoteFree
  /\ Go(f, IF zygote = Nothing THEN "wasm" ELSE "ref")
  /\ zygote' = IF zygote = Nothing THEN <<Unbound>> ELSE zygote
  /\ UNCHANGED <<style, disk, serverVars, moduleMap, compiledModuleMap, marks, unit, got, held, module, linked, flushVars>>

IsModuleCached(u) == u \in DOMAIN moduleMap
IsCompiledModuleCached(u) == u \in DOMAIN compiledModuleMap

(* getMainModule, getSharedModule: from the map, the disk or the server.   *)
NowInMap(f, v) ==
  /\ moduleMap' = With(moduleMap, unit[f], v)
  /\ Go(f, "object") /\ Clean(f)
  /\ UNCHANGED <<style, serverVars, compiledModuleMap, zygote, marks, unit, module, linked, flushVars>>

WasmUrl(u) == IF u \in FunctionNames THEN "f" ELSE "sobjwasm"
GetModule(f) ==
  LET u == unit[f] IN
  /\ at[f] = "wasm" /\ RegistryFree
  /\ \/ IsModuleCached(u) /\ NowInMap(f, moduleMap[u]) /\ UNCHANGED disk
     \/ ~IsModuleCached(u) /\ Exists("worker", Wasm(u)) /\ NowInMap(f, disk["worker"][Wasm(u)]) /\ UNCHANGED disk
     \/ ~IsModuleCached(u) /\ ~Exists("worker", Wasm(u)) /\ Get(f, u, WasmUrl(u), "wasmGet") /\ UNCHANGED cacheVars

GotModule(f) ==
  at[f] = "wasmGet" /\ Answered(f) /\ disk' = Stored(f, Wasm(unit[f])) /\ NowInMap(f, got[f])

(* getCompiledMainModule, getCompiledSharedModule: machine code goes with  *)
(* the Wasm that is in the map; without it there is nothing to load it for.*)
LoadPrecompiledModule(f, v) ==
  /\ IsModuleCached(unit[f])
  /\ compiledModuleMap' = With(compiledModuleMap, unit[f], v)
  /\ held' = [held EXCEPT ![f] = [wasm |-> moduleMap[unit[f]], object |-> v]]
  /\ got' = [got EXCEPT ![f] = Failed] /\ Go(f, "build")
  /\ UNCHANGED <<style, serverVars, moduleMap, zygote, marks, unit, module, linked, flushVars>>

ObjectUrl(u) == IF u \in FunctionNames THEN "fo" ELSE "sobjobj"
GetCompiledModule(f) ==
  LET u == unit[f] IN
  /\ at[f] = "object" /\ RegistryFree
  /\ \/ IsCompiledModuleCached(u) /\ LoadPrecompiledModule(f, compiledModuleMap[u]) /\ UNCHANGED disk
     \/ /\ ~IsCompiledModuleCached(u) /\ Exists("worker", ObjectFile(u))
        /\ LoadPrecompiledModule(f, disk["worker"][ObjectFile(u)]) /\ UNCHANGED disk
     \/ /\ ~IsCompiledModuleCached(u) /\ ~Exists("worker", ObjectFile(u))
        /\ Get(f, u, ObjectUrl(u), "objectGet") /\ UNCHANGED cacheVars
     \/ ~IsModuleCached(u) /\ Throws(f)

GotCompiledModule(f) ==
  /\ at[f] = "objectGet" /\ Answered(f)
  /\ disk' = Stored(f, ObjectFile(unit[f])) /\ LoadPrecompiledModule(f, got[f])

(* The module is instantiated: the zygote, if a flush has not taken it     *)
(* away, or a shared object of the module that executes.                   *)
Instantiate(f) ==
  /\ at[f] = "build"
  /\ IF unit[f] = Main
     THEN zygote' = (IF zygote = Nothing THEN Nothing ELSE <<held[f]>>) /\ Go(f, "ref")
     ELSE Go(f, "run") /\ UNCHANGED zygote
  /\ unit' = [unit EXCEPT ![f] = Main] /\ Clean(f)
  /\ UNCHANGED <<style, disk, serverVars, moduleMap, compiledModuleMap, marks, module, linked, flushVars>>

ReadCachedModule(f) ==
  LET cached == IF zygote = Nothing THEN <<Unbound>> ELSE zygote IN
  /\ at[f] = "ref" /\ zygote' = cached
  /\ held' = [held EXCEPT ![f] = cached[1]] /\ Go(f, "clone")
  /\ UNCHANGED <<style, disk, serverVars, moduleMap, compiledModuleMap, marks, unit, got, module, linked, flushVars>>

CloneModule(f) ==
  /\ at[f] = "clone"
  /\ module' = [module EXCEPT ![f] = held[f]]
  /\ Go(f, "idle") /\ Clean(f) /\ linked' = [linked EXCEPT ![f] = {}]
  /\ UNCHANGED <<style, disk, serverVars, cacheVars, unit, flushVars>>

-----------------------------------------------------------------------------
(* Calls.  After each, failed or not, the module is made anew.             *)
ExecuteCall(f) ==
  /\ at[f] = "idle" /\ pending = {}
  /\ Go(f, IF module[f] = Unbound THEN "check" ELSE "run")
  /\ UNCHANGED <<style, disk, serverVars, cacheVars, unit, got, held, module, linked, flushVars>>

Dlopen(f, u) ==
  /\ at[f] = "run" /\ "dlopen" \in style /\ u \in SharedObjects \ linked[f]
  /\ Exists("worker", Wasm(u))
  /\ linked' = [linked EXCEPT ![f] = @ \cup {u}]
  /\ unit' = [unit EXCEPT ![f] = u] /\ Go(f, "wasm")
  /\ UNCHANGED <<style, disk, serverVars, cacheVars, got, held, module, flushVars>>

RealPath(x) == IF x \in PythonFiles THEN PythonRuntimeFunctionFile(x) ELSE PrependSharedRoot(x)
Store(x) == IF x \in PythonFiles THEN PythonFunctionFile(x) ELSE GetSharedFileFile(x)
Mark(x, m) == marks' = With(marks, x, m)
Placed(x, v) == [disk EXCEPT !["worker"] = With(With(@, Store(x), v), RealPath(x), v)]

FoundSharedFile(f, x) ==
  /\ \/ Exists("worker", RealPath(x)) /\ UNCHANGED disk
     \/ ~Exists("worker", RealPath(x)) /\ Exists("worker", Store(x)) /\ disk' = Placed(x, disk["worker"][Store(x)])
  /\ Mark(x, "EXISTS")
  /\ UNCHANGED <<style, serverVars, moduleMap, compiledModuleMap, zygote, faasletVars, flushVars>>
AskForSharedFile(f, x) ==
  /\ ~Exists("worker", RealPath(x)) /\ ~Exists("worker", Store(x))
  /\ Mark(x, "NOT_CHECKED") /\ Get(f, x, "file", "sync")
  /\ UNCHANGED <<moduleMap, compiledModuleMap, zygote>>

SyncSharedFile(f, x) ==
  /\ at[f] = "run" /\ "files" \in style
  /\ x \notin DOMAIN marks /\ MapFree
  /\ FoundSharedFile(f, x) \/ AskForSharedFile(f, x)

GotSharedFile(f) ==
  /\ at[f] = "sync" /\ Answered(f)
  /\ disk' = Placed(unit[f], got[f]) /\ Mark(unit[f], "EXISTS")
  /\ Go(f, "run") /\ Clean(f) /\ unit' = [unit EXCEPT ![f] = Main]
  /\ UNCHANGED <<style, serverVars, moduleMap, compiledModuleMap, zygote, module, linked, flushVars>>

FinishCall(f) ==
  /\ at[f] = "run" /\ Go(f, "check")
  /\ UNCHANGED <<style, disk, serverVars, cacheVars, unit, got, held, module, linked, flushVars>>

BoundTimeout(f) ==
  /\ at[f] = "idle" /\ pending = {}
  /\ Go(f, "cold") /\ module' = [module EXCEPT ![f] = Unbound]
  /\ UNCHANGED <<style, disk, serverVars, cacheVars, unit, got, held, linked, flushVars>>

-----------------------------------------------------------------------------
(* A flush.  Each warm Faaslet of the host gets a message; what it clears  *)
(* another may be using, which is undefined: the process ends, or the      *)
(* other goes on with what it had.                                         *)
FlushLocally ==
  /\ "flush" \in style /\ pending = {} /\ Warm # {}
  /\ pending' = Warm /\ goal' = Restrict(acked, Units)
  /\ UNCHANGED <<style, disk, serverVars, cacheVars, faasletVars, floor>>

Pulled(f, stages) == \E g \in Faaslets \ {f} : at[g] \in stages

(* Mutant: the files go, their marks stay. *)
Kept(m) == m
Cleared(m) == None
ClearSharedFileMap(f) ==
  /\ at[f] = "idle" /\ f \in pending /\ FlushFree
  /\ \/ /\ marks' = Cleared(marks) /\ Go(f, "remove")
        /\ UNCHANGED <<style, disk, serverVars, moduleMap, compiledModuleMap, zygote, unit, got, held, module, linked, flushVars>>
     \/ Pulled(f, {"sync"}) /\ WorkerDies

Remove(f, from, dirs, to) ==
  /\ at[f] = from /\ disk' = RemoveAll(dirs) /\ Go(f, to)
  /\ UNCHANGED <<style, serverVars, cacheVars, unit, got, held, module, linked, flushVars>>
ClearSharedFiles(f) == Remove(f, "remove", {"sharedFilesDir"}, "files")
(* Mutant: the tidy-up of the first Faaslet has to do for all. *)
FlushOnce(f) == Remove(f, "files", IF pending = Faaslets THEN {"functionDir", "objectFileDir"} ELSE {}, "ir")
FlushFunctionFiles(f) == Remove(f, "files", {"functionDir", "objectFileDir"}, "ir")

ClearIRModuleCache(f) ==
  /\ at[f] = "ir" /\ RegistryFree
  /\ \/ /\ moduleMap' = None /\ compiledModuleMap' = None /\ Go(f, "zygote")
        /\ UNCHANGED <<style, disk, serverVars, zygote, marks, unit, got, held, module, linked, flushVars>>
     \/ Pulled(f, {"object", "build"}) /\ WorkerDies

ClearWasmModuleCache(f) ==
  /\ at[f] = "zygote"
  /\ \/ /\ zygote' = Nothing /\ Go(f, "cold") /\ module' = [module EXCEPT ![f] = Unbound]
        /\ pending' = pending \ {f}
        /\ floor' = IF pending' = {} THEN goal ELSE floor
        /\ goal' = IF pending' = {} THEN [u \in Units |-> Failed] ELSE goal
        /\ UNCHANGED <<style, disk, serverVars, moduleMap, compiledModuleMap, marks, unit, got, held, linked>>
     \/ Pulled(f, {"wasm", "wasmGet", "object", "objectGet", "build", "clone"}) /\ WorkerDies

-----------------------------------------------------------------------------
ClientStep ==
  \E v \in Versions :
    \/ \E h \in Handlers, u \in FunctionNames : HandleFunctionUpload(h, u, v)
    \/ \E u \in SharedObjects : InstallSharedObject(u, v)
    \/ \E x \in Files : HandleSharedFileUpload(x, v) \/ HandlePythonFunctionUpload(x, v)
Codegen == 
  \/ CodegenForDirectory("codegen_func", FunctionNames) \/ CodegenForDirectory("codegen_shared_obj", SharedObjects)
  \/ \E h \in Handlers : CodegenThread(h)
ServerStep(h) == CodegenFor(h) \/ UploadObjectFile(h) \/ UploadObjectHash(h) \/ Reply(h)

Loads(f) ==
  \/ GetCachedModule(f) \/ GetModule(f) \/ GotModule(f) \/ GetCompiledModule(f) \/ GotCompiledModule(f)
  \/ Instantiate(f) \/ ReadCachedModule(f) \/ CloneModule(f)
Executes(f) == (\E x \in Files : SyncSharedFile(f, x)) \/ GotSharedFile(f) \/ (\E u \in SharedObjects : Dlopen(f, u)) \/ FinishCall(f)
Flushes(f) == ClearSharedFileMap(f) \/ ClearSharedFiles(f) \/ FlushFunctionFiles(f) \/ ClearIRModuleCache(f) \/ ClearWasmModuleCache(f)
FaasletStep(f) == Loads(f) \/ GotSharedFile(f) \/ FinishCall(f) \/ Flushes(f) \/ GetFails(f)

Next ==
  \/ ClientStep \/ Codegen \/ ServerCrash \/ FlushLocally
  \/ \E h \in Handlers : ServerStep(h)
  \/ \E f \in Faaslets : Bind(f) \/ ExecuteCall(f) \/ BoundTimeout(f) \/ Loads(f) \/ Executes(f) \/ Flushes(f) \/ GetFails(f)

(* A thread that can go on does, a GET is answered or fails, and a         *)
(* function that runs ends.                                                *)
Spec == Init /\ [][Next]_vars
FairSpec == Spec /\ \A f \in Faaslets : WF_vars(FaasletStep(f))

-----------------------------------------------------------------------------
(* What a client was told is in place is in place, built: when the last    *)
(* version it sent is acknowledged, the Wasm and the machine code on the   *)
(* server are of that version, whatever crashed uploads, retries and runs  *)
(* of the codegen tool came before.                                        *)
AckedBuilt ==
  \A u \in Units : acked[u] = tried[u] /\ acked[u] # Failed =>
    disk["server"][Wasm(u)] = acked[u] /\ Exists("server", ObjectFile(u)) /\ disk["server"][ObjectFile(u)] = acked[u]

(* While no flush is under way, a Faaslet that is bound has a whole module *)
(* to run, not one that is still being built, and after a flush nothing    *)
(* older than what was acknowledged when it began is run or cached on the  *)
(* host: not the Wasm and the machine code of a Faaslet's module, not the  *)
(* machine code of a shared object.  (A shared object's own Wasm is not    *)
(* flushed.)                                                               *)
ModulesBound == \A f \in Faaslets : at[f] \in {"idle", "run"} => module[f] # Unbound
FlushedIsGone ==
  pending = {} =>
    /\ ModulesBound
    /\ \A f \in Faaslets : module[f] # Unbound => module[f].wasm >= floor[Main] /\ module[f].object >= floor[Main]
    /\ \A u \in DOMAIN compiledModuleMap : compiledModuleMap[u] >= floor[u]

(* While no flush is under way, a shared file marked as existing is there: *)
(* functions open it without another look at the server.                   *)
MarkedIsThere == pending = {} => \A x \in DOMAIN marks : marks[x] = "EXISTS" => Exists("worker", RealPath(x))

(* A flush ends: the Faaslets do not wait for one another's locks for ever.*)
FlushEnds == pending # {} ~> pending = {}
=============================================================================
