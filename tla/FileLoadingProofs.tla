------------------------- MODULE FileLoadingProofs -------------------------
(***************************************************************************)
(* Theorems about FileLoading: what was acknowledged is built, a flush     *)
(* leaves nothing older than what was acknowledged when it began, and a    *)
(* mark of a shared file is true, for any number of handlers, Faaslets,    *)
(* functions, shared objects and versions.                                 *)
(***************************************************************************)
EXTENDS FileLoading, SequenceTheorems, TLAPS

-----------------------------------------------------------------------------
ServerDisk == disk["server"]
WorkerDisk == disk["worker"]
Version == Nat \ {Failed}
Modules == [wasm : Nat, object : Nat]

ServerTypes ==
  /\ disk = [h \in {"server", "worker"} |-> disk[h]]
  /\ ServerDisk \in [DOMAIN ServerDisk -> Version]
  /\ job \in [Handlers -> [at : {"idle", "codegen", "object", "hash", "reply"}, unit : Units, bytes : Nat]]
  /\ todo \subseteq Units
  /\ tried \in [Units \cup Files -> Nat] /\ acked \in [Units \cup Files -> Nat]

(* The files of a unit on the server: its Wasm is what was sent last, and  *)
(* its hash is that of the last version only with the machine code of it.  *)
FilesInv ==
  \A u \in Units :
    /\ Wasm(u) \in DOMAIN ServerDisk <=> tried[u] # Failed
    /\ tried[u] # Failed => ServerDisk[Wasm(u)] = tried[u]
    /\ ObjectFile(u) \in DOMAIN ServerDisk => ServerDisk[ObjectFile(u)] <= tried[u]
    /\ HashFile(u) \in DOMAIN ServerDisk => ServerDisk[HashFile(u)] <= tried[u]
    /\ HashFile(u) \in DOMAIN ServerDisk /\ ServerDisk[HashFile(u)] = tried[u] =>
         ObjectFile(u) \in DOMAIN ServerDisk /\ ServerDisk[ObjectFile(u)] = tried[u]

(* What was acknowledged, it or a newer version, is built. *)
AckedInv ==
  \A u \in Units :
    /\ acked[u] <= tried[u]
    /\ acked[u] # Failed => ObjectFile(u) \in DOMAIN ServerDisk /\ acked[u] <= ServerDisk[ObjectFile(u)]

(* Handlers work on units of their own, and on the last version of each. *)
WorkInv ==
  /\ \A u \in todo : tried[u] # Failed
  /\ \A h \in Handlers : job[h].at # "idle" =>
       /\ job[h].unit \notin todo /\ tried[job[h].unit] # Failed
       /\ job[h].at # "codegen" => job[h].bytes = tried[job[h].unit]
       /\ job[h].at \in {"hash", "reply"} =>
            /\ ObjectFile(job[h].unit) \in DOMAIN ServerDisk
            /\ ServerDisk[ObjectFile(job[h].unit)] = tried[job[h].unit]
  /\ \A h, k \in Handlers : job[h].at # "idle" /\ job[k].at # "idle" /\ job[h].unit = job[k].unit => h = k

ServerInv == ServerTypes /\ FilesInv /\ AckedInv /\ WorkInv

-----------------------------------------------------------------------------
FlushStages == {"remove", "files", "ir", "zygote"}
LoadStages == {"wasm", "wasmGet", "object", "objectGet", "build"}
Stages == FlushStages \cup LoadStages \cup {"cold", "check", "ref", "clone", "idle", "run", "sync"}

WorkerTypes ==
  /\ WorkerDisk \in [DOMAIN WorkerDisk -> Version]
  /\ at \in [Faaslets -> Stages] /\ unit \in [Faaslets -> Units \cup Files] /\ got \in [Faaslets -> Nat]
  /\ held \in [Faaslets -> Modules] /\ module \in [Faaslets -> Modules]
  /\ DOMAIN moduleMap \subseteq Units /\ moduleMap \in [DOMAIN moduleMap -> Version]
  /\ DOMAIN compiledModuleMap \subseteq Units /\ compiledModuleMap \in [DOMAIN compiledModuleMap -> Version]
  /\ zygote = Nothing \/ (zygote = <<zygote[1]>> /\ zygote[1] \in Modules)
  /\ pending \subseteq Faaslets
  /\ goal \in [Units -> Nat] /\ floor \in [Units -> Nat]

(* What a Faaslet has in its hands where. *)
HandsOf(s, u, g, k, m) ==
  /\ s \notin LoadStages \cup {"sync"} => u = Main
  /\ s \in LoadStages => u \in {Main} \cup SharedObjects
  /\ s = "sync" => u \in Files
  /\ s \notin {"wasmGet", "objectGet", "sync"} => g = Failed
  /\ s \notin {"build", "clone"} => k = Unbound
  /\ s = "cold" => m = Unbound
HandsInv == \A f \in Faaslets : HandsOf(at[f], unit[f], got[f], held[f], module[f])

(* A flush under way is that of all warm Faaslets, one after the other. *)
Later == \E g \in pending : at[g] \notin FlushStages
FlushInv ==
  /\ \A f \in Faaslets : pending # {} => (f \in pending <=> at[f] # "cold")
  /\ \A f \in Faaslets : at[f] \in FlushStages => f \in pending
  /\ \A f, g \in Faaslets : at[f] \in FlushStages /\ at[g] \in FlushStages => f = g

(* What the last of them has cleared stays so: nobody else is at work. *)
Flushed == {"functionDir", "objectFileDir"}
ClearedInv ==
  /\ \A f \in Faaslets : at[f] = "remove" => Later \/ marks = None
  /\ \A f \in Faaslets : at[f] \in {"ir", "zygote"} => Later \/ \A p \in DOMAIN WorkerDisk : p[1] \notin Flushed
  /\ \A f \in Faaslets : at[f] = "zygote" => Later \/ (moduleMap = None /\ compiledModuleMap = None)

MarkInv == \A x \in DOMAIN marks : marks[x] = "EXISTS" => Later \/ RealPath(x) \in DOMAIN WorkerDisk

(* Nothing on the worker is older than what was acknowledged when the last *)
(* complete flush began.                                                   *)
Fresh(m) == m # Unbound => m.wasm >= floor[Main] /\ m.object >= floor[Main]
FreshHands(s, u, g, k, m) ==
  /\ s = "wasmGet" /\ u = Main /\ g # Failed => g >= floor[u]
  /\ s = "objectGet" /\ g # Failed => g >= floor[u]
  /\ (s = "build" /\ u = Main) \/ s = "clone" => Fresh(k)
  /\ Fresh(m)
FloorInv == \A u \in Units : floor[u] <= acked[u] /\ goal[u] <= acked[u]
DiskFresh ==
  /\ \A u \in FunctionNames : Wasm(u) \in DOMAIN WorkerDisk => WorkerDisk[Wasm(u)] >= floor[u]
  /\ \A u \in Units : ObjectFile(u) \in DOMAIN WorkerDisk => WorkerDisk[ObjectFile(u)] >= floor[u]
MapsFresh ==
  /\ Main \in DOMAIN moduleMap => moduleMap[Main] >= floor[Main]
  /\ \A u \in DOMAIN compiledModuleMap : compiledModuleMap[u] >= floor[u]
ZygoteFresh == zygote # Nothing => Fresh(zygote[1])
HandsFresh == \A f \in Faaslets : FreshHands(at[f], unit[f], got[f], held[f], module[f])
FreshInv == FloorInv /\ DiskFresh /\ MapsFresh /\ ZygoteFresh /\ HandsFresh

(* Who builds the zygote, alone; and that what is cloned was built, while  *)
(* no flush is under way.                                                  *)
Builds(f) == at[f] \in LoadStages /\ unit[f] = Main
BoundInv ==
  /\ \A f, g \in Faaslets : Builds(f) /\ Builds(g) => f = g
  /\ \A f \in Faaslets : at[f] = "build" => held[f] # Unbound
  /\ pending = {} =>
       /\ \A f \in Faaslets : Builds(f) => zygote = <<Unbound>>
       /\ zygote = <<Unbound>> => \E f \in Faaslets : Builds(f)
       /\ \A f \in Faaslets : at[f] = "ref" => zygote # Nothing /\ zygote # <<Unbound>>
       /\ \A f \in Faaslets : at[f] = "clone" => held[f] # Unbound
       /\ \A f \in Faaslets : at[f] \in {"idle", "run", "sync"} \/ (at[f] \in LoadStages /\ unit[f] # Main) => module[f] # Unbound

WorkerInv == WorkerTypes /\ HandsInv /\ FlushInv /\ ClearedInv /\ MarkInv /\ FreshInv /\ BoundInv
IInv == ServerInv /\ WorkerInv

-----------------------------------------------------------------------------
(* Paths name one file of one thing. *)
LEMMA HashPaths ==
  ASSUME NEW u
  PROVE  HashFile(u)[2] = u /\ Len(HashFile(u)) = 3 /\ Len(ObjectFile(u)) = 2 /\ ObjectFile(u) = <<"objectFileDir", u>>
<1> DEFINE S == {"objectFileDir", u, "md5"}
<1>1. ObjectFile(u) = <<"objectFileDir", u>>
  BY DEF ObjectFile, GetFunctionObjectFile, GetSharedObjectObjectFile, Dir
<1>2. <<"objectFileDir", u>> \in Seq(S) /\ Len(<<"objectFileDir", u>>) = 2 /\ "md5" \in S
  OBVIOUS
<1>3. Len(Append(<<"objectFileDir", u>>, "md5")) = 3 /\ Append(<<"objectFileDir", u>>, "md5")[2] = u
  BY <1>2, AppendProperties
<1> QED
  BY <1>1, <1>2, <1>3 DEF HashFile, HashFilePath

LEMMA UnitPaths ==
  /\ \A u, v \in Units : Wasm(u) = Wasm(v) => u = v
  /\ \A u, v \in Units : ObjectFile(u) = ObjectFile(v) => u = v
  /\ \A u, v \in Units : HashFile(u) = HashFile(v) => u = v
  /\ \A u, v \in Units : Wasm(u) # ObjectFile(v) /\ Wasm(u) # HashFile(v) /\ ObjectFile(u) # HashFile(v)
<1>1. \A u \in Units : ObjectFile(u) = <<"objectFileDir", u>> /\ Len(ObjectFile(u)) = 2
  BY HashPaths
<1>2. \A u \in Units : HashFile(u)[2] = u /\ Len(HashFile(u)) = 3
  BY HashPaths
<1>3. \A u \in Units : Wasm(u) = <<"functionDir", u>> \/ Wasm(u) = <<"runtimeFilesDir", u>>
  BY DEF Wasm, FunctionFile, SharedObjectPath, Dir
<1>4. \A u \in Units : /\ Len(Wasm(u)) = 2 /\ Wasm(u)[2] = u /\ Wasm(u)[1] # "objectFileDir"
                       /\ ObjectFile(u)[1] = "objectFileDir" /\ ObjectFile(u)[2] = u
  BY <1>1, <1>3
<1>5. \A u, v \in Units : Wasm(u) = Wasm(v) => u = v
  BY <1>4
<1>6. \A u, v \in Units : ObjectFile(u) = ObjectFile(v) => u = v
  BY <1>4
<1>7. \A u, v \in Units : HashFile(u) = HashFile(v) => u = v
  BY <1>2
<1>8. \A u, v \in Units : Wasm(u) # ObjectFile(v) /\ Wasm(u) # HashFile(v) /\ ObjectFile(u) # HashFile(v)
  BY <1>1, <1>2, <1>4
<1> QED
  BY <1>5, <1>6, <1>7, <1>8

LEMMA SharedPaths ==
  /\ \A x \in Files, u \in Units :
       /\ PythonFunctionFile(x) \notin {Wasm(u), ObjectFile(u), HashFile(u)}
       /\ GetSharedFileFile(x) \notin {Wasm(u), ObjectFile(u), HashFile(u)}
       /\ Store(x) \notin {ObjectFile(u), HashFile(u)} /\ RealPath(x) \notin {ObjectFile(u), HashFile(u)}
  /\ \A x \in Files, u \in FunctionNames : RealPath(x) # Wasm(u) /\ Store(x) # Wasm(u)
  /\ \A x \in Files : RealPath(x)[1] \notin Flushed
  /\ \A u \in FunctionNames : Wasm(u)[1] \in Flushed
  /\ \A u \in Units : ObjectFile(u)[1] \in Flushed
<1>1. \A u \in Units : ObjectFile(u) = <<"objectFileDir", u>> /\ Len(HashFile(u)) = 3
  BY HashPaths
<1>2. \A u \in Units : Wasm(u) = <<"functionDir", u>> \/ Wasm(u) = <<"runtimeFilesDir", u>>
  BY DEF Wasm, FunctionFile, SharedObjectPath, Dir
<1>3. \A u \in FunctionNames : Wasm(u) = <<"functionDir", u>>
  BY DEF Wasm, FunctionFile, Dir
<1>4. \A x \in Files : PythonFunctionFile(x) = <<"sharedFilesStorageDir", x>> /\ GetSharedFileFile(x) = <<"sharedFilesStorageDir", x>>
  BY DEF PythonFunctionFile, GetSharedFileFile, PythonFile, Dir
<1>5. \A x \in Files : Store(x) = <<"sharedFilesStorageDir", x>>
  BY <1>4 DEF Store
<1>6. \A x \in Files : RealPath(x) = <<"runtimeFilesDir", x>> \/ RealPath(x) = <<"sharedFilesDir", x>>
  BY DEF RealPath, PythonRuntimeFunctionFile, PrependSharedRoot, PythonFile, Dir
<1>7. \A x \in Files, u \in Units : PythonFunctionFile(x) \notin {Wasm(u), ObjectFile(u), HashFile(u)}
                                    /\ GetSharedFileFile(x) \notin {Wasm(u), ObjectFile(u), HashFile(u)}
  BY <1>1, <1>2, <1>4
<1>8. \A x \in Files, u \in Units : Store(x) \notin {ObjectFile(u), HashFile(u)} /\ RealPath(x) \notin {ObjectFile(u), HashFile(u)}
  BY <1>1, <1>5, <1>6
<1>9. \A x \in Files, u \in FunctionNames : RealPath(x) # Wasm(u) /\ Store(x) # Wasm(u)
  <2>1. SUFFICES ASSUME NEW x \in Files, NEW u \in FunctionNames PROVE RealPath(x) # Wasm(u) /\ Store(x) # Wasm(u)
    OBVIOUS
  <2>2. Wasm(u) = <<"functionDir", u>>
    BY <1>3
  <2> QED
    BY <2>2, <1>5, <1>6
<1>10. /\ \A x \in Files : RealPath(x)[1] \notin Flushed
       /\ \A u \in FunctionNames : Wasm(u)[1] \in Flushed
       /\ \A u \in Units : ObjectFile(u)[1] \in Flushed
  BY <1>1, <1>3, <1>6 DEF Flushed
<1> QED
  BY <1>7, <1>8, <1>9, <1>10

(* Writes. *)
LEMMA WithFacts ==
  ASSUME NEW m, NEW x, NEW v
  PROVE  /\ DOMAIN With(m, x, v) = DOMAIN m \cup {x}
         /\ With(m, x, v)[x] = v
         /\ \A y \in DOMAIN m : y # x => With(m, x, v)[y] = m[y]
BY DEF With

LEMMA WithTyped ==
  ASSUME NEW V, NEW m, m \in [DOMAIN m -> V], NEW x, NEW v \in V
  PROVE  With(m, x, v) \in [DOMAIN With(m, x, v) -> V]
BY DEF With

LEMMA ServerWrite ==
  ASSUME ServerTypes, NEW p, NEW v \in Version, disk' = WriteBytesToFile("server", p, v)
  PROVE  /\ ServerDisk' = With(ServerDisk, p, v) /\ WorkerDisk' = WorkerDisk
         /\ disk' = [h \in {"server", "worker"} |-> disk'[h]]
         /\ ServerDisk' \in [DOMAIN ServerDisk' -> Version]
<1>1. /\ ServerDisk' = With(ServerDisk, p, v) /\ WorkerDisk' = WorkerDisk
      /\ disk' = [h \in {"server", "worker"} |-> disk'[h]]
  BY DEF ServerTypes, ServerDisk, WorkerDisk, WriteBytesToFile
<1> QED
  BY <1>1, WithTyped DEF ServerTypes

LEMMA WorkerWrite ==
  ASSUME ServerTypes, WorkerTypes, NEW p, NEW v \in Version, disk' = WriteBytesToFile("worker", p, v)
  PROVE  /\ WorkerDisk' = With(WorkerDisk, p, v) /\ ServerDisk' = ServerDisk
         /\ disk' = [h \in {"server", "worker"} |-> disk'[h]]
         /\ WorkerDisk' \in [DOMAIN WorkerDisk' -> Version]
<1>1. /\ WorkerDisk' = With(WorkerDisk, p, v) /\ ServerDisk' = ServerDisk
      /\ disk' = [h \in {"server", "worker"} |-> disk'[h]]
  BY DEF ServerTypes, ServerDisk, WorkerDisk, WriteBytesToFile
<1> QED
  BY <1>1, WithTyped DEF WorkerTypes

-----------------------------------------------------------------------------
(* The server. *)
LEMMA ServerInit == Init => ServerInv
<1> SUFFICES ASSUME Init PROVE ServerInv
  OBVIOUS
<1>1. ServerTypes
  BY LoadingAssumption DEF Init, ServerTypes, ServerDisk, Units, None, FirstVersions, OnTheWorker, Version, Failed
<1>2. CASE "fresh" \in style
  <2>1. \A u \in Units : tried[u] = 0 /\ acked[u] = 0
    BY <1>2 DEF Init, Failed
  <2>2. ServerDisk = None
    BY <1>2 DEF Init, ServerDisk
  <2>3. FilesInv /\ AckedInv
    BY <2>1, <2>2 DEF FilesInv, AckedInv, None, Failed
  <2>4. WorkInv
    BY DEF WorkInv, Init
  <2> QED
    BY <1>1, <2>3, <2>4 DEF ServerInv
<1>3. CASE "fresh" \notin style
  <2>1. \A u \in Units : tried[u] = 1 /\ acked[u] = 1
    BY <1>3 DEF Init
  <2>2. ServerDisk = FirstVersions
    BY <1>3 DEF Init, ServerDisk
  <2>3. \A u \in Units : \A p \in {Wasm(u), ObjectFile(u), HashFile(u)} : p \in DOMAIN FirstVersions /\ FirstVersions[p] = 1
    BY DEF FirstVersions
  <2>4. FilesInv /\ AckedInv
    BY <2>1, <2>2, <2>3 DEF FilesInv, AckedInv, Failed
  <2>5. WorkInv
    BY DEF WorkInv, Init
  <2> QED
    BY <1>1, <2>4, <2>5 DEF ServerInv
<1> QED
  BY <1>2, <1>3

LEMMA ServerFrame ==
  ASSUME ServerInv, UNCHANGED serverVars, ServerDisk' = ServerDisk, disk' = [h \in {"server", "worker"} |-> disk'[h]]
  PROVE  ServerInv'
BY DEF ServerInv, ServerTypes, FilesInv, AckedInv, WorkInv, serverVars

(* A version of the Wasm of a unit that nobody is at. *)
LEMMA WasmWritten ==
  ASSUME ServerInv, NEW u \in Units, NEW v \in Version, ServerDisk' = With(ServerDisk, Wasm(u), v),
         tried' = [tried EXCEPT ![u] = v], v >= tried[u], acked' = acked
  PROVE  FilesInv' /\ AckedInv'
<1>1. /\ DOMAIN ServerDisk' = DOMAIN ServerDisk \cup {Wasm(u)} /\ ServerDisk'[Wasm(u)] = v
      /\ \A p \in DOMAIN ServerDisk : p # Wasm(u) => ServerDisk'[p] = ServerDisk[p]
  BY DEF With
<1>2. /\ tried'[u] = v /\ \A w \in Units : w # u => tried'[w] = tried[w]
      /\ \A w \in Units : tried[w] \in Nat /\ tried'[w] \in Nat /\ tried'[w] >= tried[w] /\ acked'[w] \in Nat
  BY DEF ServerInv, ServerTypes, Version
<1>3. \A w \in Units : ObjectFile(w) # Wasm(u) /\ HashFile(w) # Wasm(u) /\ (Wasm(w) = Wasm(u) => w = u)
  BY UnitPaths
<1>4. \A p \in DOMAIN ServerDisk : ServerDisk[p] \in Nat \ {0}
  BY DEF ServerInv, ServerTypes, Version, Failed
<1>5. v \in Nat \ {0}
  BY DEF Version, Failed
<1>6. FilesInv'
  <2> SUFFICES ASSUME NEW w \in Units
               PROVE  /\ Wasm(w) \in DOMAIN ServerDisk' <=> tried'[w] # Failed
                      /\ tried'[w] # Failed => ServerDisk'[Wasm(w)] = tried'[w]
                      /\ ObjectFile(w) \in DOMAIN ServerDisk' => ServerDisk'[ObjectFile(w)] <= tried'[w]
                      /\ HashFile(w) \in DOMAIN ServerDisk' => ServerDisk'[HashFile(w)] <= tried'[w]
                      /\ HashFile(w) \in DOMAIN ServerDisk' /\ ServerDisk'[HashFile(w)] = tried'[w] =>
                           ObjectFile(w) \in DOMAIN ServerDisk' /\ ServerDisk'[ObjectFile(w)] = tried'[w]
    BY DEF FilesInv
  <2> QED
    BY <1>1, <1>2, <1>3, <1>4, <1>5 DEF ServerInv, FilesInv, Failed
<1>7. AckedInv'
  <2>1. \A w \in Units : ObjectFile(w) \in DOMAIN ServerDisk => ServerDisk'[ObjectFile(w)] = ServerDisk[ObjectFile(w)]
    BY <1>1, <1>3
  <2> QED
    BY <1>1, <1>2, <2>1 DEF ServerInv, AckedInv
<1> QED
  BY <1>6, <1>7

LEMMA ServerFunctionUpload ==
  ASSUME ServerInv, NEW h \in Handlers, NEW u \in FunctionNames, NEW v \in Versions, HandleFunctionUpload(h, u, v)
  PROVE  ServerInv' /\ WorkerDisk' = WorkerDisk
<1>1. u \in Units /\ v \in Version /\ u \notin todo /\ job[h].at = "idle" /\ \A k \in Handlers : job[k].at = "idle" \/ job[k].unit # u
  BY LoadingAssumption DEF HandleFunctionUpload, Units, Versions, Version, Failed, Busy, Idle
<1>2. tried' = [tried EXCEPT ![u] = v] /\ v >= tried[u] /\ disk' = WriteBytesToFile("server", Wasm(u), v) /\ UNCHANGED <<acked, todo>>
      /\ job' = [job EXCEPT ![h] = [at |-> "codegen", unit |-> u, bytes |-> Failed]]
  BY <1>1 DEF ServerInv, ServerTypes, HandleFunctionUpload, HandlePut, Sent, UploadFunction, BuildMessageFromRequest
<1>3. ServerTypes
  BY DEF ServerInv
<1>4. /\ ServerDisk' = With(ServerDisk, Wasm(u), v) /\ WorkerDisk' = WorkerDisk
      /\ disk' = [g \in {"server", "worker"} |-> disk'[g]] /\ ServerDisk' \in [DOMAIN ServerDisk' -> Version]
  BY <1>1, <1>2, <1>3, ServerWrite
<1>5. FilesInv' /\ AckedInv'
  BY <1>1, <1>2, <1>4, WasmWritten
<1>6. ServerTypes'
  BY <1>1, <1>2, <1>4 DEF ServerInv, ServerTypes, Version, Failed
<1>7. job'[h].at = "codegen" /\ job'[h].unit = u /\ \A k \in Handlers : k # h => job'[k] = job[k]
  BY <1>2, <1>3 DEF ServerTypes
<1>8. \A w \in Units : w # u => tried'[w] = tried[w]
  BY <1>2, <1>3 DEF ServerTypes
<1>9. /\ DOMAIN ServerDisk \subseteq DOMAIN ServerDisk'
      /\ \A w \in Units : ObjectFile(w) \in DOMAIN ServerDisk => ServerDisk'[ObjectFile(w)] = ServerDisk[ObjectFile(w)]
  BY <1>1, <1>4, UnitPaths DEF With
<1>10. tried'[u] # Failed
  BY <1>1, <1>2, <1>3 DEF ServerTypes, Version
<1>11. \A k \in Handlers : job[k].unit \in Units
  BY <1>3 DEF ServerTypes
<1>12. WorkInv'
  <2>1. \A w \in todo' : tried'[w] # Failed
    BY <1>1, <1>2, <1>3, <1>8 DEF ServerInv, WorkInv, ServerTypes
  <2>2. ASSUME NEW k \in Handlers, job'[k].at # "idle"
        PROVE  /\ job'[k].unit \notin todo' /\ tried'[job'[k].unit] # Failed
               /\ job'[k].at # "codegen" => job'[k].bytes = tried'[job'[k].unit]
               /\ job'[k].at \in {"hash", "reply"} =>
                    /\ ObjectFile(job'[k].unit) \in DOMAIN ServerDisk'
                    /\ ServerDisk'[ObjectFile(job'[k].unit)] = tried'[job'[k].unit]
    <3>1. CASE k = h
      BY <1>1, <1>2, <1>7, <1>10, <3>1
    <3>2. CASE k # h
      BY <1>1, <1>2, <1>7, <1>8, <1>9, <1>11, <2>2, <3>2 DEF ServerInv, WorkInv
    <3> QED
      BY <3>1, <3>2
  <2>3. \A g, k \in Handlers : job'[g].at # "idle" /\ job'[k].at # "idle" /\ job'[g].unit = job'[k].unit => g = k
    BY <1>1, <1>7 DEF ServerInv, WorkInv
  <2> QED
    BY <2>1, <2>2, <2>3 DEF WorkInv
<1> QED
  BY <1>4, <1>5, <1>6, <1>12 DEF ServerInv

LEMMA ServerInstall ==
  ASSUME ServerInv, NEW u \in SharedObjects, NEW v \in Versions, InstallSharedObject(u, v)
  PROVE  ServerInv' /\ WorkerDisk' = WorkerDisk
<1>1. u \in Units /\ v \in Version /\ u \notin todo /\ \A k \in Handlers : job[k].at = "idle" \/ job[k].unit # u
  BY LoadingAssumption DEF InstallSharedObject, Units, Versions, Version, Failed, Busy
<1>2. tried' = [tried EXCEPT ![u] = v] /\ v >= tried[u] /\ disk' = WriteBytesToFile("server", Wasm(u), v) /\ UNCHANGED <<acked, todo, job>>
  BY <1>1 DEF ServerInv, ServerTypes, InstallSharedObject, Sent
<1>3. ServerTypes
  BY DEF ServerInv
<1>4. /\ ServerDisk' = With(ServerDisk, Wasm(u), v) /\ WorkerDisk' = WorkerDisk
      /\ disk' = [g \in {"server", "worker"} |-> disk'[g]] /\ ServerDisk' \in [DOMAIN ServerDisk' -> Version]
  BY <1>1, <1>2, <1>3, ServerWrite
<1>5. FilesInv' /\ AckedInv'
  BY <1>1, <1>2, <1>4, WasmWritten
<1>6. ServerTypes'
  BY <1>1, <1>2, <1>4 DEF ServerInv, ServerTypes, Version, Failed
<1>7. \A w \in Units : w # u => tried'[w] = tried[w]
  BY <1>2, <1>3 DEF ServerTypes
<1>8. /\ DOMAIN ServerDisk \subseteq DOMAIN ServerDisk'
      /\ \A w \in Units : ObjectFile(w) \in DOMAIN ServerDisk => ServerDisk'[ObjectFile(w)] = ServerDisk[ObjectFile(w)]
  BY <1>1, <1>4, UnitPaths DEF With
<1>9. \A k \in Handlers : job[k].unit \in Units
  BY <1>3 DEF ServerTypes
<1>10. WorkInv'
  BY <1>1, <1>2, <1>3, <1>7, <1>8, <1>9 DEF ServerInv, WorkInv, ServerTypes
<1> QED
  BY <1>4, <1>5, <1>6, <1>10 DEF ServerInv

(* A file that belongs to no unit. *)
LEMMA ServerShared ==
  ASSUME ServerInv, NEW x \in Files, NEW v \in Versions, HandleSharedFileUpload(x, v) \/ HandlePythonFunctionUpload(x, v)
  PROVE  ServerInv' /\ WorkerDisk' = WorkerDisk
<1>1. x \notin Units /\ v \in Version
  BY LoadingAssumption, NamesAssumption DEF Units, Files, Versions, Version, Failed
<1>2. PICK p \in {PythonFunctionFile(x), GetSharedFileFile(x)} : disk' = WriteBytesToFile("server", p, v)
  BY DEF HandleSharedFileUpload, HandlePythonFunctionUpload, UploadSharedFile, UploadPythonFunction, BuildMessageFromRequest
<1>3. /\ tried' = [tried EXCEPT ![x] = v] /\ acked' = [acked EXCEPT ![x] = v] /\ UNCHANGED <<job, todo>>
  BY DEF HandleSharedFileUpload, HandlePythonFunctionUpload, HandlePut
<1>4. ServerTypes
  BY DEF ServerInv
<1>5. /\ ServerDisk' = With(ServerDisk, p, v) /\ WorkerDisk' = WorkerDisk
      /\ disk' = [g \in {"server", "worker"} |-> disk'[g]] /\ ServerDisk' \in [DOMAIN ServerDisk' -> Version]
  BY <1>1, <1>2, <1>4, ServerWrite
<1>6. \A u \in Units : p # Wasm(u) /\ p # ObjectFile(u) /\ p # HashFile(u)
  BY <1>2, SharedPaths
<1>7. /\ DOMAIN ServerDisk' = DOMAIN ServerDisk \cup {p}
      /\ \A q \in DOMAIN ServerDisk : q # p => ServerDisk'[q] = ServerDisk[q]
  BY <1>5 DEF With
<1>8. \A u \in Units : tried'[u] = tried[u] /\ acked'[u] = acked[u]
  BY <1>1, <1>3, <1>4 DEF ServerTypes
<1>9. ServerTypes'
  BY <1>1, <1>3, <1>4, <1>5 DEF ServerTypes, Version
<1>10. FilesInv' /\ AckedInv'
  BY <1>6, <1>7, <1>8 DEF ServerInv, FilesInv, AckedInv
<1>11. \A k \in Handlers : job[k].unit \in Units
  BY <1>4 DEF ServerTypes
<1>12. WorkInv'
  BY <1>3, <1>4, <1>6, <1>7, <1>8, <1>11 DEF ServerInv, WorkInv, ServerTypes
<1> QED
  BY <1>5, <1>9, <1>10, <1>12 DEF ServerInv

(* Machine code is made of the last version. *)
LEMMA ServerCodegenFor ==
  ASSUME ServerInv, NEW h \in Handlers, CodegenFor(h)
  PROVE  ServerInv' /\ WorkerDisk' = WorkerDisk
<1> DEFINE u == job[h].unit
<1>1. ServerTypes /\ UNCHANGED <<disk, todo, tried, acked>> /\ job[h].at = "codegen"
  BY DEF ServerInv, CodegenFor
<1>2. UNCHANGED <<ServerDisk, WorkerDisk>>
  BY <1>1 DEF ServerDisk, WorkerDisk
<1>3. u \in Units /\ tried[u] # Failed /\ ServerDisk[Wasm(u)] = tried[u] /\ u \notin todo /\ tried[u] \in Nat
  BY <1>1 DEF ServerInv, WorkInv, FilesInv, ServerTypes
<1>4. PICK s \in {"reply", "object"} :
        /\ job' = [job EXCEPT ![h].at = s, ![h].bytes = tried[u]]
        /\ s = "reply" => LoadHashForPath(u) = tried[u]
  BY <1>3 DEF CodegenFor, SkipsCodegen, ServerDisk
<1>5. job'[h].at = s /\ job'[h].unit = u /\ job'[h].bytes = tried[u] /\ \A k \in Handlers : k # h => job'[k] = job[k]
  BY <1>1, <1>4 DEF ServerTypes
<1>6. s = "reply" => ObjectFile(u) \in DOMAIN ServerDisk /\ ServerDisk[ObjectFile(u)] = tried[u]
  BY <1>3, <1>4 DEF ServerInv, FilesInv, LoadHashForPath, Exists, ServerDisk, Failed
<1>7. ServerTypes'
  BY <1>1, <1>2, <1>3, <1>4 DEF ServerTypes
<1>8. FilesInv' /\ AckedInv'
  BY <1>1, <1>2 DEF ServerInv, FilesInv, AckedInv
<1>9. WorkInv'
  <2>1. \A w \in todo' : tried'[w] # Failed
    BY <1>1 DEF ServerInv, WorkInv
  <2>2. ASSUME NEW k \in Handlers, job'[k].at # "idle"
        PROVE  /\ job'[k].unit \notin todo' /\ tried'[job'[k].unit] # Failed
               /\ job'[k].at # "codegen" => job'[k].bytes = tried'[job'[k].unit]
               /\ job'[k].at \in {"hash", "reply"} =>
                    /\ ObjectFile(job'[k].unit) \in DOMAIN ServerDisk'
                    /\ ServerDisk'[ObjectFile(job'[k].unit)] = tried'[job'[k].unit]
    <3>1. CASE k = h
      BY <1>1, <1>2, <1>3, <1>4, <1>5, <1>6, <3>1
    <3>2. CASE k # h
      BY <1>1, <1>2, <1>5, <2>2, <3>2 DEF ServerInv, WorkInv
    <3> QED
      BY <3>1, <3>2
  <2>3. \A g, k \in Handlers : job'[g].at # "idle" /\ job'[k].at # "idle" /\ job'[g].unit = job'[k].unit => g = k
    BY <1>1, <1>5 DEF ServerInv, WorkInv
  <2> QED
    BY <2>1, <2>2, <2>3 DEF WorkInv
<1> QED
  BY <1>2, <1>7, <1>8, <1>9 DEF ServerInv

LEMMA ServerObjectFile ==
  ASSUME ServerInv, NEW h \in Handlers, UploadObjectFile(h)
  PROVE  ServerInv' /\ WorkerDisk' = WorkerDisk
<1> DEFINE u == job[h].unit
<1>1. ServerTypes /\ UNCHANGED <<todo, tried, acked>> /\ job[h].at = "object"
      /\ disk' = WriteBytesToFile("server", ObjectFile(u), job[h].bytes) /\ job' = [job EXCEPT ![h].at = "hash"]
  BY DEF ServerInv, UploadObjectFile, Upload, Built
<1>2. u \in Units /\ u \notin todo /\ tried[u] # Failed /\ job[h].bytes = tried[u] /\ tried[u] \in Version
  BY <1>1 DEF ServerInv, WorkInv, ServerTypes, Version
<1>3. /\ ServerDisk' = With(ServerDisk, ObjectFile(u), tried[u]) /\ WorkerDisk' = WorkerDisk
      /\ disk' = [g \in {"server", "worker"} |-> disk'[g]] /\ ServerDisk' \in [DOMAIN ServerDisk' -> Version]
  BY <1>1, <1>2, ServerWrite
<1>4. /\ DOMAIN ServerDisk' = DOMAIN ServerDisk \cup {ObjectFile(u)} /\ ServerDisk'[ObjectFile(u)] = tried[u]
      /\ \A p \in DOMAIN ServerDisk : p # ObjectFile(u) => ServerDisk'[p] = ServerDisk[p]
  BY <1>3 DEF With
<1>5. \A w \in Units : Wasm(w) # ObjectFile(u) /\ HashFile(w) # ObjectFile(u) /\ (ObjectFile(w) = ObjectFile(u) => w = u)
  BY <1>2, UnitPaths
<1>6. job'[h].at = "hash" /\ job'[h].unit = u /\ job'[h].bytes = tried[u] /\ \A k \in Handlers : k # h => job'[k] = job[k]
  BY <1>1, <1>2 DEF ServerTypes
<1>7. ServerTypes'
  BY <1>1, <1>3 DEF ServerTypes
<1>8. \A w \in Units : tried[w] \in Nat /\ acked[w] \in Nat
  BY <1>1 DEF ServerTypes
<1>9. FilesInv'
  BY <1>1, <1>2, <1>4, <1>5, <1>8 DEF ServerInv, FilesInv
<1>10. AckedInv'
  BY <1>1, <1>2, <1>4, <1>5, <1>8 DEF ServerInv, AckedInv
<1>11. \A k \in Handlers : k # h /\ job[k].at # "idle" => job[k].unit # u /\ job[k].unit \in Units
  BY <1>1 DEF ServerInv, WorkInv, ServerTypes
<1>12. WorkInv'
  <2>1. \A w \in todo' : tried'[w] # Failed
    BY <1>1 DEF ServerInv, WorkInv
  <2>2. ASSUME NEW k \in Handlers, job'[k].at # "idle"
        PROVE  /\ job'[k].unit \notin todo' /\ tried'[job'[k].unit] # Failed
               /\ job'[k].at # "codegen" => job'[k].bytes = tried'[job'[k].unit]
               /\ job'[k].at \in {"hash", "reply"} =>
                    /\ ObjectFile(job'[k].unit) \in DOMAIN ServerDisk'
                    /\ ServerDisk'[ObjectFile(job'[k].unit)] = tried'[job'[k].unit]
    <3>1. CASE k = h
      BY <1>1, <1>2, <1>4, <1>6, <3>1
    <3>2. CASE k # h
      BY <1>1, <1>4, <1>5, <1>6, <1>11, <2>2, <3>2 DEF ServerInv, WorkInv
    <3> QED
      BY <3>1, <3>2
  <2>3. \A g, k \in Handlers : job'[g].at # "idle" /\ job'[k].at # "idle" /\ job'[g].unit = job'[k].unit => g = k
    BY <1>1, <1>6 DEF ServerInv, WorkInv
  <2> QED
    BY <2>1, <2>2, <2>3 DEF WorkInv
<1> QED
  BY <1>3, <1>7, <1>9, <1>10, <1>12 DEF ServerInv

LEMMA ServerObjectHash ==
  ASSUME ServerInv, NEW h \in Handlers, UploadObjectHash(h)
  PROVE  ServerInv' /\ WorkerDisk' = WorkerDisk
<1> DEFINE u == job[h].unit
<1>1. ServerTypes /\ UNCHANGED <<todo, tried, acked>> /\ job[h].at = "hash"
      /\ disk' = WriteBytesToFile("server", HashFile(u), job[h].bytes) /\ job' = [job EXCEPT ![h].at = "reply"]
  BY DEF ServerInv, UploadObjectHash, Upload, Built
<1>2. /\ u \in Units /\ u \notin todo /\ tried[u] # Failed /\ job[h].bytes = tried[u] /\ tried[u] \in Version
      /\ ObjectFile(u) \in DOMAIN ServerDisk /\ ServerDisk[ObjectFile(u)] = tried[u]
  BY <1>1 DEF ServerInv, WorkInv, ServerTypes, Version
<1>3. /\ ServerDisk' = With(ServerDisk, HashFile(u), tried[u]) /\ WorkerDisk' = WorkerDisk
      /\ disk' = [g \in {"server", "worker"} |-> disk'[g]] /\ ServerDisk' \in [DOMAIN ServerDisk' -> Version]
  BY <1>1, <1>2, ServerWrite
<1>4. /\ DOMAIN ServerDisk' = DOMAIN ServerDisk \cup {HashFile(u)} /\ ServerDisk'[HashFile(u)] = tried[u]
      /\ \A p \in DOMAIN ServerDisk : p # HashFile(u) => ServerDisk'[p] = ServerDisk[p]
  BY <1>3 DEF With
<1>5. \A w \in Units : Wasm(w) # HashFile(u) /\ ObjectFile(w) # HashFile(u) /\ (HashFile(w) = HashFile(u) => w = u)
  BY <1>2, UnitPaths
<1>6. job'[h].at = "reply" /\ job'[h].unit = u /\ job'[h].bytes = tried[u] /\ \A k \in Handlers : k # h => job'[k] = job[k]
  BY <1>1, <1>2 DEF ServerTypes
<1>7. ServerTypes'
  BY <1>1, <1>3 DEF ServerTypes
<1>8. \A w \in Units : tried[w] \in Nat /\ acked[w] \in Nat
  BY <1>1 DEF ServerTypes
<1>9. FilesInv'
  BY <1>1, <1>2, <1>4, <1>5, <1>8 DEF ServerInv, FilesInv
<1>10. AckedInv'
  BY <1>1, <1>2, <1>4, <1>5, <1>8 DEF ServerInv, AckedInv
<1>11. \A k \in Handlers : job[k].unit \in Units
  BY <1>1 DEF ServerTypes
<1>12. WorkInv'
  <2>1. \A w \in todo' : tried'[w] # Failed
    BY <1>1 DEF ServerInv, WorkInv
  <2>2. ASSUME NEW k \in Handlers, job'[k].at # "idle"
        PROVE  /\ job'[k].unit \notin todo' /\ tried'[job'[k].unit] # Failed
               /\ job'[k].at # "codegen" => job'[k].bytes = tried'[job'[k].unit]
               /\ job'[k].at \in {"hash", "reply"} =>
                    /\ ObjectFile(job'[k].unit) \in DOMAIN ServerDisk'
                    /\ ServerDisk'[ObjectFile(job'[k].unit)] = tried'[job'[k].unit]
    <3>1. CASE k = h
      BY <1>1, <1>2, <1>4, <1>5, <1>6, <3>1
    <3>2. CASE k # h
      BY <1>1, <1>4, <1>5, <1>6, <1>11, <2>2, <3>2 DEF ServerInv, WorkInv
    <3> QED
      BY <3>1, <3>2
  <2>3. \A g, k \in Handlers : job'[g].at # "idle" /\ job'[k].at # "idle" /\ job'[g].unit = job'[k].unit => g = k
    BY <1>1, <1>6 DEF ServerInv, WorkInv
  <2> QED
    BY <2>1, <2>2, <2>3 DEF WorkInv
<1> QED
  BY <1>3, <1>7, <1>9, <1>10, <1>12 DEF ServerInv

LEMMA ServerReply ==
  ASSUME ServerInv, NEW h \in Handlers, Reply(h)
  PROVE  ServerInv' /\ WorkerDisk' = WorkerDisk
<1> DEFINE u == job[h].unit
<1>1. ServerTypes /\ UNCHANGED <<disk, todo, tried>> /\ job[h].at = "reply" /\ acked' = [acked EXCEPT ![u] = job[h].bytes]
      /\ job' = [job EXCEPT ![h] = [at |-> "idle", unit |-> Main, bytes |-> Failed]]
  BY DEF ServerInv, Reply
<1>2. UNCHANGED <<ServerDisk, WorkerDisk>>
  BY <1>1 DEF ServerDisk, WorkerDisk
<1>3. /\ u \in Units /\ job[h].bytes = tried[u] /\ tried[u] \in Nat
      /\ ObjectFile(u) \in DOMAIN ServerDisk /\ ServerDisk[ObjectFile(u)] = tried[u]
  BY <1>1 DEF ServerInv, WorkInv, ServerTypes
<1>4. acked'[u] = tried[u] /\ \A w \in Units : w # u => acked'[w] = acked[w]
  BY <1>1, <1>3 DEF ServerTypes
<1>5. ServerTypes'
  BY <1>1, <1>2, <1>3, LoadingAssumption DEF ServerTypes, Units, Failed
<1>6. FilesInv'
  BY <1>1, <1>2 DEF ServerInv, FilesInv
<1>7. AckedInv'
  BY <1>1, <1>2, <1>3, <1>4 DEF ServerInv, AckedInv
<1>8. job'[h].at = "idle" /\ \A k \in Handlers : k # h => job'[k] = job[k]
  BY <1>1 DEF ServerTypes
<1>9. WorkInv'
  BY <1>1, <1>2, <1>8 DEF ServerInv, WorkInv
<1> QED
  BY <1>2, <1>5, <1>6, <1>7, <1>9 DEF ServerInv

LEMMA ServerTools ==
  ASSUME ServerInv, Codegen \/ ServerCrash
  PROVE  ServerInv' /\ WorkerDisk' = WorkerDisk
<1>1. ServerTypes /\ UNCHANGED <<disk, tried, acked>>
  BY DEF ServerInv, Codegen, CodegenForDirectory, CodegenThread, ServerCrash
<1>2. UNCHANGED <<ServerDisk, WorkerDisk>> /\ FilesInv' /\ AckedInv'
  BY <1>1 DEF ServerDisk, WorkerDisk, ServerInv, FilesInv, AckedInv
<1>3. Main \in Units
  BY LoadingAssumption DEF Units
<1>4. ASSUME NEW tool, NEW dir \in SUBSET Units, CodegenForDirectory(tool, dir)
      PROVE  ServerTypes' /\ WorkInv'
  <2>1. UNCHANGED job /\ todo' = {u \in dir : Wasm(u) \in DOMAIN ServerDisk} /\ \A u \in dir : ~Busy(u)
    BY <1>4 DEF CodegenForDirectory, IsValidFunction, Exists, ServerDisk
  <2>2. \A u \in todo' : u \in Units /\ tried[u] # Failed /\ \A k \in Handlers : job[k].at = "idle" \/ job[k].unit # u
    BY <2>1 DEF ServerInv, FilesInv, Busy
  <2>3. ServerTypes'
    BY <1>1, <1>2, <2>1, <2>2 DEF ServerTypes
  <2>4. WorkInv'
    BY <1>1, <1>2, <2>1, <2>2 DEF ServerInv, WorkInv
  <2> QED
    BY <2>3, <2>4
<1>5. ASSUME NEW h \in Handlers, CodegenThread(h)
      PROVE  ServerTypes' /\ WorkInv'
  <2>1. PICK u \in todo : /\ job[h].at = "idle" /\ todo' = todo \ {u}
                          /\ job' = [job EXCEPT ![h] = [at |-> "codegen", unit |-> u, bytes |-> Failed]]
    BY <1>5 DEF CodegenThread, Idle, TakePath
  <2>2. u \in Units /\ tried[u] # Failed /\ \A k \in Handlers : job[k].at = "idle" \/ job[k].unit # u
    BY <1>1 DEF ServerInv, ServerTypes, WorkInv
  <2>3. job'[h].at = "codegen" /\ job'[h].unit = u /\ \A k \in Handlers : k # h => job'[k] = job[k]
    BY <1>1, <2>1 DEF ServerTypes
  <2>4. ServerTypes'
    BY <1>1, <1>2, <2>1, <2>2 DEF ServerTypes, Failed
  <2>5. WorkInv'
    <3>1. \A w \in todo' : tried'[w] # Failed
      BY <1>1, <2>1 DEF ServerInv, WorkInv
    <3>2. ASSUME NEW k \in Handlers, job'[k].at # "idle"
          PROVE  /\ job'[k].unit \notin todo' /\ tried'[job'[k].unit] # Failed
                 /\ job'[k].at # "codegen" => job'[k].bytes = tried'[job'[k].unit]
                 /\ job'[k].at \in {"hash", "reply"} =>
                      /\ ObjectFile(job'[k].unit) \in DOMAIN ServerDisk'
                      /\ ServerDisk'[ObjectFile(job'[k].unit)] = tried'[job'[k].unit]
      <4>1. CASE k = h
        BY <1>1, <2>1, <2>2, <2>3, <4>1
      <4>2. CASE k # h
        BY <1>1, <1>2, <2>1, <2>3, <3>2, <4>2 DEF ServerInv, WorkInv
      <4> QED
        BY <4>1, <4>2
    <3>3. \A g, k \in Handlers : job'[g].at # "idle" /\ job'[k].at # "idle" /\ job'[g].unit = job'[k].unit => g = k
      BY <2>2, <2>3 DEF ServerInv, WorkInv
    <3> QED
      BY <3>1, <3>2, <3>3 DEF WorkInv
  <2> QED
    BY <2>4, <2>5
<1>6. ASSUME ServerCrash PROVE ServerTypes' /\ WorkInv'
  <2>1. todo' = {} /\ job' = [h \in Handlers |-> [at |-> "idle", unit |-> Main, bytes |-> Failed]]
    BY <1>6 DEF ServerCrash
  <2>2. \A h \in Handlers : job'[h].at = "idle"
    BY <2>1
  <2>3. ServerTypes'
    BY <1>1, <1>2, <1>3, <2>1 DEF ServerTypes, Failed
  <2> QED
    BY <2>1, <2>2, <2>3 DEF WorkInv
<1>7. FunctionNames \subseteq Units /\ SharedObjects \subseteq Units
  BY DEF Units
<1>8. ServerTypes' /\ WorkInv'
  BY <1>4, <1>5, <1>6, <1>7 DEF Codegen
<1> QED
  BY <1>2, <1>8 DEF ServerInv

(* A step of the server or of a client leaves the worker alone; any other  *)
(* leaves the server alone.                                                *)
WorkerVars == <<cacheVars, faasletVars, flushVars>>
Serves == ClientStep \/ Codegen \/ ServerCrash \/ \E h \in Handlers : ServerStep(h)

LEMMA ServesLeavesWorker == Serves => UNCHANGED WorkerVars
BY DEF Serves, ClientStep, Codegen, ServerStep, WorkerVars, HandleFunctionUpload, InstallSharedObject, HandleSharedFileUpload,
       HandlePythonFunctionUpload, CodegenForDirectory, CodegenThread, ServerCrash, CodegenFor, UploadObjectFile,
       UploadObjectHash, Upload, Reply

LEMMA ServesInv ==
  ASSUME ServerInv, Serves
  PROVE  ServerInv' /\ WorkerDisk' = WorkerDisk
<1>1. ASSUME ClientStep PROVE ServerInv' /\ WorkerDisk' = WorkerDisk
  BY <1>1, ServerFunctionUpload, ServerInstall, ServerShared DEF ClientStep
<1>2. ASSUME NEW h \in Handlers, ServerStep(h) PROVE ServerInv' /\ WorkerDisk' = WorkerDisk
  BY <1>2, ServerCodegenFor, ServerObjectFile, ServerObjectHash, ServerReply DEF ServerStep
<1> QED
  BY <1>1, <1>2, ServerTools DEF Serves

(* Acknowledged versions do not go back. *)
LEMMA AckedGrows ==
  ASSUME ServerInv, Serves
  PROVE  \A u \in Units : acked'[u] >= acked[u]
<1>1. ServerTypes /\ \A u \in Units : acked[u] \in Nat
  BY DEF ServerInv, ServerTypes
<1>2. CASE UNCHANGED acked
  BY <1>1, <1>2
<1>3. ASSUME NEW x \in Files, NEW v \in Versions, HandleSharedFileUpload(x, v) \/ HandlePythonFunctionUpload(x, v)
      PROVE  \A u \in Units : acked'[u] >= acked[u]
  <2>1. x \notin Units
    BY NamesAssumption DEF Units, Files
  <2>2. acked' = [acked EXCEPT ![x] = v]
    BY <1>3 DEF HandleSharedFileUpload, HandlePythonFunctionUpload
  <2> QED
    BY <1>1, <2>1, <2>2 DEF ServerTypes
<1>4. ASSUME NEW h \in Handlers, Reply(h)
      PROVE  \A u \in Units : acked'[u] >= acked[u]
  <2>1. acked' = [acked EXCEPT ![job[h].unit] = job[h].bytes] /\ job[h].at = "reply" /\ job[h].unit \in Units
    BY <1>1, <1>4 DEF Reply, ServerTypes
  <2>2. job[h].bytes = tried[job[h].unit] /\ acked[job[h].unit] <= tried[job[h].unit] /\ tried[job[h].unit] \in Nat
    BY <1>1, <2>1 DEF ServerInv, WorkInv, AckedInv, ServerTypes
  <2> QED
    BY <1>1, <2>1, <2>2 DEF ServerTypes
<1> QED
  BY <1>2, <1>3, <1>4 DEF Serves, ClientStep, Codegen, ServerStep, HandleFunctionUpload, InstallSharedObject,
     CodegenForDirectory, CodegenThread, ServerCrash, CodegenFor, UploadObjectFile, UploadObjectHash, Upload

-----------------------------------------------------------------------------
(* The worker, when the server or a client does something. *)
LEMMA WorkerUndisturbed ==
  ASSUME ServerInv, WorkerInv, Serves
  PROVE  WorkerInv'
<1>1. WorkerDisk' = WorkerDisk /\ (\A u \in Units : acked[u] \in Nat /\ acked'[u] \in Nat /\ acked'[u] >= acked[u])
  BY ServesInv, AckedGrows DEF ServerInv, ServerTypes
<1>2. UNCHANGED <<moduleMap, compiledModuleMap, zygote, marks, at, unit, got, held, module, pending, goal, floor>>
  BY ServesLeavesWorker DEF WorkerVars, cacheVars, faasletVars, flushVars
<1>3. WorkerTypes'
  BY <1>1, <1>2 DEF WorkerInv, WorkerTypes
<1>4. HandsInv' /\ FlushInv' /\ ClearedInv'
  BY <1>1, <1>2 DEF WorkerInv, HandsInv, FlushInv, ClearedInv, Later
<1>5. MarkInv'
  BY <1>1, <1>2 DEF WorkerInv, MarkInv, Later
<1>6. FloorInv'
  BY <1>1, <1>2 DEF WorkerInv, WorkerTypes, FreshInv, FloorInv
<1>7. DiskFresh' /\ MapsFresh' /\ ZygoteFresh' /\ HandsFresh'
  BY <1>1, <1>2 DEF WorkerInv, FreshInv, DiskFresh, MapsFresh, ZygoteFresh, HandsFresh, Fresh, FreshHands
<1>8. BoundInv'
  BY <1>2 DEF WorkerInv, BoundInv, Builds
<1> QED
  BY <1>3, <1>4, <1>5, <1>6, <1>7, <1>8 DEF WorkerInv, FreshInv

(* A Faaslet that goes on, outside of a flush of its own. *)
Moves(f, s, u, g, k, m) ==
  /\ at' = [at EXCEPT ![f] = s] /\ unit' = [unit EXCEPT ![f] = u] /\ got' = [got EXCEPT ![f] = g]
  /\ held' = [held EXCEPT ![f] = k] /\ module' = [module EXCEPT ![f] = m]
  /\ UNCHANGED <<pending, goal, floor>> /\ UNCHANGED serverVars

LEMMA MovesFacts ==
  ASSUME WorkerTypes, NEW f \in Faaslets, NEW s \in Stages, NEW u \in Units \cup Files, NEW g \in Nat,
         NEW k \in Modules, NEW m \in Modules, Moves(f, s, u, g, k, m)
  PROVE  /\ at' \in [Faaslets -> Stages] /\ unit' \in [Faaslets -> Units \cup Files] /\ got' \in [Faaslets -> Nat]
         /\ held' \in [Faaslets -> Modules] /\ module' \in [Faaslets -> Modules]
         /\ at'[f] = s /\ unit'[f] = u /\ got'[f] = g /\ held'[f] = k /\ module'[f] = m
         /\ \A e \in Faaslets : e # f => /\ at'[e] = at[e] /\ unit'[e] = unit[e] /\ got'[e] = got[e]
                                         /\ held'[e] = held[e] /\ module'[e] = module[e]
BY DEF WorkerTypes, Moves

LEMMA MovesFlush ==
  ASSUME WorkerTypes, FlushInv, NEW f \in Faaslets, NEW s \in Stages, NEW u \in Units \cup Files, NEW g \in Nat,
         NEW k \in Modules, NEW m \in Modules, Moves(f, s, u, g, k, m),
         at[f] \notin FlushStages, s \notin FlushStages, at[f] = "cold" \/ s = "cold" => pending = {}
  PROVE  FlushInv' /\ ClearedInv' /\ (pending # {} => Later')
<1>1. at'[f] = s /\ \A e \in Faaslets : e # f => at'[e] = at[e]
  BY MovesFacts
<1>2. pending' = pending
  BY DEF Moves
<1>3. FlushInv'
  BY <1>1, <1>2 DEF FlushInv
<1>4. pending # {} => Later'
  BY <1>1, <1>2 DEF FlushInv, Later
<1>5. pending = {} => \A e \in Faaslets : at'[e] \notin FlushStages
  BY <1>2, <1>3 DEF FlushInv
<1>6. ClearedInv'
  BY <1>4, <1>5 DEF ClearedInv, FlushStages
<1> QED
  BY <1>3, <1>4, <1>6

LEMMA MovesInv ==
  ASSUME WorkerInv, NEW f \in Faaslets, NEW s \in Stages, NEW u \in Units \cup Files, NEW g \in Nat,
         NEW k \in Modules, NEW m \in Modules, Moves(f, s, u, g, k, m),
         at[f] \notin FlushStages, s \notin FlushStages, at[f] = "cold" \/ s = "cold" => pending = {},
         HandsOf(s, u, g, k, m), FreshHands(s, u, g, k, m),
         DOMAIN WorkerDisk \subseteq DOMAIN WorkerDisk',
         \A x \in DOMAIN marks' : marks'[x] = "EXISTS" =>
           (x \in DOMAIN marks /\ marks[x] = "EXISTS") \/ RealPath(x) \in DOMAIN WorkerDisk'
  PROVE  HandsInv' /\ FlushInv' /\ ClearedInv' /\ MarkInv' /\ FloorInv' /\ HandsFresh'
<1>1. WorkerTypes /\ FlushInv
  BY DEF WorkerInv
<1>2. FlushInv' /\ ClearedInv' /\ (pending # {} => Later')
  BY <1>1, MovesFlush
<1>3. /\ at'[f] = s /\ unit'[f] = u /\ got'[f] = g /\ held'[f] = k /\ module'[f] = m
      /\ \A e \in Faaslets : e # f => /\ at'[e] = at[e] /\ unit'[e] = unit[e] /\ got'[e] = got[e]
                                      /\ held'[e] = held[e] /\ module'[e] = module[e]
  BY <1>1, MovesFacts
<1>4. UNCHANGED <<goal, floor, acked, pending>>
  BY DEF Moves, serverVars
<1>5. HandsInv'
  <2> SUFFICES ASSUME NEW e \in Faaslets PROVE HandsOf(at'[e], unit'[e], got'[e], held'[e], module'[e])
    BY DEF HandsInv, HandsOf
  <2>1. CASE e = f
    BY <1>3, <2>1
  <2>2. CASE e # f
    BY <1>3, <2>2 DEF WorkerInv, HandsInv
  <2> QED
    BY <2>1, <2>2
<1>6. HandsFresh'
  <2>1. ASSUME NEW e \in Faaslets PROVE FreshHands(at'[e], unit'[e], got'[e], held'[e], module'[e])
    <3>1. CASE e = f
      BY <1>3, <3>1
    <3>2. CASE e # f
      BY <1>3, <3>2 DEF WorkerInv, FreshInv, HandsFresh
    <3> QED
      BY <3>1, <3>2
  <2> QED
    BY <2>1, <1>4 DEF HandsFresh, FreshHands, Fresh
<1>7. FloorInv'
  BY <1>4 DEF WorkerInv, FreshInv, FloorInv
<1>8. MarkInv'
  <2>1. CASE pending # {}
    BY <1>2, <2>1 DEF MarkInv
  <2>2. CASE pending = {}
    BY <2>2 DEF WorkerInv, MarkInv, Later
  <2> QED
    BY <2>1, <2>2
<1> QED
  BY <1>2, <1>5, <1>6, <1>7, <1>8

LEMMA MovesBound ==
  ASSUME WorkerInv, NEW f \in Faaslets, NEW s \in Stages, NEW u \in Units \cup Files, NEW g \in Nat,
         NEW k \in Modules, NEW m \in Modules, Moves(f, s, u, g, k, m),
         s \in LoadStages /\ u = Main => Builds(f) \/ \A e \in Faaslets : ~Builds(e),
         s = "build" => k # Unbound,
         pending = {} =>
           /\ s \in LoadStages /\ u = Main => zygote' = <<Unbound>>
           /\ zygote' = <<Unbound>> => (s \in LoadStages /\ u = Main) \/ \E e \in Faaslets \ {f} : Builds(e)
           /\ s = "ref" => zygote' # Nothing /\ zygote' # <<Unbound>>
           /\ s = "clone" => k # Unbound
           /\ s \in {"idle", "run", "sync"} \/ (s \in LoadStages /\ u # Main) => m # Unbound
           /\ \A e \in Faaslets \ {f} : Builds(e) => zygote' = <<Unbound>>
           /\ \A e \in Faaslets \ {f} : at[e] = "ref" => zygote' # Nothing /\ zygote' # <<Unbound>>
  PROVE  BoundInv'
<1>1. WorkerTypes /\ BoundInv
  BY DEF WorkerInv
<1>2. /\ at'[f] = s /\ unit'[f] = u /\ held'[f] = k /\ module'[f] = m
      /\ \A e \in Faaslets : e # f => at'[e] = at[e] /\ unit'[e] = unit[e] /\ held'[e] = held[e] /\ module'[e] = module[e]
  BY <1>1, MovesFacts
<1>3. pending' = pending
  BY DEF Moves
<1>4. Builds(f)' <=> s \in LoadStages /\ u = Main
  BY <1>2 DEF Builds
<1>5. \A e \in Faaslets : e # f => (Builds(e)' <=> Builds(e))
  BY <1>2 DEF Builds
<1>6. \A e, d \in Faaslets : Builds(e)' /\ Builds(d)' => e = d
  <2>1. \A e, d \in Faaslets : Builds(e) /\ Builds(d) => e = d
    BY <1>1 DEF BoundInv
  <2> QED
    BY <1>4, <1>5, <2>1
<1>7. \A e \in Faaslets : at'[e] = "build" => held'[e] # Unbound
  BY <1>1, <1>2 DEF BoundInv
<1>8. ASSUME pending = {}
      PROVE  /\ \A e \in Faaslets : Builds(e)' => zygote' = <<Unbound>>
             /\ zygote' = <<Unbound>> => \E e \in Faaslets : Builds(e)'
             /\ \A e \in Faaslets : at'[e] = "ref" => zygote' # Nothing /\ zygote' # <<Unbound>>
             /\ \A e \in Faaslets : at'[e] = "clone" => held'[e] # Unbound
             /\ \A e \in Faaslets : at'[e] \in {"idle", "run", "sync"} \/ (at'[e] \in LoadStages /\ unit'[e] # Main) => module'[e] # Unbound
  <2>1. \A e \in Faaslets : Builds(e)' => zygote' = <<Unbound>>
    BY <1>4, <1>5, <1>8
  <2>2. zygote' = <<Unbound>> => \E e \in Faaslets : Builds(e)'
    BY <1>4, <1>5, <1>8
  <2>3. \A e \in Faaslets : at'[e] = "ref" => zygote' # Nothing /\ zygote' # <<Unbound>>
    BY <1>2, <1>8
  <2>4. \A e \in Faaslets : at'[e] = "clone" => held'[e] # Unbound
    BY <1>1, <1>2, <1>8 DEF BoundInv
  <2>5. \A e \in Faaslets : at'[e] \in {"idle", "run", "sync"} \/ (at'[e] \in LoadStages /\ unit'[e] # Main) => module'[e] # Unbound
    BY <1>1, <1>2, <1>8 DEF BoundInv
  <2> QED
    BY <2>1, <2>2, <2>3, <2>4, <2>5
<1> QED
  BY <1>3, <1>6, <1>7, <1>8 DEF BoundInv, Builds

(* The same with the caches and the disk as they are. *)
LEMMA MovesQuiet ==
  ASSUME ServerInv, WorkerInv, NEW f \in Faaslets, NEW s \in Stages, NEW u \in Units \cup Files, NEW g \in Nat,
         NEW k \in Modules, NEW m \in Modules, Moves(f, s, u, g, k, m),
         UNCHANGED <<disk, moduleMap, compiledModuleMap, zygote, marks>>,
         at[f] \notin FlushStages, s \notin FlushStages, at[f] = "cold" \/ s = "cold" => pending = {},
         HandsOf(s, u, g, k, m), FreshHands(s, u, g, k, m),
         s \in LoadStages /\ u = Main <=> Builds(f), s = "build" => k # Unbound, s # "ref",
         pending = {} =>
           /\ s = "clone" => k # Unbound
           /\ s \in {"idle", "run", "sync"} \/ (s \in LoadStages /\ u # Main) => m # Unbound
  PROVE  ServerInv' /\ WorkerInv'
<1>1. UNCHANGED <<ServerDisk, WorkerDisk>> /\ UNCHANGED serverVars
  BY DEF ServerDisk, WorkerDisk, Moves
<1>2. ServerInv'
  BY <1>1, ServerFrame DEF ServerInv, ServerTypes
<1>3. WorkerTypes
  BY DEF WorkerInv
<1>4. WorkerTypes'
  BY <1>1, <1>3, MovesFacts DEF WorkerTypes, Moves
<1>5. HandsInv' /\ FlushInv' /\ ClearedInv' /\ MarkInv' /\ FloorInv' /\ HandsFresh'
  BY <1>1, MovesInv
<1>6. DiskFresh' /\ MapsFresh' /\ ZygoteFresh'
  BY <1>1 DEF Moves, WorkerInv, FreshInv, DiskFresh, MapsFresh, ZygoteFresh, Fresh
<1>7. BoundInv'
  <2>1. zygote' = zygote
    OBVIOUS
  <2>2. s \in LoadStages /\ u = Main => Builds(f)
    OBVIOUS
  <2>3. ASSUME pending = {}
        PROVE  /\ s \in LoadStages /\ u = Main => zygote' = <<Unbound>>
               /\ zygote' = <<Unbound>> => (s \in LoadStages /\ u = Main) \/ \E e \in Faaslets \ {f} : Builds(e)
               /\ \A e \in Faaslets \ {f} : Builds(e) => zygote' = <<Unbound>>
               /\ \A e \in Faaslets \ {f} : at[e] = "ref" => zygote' # Nothing /\ zygote' # <<Unbound>>
    BY <2>1, <2>3 DEF WorkerInv, BoundInv
  <2> QED
    BY <2>2, <2>3, MovesBound
<1> QED
  BY <1>2, <1>4, <1>5, <1>6, <1>7 DEF WorkerInv, FreshInv

(* What a Faaslet leaves as it is. *)
LEMMA AsItIs ==
  ASSUME WorkerTypes, NEW f \in Faaslets
  PROVE  /\ unit = [unit EXCEPT ![f] = unit[f]] /\ got = [got EXCEPT ![f] = got[f]]
         /\ held = [held EXCEPT ![f] = held[f]] /\ module = [module EXCEPT ![f] = module[f]]
         /\ unit[f] \in Units \cup Files /\ got[f] \in Nat /\ held[f] \in Modules /\ module[f] \in Modules /\ at[f] \in Stages
         /\ Unbound \in Modules /\ Failed \in Nat /\ Main \in Units
BY LoadingAssumption DEF WorkerTypes, Unbound, Failed, Modules, Units

LEMMA Hands ==
  ASSUME WorkerInv, NEW f \in Faaslets
  PROVE  HandsOf(at[f], unit[f], got[f], held[f], module[f]) /\ FreshHands(at[f], unit[f], got[f], held[f], module[f])
BY DEF WorkerInv, HandsInv, FreshInv, HandsFresh

LEMMA BindKeeps ==
  ASSUME ServerInv, WorkerInv, NEW f \in Faaslets, Bind(f)
  PROVE  ServerInv' /\ WorkerInv'
<1>1. at[f] = "cold" /\ pending = {}
  BY DEF Bind
<1>2. WorkerTypes
  BY DEF WorkerInv
<1>3. Moves(f, "check", unit[f], got[f], held[f], module[f]) /\ UNCHANGED <<disk, moduleMap, compiledModuleMap, zygote, marks>>
  BY <1>2, AsItIs DEF Bind, Go, Moves, cacheVars, flushVars, serverVars
<1>4. HandsOf("check", unit[f], got[f], held[f], module[f]) /\ FreshHands("check", unit[f], got[f], held[f], module[f])
  BY <1>1, Hands DEF HandsOf, FreshHands, LoadStages
<1>5. ~Builds(f) /\ "check" \in Stages /\ "check" \notin FlushStages /\ "check" \notin LoadStages /\ at[f] \notin FlushStages
  BY <1>1 DEF Builds, LoadStages, FlushStages, Stages
<1> QED
  BY <1>1, <1>2, <1>3, <1>4, <1>5, AsItIs, MovesQuiet

LEMMA ExecuteKeeps ==
  ASSUME ServerInv, WorkerInv, NEW f \in Faaslets, ExecuteCall(f)
  PROVE  ServerInv' /\ WorkerInv'
<1>1. at[f] = "idle" /\ pending = {}
  BY DEF ExecuteCall
<1>2. WorkerTypes /\ module[f] # Unbound
  BY <1>1 DEF WorkerInv, BoundInv
<1>3. Moves(f, "run", unit[f], got[f], held[f], module[f]) /\ UNCHANGED <<disk, moduleMap, compiledModuleMap, zygote, marks>>
  BY <1>2, AsItIs DEF ExecuteCall, Go, Moves, cacheVars, flushVars, serverVars
<1>4. HandsOf("run", unit[f], got[f], held[f], module[f]) /\ FreshHands("run", unit[f], got[f], held[f], module[f])
  BY <1>1, Hands DEF HandsOf, FreshHands, LoadStages
<1>5. ~Builds(f) /\ "run" \in Stages /\ "run" \notin FlushStages /\ "run" \notin LoadStages /\ at[f] \notin FlushStages
  BY <1>1 DEF Builds, LoadStages, FlushStages, Stages
<1> QED
  BY <1>1, <1>2, <1>3, <1>4, <1>5, AsItIs, MovesQuiet

LEMMA TimeoutKeeps ==
  ASSUME ServerInv, WorkerInv, NEW f \in Faaslets, BoundTimeout(f)
  PROVE  ServerInv' /\ WorkerInv'
<1>1. at[f] = "idle" /\ pending = {}
  BY DEF BoundTimeout
<1>2. WorkerTypes
  BY <1>1 DEF WorkerInv, BoundInv
<1>3. Moves(f, "cold", unit[f], got[f], held[f], Unbound) /\ UNCHANGED <<disk, moduleMap, compiledModuleMap, zygote, marks>>
  BY <1>2, AsItIs DEF BoundTimeout, Go, Moves, cacheVars, flushVars, serverVars
<1>4. HandsOf("cold", unit[f], got[f], held[f], Unbound) /\ FreshHands("cold", unit[f], got[f], held[f], Unbound)
  BY <1>1, Hands DEF HandsOf, FreshHands, LoadStages, Fresh
<1>5. ~Builds(f) /\ "cold" \in Stages /\ "cold" \notin FlushStages /\ "cold" \notin LoadStages /\ at[f] \notin FlushStages
  BY <1>1 DEF Builds, LoadStages, FlushStages, Stages
<1> QED
  BY <1>1, <1>2, <1>3, <1>4, <1>5, AsItIs, MovesQuiet

LEMMA FinishKeeps ==
  ASSUME ServerInv, WorkerInv, NEW f \in Faaslets, FinishCall(f)
  PROVE  ServerInv' /\ WorkerInv'
<1>1. at[f] = "run"
  BY DEF FinishCall
<1>2. WorkerTypes
  BY <1>1 DEF WorkerInv, BoundInv
<1>3. Moves(f, "check", unit[f], got[f], held[f], module[f]) /\ UNCHANGED <<disk, moduleMap, compiledModuleMap, zygote, marks>>
  BY <1>2, AsItIs DEF FinishCall, Go, Moves, cacheVars, flushVars, serverVars
<1>4. HandsOf("check", unit[f], got[f], held[f], module[f]) /\ FreshHands("check", unit[f], got[f], held[f], module[f])
  BY <1>1, Hands DEF HandsOf, FreshHands, LoadStages
<1>5. ~Builds(f) /\ "check" \in Stages /\ "check" \notin FlushStages /\ "check" \notin LoadStages /\ at[f] \notin FlushStages
  BY <1>1 DEF Builds, LoadStages, FlushStages, Stages
<1> QED
  BY <1>1, <1>2, <1>3, <1>4, <1>5, AsItIs, MovesQuiet

LEMMA CloneKeeps ==
  ASSUME ServerInv, WorkerInv, NEW f \in Faaslets, CloneModule(f)
  PROVE  ServerInv' /\ WorkerInv'
<1>1. at[f] = "clone" /\ (pending = {} => held[f] # Unbound)
  BY DEF CloneModule, WorkerInv, BoundInv
<1>2. WorkerTypes
  BY <1>1 DEF WorkerInv, BoundInv
<1>3. Moves(f, "idle", unit[f], Failed, Unbound, held[f]) /\ UNCHANGED <<disk, moduleMap, compiledModuleMap, zygote, marks>>
  BY <1>2, AsItIs DEF CloneModule, Clean, Go, Moves, cacheVars, flushVars, serverVars
<1>4. HandsOf("idle", unit[f], Failed, Unbound, held[f]) /\ FreshHands("idle", unit[f], Failed, Unbound, held[f])
  BY <1>1, Hands DEF HandsOf, FreshHands, LoadStages
<1>5. ~Builds(f) /\ "idle" \in Stages /\ "idle" \notin FlushStages /\ "idle" \notin LoadStages /\ at[f] \notin FlushStages
  BY <1>1 DEF Builds, LoadStages, FlushStages, Stages
<1> QED
  BY <1>1, <1>2, <1>3, <1>4, <1>5, AsItIs, MovesQuiet

LEMMA DlopenKeeps ==
  ASSUME ServerInv, WorkerInv, NEW f \in Faaslets, NEW u \in SharedObjects, Dlopen(f, u)
  PROVE  ServerInv' /\ WorkerInv'
<1>1. at[f] = "run" /\ (pending = {} => module[f] # Unbound)
  BY DEF Dlopen, WorkerInv, BoundInv
<1>2. WorkerTypes /\ u # Main /\ u \in Units
  BY LoadingAssumption DEF WorkerInv, Units
<1>3. Moves(f, "wasm", u, got[f], held[f], module[f]) /\ UNCHANGED <<disk, moduleMap, compiledModuleMap, zygote, marks>>
  BY <1>2, AsItIs DEF Dlopen, Go, Moves, cacheVars, flushVars, serverVars
<1>4. HandsOf("wasm", u, got[f], held[f], module[f]) /\ FreshHands("wasm", u, got[f], held[f], module[f])
  BY <1>1, Hands DEF HandsOf, FreshHands, LoadStages
<1>5. ~Builds(f) /\ "wasm" \in Stages /\ "wasm" \notin FlushStages /\ at[f] \notin FlushStages
  BY <1>1 DEF Builds, LoadStages, FlushStages, Stages
<1> QED
  BY <1>1, <1>2, <1>3, <1>4, <1>5, AsItIs, MovesQuiet

LEMMA FailedCallKeeps ==
  ASSUME ServerInv, WorkerInv, NEW f \in Faaslets, at[f] \in LoadStages \cup {"sync"}, unit[f] # Main, CallFails(f)
  PROVE  ServerInv' /\ WorkerInv'
<1>2. WorkerTypes /\ Main \in Units \cup Files
  BY AsItIs DEF WorkerInv
<1>3. Moves(f, "check", Main, Failed, Unbound, module[f]) /\ UNCHANGED <<disk, moduleMap, compiledModuleMap, zygote, marks>>
  BY <1>2, AsItIs DEF CallFails, Clean, Go, Moves, cacheVars, flushVars, serverVars
<1>4. HandsOf("check", Main, Failed, Unbound, module[f]) /\ FreshHands("check", Main, Failed, Unbound, module[f])
  BY Hands DEF HandsOf, FreshHands, LoadStages
<1>5. /\ ~Builds(f) /\ "check" \in Stages /\ "check" \notin FlushStages /\ "check" \notin LoadStages
      /\ at[f] \notin FlushStages /\ at[f] # "cold"
  BY DEF Builds, LoadStages, FlushStages, Stages
<1> QED
  BY <1>2, <1>3, <1>4, <1>5, AsItIs, MovesQuiet

(* The same with files and modules that come: none older than the floor.   *)
LEMMA MovesLoad ==
  ASSUME ServerInv, WorkerInv, NEW f \in Faaslets, NEW s \in Stages, NEW u \in Units \cup Files, NEW g \in Nat,
         NEW k \in Modules, NEW m \in Modules, Moves(f, s, u, g, k, m), UNCHANGED zygote,
         ServerDisk' = ServerDisk, disk' = [h \in {"server", "worker"} |-> disk'[h]],
         WorkerDisk' \in [DOMAIN WorkerDisk' -> Version], DOMAIN WorkerDisk \subseteq DOMAIN WorkerDisk', DiskFresh',
         DOMAIN moduleMap' \subseteq Units, moduleMap' \in [DOMAIN moduleMap' -> Version],
         DOMAIN compiledModuleMap' \subseteq Units, compiledModuleMap' \in [DOMAIN compiledModuleMap' -> Version], MapsFresh',
         \A x \in DOMAIN marks' : marks'[x] = "EXISTS" =>
           (x \in DOMAIN marks /\ marks[x] = "EXISTS") \/ RealPath(x) \in DOMAIN WorkerDisk',
         at[f] \notin FlushStages \cup {"cold"}, s \notin FlushStages \cup {"cold", "ref", "clone"},
         HandsOf(s, u, g, k, m), FreshHands(s, u, g, k, m),
         s \in LoadStages /\ u = Main <=> Builds(f), s = "build" => k # Unbound,
         pending = {} /\ (s \in {"idle", "run", "sync"} \/ (s \in LoadStages /\ u # Main)) => m # Unbound
  PROVE  ServerInv' /\ WorkerInv'
<1>1. UNCHANGED serverVars
  BY DEF Moves
<1>2. ServerInv'
  BY <1>1, ServerFrame
<1>3. WorkerTypes
  BY DEF WorkerInv
<1>4. WorkerTypes'
  BY <1>3, MovesFacts DEF WorkerTypes, Moves
<1>5. HandsInv' /\ FlushInv' /\ ClearedInv' /\ MarkInv' /\ FloorInv' /\ HandsFresh'
  BY MovesInv
<1>6. ZygoteFresh'
  BY DEF Moves, WorkerInv, FreshInv, ZygoteFresh, Fresh
<1>7. BoundInv'
  <2>1. zygote' = zygote
    OBVIOUS
  <2>2. s \in LoadStages /\ u = Main => Builds(f)
    OBVIOUS
  <2>3. ASSUME pending = {}
        PROVE  /\ s \in LoadStages /\ u = Main => zygote' = <<Unbound>>
               /\ zygote' = <<Unbound>> => (s \in LoadStages /\ u = Main) \/ \E e \in Faaslets \ {f} : Builds(e)
               /\ \A e \in Faaslets \ {f} : Builds(e) => zygote' = <<Unbound>>
               /\ \A e \in Faaslets \ {f} : at[e] = "ref" => zygote' # Nothing /\ zygote' # <<Unbound>>
    BY <2>1, <2>3 DEF WorkerInv, BoundInv
  <2> QED
    BY <2>2, <2>3, MovesBound
<1> QED
  BY <1>2, <1>4, <1>5, <1>6, <1>7 DEF WorkerInv, FreshInv

(* What the server answers to a GET is not older than what it acknowledged.*)
LEMMA GetIsFresh ==
  ASSUME ServerInv, WorkerInv
  PROVE  /\ \A u \in Units : HandleGet(WasmUrl(u), u) \in Nat /\ HandleGet(ObjectUrl(u), u) \in Nat
         /\ \A x \in Files : HandleGet("file", x) \in Nat
         /\ \A u \in Units : HandleGet(WasmUrl(u), u) # Failed => HandleGet(WasmUrl(u), u) >= floor[u]
         /\ \A u \in Units : HandleGet(ObjectUrl(u), u) # Failed => HandleGet(ObjectUrl(u), u) >= floor[u]
<1>1. \A p \in DOMAIN ServerDisk : ServerDisk[p] \in Nat
  BY DEF ServerInv, ServerTypes, Version
<1>2. \A u \in Units : FileOf(WasmUrl(u), u) = Wasm(u)
  BY DEF FileOf, WasmUrl
<1>3. \A u \in Units : FileOf(ObjectUrl(u), u) = ObjectFile(u)
  BY DEF FileOf, ObjectUrl
<1>4. \A u \in Units : /\ Wasm(u) \in DOMAIN ServerDisk => HandleGet(WasmUrl(u), u) = ServerDisk[Wasm(u)]
                       /\ Wasm(u) \notin DOMAIN ServerDisk => HandleGet(WasmUrl(u), u) = Failed
  BY <1>2 DEF HandleGet, Exists, ServerDisk
<1>5. \A u \in Units : /\ ObjectFile(u) \in DOMAIN ServerDisk => HandleGet(ObjectUrl(u), u) = ServerDisk[ObjectFile(u)]
                       /\ ObjectFile(u) \notin DOMAIN ServerDisk => HandleGet(ObjectUrl(u), u) = Failed
  BY <1>3 DEF HandleGet, Exists, ServerDisk
<1>6. \A x \in Files : HandleGet("file", x) \in Nat
  BY <1>1 DEF HandleGet, Exists, ServerDisk, Failed
<1>7. \A u \in Units : floor[u] \in Nat /\ acked[u] \in Nat /\ tried[u] \in Nat /\ floor[u] <= acked[u] /\ acked[u] <= tried[u]
  BY DEF ServerInv, ServerTypes, AckedInv, WorkerInv, WorkerTypes, FreshInv, FloorInv
<1>8. \A u \in Units : HandleGet(WasmUrl(u), u) # Failed => HandleGet(WasmUrl(u), u) >= floor[u]
  BY <1>1, <1>4, <1>7 DEF ServerInv, FilesInv
<1>9. \A u \in Units : HandleGet(ObjectUrl(u), u) # Failed => HandleGet(ObjectUrl(u), u) >= floor[u]
  <2> SUFFICES ASSUME NEW u \in Units, HandleGet(ObjectUrl(u), u) # Failed PROVE HandleGet(ObjectUrl(u), u) >= floor[u]
    OBVIOUS
  <2>1. HandleGet(ObjectUrl(u), u) = ServerDisk[ObjectFile(u)] /\ ServerDisk[ObjectFile(u)] \in Nat
    BY <1>1, <1>5
  <2>2. CASE acked[u] = 0
    BY <1>7, <2>1, <2>2
  <2>3. CASE acked[u] # 0
    <3>1. acked[u] <= ServerDisk[ObjectFile(u)]
      BY <2>3 DEF ServerInv, AckedInv, Failed
    <3> QED
      BY <1>7, <2>1, <3>1
  <2> QED
    BY <2>2, <2>3
<1> QED
  BY <1>1, <1>4, <1>5, <1>6, <1>8, <1>9 DEF Failed

LEMMA DiskAsItIs ==
  ASSUME ServerInv, WorkerInv, UNCHANGED <<disk, floor>>
  PROVE  /\ ServerDisk' = ServerDisk /\ WorkerDisk' = WorkerDisk /\ disk' = [h \in {"server", "worker"} |-> disk'[h]]
         /\ WorkerDisk' \in [DOMAIN WorkerDisk' -> Version] /\ DOMAIN WorkerDisk \subseteq DOMAIN WorkerDisk' /\ DiskFresh'
<1>1. ServerDisk' = ServerDisk /\ WorkerDisk' = WorkerDisk
  BY DEF ServerDisk, WorkerDisk
<1>2. disk' = [h \in {"server", "worker"} |-> disk'[h]]
  BY DEF ServerInv, ServerTypes
<1> QED
  BY <1>1, <1>2 DEF WorkerInv, WorkerTypes, FreshInv, DiskFresh

(* The lock of the registry is held: NowInMap. *)
LEMMA NowInMapKeeps ==
  ASSUME ServerInv, WorkerInv, NEW f \in Faaslets, NEW v \in Version, NowInMap(f, v), at[f] \in {"wasm", "wasmGet"},
         unit[f] = Main => v >= floor[Main],
         ServerDisk' = ServerDisk, disk' = [h \in {"server", "worker"} |-> disk'[h]],
         WorkerDisk' \in [DOMAIN WorkerDisk' -> Version], DOMAIN WorkerDisk \subseteq DOMAIN WorkerDisk', DiskFresh'
  PROVE  ServerInv' /\ WorkerInv'
<1>1. WorkerTypes /\ at[f] \notin FlushStages \cup {"cold"} /\ at[f] \in LoadStages
  BY DEF WorkerInv, FlushStages, LoadStages
<1>2. unit[f] \in Units /\ unit[f] \in {Main} \cup SharedObjects
  BY <1>1, Hands, LoadingAssumption DEF HandsOf, Units
<1>3. Moves(f, "object", unit[f], Failed, Unbound, module[f]) /\ UNCHANGED <<compiledModuleMap, zygote, marks, floor>>
  BY <1>1, AsItIs DEF NowInMap, Clean, Go, Moves, flushVars
<1>4. moduleMap' = With(moduleMap, unit[f], v)
  BY DEF NowInMap
<1>5. moduleMap' \in [DOMAIN moduleMap' -> Version] /\ DOMAIN moduleMap' \subseteq Units
  BY <1>1, <1>2, <1>4 DEF WorkerTypes, With
<1>6. MapsFresh'
  BY <1>3, <1>4 DEF WorkerInv, FreshInv, MapsFresh, With
<1>7. HandsOf("object", unit[f], Failed, Unbound, module[f]) /\ FreshHands("object", unit[f], Failed, Unbound, module[f])
  BY <1>2, Hands DEF HandsOf, FreshHands, LoadStages
<1>8. "object" \in LoadStages /\ "object" \in Stages /\ "object" \notin FlushStages \cup {"cold", "ref", "clone"} /\ "object" # "build"
  BY DEF LoadStages, FlushStages, Stages
<1>9. unit[f] = Main <=> Builds(f)
  BY <1>1 DEF Builds
<1>10. pending = {} /\ unit[f] # Main => module[f] # Unbound
  BY <1>1 DEF WorkerInv, BoundInv
<1>11. DOMAIN compiledModuleMap' \subseteq Units /\ compiledModuleMap' \in [DOMAIN compiledModuleMap' -> Version]
  BY <1>1, <1>3 DEF WorkerTypes
<1> QED
  BY <1>1, <1>2, <1>3, <1>5, <1>6, <1>7, <1>8, <1>9, <1>10, <1>11, AsItIs, MovesLoad

(* A GET is sent. *)
LEMMA GetKeeps ==
  ASSUME ServerInv, WorkerInv, NEW f \in Faaslets, NEW u \in Units \cup Files, NEW type, NEW to \in {"wasmGet", "objectGet", "sync"},
         Get(f, u, type, to), at[f] \notin FlushStages \cup {"cold"},
         HandleGet(type, u) \in Nat,
         HandsOf(to, u, HandleGet(type, u), held[f], module[f]), FreshHands(to, u, HandleGet(type, u), held[f], module[f]),
         to \in LoadStages /\ u = Main <=> Builds(f), pending = {} /\ u # Main => module[f] # Unbound,
         UNCHANGED <<moduleMap, compiledModuleMap, zygote>>,
         \A x \in DOMAIN marks' : marks'[x] = "EXISTS" => x \in DOMAIN marks /\ marks[x] = "EXISTS"
  PROVE  ServerInv' /\ WorkerInv'
<1>1. WorkerTypes
  BY DEF WorkerInv
<1>2. Moves(f, to, u, HandleGet(type, u), held[f], module[f]) /\ UNCHANGED <<disk, floor>>
  BY <1>1, AsItIs DEF Get, Go, Moves, flushVars
<1>3. to \in Stages /\ to \notin FlushStages \cup {"cold", "ref", "clone"} /\ to # "build"
  BY DEF LoadStages, FlushStages, Stages
<1>4. pending = {} /\ (to \in {"idle", "run", "sync"} \/ (to \in LoadStages /\ u # Main)) => module[f] # Unbound
  <2>1. to = "sync" => u \in Files /\ u # Main
    BY LoadingAssumption, NamesAssumption DEF HandsOf, Files
  <2> QED
    BY <2>1 DEF LoadStages
<1>5. MapsFresh'
  BY <1>2 DEF WorkerInv, FreshInv, MapsFresh
<1>6. /\ DOMAIN moduleMap' \subseteq Units /\ moduleMap' \in [DOMAIN moduleMap' -> Version]
      /\ DOMAIN compiledModuleMap' \subseteq Units /\ compiledModuleMap' \in [DOMAIN compiledModuleMap' -> Version]
  BY <1>1 DEF WorkerTypes
<1>7. held[f] \in Modules /\ module[f] \in Modules
  BY <1>1, AsItIs
<1>8. /\ ServerDisk' = ServerDisk /\ disk' = [h \in {"server", "worker"} |-> disk'[h]]
      /\ WorkerDisk' \in [DOMAIN WorkerDisk' -> Version] /\ DOMAIN WorkerDisk \subseteq DOMAIN WorkerDisk' /\ DiskFresh'
  BY <1>2, DiskAsItIs
<1> QED
  BY <1>2, <1>3, <1>4, <1>5, <1>6, <1>7, <1>8, MovesLoad

LEMMA StoredWasm ==
  ASSUME ServerInv, WorkerInv, NEW u \in {Main} \cup SharedObjects, NEW v \in Version, u = Main => v >= floor[Main],
         disk' = WriteBytesToFile("worker", Wasm(u), v), floor' = floor
  PROVE  /\ ServerDisk' = ServerDisk /\ disk' = [h \in {"server", "worker"} |-> disk'[h]]
         /\ WorkerDisk' \in [DOMAIN WorkerDisk' -> Version] /\ DOMAIN WorkerDisk \subseteq DOMAIN WorkerDisk' /\ DiskFresh'
<1>1. ServerTypes /\ WorkerTypes
  BY DEF ServerInv, WorkerInv
<1>2. /\ WorkerDisk' = With(WorkerDisk, Wasm(u), v) /\ ServerDisk' = ServerDisk
      /\ disk' = [h \in {"server", "worker"} |-> disk'[h]] /\ WorkerDisk' \in [DOMAIN WorkerDisk' -> Version]
  BY <1>1, WorkerWrite
<1>3. /\ DOMAIN WorkerDisk' = DOMAIN WorkerDisk \cup {Wasm(u)} /\ WorkerDisk'[Wasm(u)] = v
      /\ \A p \in DOMAIN WorkerDisk : p # Wasm(u) => WorkerDisk'[p] = WorkerDisk[p]
  BY <1>2 DEF With
<1>4. u \in Units /\ FunctionNames \subseteq Units /\ (u \in FunctionNames => u = Main)
  BY LoadingAssumption DEF Units
<1>5. \A w \in FunctionNames : Wasm(w) = Wasm(u) => w = u /\ u = Main
  BY <1>4, UnitPaths
<1>6. \A w \in Units : ObjectFile(w) # Wasm(u)
  BY <1>4, UnitPaths
<1>7. \A w \in FunctionNames : Wasm(w) \in DOMAIN WorkerDisk' => WorkerDisk'[Wasm(w)] >= floor'[w]
  BY <1>3, <1>5 DEF WorkerInv, FreshInv, DiskFresh
<1>8. \A w \in Units : ObjectFile(w) \in DOMAIN WorkerDisk' => WorkerDisk'[ObjectFile(w)] >= floor'[w]
  BY <1>3, <1>6 DEF WorkerInv, FreshInv, DiskFresh
<1>9. DiskFresh'
  BY <1>7, <1>8 DEF DiskFresh
<1> QED
  BY <1>2, <1>3, <1>9

LEMMA StoredObject ==
  ASSUME ServerInv, WorkerInv, NEW u \in Units, NEW v \in Version, v >= floor[u],
         disk' = WriteBytesToFile("worker", ObjectFile(u), v), floor' = floor
  PROVE  /\ ServerDisk' = ServerDisk /\ disk' = [h \in {"server", "worker"} |-> disk'[h]]
         /\ WorkerDisk' \in [DOMAIN WorkerDisk' -> Version] /\ DOMAIN WorkerDisk \subseteq DOMAIN WorkerDisk' /\ DiskFresh'
<1>1. ServerTypes /\ WorkerTypes
  BY DEF ServerInv, WorkerInv
<1>2. /\ WorkerDisk' = With(WorkerDisk, ObjectFile(u), v) /\ ServerDisk' = ServerDisk
      /\ disk' = [h \in {"server", "worker"} |-> disk'[h]] /\ WorkerDisk' \in [DOMAIN WorkerDisk' -> Version]
  BY <1>1, WorkerWrite
<1>3. /\ DOMAIN WorkerDisk' = DOMAIN WorkerDisk \cup {ObjectFile(u)} /\ WorkerDisk'[ObjectFile(u)] = v
      /\ \A p \in DOMAIN WorkerDisk : p # ObjectFile(u) => WorkerDisk'[p] = WorkerDisk[p]
  BY <1>2 DEF With
<1>4. FunctionNames \subseteq Units
  BY DEF Units
<1>5. \A w \in FunctionNames : Wasm(w) # ObjectFile(u)
  BY <1>4, UnitPaths
<1>6. \A w \in Units : ObjectFile(w) = ObjectFile(u) => w = u
  BY UnitPaths
<1>7. \A w \in FunctionNames : Wasm(w) \in DOMAIN WorkerDisk' => WorkerDisk'[Wasm(w)] >= floor'[w]
  BY <1>3, <1>5 DEF WorkerInv, FreshInv, DiskFresh
<1>8. \A w \in Units : ObjectFile(w) \in DOMAIN WorkerDisk' => WorkerDisk'[ObjectFile(w)] >= floor'[w]
  BY <1>3, <1>6 DEF WorkerInv, FreshInv, DiskFresh
<1>9. DiskFresh'
  BY <1>7, <1>8 DEF DiskFresh
<1> QED
  BY <1>2, <1>3, <1>9

LEMMA GetModuleKeeps ==
  ASSUME ServerInv, WorkerInv, NEW f \in Faaslets, GetModule(f)
  PROVE  ServerInv' /\ WorkerInv'
<1> DEFINE u == unit[f]
<1>1. at[f] = "wasm" /\ WorkerTypes
  BY DEF GetModule, WorkerInv
<1>2. u \in {Main} \cup SharedObjects /\ u \in Units
  BY <1>1, Hands, LoadingAssumption DEF HandsOf, LoadStages, Units
<1>3. CASE IsModuleCached(u) /\ NowInMap(f, moduleMap[u]) /\ UNCHANGED disk
  <2>1. moduleMap[u] \in Version /\ (u = Main => moduleMap[u] >= floor[Main])
    BY <1>1, <1>3 DEF WorkerTypes, IsModuleCached, WorkerInv, FreshInv, MapsFresh
  <2>2. floor' = floor
    BY <1>3 DEF NowInMap, flushVars
  <2> QED
    BY <1>1, <1>3, <2>1, <2>2, DiskAsItIs, NowInMapKeeps
<1>4. CASE ~IsModuleCached(u) /\ Exists("worker", Wasm(u)) /\ NowInMap(f, disk["worker"][Wasm(u)]) /\ UNCHANGED disk
  <2>1. WorkerDisk[Wasm(u)] \in Version /\ (u = Main => WorkerDisk[Wasm(u)] >= floor[Main])
    BY <1>1, <1>4, LoadingAssumption DEF WorkerTypes, Exists, WorkerDisk, WorkerInv, FreshInv, DiskFresh
  <2>2. floor' = floor /\ NowInMap(f, WorkerDisk[Wasm(u)])
    BY <1>4 DEF NowInMap, flushVars, WorkerDisk
  <2> QED
    BY <1>1, <1>4, <2>1, <2>2, DiskAsItIs, NowInMapKeeps
<1>5. CASE ~IsModuleCached(u) /\ ~Exists("worker", Wasm(u)) /\ Get(f, u, WasmUrl(u), "wasmGet") /\ UNCHANGED cacheVars
  <2>1. HandleGet(WasmUrl(u), u) \in Nat /\ (HandleGet(WasmUrl(u), u) # Failed => HandleGet(WasmUrl(u), u) >= floor[u])
    BY <1>2, GetIsFresh
  <2>2. PICK g \in Nat : g = HandleGet(WasmUrl(u), u)
    BY <2>1
  <2>3. HandsOf("wasmGet", u, g, held[f], module[f])
    BY <1>1, <1>2, Hands DEF HandsOf, LoadStages
  <2>4. FreshHands("wasmGet", u, g, held[f], module[f])
    BY <1>1, <1>2, <2>1, <2>2, Hands DEF FreshHands
  <2>5. at[f] \notin FlushStages \cup {"cold"} /\ ("wasmGet" \in LoadStages /\ u = Main <=> Builds(f))
    BY <1>1 DEF FlushStages, LoadStages, Builds
  <2>6. pending = {} /\ u # Main => module[f] # Unbound
    BY <1>1 DEF WorkerInv, BoundInv, LoadStages
  <2>7. UNCHANGED <<moduleMap, compiledModuleMap, zygote, marks>>
    BY <1>5 DEF cacheVars
  <2> QED
    BY <1>2, <1>5, <2>1, <2>2, <2>3, <2>4, <2>5, <2>6, <2>7, GetKeeps
<1> QED
  BY <1>3, <1>4, <1>5 DEF GetModule

LEMMA GotModuleKeeps ==
  ASSUME ServerInv, WorkerInv, NEW f \in Faaslets, GotModule(f)
  PROVE  ServerInv' /\ WorkerInv'
<1> DEFINE u == unit[f]
<1>1. at[f] = "wasmGet" /\ WorkerTypes /\ NowInMap(f, got[f]) /\ disk' = WriteBytesToFile("worker", Wasm(u), got[f])
  BY DEF GotModule, Stored, WorkerInv
<1>2. u \in {Main} \cup SharedObjects
  BY <1>1, Hands DEF HandsOf, LoadStages
<1>3. got[f] \in Version /\ (u = Main => got[f] >= floor[Main])
  BY <1>1, Hands DEF GotModule, Answered, WorkerTypes, FreshHands, Version
<1>4. floor' = floor
  BY <1>1 DEF NowInMap, flushVars
<1> QED
  BY <1>1, <1>2, <1>3, <1>4, StoredWasm, NowInMapKeeps

(* Machine code goes with the Wasm of the map. *)
LEMMA LoadPrecompiledKeeps ==
  ASSUME ServerInv, WorkerInv, NEW f \in Faaslets, NEW v \in Version, LoadPrecompiledModule(f, v),
         at[f] \in {"object", "objectGet"}, v >= floor[unit[f]],
         ServerDisk' = ServerDisk, disk' = [h \in {"server", "worker"} |-> disk'[h]],
         WorkerDisk' \in [DOMAIN WorkerDisk' -> Version], DOMAIN WorkerDisk \subseteq DOMAIN WorkerDisk', DiskFresh'
  PROVE  ServerInv' /\ WorkerInv'
<1> DEFINE k == [wasm |-> moduleMap[unit[f]], object |-> v]
<1>1. WorkerTypes /\ at[f] \notin FlushStages \cup {"cold"} /\ at[f] \in LoadStages
  BY DEF WorkerInv, FlushStages, LoadStages
<1>2. unit[f] \in Units /\ unit[f] \in {Main} \cup SharedObjects /\ unit[f] \in DOMAIN moduleMap
  BY <1>1, Hands, LoadingAssumption DEF HandsOf, Units, LoadPrecompiledModule, IsModuleCached
<1>3. moduleMap[unit[f]] \in Version /\ k \in Modules /\ k # Unbound
  BY <1>1, <1>2 DEF WorkerTypes, Version, Modules, Unbound
<1>4. Moves(f, "build", unit[f], Failed, k, module[f]) /\ UNCHANGED <<moduleMap, zygote, marks, floor>>
  BY <1>1, AsItIs DEF LoadPrecompiledModule, Go, Moves, flushVars
<1>5. compiledModuleMap' = With(compiledModuleMap, unit[f], v)
  BY DEF LoadPrecompiledModule
<1>6. compiledModuleMap' \in [DOMAIN compiledModuleMap' -> Version] /\ DOMAIN compiledModuleMap' \subseteq Units
  BY <1>1, <1>2, <1>5 DEF WorkerTypes, With
<1>7. MapsFresh'
  BY <1>4, <1>5 DEF WorkerInv, FreshInv, MapsFresh, With
<1>8. HandsOf("build", unit[f], Failed, k, module[f])
  BY <1>2 DEF HandsOf, LoadStages
<1>9. FreshHands("build", unit[f], Failed, k, module[f])
  <2>1. unit[f] = Main => k.wasm >= floor[Main] /\ k.object >= floor[Main]
    BY <1>2 DEF WorkerInv, FreshInv, MapsFresh
  <2>2. Fresh(module[f])
    BY Hands DEF FreshHands
  <2> QED
    BY <2>1, <2>2 DEF FreshHands, Fresh
<1>10. "build" \in LoadStages /\ "build" \in Stages /\ "build" \notin FlushStages \cup {"cold", "ref", "clone"}
  BY DEF LoadStages, FlushStages, Stages
<1>11. unit[f] = Main <=> Builds(f)
  BY <1>1 DEF Builds
<1>12. pending = {} /\ unit[f] # Main => module[f] # Unbound
  BY <1>1 DEF WorkerInv, BoundInv
<1>13. DOMAIN moduleMap' \subseteq Units /\ moduleMap' \in [DOMAIN moduleMap' -> Version]
  BY <1>1, <1>4 DEF WorkerTypes
<1> HIDE DEF k
<1> QED
  BY <1>1, <1>2, <1>3, <1>4, <1>6, <1>7, <1>8, <1>9, <1>10, <1>11, <1>12, <1>13, AsItIs, MovesLoad

(* The process of the worker ends. *)
LEMMA WorkerDiesKeeps ==
  ASSUME ServerInv, WorkerInv, WorkerDies
  PROVE  ServerInv' /\ WorkerInv'
<1>1. /\ UNCHANGED <<disk, floor, acked>> /\ UNCHANGED serverVars
      /\ zygote' = Nothing /\ moduleMap' = None /\ compiledModuleMap' = None /\ marks' = None /\ pending' = {}
      /\ goal' = [u \in Units |-> Failed]
  BY DEF WorkerDies, serverVars
<1>2. \A e \in Faaslets : at'[e] = "cold" /\ unit'[e] = Main /\ got'[e] = Failed /\ held'[e] = Unbound /\ module'[e] = Unbound
  BY DEF WorkerDies
<1>3. /\ ServerDisk' = ServerDisk /\ WorkerDisk' = WorkerDisk /\ disk' = [h \in {"server", "worker"} |-> disk'[h]]
      /\ WorkerDisk' \in [DOMAIN WorkerDisk' -> Version] /\ DiskFresh'
  BY <1>1, DiskAsItIs
<1>4. ServerInv'
  BY <1>1, <1>3, ServerFrame
<1>5. WorkerTypes'
  <2>1. Main \in Units /\ Unbound \in Modules /\ Failed \in Nat /\ "cold" \in Stages
    BY LoadingAssumption DEF Units, Unbound, Modules, Failed, Stages
  <2>2. /\ at' \in [Faaslets -> Stages] /\ unit' \in [Faaslets -> Units \cup Files] /\ got' \in [Faaslets -> Nat]
        /\ held' \in [Faaslets -> Modules] /\ module' \in [Faaslets -> Modules] /\ goal' \in [Units -> Nat]
    BY <2>1, <1>1 DEF WorkerDies
  <2>3. floor' \in [Units -> Nat]
    BY <1>1 DEF WorkerInv, WorkerTypes
  <2> QED
    BY <1>1, <1>3, <2>2, <2>3 DEF WorkerTypes, None
<1>6. HandsInv' /\ FlushInv' /\ ClearedInv'
  BY <1>1, <1>2 DEF HandsInv, HandsOf, FlushInv, ClearedInv, FlushStages, LoadStages
<1>7. MarkInv' /\ BoundInv'
  BY <1>1, <1>2 DEF MarkInv, BoundInv, Builds, LoadStages, None, Nothing
<1>8. FreshInv'
  <2>1. FloorInv'
    <3>1. \A u \in Units : acked[u] \in Nat /\ floor[u] <= acked[u]
      BY DEF ServerInv, ServerTypes, WorkerInv, FreshInv, FloorInv
    <3> QED
      BY <1>1, <3>1 DEF FloorInv, Failed
  <2>2. MapsFresh' /\ ZygoteFresh' /\ HandsFresh'
    BY <1>1, <1>2 DEF MapsFresh, ZygoteFresh, HandsFresh, FreshHands, Fresh, None
  <2> QED
    BY <1>3, <2>1, <2>2 DEF FreshInv
<1> QED
  BY <1>4, <1>5, <1>6, <1>7, <1>8 DEF WorkerInv

LEMMA GetCompiledKeeps ==
  ASSUME ServerInv, WorkerInv, NEW f \in Faaslets, GetCompiledModule(f)
  PROVE  ServerInv' /\ WorkerInv'
<1> DEFINE u == unit[f]
<1>1. at[f] = "object" /\ WorkerTypes
  BY DEF GetCompiledModule, WorkerInv
<1>2. u \in {Main} \cup SharedObjects /\ u \in Units
  BY <1>1, Hands, LoadingAssumption DEF HandsOf, LoadStages, Units
<1>3. CASE IsCompiledModuleCached(u) /\ LoadPrecompiledModule(f, compiledModuleMap[u]) /\ UNCHANGED disk
  <2>1. compiledModuleMap[u] \in Version /\ compiledModuleMap[u] >= floor[u]
    BY <1>1, <1>3 DEF WorkerTypes, IsCompiledModuleCached, WorkerInv, FreshInv, MapsFresh
  <2>2. floor' = floor
    BY <1>3 DEF LoadPrecompiledModule, flushVars
  <2> QED
    BY <1>1, <1>3, <2>1, <2>2, DiskAsItIs, LoadPrecompiledKeeps
<1>4. CASE /\ ~IsCompiledModuleCached(u) /\ Exists("worker", ObjectFile(u))
           /\ LoadPrecompiledModule(f, disk["worker"][ObjectFile(u)]) /\ UNCHANGED disk
  <2>1. WorkerDisk[ObjectFile(u)] \in Version /\ WorkerDisk[ObjectFile(u)] >= floor[u]
    BY <1>1, <1>2, <1>4 DEF WorkerTypes, Exists, WorkerDisk, WorkerInv, FreshInv, DiskFresh
  <2>2. floor' = floor /\ LoadPrecompiledModule(f, WorkerDisk[ObjectFile(u)])
    BY <1>4 DEF LoadPrecompiledModule, flushVars, WorkerDisk
  <2> QED
    BY <1>1, <1>4, <2>1, <2>2, DiskAsItIs, LoadPrecompiledKeeps
<1>5. CASE /\ ~IsCompiledModuleCached(u) /\ ~Exists("worker", ObjectFile(u))
           /\ Get(f, u, ObjectUrl(u), "objectGet") /\ UNCHANGED cacheVars
  <2>1. HandleGet(ObjectUrl(u), u) \in Nat /\ (HandleGet(ObjectUrl(u), u) # Failed => HandleGet(ObjectUrl(u), u) >= floor[u])
    BY <1>2, GetIsFresh
  <2>2. PICK g \in Nat : g = HandleGet(ObjectUrl(u), u)
    BY <2>1
  <2>3. HandsOf("objectGet", u, g, held[f], module[f])
    BY <1>1, <1>2, Hands DEF HandsOf, LoadStages
  <2>4. FreshHands("objectGet", u, g, held[f], module[f])
    BY <1>1, <1>2, <2>1, <2>2, Hands DEF FreshHands
  <2>5. at[f] \notin FlushStages \cup {"cold"} /\ ("objectGet" \in LoadStages /\ u = Main <=> Builds(f))
    BY <1>1 DEF FlushStages, LoadStages, Builds
  <2>6. pending = {} /\ u # Main => module[f] # Unbound
    BY <1>1 DEF WorkerInv, BoundInv, LoadStages
  <2>7. UNCHANGED <<moduleMap, compiledModuleMap, zygote, marks>>
    BY <1>5 DEF cacheVars
  <2> QED
    BY <1>2, <1>5, <2>1, <2>2, <2>3, <2>4, <2>5, <2>6, <2>7, GetKeeps
<1>6. CASE Throws(f)
  BY <1>1, <1>6, WorkerDiesKeeps, FailedCallKeeps DEF Throws, LoadStages
<1> QED
  BY <1>3, <1>4, <1>5, <1>6 DEF GetCompiledModule

LEMMA GotCompiledKeeps ==
  ASSUME ServerInv, WorkerInv, NEW f \in Faaslets, GotCompiledModule(f)
  PROVE  ServerInv' /\ WorkerInv'
<1> DEFINE u == unit[f]
<1>1. /\ at[f] = "objectGet" /\ WorkerTypes /\ LoadPrecompiledModule(f, got[f])
      /\ disk' = WriteBytesToFile("worker", ObjectFile(u), got[f])
  BY DEF GotCompiledModule, Stored, WorkerInv
<1>2. u \in Units
  BY <1>1, Hands, LoadingAssumption DEF HandsOf, LoadStages, Units
<1>3. got[f] \in Version /\ got[f] >= floor[u]
  BY <1>1, Hands DEF GotCompiledModule, Answered, WorkerTypes, FreshHands, Version
<1>4. floor' = floor
  BY <1>1 DEF LoadPrecompiledModule, flushVars
<1> QED
  BY <1>1, <1>2, <1>3, <1>4, StoredObject, LoadPrecompiledKeeps

LEMMA GetFailsKeeps ==
  ASSUME ServerInv, WorkerInv, NEW f \in Faaslets, GetFails(f)
  PROVE  ServerInv' /\ WorkerInv'
BY WorkerDiesKeeps, FailedCallKeeps DEF GetFails, Throws, LoadStages


(* The same with a change of the zygote. *)
LEMMA MovesZygote ==
  ASSUME ServerInv, WorkerInv, NEW f \in Faaslets, NEW s \in Stages, NEW u \in Units \cup Files, NEW g \in Nat,
         NEW k \in Modules, NEW m \in Modules, Moves(f, s, u, g, k, m),
         UNCHANGED <<disk, moduleMap, compiledModuleMap, marks>>,
         NEW z, zygote' = z, z = Nothing \/ (z = <<z[1]>> /\ z[1] \in Modules), z # Nothing => Fresh(z[1]),
         at[f] \notin FlushStages \cup {"cold"}, s \notin FlushStages \cup {"cold"},
         HandsOf(s, u, g, k, m), FreshHands(s, u, g, k, m), BoundInv'
  PROVE  ServerInv' /\ WorkerInv'
<1>1. UNCHANGED serverVars /\ floor' = floor
  BY DEF Moves
<1>2. /\ ServerDisk' = ServerDisk /\ WorkerDisk' = WorkerDisk /\ disk' = [h \in {"server", "worker"} |-> disk'[h]] /\ DiskFresh'
  BY <1>1, DiskAsItIs
<1>3. ServerInv'
  BY <1>1, <1>2, ServerFrame
<1>4. WorkerTypes
  BY DEF WorkerInv
<1>5. zygote' = Nothing \/ (zygote' = <<zygote'[1]>> /\ zygote'[1] \in Modules)
  OBVIOUS
<1>6. WorkerTypes'
  BY <1>2, <1>4, <1>5, MovesFacts DEF WorkerTypes, Moves
<1>7. HandsInv' /\ FlushInv' /\ ClearedInv' /\ MarkInv' /\ FloorInv' /\ HandsFresh'
  BY <1>2, MovesInv
<1>8. MapsFresh'
  BY <1>1 DEF WorkerInv, FreshInv, MapsFresh
<1>9. ZygoteFresh'
  BY <1>1 DEF ZygoteFresh, Fresh
<1> QED
  BY <1>2, <1>3, <1>6, <1>7, <1>8, <1>9 DEF WorkerInv, FreshInv

LEMMA ZygoteFacts ==
  ASSUME WorkerInv
  PROVE  /\ zygote = Nothing \/ (zygote = <<zygote[1]>> /\ zygote[1] \in Modules)
         /\ zygote # Nothing => Fresh(zygote[1])
         /\ <<Unbound>> # Nothing /\ <<Unbound>>[1] = Unbound /\ Unbound \in Modules /\ Fresh(Unbound)
BY DEF WorkerInv, WorkerTypes, FreshInv, ZygoteFresh, Fresh, Nothing, Unbound, Modules, Failed

LEMMA GetCachedKeeps ==
  ASSUME ServerInv, WorkerInv, NEW f \in Faaslets, GetCachedModule(f)
  PROVE  ServerInv' /\ WorkerInv'
<1>1. at[f] = "check" /\ WorkerTypes /\ BoundInv /\ \A e \in Faaslets : ~Builds(e)
  BY DEF GetCachedModule, ZygoteFree, WorkerInv, Builds, LoadStages
<1>2. unit[f] = Main /\ got[f] = Failed /\ held[f] = Unbound
  BY <1>1, Hands DEF HandsOf, LoadStages
<1>3. UNCHANGED <<disk, moduleMap, compiledModuleMap, marks>>
  BY DEF GetCachedModule
<1>4. at[f] \notin FlushStages \cup {"cold"}
  BY <1>1 DEF FlushStages
<1>5. CASE zygote = Nothing
  <2>1. Moves(f, "wasm", Main, Failed, Unbound, module[f]) /\ zygote' = <<Unbound>>
    BY <1>1, <1>2, <1>5, AsItIs DEF GetCachedModule, Go, Moves, flushVars
  <2>2. HandsOf("wasm", Main, Failed, Unbound, module[f]) /\ FreshHands("wasm", Main, Failed, Unbound, module[f])
    BY <1>1, Hands DEF HandsOf, FreshHands, LoadStages
  <2>3. "wasm" \in LoadStages /\ "wasm" \in Stages /\ "wasm" \notin FlushStages \cup {"cold"}
    BY DEF LoadStages, FlushStages, Stages
  <2>4. pending = {} => \A e \in Faaslets : at[e] # "ref"
    BY <1>1, <1>5 DEF BoundInv
  <2>5. BoundInv'
    BY <1>1, <2>1, <2>3, <2>4, AsItIs, MovesBound
  <2> QED
    BY <1>1, <1>3, <1>4, <2>1, <2>2, <2>3, <2>5, AsItIs, ZygoteFacts, MovesZygote
<1>6. CASE zygote # Nothing
  <2>1. Moves(f, "ref", Main, Failed, Unbound, module[f]) /\ zygote' = zygote
    BY <1>1, <1>2, <1>6, AsItIs DEF GetCachedModule, Go, Moves, flushVars
  <2>2. HandsOf("ref", Main, Failed, Unbound, module[f]) /\ FreshHands("ref", Main, Failed, Unbound, module[f])
    BY <1>1, Hands DEF HandsOf, FreshHands, LoadStages
  <2>3. "ref" \in Stages /\ "ref" \notin LoadStages /\ "ref" \notin FlushStages \cup {"cold"}
    BY DEF LoadStages, FlushStages, Stages
  <2>4. pending = {} => zygote # <<Unbound>>
    BY <1>1 DEF BoundInv
  <2>5. BoundInv'
    BY <1>1, <1>6, <2>1, <2>3, <2>4, AsItIs, MovesBound
  <2> QED
    BY <1>1, <1>3, <1>4, <2>1, <2>2, <2>3, <2>5, AsItIs, ZygoteFacts, MovesZygote
<1> QED
  BY <1>5, <1>6

LEMMA InstantiateKeeps ==
  ASSUME ServerInv, WorkerInv, NEW f \in Faaslets, Instantiate(f)
  PROVE  ServerInv' /\ WorkerInv'
<1>1. at[f] = "build" /\ WorkerTypes /\ BoundInv /\ held[f] # Unbound
  BY DEF Instantiate, WorkerInv, BoundInv
<1>2. UNCHANGED <<disk, moduleMap, compiledModuleMap, marks>>
  BY DEF Instantiate
<1>3. at[f] \notin FlushStages \cup {"cold"} /\ at[f] \in LoadStages
  BY <1>1 DEF FlushStages, LoadStages
<1>4. CASE unit[f] = Main
  <2> DEFINE z == IF zygote = Nothing THEN Nothing ELSE <<held[f]>>
  <2>1. Moves(f, "ref", Main, Failed, Unbound, module[f]) /\ zygote' = z
    BY <1>1, <1>4, AsItIs DEF Instantiate, Clean, Go, Moves, flushVars
  <2>2. HandsOf("ref", Main, Failed, Unbound, module[f]) /\ FreshHands("ref", Main, Failed, Unbound, module[f])
    BY <1>1, Hands DEF HandsOf, FreshHands, LoadStages
  <2>3. "ref" \in Stages /\ "ref" \notin LoadStages /\ "ref" \notin FlushStages \cup {"cold"}
    BY DEF LoadStages, FlushStages, Stages
  <2>4. held[f] \in Modules /\ Fresh(held[f])
    BY <1>1, <1>4, AsItIs, Hands DEF FreshHands
  <2>5. z = Nothing \/ (z = <<z[1]>> /\ z[1] \in Modules)
    BY <2>4
  <2>6. z # Nothing => Fresh(z[1])
    <3>1. z # Nothing => z[1] = held[f]
      OBVIOUS
    <3> QED
      BY <2>4, <3>1 DEF Fresh
  <2>7. z # <<Unbound>>
    BY <1>1 DEF Nothing
  <2>8. pending = {} => z # Nothing
    <3>1. pending = {} => zygote = <<Unbound>>
      BY <1>1, <1>3, <1>4 DEF BoundInv, Builds
    <3> QED
      BY <3>1 DEF Nothing
  <2>9. \A e \in Faaslets \ {f} : ~Builds(e)
    BY <1>1, <1>3, <1>4 DEF BoundInv, Builds
  <2> HIDE DEF z
  <2>10. BoundInv'
    BY <2>1, <2>3, <2>7, <2>8, <2>9, <1>1, AsItIs, MovesBound
  <2> QED
    BY <1>1, <1>2, <1>3, <2>1, <2>2, <2>3, <2>5, <2>6, <2>10, AsItIs, MovesZygote
<1>5. CASE unit[f] # Main
  <2>1. Moves(f, "run", Main, Failed, Unbound, module[f]) /\ zygote' = zygote
    BY <1>1, <1>5, AsItIs DEF Instantiate, Clean, Go, Moves, flushVars
  <2>2. HandsOf("run", Main, Failed, Unbound, module[f]) /\ FreshHands("run", Main, Failed, Unbound, module[f])
    BY <1>1, Hands DEF HandsOf, FreshHands, LoadStages
  <2>3. ~Builds(f) /\ "run" \in Stages /\ "run" \notin LoadStages /\ "run" \notin FlushStages \cup {"cold"}
    BY <1>5 DEF Builds, LoadStages, FlushStages, Stages
  <2>4. pending = {} => module[f] # Unbound
    BY <1>1, <1>3, <1>5 DEF BoundInv
  <2> QED
    BY <1>1, <1>2, <1>3, <2>1, <2>2, <2>3, <2>4, AsItIs, MovesQuiet
<1> QED
  BY <1>4, <1>5

LEMMA ReadCachedKeeps ==
  ASSUME ServerInv, WorkerInv, NEW f \in Faaslets, ReadCachedModule(f)
  PROVE  ServerInv' /\ WorkerInv'
<1> DEFINE z == IF zygote = Nothing THEN <<Unbound>> ELSE zygote
<1>1. at[f] = "ref" /\ WorkerTypes /\ BoundInv /\ unit[f] = Main /\ got[f] = Failed
  BY Hands DEF ReadCachedModule, WorkerInv, HandsOf, LoadStages
<1>2. UNCHANGED <<disk, moduleMap, compiledModuleMap, marks>>
  BY DEF ReadCachedModule
<1>3. at[f] \notin FlushStages \cup {"cold"} /\ at[f] \notin LoadStages
  BY <1>1 DEF FlushStages, LoadStages
<1>4. z = <<z[1]>> /\ z[1] \in Modules /\ Fresh(z[1])
  <2>1. CASE zygote = Nothing
    BY <2>1, ZygoteFacts
  <2>2. CASE zygote # Nothing
    BY <2>2, ZygoteFacts
  <2> QED
    BY <2>1, <2>2
<1>5. Moves(f, "clone", Main, Failed, z[1], module[f]) /\ zygote' = z
  BY <1>1, AsItIs DEF ReadCachedModule, Go, Moves, flushVars
<1>6. pending = {} => z = zygote /\ z # Nothing /\ z # <<Unbound>>
  BY <1>1 DEF BoundInv
<1> HIDE DEF z
<1>7. PICK k \in Modules : k = z[1]
  BY <1>4
<1>8. HandsOf("clone", Main, Failed, k, module[f]) /\ FreshHands("clone", Main, Failed, k, module[f])
  BY <1>1, <1>4, <1>7, Hands DEF HandsOf, FreshHands, LoadStages
<1>9. "clone" \in Stages /\ "clone" \notin LoadStages /\ "clone" \notin FlushStages \cup {"cold"}
  BY DEF LoadStages, FlushStages, Stages
<1>10. ~Builds(f) /\ (pending = {} => k # Unbound)
  BY <1>3, <1>4, <1>6, <1>7 DEF Builds
<1>11. pending = {} =>
         /\ \A e \in Faaslets : Builds(e) => zygote = <<Unbound>>
         /\ zygote = <<Unbound>> => \E e \in Faaslets : Builds(e)
  BY <1>1 DEF BoundInv
<1>12. Moves(f, "clone", Main, Failed, k, module[f])
  BY <1>5, <1>7
<1>13. BoundInv'
  BY <1>1, <1>5, <1>6, <1>9, <1>10, <1>11, <1>12, AsItIs, MovesBound
<1> QED
  BY <1>1, <1>2, <1>3, <1>4, <1>5, <1>8, <1>9, <1>12, <1>13, AsItIs, MovesZygote


(* A shared file is where functions look for it, and where it is kept. *)
LEMMA WorkerPlaced ==
  ASSUME ServerInv, WorkerInv, NEW x \in Files, NEW v \in Version, disk' = Placed(x, v), floor' = floor
  PROVE  /\ ServerDisk' = ServerDisk /\ disk' = [h \in {"server", "worker"} |-> disk'[h]]
         /\ WorkerDisk' \in [DOMAIN WorkerDisk' -> Version] /\ DOMAIN WorkerDisk \subseteq DOMAIN WorkerDisk' /\ DiskFresh'
         /\ RealPath(x) \in DOMAIN WorkerDisk'
<1> DEFINE new == With(With(WorkerDisk, Store(x), v), RealPath(x), v)
<1>1. ServerTypes /\ WorkerTypes
  BY DEF ServerInv, WorkerInv
<1>2. WorkerDisk' = new /\ ServerDisk' = ServerDisk /\ disk' = [h \in {"server", "worker"} |-> disk'[h]]
  BY <1>1 DEF ServerTypes, ServerDisk, WorkerDisk, Placed
<1>3. With(WorkerDisk, Store(x), v) \in [DOMAIN With(WorkerDisk, Store(x), v) -> Version]
  BY <1>1, WithTyped DEF WorkerTypes
<1>4. new \in [DOMAIN new -> Version]
  BY <1>3, WithTyped
<1>5. /\ DOMAIN new = DOMAIN WorkerDisk \cup {Store(x), RealPath(x)}
      /\ \A p \in DOMAIN WorkerDisk : p \notin {Store(x), RealPath(x)} => new[p] = WorkerDisk[p]
  BY DEF With
<1> HIDE DEF new
<1>6. FunctionNames \subseteq Units
  BY DEF Units
<1>7. \A w \in FunctionNames : Wasm(w) \notin {Store(x), RealPath(x)}
  BY SharedPaths
<1>8. \A w \in Units : ObjectFile(w) \notin {Store(x), RealPath(x)}
  BY SharedPaths
<1>9. \A w \in FunctionNames : Wasm(w) \in DOMAIN WorkerDisk' => WorkerDisk'[Wasm(w)] >= floor'[w]
  BY <1>2, <1>5, <1>7 DEF WorkerInv, FreshInv, DiskFresh
<1>10. \A w \in Units : ObjectFile(w) \in DOMAIN WorkerDisk' => WorkerDisk'[ObjectFile(w)] >= floor'[w]
  BY <1>2, <1>5, <1>8 DEF WorkerInv, FreshInv, DiskFresh
<1>11. DiskFresh'
  BY <1>9, <1>10 DEF DiskFresh
<1> QED
  BY <1>2, <1>4, <1>5, <1>11

(* A Faaslet runs on with a shared file that is there. *)
LEMMA RunsOn ==
  ASSUME ServerInv, WorkerInv, NEW f \in Faaslets, at[f] \in {"run", "sync"}, NEW x \in Files,
         Moves(f, "run", Main, Failed, Unbound, module[f]), UNCHANGED <<moduleMap, compiledModuleMap, zygote>>, Mark(x, "EXISTS"),
         ServerDisk' = ServerDisk, disk' = [h \in {"server", "worker"} |-> disk'[h]],
         WorkerDisk' \in [DOMAIN WorkerDisk' -> Version], DOMAIN WorkerDisk \subseteq DOMAIN WorkerDisk', DiskFresh',
         RealPath(x) \in DOMAIN WorkerDisk'
  PROVE  ServerInv' /\ WorkerInv'
<1>1. WorkerTypes /\ floor' = floor
  BY DEF WorkerInv, Moves
<1>2. HandsOf("run", Main, Failed, Unbound, module[f]) /\ FreshHands("run", Main, Failed, Unbound, module[f])
  BY <1>1, Hands DEF HandsOf, FreshHands, LoadStages
<1>3. "run" \in Stages /\ "run" \notin LoadStages /\ "run" \notin FlushStages \cup {"cold", "ref", "clone"} /\ "run" # "build"
      /\ at[f] \notin FlushStages \cup {"cold"} /\ ~Builds(f)
  BY DEF LoadStages, FlushStages, Stages, Builds
<1>4. pending = {} => module[f] # Unbound
  BY DEF WorkerInv, BoundInv
<1>5. MapsFresh' /\ DOMAIN moduleMap' \subseteq Units /\ moduleMap' \in [DOMAIN moduleMap' -> Version]
      /\ DOMAIN compiledModuleMap' \subseteq Units /\ compiledModuleMap' \in [DOMAIN compiledModuleMap' -> Version]
  BY <1>1 DEF WorkerInv, WorkerTypes, FreshInv, MapsFresh
<1>6. \A y \in DOMAIN marks' : marks'[y] = "EXISTS" =>
        (y \in DOMAIN marks /\ marks[y] = "EXISTS") \/ RealPath(y) \in DOMAIN WorkerDisk'
  BY DEF Mark, With
<1> QED
  BY <1>1, <1>2, <1>3, <1>4, <1>5, <1>6, AsItIs, MovesLoad

LEMMA SyncKeeps ==
  ASSUME ServerInv, WorkerInv, NEW f \in Faaslets, NEW x \in Files, SyncSharedFile(f, x)
  PROVE  ServerInv' /\ WorkerInv'
<1>1. at[f] = "run" /\ WorkerTypes
  BY DEF SyncSharedFile, WorkerInv
<1>2. unit[f] = Main /\ got[f] = Failed /\ held[f] = Unbound
  BY <1>1, Hands DEF HandsOf, LoadStages
<1>3. CASE FoundSharedFile(f, x)
  <2>1. UNCHANGED <<at, unit, got, held, module, pending, goal, floor>> /\ UNCHANGED serverVars
        /\ UNCHANGED <<moduleMap, compiledModuleMap, zygote>> /\ Mark(x, "EXISTS")
    BY <1>3 DEF FoundSharedFile, faasletVars, flushVars
  <2>2. at = [at EXCEPT ![f] = "run"]
    BY <1>1 DEF WorkerTypes
  <2>3. Moves(f, "run", Main, Failed, Unbound, module[f])
    BY <1>1, <1>2, <2>1, <2>2, AsItIs DEF Moves
  <2>4. CASE Exists("worker", RealPath(x)) /\ UNCHANGED disk
    <3>1. RealPath(x) \in DOMAIN WorkerDisk
      BY <2>4 DEF Exists, WorkerDisk
    <3> QED
      BY <1>1, <2>1, <2>3, <2>4, <3>1, DiskAsItIs, RunsOn
  <2>5. CASE Exists("worker", Store(x)) /\ disk' = Placed(x, disk["worker"][Store(x)])
    <3>1. WorkerDisk[Store(x)] \in Version /\ disk' = Placed(x, WorkerDisk[Store(x)])
      BY <1>1, <2>5 DEF Exists, WorkerDisk, WorkerTypes
    <3> QED
      BY <1>1, <2>1, <2>3, <3>1, WorkerPlaced, RunsOn
  <2> QED
    BY <1>3, <2>4, <2>5 DEF FoundSharedFile
<1>4. CASE AskForSharedFile(f, x)
  <2>1. Get(f, x, "file", "sync") /\ UNCHANGED <<moduleMap, compiledModuleMap, zygote>> /\ Mark(x, "NOT_CHECKED")
    BY <1>4 DEF AskForSharedFile
  <2>2. HandleGet("file", x) \in Nat
    BY GetIsFresh
  <2>3. PICK g \in Nat : g = HandleGet("file", x)
    BY <2>2
  <2>4. x # Main
    BY LoadingAssumption, NamesAssumption DEF Files
  <2>5. HandsOf("sync", x, g, held[f], module[f]) /\ FreshHands("sync", x, g, held[f], module[f])
    BY <1>1, Hands DEF HandsOf, FreshHands, LoadStages
  <2>6. at[f] \notin FlushStages \cup {"cold"} /\ "sync" \notin LoadStages /\ ~Builds(f)
    BY <1>1 DEF FlushStages, LoadStages, Builds
  <2>7. pending = {} => module[f] # Unbound
    BY <1>1 DEF WorkerInv, BoundInv
  <2>8. \A y \in DOMAIN marks' : marks'[y] = "EXISTS" => y \in DOMAIN marks /\ marks[y] = "EXISTS"
    BY <2>1 DEF Mark, With
  <2> QED
    BY <2>1, <2>2, <2>3, <2>4, <2>5, <2>6, <2>7, <2>8, GetKeeps
<1> QED
  BY <1>3, <1>4 DEF SyncSharedFile

LEMMA GotSharedKeeps ==
  ASSUME ServerInv, WorkerInv, NEW f \in Faaslets, GotSharedFile(f)
  PROVE  ServerInv' /\ WorkerInv'
<1>1. at[f] = "sync" /\ WorkerTypes /\ disk' = Placed(unit[f], got[f]) /\ Mark(unit[f], "EXISTS")
      /\ UNCHANGED <<moduleMap, compiledModuleMap, zygote>>
  BY DEF GotSharedFile, WorkerInv
<1>2. unit[f] \in Files
  BY <1>1, Hands DEF HandsOf
<1>3. got[f] \in Version
  BY <1>1, Hands DEF GotSharedFile, Answered, WorkerTypes, Version
<1>4. Moves(f, "run", Main, Failed, Unbound, module[f]) /\ floor' = floor
  BY <1>1, AsItIs DEF GotSharedFile, Clean, Go, Moves, flushVars
<1> QED
  BY <1>1, <1>2, <1>3, <1>4, WorkerPlaced, RunsOn


-----------------------------------------------------------------------------
(* A flush. *)
LEMMA FlushLocallyKeeps ==
  ASSUME ServerInv, WorkerInv, FlushLocally
  PROVE  ServerInv' /\ WorkerInv'
<1>1. /\ pending = {} /\ pending' = Warm /\ Warm # {} /\ goal' = [u \in Units |-> acked[u]]
      /\ UNCHANGED <<disk, moduleMap, compiledModuleMap, zygote, marks, at, unit, got, held, module, floor>> /\ UNCHANGED serverVars
  BY DEF FlushLocally, Restrict, cacheVars, faasletVars
<1>2. /\ ServerDisk' = ServerDisk /\ WorkerDisk' = WorkerDisk /\ disk' = [h \in {"server", "worker"} |-> disk'[h]] /\ DiskFresh'
  BY <1>1, DiskAsItIs
<1>3. ServerInv'
  BY <1>1, <1>2, ServerFrame
<1>4. WorkerTypes /\ FlushInv /\ \A u \in Units : acked[u] \in Nat
  BY DEF WorkerInv, ServerInv, ServerTypes
<1>5. WorkerTypes'
  <2>1. goal' \in [Units -> Nat] /\ pending' \subseteq Faaslets
    BY <1>1, <1>4 DEF Warm
  <2> QED
    BY <1>1, <1>2, <1>4, <2>1 DEF WorkerTypes
<1>6. HandsInv'
  BY <1>1 DEF WorkerInv, HandsInv
<1>7. \A f \in Faaslets : at'[f] \notin FlushStages
  BY <1>1, <1>4 DEF FlushInv
<1>8. FlushInv' /\ ClearedInv'
  BY <1>1, <1>7 DEF FlushInv, ClearedInv, Warm, FlushStages
<1>9. MarkInv'
  BY <1>1, <1>7 DEF MarkInv, Later, Warm
<1>10. FloorInv'
  <2>1. \A u \in Units : floor'[u] = floor[u] /\ goal'[u] = acked[u] /\ acked'[u] = acked[u] /\ floor[u] <= acked[u]
    BY <1>1 DEF serverVars, WorkerInv, FreshInv, FloorInv
  <2> QED
    BY <1>4, <2>1 DEF FloorInv
<1>11. MapsFresh' /\ ZygoteFresh' /\ HandsFresh'
  BY <1>1 DEF WorkerInv, FreshInv, MapsFresh, ZygoteFresh, HandsFresh, FreshHands, Fresh
<1>12. BoundInv'
  BY <1>1 DEF WorkerInv, BoundInv, Builds
<1> QED
  BY <1>2, <1>3, <1>5, <1>6, <1>8, <1>9, <1>10, <1>11, <1>12 DEF WorkerInv, FreshInv

(* The Faaslet whose turn it is goes on to s. *)
FlushGoes(f, s) ==
  /\ at[f] \in FlushStages \/ (at[f] = "idle" /\ f \in pending /\ \A e \in Faaslets : at[e] \notin FlushStages)
  /\ at' = [at EXCEPT ![f] = s]
  /\ UNCHANGED <<unit, got, held, module, pending, goal, floor>> /\ UNCHANGED serverVars

LEMMA FlushGoesFacts ==
  ASSUME WorkerTypes, FlushInv, NEW f \in Faaslets, NEW s \in FlushStages, FlushGoes(f, s)
  PROVE  /\ at'[f] = s /\ \A e \in Faaslets : e # f => at'[e] = at[e] /\ at[e] \notin FlushStages
         /\ f \in pending /\ FlushInv'
         /\ Later' <=> \E g \in pending : g # f
         /\ at[f] \in FlushStages => (Later <=> Later')
         /\ Later => Later' \/ at[f] = "idle"
<1>1. at'[f] = s /\ \A e \in Faaslets : e # f => at'[e] = at[e]
  BY DEF WorkerTypes, FlushGoes
<1>2. f \in pending /\ \A e \in Faaslets : e # f => at[e] \notin FlushStages
  BY DEF FlushInv, FlushGoes
<1>3. pending' = pending /\ pending \subseteq Faaslets /\ at[f] # "cold" /\ s # "cold"
  BY DEF FlushGoes, WorkerTypes, FlushStages
<1>4. FlushInv'
  BY <1>1, <1>2, <1>3 DEF FlushInv
<1>5. Later' <=> \E g \in pending : g # f
  BY <1>1, <1>2, <1>3 DEF Later
<1>6. at[f] \in FlushStages => (Later <=> \E g \in pending : g # f)
  BY <1>2, <1>3 DEF Later
<1>7. at[f] \in FlushStages \/ at[f] = "idle"
  BY DEF FlushGoes
<1> QED
  BY <1>1, <1>2, <1>4, <1>5, <1>6, <1>7

LEMMA FlushGoesInv ==
  ASSUME ServerInv, WorkerInv, NEW f \in Faaslets, NEW s \in FlushStages, FlushGoes(f, s), zygote' = zygote,
         ServerDisk' = ServerDisk, disk' = [h \in {"server", "worker"} |-> disk'[h]],
         WorkerDisk' \in [DOMAIN WorkerDisk' -> Version], DiskFresh',
         DOMAIN moduleMap' \subseteq Units, moduleMap' \in [DOMAIN moduleMap' -> Version],
         DOMAIN compiledModuleMap' \subseteq Units, compiledModuleMap' \in [DOMAIN compiledModuleMap' -> Version], MapsFresh',
         ClearedInv', MarkInv'
  PROVE  ServerInv' /\ WorkerInv'
<1>1. WorkerTypes /\ FlushInv /\ BoundInv
  BY DEF WorkerInv
<1>2. /\ at'[f] = s /\ \A e \in Faaslets : e # f => at'[e] = at[e]
      /\ f \in pending /\ FlushInv'
  BY <1>1, FlushGoesFacts
<1>3. UNCHANGED <<unit, got, held, module, pending, goal, floor>> /\ UNCHANGED serverVars
      /\ (at[f] \in FlushStages \/ at[f] = "idle") /\ at' = [at EXCEPT ![f] = s]
  BY DEF FlushGoes
<1>4. ServerInv'
  BY <1>3, ServerFrame
<1>5. WorkerTypes'
  <2>1. at' \in [Faaslets -> Stages]
    BY <1>1, <1>3 DEF WorkerTypes, Stages
  <2> QED
    BY <1>1, <1>3, <2>1 DEF WorkerTypes
<1>6. at[f] \notin LoadStages \cup {"sync", "clone", "cold"} /\ s \notin LoadStages \cup {"sync", "clone", "cold"}
  BY <1>3 DEF FlushStages, LoadStages
<1>7. HandsOf(s, unit[f], got[f], held[f], module[f]) /\ FreshHands(s, unit[f], got[f], held[f], module[f])
  BY <1>6, Hands DEF HandsOf, FreshHands, LoadStages
<1>8. HandsInv'
  <2>1. \A e \in Faaslets : HandsOf(at'[e], unit[e], got[e], held[e], module[e])
    BY <1>2, <1>7, Hands
  <2> QED
    BY <1>3, <2>1 DEF HandsInv, HandsOf
<1>9. HandsFresh'
  <2>1. \A e \in Faaslets : FreshHands(at'[e], unit[e], got[e], held[e], module[e])
    BY <1>2, <1>7, Hands
  <2> QED
    BY <1>3, <2>1 DEF HandsFresh, FreshHands, Fresh
<1>10. FloorInv' /\ ZygoteFresh'
  BY <1>3 DEF serverVars, WorkerInv, FreshInv, FloorInv, ZygoteFresh, Fresh
<1>11. BoundInv'
  <2>1. \A e \in Faaslets : Builds(e)' => Builds(e)
    BY <1>2, <1>3, <1>6 DEF Builds
  <2>2. \A e \in Faaslets : at'[e] = "build" => at[e] = "build"
    BY <1>2, <1>6 DEF LoadStages
  <2>3. \A e, d \in Faaslets : Builds(e)' /\ Builds(d)' => e = d
    BY <1>1, <2>1 DEF BoundInv
  <2>4. \A e \in Faaslets : at'[e] = "build" => held'[e] # Unbound
    BY <1>1, <1>3, <2>2 DEF BoundInv
  <2>5. pending' # {}
    BY <1>2, <1>3
  <2> QED
    BY <2>3, <2>4, <2>5 DEF BoundInv, Builds
<1> QED
  BY <1>2, <1>4, <1>5, <1>8, <1>9, <1>10, <1>11 DEF WorkerInv, FreshInv


LEMMA ClearMapKeeps ==
  ASSUME ServerInv, WorkerInv, NEW f \in Faaslets, ClearSharedFileMap(f)
  PROVE  ServerInv' /\ WorkerInv'
<1>1. CASE WorkerDies
  BY <1>1, WorkerDiesKeeps
<1>2. CASE /\ marks' = None /\ Go(f, "remove")
           /\ UNCHANGED <<style, disk, serverVars, moduleMap, compiledModuleMap, zygote, unit, got, held, module, linked, flushVars>>
  <2>1. at[f] = "idle" /\ f \in pending /\ \A e \in Faaslets : at[e] \notin FlushStages
    BY DEF ClearSharedFileMap, FlushFree, FlushStages
  <2>2. FlushGoes(f, "remove") /\ UNCHANGED <<moduleMap, compiledModuleMap, zygote, disk, floor>>
    BY <1>2, <2>1 DEF FlushGoes, Go, flushVars
  <2>3. WorkerTypes /\ FlushInv /\ "remove" \in FlushStages
    BY DEF WorkerInv, FlushStages
  <2>4. at'[f] = "remove" /\ \A e \in Faaslets : e # f => at'[e] \notin FlushStages
    BY <2>2, <2>3, FlushGoesFacts
  <2>5. ClearedInv'
    BY <1>2, <2>4 DEF ClearedInv, FlushStages
  <2>6. MarkInv'
    BY <1>2 DEF MarkInv, None
  <2>7. MapsFresh' /\ DOMAIN moduleMap' \subseteq Units /\ moduleMap' \in [DOMAIN moduleMap' -> Version]
        /\ DOMAIN compiledModuleMap' \subseteq Units /\ compiledModuleMap' \in [DOMAIN compiledModuleMap' -> Version]
    BY <2>2, <2>3 DEF WorkerInv, WorkerTypes, FreshInv, MapsFresh
  <2> QED
    BY <2>2, <2>3, <2>5, <2>6, <2>7, DiskAsItIs, FlushGoesInv
<1> QED
  BY <1>1, <1>2 DEF ClearSharedFileMap, Cleared

LEMMA WorkerRemoved ==
  ASSUME ServerInv, WorkerInv, NEW dirs, disk' = RemoveAll(dirs), floor' = floor
  PROVE  /\ ServerDisk' = ServerDisk /\ disk' = [h \in {"server", "worker"} |-> disk'[h]]
         /\ WorkerDisk' \in [DOMAIN WorkerDisk' -> Version] /\ DiskFresh'
         /\ DOMAIN WorkerDisk' = {p \in DOMAIN WorkerDisk : p[1] \notin dirs}
<1>1. ServerTypes /\ WorkerTypes
  BY DEF ServerInv, WorkerInv
<1>2. /\ WorkerDisk' = [p \in {p \in DOMAIN WorkerDisk : p[1] \notin dirs} |-> WorkerDisk[p]] /\ ServerDisk' = ServerDisk
      /\ disk' = [h \in {"server", "worker"} |-> disk'[h]]
  BY <1>1 DEF ServerTypes, ServerDisk, WorkerDisk, RemoveAll, Restrict
<1>3. /\ DOMAIN WorkerDisk' = {p \in DOMAIN WorkerDisk : p[1] \notin dirs} /\ DOMAIN WorkerDisk' \subseteq DOMAIN WorkerDisk
      /\ \A p \in DOMAIN WorkerDisk' : WorkerDisk'[p] = WorkerDisk[p]
  BY <1>2
<1>4. \A p \in DOMAIN WorkerDisk' : WorkerDisk'[p] \in Version
  BY <1>1, <1>3 DEF WorkerTypes
<1>5. WorkerDisk' \in [DOMAIN WorkerDisk' -> Version]
  BY <1>2, <1>3, <1>4
<1>6. DiskFresh'
  BY <1>3 DEF WorkerInv, FreshInv, DiskFresh
<1> QED
  BY <1>2, <1>3, <1>5, <1>6

LEMMA RemoveKeeps ==
  ASSUME ServerInv, WorkerInv, NEW f \in Faaslets, ClearSharedFiles(f) \/ FlushFunctionFiles(f)
  PROVE  ServerInv' /\ WorkerInv'
<1>1. WorkerTypes /\ FlushInv
  BY DEF WorkerInv
<1>2. UNCHANGED <<moduleMap, compiledModuleMap, zygote, marks, unit, got, held, module, pending, goal, floor>> /\ UNCHANGED serverVars
  BY DEF ClearSharedFiles, FlushFunctionFiles, Remove, cacheVars, flushVars
<1>3. MapsFresh' /\ DOMAIN moduleMap' \subseteq Units /\ moduleMap' \in [DOMAIN moduleMap' -> Version]
      /\ DOMAIN compiledModuleMap' \subseteq Units /\ compiledModuleMap' \in [DOMAIN compiledModuleMap' -> Version]
  BY <1>1, <1>2 DEF WorkerInv, WorkerTypes, FreshInv, MapsFresh
<1>4. CASE ClearSharedFiles(f)
  <2>1. at[f] = "remove" /\ disk' = RemoveAll({"sharedFilesDir"}) /\ at' = [at EXCEPT ![f] = "files"]
    BY <1>4 DEF ClearSharedFiles, Remove, Go
  <2>2. at[f] \in FlushStages /\ "files" \in FlushStages
    BY <2>1 DEF FlushStages
  <2>3. FlushGoes(f, "files")
    BY <1>2, <2>1, <2>2 DEF FlushGoes
  <2>4. at'[f] = "files" /\ (\A e \in Faaslets : e # f => at'[e] \notin FlushStages) /\ (Later <=> Later')
    BY <1>1, <2>2, <2>3, FlushGoesFacts
  <2>5. ClearedInv'
    BY <2>4 DEF ClearedInv, FlushStages
  <2>6. MarkInv'
    <3>1. Later \/ marks' = None
      BY <1>2, <2>1 DEF WorkerInv, ClearedInv
    <3> QED
      BY <2>4, <3>1 DEF MarkInv, None
  <2> QED
    BY <1>2, <1>3, <2>1, <2>2, <2>3, <2>5, <2>6, WorkerRemoved, FlushGoesInv
<1>5. CASE FlushFunctionFiles(f)
  <2>1. at[f] = "files" /\ disk' = RemoveAll(Flushed) /\ at' = [at EXCEPT ![f] = "ir"]
    BY <1>5 DEF FlushFunctionFiles, Remove, Go, Flushed
  <2>2. at[f] \in FlushStages /\ "ir" \in FlushStages
    BY <2>1 DEF FlushStages
  <2>3. FlushGoes(f, "ir")
    BY <1>2, <2>1, <2>2 DEF FlushGoes
  <2>4. at'[f] = "ir" /\ (\A e \in Faaslets : e # f => at'[e] \notin FlushStages) /\ (Later <=> Later')
    BY <1>1, <2>2, <2>3, FlushGoesFacts
  <2>5. /\ ServerDisk' = ServerDisk /\ disk' = [h \in {"server", "worker"} |-> disk'[h]]
        /\ WorkerDisk' \in [DOMAIN WorkerDisk' -> Version] /\ DiskFresh'
        /\ DOMAIN WorkerDisk' = {p \in DOMAIN WorkerDisk : p[1] \notin Flushed}
    BY <1>2, <2>1, WorkerRemoved
  <2>6. ClearedInv'
    <3>1. \A p \in DOMAIN WorkerDisk' : p[1] \notin Flushed
      BY <2>5
    <3>2. \A e \in Faaslets : at'[e] \notin {"remove", "zygote"}
      BY <2>4 DEF FlushStages
    <3> QED
      BY <3>1, <3>2 DEF ClearedInv
  <2>7. MarkInv'
    <3>1. CASE Later
      BY <2>4, <3>1 DEF MarkInv
    <3>2. CASE ~Later
      <4>1. \A x \in DOMAIN marks' : marks'[x] = "EXISTS" => RealPath(x) \in DOMAIN WorkerDisk
        BY <1>2, <3>2 DEF WorkerInv, MarkInv
      <4>2. \A x : RealPath(x)[1] \notin Flushed
        BY DEF RealPath, PythonRuntimeFunctionFile, PrependSharedRoot, PythonFile, Dir, Flushed
      <4> QED
        BY <2>5, <4>1, <4>2 DEF MarkInv
    <3> QED
      BY <3>1, <3>2
  <2> QED
    BY <1>2, <1>3, <2>2, <2>3, <2>5, <2>6, <2>7, FlushGoesInv
<1> QED
  BY <1>4, <1>5

LEMMA ClearIRKeeps ==
  ASSUME ServerInv, WorkerInv, NEW f \in Faaslets, ClearIRModuleCache(f)
  PROVE  ServerInv' /\ WorkerInv'
<1>1. CASE WorkerDies
  BY <1>1, WorkerDiesKeeps
<1>2. CASE /\ moduleMap' = None /\ compiledModuleMap' = None /\ Go(f, "zygote")
           /\ UNCHANGED <<style, disk, serverVars, zygote, marks, unit, got, held, module, linked, flushVars>>
  <2>1. at[f] = "ir" /\ at[f] \in FlushStages /\ "zygote" \in FlushStages
    BY DEF ClearIRModuleCache, FlushStages
  <2>2. FlushGoes(f, "zygote") /\ UNCHANGED <<zygote, disk, marks, floor>>
    BY <1>2, <2>1 DEF FlushGoes, Go, flushVars
  <2>3. WorkerTypes /\ FlushInv
    BY DEF WorkerInv
  <2>4. at'[f] = "zygote" /\ (\A e \in Faaslets : e # f => at'[e] \notin FlushStages) /\ (Later <=> Later')
    BY <2>1, <2>2, <2>3, FlushGoesFacts
  <2>5. /\ ServerDisk' = ServerDisk /\ WorkerDisk' = WorkerDisk /\ disk' = [h \in {"server", "worker"} |-> disk'[h]]
        /\ WorkerDisk' \in [DOMAIN WorkerDisk' -> Version] /\ DiskFresh'
    BY <2>2, DiskAsItIs
  <2>6. ClearedInv'
    <3>1. Later \/ \A p \in DOMAIN WorkerDisk : p[1] \notin Flushed
      BY <2>1 DEF WorkerInv, ClearedInv
    <3>2. Later' \/ \A p \in DOMAIN WorkerDisk' : p[1] \notin Flushed
      BY <2>4, <2>5, <3>1
    <3>3. \A e \in Faaslets : at'[e] # "remove"
      BY <2>4 DEF FlushStages
    <3> QED
      BY <1>2, <3>2, <3>3 DEF ClearedInv
  <2>7. MarkInv'
    BY <2>2, <2>4, <2>5 DEF WorkerInv, MarkInv
  <2>8. MapsFresh' /\ DOMAIN moduleMap' \subseteq Units /\ moduleMap' \in [DOMAIN moduleMap' -> Version]
        /\ DOMAIN compiledModuleMap' \subseteq Units /\ compiledModuleMap' \in [DOMAIN compiledModuleMap' -> Version]
    BY <1>2 DEF MapsFresh, None
  <2> QED
    BY <2>1, <2>2, <2>5, <2>6, <2>7, <2>8, FlushGoesInv
<1> QED
  BY <1>1, <1>2 DEF ClearIRModuleCache


LEMMA ClearWasmKeeps ==
  ASSUME ServerInv, WorkerInv, NEW f \in Faaslets, ClearWasmModuleCache(f)
  PROVE  ServerInv' /\ WorkerInv'
<1>1. CASE WorkerDies
  BY <1>1, WorkerDiesKeeps
<1>2. CASE /\ zygote' = Nothing /\ Go(f, "cold") /\ module' = [module EXCEPT ![f] = Unbound]
           /\ pending' = pending \ {f}
           /\ floor' = (IF pending' = {} THEN goal ELSE floor)
           /\ goal' = (IF pending' = {} THEN [u \in Units |-> Failed] ELSE goal)
           /\ UNCHANGED <<style, disk, serverVars, moduleMap, compiledModuleMap, marks, unit, got, held, linked>>
  <2>1. WorkerTypes /\ FlushInv /\ BoundInv /\ at[f] = "zygote" /\ at[f] \in FlushStages
    BY DEF ClearWasmModuleCache, WorkerInv, FlushStages
  <2>2. f \in pending /\ pending # {} /\ \A e \in Faaslets : e # f => at[e] \notin FlushStages
    BY <2>1 DEF FlushInv
  <2>3. /\ at'[f] = "cold" /\ module'[f] = Unbound
        /\ \A e \in Faaslets : e # f => at'[e] = at[e] /\ module'[e] = module[e]
        /\ at' \in [Faaslets -> Stages] /\ module' \in [Faaslets -> Modules]
    BY <1>2, <2>1, AsItIs DEF Go, WorkerTypes, Stages
  <2>4. /\ ServerDisk' = ServerDisk /\ WorkerDisk' = WorkerDisk /\ disk' = [h \in {"server", "worker"} |-> disk'[h]]
        /\ UNCHANGED serverVars
    BY <1>2 DEF ServerDisk, WorkerDisk, ServerInv, ServerTypes
  <2>5. ServerInv'
    BY <2>4, ServerFrame
  <2>6. /\ \A u \in Units : floor'[u] = goal[u] \/ floor'[u] = floor[u]
        /\ \A u \in Units : goal'[u] = goal[u] \/ goal'[u] = 0
        /\ floor' \in [Units -> Nat] /\ goal' \in [Units -> Nat]
    BY <1>2, <2>1 DEF WorkerTypes, Failed
  <2>7. WorkerTypes'
    BY <1>2, <2>1, <2>3, <2>4, <2>6 DEF WorkerTypes
  <2>8. HandsInv'
    <3>1. \A e \in Faaslets : HandsOf(at'[e], unit[e], got[e], held[e], module'[e])
      BY <2>1, <2>3, Hands DEF HandsOf, LoadStages
    <3> QED
      BY <1>2, <3>1 DEF HandsInv, HandsOf
  <2>9. \A e \in Faaslets : at'[e] \notin FlushStages
    BY <2>2, <2>3 DEF FlushStages
  <2>10. \A e \in Faaslets : e \in pending' <=> at'[e] # "cold"
    BY <1>2, <2>1, <2>2, <2>3 DEF FlushInv
  <2>11. FlushInv' /\ ClearedInv'
    BY <2>9, <2>10 DEF FlushInv, ClearedInv, FlushStages
  <2>12. pending' \subseteq Faaslets /\ (pending' # {} => Later')
    BY <1>2, <2>1, <2>9 DEF WorkerTypes, Later
  <2>13. pending' = {} => ~Later
    BY <1>2, <2>1 DEF Later
  <2>14. MarkInv'
    BY <1>2, <2>4, <2>12, <2>13 DEF WorkerInv, MarkInv
  <2>15. pending' = {} => (\A p \in DOMAIN WorkerDisk : p[1] \notin Flushed) /\ moduleMap = None /\ compiledModuleMap = None
    BY <2>1, <2>13 DEF WorkerInv, ClearedInv
  <2>16. FloorInv'
    <3>1. \A u \in Units : floor[u] <= acked[u] /\ goal[u] <= acked[u] /\ acked'[u] = acked[u] /\ acked[u] \in Nat
      BY <2>4 DEF serverVars, WorkerInv, FreshInv, FloorInv, ServerInv, ServerTypes
    <3> QED
      BY <2>6, <3>1 DEF FloorInv
  <2>17. DiskFresh' /\ MapsFresh' /\ HandsFresh'
    <3>1. CASE pending' = {}
      <4>1. \A u \in FunctionNames : Wasm(u) \notin DOMAIN WorkerDisk'
        BY <2>4, <2>15, <3>1, SharedPaths
      <4>2. \A u \in Units : ObjectFile(u) \notin DOMAIN WorkerDisk'
        BY <2>4, <2>15, <3>1, SharedPaths
      <4>3. DiskFresh'
        BY <4>1, <4>2 DEF DiskFresh
      <4>4. MapsFresh'
        BY <1>2, <2>15, <3>1 DEF MapsFresh, None
      <4>5. \A e \in Faaslets : at'[e] = "cold" /\ module'[e] = Unbound
        BY <2>8, <2>10, <3>1 DEF HandsInv, HandsOf
      <4>6. HandsFresh'
        BY <4>5 DEF HandsFresh, FreshHands, Fresh
      <4> QED
        BY <4>3, <4>4, <4>6
    <3>2. CASE pending' # {}
      <4>1. floor' = floor
        BY <1>2, <3>2
      <4>2. DiskFresh' /\ MapsFresh'
        BY <1>2, <2>4, <4>1 DEF WorkerInv, FreshInv, DiskFresh, MapsFresh
      <4>3. \A e \in Faaslets : FreshHands(at'[e], unit[e], got[e], held[e], module'[e])
        BY <2>3, Hands DEF FreshHands, Fresh
      <4>4. HandsFresh'
        BY <1>2, <4>1, <4>3 DEF HandsFresh, FreshHands, Fresh
      <4> QED
        BY <4>2, <4>4
    <3> QED
      BY <3>1, <3>2
  <2>18. ZygoteFresh'
    BY <1>2 DEF ZygoteFresh
  <2>19. BoundInv'
    <3>1. \A e \in Faaslets : Builds(e)' => Builds(e)
      BY <1>2, <2>3 DEF Builds, LoadStages
    <3>2. \A e, d \in Faaslets : Builds(e)' /\ Builds(d)' => e = d
      BY <2>1, <3>1 DEF BoundInv
    <3>3. \A e \in Faaslets : at'[e] = "build" => held'[e] # Unbound
      BY <1>2, <2>1, <2>3 DEF BoundInv
    <3>4. pending' = {} => \A e \in Faaslets : at'[e] = "cold" /\ ~Builds(e)'
      BY <2>10 DEF Builds, LoadStages
    <3>5. zygote' # <<Unbound>>
      BY <1>2 DEF Nothing
    <3> QED
      BY <3>2, <3>3, <3>4, <3>5 DEF BoundInv, LoadStages, Builds
  <2> QED
    BY <2>5, <2>7, <2>8, <2>11, <2>14, <2>16, <2>17, <2>18, <2>19 DEF WorkerInv, FreshInv
<1> QED
  BY <1>1, <1>2 DEF ClearWasmModuleCache

-----------------------------------------------------------------------------
LEMMA WorkerInit == Init => WorkerInv
<1> SUFFICES ASSUME Init PROVE WorkerInv
  OBVIOUS
<1>1. /\ moduleMap = None /\ compiledModuleMap = None /\ zygote = Nothing /\ marks = None /\ pending = {}
      /\ at = [f \in Faaslets |-> "cold"] /\ unit = [f \in Faaslets |-> Main]
      /\ got = [f \in Faaslets |-> Failed] /\ held = [f \in Faaslets |-> Unbound] /\ module = [f \in Faaslets |-> Unbound]
      /\ goal = [u \in Units |-> 0] /\ floor = [u \in Units |-> 0] /\ WorkerDisk \in {None, OnTheWorker}
  BY DEF Init, WorkerDisk, Failed
<1>2. Main \in Units /\ Unbound \in Modules /\ Failed \in Nat /\ "cold" \in Stages
  BY LoadingAssumption DEF Units, Unbound, Modules, Failed, Stages
<1>3. WorkerDisk \in [DOMAIN WorkerDisk -> Version] /\ \A p \in DOMAIN WorkerDisk : WorkerDisk[p] >= 0
  <2>1. CASE WorkerDisk = None
    BY <2>1 DEF None
  <2>2. CASE WorkerDisk = OnTheWorker
    <3>1. \A p \in DOMAIN WorkerDisk : WorkerDisk[p] = 1
      BY <2>2 DEF OnTheWorker
    <3>2. WorkerDisk = [p \in DOMAIN WorkerDisk |-> WorkerDisk[p]]
      BY <2>2 DEF OnTheWorker
    <3>3. \A p \in DOMAIN WorkerDisk : WorkerDisk[p] \in Version
      BY <3>1 DEF Version, Failed
    <3> QED
      BY <3>1, <3>2, <3>3
  <2> QED
    BY <1>1, <2>1, <2>2
<1>4. WorkerTypes
  BY <1>1, <1>2, <1>3 DEF WorkerTypes, None
<1>5. HandsInv /\ FlushInv /\ ClearedInv /\ MarkInv
  BY <1>1 DEF HandsInv, HandsOf, FlushInv, ClearedInv, MarkInv, FlushStages, LoadStages, None
<1>6. FloorInv
  BY <1>1, ServerInit DEF ServerInv, ServerTypes, FloorInv
<1>7. DiskFresh
  <2>1. FunctionNames \subseteq Units
    BY DEF Units
  <2> QED
    BY <1>1, <1>3, <2>1 DEF DiskFresh
<1>8. MapsFresh /\ ZygoteFresh /\ HandsFresh
  BY <1>1 DEF MapsFresh, ZygoteFresh, HandsFresh, FreshHands, Fresh, None
<1>9. BoundInv
  BY <1>1 DEF BoundInv, Builds, LoadStages, Nothing
<1> QED
  BY <1>4, <1>5, <1>6, <1>7, <1>8, <1>9 DEF WorkerInv, FreshInv

LEMMA InvStutters == IInv /\ UNCHANGED vars => IInv'
<1> SUFFICES ASSUME ServerInv, WorkerInv, UNCHANGED vars PROVE ServerInv' /\ WorkerInv'
  BY DEF IInv
<1>1. UNCHANGED <<disk, moduleMap, compiledModuleMap, zygote, marks, at, unit, got, held, module, pending, goal, floor>>
      /\ UNCHANGED serverVars
  BY DEF vars, cacheVars, faasletVars, flushVars
<1>2. UNCHANGED <<ServerDisk, WorkerDisk>> /\ disk' = [h \in {"server", "worker"} |-> disk'[h]]
  BY <1>1 DEF ServerDisk, WorkerDisk, ServerInv, ServerTypes
<1>3. ServerInv'
  BY <1>1, <1>2, ServerFrame
<1>4. WorkerTypes' /\ HandsInv' /\ FlushInv' /\ ClearedInv' /\ MarkInv'
  BY <1>1, <1>2 DEF WorkerInv, WorkerTypes, HandsInv, FlushInv, ClearedInv, MarkInv, Later
<1>5. FloorInv' /\ DiskFresh' /\ MapsFresh' /\ ZygoteFresh' /\ HandsFresh'
  BY <1>1, <1>2 DEF WorkerInv, FreshInv, FloorInv, DiskFresh, MapsFresh, ZygoteFresh, HandsFresh, FreshHands, Fresh, serverVars
<1>6. BoundInv'
  BY <1>1 DEF WorkerInv, BoundInv, Builds
<1> QED
  BY <1>3, <1>4, <1>5, <1>6 DEF WorkerInv, FreshInv


LEMMA InvHolds == Init => IInv
BY ServerInit, WorkerInit DEF IInv

LEMMA InvNext == IInv /\ [Next]_vars => IInv'
<1> SUFFICES ASSUME ServerInv, WorkerInv, [Next]_vars PROVE IInv'
  BY DEF IInv
<1>1. CASE Serves
  BY <1>1, ServesInv, WorkerUndisturbed DEF IInv
<1>2. CASE FlushLocally
  BY <1>2, FlushLocallyKeeps DEF IInv
<1>3. ASSUME NEW f \in Faaslets, Bind(f) \/ ExecuteCall(f) \/ BoundTimeout(f) PROVE IInv'
  BY <1>3, BindKeeps, ExecuteKeeps, TimeoutKeeps DEF IInv
<1>4. ASSUME NEW f \in Faaslets, Loads(f) PROVE IInv'
  BY <1>4, GetCachedKeeps, GetModuleKeeps, GotModuleKeeps, GetCompiledKeeps, GotCompiledKeeps, InstantiateKeeps,
     ReadCachedKeeps, CloneKeeps DEF Loads, IInv
<1>5. ASSUME NEW f \in Faaslets, Executes(f) PROVE IInv'
  BY <1>5, SyncKeeps, GotSharedKeeps, DlopenKeeps, FinishKeeps DEF Executes, IInv
<1>6. ASSUME NEW f \in Faaslets, Flushes(f) PROVE IInv'
  BY <1>6, ClearMapKeeps, RemoveKeeps, ClearIRKeeps, ClearWasmKeeps DEF Flushes, IInv
<1>7. ASSUME NEW f \in Faaslets, GetFails(f) PROVE IInv'
  BY <1>7, GetFailsKeeps DEF IInv
<1>8. CASE UNCHANGED vars
  BY <1>8, InvStutters DEF IInv
<1>9. ASSUME Next PROVE IInv'
  BY <1>1, <1>2, <1>3, <1>4, <1>5, <1>6, <1>7, <1>9 DEF Next, Serves
<1> QED
  BY <1>8, <1>9

(* What files, caches and Faaslets have to do with one another, in every   *)
(* reachable state: the server's files, acknowledgements and jobs          *)
(* (UploadServer, MachineCodeGenerator), the worker's disk, maps, zygote   *)
(* and marks (IRModuleCache, WasmModuleCache, SharedFiles), and how far a  *)
(* flush is.                                                               *)
THEOREM LoadingInvariant == Spec => []IInv
<1>1. Init => IInv
  BY InvHolds
<1>2. IInv /\ [Next]_vars => IInv'
  BY InvNext
<1> QED
  BY <1>1, <1>2, PTL DEF Spec

(* When the last version of a unit a client sent is acknowledged, the Wasm *)
(* and the machine code on the server are of that version: a handler that  *)
(* finds the hash of it finds its machine code with it, whatever uploads,  *)
(* crashes and runs of the codegen tools came before.                      *)
THEOREM FilesBuilt == Spec => []AckedBuilt
<1>1. IInv => AckedBuilt
  <2> SUFFICES ASSUME ServerInv, NEW u \in Units, acked[u] = tried[u], acked[u] # Failed
               PROVE  /\ disk["server"][Wasm(u)] = acked[u]
                      /\ Exists("server", ObjectFile(u)) /\ disk["server"][ObjectFile(u)] = acked[u]
    BY DEF IInv, AckedBuilt
  <2>1. ServerDisk[Wasm(u)] = acked[u]
    BY DEF ServerInv, FilesInv
  <2>2. ObjectFile(u) \in DOMAIN ServerDisk /\ acked[u] <= ServerDisk[ObjectFile(u)] /\ ServerDisk[ObjectFile(u)] <= tried[u]
    BY DEF ServerInv, FilesInv, AckedInv
  <2>3. acked[u] \in Nat /\ ServerDisk[ObjectFile(u)] \in Nat
    BY <2>2 DEF ServerInv, ServerTypes, Version
  <2> QED
    BY <2>1, <2>2, <2>3 DEF Exists, ServerDisk
<1> QED
  BY <1>1, LoadingInvariant, PTL

(* Outside of a flush every bound Faaslet has a whole module, and no       *)
(* Faaslet runs and no cache holds anything older than what was            *)
(* acknowledged when the last complete flush began (Faaslet::flush and the *)
(* four places it clears), whichever Faaslets loaded while it went on.     *)
THEOREM FlushLeavesNothing == Spec => []FlushedIsGone
<1>1. IInv => FlushedIsGone
  <2> SUFFICES ASSUME WorkerInv, pending = {}
               PROVE  /\ ModulesBound
                      /\ \A f \in Faaslets : module[f] # Unbound => module[f].wasm >= floor[Main] /\ module[f].object >= floor[Main]
                      /\ \A u \in DOMAIN compiledModuleMap : compiledModuleMap[u] >= floor[u]
    BY DEF IInv, FlushedIsGone
  <2>1. ModulesBound
    BY DEF ModulesBound, WorkerInv, BoundInv
  <2>2. \A f \in Faaslets : Fresh(module[f])
    BY DEF WorkerInv, FreshInv, HandsFresh, FreshHands
  <2>3. \A u \in DOMAIN compiledModuleMap : compiledModuleMap[u] >= floor[u]
    BY DEF WorkerInv, FreshInv, MapsFresh
  <2> QED
    BY <2>1, <2>2, <2>3 DEF Fresh
<1> QED
  BY <1>1, LoadingInvariant, PTL

(* Outside of a flush, a shared file that SharedFiles has marked EXISTS is *)
(* on the worker's disk: a Faaslet may mark one between the moments        *)
(* another clears the map and the files, but the last to flush clears the  *)
(* map again when nobody runs.                                             *)
THEOREM MarksTrue == Spec => []MarkedIsThere
<1>1. IInv => MarkedIsThere
  BY DEF IInv, WorkerInv, MarkInv, Later, MarkedIsThere, Exists, WorkerDisk
<1> QED
  BY <1>1, LoadingInvariant, PTL
=============================================================================
