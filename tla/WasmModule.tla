----------------------------- MODULE WasmModule -----------------------------
(***************************************************************************)
(* The Wasm module of a Faaslet: its linear memory (break, provisioned     *)
(* pages, guard regions, thread stacks, mapped files and state), its       *)
(* function table and dynamically loaded modules, the zygote it is cloned  *)
(* from, and the snapshots that memory is restored from (WasmModule,       *)
(* WAVMWasmModule, LoadedDynamicModule, IRModuleCache, WasmModuleCache,    *)
(* Faaslet, SnapshotRegistry).                                             *)
(*                                                                         *)
(* One function.  The Faaslet of Origin runs ordinary calls, and may chain *)
(* threads to the Faaslets of the other hosts, which start them from a     *)
(* snapshot of the memory of Origin.                                       *)
(*                                                                         *)
(* Sizes and addresses count half pages, so that a length may be one that  *)
(* the code has to round up.  What a page holds is the number of the call  *)
(* that stored to it last, or who prepared it.                             *)
(***************************************************************************)
EXTENDS Integers, SequencesExt, Functions, FiniteSets

CONSTANTS
  Host, Origin,
  InitPages, MaxPages,          \* pages of the main module, and the limit of a memory
  StackSize, GuardSize,         \* of the stack of a thread and of a guard region
  ThreadPoolSize,
  DynMemorySize, DynStackSize,  \* of the area of a dynamic module and of its stack
  MainTable, MainExports,       \* functions of the main module: in its table, exported
  MainGlobals,                  \* data the main module exports: name, address
  Libs,                         \* what dlopen finds: path, data, elems, exports, globals, imports
  Segments,                     \* ranges of state values: key, rem, len
  ZygoteFunctions,              \* what the zygote function may do
  Programs,                     \* sets of host functions that a function uses
  MaxCalls, MaxOps              \* bounds: calls, and host functions called by all of them

PageSize == 2
FirstHandle == 2
Paths == {l.path : l \in Libs}
LibAt(path) == CHOOSE l \in Libs : l.path = path

ASSUME ModuleAssumption ==
  /\ Origin \in Host
  /\ {InitPages, MaxPages, ThreadPoolSize, MaxCalls, MaxOps} \subseteq Nat
  /\ \A n \in {StackSize, GuardSize, DynMemorySize} : n \in Nat /\ n % PageSize = 0
  /\ StackSize > 0 /\ DynStackSize \in Nat \ {0}
  /\ MainTable \in Seq(Range(MainTable)) /\ MainGlobals \in [DOMAIN MainGlobals -> Nat]
  /\ \A s \in Segments : s.rem \in 0..(PageSize - 1) /\ s.len \in Nat \ {0}

(* A library has a path of its own, room for its data, and data that no    *)
(* other module exports: the first address of a name is the one kept.      *)
ASSUME LibAssumption ==
  \A l \in Libs :
    /\ l.path \notin {"", "main"}
    /\ l.data \in Nat /\ DynStackSize + l.data < DynMemorySize
    /\ l.elems \in Seq(Range(l.elems)) /\ l.gotFuncs \in Seq(Range(l.gotFuncs))
    /\ l.globals \in [DOMAIN l.globals -> 0..(l.data - 1)]
    /\ DOMAIN l.globals \cap DOMAIN MainGlobals = {}
    /\ \A m \in Libs : l = m \/ (l.path # m.path /\ DOMAIN l.globals \cap DOMAIN m.globals = {})

(* A function that can be bound: its stacks and what its zygote function   *)
(* asks for fit into the limit, and the library that one loads links.      *)
ASSUME ZygoteAssumption ==
  /\ ZygoteFunctions \subseteq {"none", "grow", "trim"} \cup Paths
  /\ \A n \in {PageSize, DynMemorySize + 2 * GuardSize} :
       InitPages * PageSize + ThreadPoolSize * (StackSize + 2 * GuardSize) + n <= MaxPages * PageSize
  /\ \A l \in Libs : l.path \in ZygoteFunctions =>
       /\ l.gotMem \subseteq DOMAIN MainGlobals \cup DOMAIN l.globals
       /\ Range(l.gotFuncs) \subseteq MainExports \cup l.exports

VARIABLES
  cache,      \* per host: the zygote in the cache of modules, or NoModule
  faaslet,    \* per host: the module of its Faaslet, or NoModule
  call,       \* per host: the number of the call that runs, 0 for none
  snapshots,  \* per host: the registry of snapshots, by key
  ir,         \* per host: the cache of parsed modules, with the sizes of their tables
  chained,    \* threads sent to another host and not started there
  zygoteFn,   \* what the zygote function of the function does
  program,    \* the host functions the function uses
  calls, ops  \* calls so far, host functions called so far

vars == <<cache, faaslet, call, snapshots, ir, chained, zygoteFn, program, calls, ops>>
static == <<zygoteFn, program>>

(* What a page holds, when it is not the number of a call. *)
ZeroC == 0
DataC == -1
ZygoteC == -2
MappedC == -3

NoModule == [bound |-> FALSE]
NoFunction == <<"none", "none">>
EmptyMap == [x \in {} |-> 0]
Entry(k, v) == [x \in {k} |-> v]

(* What is in a map already is kept. *)
Insert(map, new) ==
  [x \in DOMAIN map \cup DOMAIN new |-> IF x \in DOMAIN map THEN map[x] ELSE new[x]]

ZeroPage == [c |-> ZeroC, by |-> "anonymous", guard |-> FALSE]
Pages(n, c) == [i \in 1..n |-> [ZeroPage EXCEPT !.c = c]]
Bytes(md) == PageSize * Len(md.mem)
PagesIn(base, len) == (base \div PageSize + 1)..((base + len - 1) \div PageSize + 1)
RoundUp(n) == ((n + PageSize - 1) \div PageSize) * PageSize

Done(md, ptr) == [ok |-> TRUE, md |-> md, ptr |-> ptr]
Thrown(md) == [ok |-> FALSE, md |-> md, ptr |-> 0]
Then(r, Go(_)) == IF r.ok THEN Go(r) ELSE r

-----------------------------------------------------------------------------

(* Memory.  An operator returns the module and a pointer, or an exception. *)
(* Mutant: only the break is moved. *)
GrowBrkOnly(md, n) ==
  IF n = 0 THEN Done(md, md.brk)
  ELSE IF (md.brk + n) % PageSize # 0 THEN Thrown(md)
  ELSE IF md.brk + n <= Bytes(md) THEN Done([md EXCEPT !.brk = @ + n], md.brk)
  ELSE IF (Bytes(md) + n) \div PageSize > MaxPages THEN Thrown(md)
  ELSE Done([md EXCEPT !.mem = @ \o Pages(n \div PageSize, ZeroC), !.brk = @ + n], Bytes(md))

(* New memory starts at the end of what is provisioned, not at the break. *)
GrowMemory(md, n) ==
  LET all == Bytes(md) + n IN
  IF n = 0 THEN Done(md, md.brk)
  ELSE IF (md.brk + n) % PageSize # 0 THEN Thrown(md)
  ELSE IF md.brk + n <= Bytes(md) THEN Done([md EXCEPT !.brk = @ + n], md.brk)
  ELSE IF all \div PageSize > MaxPages THEN Thrown(md)
  ELSE Done([md EXCEPT !.mem = @ \o Pages(n \div PageSize, ZeroC), !.brk = all], Bytes(md))

ShrinkMemory(md, n) ==
  IF n % PageSize # 0 \/ n > md.brk THEN Thrown(md)
  ELSE Done([md EXCEPT !.brk = @ - n], md.brk)

UnmapMemory(md, offset, n) ==
  LET top == offset + RoundUp(n) IN
  IF n = 0 THEN Done(md, 0)
  ELSE IF offset % PageSize # 0 \/ top > MaxPages * PageSize THEN Thrown(md)
  ELSE IF top = md.brk THEN ShrinkMemory(md, RoundUp(n))
  ELSE Done(md, 0)

MmapMemory(md, n) == GrowMemory(md, RoundUp(n))

Remap(md, base, len, by) ==
  [md EXCEPT !.mem = [i \in DOMAIN @ |->
      IF i \in PagesIn(base, len) THEN [@[i] EXCEPT !.by = by, !.c = MappedC] ELSE @[i]]]

MmapFile(md, n) == Then(MmapMemory(md, n), LAMBDA r : Done(Remap(r.md, r.ptr, n, "file"), r.ptr))

CreateMemoryGuardRegion(md, offset) ==
  [md EXCEPT !.mem = [i \in DOMAIN @ |->
      IF i \in PagesIn(offset, GuardSize) THEN [@[i] EXCEPT !.guard = TRUE] ELSE @[i]]]

(* A stack grows down from one below the guard region above it. *)
PlaceStack(md, base, top) ==
  CreateMemoryGuardRegion(CreateMemoryGuardRegion([md EXCEPT !.stacks = Append(@, top)], base), top + 1)
StackIn(r) == PlaceStack(r.md, r.ptr, r.ptr + GuardSize + StackSize - 1)
AddStack(md) == StackIn(GrowMemory(md, StackSize + 2 * GuardSize))

CreateThreadStacks(md) ==
  LET f[i \in 0..ThreadPoolSize] == IF i = 0 THEN md ELSE AddStack(f[i - 1])
  IN  f[ThreadPoolSize]

(* A segment is mapped once, from the page its first byte is in. *)
MapSegment(md, seg, len) ==
  IF seg \in DOMAIN md.shared THEN Done(md, md.shared[seg])
  ELSE Then(GrowMemory(md, RoundUp(seg.rem + seg.len)),
            LAMBDA r : Done([Remap(r.md, r.ptr, len, seg.key) EXCEPT !.shared = Insert(@, Entry(seg, r.ptr + seg.rem))],
                            r.ptr + seg.rem))
MapLengthOnly(md, seg) == MapSegment(md, seg, seg.len)
MapSharedStateMemory(md, seg) == MapSegment(md, seg, seg.rem + seg.len)

-----------------------------------------------------------------------------
(* Snapshots: a registry maps a key to what is kept.  Only one written to  *)
(* a file descriptor can be mapped.                                        *)
Image(md) == [size |-> md.brk, pages |-> [i \in 1..(md.brk \div PageSize) |-> md.mem[i].c],
              own |-> md.own, pointers |-> md.pointers]

TakeSnapshot(reg, key, image, locallyRestorable) ==
  Insert(Entry(key, [image |-> image, fd |-> locallyRestorable]), reg)

(* The server of the other host keeps what it is sent in a file. *)
PushUnmappable(reg, key, image) == TakeSnapshot(reg, key, image, FALSE)
PushSnapshot(reg, key, image) == TakeSnapshot(reg, key, image, TRUE)

(* mmap over the memory from its start: private, writable, of the file. *)
MapSnapshot(md, image) ==
  [md EXCEPT !.own = image.own, !.pointers = image.pointers,
             !.mem = [i \in DOMAIN @ |-> IF i \in DOMAIN image.pages
                                         THEN [ZeroPage EXCEPT !.c = image.pages[i]] ELSE @[i]]]

Resize(md, size) ==
  IF size > md.brk THEN GrowMemory(md, size - md.brk) ELSE ShrinkMemory(md, md.brk - size)
Restore(md, reg, key) ==
  IF key \notin DOMAIN reg THEN Thrown(md)
  ELSE Then(Resize(md, reg[key].image.size),
            LAMBDA r : IF reg[key].fd THEN Done(MapSnapshot(r.md, reg[key].image), 0) ELSE Thrown(r.md))

BaseKey(h) == <<"base", h>>

-----------------------------------------------------------------------------
(* Dynamic linking.  The global offset table maps a function to its place  *)
(* in the table of functions, and a datum to its address.                  *)
ExportsOf(provider) == IF provider = "main" THEN MainExports ELSE LibAt(provider).exports

AddModuleToGOT(md, elems, exports, tableBase, globals, dataBase) ==
  LET exported == {i \in DOMAIN elems : elems[i] \in exports} IN
  [md EXCEPT
     !.got = Insert(@, [f \in {elems[i] : i \in exported} |->
                          tableBase + (CHOOSE i \in exported : elems[i] = f) - 1]),
     !.gotMem = Insert(@, [g \in DOMAIN globals |-> dataBase + globals[g]])]

AddFunctionToTable(md, fn) == [md EXCEPT !.table = Append(@, fn)]

(* A function comes from the table of offsets, else from a module that is  *)
(* loaded, else gets a place that is filled once the module is there.      *)
ResolveFunc(md, name) ==
  LET loaded == <<"main">> \o [i \in DOMAIN md.dyn |-> md.dyn[i].path]
      found == {i \in DOMAIN loaded : name \in ExportsOf(loaded[i]) /\ loaded[i] # md.loading}
      place == Entry(name, Len(md.table))
  IN  IF name \in DOMAIN md.got THEN md
      ELSE IF found # {}
           THEN [AddFunctionToTable(md, <<loaded[Min(found)], name>>) EXCEPT !.got = Insert(@, place)]
           ELSE [AddFunctionToTable(md, NoFunction) EXCEPT !.missing = Insert(@, place)]

ResolveFuncs(md, names) ==
  LET f[i \in 0..Len(names)] == IF i = 0 THEN md ELSE ResolveFunc(f[i - 1], names[i])
  IN  f[Len(names)]

ResolveMem(md, name) == name \in DOMAIN md.gotMem

LinkModule(md, lib) ==
  IF \A g \in lib.gotMem : ResolveMem(md, g)
  THEN Done(ResolveFuncs(md, lib.gotFuncs), 0)
  ELSE Thrown(md)

LeaveMissing(md, lib) == Done([md EXCEPT !.missing = EmptyMap], 0)

FillMissing(md, lib) ==
  IF \E f \in DOMAIN md.missing : f \notin lib.exports THEN Thrown(md)
  ELSE Done([md EXCEPT
               !.table = [i \in DOMAIN @ |->
                  LET F == {f \in DOMAIN md.missing : md.missing[f] = i - 1}
                  IN  IF F = {} THEN @[i] ELSE <<lib.path, CHOOSE f \in F : TRUE>>],
               !.got = Insert(@, md.missing), !.missing = EmptyMap], 0)

(* The cache of parsed modules keeps the size of the table that a library  *)
(* declares, because it makes the import match the table of the main one.  *)
CachedModule(irh, lib) ==
  Insert(irh, Entry(lib.path, [min |-> Len(MainTable), original |-> Len(lib.elems)]))
GetSharedModuleTableSize(irh, lib) == irh[lib.path].original

DynamicRecord(lib, memStart, table, tableSize) ==
  LET stackTop == memStart + DynStackSize IN
  [path |-> lib.path, bottom |-> memStart, top |-> memStart + DynMemorySize,
   stackTop |-> stackTop, stackPointer |-> stackTop - 1,
   dataBottom |-> stackTop, dataTop |-> stackTop + lib.data,
   tableBottom |-> table, tableTop |-> table + tableSize]

Validate(d) ==
  /\ d.bottom < d.top /\ d.stackTop > d.bottom /\ d.stackPointer = d.stackTop - 1
  /\ d.dataTop > d.bottom /\ d.tableTop >= d.tableBottom

Instantiate(md, lib, d) ==
  [md EXCEPT
     !.table = [i \in DOMAIN @ |-> LET e == i - d.tableBottom IN
                  IF e \in DOMAIN lib.elems THEN <<lib.path, lib.elems[e]>> ELSE @[i]],
     !.mem = [i \in DOMAIN @ |-> IF lib.data > 0 /\ i \in PagesIn(d.dataBottom, lib.data)
                                  THEN [@[i] EXCEPT !.c = DataC] ELSE @[i]]]

(* The area of the module between its guard regions, its range of the      *)
(* table and its record; then its exports, its imports, itself, and what   *)
(* was missing.                                                            *)
Recorded(md, base, d, lib) ==
  LET guarded == CreateMemoryGuardRegion(CreateMemoryGuardRegion(md, base), d.top) IN
  AddModuleToGOT([guarded EXCEPT !.table = @ \o [i \in 1..(d.tableTop - d.tableBottom) |-> NoFunction],
                                 !.dyn = Append(@, d)],
                 lib.elems, lib.exports, d.tableBottom, lib.globals, d.dataBottom)
Linked(md, base, d, lib) ==
  Then(Then(LinkModule(Recorded(md, base, d, lib), lib), LAMBDA r : FillMissing(Instantiate(r.md, lib, d), lib)),
       LAMBDA r : IF Validate(d) THEN r ELSE Thrown(r.md))
CreateModuleInstance(md, irh, lib) ==
  Then(GrowMemory(md, DynMemorySize + 2 * GuardSize),
       LAMBDA r : Linked(r.md, r.ptr,
                         DynamicRecord(lib, r.ptr + GuardSize, Len(md.table), GetSharedModuleTableSize(irh, lib)), lib))

DynamicLoadModule(md, irh, path) ==
  LET handle == FirstHandle + Len(md.dyn) IN
  IF path \in DOMAIN md.paths THEN Done(md, md.paths[path])
  ELSE Then(CreateModuleInstance([md EXCEPT !.paths = Insert(@, Entry(path, handle)), !.loading = path], irh, LibAt(path)),
            LAMBDA r : Done([r.md EXCEPT !.loading = ""], handle))

GetDynamicModuleFunction(md, handle, name) ==
  LET provider == IF handle = 1 THEN "main" ELSE md.dyn[handle - FirstHandle + 1].path
      ptr == Len(md.table)
  IN  IF handle > 1 /\ handle - FirstHandle + 1 \notin DOMAIN md.dyn THEN Thrown(md)
      ELSE IF name \notin ExportsOf(provider) THEN Thrown(md)
      ELSE Done([AddFunctionToTable(md, <<provider, name>>)
                   EXCEPT !.pointers = @ \cup {[ptr |-> ptr, fn |-> <<provider, name>>]}], ptr)

GetFunctionFromPtr(md, ptr) == IF ptr + 1 \in DOMAIN md.table THEN md.table[ptr + 1] ELSE NoFunction

-----------------------------------------------------------------------------
(* What Wasm code does to its memory by itself. *)
Own(md, base, len, kind) ==
  [md EXCEPT !.own = @ \cup {[base |-> base, len |-> len, kind |-> kind]}]

StoreAt(md, base, c) == [md EXCEPT !.mem[base \div PageSize + 1].c = c]

Claimed(result, len, kind) == Then(result, LAMBDA r : Done(Own(r.md, r.ptr, len, kind), r.ptr))

(* The zygote function is Wasm code too. *)
ZygoteGrows(md) ==
  Then(Claimed(GrowMemory(md, PageSize), PageSize, "heap"), LAMBDA r : Done(StoreAt(r.md, r.ptr, ZygoteC), 0))
ZygoteTrims(md) ==
  Then(GrowMemory(md, PageSize), LAMBDA r : ShrinkMemory(StoreAt(r.md, r.ptr, ZygoteC), PageSize))

ExecuteZygoteFunction(md, irh) ==
  CASE zygoteFn = "none" -> Done(md, 0)
    [] zygoteFn = "grow" -> ZygoteGrows(md)
    [] zygoteFn = "trim" -> ZygoteTrims(md)
    [] OTHER -> DynamicLoadModule(md, irh, zygoteFn)

-----------------------------------------------------------------------------
(* Zygotes and clones. *)
MainModule ==
  [bound |-> TRUE, mem |-> Pages(InitPages, DataC), brk |-> InitPages * PageSize,
   stacks |-> <<>>, shared |-> EmptyMap,
   table |-> [i \in DOMAIN MainTable |-> <<"main", MainTable[i]>>],
   got |-> EmptyMap, gotMem |-> EmptyMap, missing |-> EmptyMap,
   dyn |-> <<>>, paths |-> EmptyMap, loading |-> "",
   stdout |-> {}, base |-> <<>>, own |-> {}, pointers |-> {}]

DoBindToFunction(h, irh) ==
  LET main == AddModuleToGOT(MainModule, MainTable, MainExports, 0, MainGlobals, 0)
  IN  [ExecuteZygoteFunction(CreateThreadStacks(main), irh).md EXCEPT !.base = BaseKey(h)]

(* The compartment is cloned without the contents of its memory, which is  *)
(* then restored; the pool of threads and the output are not copied.       *)
Clone(other, reg) ==
  LET blank == [other EXCEPT !.mem = [i \in DOMAIN @ |-> ZeroPage], !.stdout = {}]
  IN  Restore(blank, reg, other.base).md

(* The zygote is made once per host, and every Faaslet is a clone of it.   *)
NewZygote(h, irh, zygote) ==
  /\ cache' = [cache EXCEPT ![h] = zygote]
  /\ ir' = [ir EXCEPT ![h] = irh]
  /\ snapshots' = [snapshots EXCEPT ![h] = TakeSnapshot(@, BaseKey(h), Image(zygote), TRUE)]
  /\ faaslet' = [faaslet EXCEPT ![h] = Clone(zygote, snapshots'[h])]
KnownZygote(h) ==
  /\ faaslet' = [faaslet EXCEPT ![h] = Clone(cache[h], snapshots[h])]
  /\ UNCHANGED <<cache, ir, snapshots>>
Renew(h) ==
  LET irh == IF zygoteFn \in Paths THEN CachedModule(ir[h], LibAt(zygoteFn)) ELSE ir[h]
  IN  IF cache[h].bound THEN KnownZygote(h) ELSE NewZygote(h, irh, DoBindToFunction(h, irh))

Init ==
  /\ cache = [h \in Host |-> NoModule] /\ faaslet = [h \in Host |-> NoModule]
  /\ call = [h \in Host |-> 0]
  /\ snapshots = [h \in Host |-> EmptyMap] /\ ir = [h \in Host |-> EmptyMap]
  /\ chained = {} /\ zygoteFn \in ZygoteFunctions /\ program \in Programs
  /\ calls = 0 /\ ops = 0

PostBind(h) ==
  /\ ~faaslet[h].bound
  /\ h = Origin \/ \E t \in chained : t.host = h
  /\ Renew(h)
  /\ UNCHANGED <<call, chained, static, calls, ops>>

KeepModule(h) ==
  /\ call' = [call EXCEPT ![h] = 0]
  /\ UNCHANGED <<cache, ir, snapshots, faaslet>>

(* A call ends, in order or by an exception, with a new clone. *)
PreFinishCall(h) ==
  /\ call' = [call EXCEPT ![h] = 0]
  /\ Renew(h)

Flush(h) ==
  /\ faaslet[h].bound /\ call[h] = 0
  /\ faaslet' = [faaslet EXCEPT ![h] = NoModule]
  /\ cache' = [cache EXCEPT ![h] = NoModule]
  /\ ir' = [ir EXCEPT ![h] = EmptyMap]
  /\ UNCHANGED <<call, snapshots, chained, static, calls, ops>>

Execute ==
  /\ faaslet[Origin].bound /\ call[Origin] = 0 /\ calls < MaxCalls
  /\ calls' = calls + 1
  /\ call' = [call EXCEPT ![Origin] = calls']
  /\ UNCHANGED <<cache, faaslet, snapshots, ir, chained, static, ops>>

(* The thread of message t restores its snapshot, then finds its function. *)
ExecuteFromSnapshot(h, t) ==
  LET r == Restore(faaslet[h], snapshots[h], t.key)
      found == r.ok /\ GetFunctionFromPtr(r.md, t.funcPtr) # NoFunction
  IN  /\ t.host = h /\ faaslet[h].bound /\ call[h] = 0 /\ calls < MaxCalls
      /\ calls' = calls + 1
      /\ chained' = chained \ {t}
      /\ IF found
         THEN /\ faaslet' = [faaslet EXCEPT ![h] = r.md]
              /\ call' = [call EXCEPT ![h] = calls']
              /\ UNCHANGED <<cache, snapshots, ir>>
         ELSE PreFinishCall(h)
      /\ UNCHANGED <<static, ops>>

(* A host function called by Wasm code: its result, or the end of the call. *)
Calls(h, name) == call[h] # 0 /\ ops < MaxOps /\ name \in program

HostFunction(h, r) ==
  /\ ops' = ops + 1
  /\ IF r.ok
     THEN faaslet' = [faaslet EXCEPT ![h] = r.md] /\ UNCHANGED <<cache, call, snapshots, ir>>
     ELSE PreFinishCall(h)
  /\ UNCHANGED <<chained, static, calls>>

Finish(h) ==
  /\ call[h] # 0
  /\ PreFinishCall(h)
  /\ UNCHANGED <<chained, static, calls, ops>>

SbrkGrow(h) ==
  /\ Calls(h, "sbrk")
  /\ \E n \in {1, PageSize} : HostFunction(h, Claimed(GrowMemory(faaslet[h], n), n, "heap"))

(* An allocator gives back the top of its heap, and only what is its own. *)
SbrkShrink(h) ==
  /\ Calls(h, "sbrk")
  /\ \E a \in faaslet[h].own :
       /\ a.kind = "heap" /\ a.base + a.len = faaslet[h].brk
       /\ HostFunction(h, ShrinkMemory([faaslet[h] EXCEPT !.own = @ \ {a}], a.len))

MmapAnonymous(md) == Claimed(MmapMemory(md, 1), 1, "mmap")
MmapFd(md) == Claimed(MmapFile(md, 1), 1, "file")

DoMmap(h) ==
  /\ Calls(h, "mmap")
  /\ \/ HostFunction(h, MmapAnonymous(faaslet[h]))
     \/ HostFunction(h, MmapFd(faaslet[h]))

Munmap(h) ==
  /\ Calls(h, "mmap")
  /\ \E a \in faaslet[h].own :
       /\ a.kind = "mmap"
       /\ HostFunction(h, UnmapMemory([faaslet[h] EXCEPT !.own = @ \ {a}], a.base, a.len))

StatePtr(h) ==
  /\ Calls(h, "state")
  /\ \E seg \in Segments : HostFunction(h, MapSharedStateMemory(faaslet[h], seg))

Dlopen(h) ==
  /\ Calls(h, "dlopen")
  /\ \E lib \in Libs :
       LET irh == CachedModule(ir[h], lib)
           r == DynamicLoadModule(faaslet[h], irh, lib.path)
       IN  /\ r.ok
           /\ ir' = [ir EXCEPT ![h] = irh]
           /\ faaslet' = [faaslet EXCEPT ![h] = r.md]
           /\ ops' = ops + 1
           /\ UNCHANGED <<cache, call, snapshots, chained, static, calls>>

DlopenFails(h) ==
  /\ Calls(h, "dlopen")
  /\ \E lib \in Libs :
       /\ ~DynamicLoadModule(faaslet[h], CachedModule(ir[h], lib), lib.path).ok
       /\ ops' = ops + 1
       /\ PreFinishCall(h)
       /\ UNCHANGED <<chained, static, calls>>

Dlsym(h) ==
  /\ Calls(h, "dlsym")
  /\ \E path \in DOMAIN faaslet[h].paths, name \in UNION {l.exports : l \in Libs} :
       HostFunction(h, GetDynamicModuleFunction(faaslet[h], faaslet[h].paths[path], name))

CaptureStdout(h) ==
  /\ Calls(h, "stdout")
  /\ HostFunction(h, Done([faaslet[h] EXCEPT !.stdout = @ \cup {call[h]}], 0))

(* ffi_call runs a function by its pointer and stores what it returns. *)
FfiCall(h) ==
  /\ Calls(h, "dlsym")
  /\ \E a \in faaslet[h].own, p \in faaslet[h].pointers :
       /\ a.kind # "file"
       /\ HostFunction(h, IF GetFunctionFromPtr(faaslet[h], p.ptr) = NoFunction
                          THEN Thrown(faaslet[h])
                          ELSE Done(StoreAt(faaslet[h], a.base, call[h]), 0))

Store(h) ==
  /\ Calls(h, "store")
  /\ \E a \in faaslet[h].own :
       /\ a.kind # "file"
       /\ HostFunction(h, Done(StoreAt(faaslet[h], a.base, call[h]), 0))

(* The first pthread_create of a group takes a snapshot under a new key,   *)
(* and sends the memory, as it is, and a message to another host.          *)
ChainThread(h, f) ==
  LET key == <<"call", ops>>
      image == Image(faaslet[Origin])
  IN  /\ h # Origin /\ Calls(Origin, "pthread")
      /\ faaslet[Origin].pointers = {}
      /\ ops' = ops + 1
      /\ snapshots' = [g \in Host |->
            IF g = Origin THEN TakeSnapshot(snapshots[g], key, image, FALSE)
            ELSE IF g = h THEN PushSnapshot(snapshots[g], key, image) ELSE snapshots[g]]
      /\ chained' = chained \cup {[host |-> h, key |-> key, funcPtr |-> f, image |-> image]}
      /\ UNCHANGED <<cache, faaslet, call, ir, static, calls>>

Allocates(h) == SbrkGrow(h) \/ SbrkShrink(h) \/ DoMmap(h) \/ Munmap(h) \/ StatePtr(h)
Links(h) == Dlopen(h) \/ DlopenFails(h) \/ Dlsym(h) \/ FfiCall(h)

Next ==
  \/ Execute
  \/ \E h \in Host :
       \/ PostBind(h) \/ Finish(h) \/ Flush(h)
       \/ \E t \in chained : ExecuteFromSnapshot(h, t)
       \/ Allocates(h) \/ Links(h) \/ CaptureStdout(h) \/ Store(h)
       \/ \E f \in 0..(Len(MainTable) - 1) : ChainThread(h, f)

Spec == Init /\ [][Next]_vars

-----------------------------------------------------------------------------
Modules == {faaslet[h] : h \in Host} \cup {cache[h] : h \in Host}
BoundModules == {md \in Modules : md.bound}

(* The break stays on a page boundary and within what is provisioned.      *)
BreakOK(md) == md.brk % PageSize = 0 /\ md.brk <= Bytes(md) /\ Len(md.mem) <= MaxPages

(* What a module has handed out: the areas of the program, of the stacks,  *)
(* of the dynamic modules and of mapped state, with their guard regions.   *)
Areas(md) ==
  {<<0, InitPages * PageSize>>}
  \cup {<<a.base, a.base + RoundUp(a.len)>> : a \in md.own}
  \cup {<<t - StackSize + 1 - GuardSize, t + 1 + GuardSize>> : t \in Range(md.stacks)}
  \cup {<<d.bottom - GuardSize, d.top + GuardSize>> : d \in Range(md.dyn)}
  \cup {<<md.shared[s] - s.rem, md.shared[s] - s.rem + RoundUp(s.rem + s.len)>> :
           s \in DOMAIN md.shared}

(* No two areas of a memory overlap, and a snapshot, which ends at the     *)
(* break, misses none: growMemory may start a new area above the break,    *)
(* and an unmapped area may be handed out again (WAVMWasmModule.cpp:1043). *)
AllocsDisjoint ==
  \A md \in BoundModules :
    /\ BreakOK(md)
    /\ \A x \in Areas(md) :
         /\ x[2] <= md.brk
         /\ \A y \in Areas(md) : x = y \/ x[2] <= y[1] \/ y[2] <= x[1]

Visible(md) ==
  <<Image(md), md.stacks, md.shared, md.table, md.got, md.gotMem, md.dyn, md.paths, md.stdout>>

(* Between two calls a Faaslet is what its zygote is, in memory, tables,   *)
(* modules and output, and holds nothing of a call above its break.        *)
ResetComplete ==
  \A h \in Host : faaslet[h].bound /\ call[h] = 0 =>
    /\ cache[h].bound
    /\ Visible(faaslet[h]) = Visible(cache[h])
    /\ \A i \in DOMAIN faaslet[h].mem :
         i > faaslet[h].brk \div PageSize => faaslet[h].mem[i] = ZeroPage

(* State is mapped where its pointer says, and no area that the program    *)
(* allocated, and no stack, is a mapping of a file or of state.            *)
BackedBy(md, base, len, by) == \A i \in PagesIn(base, len) : md.mem[i].by = by
BackingMatches ==
  \A h \in Host : faaslet[h].bound =>
    LET md == faaslet[h] IN
    /\ \A s \in DOMAIN md.shared : BackedBy(md, md.shared[s], s.len, s.key)
    /\ \A a \in md.own : a.kind # "file" => BackedBy(md, a.base, a.len, "anonymous")
    /\ \A t \in Range(md.stacks) : BackedBy(md, t - StackSize + 1, StackSize, "anonymous")

(* A dynamic module has its own functions in its range of the table, also  *)
(* when it was parsed before, and its data inside its own memory.          *)
LaidOut(md, d) ==
  /\ SubSeq(md.table, d.tableBottom + 1, d.tableTop)
       = [i \in DOMAIN LibAt(d.path).elems |-> <<d.path, LibAt(d.path).elems[i]>>]
  /\ d.dataTop <= d.top
  /\ \A g \in DOMAIN LibAt(d.path).globals : md.gotMem[g] \in d.dataBottom..(d.dataTop - 1)

(* A pointer that dlsym gave, and a place in the global offset table, are  *)
(* about the function they were asked for, however the table has grown,    *)
(* and every function that a loaded module needs has such a place; a       *)
(* module keeps its range of the table and of the memory.                  *)
FunctionPointersValid ==
  \A md \in BoundModules :
    /\ \A p \in md.pointers : GetFunctionFromPtr(md, p.ptr) = p.fn
    /\ \A f \in DOMAIN md.got : GetFunctionFromPtr(md, md.got[f])[2] = f
    /\ \A d \in Range(md.dyn) : Range(LibAt(d.path).gotFuncs) \subseteq DOMAIN md.got /\ LaidOut(md, d)

(* A chained thread starts with the memory its creator had when it created *)
(* it, and with the function it was given.                                 *)
StartsFromSnapshot(h, t) ==
  t \in chained \ chained' /\ t.host = h =>
    /\ call'[h] # 0
    /\ faaslet'[h].brk >= t.image.size
    /\ \A i \in DOMAIN t.image.pages : faaslet'[h].mem[i].c = t.image.pages[i]
    /\ GetFunctionFromPtr(faaslet'[h], t.funcPtr) = <<"main", MainTable[t.funcPtr + 1]>>
RestoredExactly == [][\A h \in Host, t \in chained : StartsFromSnapshot(h, t)]_vars
=============================================================================
