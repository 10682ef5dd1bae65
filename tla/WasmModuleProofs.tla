-------------------------- MODULE WasmModuleProofs --------------------------
(***************************************************************************)
(* Theorems about the Wasm module of a Faaslet, for every set of hosts,    *)
(* libraries, segments and programs, and all sizes.                        *)
(***************************************************************************)
EXTENDS WasmModule, FiniteSetTheorems, SequenceTheorems, TLAPS

-----------------------------------------------------------------------------
(* Modules as values: their fields, and what an operator leaves alone.     *)
Fields == {"bound", "mem", "brk", "stacks", "shared", "table", "got", "gotMem", "missing", "dyn",
           "paths", "loading", "stdout", "base", "own", "pointers"}
IsModule(md) == md = [f \in Fields |-> md[f]]
Only(md, x, F) == IsModule(x) /\ \A f \in Fields \ F : x[f] = md[f]
IsSeq(s) == s \in Seq(Range(s))
IsPage(p) == p = [f \in {"c", "by", "guard"} |-> p[f]]
Area == [base : Nat, len : Nat \ {0}, kind : {"heap", "mmap", "file"}]

(* A memory: its pages, and its break. *)
MemoryOK(md) ==
  /\ IsModule(md) /\ IsSeq(md.mem) /\ \A i \in DOMAIN md.mem : IsPage(md.mem[i])
  /\ md.brk \in Nat /\ BreakOK(md)

(* The areas of a memory, each with a name, and their bounds.              *)
Items(md) ==
  {<<"main", 0>>} \cup {<<"own", a>> : a \in md.own} \cup {<<"stack", i>> : i \in DOMAIN md.stacks}
  \cup {<<"dyn", i>> : i \in DOMAIN md.dyn} \cup {<<"shared", s>> : s \in DOMAIN md.shared}
Lo(md, x) ==
  CASE x[1] = "main" -> 0
    [] x[1] = "own" -> x[2].base
    [] x[1] = "stack" -> md.stacks[x[2]] - StackSize + 1 - GuardSize
    [] x[1] = "dyn" -> md.dyn[x[2]].bottom - GuardSize
    [] x[1] = "shared" -> md.shared[x[2]] - x[2].rem
Hi(md, x) ==
  CASE x[1] = "main" -> InitPages * PageSize
    [] x[1] = "own" -> x[2].base + RoundUp(x[2].len)
    [] x[1] = "stack" -> md.stacks[x[2]] + 1 + GuardSize
    [] x[1] = "dyn" -> md.dyn[x[2]].top + GuardSize
    [] x[1] = "shared" -> md.shared[x[2]] - x[2].rem + RoundUp(x[2].rem + x[2].len)

(* Areas start on a page, end below the break and do not overlap.          *)
Bounds(md, x) ==
  /\ Lo(md, x) \in Nat /\ Hi(md, x) \in Nat /\ Lo(md, x) % 2 = 0
  /\ Lo(md, x) < Hi(md, x) \/ Hi(md, x) = 0
Apart(md, x, y) == Hi(md, x) <= Lo(md, y) \/ Hi(md, y) <= Lo(md, x)
Placed(md) ==
  /\ \A x \in Items(md) : Bounds(md, x) /\ Hi(md, x) <= md.brk
  /\ \A x, y \in Items(md) : x = y \/ Apart(md, x, y)
LayoutOK(md) ==
  /\ md.own \subseteq Area /\ IsSeq(md.dyn)
  /\ IsSeq(md.stacks) /\ \A i \in DOMAIN md.stacks : md.stacks[i] \in Nat
  /\ \A s \in DOMAIN md.shared : s \in Segments /\ md.shared[s] \in Nat
  /\ Placed(md)

(* What must be backed by what, and what is above the break is not mapped. *)
Demands(md) ==
  {<<md.shared[s], s.len, s.key>> : s \in DOMAIN md.shared}
  \cup {<<a.base, a.len, "anonymous">> : a \in {b \in md.own : b.kind # "file"}}
  \cup {<<t - StackSize + 1, StackSize, "anonymous">> : t \in Range(md.stacks)}
BackOK(md) ==
  /\ \A d \in Demands(md) : BackedBy(md, d[1], d[2], d[3])
  /\ \A i \in DOMAIN md.mem : i > md.brk \div 2 => md.mem[i].by = "anonymous"

SpaceOK(md) == MemoryOK(md) /\ LayoutOK(md) /\ BackOK(md)

(* The table of functions, and who knows what about it.                    *)
Leads(md, place, f) == place \in Nat /\ place + 1 \in DOMAIN md.table /\ md.table[place + 1][2] = f
HasTable(md, d) ==
  /\ d.tableBottom \in Nat /\ d.tableTop = d.tableBottom + Len(LibAt(d.path).elems) /\ d.tableTop <= Len(md.table)
  /\ \A e \in DOMAIN LibAt(d.path).elems : md.table[d.tableBottom + e] = <<d.path, LibAt(d.path).elems[e]>>
HasData(md, d) ==
  /\ d.dataTop <= d.top
  /\ \A g \in DOMAIN LibAt(d.path).globals : g \in DOMAIN md.gotMem /\ md.gotMem[g] \in d.dataBottom..(d.dataTop - 1)
DynOK(md, d) ==
  /\ d.path \in DOMAIN md.paths /\ d.path \in Paths
  /\ Range(LibAt(d.path).gotFuncs) \subseteq DOMAIN md.got
  /\ HasTable(md, d) /\ HasData(md, d)
DataNames(md) == DOMAIN MainGlobals \cup UNION {DOMAIN LibAt(d.path).globals : d \in Range(md.dyn)}
TableOK(md) ==
  /\ IsModule(md) /\ IsSeq(md.table) /\ IsSeq(md.dyn) /\ DOMAIN md.paths \subseteq Paths
  /\ md.loading = "" /\ md.missing = EmptyMap
  /\ \A p \in md.pointers : p.ptr \in Nat /\ p.ptr + 1 \in DOMAIN md.table /\ md.table[p.ptr + 1] = p.fn
  /\ \A f \in DOMAIN md.got : Leads(md, md.got[f], f)
  /\ \A d \in Range(md.dyn) : DynOK(md, d)
  /\ DOMAIN md.gotMem \subseteq DataNames(md)

-----------------------------------------------------------------------------
(* The assumptions on the constants, in one fact. *)
LEMMA Sizes ==
  /\ InitPages \in Nat /\ MaxPages \in Nat /\ ThreadPoolSize \in Nat
  /\ StackSize \in Nat /\ GuardSize \in Nat /\ DynMemorySize \in Nat /\ DynStackSize \in Nat
  /\ StackSize % 2 = 0 /\ GuardSize % 2 = 0 /\ DynMemorySize % 2 = 0
  /\ StackSize > 0 /\ DynStackSize > 0 /\ PageSize = 2 /\ FirstHandle = 2
<1>1. PageSize = 2 /\ FirstHandle = 2
  BY DEF PageSize, FirstHandle
<1>2. {InitPages, MaxPages, ThreadPoolSize, MaxCalls, MaxOps} \subseteq Nat
  BY ModuleAssumption
<1>3. StackSize \in Nat /\ StackSize % 2 = 0
  BY ModuleAssumption DEF PageSize
<1>4. GuardSize \in Nat /\ GuardSize % 2 = 0
  BY ModuleAssumption DEF PageSize
<1>5. DynMemorySize \in Nat /\ DynMemorySize % 2 = 0
  BY ModuleAssumption DEF PageSize
<1>6. StackSize > 0 /\ DynStackSize \in Nat \ {0}
  BY ModuleAssumption
<1> QED
  BY <1>1, <1>2, <1>3, <1>4, <1>5, <1>6

(* Half pages. *)
LEMMA Evens ==
  ASSUME NEW b \in Nat, NEW n \in Nat, b % 2 = 0
  PROVE  /\ (b + n) % 2 = 0 <=> n % 2 = 0
         /\ n <= b => ((b - n) % 2 = 0 <=> n % 2 = 0)
OBVIOUS
LEMMA Halves ==
  ASSUME NEW len \in Nat, NEW n \in Nat, n % 2 = 0
  PROVE  n \div 2 \in Nat /\ 2 * (n \div 2) = n /\ (2 * len + n) \div 2 = len + n \div 2
OBVIOUS
LEMMA Twice ==
  ASSUME NEW n \in Nat
  PROVE  (2 * n) % 2 = 0 /\ 2 * n \in Nat /\ (2 * n) \div 2 = n
OBVIOUS
LEMMA RoundUps ==
  ASSUME NEW n \in Nat \ {0}
  PROVE  RoundUp(n) \in Nat \ {0} /\ RoundUp(n) % 2 = 0 /\ n <= RoundUp(n) /\ RoundUp(n) <= n + 1
<1>1. RoundUp(n) = ((n + 1) \div 2) * 2
  BY DEF RoundUp, PageSize
<1>2. ((n + 1) \div 2) * 2 \in Nat \ {0}
  OBVIOUS
<1>3. (((n + 1) \div 2) * 2) % 2 = 0
  OBVIOUS
<1>4. n <= ((n + 1) \div 2) * 2 /\ ((n + 1) \div 2) * 2 <= n + 1
  OBVIOUS
<1> QED
  BY <1>1, <1>2, <1>3, <1>4

(* Sequences of anything. *)
LEMMA SeqType ==
  ASSUME NEW s, IsSeq(s)
  PROVE  Len(s) \in Nat /\ DOMAIN s = 1..Len(s) /\ s = [i \in 1..Len(s) |-> s[i]]
BY DEF IsSeq
LEMMA MadeSeq ==
  ASSUME NEW n \in Nat, NEW s, s = [i \in 1..n |-> s[i]]
  PROVE  IsSeq(s) /\ Len(s) = n
<1>1. \A i \in 1..n : s[i] \in Range(s)
  BY DEF Range
<1> QED
  BY <1>1 DEF IsSeq
LEMMA AppendSeq ==
  ASSUME NEW s, IsSeq(s), NEW x
  PROVE  /\ IsSeq(Append(s, x)) /\ Len(Append(s, x)) = Len(s) + 1
         /\ \A i \in 1..(Len(s) + 1) : Append(s, x)[i] = IF i <= Len(s) THEN s[i] ELSE x
<1>1. s \in Seq(Range(s) \cup {x})
  BY DEF IsSeq
<1>2. Append(s, x) \in Seq(Range(s) \cup {x}) /\ Len(Append(s, x)) = Len(s) + 1
  BY <1>1
<1>3. Append(s, x) = [i \in 1..(Len(s) + 1) |-> Append(s, x)[i]]
  <2>1. PICK u : u = Append(s, x)
    OBVIOUS
  <2>2. PICK S : u \in Seq(S)
    BY <1>2, <2>1
  <2>3. u = [i \in 1..Len(u) |-> u[i]]
    BY <2>2
  <2> QED
    BY <1>2, <2>1, <2>3
<1>4. \A i \in 1..(Len(s) + 1) : Append(s, x)[i] = IF i <= Len(s) THEN s[i] ELSE x
  BY <1>1
<1>5. Len(s) + 1 \in Nat
  BY SeqType
<1> QED
  BY <1>2, <1>3, <1>4, <1>5, MadeSeq
LEMMA ConcatSeq ==
  ASSUME NEW s, IsSeq(s), NEW t, IsSeq(t)
  PROVE  /\ IsSeq(s \o t) /\ Len(s \o t) = Len(s) + Len(t)
         /\ \A i \in 1..(Len(s) + Len(t)) : (s \o t)[i] = IF i <= Len(s) THEN s[i] ELSE t[i - Len(s)]
<1> DEFINE S == Range(s) \cup Range(t)
<1>1. s \in Seq(S) /\ t \in Seq(S)
  BY DEF IsSeq
<1> HIDE DEF S
<1>2. s \o t \in Seq(S) /\ Len(s \o t) = Len(s) + Len(t)
  BY <1>1
<1>3. s \o t = [i \in 1..(Len(s) + Len(t)) |-> (s \o t)[i]]
  <2>1. PICK u : u = s \o t
    OBVIOUS
  <2>2. PICK T : u \in Seq(T)
    BY <1>2, <2>1
  <2>3. u = [i \in 1..Len(u) |-> u[i]]
    BY <2>2
  <2> QED
    BY <1>2, <2>1, <2>3
<1>4. \A i \in 1..(Len(s) + Len(t)) : (s \o t)[i] = IF i <= Len(s) THEN s[i] ELSE t[i - Len(s)]
  BY <1>1
<1>5. Len(s) + Len(t) \in Nat
  BY SeqType
<1> QED
  BY <1>2, <1>3, <1>4, <1>5, MadeSeq

-----------------------------------------------------------------------------
(* Memory grows from the break, or from the end of what is provisioned.    *)
LEMMA ZeroPages ==
  ASSUME NEW n \in Nat
  PROVE  /\ IsPage(ZeroPage) /\ IsSeq(Pages(n, ZeroC)) /\ Len(Pages(n, ZeroC)) = n
         /\ \A i \in 1..n : Pages(n, ZeroC)[i] = ZeroPage
<1>1. IsPage(ZeroPage) /\ [ZeroPage EXCEPT !.c = ZeroC] = ZeroPage
  <2>1. ASSUME NEW c, NEW by, NEW guard, NEW p, p = [c |-> c, by |-> by, guard |-> guard]
        PROVE  IsPage(p) /\ [p EXCEPT !.c = c] = p
    BY <2>1 DEF IsPage
  <2>2. \E g : ZeroPage = [c |-> ZeroC, by |-> "anonymous", guard |-> g]
    BY Zenon DEF ZeroPage
  <2> QED
    BY <2>1, <2>2
<1>2. Pages(n, ZeroC) = [i \in 1..n |-> ZeroPage]
  BY <1>1 DEF Pages
<1> QED
  BY <1>1, <1>2, MadeSeq
LEMMA MemoryTypes ==
  ASSUME NEW md, MemoryOK(md)
  PROVE  /\ md.brk \in Nat /\ md.brk % 2 = 0 /\ md.brk <= 2 * Len(md.mem) /\ Len(md.mem) <= MaxPages
         /\ Len(md.mem) \in Nat /\ Bytes(md) = 2 * Len(md.mem) /\ IsModule(md) /\ IsSeq(md.mem)
         /\ DOMAIN md.mem = 1..Len(md.mem)
BY SeqType DEF MemoryOK, BreakOK, Bytes, PageSize
LEMMA IsMemory ==
  ASSUME NEW md, IsModule(md), IsSeq(md.mem), \A i \in DOMAIN md.mem : IsPage(md.mem[i]),
         md.brk \in Nat, md.brk % 2 = 0, md.brk <= 2 * Len(md.mem), Len(md.mem) <= MaxPages
  PROVE  MemoryOK(md)
BY DEF MemoryOK, BreakOK, Bytes, PageSize

Grown(md, n, r) ==
  /\ r.ok = TRUE /\ MemoryOK(r.md) /\ Only(md, r.md, {"mem", "brk"})
  /\ r.ptr \in Nat /\ r.ptr % 2 = 0 /\ md.brk <= r.ptr /\ r.md.brk = r.ptr + n
  /\ Len(md.mem) <= Len(r.md.mem) /\ Bytes(r.md) <= Bytes(md) + n
  /\ \A i \in DOMAIN md.mem : r.md.mem[i] = md.mem[i]
  /\ \A i \in DOMAIN r.md.mem \ DOMAIN md.mem : r.md.mem[i] = ZeroPage
With(md, m, b) == [md EXCEPT !.mem = m, !.brk = b]
LEMMA NewMemory ==
  ASSUME NEW md, IsModule(md), NEW m, NEW b
  PROVE  Only(md, With(md, m, b), {"mem", "brk"}) /\ With(md, m, b).mem = m /\ With(md, m, b).brk = b
BY DEF Only, IsModule, Fields, With
LEMMA GrowInPlace ==
  ASSUME NEW md, MemoryOK(md), NEW n \in Nat \ {0}, NEW r, r = GrowMemory(md, n),
         n % 2 = 0, md.brk + n <= 2 * Len(md.mem)
  PROVE  Grown(md, n, r)
<1>1. (md.brk + n) % 2 = 0
  BY MemoryTypes, Evens
<1>2. r = Done([md EXCEPT !.brk = @ + n], md.brk)
  BY <1>1, MemoryTypes DEF GrowMemory, PageSize
<1>3. r.ok = TRUE /\ r.ptr = md.brk /\ r.md = [md EXCEPT !.brk = @ + n]
  BY <1>2 DEF Done
<1>4. Only(md, r.md, {"brk"}) /\ r.md.brk = md.brk + n
  BY <1>3, MemoryTypes, ZenonT(60) DEF Only, IsModule, Fields
<1>5. r.md.mem = md.mem
  BY <1>4 DEF Only, Fields
<1>6. IsModule(r.md) /\ \A i \in DOMAIN r.md.mem : IsPage(r.md.mem[i])
  BY <1>4, <1>5 DEF Only, MemoryOK
<1>7. md.brk + n \in Nat
  BY MemoryTypes
<1>8. MemoryOK(r.md)
  BY <1>1, <1>4, <1>5, <1>6, <1>7, MemoryTypes, IsMemory
<1>9. Only(md, r.md, {"mem", "brk"})
  BY <1>4 DEF Only
<1>10. Bytes(r.md) <= Bytes(md) + n
  BY <1>5, MemoryTypes DEF Bytes
<1> QED
  BY <1>3, <1>4, <1>5, <1>8, <1>9, <1>10, MemoryTypes DEF Grown
LEMMA GrowAtEnd ==
  ASSUME NEW md, MemoryOK(md), NEW n \in Nat \ {0}, NEW r, r = GrowMemory(md, n),
         n % 2 = 0, md.brk + n > 2 * Len(md.mem), Len(md.mem) + n \div 2 <= MaxPages
  PROVE  Grown(md, n, r)
<1> DEFINE len == Len(md.mem)
           k == n \div 2
           mem == md.mem \o Pages(k, ZeroC)
<1>1. len \in Nat /\ k \in Nat /\ 2 * k = n /\ (2 * len + n) \div 2 = len + k /\ len + k <= MaxPages
  BY MemoryTypes, Halves
<1>2. (md.brk + n) % 2 = 0
  BY MemoryTypes, Evens
<1>3. (Bytes(md) + n) \div 2 = len + k /\ Bytes(md) = 2 * len
  BY <1>1, MemoryTypes
<1>4. ~((Bytes(md) + n) \div 2 > MaxPages)
  <2>1. len \in Nat /\ k \in Nat /\ len + k <= MaxPages
    BY <1>1
  <2> HIDE DEF len, k
  <2>2. ~(len + k > MaxPages)
    BY <2>1, Sizes
  <2> QED
    BY <2>2, <1>3
<1>5. ~(md.brk + n <= Bytes(md))
  BY <1>3, MemoryTypes
<1>6. r = Done([md EXCEPT !.mem = @ \o Pages(k, ZeroC), !.brk = Bytes(md) + n], Bytes(md))
  BY <1>2, <1>4, <1>5 DEF GrowMemory, PageSize
<1>7. r.ok = TRUE /\ r.ptr = 2 * len /\ r.md = With(md, mem, 2 * len + n)
  BY <1>6, <1>3 DEF Done, With
<1>8. Only(md, r.md, {"mem", "brk"}) /\ r.md.brk = 2 * len + n /\ r.md.mem = mem
  <2>1. IsModule(md)
    BY MemoryTypes
  <2> HIDE DEF mem, len, k
  <2> QED
    BY <1>7, <2>1, NewMemory
<1>9. /\ IsSeq(mem) /\ Len(mem) = len + k
      /\ \A i \in 1..len : mem[i] = md.mem[i]
      /\ \A i \in 1..(len + k) : i > len => mem[i] = ZeroPage
  <2>1. IsSeq(Pages(k, ZeroC)) /\ Len(Pages(k, ZeroC)) = k /\ \A i \in 1..k : Pages(k, ZeroC)[i] = ZeroPage
    BY <1>1, ZeroPages
  <2>2. IsSeq(md.mem)
    BY MemoryTypes
  <2>3. /\ IsSeq(mem) /\ Len(mem) = len + k
        /\ \A i \in 1..(len + k) : mem[i] = IF i <= len THEN md.mem[i] ELSE Pages(k, ZeroC)[i - len]
    BY <2>1, <2>2, ConcatSeq, ZenonT(60)
  <2> HIDE DEF mem, len, k
  <2>4. \A i \in 1..(len + k) : i > len => i - len \in 1..k
    BY <1>1
  <2>5. \A i \in 1..len : i \in 1..(len + k) /\ i <= len
    BY <1>1
  <2>6. \A i \in 1..(len + k) : i > len => ~(i <= len)
    BY <1>1
  <2> QED
    BY <2>1, <2>3, <2>4, <2>5, <2>6
<1> HIDE DEF mem, len, k
<1>10. \A i \in DOMAIN mem : IsPage(mem[i])
  <2>1. DOMAIN mem = 1..(len + k)
    BY <1>9, SeqType
  <2>2. \A i \in 1..len : IsPage(md.mem[i])
    BY MemoryTypes DEF MemoryOK, len
  <2>3. \A i \in 1..(len + k) : i \in 1..len \/ i > len
    BY <1>1
  <2> QED
    BY <1>9, <2>1, <2>2, <2>3, ZeroPages
<1>11. 2 * len + n \in Nat /\ (2 * len + n) % 2 = 0 /\ 2 * len + n <= 2 * (len + k) /\ (2 * len) % 2 = 0
  BY <1>1, Twice, Evens
<1>12. MemoryOK(r.md)
  <2>1. IsModule(r.md)
    BY <1>8 DEF Only
  <2> QED
    BY <2>1, <1>8, <1>9, <1>10, <1>11, IsMemory DEF len, k
<1>13. Bytes(r.md) <= Bytes(md) + n
  BY <1>1, <1>3, <1>8, <1>9, <1>11 DEF Bytes, PageSize
<1>14. \A i \in DOMAIN r.md.mem \ DOMAIN md.mem : r.md.mem[i] = ZeroPage
  <2>1. DOMAIN mem = 1..(len + k) /\ DOMAIN md.mem = 1..len
    BY <1>9, SeqType, MemoryTypes DEF len
  <2>2. \A i \in 1..(len + k) : i \in 1..len \/ i > len
    BY <1>1
  <2> QED
    BY <1>8, <1>9, <2>1, <2>2
<1>15. \A i \in DOMAIN md.mem : r.md.mem[i] = md.mem[i]
  BY <1>8, <1>9, MemoryTypes DEF len
<1>16. md.brk <= 2 * len /\ len <= len + k /\ 2 * len \in Nat
  <2>1. md.brk <= 2 * len
    BY MemoryTypes DEF len
  <2> QED
    BY <1>1, <2>1
<1> QED
  BY <1>7, <1>8, <1>9, <1>11, <1>12, <1>13, <1>14, <1>15, <1>16, Zenon DEF Grown, len

LEMMA Limit ==
  ASSUME NEW len \in Nat, NEW k \in Nat, ~(len + k <= MaxPages)
  PROVE  len + k > MaxPages /\ ~(2 * len + 2 * k <= MaxPages * 2)
BY Sizes
LEMMA GrowOk ==
  ASSUME NEW md, MemoryOK(md), NEW n \in Nat \ {0}, NEW r, r = GrowMemory(md, n)
  PROVE  /\ r.ok \in BOOLEAN
         /\ r.ok => n % 2 = 0 /\ Grown(md, n, r)
         /\ n % 2 = 0 /\ Bytes(md) + n <= MaxPages * 2 => r.ok
<1>1. n % 2 = 0 <=> (md.brk + n) % 2 = 0
  BY MemoryTypes, Evens
<1>2. CASE n % 2 # 0
  <2>1. r = Thrown(md)
    BY <1>1, <1>2 DEF GrowMemory, PageSize
  <2> QED
    BY <1>2, <2>1 DEF Thrown
<1>3. CASE n % 2 = 0 /\ md.brk + n <= 2 * Len(md.mem)
  <2>1. Grown(md, n, r)
    BY <1>3, GrowInPlace
  <2> QED
    BY <1>3, <2>1 DEF Grown
<1>4. CASE n % 2 = 0 /\ md.brk + n > 2 * Len(md.mem)
  <2>1. n \div 2 \in Nat /\ 2 * (n \div 2) = n /\ (2 * Len(md.mem) + n) \div 2 = Len(md.mem) + n \div 2
    BY <1>4, MemoryTypes, Halves
  <2>2. CASE Len(md.mem) + n \div 2 <= MaxPages
    <3>1. Grown(md, n, r)
      BY <1>4, <2>2, GrowAtEnd
    <3> QED
      BY <1>4, <3>1 DEF Grown
  <2>3. CASE ~(Len(md.mem) + n \div 2 <= MaxPages)
    <3>1. (Bytes(md) + n) \div 2 > MaxPages /\ ~(md.brk + n <= Bytes(md))
      <4>1. Bytes(md) = 2 * Len(md.mem) /\ Len(md.mem) \in Nat
        BY MemoryTypes
      <4>2. Len(md.mem) + n \div 2 > MaxPages
        BY <2>1, <2>3, <4>1, Limit, Zenon
      <4>3. (Bytes(md) + n) \div 2 = Len(md.mem) + n \div 2
        BY <2>1, <4>1
      <4>4. ~(md.brk + n <= Bytes(md))
        BY <1>4, <4>1, MemoryTypes
      <4> QED
        BY <4>2, <4>3, <4>4, Zenon
    <3>2. r = Thrown(md)
      BY <1>1, <1>4, <3>1 DEF GrowMemory, PageSize
    <3>3. ~(Bytes(md) + n <= MaxPages * 2)
      <4>1. ~(2 * Len(md.mem) + 2 * (n \div 2) <= MaxPages * 2)
        BY <2>1, <2>3, MemoryTypes, Limit, Zenon
      <4> QED
        BY <2>1, <4>1, MemoryTypes, Zenon
    <3> QED
      BY <3>2, <3>3 DEF Thrown
  <2> QED
    BY <2>2, <2>3
<1> QED
  BY <1>2, <1>3, <1>4, MemoryTypes

-----------------------------------------------------------------------------
(* Areas.                                                                  *)
LEMMA ItemBounds ==
  ASSUME NEW md
  PROVE  /\ Lo(md, <<"main", 0>>) = 0 /\ Hi(md, <<"main", 0>>) = InitPages * PageSize
         /\ \A a : Lo(md, <<"own", a>>) = a.base /\ Hi(md, <<"own", a>>) = a.base + RoundUp(a.len)
         /\ \A i : /\ Lo(md, <<"stack", i>>) = md.stacks[i] - StackSize + 1 - GuardSize
                   /\ Hi(md, <<"stack", i>>) = md.stacks[i] + 1 + GuardSize
         /\ \A i : /\ Lo(md, <<"dyn", i>>) = md.dyn[i].bottom - GuardSize
                   /\ Hi(md, <<"dyn", i>>) = md.dyn[i].top + GuardSize
         /\ \A s : /\ Lo(md, <<"shared", s>>) = md.shared[s] - s.rem
                   /\ Hi(md, <<"shared", s>>) = md.shared[s] - s.rem + RoundUp(s.rem + s.len)
BY DEF Lo, Hi

(* Nothing that was there has moved. *)
Stays(md, x) ==
  /\ \A i \in DOMAIN md.stacks : x.stacks[i] = md.stacks[i]
  /\ \A i \in DOMAIN md.dyn : x.dyn[i] = md.dyn[i]
  /\ \A s \in DOMAIN md.shared : x.shared[s] = md.shared[s]
LEMMA SameBounds ==
  ASSUME NEW md, NEW x, Stays(md, x), NEW i \in Items(md)
  PROVE  Lo(x, i) = Lo(md, i) /\ Hi(x, i) = Hi(md, i)
<1>1. CASE i = <<"main", 0>>
  BY <1>1, ItemBounds
<1>2. CASE \E a \in md.own : i = <<"own", a>>
  BY <1>2, ItemBounds
<1>3. CASE \E j \in DOMAIN md.stacks : i = <<"stack", j>>
  BY <1>3, ItemBounds DEF Stays
<1>4. CASE \E j \in DOMAIN md.dyn : i = <<"dyn", j>>
  BY <1>4, ItemBounds DEF Stays
<1>5. CASE \E s \in DOMAIN md.shared : i = <<"shared", s>>
  BY <1>5, ItemBounds DEF Stays
<1> QED
  BY <1>1, <1>2, <1>3, <1>4, <1>5 DEF Items

LEMMA PlaceNone ==
  ASSUME NEW md, Placed(md), md.brk \in Nat, NEW x, Stays(md, x), Items(x) \subseteq Items(md),
         x.brk \in Nat, md.brk <= x.brk
  PROVE  Placed(x)
<1>1. \A i \in Items(x) : Bounds(x, i) /\ Hi(x, i) <= x.brk
  <2> TAKE i \in Items(x)
  <2>1. Lo(x, i) = Lo(md, i) /\ Hi(x, i) = Hi(md, i) /\ Bounds(md, i) /\ Hi(md, i) <= md.brk
    BY SameBounds DEF Placed
  <2> QED
    BY <2>1 DEF Bounds
<1>2. \A i, j \in Items(x) : i = j \/ Apart(x, i, j)
  BY SameBounds DEF Placed, Apart
<1> QED
  BY <1>1, <1>2 DEF Placed
LEMMA PlaceOne ==
  ASSUME NEW md, Placed(md), md.brk \in Nat, NEW x, Stays(md, x),
         NEW p \in Nat, \A i \in Items(md) : Hi(md, i) <= p,
         NEW new, Items(x) \subseteq Items(md) \cup {new},
         Lo(x, new) \in Nat, Hi(x, new) \in Nat, Lo(x, new) % 2 = 0,
         p <= Lo(x, new), Lo(x, new) < Hi(x, new), Hi(x, new) <= x.brk,
         x.brk \in Nat, md.brk <= x.brk
  PROVE  Placed(x)
<1>1. \A i \in Items(md) :
        /\ Lo(x, i) = Lo(md, i) /\ Hi(x, i) = Hi(md, i) /\ Bounds(md, i)
        /\ Hi(md, i) <= md.brk /\ Hi(md, i) <= p /\ Bounds(x, i)
  BY SameBounds DEF Placed, Bounds
<1>2. Bounds(x, new)
  BY DEF Bounds
<1>3. \A i \in Items(x) : Bounds(x, i) /\ Hi(x, i) <= x.brk
  <2> TAKE i \in Items(x)
  <2>1. CASE i = new
    BY <1>2, <2>1
  <2>2. CASE i \in Items(md)
    BY <1>1, <2>2 DEF Bounds
  <2> QED
    BY <2>1, <2>2
<1>4. \A i \in Items(md) : Apart(x, i, new) /\ Apart(x, new, i)
  BY <1>1 DEF Apart, Bounds
<1>5. \A i, j \in Items(md) : i = j \/ Apart(x, i, j)
  BY <1>1 DEF Placed, Apart
<1>6. \A i, j \in Items(x) : i = j \/ Apart(x, i, j)
  BY <1>4, <1>5
<1> QED
  BY <1>3, <1>6 DEF Placed
LEMMA DropLast ==
  ASSUME NEW md, Placed(md), md.brk \in Nat, NEW x, Stays(md, x),
         NEW old \in Items(md), Items(x) \subseteq Items(md) \ {old},
         Hi(md, old) = md.brk, x.brk = Lo(md, old)
  PROVE  Placed(x)
<1>1. \A i \in Items(md) :
        /\ Lo(x, i) = Lo(md, i) /\ Hi(x, i) = Hi(md, i) /\ Bounds(md, i)
        /\ Hi(md, i) <= md.brk /\ Bounds(x, i)
  BY SameBounds DEF Placed, Bounds
<1>2. \A i \in Items(x) : Bounds(x, i) /\ Hi(x, i) <= x.brk
  <2> TAKE i \in Items(x)
  <2>1. i \in Items(md) /\ i # old
    OBVIOUS
  <2>2. Apart(md, i, old)
    BY <2>1 DEF Placed
  <2>3. Bounds(md, i) /\ Bounds(md, old) /\ Hi(md, i) <= md.brk /\ Hi(x, i) = Hi(md, i)
    BY <1>1, <2>1
  <2>4. Hi(md, i) <= Lo(md, old)
    BY <2>2, <2>3 DEF Apart, Bounds
  <2> QED
    BY <1>1, <2>1, <2>3, <2>4
<1>3. \A i, j \in Items(x) : i = j \/ Apart(x, i, j)
  <2>1. \A i, j \in Items(md) : i = j \/ Apart(x, i, j)
    BY <1>1 DEF Placed, Apart
  <2> QED
    BY <2>1
<1> QED
  BY <1>2, <1>3 DEF Placed

LEMMA SegmentTypes ==
  ASSUME NEW s \in Segments
  PROVE  s.rem \in Nat /\ s.rem <= 1 /\ s.len \in Nat \ {0} /\ s.rem + s.len \in Nat \ {0}
<1>1. s.rem \in 0..(PageSize - 1) /\ s.len \in Nat \ {0}
  BY ModuleAssumption
<1> QED
  BY <1>1 DEF PageSize
LEMMA PagesBelow ==
  ASSUME NEW base \in Nat, NEW len \in Nat \ {0}, NEW top \in Nat, base + len <= top, top % 2 = 0
  PROVE  /\ PagesIn(base, len) \subseteq 1..(top \div 2)
         /\ \A p \in Nat : p % 2 = 0 /\ p <= base => \A i \in PagesIn(base, len) : i > p \div 2
<1>1. PagesIn(base, len) = (base \div 2 + 1)..((base + len - 1) \div 2 + 1)
  BY DEF PagesIn, PageSize
<1>2. base \div 2 \in Nat
  OBVIOUS
<1>3. (base + len - 1) \div 2 + 1 <= top \div 2
  OBVIOUS
<1>4. \A p \in Nat : p % 2 = 0 /\ p <= base => p \div 2 <= base \div 2 /\ p \div 2 \in Nat
  OBVIOUS
<1>5. (base + len - 1) \div 2 \in Nat /\ top \div 2 \in Nat
  OBVIOUS
<1>6. PagesIn(base, len) \subseteq 1..(top \div 2)
  <2>1. ASSUME NEW i \in PagesIn(base, len) PROVE i \in 1..(top \div 2)
    <3>1. i \in Int /\ base \div 2 + 1 <= i /\ i <= (base + len - 1) \div 2 + 1
      BY <1>1, <1>2, <1>5, <2>1
    <3> QED
      BY <1>2, <1>3, <1>5, <3>1
  <2> QED
    BY <2>1
<1>7. ASSUME NEW p \in Nat, p % 2 = 0, p <= base, NEW i \in PagesIn(base, len) PROVE i > p \div 2
  BY <1>1, <1>2, <1>4, <1>5, <1>7
<1> QED
  BY <1>6, <1>7

(* What is demanded of the memory lies in areas. *)
LEMMA DemandFits ==
  ASSUME NEW md, LayoutOK(md), NEW top \in Nat, \A i \in Items(md) : Hi(md, i) <= top,
         NEW d \in Demands(md)
  PROVE  d[1] \in Nat /\ d[2] \in Nat \ {0} /\ d[1] + d[2] <= top
<1>1. CASE \E s \in DOMAIN md.shared : d = <<md.shared[s], s.len, s.key>>
  <2>1. PICK s \in DOMAIN md.shared : d = <<md.shared[s], s.len, s.key>>
    BY <1>1
  <2>2. <<"shared", s>> \in Items(md)
    BY DEF Items
  <2>3. Hi(md, <<"shared", s>>) = md.shared[s] - s.rem + RoundUp(s.rem + s.len)
    BY ItemBounds
  <2>4. md.shared[s] \in Nat /\ s \in Segments
    BY DEF LayoutOK
  <2>5. s.rem \in Nat /\ s.len \in Nat \ {0} /\ RoundUp(s.rem + s.len) \in Nat /\ s.rem + s.len <= RoundUp(s.rem + s.len)
    BY <2>4, SegmentTypes, RoundUps
  <2>6. Hi(md, <<"shared", s>>) <= top
    BY <2>2
  <2> QED
    BY <2>1, <2>3, <2>4, <2>5, <2>6
<1>2. CASE \E a \in {b \in md.own : b.kind # "file"} : d = <<a.base, a.len, "anonymous">>
  <2>1. PICK a \in md.own : d = <<a.base, a.len, "anonymous">>
    BY <1>2
  <2>2. <<"own", a>> \in Items(md)
    BY DEF Items
  <2>3. Hi(md, <<"own", a>>) = a.base + RoundUp(a.len)
    BY ItemBounds
  <2>4. a.base \in Nat /\ a.len \in Nat \ {0}
    BY DEF LayoutOK, Area
  <2>5. RoundUp(a.len) \in Nat /\ a.len <= RoundUp(a.len)
    BY <2>4, RoundUps
  <2>6. Hi(md, <<"own", a>>) <= top
    BY <2>2
  <2> QED
    BY <2>1, <2>3, <2>4, <2>5, <2>6
<1>3. CASE \E t \in Range(md.stacks) : d = <<t - StackSize + 1, StackSize, "anonymous">>
  <2>1. PICK t \in Range(md.stacks) : d = <<t - StackSize + 1, StackSize, "anonymous">>
    BY <1>3
  <2>2. PICK i \in DOMAIN md.stacks : t = md.stacks[i]
    BY DEF Range
  <2>3. <<"stack", i>> \in Items(md)
    BY DEF Items
  <2>4. Hi(md, <<"stack", i>>) = t + 1 + GuardSize /\ Lo(md, <<"stack", i>>) = t - StackSize + 1 - GuardSize
    BY <2>2, ItemBounds
  <2>5. t \in Nat /\ Hi(md, <<"stack", i>>) <= top /\ Lo(md, <<"stack", i>>) \in Nat
    BY <2>2, <2>3 DEF LayoutOK, Placed, Bounds
  <2> QED
    BY <2>1, <2>4, <2>5, Sizes
<1> QED
  BY <1>1, <1>2, <1>3 DEF Demands

(* Space at the top of a memory, from p on, that nothing is placed in yet. *)
Room(md, p) ==
  /\ p \in Nat /\ p % 2 = 0 /\ p < md.brk
  /\ \A i \in Items(md) : Hi(md, i) <= p
  /\ \A i \in DOMAIN md.mem : i > p \div 2 => md.mem[i].by = "anonymous"
LayoutTypes(x) ==
  /\ x.own \subseteq Area /\ IsSeq(x.dyn)
  /\ IsSeq(x.stacks) /\ \A i \in DOMAIN x.stacks : x.stacks[i] \in Nat
  /\ \A s \in DOMAIN x.shared : s \in Segments /\ x.shared[s] \in Nat
SameBy(md, x, p) ==
  /\ DOMAIN x.mem = DOMAIN md.mem
  /\ \A i \in DOMAIN md.mem : i <= p \div 2 \/ i > md.brk \div 2 => x.mem[i].by = md.mem[i].by
Backing(x, D) == \A d \in D : BackedBy(x, d[1], d[2], d[3])

LEMMA BackSame ==
  ASSUME NEW md, SpaceOK(md), NEW top \in Nat, top % 2 = 0, top <= md.brk, \A i \in Items(md) : Hi(md, i) <= top,
         NEW x, \A i \in DOMAIN md.mem : i <= top \div 2 => x.mem[i].by = md.mem[i].by
  PROVE  Backing(x, Demands(md))
<1> SUFFICES ASSUME NEW d \in Demands(md) PROVE BackedBy(x, d[1], d[2], d[3])
  BY DEF Backing
<1>1. d[1] \in Nat /\ d[2] \in Nat \ {0} /\ d[1] + d[2] <= top
  BY DemandFits DEF SpaceOK
<1>2. PagesIn(d[1], d[2]) \subseteq 1..(top \div 2)
  BY <1>1, PagesBelow
<1>3. BackedBy(md, d[1], d[2], d[3])
  BY DEF SpaceOK, BackOK
<1>4. top \div 2 \in Nat /\ top \div 2 <= Len(md.mem) /\ DOMAIN md.mem = 1..Len(md.mem) /\ Len(md.mem) \in Nat
  <2>1. top <= 2 * Len(md.mem) /\ DOMAIN md.mem = 1..Len(md.mem) /\ Len(md.mem) \in Nat
    BY MemoryTypes DEF SpaceOK
  <2> QED
    BY <2>1
<1>5. \A i \in 1..(top \div 2) : i \in DOMAIN md.mem /\ i <= top \div 2
  BY <1>4
<1> QED
  BY <1>2, <1>3, <1>5 DEF BackedBy

LEMMA Place ==
  ASSUME NEW md, SpaceOK(md), NEW p, Room(md, p),
         NEW x, MemoryOK(x), LayoutTypes(x), x.brk = md.brk, Stays(md, x), SameBy(md, x, p),
         NEW new, Items(x) \subseteq Items(md) \cup {new},
         Lo(x, new) \in Nat, Hi(x, new) \in Nat, Lo(x, new) % 2 = 0,
         p <= Lo(x, new), Lo(x, new) < Hi(x, new), Hi(x, new) <= x.brk,
         NEW D, Demands(x) \subseteq Demands(md) \cup D, Backing(x, D)
  PROVE  SpaceOK(x)
<1>1. md.brk \in Nat /\ md.brk % 2 = 0
  BY MemoryTypes DEF SpaceOK
<1>2. Placed(x)
  BY <1>1, PlaceOne DEF SpaceOK, LayoutOK, Room
<1>3. LayoutOK(x)
  BY <1>2 DEF LayoutOK, LayoutTypes
<1>4. Backing(x, Demands(md))
  BY <1>1, BackSame DEF Room, SameBy
<1>5. \A i \in DOMAIN x.mem : i > x.brk \div 2 => x.mem[i].by = "anonymous"
  BY DEF SpaceOK, BackOK, SameBy
<1> QED
  BY <1>3, <1>4, <1>5 DEF SpaceOK, BackOK, Backing

(* Memory that grew has room at its top.                                   *)
LEMMA GrowRoom ==
  ASSUME NEW md, SpaceOK(md), NEW n \in Nat \ {0}, NEW r, Grown(md, n, r)
  PROVE  SpaceOK(r.md) /\ Room(r.md, r.ptr)
<1>1. /\ md.brk \in Nat /\ md.brk % 2 = 0 /\ md.brk <= r.md.brk /\ r.md.brk \in Nat /\ r.ptr < r.md.brk
      /\ r.ptr \in Nat /\ r.ptr % 2 = 0 /\ md.brk <= r.ptr
  BY MemoryTypes, SMTT(30) DEF SpaceOK, Grown
<1>2. /\ r.md.own = md.own /\ r.md.stacks = md.stacks /\ r.md.dyn = md.dyn /\ r.md.shared = md.shared
      /\ MemoryOK(r.md)
  BY DEF Grown, Only, Fields
<1>3. Items(r.md) = Items(md) /\ Stays(md, r.md) /\ Demands(r.md) = Demands(md)
  BY <1>2 DEF Items, Stays, Demands
<1>4. Placed(r.md)
  BY <1>1, <1>3, PlaceNone DEF SpaceOK, LayoutOK
<1>5. LayoutOK(r.md)
  BY <1>2, <1>4 DEF SpaceOK, LayoutOK
<1>6. \A i \in Items(md) : Hi(md, i) <= md.brk
  BY DEF SpaceOK, LayoutOK, Placed
<1>7. Backing(r.md, Demands(md))
  <2>1. \A i \in DOMAIN md.mem : r.md.mem[i].by = md.mem[i].by
    BY DEF Grown
  <2> QED
    BY <1>1, <1>6, <2>1, BackSame
<1>8. \A i \in DOMAIN r.md.mem : i > md.brk \div 2 => r.md.mem[i].by = "anonymous"
  <2>1. ZeroPage.by = "anonymous"
    BY DEF ZeroPage
  <2>2. \A i \in DOMAIN md.mem : i > md.brk \div 2 => md.mem[i].by = "anonymous"
    BY DEF SpaceOK, BackOK
  <2> QED
    BY <2>1, <2>2 DEF Grown
<1>9. md.brk \div 2 \in Nat /\ md.brk \div 2 <= r.ptr \div 2 /\ r.ptr \div 2 <= r.md.brk \div 2 /\ r.md.brk \div 2 \in Nat
  <2>1. \A a, b \in Nat : a <= b => a \div 2 \in Nat /\ a \div 2 <= b \div 2 /\ b \div 2 \in Nat
    OBVIOUS
  <2> QED
    BY <1>1, <2>1
<1>10. \A i \in DOMAIN r.md.mem : i \in Nat
  BY <1>2, MemoryTypes
<1>11. \A i \in DOMAIN r.md.mem : i > r.md.brk \div 2 \/ i > r.ptr \div 2 => i > md.brk \div 2
  <2>1. r.ptr \div 2 \in Nat
    BY <1>1
  <2> QED
    BY <1>9, <1>10, <2>1
<1>12. SpaceOK(r.md)
  BY <1>2, <1>3, <1>5, <1>7, <1>8, <1>11 DEF SpaceOK, BackOK, Backing
<1>13. \A i \in Items(r.md) : Hi(r.md, i) <= r.ptr
  <2> TAKE i \in Items(r.md)
  <2>1. Hi(r.md, i) = Hi(md, i) /\ Hi(md, i) <= md.brk /\ Bounds(md, i)
    BY <1>3, <1>6, SameBounds DEF SpaceOK, LayoutOK, Placed
  <2> QED
    BY <1>1, <2>1 DEF Bounds
<1> QED
  BY <1>1, <1>8, <1>11, <1>12, <1>13 DEF Room

-----------------------------------------------------------------------------
(* What is allocated and mapped.                                           *)
LEMMA SpaceTypes ==
  ASSUME NEW md, SpaceOK(md)
  PROVE  /\ IsModule(md) /\ MemoryOK(md) /\ LayoutTypes(md) /\ Stays(md, md) /\ \A p : SameBy(md, md, p)
         /\ md.brk \in Nat /\ md.brk % 2 = 0
BY MemoryTypes DEF SpaceOK, LayoutOK, LayoutTypes, Stays, SameBy

LEMMA OwnFrame ==
  ASSUME NEW md, IsModule(md), NEW base, NEW len, NEW kind
  PROVE  /\ Only(md, Own(md, base, len, kind), {"own"})
         /\ Own(md, base, len, kind).own = md.own \cup {[base |-> base, len |-> len, kind |-> kind]}
BY DEF Only, IsModule, Fields, Own
LEMMA RemapFrame ==
  ASSUME NEW md, IsModule(md), NEW base, NEW len, NEW by
  PROVE  /\ Only(md, Remap(md, base, len, by), {"mem"})
         /\ Remap(md, base, len, by).mem = [i \in DOMAIN md.mem |->
              IF i \in PagesIn(base, len) THEN [md.mem[i] EXCEPT !.by = by, !.c = MappedC] ELSE md.mem[i]]
BY DEF Only, IsModule, Fields, Remap
LEMMA SameMemory ==
  ASSUME NEW md, MemoryOK(md), NEW x, IsModule(x), x.mem = md.mem, x.brk = md.brk
  PROVE  MemoryOK(x)
BY DEF MemoryOK, BreakOK, Bytes
LEMMA Repaged ==
  ASSUME NEW md, MemoryOK(md), NEW x, IsModule(x), x.brk = md.brk, NEW e,
         x.mem = [i \in DOMAIN md.mem |-> e[i]], \A i \in DOMAIN md.mem : IsPage(e[i])
  PROVE  MemoryOK(x) /\ Len(x.mem) = Len(md.mem) /\ DOMAIN x.mem = DOMAIN md.mem
<1>1. /\ md.brk \in Nat /\ md.brk % 2 = 0 /\ md.brk <= 2 * Len(md.mem) /\ Len(md.mem) <= MaxPages
      /\ Len(md.mem) \in Nat /\ DOMAIN md.mem = 1..Len(md.mem)
  BY MemoryTypes
<1>2. x.mem = [i \in 1..Len(md.mem) |-> x.mem[i]]
  BY <1>1
<1>3. IsSeq(x.mem) /\ Len(x.mem) = Len(md.mem)
  BY <1>1, <1>2, MadeSeq
<1>4. DOMAIN x.mem = DOMAIN md.mem /\ \A i \in DOMAIN x.mem : IsPage(x.mem[i])
  OBVIOUS
<1> QED
  BY <1>1, <1>3, <1>4, IsMemory
LEMMA RemapMemory ==
  ASSUME NEW md, MemoryOK(md), NEW base, NEW len, NEW by
  PROVE  /\ MemoryOK(Remap(md, base, len, by)) /\ DOMAIN Remap(md, base, len, by).mem = DOMAIN md.mem
         /\ \A i \in DOMAIN md.mem :
              Remap(md, base, len, by).mem[i].by = IF i \in PagesIn(base, len) THEN by ELSE md.mem[i].by
<1> DEFINE x == Remap(md, base, len, by)
           e == [i \in DOMAIN md.mem |->
                   IF i \in PagesIn(base, len) THEN [md.mem[i] EXCEPT !.by = by, !.c = MappedC] ELSE md.mem[i]]
<1>1. IsModule(x) /\ x.brk = md.brk /\ x.mem = e
  <2>1. IsModule(md)
    BY DEF MemoryOK
  <2>2. Only(md, x, {"mem"})
    BY <2>1, RemapFrame
  <2>3. x.mem = e
    BY <2>1 DEF Remap, IsModule, Fields
  <2> HIDE DEF x, e
  <2> QED
    BY <2>2, <2>3 DEF Only, Fields
<1>2. ASSUME NEW i \in DOMAIN md.mem
      PROVE  IsPage(e[i]) /\ e[i].by = IF i \in PagesIn(base, len) THEN by ELSE md.mem[i].by
  <2>1. ASSUME NEW q, IsPage(q), NEW c
        PROVE  IsPage([q EXCEPT !.by = by, !.c = c]) /\ [q EXCEPT !.by = by, !.c = c].by = by
    BY <2>1 DEF IsPage
  <2>2. IsPage(md.mem[i])
    BY DEF MemoryOK
  <2>3. e[i] = IF i \in PagesIn(base, len) THEN [md.mem[i] EXCEPT !.by = by, !.c = MappedC] ELSE md.mem[i]
    OBVIOUS
  <2> HIDE DEF e
  <2>4. CASE i \in PagesIn(base, len)
    <3>1. e[i] = [md.mem[i] EXCEPT !.by = by, !.c = MappedC]
      BY <2>3, <2>4
    <3>2. PICK q : q = md.mem[i]
      OBVIOUS
    <3>3. IsPage([q EXCEPT !.by = by, !.c = MappedC]) /\ [q EXCEPT !.by = by, !.c = MappedC].by = by
      BY <2>1, <2>2, <3>2
    <3> QED
      BY <2>4, <3>1, <3>2, <3>3
  <2>5. CASE i \notin PagesIn(base, len)
    BY <2>2, <2>3, <2>5
  <2> QED
    BY <2>4, <2>5
<1>3. x.mem = [i \in DOMAIN md.mem |-> e[i]]
  BY <1>1
<1> HIDE DEF x, e
<1>4. MemoryOK(x) /\ DOMAIN x.mem = DOMAIN md.mem
  BY <1>1, <1>2, <1>3, Repaged
<1> QED
  BY <1>1, <1>2, <1>4 DEF x

(* An area of the program, in room at the top. *)
LEMMA OwnSpace ==
  ASSUME NEW md, SpaceOK(md), NEW p, Room(md, p), NEW y, MemoryOK(y), Only(md, y, {"mem"}), SameBy(md, y, p),
         NEW len \in Nat \ {0}, p + RoundUp(len) <= md.brk, NEW kind \in {"heap", "mmap", "file"},
         kind # "file" => y.mem = md.mem
  PROVE  SpaceOK(Own(y, p, len, kind))
<1> DEFINE a == [base |-> p, len |-> len, kind |-> kind]
           x == Own(y, p, len, kind)
           D == IF kind = "file" THEN {} ELSE {<<p, len, "anonymous">>}
<1>1. IsModule(y) /\ Only(y, x, {"own"}) /\ x.own = y.own \cup {a}
  BY OwnFrame DEF Only
<1>2. /\ y.own = md.own /\ y.stacks = md.stacks /\ y.dyn = md.dyn /\ y.shared = md.shared /\ y.brk = md.brk
  BY DEF Only, Fields
<1>3. /\ x.own = md.own \cup {a} /\ x.stacks = md.stacks /\ x.dyn = md.dyn /\ x.shared = md.shared
      /\ x.brk = md.brk /\ x.mem = y.mem /\ IsModule(x)
  BY <1>1, <1>2 DEF Only, Fields
<1> HIDE DEF x
<1>4. MemoryOK(x)
  BY <1>2, <1>3, SameMemory
<1>5. p \in Nat /\ p % 2 = 0 /\ RoundUp(len) \in Nat \ {0} /\ len <= RoundUp(len) /\ md.brk \in Nat /\ md.brk % 2 = 0
  BY RoundUps, SpaceTypes DEF Room
<1>6. a \in Area /\ a.base = p /\ a.len = len /\ a.kind = kind
  BY <1>5 DEF Area
<1>7. LayoutTypes(x)
  BY <1>3, <1>6, SpaceTypes DEF LayoutTypes
<1>8. Stays(md, x) /\ SameBy(md, x, p)
  BY <1>3 DEF Stays, SameBy
<1>9. Items(x) \subseteq Items(md) \cup {<<"own", a>>}
  BY <1>3 DEF Items
<1>10. Lo(x, <<"own", a>>) = p /\ Hi(x, <<"own", a>>) = p + RoundUp(len)
  BY <1>6, ItemBounds
<1>11. Demands(x) \subseteq Demands(md) \cup D
  <2>1. {b \in x.own : b.kind # "file"} \subseteq {b \in md.own : b.kind # "file"} \cup (IF kind = "file" THEN {} ELSE {a})
    BY <1>3, <1>6
  <2>2. ASSUME NEW d \in Demands(x) PROVE d \in Demands(md) \cup D
    <3>1. CASE d \in {<<x.shared[s], s.len, s.key>> : s \in DOMAIN x.shared}
      BY <1>3, <3>1 DEF Demands
    <3>2. CASE d \in {<<t - StackSize + 1, StackSize, "anonymous">> : t \in Range(x.stacks)}
      BY <1>3, <3>2 DEF Demands
    <3>3. CASE \E b \in {b \in x.own : b.kind # "file"} : d = <<b.base, b.len, "anonymous">>
      <4>1. PICK b \in {b \in x.own : b.kind # "file"} : d = <<b.base, b.len, "anonymous">>
        BY <3>3
      <4>2. CASE b \in {c \in md.own : c.kind # "file"}
        BY <4>1, <4>2 DEF Demands
      <4>3. CASE kind # "file" /\ b = a
        BY <1>6, <4>1, <4>3
      <4> QED
        BY <2>1, <4>2, <4>3
    <3> QED
      BY <2>2, <3>1, <3>2, <3>3 DEF Demands
  <2> QED
    BY <2>2
<1>12. Backing(x, D)
  <2>1. CASE kind = "file"
    BY <2>1 DEF Backing
  <2>2. CASE kind # "file"
    <3>1. PagesIn(p, len) \subseteq 1..(md.brk \div 2) /\ \A i \in PagesIn(p, len) : i > p \div 2
      BY <1>5, PagesBelow
    <3>2. 1..(md.brk \div 2) \subseteq DOMAIN md.mem
      <4>1. md.brk <= 2 * Len(md.mem) /\ Len(md.mem) \in Nat /\ DOMAIN md.mem = 1..Len(md.mem)
        BY MemoryTypes DEF SpaceOK
      <4>2. md.brk \div 2 <= Len(md.mem) /\ md.brk \div 2 \in Nat
        BY <1>5, <4>1
      <4> QED
        BY <4>1, <4>2
    <3>3. BackedBy(x, p, len, "anonymous")
      BY <1>3, <2>2, <3>1, <3>2 DEF BackedBy, Room
    <3> QED
      BY <2>2, <3>3 DEF Backing
  <2> QED
    BY <2>1, <2>2
<1> HIDE DEF a, D
<1>13. p + RoundUp(len) \in Nat /\ p < p + RoundUp(len)
  BY <1>5
<1>14. SpaceOK(x)
  BY <1>3, <1>4, <1>5, <1>7, <1>8, <1>9, <1>10, <1>11, <1>12, <1>13, Place
<1> QED
  BY <1>14 DEF x

(* Nothing new is placed, and no page changes hands. *)
LEMMA Touch ==
  ASSUME NEW md, SpaceOK(md), NEW x, MemoryOK(x), LayoutTypes(x), x.brk = md.brk, Stays(md, x),
         Items(x) \subseteq Items(md), Demands(x) \subseteq Demands(md), DOMAIN x.mem = DOMAIN md.mem,
         \A i \in DOMAIN md.mem : x.mem[i].by = md.mem[i].by
  PROVE  SpaceOK(x)
<1>1. md.brk \in Nat /\ md.brk % 2 = 0
  BY SpaceTypes
<1>2. Placed(x)
  BY <1>1, PlaceNone DEF SpaceOK, LayoutOK
<1>3. \A i \in Items(md) : Hi(md, i) <= md.brk
  BY DEF SpaceOK, LayoutOK, Placed
<1>4. Backing(x, Demands(md))
  BY <1>1, <1>3, BackSame
<1> QED
  BY <1>2, <1>4 DEF SpaceOK, LayoutOK, LayoutTypes, BackOK, Backing
LEMMA SameSpace ==
  ASSUME NEW md, SpaceOK(md), NEW x, MemoryOK(x), x.brk = md.brk, x.own \subseteq md.own,
         x.stacks = md.stacks, x.dyn = md.dyn, x.shared = md.shared, DOMAIN x.mem = DOMAIN md.mem,
         \A i \in DOMAIN md.mem : x.mem[i].by = md.mem[i].by
  PROVE  SpaceOK(x)
<1>1. LayoutTypes(x)
  BY SpaceTypes DEF LayoutTypes
<1>2. Stays(md, x)
  BY DEF Stays
<1>3. Items(x) \subseteq Items(md)
  BY DEF Items
<1>4. Demands(x) \subseteq Demands(md)
  BY DEF Demands
<1> QED
  BY <1>1, <1>2, <1>3, <1>4, Touch

LEMMA RoundEven ==
  ASSUME NEW n \in Nat \ {0}
  PROVE  n % 2 = 0 => RoundUp(n) = n
<1>1. RoundUp(n) \in Nat /\ RoundUp(n) % 2 = 0 /\ n <= RoundUp(n) /\ RoundUp(n) <= n + 1
  BY RoundUps
<1> QED
  BY <1>1

(* sbrk and mmap: an area at the end of the memory. *)
LEMMA ClaimSpace ==
  ASSUME NEW md, SpaceOK(md), NEW n \in Nat \ {0}, NEW len \in Nat \ {0}, n % 2 = 0 => RoundUp(len) <= n,
         NEW kind \in {"heap", "mmap"}, NEW r, r = Claimed(GrowMemory(md, n), len, kind)
  PROVE  r.ok \in BOOLEAN /\ (r.ok => SpaceOK(r.md) /\ Only(md, r.md, {"mem", "brk", "own"}))
<1> DEFINE g == GrowMemory(md, n)
<1>1. g.ok \in BOOLEAN /\ (g.ok => n % 2 = 0 /\ Grown(md, n, g))
  BY GrowOk, SpaceTypes
<1>2. CASE ~g.ok
  <2>1. r = g
    BY <1>2, Zenon DEF Claimed, Then
  <2> HIDE DEF g
  <2> QED
    BY <1>1, <1>2, <2>1, Zenon
<1>3. CASE g.ok
  <2>1. r = Done(Own(g.md, g.ptr, len, kind), g.ptr)
    BY <1>3, Zenon DEF Claimed, Then
  <2>2. r.ok = TRUE /\ r.md = Own(g.md, g.ptr, len, kind)
    BY <2>1 DEF Done
  <2> HIDE DEF g
  <2>3. SpaceOK(g.md) /\ Room(g.md, g.ptr) /\ MemoryOK(g.md) /\ Only(md, g.md, {"mem", "brk"}) /\ IsModule(g.md)
    BY <1>1, <1>3, GrowRoom DEF Grown, Only
  <2>4. Only(g.md, g.md, {"mem"}) /\ SameBy(g.md, g.md, g.ptr)
    BY <2>3 DEF Only, SameBy
  <2>5. g.ptr + RoundUp(len) <= g.md.brk
    <3>1. g.ptr \in Nat /\ g.md.brk = g.ptr + n /\ RoundUp(len) \in Nat /\ RoundUp(len) <= n
      BY <1>1, <1>3, RoundUps DEF Grown
    <3> QED
      BY <3>1
  <2>6. SpaceOK(r.md)
    BY <2>2, <2>3, <2>4, <2>5, OwnSpace
  <2>7. Only(g.md, r.md, {"own"})
    BY <2>2, <2>3, OwnFrame
  <2> QED
    BY <2>2, <2>3, <2>6, <2>7 DEF Only
<1> QED
  BY <1>1, <1>2, <1>3
LEMMA FileSpace ==
  ASSUME NEW md, SpaceOK(md), NEW r, r = MmapFd(md)
  PROVE  r.ok \in BOOLEAN /\ (r.ok => SpaceOK(r.md) /\ Only(md, r.md, {"mem", "brk", "own"}))
<1> DEFINE n == RoundUp(1)
           g == GrowMemory(md, n)
           m == MmapFile(md, 1)
<1>1. n \in Nat \ {0} /\ n % 2 = 0 /\ n >= 1
  BY RoundUps
<1>2. g.ok \in BOOLEAN /\ (g.ok => Grown(md, n, g))
  <2> HIDE DEF n
  <2> QED
    BY <1>1, GrowOk, SpaceTypes
<1>3. CASE ~g.ok
  <2>1. m = g
    BY <1>3 DEF MmapFile, MmapMemory, Then
  <2>2. r = g
    BY <1>3, <2>1 DEF MmapFd, Claimed, Then
  <2> HIDE DEF g, n
  <2> QED
    BY <1>2, <1>3, <2>2, Zenon
<1>4. CASE g.ok
  <2> DEFINE y == Remap(g.md, g.ptr, 1, "file")
  <2>1. m = Done(y, g.ptr)
    BY <1>4, Zenon DEF MmapFile, MmapMemory, Then
  <2>2. m.ok = TRUE /\ m.md = y /\ m.ptr = g.ptr
    BY <2>1 DEF Done
  <2>3. r = Done(Own(y, g.ptr, 1, "file"), g.ptr)
    BY <2>2, Zenon DEF MmapFd, Claimed, Then
  <2>4. r.ok = TRUE /\ r.md = Own(y, g.ptr, 1, "file")
    BY <2>3 DEF Done
  <2> HIDE DEF g, n
  <2>5. SpaceOK(g.md) /\ Room(g.md, g.ptr) /\ MemoryOK(g.md) /\ Only(md, g.md, {"mem", "brk"}) /\ IsModule(g.md)
    BY <1>1, <1>2, <1>4, GrowRoom DEF Grown, Only
  <2>6. /\ MemoryOK(y) /\ Only(g.md, y, {"mem"}) /\ DOMAIN y.mem = DOMAIN g.md.mem
        /\ \A i \in DOMAIN g.md.mem : y.mem[i].by = IF i \in PagesIn(g.ptr, 1) THEN "file" ELSE g.md.mem[i].by
    <3>1. Only(g.md, y, {"mem"})
      BY <2>5, RemapFrame
    <3>2. MemoryOK(y) /\ DOMAIN y.mem = DOMAIN g.md.mem
      BY <2>5, RemapMemory
    <3>3. \A i \in DOMAIN g.md.mem : y.mem[i].by = IF i \in PagesIn(g.ptr, 1) THEN "file" ELSE g.md.mem[i].by
      <4>1. MemoryOK(g.md)
        BY <2>5
      <4> QED
        BY <4>1, RemapMemory
    <3> QED
      BY <3>1, <3>2, <3>3, Zenon
  <2> HIDE DEF y
  <2>7. g.ptr \in Nat /\ g.ptr % 2 = 0 /\ g.md.brk = g.ptr + n /\ g.md.brk \in Nat /\ g.md.brk % 2 = 0 /\ g.ptr + 1 <= g.md.brk
    <3>1. g.ptr \in Nat /\ g.ptr % 2 = 0 /\ g.md.brk = g.ptr + n
      BY <1>2, <1>4 DEF Grown
    <3> QED
      BY <1>1, <2>5, <3>1, SpaceTypes
  <2>8. PagesIn(g.ptr, 1) \subseteq 1..(g.md.brk \div 2) /\ \A i \in PagesIn(g.ptr, 1) : i > g.ptr \div 2
    BY <2>7, PagesBelow
  <2>9. \A i \in PagesIn(g.ptr, 1) : ~(i <= g.ptr \div 2 \/ i > g.md.brk \div 2)
    <3>1. g.ptr \div 2 \in Nat /\ g.md.brk \div 2 \in Nat
      BY <2>7
    <3> QED
      BY <2>8, <3>1
  <2>10. SameBy(g.md, y, g.ptr)
    BY <2>6, <2>9 DEF SameBy
  <2>11. 1 \in Nat \ {0} /\ g.ptr + RoundUp(1) <= g.md.brk
    BY <1>1, <2>7 DEF n
  <2>12. SpaceOK(r.md)
    BY <2>4, <2>5, <2>6, <2>10, <2>11, OwnSpace
  <2>13. Only(y, r.md, {"own"})
    BY <2>4, <2>6, OwnFrame DEF Only
  <2> QED
    BY <2>4, <2>5, <2>6, <2>12, <2>13 DEF Only
<1> QED
  BY <1>2, <1>3, <1>4

(* An area is given back: the break moves down, or nothing happens. *)
Disown(md, a) == [md EXCEPT !.own = @ \ {a}]
LEMMA DisownFrame ==
  ASSUME NEW md, IsModule(md), NEW a
  PROVE  Only(md, Disown(md, a), {"own"}) /\ Disown(md, a).own = md.own \ {a}
BY DEF Only, IsModule, Fields, Disown
LEMMA ShrinkOk ==
  ASSUME NEW md, MemoryOK(md), NEW n \in Nat, NEW r, r = ShrinkMemory(md, n)
  PROVE  /\ r.ok \in BOOLEAN
         /\ r.ok => n % 2 = 0 /\ n <= md.brk /\ MemoryOK(r.md) /\ Only(md, r.md, {"brk"}) /\ r.md.brk = md.brk - n
         /\ n % 2 = 0 /\ n <= md.brk => r.ok
<1>0. md.brk \in Nat /\ IsModule(md)
  BY MemoryTypes
<1>1. CASE n % 2 # 0 \/ n > md.brk
  <2>1. r = Thrown(md)
    BY <1>1 DEF ShrinkMemory, PageSize
  <2> QED
    BY <1>0, <1>1, <2>1 DEF Thrown
<1>2. CASE n % 2 = 0 /\ ~(n > md.brk)
  <2>1. r = Done([md EXCEPT !.brk = @ - n], md.brk)
    BY <1>2 DEF ShrinkMemory, PageSize
  <2>2. r.ok = TRUE /\ r.md = [md EXCEPT !.brk = @ - n]
    BY <2>1 DEF Done
  <2>3. Only(md, r.md, {"brk"}) /\ r.md.brk = md.brk - n
    BY <1>0, <2>2 DEF Only, IsModule, Fields
  <2>4. md.brk - n \in Nat /\ md.brk - n <= md.brk
    BY <1>0, <1>2
  <2>5. (md.brk - n) % 2 = 0
    BY <1>0, <1>2, MemoryTypes, Evens
  <2>6. r.md.mem = md.mem /\ IsModule(r.md)
    BY <2>3 DEF Only, Fields
  <2>7. MemoryOK(r.md)
    <3>1. md.brk - n <= 2 * Len(md.mem)
      BY <2>4, MemoryTypes
    <3>2. \A i \in DOMAIN md.mem : IsPage(md.mem[i])
      BY DEF MemoryOK
    <3> QED
      BY <2>3, <2>4, <2>5, <2>6, <3>1, <3>2, MemoryTypes, IsMemory
  <2>8. n <= md.brk
    BY <1>0, <1>2
  <2>9. r.ok \in BOOLEAN /\ r.ok
    BY <2>2
  <2> QED
    BY <1>2, <2>3, <2>7, <2>8, <2>9, Zenon
<1> QED
  BY <1>0, <1>1, <1>2
LEMMA FreeSpace ==
  ASSUME NEW md, SpaceOK(md), NEW a \in md.own, a.kind # "file", a.base + RoundUp(a.len) = md.brk,
         NEW x, MemoryOK(x), Only(md, x, {"own", "brk"}), x.own = md.own \ {a}, x.brk = a.base
  PROVE  SpaceOK(x)
<1>1. a.base \in Nat /\ a.len \in Nat \ {0} /\ RoundUp(a.len) \in Nat /\ a.len <= RoundUp(a.len)
  BY RoundUps DEF SpaceOK, LayoutOK, Area
<1>2. /\ x.stacks = md.stacks /\ x.dyn = md.dyn /\ x.shared = md.shared /\ x.mem = md.mem
      /\ md.brk \in Nat /\ md.brk % 2 = 0
  BY SpaceTypes DEF Only, Fields
<1>3. <<"own", a>> \in Items(md) /\ Lo(md, <<"own", a>>) = a.base /\ Hi(md, <<"own", a>>) = md.brk
  BY ItemBounds DEF Items
<1>4. Items(x) \subseteq Items(md) \ {<<"own", a>>}
  BY <1>2 DEF Items
<1>5. Stays(md, x)
  BY <1>2 DEF Stays
<1>6. Placed(x)
  BY <1>2, <1>3, <1>4, <1>5, DropLast DEF SpaceOK, LayoutOK
<1>7. LayoutOK(x)
  BY <1>2, <1>6 DEF SpaceOK, LayoutOK
<1>8. Demands(x) \subseteq Demands(md)
  BY <1>2 DEF Demands
<1>9. \A i \in DOMAIN x.mem : i > x.brk \div 2 => x.mem[i].by = "anonymous"
  <2> SUFFICES ASSUME NEW i \in DOMAIN md.mem, i > a.base \div 2 PROVE md.mem[i].by = "anonymous"
    BY <1>2
  <2>1. CASE i > md.brk \div 2
    BY <2>1 DEF SpaceOK, BackOK
  <2>2. CASE ~(i > md.brk \div 2)
    <3>1. i \in PagesIn(a.base, a.len)
      <4>1. a.base % 2 = 0
        BY <1>3 DEF SpaceOK, LayoutOK, Placed, Bounds
      <4>2. RoundUp(a.len) % 2 = 0 /\ RoundUp(a.len) <= a.len + 1
        BY <1>1, RoundUps
      <4>3. i \in Nat
        BY MemoryTypes DEF SpaceOK
      <4>4. PagesIn(a.base, a.len) = (a.base \div 2 + 1)..((a.base + a.len - 1) \div 2 + 1)
        BY DEF PagesIn, PageSize
      <4>5. md.brk \div 2 <= (a.base + a.len - 1) \div 2 + 1
        <5>1. md.brk <= a.base + a.len + 1
          BY <1>1, <4>2
        <5> QED
          BY <1>1, <1>2, <5>1
      <4>6. a.base \div 2 \in Nat /\ md.brk \div 2 \in Nat /\ (a.base + a.len - 1) \div 2 \in Nat
        BY <1>1, <1>2
      <4> QED
        BY <2>2, <4>3, <4>4, <4>5, <4>6
    <3>2. <<a.base, a.len, "anonymous">> \in Demands(md)
      BY DEF Demands
    <3> QED
      BY <3>1, <3>2 DEF SpaceOK, BackOK, BackedBy
  <2> QED
    BY <2>1, <2>2
<1>10. \A d \in Demands(x) : BackedBy(x, d[1], d[2], d[3])
  BY <1>2, <1>8 DEF SpaceOK, BackOK, BackedBy
<1> QED
  BY <1>7, <1>9, <1>10 DEF SpaceOK, BackOK

(* State is mapped where its pointer says. *)
LEMMA Merged ==
  ASSUME NEW map, NEW k, NEW v
  PROVE  /\ DOMAIN Insert(map, Entry(k, v)) = DOMAIN map \cup {k}
         /\ \A x \in DOMAIN map : Insert(map, Entry(k, v))[x] = map[x]
         /\ k \notin DOMAIN map => Insert(map, Entry(k, v))[k] = v
BY DEF Insert, Entry
Share(md, seg, ptr) == [md EXCEPT !.shared = Insert(@, Entry(seg, ptr))]
LEMMA ShareFrame ==
  ASSUME NEW md, IsModule(md), NEW seg, NEW ptr
  PROVE  /\ Only(md, Share(md, seg, ptr), {"shared"})
         /\ Share(md, seg, ptr).shared = Insert(md.shared, Entry(seg, ptr))
BY DEF Only, IsModule, Fields, Share
LEMMA SharedSpace ==
  ASSUME NEW md, SpaceOK(md), NEW seg \in Segments, NEW r, r = MapSharedStateMemory(md, seg)
  PROVE  r.ok \in BOOLEAN /\ (r.ok => SpaceOK(r.md) /\ Only(md, r.md, {"mem", "brk", "shared"}))
<1> DEFINE len == seg.rem + seg.len
           n == RoundUp(len)
           g == GrowMemory(md, n)
<1>1. /\ seg.rem \in Nat /\ seg.rem <= 1 /\ seg.len \in Nat \ {0} /\ len \in Nat \ {0}
      /\ n \in Nat \ {0} /\ n % 2 = 0 /\ len <= n
  BY SegmentTypes, RoundUps
<1>2. CASE seg \in DOMAIN md.shared
  <2>1. r = Done(md, md.shared[seg])
    BY <1>2 DEF MapSharedStateMemory, MapSegment
  <2>2. r.ok = TRUE /\ r.md = md
    BY <2>1 DEF Done
  <2>3. Only(md, md, {"mem", "brk", "shared"})
    BY SpaceTypes DEF Only
  <2> QED
    BY <2>2, <2>3
<1>3. g.ok \in BOOLEAN /\ (g.ok => Grown(md, n, g))
  <2> HIDE DEF n
  <2> QED
    BY <1>1, GrowOk, SpaceTypes
<1>4. CASE seg \notin DOMAIN md.shared /\ ~g.ok
  <2>1. r = g
    BY <1>4, Zenon DEF MapSharedStateMemory, MapSegment, Then
  <2> HIDE DEF g, n
  <2> QED
    BY <1>3, <1>4, <2>1, Zenon
<1>5. CASE seg \notin DOMAIN md.shared /\ g.ok
  <2> DEFINE y == Remap(g.md, g.ptr, len, seg.key)
             x == Share(y, seg, g.ptr + seg.rem)
             new == <<"shared", seg>>
             D == {<<g.ptr + seg.rem, seg.len, seg.key>>}
  <2>1. r = Done(x, g.ptr + seg.rem)
    BY <1>5, Zenon DEF MapSharedStateMemory, MapSegment, Then, Share
  <2>2. r.ok = TRUE /\ r.md = x
    BY <2>1 DEF Done
  <2> HIDE DEF g, n
  <2>3. SpaceOK(g.md) /\ Room(g.md, g.ptr) /\ MemoryOK(g.md) /\ Only(md, g.md, {"mem", "brk"}) /\ IsModule(g.md)
    BY <1>1, <1>3, <1>5, GrowRoom DEF Grown, Only
  <2>4. Only(g.md, y, {"mem"}) /\ MemoryOK(y) /\ DOMAIN y.mem = DOMAIN g.md.mem
    <3>1. Only(g.md, y, {"mem"})
      BY <2>3, RemapFrame
    <3>2. MemoryOK(y) /\ DOMAIN y.mem = DOMAIN g.md.mem
      BY <2>3, RemapMemory
    <3> QED
      BY <3>1, <3>2
  <2>5. \A i \in DOMAIN g.md.mem : y.mem[i].by = IF i \in PagesIn(g.ptr, len) THEN seg.key ELSE g.md.mem[i].by
    <3>1. MemoryOK(g.md)
      BY <2>3
    <3> HIDE DEF len
    <3> QED
      BY <3>1, RemapMemory
  <2> HIDE DEF y
  <2>6. Only(y, x, {"shared"}) /\ x.shared = Insert(y.shared, Entry(seg, g.ptr + seg.rem))
    BY <2>4, ShareFrame DEF Only
  <2> HIDE DEF x
  <2>7. /\ g.md.shared = md.shared /\ x.own = g.md.own /\ x.stacks = g.md.stacks /\ x.dyn = g.md.dyn
        /\ x.brk = g.md.brk /\ x.mem = y.mem /\ IsModule(x) /\ y.brk = g.md.brk
        /\ x.shared = Insert(g.md.shared, Entry(seg, g.ptr + seg.rem))
    BY <2>3, <2>4, <2>6 DEF Only, Fields
  <2>8. /\ DOMAIN x.shared = DOMAIN g.md.shared \cup {seg}
        /\ \A s \in DOMAIN g.md.shared : x.shared[s] = g.md.shared[s]
        /\ x.shared[seg] = g.ptr + seg.rem
    <3>1. PICK v : v = g.ptr + seg.rem
      OBVIOUS
    <3>2. PICK map : map = g.md.shared
      OBVIOUS
    <3>3. x.shared = Insert(map, Entry(seg, v)) /\ seg \notin DOMAIN map
      BY <1>5, <2>7, <3>1, <3>2
    <3>4. /\ DOMAIN Insert(map, Entry(seg, v)) = DOMAIN map \cup {seg}
          /\ \A s \in DOMAIN map : Insert(map, Entry(seg, v))[s] = map[s]
          /\ Insert(map, Entry(seg, v))[seg] = v
      BY <3>3, Merged, ZenonT(60)
    <3>5. DOMAIN x.shared = DOMAIN map \cup {seg} /\ x.shared[seg] = v /\ \A s \in DOMAIN map : x.shared[s] = map[s]
      BY <3>3, <3>4
    <3> QED
      BY <3>1, <3>2, <3>5
  <2>9. /\ g.ptr \in Nat /\ g.ptr % 2 = 0 /\ g.md.brk = g.ptr + n /\ g.md.brk \in Nat /\ g.md.brk % 2 = 0
    <3>1. g.ptr \in Nat /\ g.ptr % 2 = 0 /\ g.md.brk = g.ptr + n
      BY <1>3, <1>5 DEF Grown
    <3> QED
      BY <2>3, <3>1, SpaceTypes
  <2>10. MemoryOK(x)
    BY <2>4, <2>7, SameMemory
  <2>11. LayoutTypes(x)
    <3>1. \A s \in DOMAIN x.shared : s \in Segments /\ x.shared[s] \in Nat
      BY <1>1, <2>3, <2>8, <2>9, SpaceTypes DEF LayoutTypes
    <3> QED
      BY <2>3, <2>7, <3>1, SpaceTypes DEF LayoutTypes
  <2>12. Stays(g.md, x)
    BY <2>7, <2>8 DEF Stays
  <2>13. g.ptr + len <= g.md.brk
    <3> HIDE DEF len
    <3> QED
      BY <1>1, <2>9
  <2>30. len \in Nat \ {0}
    BY <1>1
  <2>14. PagesIn(g.ptr, len) \subseteq 1..(g.md.brk \div 2) /\ \A i \in PagesIn(g.ptr, len) : i > g.ptr \div 2
    <3> HIDE DEF len
    <3> QED
      BY <2>9, <2>13, <2>30, PagesBelow
  <2>15. SameBy(g.md, x, g.ptr)
    <3>1. \A i \in PagesIn(g.ptr, len) : ~(i <= g.ptr \div 2 \/ i > g.md.brk \div 2)
      <4>1. g.ptr \div 2 \in Nat /\ g.md.brk \div 2 \in Nat
        BY <2>9
      <4> QED
        BY <2>14, <4>1
    <3> QED
      BY <2>4, <2>5, <2>7, <3>1 DEF SameBy
  <2>16. Items(x) \subseteq Items(g.md) \cup {new}
    BY <2>7, <2>8 DEF Items
  <2>17. Lo(x, new) = g.ptr /\ Hi(x, new) = g.md.brk
    <3>1. /\ Lo(x, new) = x.shared[seg] - seg.rem
          /\ Hi(x, new) = x.shared[seg] - seg.rem + RoundUp(seg.rem + seg.len)
      BY ItemBounds
    <3>2. RoundUp(seg.rem + seg.len) = n
      BY DEF n
    <3> QED
      BY <1>1, <2>8, <2>9, <3>1, <3>2
  <2>18. Demands(x) \subseteq Demands(g.md) \cup D
    <3>1. {<<x.shared[s], s.len, s.key>> : s \in DOMAIN x.shared} \subseteq
          {<<g.md.shared[s], s.len, s.key>> : s \in DOMAIN g.md.shared} \cup D
      BY <2>8
    <3> QED
      BY <2>7, <3>1 DEF Demands
  <2>19. Backing(x, D)
    <3>1. ASSUME NEW i \in PagesIn(g.ptr + seg.rem, seg.len) PROVE i \in PagesIn(g.ptr, len)
      <4>1. /\ PagesIn(g.ptr + seg.rem, seg.len)
                 = ((g.ptr + seg.rem) \div 2 + 1)..((g.ptr + seg.rem + seg.len - 1) \div 2 + 1)
            /\ PagesIn(g.ptr, len) = (g.ptr \div 2 + 1)..((g.ptr + len - 1) \div 2 + 1)
        BY DEF PagesIn, PageSize
      <4>2. g.ptr + seg.rem + seg.len - 1 = g.ptr + len - 1
        <5>1. g.ptr \in Nat /\ seg.rem \in Nat /\ seg.len \in Nat
          BY <1>1, <2>9
        <5> QED
          BY <5>1
      <4>3. g.ptr \div 2 \in Nat /\ (g.ptr + seg.rem) \div 2 \in Nat /\ g.ptr \div 2 <= (g.ptr + seg.rem) \div 2
        BY <1>1, <2>9
      <4>4. (g.ptr + len - 1) \div 2 \in Nat
        <5> HIDE DEF len
        <5> QED
          BY <1>1, <2>9
      <4> HIDE DEF len
      <4> QED
        BY <3>1, <4>1, <4>2, <4>3, <4>4
    <3>2. 1..(g.md.brk \div 2) \subseteq DOMAIN g.md.mem
      <4>1. g.md.brk <= 2 * Len(g.md.mem) /\ Len(g.md.mem) \in Nat /\ DOMAIN g.md.mem = 1..Len(g.md.mem)
        BY <2>3, MemoryTypes
      <4>2. g.md.brk \div 2 <= Len(g.md.mem) /\ g.md.brk \div 2 \in Nat
        BY <2>9, <4>1
      <4> QED
        BY <4>1, <4>2
    <3>3. \A i \in PagesIn(g.ptr, len) : x.mem[i].by = seg.key
      BY <2>5, <2>7, <2>14, <3>2
    <3>4. BackedBy(x, g.ptr + seg.rem, seg.len, seg.key)
      BY <3>1, <3>3 DEF BackedBy
    <3> QED
      BY <3>4 DEF Backing
  <2> HIDE DEF new, D, len
  <2>20. g.ptr < g.md.brk
    BY <1>1, <2>9
  <2>21. SpaceOK(x)
    BY <2>3, <2>7, <2>9, <2>10, <2>11, <2>12, <2>15, <2>16, <2>17, <2>18, <2>19, <2>20, Place
  <2>22. Only(md, x, {"mem", "brk", "shared"})
    BY <2>3, <2>4, <2>6 DEF Only
  <2> QED
    BY <2>2, <2>21, <2>22
<1> QED
  BY <1>2, <1>3, <1>4, <1>5

(* A store changes the contents of a page. *)
LEMMA StoreSpace ==
  ASSUME NEW md, SpaceOK(md), NEW base, NEW c
  PROVE  LET x == StoreAt(md, base, c) IN
         /\ SpaceOK(x) /\ Only(md, x, {"mem"}) /\ DOMAIN x.mem = DOMAIN md.mem
         /\ \A i \in DOMAIN md.mem : x.mem[i].by = md.mem[i].by
<1> DEFINE x == StoreAt(md, base, c)
           k == base \div PageSize + 1
           e == [i \in DOMAIN md.mem |-> IF i = k THEN [md.mem[i] EXCEPT !.c = c] ELSE md.mem[i]]
<1>1. IsModule(md) /\ MemoryOK(md) /\ IsSeq(md.mem)
  BY SpaceTypes, MemoryTypes
<1>2. Only(md, x, {"mem"}) /\ x.mem = [md.mem EXCEPT ![k].c = c]
  BY <1>1 DEF Only, IsModule, Fields, StoreAt
<1>3. x.mem = e
  <2>1. md.mem = [i \in DOMAIN md.mem |-> md.mem[i]]
    BY <1>1, SeqType
  <2> QED
    BY <1>2, <2>1
<1>4. ASSUME NEW i \in DOMAIN md.mem PROVE IsPage(e[i]) /\ e[i].by = md.mem[i].by
  <2>1. ASSUME NEW q, IsPage(q)
        PROVE  IsPage([q EXCEPT !.c = c]) /\ [q EXCEPT !.c = c].by = q.by
    BY <2>1 DEF IsPage
  <2>2. PICK q : q = md.mem[i] /\ IsPage(q)
    BY <1>1 DEF MemoryOK
  <2>3. IsPage([q EXCEPT !.c = c]) /\ [q EXCEPT !.c = c].by = q.by
    BY <2>1, <2>2
  <2>4. CASE i = k
    BY <2>2, <2>3, <2>4
  <2>5. CASE i # k
    BY <2>2, <2>5
  <2> QED
    BY <2>4, <2>5
<1> HIDE DEF x, e
<1>5. x.mem = [i \in DOMAIN md.mem |-> e[i]] /\ IsModule(x) /\ x.brk = md.brk
  <2>1. e = [i \in DOMAIN md.mem |-> e[i]]
    BY DEF e
  <2> QED
    BY <1>2, <1>3, <2>1 DEF Only, Fields
<1>6. MemoryOK(x) /\ Len(x.mem) = Len(md.mem) /\ DOMAIN x.mem = DOMAIN md.mem
  BY <1>1, <1>4, <1>5, Repaged
<1>7. x.own = md.own /\ x.stacks = md.stacks /\ x.dyn = md.dyn /\ x.shared = md.shared
  BY <1>2 DEF Only, Fields
<1>8. \A i \in DOMAIN md.mem : x.mem[i].by = md.mem[i].by
  BY <1>3, <1>4
<1>9. SpaceOK(x)
  BY <1>5, <1>6, <1>7, <1>8, SameSpace
<1> QED
  BY <1>2, <1>6, <1>8, <1>9 DEF x

(* A guard region changes who may touch a page, and nothing else. *)
LEMMA GuardFrame ==
  ASSUME NEW md, MemoryOK(md), NEW offset
  PROVE  LET x == CreateMemoryGuardRegion(md, offset) IN
         /\ Only(md, x, {"mem"}) /\ MemoryOK(x) /\ Len(x.mem) = Len(md.mem) /\ DOMAIN x.mem = DOMAIN md.mem
         /\ \A i \in DOMAIN md.mem : x.mem[i].by = md.mem[i].by
<1> DEFINE x == CreateMemoryGuardRegion(md, offset)
           e == [i \in DOMAIN md.mem |-> IF i \in PagesIn(offset, GuardSize) THEN [md.mem[i] EXCEPT !.guard = TRUE]
                                          ELSE md.mem[i]]
<1>1. IsModule(md)
  BY DEF MemoryOK
<1>2. ASSUME NEW m PROVE Only(md, [md EXCEPT !.mem = m], {"mem"}) /\ [md EXCEPT !.mem = m].mem = m
  BY <1>1 DEF Only, IsModule, Fields
<1>3. x = [md EXCEPT !.mem = e]
  BY Zenon DEF CreateMemoryGuardRegion
<1>4. ASSUME NEW i \in DOMAIN md.mem PROVE IsPage(e[i]) /\ e[i].by = md.mem[i].by
  <2> DEFINE G(q, t) == [q EXCEPT !.guard = t]
  <2>1. ASSUME NEW q, IsPage(q), NEW t
        PROVE  IsPage(G(q, t)) /\ G(q, t).by = q.by
    BY <2>1 DEF IsPage
  <2>2. IsPage(md.mem[i])
    BY DEF MemoryOK
  <2>3. CASE i \in PagesIn(offset, GuardSize)
    <3>1. e[i] = G(md.mem[i], TRUE)
      BY <2>3, Zenon
    <3> HIDE DEF e, G
    <3> QED
      BY <2>1, <2>2, <3>1, Zenon
  <2>4. CASE i \notin PagesIn(offset, GuardSize)
    <3>1. e[i] = md.mem[i]
      BY <2>4, Zenon
    <3> HIDE DEF e
    <3> QED
      BY <2>2, <3>1, Zenon
  <2> QED
    BY <2>3, <2>4
<1>5. e = [i \in DOMAIN md.mem |-> e[i]]
  BY Zenon
<1> HIDE DEF x, e
<1>6. Only(md, x, {"mem"}) /\ x.mem = e
  BY <1>2, <1>3
<1>7. IsModule(x) /\ x.brk = md.brk
  BY <1>6 DEF Only, Fields
<1>8. MemoryOK(x) /\ Len(x.mem) = Len(md.mem) /\ DOMAIN x.mem = DOMAIN md.mem
  BY <1>4, <1>5, <1>6, <1>7, Repaged
<1>9. \A i \in DOMAIN md.mem : x.mem[i].by = md.mem[i].by
  BY <1>4, <1>6
<1> QED
  BY <1>6, <1>8, <1>9 DEF x

(* A stack between its guard regions. *)
StackArea == StackSize + 2 * GuardSize
LEMMA StackSpace ==
  ASSUME NEW md, SpaceOK(md), Bytes(md) + StackArea <= MaxPages * 2
  PROVE  LET x == AddStack(md) IN
         SpaceOK(x) /\ Only(md, x, {"mem", "brk", "stacks"}) /\ Bytes(x) <= Bytes(md) + StackArea
<1> DEFINE n == StackArea
           g == GrowMemory(md, n)
           top == g.ptr + GuardSize + StackSize - 1
           y == [g.md EXCEPT !.stacks = Append(@, top)]
           z == CreateMemoryGuardRegion(y, g.ptr)
           x == CreateMemoryGuardRegion(z, top + 1)
           new == <<"stack", Len(g.md.stacks) + 1>>
           D == {<<top - StackSize + 1, StackSize, "anonymous">>}
<1>1. n \in Nat \ {0} /\ n % 2 = 0 /\ StackSize \in Nat \ {0} /\ GuardSize \in Nat
  BY Sizes DEF StackArea
<1>2. Grown(md, n, g)
  <2> HIDE DEF n
  <2> QED
    BY <1>1, GrowOk, SpaceTypes DEF n
<1>3. AddStack(md) = x
  BY DEF AddStack, StackIn, PlaceStack, StackArea
<1> HIDE DEF n, g
<1>4. SpaceOK(g.md) /\ Room(g.md, g.ptr) /\ MemoryOK(g.md) /\ Only(md, g.md, {"mem", "brk"}) /\ IsModule(g.md)
  BY <1>1, <1>2, GrowRoom DEF Grown, Only
<1>5. /\ g.ptr \in Nat /\ g.ptr % 2 = 0 /\ g.md.brk = g.ptr + StackSize + 2 * GuardSize
      /\ g.md.brk \in Nat /\ g.md.brk % 2 = 0 /\ g.ptr < g.md.brk
  <2>1. g.ptr \in Nat /\ g.ptr % 2 = 0 /\ g.md.brk = g.ptr + n
    BY <1>2 DEF Grown
  <2>2. g.md.brk = g.ptr + StackSize + 2 * GuardSize
    BY <1>1, <2>1 DEF n, StackArea
  <2> QED
    BY <1>1, <1>4, <2>1, <2>2, SpaceTypes
<1>6. top \in Nat /\ top - StackSize + 1 = g.ptr + GuardSize /\ top + 1 + GuardSize = g.md.brk
  BY <1>1, <1>5
<1>7. /\ IsSeq(g.md.stacks) /\ Len(g.md.stacks) \in Nat /\ DOMAIN g.md.stacks = 1..Len(g.md.stacks)
      /\ \A i \in DOMAIN g.md.stacks : g.md.stacks[i] \in Nat
  BY <1>4, SpaceTypes, SeqType DEF LayoutTypes
<1> HIDE DEF top
<1>8. Only(g.md, y, {"stacks"}) /\ y.stacks = Append(g.md.stacks, top)
  BY <1>4 DEF Only, IsModule, Fields
<1>9. y.mem = g.md.mem /\ y.brk = g.md.brk /\ IsModule(y)
  BY <1>8 DEF Only, Fields
<1> HIDE DEF y
<1>10. MemoryOK(y)
  BY <1>4, <1>9, SameMemory
<1>11. /\ Only(y, z, {"mem"}) /\ MemoryOK(z) /\ Len(z.mem) = Len(y.mem) /\ DOMAIN z.mem = DOMAIN y.mem
       /\ \A i \in DOMAIN y.mem : z.mem[i].by = y.mem[i].by
  BY <1>10, GuardFrame
<1> HIDE DEF z
<1>12. /\ Only(z, x, {"mem"}) /\ MemoryOK(x) /\ Len(x.mem) = Len(z.mem) /\ DOMAIN x.mem = DOMAIN z.mem
       /\ \A i \in DOMAIN z.mem : x.mem[i].by = z.mem[i].by
  BY <1>11, GuardFrame
<1> HIDE DEF x
<1>13. Only(g.md, x, {"mem", "stacks"}) /\ Only(md, x, {"mem", "brk", "stacks"})
  BY <1>4, <1>8, <1>11, <1>12 DEF Only
<1>14. /\ x.own = g.md.own /\ x.dyn = g.md.dyn /\ x.shared = g.md.shared /\ x.brk = g.md.brk
  BY <1>13 DEF Only, Fields
<1>15. /\ DOMAIN x.mem = DOMAIN g.md.mem /\ Len(x.mem) = Len(g.md.mem)
       /\ \A i \in DOMAIN g.md.mem : x.mem[i].by = g.md.mem[i].by
  BY <1>9, <1>11, <1>12
<1>16. x.stacks = Append(g.md.stacks, top)
  BY <1>8, <1>11, <1>12 DEF Only, Fields
<1>17. /\ IsSeq(x.stacks) /\ DOMAIN x.stacks = 1..(Len(g.md.stacks) + 1)
       /\ \A i \in DOMAIN g.md.stacks : x.stacks[i] = g.md.stacks[i]
       /\ x.stacks[Len(g.md.stacks) + 1] = top
  <2>1. /\ IsSeq(x.stacks) /\ Len(x.stacks) = Len(g.md.stacks) + 1
        /\ \A i \in 1..(Len(g.md.stacks) + 1) : x.stacks[i] = IF i <= Len(g.md.stacks) THEN g.md.stacks[i] ELSE top
    BY <1>7, <1>16, AppendSeq
  <2>2. DOMAIN x.stacks = 1..(Len(g.md.stacks) + 1)
    BY <2>1, SeqType
  <2> QED
    BY <1>7, <2>1, <2>2, SMTT(30)
<1>18. DOMAIN x.stacks = DOMAIN g.md.stacks \cup {Len(g.md.stacks) + 1}
  BY <1>7, <1>17
<1>19. LayoutTypes(x)
  BY <1>4, <1>6, <1>14, <1>17, <1>18, SpaceTypes DEF LayoutTypes
<1>20. Stays(g.md, x) /\ SameBy(g.md, x, g.ptr)
  BY <1>14, <1>15, <1>17 DEF Stays, SameBy
<1>21. Items(x) \subseteq Items(g.md) \cup {new}
  BY <1>14, <1>18 DEF Items
<1>22. Lo(x, new) = g.ptr /\ Hi(x, new) = g.md.brk
  <2>1. Lo(x, new) = top - StackSize + 1 - GuardSize /\ Hi(x, new) = top + 1 + GuardSize
    BY <1>17, ItemBounds
  <2>2. PICK lo, hi : lo = Lo(x, new) /\ hi = Hi(x, new)
    OBVIOUS
  <2> HIDE DEF new
  <2>3. lo = top - StackSize + 1 - GuardSize /\ hi = top + 1 + GuardSize
    BY <2>1, <2>2
  <2>4. PICK p, m : p = g.ptr /\ m = g.md.brk
    OBVIOUS
  <2>5. p \in Nat /\ top \in Nat /\ top - StackSize + 1 = p + GuardSize /\ top + 1 + GuardSize = m
    BY <1>5, <1>6, <2>4
  <2>6. lo = p /\ hi = m
    BY <1>1, <2>3, <2>5
  <2> QED
    BY <2>2, <2>4, <2>6
<1>23. Demands(x) \subseteq Demands(g.md) \cup D
  <2>1. Range(x.stacks) \subseteq Range(g.md.stacks) \cup {top}
    BY <1>17, <1>18 DEF Range
  <2> QED
    BY <1>14, <2>1 DEF Demands
<1>24. Backing(x, D)
  <2>1. g.ptr + GuardSize \in Nat /\ g.ptr + GuardSize + StackSize <= g.md.brk
    BY <1>1, <1>5
  <2>2. /\ PagesIn(g.ptr + GuardSize, StackSize) \subseteq 1..(g.md.brk \div 2)
        /\ \A i \in PagesIn(g.ptr + GuardSize, StackSize) : i > g.ptr \div 2
    <3>1. PICK b : b = g.ptr + GuardSize
      OBVIOUS
    <3>2. b \in Nat /\ b + StackSize <= g.md.brk /\ g.ptr <= b
      BY <1>1, <1>5, <2>1, <3>1
    <3> QED
      BY <1>1, <1>5, <3>1, <3>2, PagesBelow
  <2>3. 1..(g.md.brk \div 2) \subseteq DOMAIN g.md.mem
    <3>1. g.md.brk <= 2 * Len(g.md.mem) /\ Len(g.md.mem) \in Nat /\ DOMAIN g.md.mem = 1..Len(g.md.mem)
      BY <1>4, MemoryTypes
    <3>2. g.md.brk \div 2 <= Len(g.md.mem) /\ g.md.brk \div 2 \in Nat
      BY <1>5, <3>1
    <3> QED
      BY <3>1, <3>2
  <2>4. BackedBy(x, top - StackSize + 1, StackSize, "anonymous")
    BY <1>4, <1>6, <1>15, <2>2, <2>3 DEF BackedBy, Room
  <2> QED
    BY <2>4 DEF Backing
<1> HIDE DEF new, D
<1>25. SpaceOK(x)
  BY <1>4, <1>5, <1>12, <1>14, <1>19, <1>20, <1>21, <1>22, <1>23, <1>24, Place
<1>26. Bytes(x) <= Bytes(md) + StackArea
  BY <1>2, <1>15 DEF Grown, Bytes, n
<1> QED
  BY <1>3, <1>13, <1>25, <1>26

-----------------------------------------------------------------------------
(* Induction over an interval, with a set in place of a predicate.         *)
LEMMA LeastElement ==
  ASSUME NEW T, T \subseteq Nat, IsFiniteSet(T), T # {}
  PROVE  \E m \in T : \A k \in T : m <= k
<1> DEFINE Below(x) == {y \in T : y < x}
           B == {Below(x) : x \in T}
<1>1. B \subseteq SUBSET T /\ B # {}
  OBVIOUS
<1>2. IsWellFoundedOn(StrictSubsetOrdering(T), SUBSET T)
  BY FS_StrictSubsetOrderingWellFounded, FS_FiniteSubsetsOfFinite
<1>3. \E U \in B : \A V \in B : ~ (<<V, U>> \in StrictSubsetOrdering(T))
  BY <1>1, <1>2, WFMin
<1>4. PICK x \in T : \A z \in T : ~ (<<Below(z), Below(x)>> \in StrictSubsetOrdering(T))
  BY <1>3
<1>5. ASSUME NEW y \in T PROVE x <= y
  <2>1. SUFFICES ASSUME y < x PROVE FALSE
    BY <1>5
  <2>2. y \in Below(x) /\ y \notin Below(y)
    BY <2>1, <1>5
  <2>3. ASSUME NEW z \in Below(y) PROVE z \in Below(x)
    <3>1. z \in T /\ z \in Nat /\ z < y /\ x \in Nat /\ y \in Nat
      BY <2>3, <1>4, <1>5
    <3> QED
      BY <3>1, <2>1
  <2>4. <<Below(y), Below(x)>> \in (SUBSET T) \X (SUBSET T)
    OBVIOUS
  <2>5. <<Below(y), Below(x)>> \in StrictSubsetOrdering(T)
    BY <2>2, <2>3, <2>4 DEF StrictSubsetOrdering
  <2> QED
    BY <2>5, <1>4, <1>5
<1> QED
  BY <1>5

LEMMA IntervalInduction ==
  ASSUME NEW N \in Nat, NEW S, 0 \in S, \A i \in 1..N : i - 1 \in S => i \in S
  PROVE  \A i \in 0..N : i \in S
<1> DEFINE T == (0..N) \ S
<1>1. SUFFICES ASSUME T # {} PROVE FALSE
  OBVIOUS
<1>2. IsFiniteSet(0..N) /\ T \in SUBSET (0..N)
  BY FS_Interval
<1>3. IsFiniteSet(T) /\ T \subseteq Nat
  BY <1>2, FS_Subset
<1> HIDE DEF T
<1>4. PICK m \in T : \A k \in T : m <= k
  BY <1>1, <1>3, LeastElement
<1> USE DEF T
<1>5. m \in 0..N /\ m \notin S
  BY <1>4
<1>6. m # 0
  BY <1>5
<1>7. m \in 1..N /\ m - 1 \in 0..N /\ ~ (m <= m - 1)
  BY <1>5, <1>6
<1>8. m - 1 \in S
  BY <1>4, <1>7
<1> QED
  BY <1>5, <1>7, <1>8

(* The recursion of the thread stacks defines them.                        *)
LEMMA StacksDefined ==
  ASSUME NEW md
  PROVE  \E f : /\ CreateThreadStacks(md) = f[ThreadPoolSize] /\ f[0] = md
                /\ \A i \in 1..ThreadPoolSize : f[i] = AddStack(f[i - 1])
<1> DEFINE Body(g, i) == IF i = 0 THEN md ELSE AddStack(g[i - 1])
           Some(g, n) == g = [i \in 0..n |-> Body(g, i)]
           S == {n \in 0..ThreadPoolSize : \E g : Some(g, n)}
<1>1. 0 \in S
  <2> DEFINE g == [i \in 0..0 |-> md]
  <2>1. Some(g, 0)
    BY 0..0 = {0}
  <2> HIDE DEF Some, g
  <2> QED
    BY <2>1, Sizes
<1>2. ASSUME NEW n \in 1..ThreadPoolSize, n - 1 \in S PROVE n \in S
  <2>1. PICK g : Some(g, n - 1)
    BY <1>2
  <2> DEFINE h == [i \in 0..n |-> IF i = n THEN AddStack(g[n - 1]) ELSE g[i]]
  <2>2. \A i \in 0..(n - 1) : h[i] = g[i]
    OBVIOUS
  <2>3. \A i \in 0..(n - 1) : g[i] = Body(g, i)
    BY <2>1
  <2>4. ASSUME NEW i \in 0..n PROVE h[i] = Body(h, i)
    <3>1. CASE i = n
      BY <3>1, <2>2
    <3>2. CASE i # n
      <4>1. i \in 0..(n - 1) /\ (i # 0 => i - 1 \in 0..(n - 1))
        BY <3>2
      <4> HIDE DEF h
      <4> QED
        BY <4>1, <2>2, <2>3
    <3> QED
      BY <3>1, <3>2
  <2>5. h = [i \in 0..n |-> h[i]]
    OBVIOUS
  <2>6. Some(h, n)
    <3> HIDE DEF h
    <3> QED
      BY <2>4, <2>5
  <2> HIDE DEF Some, h
  <2> QED
    BY <2>6
<1>3. ThreadPoolSize \in S
  <2> HIDE DEF S
  <2> QED
    BY <1>1, <1>2, IntervalInduction, Sizes
<1> DEFINE stacks == CHOOSE f : Some(f, ThreadPoolSize)
<1>4. Some(stacks, ThreadPoolSize)
  <2> HIDE DEF Some
  <2> QED
    BY <1>3
<1>5. CreateThreadStacks(md) = stacks[ThreadPoolSize]
  BY DEF CreateThreadStacks
<1>6. \A i \in 0..ThreadPoolSize : stacks[i] = Body(stacks, i)
  <2> HIDE DEF stacks
  <2> QED
    BY <1>4
<1> HIDE DEF stacks
<1>7. stacks[0] = md
  BY <1>6, Sizes
<1>8. \A i \in 1..ThreadPoolSize : stacks[i] = AddStack(stacks[i - 1])
  BY <1>6, Sizes
<1> QED
  BY <1>5, <1>7, <1>8

LEMMA Times ==
  ASSUME NEW i \in Nat, i >= 1, NEW n \in Nat, i <= n, NEW k \in Nat
  PROVE  /\ i * k = (i - 1) * k + k /\ i * k \in Nat /\ (i - 1) * k \in Nat /\ n * k \in Nat
         /\ (i - 1) * k + k <= n * k
<1>1. i * k = (i - 1) * k + k
  OBVIOUS
<1>2. i * k \in Nat /\ (i - 1) * k \in Nat /\ n * k \in Nat
  OBVIOUS
<1>3. i * k <= n * k
  OBVIOUS
<1> QED
  BY <1>1, <1>2, <1>3
LEMMA StacksSpace ==
  ASSUME NEW md, SpaceOK(md), Bytes(md) + ThreadPoolSize * StackArea <= MaxPages * 2
  PROVE  LET x == CreateThreadStacks(md) IN
         /\ SpaceOK(x) /\ Only(md, x, {"mem", "brk", "stacks"})
         /\ Bytes(x) <= Bytes(md) + ThreadPoolSize * StackArea
<1> DEFINE K == StackArea
           P(i, x) == SpaceOK(x) /\ Only(md, x, {"mem", "brk", "stacks"}) /\ Bytes(x) <= Bytes(md) + i * K
<1>1. PICK f : /\ CreateThreadStacks(md) = f[ThreadPoolSize] /\ f[0] = md
               /\ \A i \in 1..ThreadPoolSize : f[i] = AddStack(f[i - 1])
  BY StacksDefined
<1> DEFINE S == {i \in 0..ThreadPoolSize : P(i, f[i])}
<1>2. K \in Nat /\ ThreadPoolSize \in Nat /\ MaxPages \in Nat
  BY Sizes DEF StackArea
<1>3. \A x : SpaceOK(x) => Bytes(x) \in Nat
  BY MemoryTypes DEF SpaceOK
<1> HIDE DEF K
<1>4. 0 \in S
  <2>1. Only(md, md, {"mem", "brk", "stacks"})
    BY SpaceTypes DEF Only
  <2>2. Bytes(md) <= Bytes(md) + 0 * K
    BY <1>2, <1>3
  <2> QED
    BY <1>1, <1>2, <2>1, <2>2
<1>5. ASSUME NEW i \in 1..ThreadPoolSize, i - 1 \in S PROVE i \in S
  <2> DEFINE y == f[i - 1]
             x == f[i]
  <2>1. SpaceOK(y) /\ Only(md, y, {"mem", "brk", "stacks"}) /\ Bytes(y) <= Bytes(md) + (i - 1) * K
    BY <1>5
  <2>2. x = AddStack(y)
    BY <1>1
  <2>3. /\ i * K = (i - 1) * K + K /\ i * K \in Nat /\ (i - 1) * K \in Nat /\ ThreadPoolSize * K \in Nat
        /\ (i - 1) * K + K <= ThreadPoolSize * K
    BY <1>2, Times
  <2> HIDE DEF x, y
  <2>4. Bytes(y) + K <= MaxPages * 2
    <3>1. Bytes(md) + ThreadPoolSize * K <= MaxPages * 2
      BY DEF K
    <3>2. Bytes(md) \in Nat /\ Bytes(y) \in Nat
      BY <1>3, <2>1
    <3>3. PICK a \in Nat, b \in Nat : a = (i - 1) * K /\ b = ThreadPoolSize * K
      BY <2>3
    <3>4. Bytes(y) <= Bytes(md) + a /\ a + K <= b /\ Bytes(md) + b <= MaxPages * 2
      BY <2>1, <2>3, <3>1, <3>3
    <3> QED
      BY <1>2, <3>2, <3>4
  <2>5. SpaceOK(x) /\ Only(y, x, {"mem", "brk", "stacks"}) /\ Bytes(x) <= Bytes(y) + K
    BY <2>1, <2>2, <2>4, StackSpace DEF K
  <2>6. Bytes(x) <= Bytes(md) + i * K
    <3>1. Bytes(md) \in Nat /\ Bytes(y) \in Nat /\ Bytes(x) \in Nat
      BY <1>3, <2>1, <2>5
    <3>2. PICK a \in Nat, b \in Nat : a = (i - 1) * K /\ b = i * K
      BY <2>3
    <3>3. Bytes(y) <= Bytes(md) + a /\ b = a + K
      BY <2>1, <2>3, <3>2
    <3> QED
      BY <1>2, <2>5, <3>1, <3>2, <3>3
  <2>7. Only(md, x, {"mem", "brk", "stacks"})
    BY <2>1, <2>5 DEF Only
  <2>8. i \in 0..ThreadPoolSize
    BY <1>2
  <2> QED
    BY <2>5, <2>6, <2>7, <2>8 DEF x
<1>6. ThreadPoolSize \in S
  <2> HIDE DEF S
  <2> QED
    BY <1>2, <1>4, <1>5, IntervalInduction
<1> QED
  BY <1>1, <1>6 DEF K

-----------------------------------------------------------------------------
(* Linking.                                                                *)
LEMMA LibTypes ==
  ASSUME NEW l \in Libs
  PROVE  /\ LibAt(l.path) = l /\ l.path \in Paths /\ l.path # "" /\ l.path # "main"
         /\ l.data \in Nat /\ DynStackSize + l.data < DynMemorySize
         /\ IsSeq(l.elems) /\ IsSeq(l.gotFuncs)
         /\ DOMAIN l.elems = 1..Len(l.elems) /\ Len(l.elems) \in Nat
         /\ DOMAIN l.gotFuncs = 1..Len(l.gotFuncs) /\ Len(l.gotFuncs) \in Nat
         /\ \A g \in DOMAIN l.globals : l.globals[g] \in 0..(l.data - 1)
<1>1. \A m \in Libs : m.path = l.path => m = l
  BY LibAssumption
<1>2. LibAt(l.path) = l
  BY <1>1 DEF LibAt
<1>3. IsSeq(l.elems) /\ IsSeq(l.gotFuncs)
  BY LibAssumption DEF IsSeq
<1>4. l.path # "" /\ l.path # "main" /\ l.data \in Nat /\ DynStackSize + l.data < DynMemorySize
  BY LibAssumption
<1>5. \A g \in DOMAIN l.globals : l.globals[g] \in 0..(l.data - 1)
  BY LibAssumption
<1>6. l.path \in Paths
  BY DEF Paths
<1> QED
  BY <1>2, <1>3, <1>4, <1>5, <1>6, SeqType

(* A module between the record of a library and the end of its linking: o  *)
(* is the module before, d the record of the library.                      *)
InRange(d, place) == d.tableBottom <= place /\ place < d.tableTop
Will(md, d, lib, f) ==
  /\ md.got[f] \in Nat /\ md.got[f] < Len(md.table)
  /\ IF InRange(d, md.got[f]) THEN lib.elems[md.got[f] + 1 - d.tableBottom] = f
                              ELSE md.table[md.got[f] + 1][2] = f
LinkInv(o, md, d, lib) ==
  /\ IsModule(md) /\ IsSeq(md.table) /\ d.tableTop <= Len(md.table)
  /\ \A i \in 1..d.tableBottom : md.table[i] = o.table[i]
  /\ DOMAIN o.got \subseteq DOMAIN md.got
  /\ \A f \in DOMAIN md.got : Will(md, d, lib, f)
  /\ \A f \in DOMAIN md.missing :
       md.missing[f] \in Nat /\ d.tableTop <= md.missing[f] /\ md.missing[f] < Len(md.table)
  /\ \A f, g \in DOMAIN md.missing : f = g \/ md.missing[f] # md.missing[g]
  /\ \A f \in DOMAIN md.got, g \in DOMAIN md.missing : md.got[f] # md.missing[g]
  /\ \A f \in DOMAIN md.missing : f \in Range(lib.gotFuncs) /\ f \notin MainExports
Resolved(md, f) == f \in DOMAIN md.got \cup DOMAIN md.missing

NewGot(md, fn, name) ==
  [AddFunctionToTable(md, fn) EXCEPT !.got = Insert(@, Entry(name, Len(md.table)))]
NewMissing(md, fn, name) ==
  [AddFunctionToTable(md, fn) EXCEPT !.missing = Insert(@, Entry(name, Len(md.table)))]
LEMMA NewPlaces ==
  ASSUME NEW md, IsModule(md), NEW fn, NEW name
  PROVE  /\ Only(md, NewGot(md, fn, name), {"table", "got"})
         /\ NewGot(md, fn, name).table = Append(md.table, fn)
         /\ NewGot(md, fn, name).got = Insert(md.got, Entry(name, Len(md.table)))
         /\ Only(md, NewMissing(md, fn, name), {"table", "missing"})
         /\ NewMissing(md, fn, name).table = Append(md.table, fn)
         /\ NewMissing(md, fn, name).missing = Insert(md.missing, Entry(name, Len(md.table)))
<1>1. /\ IsModule(AddFunctionToTable(md, fn)) /\ AddFunctionToTable(md, fn).table = Append(md.table, fn)
      /\ Only(md, AddFunctionToTable(md, fn), {"table"})
  BY DEF AddFunctionToTable, Only, IsModule, Fields
<1>2. ASSUME NEW y, IsModule(y), NEW v
      PROVE  /\ Only(y, [y EXCEPT !.got = Insert(@, v)], {"got"}) /\ [y EXCEPT !.got = Insert(@, v)].got = Insert(y.got, v)
             /\ Only(y, [y EXCEPT !.missing = Insert(@, v)], {"missing"})
             /\ [y EXCEPT !.missing = Insert(@, v)].missing = Insert(y.missing, v)
  BY <1>2 DEF Only, IsModule, Fields
<1> DEFINE y == AddFunctionToTable(md, fn)
           v == Entry(name, Len(md.table))
<1>3. /\ Only(y, NewGot(md, fn, name), {"got"}) /\ NewGot(md, fn, name).got = Insert(y.got, v)
      /\ Only(y, NewMissing(md, fn, name), {"missing"})
      /\ NewMissing(md, fn, name).missing = Insert(y.missing, v)
  BY <1>1, <1>2 DEF NewGot, NewMissing
<1> HIDE DEF y, v
<1>4. y.got = md.got /\ y.missing = md.missing /\ y.table = Append(md.table, fn) /\ Only(md, y, {"table"})
  BY <1>1 DEF Only, Fields, y
<1> QED
  BY <1>3, <1>4 DEF Only, Fields, v

LEMMA ResolveCases ==
  ASSUME NEW md, IsSeq(md.dyn), NEW name, md.loading # "main"
  PROVE  \/ name \in DOMAIN md.got /\ ResolveFunc(md, name) = md
         \/ /\ name \notin DOMAIN md.got
            /\ \E provider : ResolveFunc(md, name) = NewGot(md, <<provider, name>>, name)
         \/ /\ name \notin DOMAIN md.got /\ name \notin MainExports
            /\ ResolveFunc(md, name) = NewMissing(md, NoFunction, name)
<1> DEFINE paths == [i \in DOMAIN md.dyn |-> md.dyn[i].path]
           loaded == <<"main">> \o paths
           found == {i \in DOMAIN loaded : name \in ExportsOf(loaded[i]) /\ loaded[i] # md.loading}
<1>1. CASE name \in DOMAIN md.got
  BY <1>1 DEF ResolveFunc
<1>2. CASE name \notin DOMAIN md.got /\ found # {}
  <2>1. ResolveFunc(md, name) = NewGot(md, <<loaded[Min(found)], name>>, name)
    BY <1>2, Zenon DEF ResolveFunc, NewGot
  <2> QED
    BY <1>2, <2>1
<1>3. CASE name \notin DOMAIN md.got /\ found = {}
  <2>1. ResolveFunc(md, name) = NewMissing(md, NoFunction, name)
    BY <1>3, Zenon DEF ResolveFunc, NewMissing
  <2>2. 1 \in DOMAIN loaded /\ loaded[1] = "main"
    <3>1. paths = [i \in 1..Len(md.dyn) |-> paths[i]] /\ Len(md.dyn) \in Nat
      BY SeqType
    <3>2. <<"main">> = [i \in 1..1 |-> <<"main">>[i]] /\ <<"main">>[1] = "main"
      OBVIOUS
    <3> HIDE DEF paths
    <3>3. IsSeq(paths) /\ Len(paths) \in Nat
      BY <3>1, MadeSeq
    <3>4. IsSeq(<<"main">>) /\ Len(<<"main">>) = 1
      BY <3>2, MadeSeq
    <3>5. IsSeq(loaded) /\ Len(loaded) = 1 + Len(paths) /\ \A i \in 1..(1 + Len(paths)) : i <= 1 => loaded[i] = <<"main">>[i]
      BY <3>3, <3>4, ConcatSeq
    <3> HIDE DEF loaded
    <3>6. DOMAIN loaded = 1..(1 + Len(paths))
      BY <3>5, SeqType
    <3>7. 1 \in 1..(1 + Len(paths))
      BY <3>3
    <3> QED
      BY <3>2, <3>5, <3>6, <3>7
  <2>3. ~(name \in ExportsOf(loaded[1]) /\ loaded[1] # md.loading)
    <3> HIDE DEF loaded
    <3> QED
      BY <1>3, <2>2
  <2>4. name \notin MainExports
    BY <2>2, <2>3 DEF ExportsOf
  <2> QED
    BY <1>3, <2>1, <2>4
<1> QED
  BY <1>1, <1>2, <1>3

LEMMA AppendTable ==
  ASSUME NEW t, IsSeq(t), NEW fn
  PROVE  /\ IsSeq(Append(t, fn)) /\ Len(t) \in Nat /\ Len(Append(t, fn)) = Len(t) + 1 /\ Append(t, fn)[Len(t) + 1] = fn
         /\ \A i \in 1..Len(t) : Append(t, fn)[i] = t[i]
         /\ \A p \in Nat : p < Len(t) => Append(t, fn)[p + 1] = t[p + 1]
<1>1. Len(t) \in Nat
  BY SeqType
<1>2. IsSeq(Append(t, fn)) /\ Len(Append(t, fn)) = Len(t) + 1 /\ \A i \in 1..(Len(t) + 1) : Append(t, fn)[i] = IF i <= Len(t) THEN t[i] ELSE fn
  BY AppendSeq
<1>3. Append(t, fn)[Len(t) + 1] = fn
  BY <1>1, <1>2
<1>4. \A i \in 1..Len(t) : Append(t, fn)[i] = t[i]
  BY <1>1, <1>2
<1>5. \A p \in Nat : p < Len(t) => p + 1 \in 1..Len(t)
  BY <1>1
<1> QED
  BY <1>1, <1>2, <1>3, <1>4, <1>5

Range2(d) == d.tableBottom \in Nat /\ d.tableTop \in Nat /\ d.tableBottom <= d.tableTop
LEMMA ResolveStep ==
  ASSUME NEW o, NEW d, Range2(d), NEW lib, NEW md, LinkInv(o, md, d, lib), IsSeq(md.dyn), md.loading # "main",
         NEW name \in Range(lib.gotFuncs), NEW x, x = ResolveFunc(md, name)
  PROVE  /\ LinkInv(o, x, d, lib) /\ Only(md, x, {"table", "got", "missing"}) /\ Resolved(x, name)
         /\ \A f : Resolved(md, f) => Resolved(x, f)
<1> DEFINE n == Len(md.table)
<1>0. /\ IsModule(md) /\ IsSeq(md.table) /\ n \in Nat /\ d.tableTop <= n /\ Range2(d)
      /\ d.tableBottom \in Nat /\ d.tableTop \in Nat /\ d.tableBottom <= d.tableTop
  BY SeqType DEF LinkInv, Range2
<1> HIDE DEF n
<1>1. CASE name \in DOMAIN md.got /\ x = md
  <2>1. Only(md, x, {"table", "got", "missing"})
    BY <1>0, <1>1 DEF Only
  <2> QED
    BY <1>1, <2>1 DEF Resolved
<1>2. CASE name \notin DOMAIN md.got /\ \E provider : x = NewGot(md, <<provider, name>>, name)
  <2>1. PICK provider : x = NewGot(md, <<provider, name>>, name)
    BY <1>2
  <2>2. /\ Only(md, x, {"table", "got"}) /\ x.table = Append(md.table, <<provider, name>>)
        /\ x.got = Insert(md.got, Entry(name, n))
    BY <1>0, <2>1, NewPlaces DEF n
  <2>3. x.missing = md.missing /\ IsModule(x)
    BY <2>2 DEF Only, Fields
  <2>4. /\ IsSeq(x.table) /\ Len(x.table) = n + 1 /\ x.table[n + 1] = <<provider, name>>
        /\ \A i \in 1..n : x.table[i] = md.table[i]
        /\ \A p \in Nat : p < n => x.table[p + 1] = md.table[p + 1]
    <3>1. PICK t, fn : t = md.table /\ fn = <<provider, name>>
      OBVIOUS
    <3>2. x.table = Append(t, fn) /\ IsSeq(t)
      BY <1>0, <2>2, <3>1
    <3>3. PICK u : u = Append(t, fn)
      OBVIOUS
    <3>4. /\ IsSeq(u) /\ Len(u) = Len(t) + 1 /\ u[Len(t) + 1] = fn
          /\ \A i \in 1..Len(t) : u[i] = t[i]
          /\ \A p \in Nat : p < Len(t) => u[p + 1] = t[p + 1]
      BY <3>2, <3>3, AppendTable
    <3> QED
      BY <3>1, <3>2, <3>3, <3>4 DEF n
  <2>5. /\ DOMAIN x.got = DOMAIN md.got \cup {name} /\ x.got[name] = n
        /\ \A f \in DOMAIN md.got : x.got[f] = md.got[f]
    <3>1. PICK map : map = md.got
      OBVIOUS
    <3>2. /\ DOMAIN Insert(map, Entry(name, n)) = DOMAIN map \cup {name}
          /\ \A f \in DOMAIN map : Insert(map, Entry(name, n))[f] = map[f]
          /\ name \notin DOMAIN map => Insert(map, Entry(name, n))[name] = n
      BY Merged
    <3> QED
      BY <1>2, <2>2, <3>1, <3>2
  <2>6. \A f \in DOMAIN x.got : Will(x, d, lib, f)
    <3>1. ASSUME NEW f \in DOMAIN md.got PROVE Will(x, d, lib, f)
      <4>1. Will(md, d, lib, f) /\ x.got[f] = md.got[f]
        BY <2>5 DEF LinkInv
      <4>2. md.got[f] \in Nat /\ md.got[f] < n /\ md.got[f] < Len(x.table)
        BY <1>0, <2>4, <4>1 DEF Will, n
      <4>3. x.table[md.got[f] + 1] = md.table[md.got[f] + 1]
        BY <2>4, <4>2
      <4> QED
        BY <4>1, <4>2, <4>3 DEF Will
    <3>2. Will(x, d, lib, name)
      <4>1. ~InRange(d, n)
        BY <1>0 DEF InRange
      <4>2. x.got[name] \in Nat /\ x.got[name] < Len(x.table) /\ x.table[x.got[name] + 1][2] = name
        BY <1>0, <2>4, <2>5
      <4> QED
        BY <2>5, <4>1, <4>2 DEF Will
    <3> QED
      BY <2>5, <3>1, <3>2
  <2>7. \A f \in DOMAIN x.missing : x.missing[f] \in Nat /\ d.tableTop <= x.missing[f] /\ x.missing[f] < n
    BY <2>3 DEF LinkInv, n
  <2>8. \A f \in DOMAIN x.got, g \in DOMAIN x.missing : x.got[f] # x.missing[g]
    <3>1. \A f \in DOMAIN md.got, g \in DOMAIN md.missing : md.got[f] # md.missing[g]
      BY DEF LinkInv
    <3>2. \A g \in DOMAIN x.missing : x.missing[g] # n
      BY <1>0, <2>7
    <3> QED
      BY <2>3, <2>5, <3>1, <3>2
  <2>9. LinkInv(o, x, d, lib)
    <3>1. d.tableTop <= Len(x.table) /\ \A f \in DOMAIN x.missing : x.missing[f] < Len(x.table)
      BY <1>0, <2>4, <2>7
    <3>2. \A i \in 1..d.tableBottom : x.table[i] = o.table[i]
      <4>1. \A i \in 1..d.tableBottom : i \in 1..n
        BY <1>0
      <4> QED
        BY <2>4, <4>1 DEF LinkInv
    <3>3. DOMAIN o.got \subseteq DOMAIN x.got
      BY <2>5 DEF LinkInv
    <3>4. /\ \A f, g \in DOMAIN x.missing : f = g \/ x.missing[f] # x.missing[g]
          /\ \A f \in DOMAIN x.missing : f \in Range(lib.gotFuncs) /\ f \notin MainExports
      BY <2>3 DEF LinkInv
    <3> QED
      BY <2>3, <2>4, <2>6, <2>7, <2>8, <3>1, <3>2, <3>3, <3>4 DEF LinkInv
  <2>10. Only(md, x, {"table", "got", "missing"})
    BY <2>2 DEF Only
  <2> QED
    BY <2>3, <2>5, <2>9, <2>10 DEF Resolved
<1>3. CASE name \notin DOMAIN md.got /\ name \notin MainExports /\ x = NewMissing(md, NoFunction, name)
  <2>2. /\ Only(md, x, {"table", "missing"}) /\ x.table = Append(md.table, NoFunction)
        /\ x.missing = Insert(md.missing, Entry(name, n))
    BY <1>0, <1>3, NewPlaces DEF n
  <2>3. x.got = md.got /\ IsModule(x)
    BY <2>2 DEF Only, Fields
  <2>4. /\ IsSeq(x.table) /\ Len(x.table) = n + 1
        /\ \A i \in 1..n : x.table[i] = md.table[i]
        /\ \A p \in Nat : p < n => x.table[p + 1] = md.table[p + 1]
    <3>1. PICK t, fn : t = md.table /\ fn = NoFunction
      OBVIOUS
    <3>2. x.table = Append(t, fn) /\ IsSeq(t)
      BY <1>0, <2>2, <3>1
    <3>3. PICK u : u = Append(t, fn)
      OBVIOUS
    <3>4. /\ IsSeq(u) /\ Len(u) = Len(t) + 1 /\ u[Len(t) + 1] = fn
          /\ \A i \in 1..Len(t) : u[i] = t[i]
          /\ \A p \in Nat : p < Len(t) => u[p + 1] = t[p + 1]
      BY <3>2, <3>3, AppendTable
    <3> QED
      BY <3>1, <3>2, <3>3, <3>4 DEF n
  <2>5. /\ DOMAIN x.missing = DOMAIN md.missing \cup {name}
        /\ \A f \in DOMAIN md.missing : x.missing[f] = md.missing[f]
        /\ name \notin DOMAIN md.missing => x.missing[name] = n
    <3>1. /\ DOMAIN Insert(md.missing, Entry(name, n)) = DOMAIN md.missing \cup {name}
          /\ \A f \in DOMAIN md.missing : Insert(md.missing, Entry(name, n))[f] = md.missing[f]
          /\ name \notin DOMAIN md.missing => Insert(md.missing, Entry(name, n))[name] = n
      BY Merged
    <3> QED
      BY <2>2, <3>1
  <2>6. \A f \in DOMAIN x.got : Will(x, d, lib, f)
    <3>1. ASSUME NEW f \in DOMAIN md.got PROVE Will(x, d, lib, f)
      <4>1. Will(md, d, lib, f) /\ x.got[f] = md.got[f]
        BY <2>3 DEF LinkInv
      <4>2. md.got[f] \in Nat /\ md.got[f] < n /\ md.got[f] < Len(x.table)
        BY <1>0, <2>4, <4>1 DEF Will, n
      <4>3. x.table[md.got[f] + 1] = md.table[md.got[f] + 1]
        BY <2>4, <4>2
      <4> QED
        BY <4>1, <4>2, <4>3 DEF Will
    <3> QED
      BY <2>3, <3>1
  <2>7. \A f \in DOMAIN md.missing : x.missing[f] \in Nat /\ d.tableTop <= x.missing[f] /\ x.missing[f] < n
    BY <2>5 DEF LinkInv, n
  <2>8. \A f \in DOMAIN x.missing : x.missing[f] \in Nat /\ d.tableTop <= x.missing[f] /\ x.missing[f] < Len(x.table)
    BY <1>0, <2>4, <2>5, <2>7
  <2>9. \A f, g \in DOMAIN x.missing : f = g \/ x.missing[f] # x.missing[g]
    <3>1. \A f, g \in DOMAIN md.missing : f = g \/ x.missing[f] # x.missing[g]
      BY <2>5 DEF LinkInv
    <3>2. \A f \in DOMAIN md.missing : x.missing[f] # n
      BY <1>0, <2>7
    <3> QED
      BY <2>5, <3>1, <3>2
  <2>10. \A f \in DOMAIN x.got, g \in DOMAIN x.missing : x.got[f] # x.missing[g]
    <3>1. \A f \in DOMAIN md.got, g \in DOMAIN md.missing : md.got[f] # md.missing[g]
      BY DEF LinkInv
    <3>2. \A f \in DOMAIN md.got : md.got[f] # n
      <4>1. \A f \in DOMAIN md.got : md.got[f] \in Nat /\ md.got[f] < n
        BY DEF LinkInv, Will, n
      <4> QED
        BY <1>0, <4>1
    <3> QED
      BY <2>3, <2>5, <3>1, <3>2
  <2>11. LinkInv(o, x, d, lib)
    <3>1. d.tableTop <= Len(x.table)
      BY <1>0, <2>4
    <3>2. \A i \in 1..d.tableBottom : x.table[i] = o.table[i]
      <4>1. \A i \in 1..d.tableBottom : i \in 1..n
        BY <1>0
      <4> QED
        BY <2>4, <4>1 DEF LinkInv
    <3>3. \A f \in DOMAIN x.missing : f \in Range(lib.gotFuncs) /\ f \notin MainExports
      BY <1>3, <2>5 DEF LinkInv
    <3>4. DOMAIN o.got \subseteq DOMAIN x.got
      BY <2>3 DEF LinkInv
    <3> QED
      BY <2>3, <2>4, <2>6, <2>8, <2>9, <2>10, <3>1, <3>2, <3>3, <3>4 DEF LinkInv
  <2>12. Only(md, x, {"table", "got", "missing"})
    BY <2>2 DEF Only
  <2> QED
    BY <2>3, <2>5, <2>11, <2>12 DEF Resolved
<1> QED
  BY <1>1, <1>2, <1>3, ResolveCases

(* The recursion over the imports of a library. *)
LEMMA ResolveDefined ==
  ASSUME NEW md, NEW names, Len(names) \in Nat
  PROVE  \E f : /\ ResolveFuncs(md, names) = f[Len(names)] /\ f[0] = md
                /\ \A i \in 1..Len(names) : f[i] = ResolveFunc(f[i - 1], names[i])
<1>0. PICK N \in Nat : N = Len(names)
  OBVIOUS
<1> DEFINE Body(g, i) == IF i = 0 THEN md ELSE ResolveFunc(g[i - 1], names[i])
           Some(g, n) == g = [i \in 0..n |-> Body(g, i)]
           S == {n \in 0..N : \E g : Some(g, n)}
<1>1. 0 \in S
  <2> DEFINE g == [i \in 0..0 |-> md]
  <2>1. Some(g, 0)
    BY 0..0 = {0}
  <2> HIDE DEF Some, g
  <2> QED
    BY <2>1
<1>2. ASSUME NEW n \in 1..N, n - 1 \in S PROVE n \in S
  <2>1. PICK g : Some(g, n - 1)
    BY <1>2
  <2> DEFINE h == [i \in 0..n |-> IF i = n THEN ResolveFunc(g[n - 1], names[n]) ELSE g[i]]
  <2>2. \A i \in 0..(n - 1) : h[i] = g[i]
    OBVIOUS
  <2>3. \A i \in 0..(n - 1) : g[i] = Body(g, i)
    BY <2>1
  <2>4. ASSUME NEW i \in 0..n PROVE h[i] = Body(h, i)
    <3>1. CASE i = n
      BY <3>1, <2>2
    <3>2. CASE i # n
      <4>1. i \in 0..(n - 1) /\ (i # 0 => i - 1 \in 0..(n - 1))
        BY <3>2
      <4> HIDE DEF h
      <4> QED
        BY <4>1, <2>2, <2>3
    <3> QED
      BY <3>1, <3>2
  <2>5. h = [i \in 0..n |-> h[i]]
    OBVIOUS
  <2>6. Some(h, n)
    <3> HIDE DEF h
    <3> QED
      BY <2>4, <2>5
  <2> HIDE DEF Some, h
  <2> QED
    BY <2>6
<1>3. N \in S
  <2> HIDE DEF S
  <2> QED
    BY <1>1, <1>2, IntervalInduction
<1> DEFINE resolved == CHOOSE f : Some(f, N)
<1>4. Some(resolved, N)
  <2> HIDE DEF Some
  <2> QED
    BY <1>3
<1>5. ResolveFuncs(md, names) = resolved[N]
  BY <1>0 DEF ResolveFuncs
<1>6. \A i \in 0..N : resolved[i] = Body(resolved, i)
  <2> HIDE DEF resolved
  <2> QED
    BY <1>4
<1> HIDE DEF resolved
<1>7. resolved[0] = md
  BY <1>6
<1>8. \A i \in 1..N : resolved[i] = ResolveFunc(resolved[i - 1], names[i])
  BY <1>6
<1> QED
  BY <1>0, <1>5, <1>7, <1>8
LEMMA ResolveAll ==
  ASSUME NEW o, NEW d, Range2(d), NEW lib \in Libs, NEW md, LinkInv(o, md, d, lib), IsSeq(md.dyn),
         md.loading # "main", NEW x, x = ResolveFuncs(md, lib.gotFuncs)
  PROVE  /\ LinkInv(o, x, d, lib) /\ Only(md, x, {"table", "got", "missing"})
         /\ \A f \in Range(lib.gotFuncs) : Resolved(x, f)
<1>0. PICK names, N : names = lib.gotFuncs /\ N = Len(names)
  OBVIOUS
<1> DEFINE Changed == {"table", "got", "missing"}
           P(i, y) == LinkInv(o, y, d, lib) /\ Only(md, y, Changed) /\ \A j \in 1..i : Resolved(y, names[j])
<1>1. N \in Nat /\ DOMAIN names = 1..N
  BY <1>0, LibTypes
<1>2. PICK f : /\ ResolveFuncs(md, names) = f[N] /\ f[0] = md
               /\ \A i \in 1..N : f[i] = ResolveFunc(f[i - 1], names[i])
  BY <1>0, <1>1, ResolveDefined
<1> DEFINE S == {i \in 0..N : P(i, f[i])}
<1>3. 0 \in S
  <2>1. Only(md, md, Changed)
    BY DEF Only, LinkInv
  <2> QED
    BY <1>1, <1>2, <2>1
<1>4. ASSUME NEW i \in 1..N, i - 1 \in S PROVE i \in S
  <2> DEFINE y == f[i - 1]
             z == f[i]
  <2>1. LinkInv(o, y, d, lib) /\ Only(md, y, Changed) /\ \A j \in 1..(i - 1) : Resolved(y, names[j])
    BY <1>4
  <2>2. z = ResolveFunc(y, names[i]) /\ names[i] \in Range(names)
    BY <1>1, <1>2 DEF Range
  <2> HIDE DEF y, z, Changed
  <2>3. IsSeq(y.dyn) /\ y.loading # "main"
    BY <2>1 DEF Only, Fields, Changed
  <2>4. /\ LinkInv(o, z, d, lib) /\ Only(y, z, Changed) /\ Resolved(z, names[i])
        /\ \A g : Resolved(y, g) => Resolved(z, g)
    BY <1>0, <2>1, <2>2, <2>3, ResolveStep DEF Changed
  <2>5. Only(md, z, Changed)
    BY <2>1, <2>4 DEF Only
  <2>6. \A j \in 1..i : j \in 1..(i - 1) \/ j = i
    BY <1>1
  <2>7. \A j \in 1..i : Resolved(z, names[j])
    BY <2>1, <2>4, <2>6
  <2>8. i \in 0..N
    BY <1>1
  <2> QED
    BY <2>4, <2>5, <2>7, <2>8 DEF z
<1>5. N \in S
  <2> HIDE DEF S
  <2> QED
    BY <1>1, <1>3, <1>4, IntervalInduction
<1>6. P(N, x)
  BY <1>0, <1>2, <1>5
<1> QED
  BY <1>0, <1>1, <1>6 DEF Range

(* The record of a library, and what is there once it is recorded. *)
Recording(d, lib, start, place) ==
  /\ d.path = lib.path /\ d.bottom = start /\ d.top = start + DynMemorySize
  /\ d.dataTop = d.dataBottom + lib.data /\ d.dataTop <= d.top
  /\ d.tableBottom = place /\ d.tableTop = place + Len(lib.elems) /\ Range2(d)
  /\ d.dataBottom \in Nat /\ Validate(d)
LEMMA RecordTypes ==
  ASSUME NEW lib \in Libs, NEW start \in Nat, NEW place \in Nat
  PROVE  Recording(DynamicRecord(lib, start, place, Len(lib.elems)), lib, start, place)
<1> DEFINE d == DynamicRecord(lib, start, place, Len(lib.elems))
<1>2. lib.data \in Nat /\ DynStackSize + lib.data < DynMemorySize /\ Len(lib.elems) \in Nat
  BY LibTypes
<1>1. /\ d.path = lib.path /\ d.bottom = start /\ d.top = start + DynMemorySize
      /\ d.stackTop = start + DynStackSize /\ d.stackPointer = start + DynStackSize - 1
      /\ d.dataBottom = start + DynStackSize /\ d.dataTop = start + DynStackSize + lib.data
      /\ d.tableBottom = place /\ d.tableTop = place + Len(lib.elems)
  <2> DEFINE rec(s, t) ==
        [path |-> lib.path, bottom |-> start, top |-> t,
         stackTop |-> s, stackPointer |-> s - 1, dataBottom |-> s, dataTop |-> s + lib.data,
         tableBottom |-> place, tableTop |-> place + Len(lib.elems)]
  <2>1. d = rec(start + DynStackSize, start + DynMemorySize)
    BY Zenon DEF DynamicRecord
  <2>2. ASSUME NEW s, NEW t
        PROVE  /\ rec(s, t).path = lib.path /\ rec(s, t).bottom = start /\ rec(s, t).top = t
               /\ rec(s, t).stackTop = s /\ rec(s, t).stackPointer = s - 1
               /\ rec(s, t).dataBottom = s /\ rec(s, t).dataTop = s + lib.data
               /\ rec(s, t).tableBottom = place /\ rec(s, t).tableTop = place + Len(lib.elems)
    OBVIOUS
  <2>3. PICK s, t : s = start + DynStackSize /\ t = start + DynMemorySize
    OBVIOUS
  <2> HIDE DEF d, rec
  <2>4. d = rec(s, t)
    BY <2>1, <2>3
  <2> QED
    BY <2>2, <2>3, <2>4, <1>2, Sizes
<1> HIDE DEF d
<1>3. /\ d.dataTop = d.dataBottom + lib.data /\ d.dataTop <= d.top /\ d.dataBottom \in Nat
      /\ d.bottom < d.top /\ d.stackTop > d.bottom /\ d.stackPointer = d.stackTop - 1
      /\ d.dataTop > d.bottom /\ d.tableTop >= d.tableBottom /\ Range2(d)
  <2>1. PICK k \in Nat, n \in Nat, s \in Nat, t \in Nat :
          k = lib.data /\ n = Len(lib.elems) /\ s = DynStackSize /\ t = DynMemorySize
    BY <1>2, Sizes
  <2>2. s > 0 /\ s + k < t
    BY <1>2, <2>1, Sizes
  <2>3. /\ d.bottom = start /\ d.top = start + t /\ d.stackTop = start + s /\ d.stackPointer = start + s - 1
        /\ d.dataBottom = start + s /\ d.dataTop = start + s + k
        /\ d.tableBottom = place /\ d.tableTop = place + n
    BY <1>1, <2>1
  <2>4. d.dataTop = d.dataBottom + k /\ d.dataTop <= d.top /\ d.dataBottom \in Nat
    BY <2>2, <2>3
  <2>5. d.bottom < d.top /\ d.stackTop > d.bottom /\ d.stackPointer = d.stackTop - 1
    BY <2>2, <2>3
  <2>6. d.dataTop > d.bottom /\ d.tableTop >= d.tableBottom
    BY <2>2, <2>3
  <2>7. Range2(d)
    BY <2>2, <2>3 DEF Range2
  <2> QED
    BY <2>1, <2>4, <2>5, <2>6, <2>7
<1> QED
  BY <1>1, <1>3, Zenon DEF Validate, Recording, d

Empties(n) == [i \in 1..n |-> NoFunction]
Exported(lib) == {i \in DOMAIN lib.elems : lib.elems[i] \in lib.exports}
Places(lib, base) ==
  [f \in {lib.elems[i] : i \in Exported(lib)} |-> base + (CHOOSE i \in Exported(lib) : lib.elems[i] = f) - 1]
Data(lib, base) == [g \in DOMAIN lib.globals |-> base + lib.globals[g]]
Offers(md, x, lib, base, data) ==
  /\ Only(md, x, {"got", "gotMem"})
  /\ x.got = Insert(md.got, Places(lib, base)) /\ x.gotMem = Insert(md.gotMem, Data(lib, data))
LEMMA GOTFrame ==
  ASSUME NEW md, IsModule(md), NEW lib, NEW base, NEW data,
         NEW x, x = AddModuleToGOT(md, lib.elems, lib.exports, base, lib.globals, data)
  PROVE  Offers(md, x, lib, base, data)
<1> DEFINE y(p, q) == [md EXCEPT !.got = Insert(@, p), !.gotMem = Insert(@, q)]
<1>1. ASSUME NEW p, NEW q
      PROVE  /\ Only(md, y(p, q), {"got", "gotMem"})
             /\ y(p, q).got = Insert(md.got, p) /\ y(p, q).gotMem = Insert(md.gotMem, q)
  BY DEF Only, IsModule, Fields
<1>2. x = y(Places(lib, base), Data(lib, data))
  BY Zenon DEF AddModuleToGOT, Places, Data, Exported
<1> HIDE DEF y
<1> QED
  BY <1>1, <1>2 DEF Offers
RecordedIn(md, x, d, lib) ==
  /\ Only(md, x, {"mem", "table", "dyn", "got", "gotMem"}) /\ MemoryOK(x) /\ DOMAIN x.mem = DOMAIN md.mem
  /\ \A i \in DOMAIN md.mem : x.mem[i].by = md.mem[i].by
  /\ x.table = md.table \o Empties(d.tableTop - d.tableBottom) /\ x.dyn = Append(md.dyn, d)
  /\ x.got = Insert(md.got, Places(lib, d.tableBottom)) /\ x.gotMem = Insert(md.gotMem, Data(lib, d.dataBottom))
LEMMA RecordFrame ==
  ASSUME NEW md, MemoryOK(md), NEW base, NEW d, NEW lib
  PROVE  RecordedIn(md, Recorded(md, base, d, lib), d, lib)
<1> DEFINE x == Recorded(md, base, d, lib)
           a == CreateMemoryGuardRegion(md, base)
           b == CreateMemoryGuardRegion(a, d.top)
           e == Empties(d.tableTop - d.tableBottom)
           c == [b EXCEPT !.table = @ \o e, !.dyn = Append(@, d)]
<1>1. /\ Only(md, a, {"mem"}) /\ MemoryOK(a) /\ Len(a.mem) = Len(md.mem) /\ DOMAIN a.mem = DOMAIN md.mem
      /\ \A i \in DOMAIN md.mem : a.mem[i].by = md.mem[i].by
  BY GuardFrame
<1> HIDE DEF a
<1>2. /\ Only(a, b, {"mem"}) /\ MemoryOK(b) /\ Len(b.mem) = Len(a.mem) /\ DOMAIN b.mem = DOMAIN a.mem
      /\ \A i \in DOMAIN a.mem : b.mem[i].by = a.mem[i].by
  BY <1>1, GuardFrame
<1>3. x = AddModuleToGOT(c, lib.elems, lib.exports, d.tableBottom, lib.globals, d.dataBottom)
  BY Zenon DEF Recorded, Empties, a
<1> HIDE DEF b, e
<1> HIDE DEF x
<1>4. IsModule(b) /\ b.got = md.got /\ b.gotMem = md.gotMem /\ b.table = md.table /\ b.dyn = md.dyn
  BY <1>1, <1>2 DEF Only, Fields
<1>5. Only(b, c, {"table", "dyn"}) /\ c.table = b.table \o e /\ c.dyn = Append(b.dyn, d)
  BY <1>4 DEF Only, IsModule, Fields
<1> HIDE DEF c
<1>6. IsModule(c) /\ c.mem = b.mem /\ c.brk = b.brk /\ c.got = md.got /\ c.gotMem = md.gotMem
  BY <1>4, <1>5 DEF Only, Fields
<1>7. /\ Only(c, x, {"got", "gotMem"})
      /\ x.got = Insert(c.got, Places(lib, d.tableBottom)) /\ x.gotMem = Insert(c.gotMem, Data(lib, d.dataBottom))
  <2>1. Offers(c, x, lib, d.tableBottom, d.dataBottom)
    BY <1>3, <1>6, GOTFrame
  <2> QED
    BY <2>1, Zenon DEF Offers
<1>8. x.mem = c.mem /\ x.brk = c.brk /\ x.table = c.table /\ x.dyn = c.dyn /\ IsModule(x)
  BY <1>7 DEF Only, Fields
<1>9. MemoryOK(x)
  BY <1>2, <1>6, <1>8, SameMemory
<1>10. Only(md, x, {"mem", "table", "dyn", "got", "gotMem"})
  BY <1>1, <1>2, <1>5, <1>7 DEF Only
<1> QED
  <2>1. RecordedIn(md, x, d, lib)
    BY <1>1, <1>2, <1>4, <1>5, <1>6, <1>7, <1>8, <1>9, <1>10 DEF e, RecordedIn
  <2> QED
    BY <2>1 DEF x

(* A library that is recorded is about to be linked. *)
LEMMA RecordLinks ==
  ASSUME NEW o, TableOK(o), NEW lib \in Libs, NEW start \in Nat, NEW d,
         d = DynamicRecord(lib, start, Len(o.table), Len(lib.elems)),
         NEW x, IsModule(x), x.table = o.table \o Empties(d.tableTop - d.tableBottom), x.missing = EmptyMap,
         x.got = Insert(o.got, Places(lib, d.tableBottom))
  PROVE  LinkInv(o, x, d, lib) /\ Range2(d)
<1> DEFINE n == Len(o.table)
           k == Len(lib.elems)
<1>1. IsSeq(o.table) /\ n \in Nat /\ DOMAIN o.table = 1..n
  BY SeqType DEF TableOK
<1>2. k \in Nat /\ DOMAIN lib.elems = 1..k
  BY LibTypes
<1>3. d.tableBottom = n /\ d.tableTop = n + k /\ Range2(d)
  <2>1. Recording(DynamicRecord(lib, start, n, Len(lib.elems)), lib, start, n)
    BY <1>1, RecordTypes
  <2>2. Recording(d, lib, start, n)
    BY <2>1
  <2> QED
    BY <2>2 DEF Recording
<1> HIDE DEF n, k
<1>4. /\ IsSeq(x.table) /\ Len(x.table) = n + k /\ \A i \in 1..n : x.table[i] = o.table[i]
  <2>1. d.tableTop - d.tableBottom = k
    BY <1>1, <1>2, <1>3
  <2>2. Empties(k) = [i \in 1..k |-> Empties(k)[i]]
    BY DEF Empties
  <2>3. IsSeq(Empties(k)) /\ Len(Empties(k)) = k
    BY <1>2, <2>2, MadeSeq
  <2>4. PICK t, e : t = o.table /\ e = Empties(k)
    OBVIOUS
  <2>5. x.table = t \o e /\ IsSeq(t) /\ IsSeq(e)
    BY <1>1, <2>1, <2>3, <2>4
  <2>6. /\ IsSeq(t \o e) /\ Len(t \o e) = Len(t) + Len(e)
        /\ \A i \in 1..(Len(t) + Len(e)) : (t \o e)[i] = IF i <= Len(t) THEN t[i] ELSE e[i - Len(t)]
    BY <2>5, ConcatSeq
  <2>7. Len(t) = n /\ Len(e) = k
    BY <2>3, <2>4 DEF n
  <2>8. \A i \in 1..n : i \in 1..(n + k) /\ i <= n
    BY <1>1, <1>2
  <2> QED
    BY <2>4, <2>5, <2>6, <2>7, <2>8
<1>5. DOMAIN x.missing = {}
  BY DEF EmptyMap
<1>6. /\ DOMAIN x.got = DOMAIN o.got \cup DOMAIN Places(lib, n)
      /\ \A f \in DOMAIN o.got : x.got[f] = o.got[f]
      /\ \A f \in DOMAIN Places(lib, n) : f \notin DOMAIN o.got => x.got[f] = Places(lib, n)[f]
  BY <1>3 DEF Insert
<1>7. \A f \in DOMAIN o.got : Will(x, d, lib, f)
  <2> TAKE f \in DOMAIN o.got
  <2>1. Leads(o, o.got[f], f) /\ x.got[f] = o.got[f]
    BY <1>6 DEF TableOK
  <2>2. o.got[f] \in Nat /\ o.got[f] + 1 \in 1..n /\ o.table[o.got[f] + 1][2] = f
    BY <1>1, <2>1 DEF Leads
  <2>3. ~InRange(d, o.got[f]) /\ o.got[f] < n + k
    BY <1>1, <1>2, <1>3, <2>2 DEF InRange
  <2> QED
    BY <1>4, <2>1, <2>2, <2>3 DEF Will
<1>8. \A f \in DOMAIN Places(lib, n) : f \notin DOMAIN o.got => Will(x, d, lib, f)
  <2> SUFFICES ASSUME NEW f \in DOMAIN Places(lib, n), f \notin DOMAIN o.got PROVE Will(x, d, lib, f)
    OBVIOUS
  <2>1. f \in {lib.elems[i] : i \in Exported(lib)}
    BY DEF Places
  <2> DEFINE c == CHOOSE i \in Exported(lib) : lib.elems[i] = f
  <2>2. c \in Exported(lib) /\ lib.elems[c] = f
    BY <2>1
  <2>3. x.got[f] = n + c - 1
    BY <1>6, <2>1 DEF Places
  <2> HIDE DEF c
  <2>4. c \in 1..k
    BY <1>2, <2>2 DEF Exported
  <2>5. /\ n + c - 1 \in Nat /\ n + c - 1 < n + k /\ n <= n + c - 1 /\ n + c - 1 + 1 - n = c
    BY <1>1, <1>2, <2>4
  <2>6. InRange(d, x.got[f])
    BY <1>3, <2>3, <2>5 DEF InRange
  <2> QED
    BY <1>3, <1>4, <2>2, <2>3, <2>5, <2>6 DEF Will
<1>9. \A f \in DOMAIN x.got : Will(x, d, lib, f)
  BY <1>6, <1>7, <1>8
<1>10. /\ IsModule(x) /\ IsSeq(x.table) /\ d.tableTop <= Len(x.table)
       /\ \A i \in 1..d.tableBottom : x.table[i] = o.table[i]
       /\ DOMAIN o.got \subseteq DOMAIN x.got
  BY <1>1, <1>2, <1>3, <1>4, <1>6
<1>11. /\ \A f \in DOMAIN x.missing :
            x.missing[f] \in Nat /\ d.tableTop <= x.missing[f] /\ x.missing[f] < Len(x.table)
       /\ \A f, g \in DOMAIN x.missing : f = g \/ x.missing[f] # x.missing[g]
       /\ \A f \in DOMAIN x.got, g \in DOMAIN x.missing : x.got[f] # x.missing[g]
       /\ \A f \in DOMAIN x.missing : f \in Range(lib.gotFuncs) /\ f \notin MainExports
  BY <1>5, Zenon
<1> QED
  BY <1>3, <1>9, <1>10, <1>11, Zenon DEF LinkInv

-----------------------------------------------------------------------------
(* The functions and the data of a library reach its places.               *)
WithElems(md, d, lib, x) ==
  /\ IsSeq(x.table) /\ Len(x.table) = Len(md.table)
  /\ \A i \in 1..Len(md.table) :
       x.table[i] = IF i - d.tableBottom \in DOMAIN lib.elems
                    THEN <<lib.path, lib.elems[i - d.tableBottom]>> ELSE md.table[i]
Filled(md, x) ==
  /\ x.missing = EmptyMap /\ x.got = Insert(md.got, md.missing)
  /\ IsSeq(x.table) /\ Len(x.table) = Len(md.table)
  /\ \A i \in 1..Len(md.table) : (\A f \in DOMAIN md.missing : md.missing[f] # i - 1) => x.table[i] = md.table[i]
  /\ \A i \in 1..Len(md.table), f \in DOMAIN md.missing : md.missing[f] = i - 1 => x.table[i][2] = f
LEMMA InstantiateFrame ==
  ASSUME NEW md, MemoryOK(md), IsSeq(md.table), NEW lib, NEW d, NEW x, x = Instantiate(md, lib, d)
  PROVE  /\ Only(md, x, {"mem", "table"}) /\ MemoryOK(x) /\ DOMAIN x.mem = DOMAIN md.mem
         /\ \A i \in DOMAIN md.mem : x.mem[i].by = md.mem[i].by
         /\ WithElems(md, d, lib, x)
<1> DEFINE T == [i \in DOMAIN md.table |->
                   IF i - d.tableBottom \in DOMAIN lib.elems
                   THEN <<lib.path, lib.elems[i - d.tableBottom]>> ELSE md.table[i]]
           e == [i \in DOMAIN md.mem |-> IF lib.data > 0 /\ i \in PagesIn(d.dataBottom, lib.data)
                                         THEN [md.mem[i] EXCEPT !.c = DataC] ELSE md.mem[i]]
           y(t, m) == [md EXCEPT !.table = t, !.mem = m]
<1>1. x = y(T, e)
  BY Zenon DEF Instantiate
<1>2. IsModule(md) /\ IsSeq(md.mem) /\ \A i \in DOMAIN md.mem : IsPage(md.mem[i])
  BY DEF MemoryOK
<1>3. ASSUME NEW t, NEW m
      PROVE  Only(md, y(t, m), {"mem", "table"}) /\ y(t, m).table = t /\ y(t, m).mem = m
  BY <1>2 DEF Only, IsModule, Fields
<1>4. \A i \in DOMAIN md.mem : IsPage(e[i]) /\ e[i].by = md.mem[i].by
  <2> TAKE i \in DOMAIN md.mem
  <2>1. PICK p : p = md.mem[i] /\ IsPage(p)
    BY <1>2
  <2>2. IsPage([p EXCEPT !.c = DataC]) /\ [p EXCEPT !.c = DataC].by = p.by
    BY <2>1 DEF IsPage
  <2>3. e[i] = [p EXCEPT !.c = DataC] \/ e[i] = p
    BY <2>1, Zenon
  <2> HIDE DEF e
  <2> QED
    BY <2>1, <2>2, <2>3
<1>5. e = [i \in DOMAIN md.mem |-> e[i]]
  OBVIOUS
<1>6. Len(md.table) \in Nat /\ DOMAIN md.table = 1..Len(md.table)
  BY SeqType
<1>7. \A i \in 1..Len(md.table) :
         T[i] = IF i - d.tableBottom \in DOMAIN lib.elems
                THEN <<lib.path, lib.elems[i - d.tableBottom]>> ELSE md.table[i]
  BY <1>6, Zenon
<1>8. T = [i \in 1..Len(md.table) |-> T[i]]
  BY <1>6, Zenon
<1> HIDE DEF T, e
<1>9. IsSeq(T) /\ Len(T) = Len(md.table)
  BY <1>6, <1>8, MadeSeq
<1> HIDE DEF y
<1>10. Only(md, x, {"mem", "table"}) /\ x.table = T /\ x.mem = e
  BY <1>1, <1>3
<1>11. IsModule(x) /\ x.brk = md.brk
  BY <1>10 DEF Only, Fields
<1>12. x.mem = [i \in DOMAIN md.mem |-> e[i]]
  BY <1>5, <1>10
<1>13. MemoryOK(x) /\ DOMAIN x.mem = DOMAIN md.mem
  BY <1>4, <1>11, <1>12, Repaged
<1>14. \A i \in DOMAIN md.mem : x.mem[i].by = md.mem[i].by
  BY <1>4, <1>10
<1> QED
  BY <1>7, <1>9, <1>10, <1>13, <1>14 DEF WithElems

(* What was missing is found, or the loading fails. *)
LEMMA FillFrame ==
  ASSUME NEW md, IsModule(md), IsSeq(md.table), NEW lib, NEW r, r = FillMissing(md, lib),
         \A f, g \in DOMAIN md.missing : f = g \/ md.missing[f] # md.missing[g]
  PROVE  /\ r.ok \in BOOLEAN /\ (DOMAIN md.missing \subseteq lib.exports => r.ok)
         /\ r.ok => Only(md, r.md, {"table", "got", "missing"}) /\ Filled(md, r.md)
<1> DEFINE F(i) == {f \in DOMAIN md.missing : md.missing[f] = i - 1}
           T == [i \in DOMAIN md.table |-> IF F(i) = {} THEN md.table[i] ELSE <<lib.path, CHOOSE f \in F(i) : TRUE>>]
           y(t, g) == [md EXCEPT !.table = t, !.got = g, !.missing = EmptyMap]
<1>1. CASE \E f \in DOMAIN md.missing : f \notin lib.exports
  <2>1. r = Thrown(md)
    BY <1>1 DEF FillMissing
  <2> QED
    BY <1>1, <2>1 DEF Thrown
<1>2. CASE ~\E f \in DOMAIN md.missing : f \notin lib.exports
  <2>1. r = Done(y(T, Insert(md.got, md.missing)), 0)
    BY <1>2, Zenon DEF FillMissing
  <2>2. ASSUME NEW t, NEW g
        PROVE  /\ Only(md, y(t, g), {"table", "got", "missing"}) /\ y(t, g).table = t /\ y(t, g).got = g
               /\ y(t, g).missing = EmptyMap
    BY DEF Only, IsModule, Fields
  <2>3. Len(md.table) \in Nat /\ DOMAIN md.table = 1..Len(md.table)
    BY SeqType
  <2>4. T = [i \in 1..Len(md.table) |-> T[i]]
    <3> HIDE DEF F
    <3> QED
      BY <2>3
  <2>5. \A i \in 1..Len(md.table) : (\A f \in DOMAIN md.missing : md.missing[f] # i - 1) => T[i] = md.table[i]
    <3> TAKE i \in 1..Len(md.table)
    <3> HAVE \A f \in DOMAIN md.missing : md.missing[f] # i - 1
    <3>1. F(i) = {}
      OBVIOUS
    <3> HIDE DEF F
    <3> QED
      BY <2>3, <3>1
  <2>6. \A i \in 1..Len(md.table), f \in DOMAIN md.missing : md.missing[f] = i - 1 => T[i][2] = f
    <3> TAKE i \in 1..Len(md.table), f \in DOMAIN md.missing
    <3> HAVE md.missing[f] = i - 1
    <3>1. f \in F(i) /\ \A g \in F(i) : g = f
      OBVIOUS
    <3> HIDE DEF F
    <3>2. F(i) # {} /\ (CHOOSE g \in F(i) : TRUE) = f
      BY <3>1
    <3>3. T[i] = <<lib.path, CHOOSE g \in F(i) : TRUE>>
      BY <2>3, <3>2
    <3> QED
      BY <3>2, <3>3
  <2> HIDE DEF T
  <2>7. IsSeq(T) /\ Len(T) = Len(md.table)
    BY <2>3, <2>4, MadeSeq
  <2> HIDE DEF y
  <2>8. r.ok = TRUE /\ r.md = y(T, Insert(md.got, md.missing))
    BY <2>1 DEF Done
  <2>9. PICK g : g = Insert(md.got, md.missing)
    OBVIOUS
  <2>10. /\ Only(md, r.md, {"table", "got", "missing"}) /\ r.md.table = T /\ r.md.got = g
         /\ r.md.missing = EmptyMap
    BY <2>2, <2>8, <2>9
  <2> QED
    BY <2>5, <2>6, <2>7, <2>8, <2>9, <2>10 DEF Filled
<1> QED
  BY <1>1, <1>2

(* A table whose places are filled. *)
LEMMA LinkedTable ==
  ASSUME NEW o, NEW d, Range2(d), NEW lib \in Libs, d.path = lib.path, d.tableTop = d.tableBottom + Len(lib.elems),
         NEW md, LinkInv(o, md, d, lib),
         NEW x, x.got = md.got, x.missing = md.missing, WithElems(md, d, lib, x), NEW z, Filled(x, z)
  PROVE  /\ HasTable(z, d) /\ DOMAIN z.got = DOMAIN md.got \cup DOMAIN md.missing
         /\ \A i \in 1..d.tableBottom : z.table[i] = o.table[i]
         /\ d.tableBottom <= Len(z.table) /\ \A f \in DOMAIN z.got : Leads(z, z.got[f], f)
<1> DEFINE n == d.tableBottom
           k == Len(lib.elems)
           t == Len(md.table)
<1>0. /\ IsSeq(z.table) /\ Len(x.table) = t /\ Len(z.table) = t /\ z.got = Insert(md.got, md.missing)
      /\ \A i \in 1..t :
           x.table[i] = IF i - n \in DOMAIN lib.elems THEN <<lib.path, lib.elems[i - n]>> ELSE md.table[i]
      /\ \A i \in 1..t : (\A f \in DOMAIN md.missing : md.missing[f] # i - 1) => z.table[i] = x.table[i]
      /\ \A i \in 1..t, f \in DOMAIN md.missing : md.missing[f] = i - 1 => z.table[i][2] = f
  BY ZenonT(60) DEF WithElems, Filled
<1>1. n \in Nat /\ k \in Nat /\ d.tableTop = n + k /\ DOMAIN lib.elems = 1..k
  BY LibTypes DEF Range2
<1>2. t \in Nat /\ n + k <= t /\ DOMAIN z.table = 1..t
  BY <1>0, <1>1, SeqType DEF LinkInv
<1>3. \A f \in DOMAIN md.missing : md.missing[f] \in Nat /\ n + k <= md.missing[f] /\ md.missing[f] < t
  BY <1>1, Zenon DEF LinkInv
<1> HIDE DEF n, k, t
<1>4. \A i \in 1..(n + k) : z.table[i] = x.table[i]
  <2> TAKE i \in 1..(n + k)
  <2>1. i \in 1..t /\ \A f \in DOMAIN md.missing : md.missing[f] # i - 1
    BY <1>1, <1>2, <1>3
  <2> QED
    BY <1>0, <2>1
<1>5. \A i \in 1..n : z.table[i] = o.table[i]
  <2> TAKE i \in 1..n
  <2>1. i \in 1..(n + k) /\ i \in 1..t /\ i - n \notin 1..k
    BY <1>1, <1>2
  <2>2. x.table[i] = md.table[i] /\ md.table[i] = o.table[i]
    BY <1>0, <1>1, <2>1 DEF LinkInv, n, t
  <2> QED
    BY <1>4, <2>1, <2>2
<1>6. \A e \in 1..k : z.table[n + e] = <<lib.path, lib.elems[e]>>
  <2> TAKE e \in 1..k
  <2>1. n + e \in 1..(n + k) /\ n + e \in 1..t /\ (n + e) - n = e
    BY <1>1, <1>2
  <2>2. x.table[n + e] = <<lib.path, lib.elems[e]>>
    BY <1>0, <1>1, <2>1
  <2> QED
    BY <1>4, <2>1, <2>2
<1>7. HasTable(z, d)
  BY <1>0, <1>1, <1>2, <1>6, LibTypes DEF HasTable, n, k, t
<1>8. /\ DOMAIN z.got = DOMAIN md.got \cup DOMAIN md.missing
      /\ \A f \in DOMAIN md.got : z.got[f] = md.got[f]
      /\ \A f \in DOMAIN md.missing : f \notin DOMAIN md.got => z.got[f] = md.missing[f]
  BY <1>0 DEF Insert
<1>9. \A f \in DOMAIN md.got : Leads(z, z.got[f], f)
  <2> TAKE f \in DOMAIN md.got
  <2>1. PICK g : g = md.got[f]
    OBVIOUS
  <2>2. /\ g \in Nat /\ g < t
        /\ IF n <= g /\ g < n + k THEN lib.elems[g + 1 - n] = f ELSE md.table[g + 1][2] = f
    BY <1>1, <2>1 DEF LinkInv, Will, InRange, n, t
  <2>3. \A h \in DOMAIN md.missing : md.missing[h] # g
    BY <2>1 DEF LinkInv
  <2>4. g + 1 \in 1..t /\ z.table[g + 1] = x.table[g + 1]
    <3>1. g + 1 \in 1..t /\ (g + 1) - 1 = g
      BY <1>2, <2>2
    <3> QED
      BY <1>0, <2>3, <3>1
  <2>5. CASE n <= g /\ g < n + k
    <3>1. g + 1 - n \in 1..k /\ n + (g + 1 - n) = g + 1
      BY <1>1, <2>2, <2>5
    <3>2. z.table[g + 1] = <<lib.path, lib.elems[g + 1 - n]>>
      BY <1>6, <3>1
    <3> QED
      BY <1>2, <1>8, <2>1, <2>2, <2>4, <2>5, <3>2 DEF Leads
  <2>6. CASE ~(n <= g /\ g < n + k)
    <3>1. g + 1 - n \notin 1..k
      BY <1>1, <2>2, <2>6
    <3>2. PICK i : i = g + 1
      OBVIOUS
    <3>4. i \in 1..t /\ i - n \notin 1..k
      BY <1>1, <2>2, <2>4, <3>1, <3>2
    <3>3. x.table[i] = md.table[i]
      BY <1>0, <1>1, <3>4
    <3> QED
      BY <1>2, <1>8, <2>1, <2>2, <2>4, <2>6, <3>2, <3>3 DEF Leads
  <2> QED
    BY <2>5, <2>6
<1>10. \A f \in DOMAIN md.missing : f \notin DOMAIN md.got => Leads(z, z.got[f], f)
  <2> SUFFICES ASSUME NEW f \in DOMAIN md.missing, f \notin DOMAIN md.got PROVE Leads(z, z.got[f], f)
    OBVIOUS
  <2>1. PICK g : g = md.missing[f]
    OBVIOUS
  <2>2. g \in Nat /\ g < t /\ g + 1 \in 1..t /\ (g + 1) - 1 = g
    BY <1>2, <1>3, <2>1
  <2>3. z.table[g + 1][2] = f
    BY <1>0, <2>1, <2>2
  <2> QED
    BY <1>2, <1>8, <2>1, <2>2, <2>3 DEF Leads
<1> QED
  BY <1>0, <1>1, <1>2, <1>5, <1>7, <1>8, <1>9, <1>10 DEF n

LEMMA AppendRange ==
  ASSUME NEW s, IsSeq(s), NEW x
  PROVE  /\ Range(Append(s, x)) = Range(s) \cup {x} /\ IsSeq(Append(s, x))
         /\ DOMAIN Append(s, x) = DOMAIN s \cup {Len(s) + 1} /\ Append(s, x)[Len(s) + 1] = x
         /\ \A i \in DOMAIN s : i # Len(s) + 1 /\ Append(s, x)[i] = s[i]
<1>1. PICK t : t = Append(s, x)
  OBVIOUS
<1>2. /\ IsSeq(t) /\ Len(t) = Len(s) + 1 /\ Len(s) \in Nat /\ DOMAIN s = 1..Len(s) /\ t[Len(s) + 1] = x
      /\ \A i \in 1..Len(s) : t[i] = s[i]
  BY <1>1, AppendTable, SeqType
<1>3. DOMAIN t = 1..(Len(s) + 1)
  BY <1>2, SeqType
<1>4. DOMAIN t = DOMAIN s \cup {Len(s) + 1} /\ \A i \in DOMAIN s : i # Len(s) + 1
  BY <1>2, <1>3
<1>5. Range(t) = Range(s) \cup {x}
  BY <1>2, <1>4 DEF Range
<1> QED
  BY <1>1, <1>2, <1>4, <1>5

(* A module that a library was linked to. *)
LinkedTo(o, lib, d, z) ==
  /\ IsModule(z) /\ IsSeq(z.table) /\ z.dyn = Append(o.dyn, d) /\ z.loading = "" /\ z.missing = EmptyMap
  /\ DOMAIN z.paths = DOMAIN o.paths \cup {lib.path} /\ z.pointers = o.pointers
  /\ z.gotMem = Insert(o.gotMem, Data(lib, d.dataBottom))
  /\ Len(o.table) <= Len(z.table) /\ \A i \in 1..Len(o.table) : z.table[i] = o.table[i]
  /\ DOMAIN o.got \subseteq DOMAIN z.got /\ \A f \in DOMAIN z.got : Leads(z, z.got[f], f)
  /\ Range(lib.gotFuncs) \subseteq DOMAIN z.got /\ HasTable(z, d)
RecordOf(d, lib) ==
  d.path = lib.path /\ d.dataTop <= d.top /\ d.dataBottom \in Nat /\ d.dataTop = d.dataBottom + lib.data
LEMMA LinkedTables ==
  ASSUME NEW o, TableOK(o), NEW lib \in Libs, lib.path \notin DOMAIN o.paths, NEW d, RecordOf(d, lib),
         NEW z, LinkedTo(o, lib, d, z)
  PROVE  TableOK(z)
<1>1. /\ IsSeq(o.table) /\ IsSeq(o.dyn) /\ DOMAIN o.paths \subseteq Paths /\ DOMAIN o.gotMem \subseteq DataNames(o)
      /\ \A e \in Range(o.dyn) : DynOK(o, e)
  BY DEF TableOK
<1>2. PICK n \in Nat, m \in Nat :
        n = Len(o.table) /\ m = Len(z.table) /\ DOMAIN o.table = 1..n /\ DOMAIN z.table = 1..m
  BY <1>1, SeqType DEF LinkedTo
<1>0. n <= m /\ \A i \in 1..n : z.table[i] = o.table[i]
  BY <1>2 DEF LinkedTo
<1>3. Range(z.dyn) = Range(o.dyn) \cup {d} /\ IsSeq(z.dyn)
  <2>1. PICK s : s = o.dyn
    OBVIOUS
  <2>2. Range(Append(s, d)) = Range(s) \cup {d} /\ IsSeq(Append(s, d))
    BY <1>1, <2>1, AppendRange
  <2> QED
    BY <2>1, <2>2 DEF LinkedTo
<1>4. lib.path \in Paths /\ LibAt(lib.path) = lib /\ \A g \in DOMAIN lib.globals : lib.globals[g] \in 0..(lib.data - 1)
  BY LibTypes
<1>5. /\ DOMAIN z.gotMem = DOMAIN o.gotMem \cup DOMAIN lib.globals
      /\ \A g \in DOMAIN o.gotMem : z.gotMem[g] = o.gotMem[g]
      /\ \A g \in DOMAIN lib.globals : g \notin DOMAIN o.gotMem => z.gotMem[g] = d.dataBottom + lib.globals[g]
  <2>1. /\ DOMAIN Data(lib, d.dataBottom) = DOMAIN lib.globals
        /\ \A g \in DOMAIN lib.globals : Data(lib, d.dataBottom)[g] = d.dataBottom + lib.globals[g]
    BY DEF Data
  <2>2. PICK v : v = Data(lib, d.dataBottom)
    OBVIOUS
  <2>3. /\ DOMAIN z.gotMem = DOMAIN o.gotMem \cup DOMAIN v
        /\ \A g \in DOMAIN o.gotMem : z.gotMem[g] = o.gotMem[g]
        /\ \A g \in DOMAIN v : g \notin DOMAIN o.gotMem => z.gotMem[g] = v[g]
    BY <2>2 DEF Insert, LinkedTo
  <2> QED
    BY <2>1, <2>2, <2>3
<1>6. DOMAIN lib.globals \cap DataNames(o) = {}
  <2>1. DOMAIN lib.globals \cap DOMAIN MainGlobals = {}
    BY LibAssumption
  <2>2. ASSUME NEW e \in Range(o.dyn) PROVE DOMAIN lib.globals \cap DOMAIN LibAt(e.path).globals = {}
    <3>1. e.path \in DOMAIN o.paths /\ e.path \in Paths
      BY <1>1, <2>2 DEF DynOK
    <3>2. PICK other \in Libs : other.path = e.path
      BY <3>1 DEF Paths
    <3>3. LibAt(e.path) = other /\ other.path # lib.path
      BY <3>1, <3>2, LibTypes
    <3> QED
      BY <3>3, LibAssumption
  <2> QED
    BY <2>1, <2>2 DEF DataNames
<1>7. HasData(z, d)
  <2>1. ASSUME NEW g \in DOMAIN lib.globals PROVE g \in DOMAIN z.gotMem /\ z.gotMem[g] \in d.dataBottom..(d.dataTop - 1)
    <3>1. g \notin DOMAIN o.gotMem
      BY <1>1, <1>6, <2>1
    <3>2. g \in DOMAIN z.gotMem /\ z.gotMem[g] = d.dataBottom + lib.globals[g] /\ lib.globals[g] \in 0..(lib.data - 1)
      BY <1>4, <1>5, <2>1, <3>1
    <3>3. lib.data \in Nat
      BY LibTypes
    <3>4. ASSUME NEW b \in Nat, NEW k \in Nat, NEW v \in 0..(k - 1) PROVE b + v \in b..((b + k) - 1)
      BY <3>4
    <3>5. PICK b, k, v : b = d.dataBottom /\ k = lib.data /\ v = lib.globals[g]
      OBVIOUS
    <3>6. b \in Nat /\ k \in Nat /\ v \in 0..(k - 1) /\ d.dataTop = b + k /\ z.gotMem[g] = b + v
      BY <3>2, <3>3, <3>5 DEF RecordOf
    <3>7. b + v \in b..((b + k) - 1)
      BY <3>4, <3>6
    <3> QED
      BY <3>2, <3>5, <3>6, <3>7
  <2> QED
    BY <1>4, <2>1 DEF HasData, RecordOf
<1>8. DynOK(z, d)
  BY <1>4, <1>7 DEF DynOK, LinkedTo, RecordOf
<1>9. ASSUME NEW e \in Range(o.dyn) PROVE DynOK(z, e)
  <2>1. /\ e.path \in DOMAIN o.paths /\ e.path \in Paths /\ Range(LibAt(e.path).gotFuncs) \subseteq DOMAIN o.got
        /\ HasTable(o, e) /\ HasData(o, e)
    BY <1>1, <1>9 DEF DynOK
  <2>2. HasData(z, e)
    BY <1>5, <2>1 DEF HasData
  <2>3. HasTable(z, e)
    <3> DEFINE l == LibAt(e.path)
               k == Len(l.elems)
               b == e.tableBottom
    <3>1. k \in Nat /\ DOMAIN l.elems = 1..k
      BY <2>1, LibTypes DEF Paths
    <3>2. b \in Nat /\ e.tableTop = b + k /\ b + k <= n
      BY <1>2, <2>1 DEF HasTable
    <3>5. \A i \in DOMAIN l.elems : o.table[b + i] = <<e.path, l.elems[i]>>
      BY <2>1 DEF HasTable
    <3> HIDE DEF b, k, l
    <3>3. \A i \in 1..k : z.table[b + i] = <<e.path, l.elems[i]>>
      <4> TAKE i \in 1..k
      <4>1. b + i \in 1..n
        BY <1>2, <3>1, <3>2
      <4> QED
        BY <1>0, <3>1, <3>5, <4>1
    <3>4. b \in Nat /\ e.tableTop = b + k /\ b + k <= m
      BY <1>0, <1>2, <3>1, <3>2
    <3> QED
      BY <1>2, <3>1, <3>3, <3>4 DEF HasTable, b, k, l
  <2> QED
    BY <2>1, <2>2, <2>3 DEF DynOK, LinkedTo
<1>10. \A p \in z.pointers : p.ptr \in Nat /\ p.ptr + 1 \in DOMAIN z.table /\ z.table[p.ptr + 1] = p.fn
  <2> TAKE p \in z.pointers
  <2>1. p.ptr \in Nat /\ p.ptr + 1 \in 1..n /\ o.table[p.ptr + 1] = p.fn
    BY <1>2 DEF TableOK, LinkedTo
  <2>2. p.ptr + 1 \in 1..m
    BY <1>0, <1>2, <2>1
  <2> QED
    BY <1>0, <1>2, <2>1, <2>2
<1>11. DOMAIN z.gotMem \subseteq DataNames(z)
  <2>1. DOMAIN o.gotMem \subseteq DataNames(z)
    BY <1>1, <1>3 DEF DataNames
  <2>2. DOMAIN lib.globals \subseteq DataNames(z)
    <3>1. d \in Range(z.dyn) /\ LibAt(d.path) = lib
      BY <1>3, <1>4 DEF RecordOf
    <3>2. LibAt(d.path).globals = lib.globals
      BY <3>1
    <3>3. DOMAIN LibAt(d.path).globals \in {DOMAIN LibAt(e.path).globals : e \in Range(z.dyn)}
      BY <3>1, Zenon
    <3> QED
      BY <3>2, <3>3 DEF DataNames
  <2> QED
    BY <1>5, <2>1, <2>2
<1>12. \A e \in Range(z.dyn) : DynOK(z, e)
  BY <1>3, <1>8, <1>9
<1>13. DOMAIN z.paths \subseteq Paths
  BY <1>1, <1>4 DEF LinkedTo
<1> QED
  BY <1>3, <1>10, <1>11, <1>12, <1>13, Zenon DEF TableOK, LinkedTo

(* How linking can end. *)
HasAll(md, lib) == \A g \in lib.gotMem : g \in DOMAIN md.gotMem
Ends(l, w, md, lib) == IF HasAll(md, lib) THEN l = w ELSE l.ok = FALSE
LEMMA LinkedCases ==
  ASSUME NEW md, NEW base, NEW d, Validate(d), NEW lib, NEW x, x = Recorded(md, base, d, lib),
         NEW w, w = FillMissing(Instantiate(ResolveFuncs(x, lib.gotFuncs), lib, d), lib)
  PROVE  Ends(Linked(md, base, d, lib), w, x, lib)
<1> DEFINE l == Linked(md, base, d, lib)
           k == LinkModule(x, lib)
           V(r) == IF Validate(d) THEN r ELSE Thrown(r.md)
           m == Then(k, LAMBDA r : FillMissing(Instantiate(r.md, lib, d), lib))
<1>1. l = Then(m, V)
  BY Zenon DEF Linked
<1>2. CASE HasAll(x, lib)
  <2>1. k = Done(ResolveFuncs(x, lib.gotFuncs), 0)
    BY <1>2, Zenon DEF LinkModule, ResolveMem, HasAll
  <2>2. k.ok = TRUE /\ k.md = ResolveFuncs(x, lib.gotFuncs)
    BY <2>1 DEF Done
  <2>3. m = w
    BY <2>2, Zenon DEF Then
  <2> HIDE DEF k, m
  <2>4. Then(w, V) = w
    BY Zenon DEF Then
  <2> QED
    BY <1>1, <1>2, <2>3, <2>4, Zenon DEF Ends
<1>3. CASE ~HasAll(x, lib)
  <2>1. k = Thrown(x)
    BY <1>3, Zenon DEF LinkModule, ResolveMem, HasAll
  <2>2. k.ok = FALSE
    BY <2>1 DEF Thrown
  <2>3. m = k
    BY <2>2, Zenon DEF Then
  <2> HIDE DEF k, m
  <2>4. Then(k, V) = k
    BY <2>2, Zenon DEF Then
  <2> QED
    BY <1>1, <1>3, <2>2, <2>3, <2>4, Zenon DEF Ends
<1> QED
  BY <1>2, <1>3

(* The area of a library, in room at the top. *)
DynArea == DynMemorySize + 2 * GuardSize
AreaOf(d, p) == d.bottom = p + GuardSize /\ d.top = d.bottom + DynMemorySize
LEMMA DynSpace ==
  ASSUME NEW md, SpaceOK(md), NEW p, Room(md, p), NEW d, AreaOf(d, p), md.brk = p + DynArea,
         NEW z, Only(md, z, {"mem", "table", "dyn", "got", "gotMem", "missing"}), MemoryOK(z),
         DOMAIN z.mem = DOMAIN md.mem, \A i \in DOMAIN md.mem : z.mem[i].by = md.mem[i].by,
         z.dyn = Append(md.dyn, d)
  PROVE  SpaceOK(z)
<1> DEFINE new == <<"dyn", Len(md.dyn) + 1>>
<1>1. /\ z.own = md.own /\ z.stacks = md.stacks /\ z.shared = md.shared /\ z.brk = md.brk
  BY DEF Only, Fields
<1>2. LayoutTypes(md) /\ md.brk \in Nat
  BY SpaceTypes
<1>3. PICK s : s = md.dyn
  OBVIOUS
<1>4. /\ IsSeq(Append(s, d)) /\ DOMAIN Append(s, d) = DOMAIN s \cup {Len(s) + 1} /\ Append(s, d)[Len(s) + 1] = d
      /\ \A i \in DOMAIN s : Append(s, d)[i] = s[i]
  BY <1>2, <1>3, AppendRange DEF LayoutTypes
<1>5. /\ IsSeq(z.dyn) /\ DOMAIN z.dyn = DOMAIN md.dyn \cup {Len(md.dyn) + 1} /\ z.dyn[Len(md.dyn) + 1] = d
      /\ \A i \in DOMAIN md.dyn : z.dyn[i] = md.dyn[i]
  BY <1>3, <1>4
<1>6. LayoutTypes(z)
  BY <1>1, <1>2, <1>5 DEF LayoutTypes
<1>7. Stays(md, z) /\ SameBy(md, z, p)
  BY <1>1, <1>5 DEF Stays, SameBy
<1>8. Items(z) \subseteq Items(md) \cup {new}
  BY <1>1, <1>5 DEF Items
<1>9. Lo(z, new) = p /\ Hi(z, new) = md.brk
  <2>1. Lo(z, new) = d.bottom - GuardSize /\ Hi(z, new) = d.top + GuardSize
    BY <1>5, ItemBounds
  <2>2. d.bottom = p + GuardSize /\ d.top = p + GuardSize + DynMemorySize /\ p \in Nat
    BY DEF AreaOf, Room
  <2> QED
    BY <2>1, <2>2, Sizes DEF DynArea
<1>10. Demands(z) \subseteq Demands(md) \cup {} /\ Backing(z, {})
  BY <1>1 DEF Demands, Backing
<1>11. p \in Nat /\ p % 2 = 0 /\ p < md.brk
  BY DEF Room
<1> HIDE DEF new
<1>12. /\ Lo(z, new) \in Nat /\ Hi(z, new) \in Nat /\ Lo(z, new) % 2 = 0
       /\ p <= Lo(z, new) /\ Lo(z, new) < Hi(z, new) /\ Hi(z, new) <= z.brk
  BY <1>1, <1>2, <1>9, <1>11
<1> QED
  BY <1>1, <1>6, <1>7, <1>8, <1>10, <1>12, Place

(* A module that is ready for a library, and what linking it leaves. *)
Ready(o, md, p, lib) ==
  /\ SpaceOK(md) /\ Room(md, p) /\ md.brk = p + DynArea /\ lib.path \notin DOMAIN o.paths
  /\ Only(o, md, {"mem", "brk", "paths", "loading"}) /\ md.loading = lib.path
  /\ DOMAIN md.paths = DOMAIN o.paths \cup {lib.path}
RecordAt(o, d, p, lib) == d = DynamicRecord(lib, p + GuardSize, Len(o.table), Len(lib.elems))
Unloaded(md, z) == Only(md, z, {"loading"}) /\ z.loading = ""
LEMMA LinkedSpace ==
  ASSUME NEW o, TableOK(o), NEW lib \in Libs, NEW md, NEW p, Ready(o, md, p, lib),
         NEW d, RecordAt(o, d, p, lib),
         NEW l, l = Linked(md, p, d, lib)
  PROVE  /\ l.ok \in BOOLEAN
         /\ l.ok => /\ SpaceOK(l.md) /\ Only(md, l.md, {"mem", "table", "dyn", "got", "gotMem", "missing"})
                    /\ l.md.dyn = Append(md.dyn, d) /\ \A z : Unloaded(l.md, z) => TableOK(z)
         /\ lib.gotMem \subseteq DOMAIN o.gotMem \cup DOMAIN lib.globals
            /\ Range(lib.gotFuncs) \subseteq MainExports \cup lib.exports => l.ok
<1>0. PICK x, y, i, w : /\ x = Recorded(md, p, d, lib) /\ y = ResolveFuncs(x, lib.gotFuncs)
                       /\ i = Instantiate(y, lib, d) /\ w = FillMissing(i, lib)
  OBVIOUS
<1>1. /\ SpaceOK(md) /\ Room(md, p) /\ md.brk = p + DynArea /\ lib.path \notin DOMAIN o.paths
      /\ Only(o, md, {"mem", "brk", "paths", "loading"}) /\ md.loading = lib.path
      /\ DOMAIN md.paths = DOMAIN o.paths \cup {lib.path} /\ MemoryOK(md) /\ p \in Nat
  BY SpaceTypes DEF Ready, Room
<1>2. /\ md.table = o.table /\ md.got = o.got /\ md.gotMem = o.gotMem /\ md.dyn = o.dyn /\ md.missing = o.missing
      /\ md.pointers = o.pointers
  BY <1>1 DEF Only, Fields
<1>3. RecordOf(d, lib) /\ AreaOf(d, p) /\ Validate(d) /\ Range2(d)
      /\ d.tableTop = d.tableBottom + Len(lib.elems) /\ d.tableBottom = Len(o.table)
  <2>0. p + GuardSize \in Nat
    BY <1>1, Sizes
  <2>1. p + GuardSize \in Nat /\ Len(o.table) \in Nat
    <3>1. IsSeq(o.table)
      BY Zenon DEF TableOK
    <3> QED
      BY <2>0, <3>1, SeqType
  <2>2. PICK b \in Nat, t \in Nat : b = p + GuardSize /\ t = Len(o.table)
    BY <2>1
  <2>3. d = DynamicRecord(lib, b, t, Len(lib.elems))
    BY <2>2 DEF RecordAt
  <2>4. Recording(d, lib, b, t)
    BY <2>2, <2>3, RecordTypes
  <2> QED
    BY <2>2, <2>4 DEF RecordOf, AreaOf, Recording
<1>4. /\ Only(md, x, {"mem", "table", "dyn", "got", "gotMem"}) /\ MemoryOK(x)
      /\ DOMAIN x.mem = DOMAIN md.mem /\ \A j \in DOMAIN md.mem : x.mem[j].by = md.mem[j].by
      /\ x.table = md.table \o Empties(d.tableTop - d.tableBottom) /\ x.dyn = Append(md.dyn, d)
      /\ x.got = Insert(md.got, Places(lib, d.tableBottom)) /\ x.gotMem = Insert(md.gotMem, Data(lib, d.dataBottom))
  <2>1. RecordedIn(md, x, d, lib)
    BY <1>0, <1>1, RecordFrame
  <2> QED
    BY <2>1, Zenon DEF RecordedIn
<1>5. IsModule(x) /\ x.missing = EmptyMap /\ x.loading = lib.path
  BY <1>1, <1>2, <1>4, ZenonT(60) DEF TableOK, Only, Fields
<1>6. LinkInv(o, x, d, lib)
  <2>1. p + GuardSize \in Nat
    BY <1>1, Sizes
  <2>2. PICK b \in Nat : b = p + GuardSize
    BY <2>1
  <2>3. d = DynamicRecord(lib, b, Len(o.table), Len(lib.elems))
    BY <2>2 DEF RecordAt
  <2>4. x.table = o.table \o Empties(d.tableTop - d.tableBottom) /\ x.got = Insert(o.got, Places(lib, d.tableBottom))
    BY <1>2, <1>4
  <2> QED
    BY <1>5, <2>3, <2>4, RecordLinks
<1>7. IsSeq(x.dyn)
  <2>1. PICK s : s = o.dyn
    OBVIOUS
  <2>2. IsSeq(Append(s, d))
    BY <2>1, AppendRange DEF TableOK
  <2> QED
    BY <1>2, <1>4, <2>1, <2>2
<1>8. /\ LinkInv(o, y, d, lib) /\ Only(x, y, {"table", "got", "missing"})
      /\ \A f \in Range(lib.gotFuncs) : Resolved(y, f)
  <2>1. x.loading # "main"
    BY <1>5, LibTypes
  <2> QED
    BY <1>0, <1>3, <1>6, <1>7, <2>1, ResolveAll
<1>9. y.mem = x.mem /\ y.brk = x.brk /\ IsModule(y) /\ IsSeq(y.table)
  BY <1>8 DEF Only, Fields, LinkInv
<1>10. MemoryOK(y)
  BY <1>4, <1>9, SameMemory
<1>11. /\ Only(y, i, {"mem", "table"}) /\ MemoryOK(i) /\ DOMAIN i.mem = DOMAIN y.mem
       /\ \A j \in DOMAIN y.mem : i.mem[j].by = y.mem[j].by
       /\ WithElems(y, d, lib, i)
  BY <1>0, <1>9, <1>10, InstantiateFrame
<1>12. i.missing = y.missing /\ i.got = y.got /\ IsModule(i)
  BY <1>11 DEF Only, Fields
<1>21. IsSeq(i.table)
  BY <1>11 DEF WithElems
<1>13. \A f, g \in DOMAIN i.missing : f = g \/ i.missing[f] # i.missing[g]
  BY <1>8, <1>12 DEF LinkInv
<1>14. /\ w.ok \in BOOLEAN /\ (DOMAIN i.missing \subseteq lib.exports => w.ok)
       /\ w.ok => Only(i, w.md, {"table", "got", "missing"}) /\ Filled(i, w.md)
  BY <1>0, <1>12, <1>13, <1>21, FillFrame
<1>15. \/ HasAll(x, lib) /\ l = w
       \/ ~HasAll(x, lib) /\ l.ok = FALSE
  <2>1. w = FillMissing(Instantiate(ResolveFuncs(x, lib.gotFuncs), lib, d), lib) /\ x = Recorded(md, p, d, lib)
    BY <1>0
  <2>2. Ends(Linked(md, p, d, lib), w, x, lib)
    BY <1>3, <2>1, LinkedCases
  <2> QED
    BY <2>2, Zenon DEF Ends
<1>16. l.ok \in BOOLEAN
  BY <1>14, <1>15, Zenon
<1>17. ASSUME l.ok
       PROVE  /\ SpaceOK(l.md) /\ Only(md, l.md, {"mem", "table", "dyn", "got", "gotMem", "missing"})
              /\ l.md.dyn = Append(md.dyn, d) /\ \A z : Unloaded(l.md, z) => TableOK(z)
  <2>0. l = w /\ w.ok
    BY <1>15, <1>17, Zenon
  <2> DEFINE v == l.md
  <2>1. Only(i, v, {"table", "got", "missing"}) /\ Filled(i, v)
    BY <1>14, <2>0
  <2> HIDE DEF v
  <2>2. Only(md, v, {"mem", "table", "dyn", "got", "gotMem", "missing"})
    BY <1>4, <1>8, <1>11, <2>1 DEF Only
  <2>3. /\ v.mem = i.mem /\ v.brk = i.brk /\ IsModule(v) /\ v.dyn = x.dyn /\ v.gotMem = x.gotMem
    BY <1>8, <1>11, <2>1 DEF Only, Fields
  <2>4. MemoryOK(v)
    BY <1>11, <2>3, SameMemory
  <2>5. SpaceOK(v)
    <3>1. DOMAIN v.mem = DOMAIN md.mem /\ \A j \in DOMAIN md.mem : v.mem[j].by = md.mem[j].by
      BY <1>4, <1>9, <1>11, <2>3
    <3>2. v.dyn = Append(md.dyn, d)
      BY <1>4, <2>3
    <3> QED
      BY <1>1, <1>3, <2>2, <2>4, <3>1, <3>2, DynSpace
  <2>6. /\ HasTable(v, d) /\ DOMAIN v.got = DOMAIN y.got \cup DOMAIN y.missing
        /\ \A j \in 1..d.tableBottom : v.table[j] = o.table[j]
        /\ d.tableBottom <= Len(v.table) /\ \A f \in DOMAIN v.got : Leads(v, v.got[f], f)
    <3>1. d.path = lib.path
      BY <1>3 DEF RecordOf
    <3> QED
      BY <1>3, <1>8, <1>11, <1>12, <2>1, <3>1, LinkedTable, Zenon
  <2>9. IsSeq(v.table) /\ v.missing = EmptyMap
    BY <2>1 DEF Filled
  <2>7. ASSUME NEW z, Unloaded(v, z) PROVE TableOK(z)
    <3>1. /\ IsModule(z) /\ z.table = v.table /\ z.dyn = v.dyn /\ z.missing = v.missing /\ z.paths = v.paths
          /\ z.pointers = v.pointers /\ z.gotMem = v.gotMem /\ z.got = v.got /\ z.loading = ""
      BY <2>7 DEF Unloaded, Only, Fields
    <3>2. v.paths = md.paths /\ v.pointers = md.pointers
      BY <2>2 DEF Only, Fields
    <3>3. DOMAIN o.got \subseteq DOMAIN z.got /\ \A f \in DOMAIN z.got : Leads(z, z.got[f], f)
      BY <1>8, <2>6, <3>1 DEF LinkInv, Leads
    <3>4. Range(lib.gotFuncs) \subseteq DOMAIN z.got
      BY <1>8, <2>6, <3>1 DEF Resolved
    <3>5. HasTable(z, d)
      BY <2>6, <3>1 DEF HasTable
    <3>6. z.dyn = Append(o.dyn, d) /\ z.gotMem = Insert(o.gotMem, Data(lib, d.dataBottom))
      BY <1>2, <1>4, <2>3, <3>1
    <3>7. DOMAIN z.paths = DOMAIN o.paths \cup {lib.path} /\ z.pointers = o.pointers
      BY <1>1, <1>2, <3>1, <3>2
    <3>8. Len(o.table) <= Len(z.table) /\ \A j \in 1..Len(o.table) : z.table[j] = o.table[j]
      BY <1>3, <2>6, <3>1
    <3>9. LinkedTo(o, lib, d, z)
      BY <2>9, <3>1, <3>3, <3>4, <3>5, <3>6, <3>7, <3>8 DEF LinkedTo
    <3> QED
      BY <1>1, <1>3, <3>9, LinkedTables
  <2>8. v.dyn = Append(md.dyn, d)
    BY <1>4, <2>3
  <2> QED
    BY <2>2, <2>5, <2>7, <2>8 DEF v
<1>18. ASSUME lib.gotMem \subseteq DOMAIN o.gotMem \cup DOMAIN lib.globals,
              Range(lib.gotFuncs) \subseteq MainExports \cup lib.exports
       PROVE  l.ok
  <2>1. \A g \in lib.gotMem : g \in DOMAIN x.gotMem
    <3>1. DOMAIN x.gotMem = DOMAIN md.gotMem \cup DOMAIN Data(lib, d.dataBottom)
      BY <1>4 DEF Insert
    <3>2. DOMAIN Data(lib, d.dataBottom) = DOMAIN lib.globals
      BY DEF Data
    <3> QED
      BY <1>2, <1>18, <3>1, <3>2
  <2>2. DOMAIN i.missing \subseteq lib.exports
    BY <1>8, <1>12, <1>18 DEF LinkInv
  <2> QED
    BY <1>14, <1>15, <2>1, <2>2, Zenon DEF HasAll
<1> QED
  BY <1>16, <1>17, <1>18

(* dlopen: a library is loaded, was loaded already, or cannot be.          *)
Keeps(s, t) == \A i \in DOMAIN s : i \in DOMAIN t /\ t[i] = s[i]
LoadFields == {"mem", "brk", "table", "got", "gotMem", "missing", "dyn", "paths", "loading"}
Loaded(md, x) == SpaceOK(x) /\ TableOK(x) /\ Only(md, x, LoadFields) /\ Keeps(md.dyn, x.dyn)
Loadable(md, lib) ==
  /\ Bytes(md) + DynArea <= MaxPages * 2
  /\ lib.gotMem \subseteq DOMAIN md.gotMem \cup DOMAIN lib.globals
  /\ Range(lib.gotFuncs) \subseteq MainExports \cup lib.exports
Loading(md, path, handle) == [md EXCEPT !.paths = Insert(@, Entry(path, handle)), !.loading = path]
EndLoading(md) == [md EXCEPT !.loading = ""]
LEMMA LoadingFrames ==
  ASSUME NEW md, IsModule(md), NEW path, NEW handle
  PROVE  /\ Only(md, Loading(md, path, handle), {"paths", "loading"}) /\ Loading(md, path, handle).loading = path
         /\ DOMAIN Loading(md, path, handle).paths = DOMAIN md.paths \cup {path}
         /\ Unloaded(md, EndLoading(md))
<1> DEFINE y(p) == [md EXCEPT !.paths = p, !.loading = path]
<1>1. ASSUME NEW p PROVE Only(md, y(p), {"paths", "loading"}) /\ y(p).paths = p /\ y(p).loading = path
  BY DEF Only, IsModule, Fields
<1>2. PICK m : m = Insert(md.paths, Entry(path, handle))
  OBVIOUS
<1>3. Loading(md, path, handle) = y(m)
  BY <1>2, Zenon DEF Loading
<1>4. DOMAIN m = DOMAIN md.paths \cup {path}
  BY <1>2, Merged
<1>5. Unloaded(md, EndLoading(md))
  BY DEF Unloaded, EndLoading, Only, IsModule, Fields
<1> HIDE DEF y
<1> QED
  BY <1>1, <1>3, <1>4, <1>5

LoadEnds(g, l, r) ==
  \/ ~g.ok /\ r = g
  \/ g.ok /\ ~l.ok /\ r = l
  \/ g.ok /\ l.ok /\ r.ok = TRUE /\ r.md = EndLoading(l.md)
LEMMA LoadCases ==
  ASSUME NEW md, NEW irh, NEW lib \in Libs, irh[lib.path].original = Len(lib.elems), lib.path \notin DOMAIN md.paths,
         NEW m, m = Loading(md, lib.path, FirstHandle + Len(md.dyn)),
         NEW g, g = GrowMemory(m, DynArea),
         NEW l, l = Linked(g.md, g.ptr, DynamicRecord(lib, g.ptr + GuardSize, Len(m.table), Len(lib.elems)), lib),
         NEW r, r = DynamicLoadModule(md, irh, lib.path)
  PROVE  LoadEnds(g, l, r)
<1> DEFINE c == CreateModuleInstance(m, irh, lib)
           handle == FirstHandle + Len(md.dyn)
           End(q) == Done([q.md EXCEPT !.loading = ""], handle)
           Link(q) == Linked(q.md, q.ptr, DynamicRecord(lib, q.ptr + GuardSize, Len(m.table), irh[lib.path].original), lib)
<1>1. LibAt(lib.path) = lib
  BY LibTypes
<1>2. r = Then(c, End)
  BY <1>1, Zenon DEF DynamicLoadModule, Loading
<1>3. c = Then(g, Link)
  BY Zenon DEF CreateModuleInstance, DynArea, GetSharedModuleTableSize
<1>4. l = Link(g)
  BY Zenon
<1>5. \A q : End(q).ok = TRUE /\ End(q).md = EndLoading(q.md)
  BY Zenon DEF Done, EndLoading
<1> HIDE DEF c, Link, handle
<1>6. CASE ~g.ok
  <2>1. c = g
    BY <1>3, <1>6, Zenon DEF Then
  <2>2. r = g
    BY <1>2, <1>6, <2>1, Zenon DEF Then
  <2> QED
    BY <1>6, <2>2 DEF LoadEnds
<1>7. CASE g.ok
  <2>1. c = l
    BY <1>3, <1>4, <1>7, Zenon DEF Then
  <2>2. CASE ~l.ok
    <3>1. r = l
      BY <1>2, <2>1, <2>2, Zenon DEF Then
    <3> QED
      BY <1>7, <2>2, <3>1 DEF LoadEnds
  <2>3. CASE l.ok
    <3>1. r = End(l)
      BY <1>2, <2>1, <2>3, Zenon DEF Then
    <3> HIDE DEF End
    <3> QED
      BY <1>5, <1>7, <2>3, <3>1 DEF LoadEnds
  <2> QED
    BY <2>2, <2>3
<1> QED
  BY <1>6, <1>7

LEMMA LoadSpace ==
  ASSUME NEW md, SpaceOK(md), TableOK(md), NEW lib \in Libs, NEW irh, irh[lib.path].original = Len(lib.elems),
         NEW r, r = DynamicLoadModule(md, irh, lib.path)
  PROVE  r.ok \in BOOLEAN /\ (r.ok => Loaded(md, r.md)) /\ (Loadable(md, lib) => r.ok)
<1>1. IsModule(md) /\ MemoryOK(md) /\ md.brk \in Nat /\ IsSeq(md.dyn) /\ Stays(md, md)
  BY SpaceTypes DEF TableOK
<1>2. CASE lib.path \in DOMAIN md.paths
  <2>1. r = Done(md, md.paths[lib.path])
    BY <1>2, Zenon DEF DynamicLoadModule
  <2>2. r.ok = TRUE /\ r.md = md
    BY <2>1 DEF Done
  <2>3. Keeps(md.dyn, md.dyn) /\ Only(md, md, LoadFields)
    BY <1>1 DEF Keeps, Only
  <2> QED
    BY <2>2, <2>3 DEF Loaded
<1>3. CASE lib.path \notin DOMAIN md.paths
  <2>1. PICK m, g : m = Loading(md, lib.path, FirstHandle + Len(md.dyn)) /\ g = GrowMemory(m, DynArea)
    OBVIOUS
  <2>2. PICK d, l : /\ d = DynamicRecord(lib, g.ptr + GuardSize, Len(m.table), Len(lib.elems))
                    /\ l = Linked(g.md, g.ptr, d, lib)
    OBVIOUS
  <2>3. Only(md, m, {"paths", "loading"}) /\ m.loading = lib.path /\ DOMAIN m.paths = DOMAIN md.paths \cup {lib.path}
    BY <1>1, <2>1, LoadingFrames
  <2>4. /\ m.mem = md.mem /\ m.brk = md.brk /\ m.own = md.own /\ m.stacks = md.stacks /\ m.dyn = md.dyn
        /\ m.shared = md.shared /\ IsModule(m) /\ m.table = md.table
    BY <2>3 DEF Only, Fields
  <2>5. SpaceOK(m) /\ MemoryOK(m)
    <3>1. MemoryOK(m)
      BY <1>1, <2>4, SameMemory
    <3> QED
      BY <2>4, <3>1, SameSpace
  <2>6. DynArea \in Nat \ {0} /\ DynArea % 2 = 0
    <3>1. lib.data \in Nat /\ DynStackSize + lib.data < DynMemorySize
      BY LibTypes
    <3> QED
      BY <3>1, Sizes DEF DynArea
  <2>7. /\ g.ok \in BOOLEAN /\ (g.ok => Grown(m, DynArea, g))
        /\ Bytes(m) + DynArea <= MaxPages * 2 => g.ok
    BY <2>1, <2>5, <2>6, GrowOk
  <2>8. ASSUME g.ok
        PROVE  /\ Ready(md, g.md, g.ptr, lib) /\ RecordAt(md, d, g.ptr, lib) /\ Only(md, g.md, {"mem", "brk", "paths", "loading"})
    <3>1. SpaceOK(g.md) /\ Room(g.md, g.ptr)
      BY <2>5, <2>6, <2>7, <2>8, GrowRoom
    <3>2. g.md.brk = g.ptr + DynArea /\ Only(m, g.md, {"mem", "brk"})
      BY <2>7, <2>8 DEF Grown
    <3>3. Only(md, g.md, {"mem", "brk", "paths", "loading"})
      BY <2>3, <3>2 DEF Only
    <3>4. g.md.loading = lib.path /\ DOMAIN g.md.paths = DOMAIN md.paths \cup {lib.path}
      BY <2>3, <3>2 DEF Only, Fields
    <3>5. RecordAt(md, d, g.ptr, lib)
      BY <2>2, <2>4, Zenon DEF RecordAt
    <3> QED
      BY <1>3, <3>1, <3>2, <3>3, <3>4, <3>5 DEF Ready
  <2>9. \/ ~g.ok /\ r = g
        \/ g.ok /\ ~l.ok /\ r = l
        \/ g.ok /\ l.ok /\ r.ok = TRUE /\ r.md = EndLoading(l.md)
    <3>1. l = Linked(g.md, g.ptr, DynamicRecord(lib, g.ptr + GuardSize, Len(m.table), Len(lib.elems)), lib)
      BY <2>2, Zenon
    <3>2. LoadEnds(g, l, r)
      BY <1>3, <2>1, <3>1, LoadCases
    <3> QED
      BY <3>2, Zenon DEF LoadEnds
  <2>10. ASSUME g.ok
         PROVE  /\ l.ok \in BOOLEAN
                /\ l.ok => /\ SpaceOK(l.md) /\ Only(g.md, l.md, {"mem", "table", "dyn", "got", "gotMem", "missing"})
                           /\ l.md.dyn = Append(g.md.dyn, d) /\ \A z : Unloaded(l.md, z) => TableOK(z)
                /\ lib.gotMem \subseteq DOMAIN md.gotMem \cup DOMAIN lib.globals
                   /\ Range(lib.gotFuncs) \subseteq MainExports \cup lib.exports => l.ok
    BY <2>2, <2>8, <2>10, LinkedSpace
  <2>11. ASSUME g.ok, l.ok PROVE Loaded(md, r.md)
    <3>1. /\ SpaceOK(l.md) /\ Only(g.md, l.md, {"mem", "table", "dyn", "got", "gotMem", "missing"})
          /\ l.md.dyn = Append(g.md.dyn, d) /\ \A z : Unloaded(l.md, z) => TableOK(z)
      BY <2>10, <2>11
    <3>2. r.md = EndLoading(l.md) /\ IsModule(l.md) /\ MemoryOK(l.md)
      BY <2>9, <2>11, <3>1, SpaceTypes
    <3>3. Unloaded(l.md, r.md)
      BY <3>2, LoadingFrames
    <3>4. /\ r.md.mem = l.md.mem /\ r.md.brk = l.md.brk /\ r.md.own = l.md.own /\ r.md.stacks = l.md.stacks
          /\ r.md.dyn = l.md.dyn /\ r.md.shared = l.md.shared /\ IsModule(r.md) /\ Only(l.md, r.md, {"loading"})
      BY <3>3 DEF Unloaded, Only, Fields
    <3>5. MemoryOK(r.md)
      BY <3>2, <3>4, SameMemory
    <3>6. SpaceOK(r.md)
      BY <3>1, <3>4, <3>5, SameSpace
    <3>7. Only(md, r.md, LoadFields)
      BY <2>8, <2>11, <3>1, <3>4 DEF Only, LoadFields
    <3>8. Keeps(md.dyn, r.md.dyn)
      <4>1. PICK s : s = md.dyn
        OBVIOUS
      <4>2. g.md.dyn = s
        BY <2>8, <2>11, <4>1 DEF Only, Fields
      <4>3. DOMAIN Append(s, d) = DOMAIN s \cup {Len(s) + 1} /\ \A i \in DOMAIN s : Append(s, d)[i] = s[i]
        BY <1>1, <4>1, AppendRange
      <4>4. r.md.dyn = Append(s, d)
        BY <3>1, <3>4, <4>2
      <4> QED
        BY <4>1, <4>3, <4>4 DEF Keeps
    <3> QED
      BY <3>1, <3>3, <3>6, <3>7, <3>8 DEF Loaded
  <2>12. Bytes(m) = Bytes(md)
    BY <2>4 DEF Bytes
  <2>13. Loadable(md, lib) => r.ok
    BY <2>7, <2>9, <2>10, <2>12 DEF Loadable
  <2>14. r.ok \in BOOLEAN
    BY <2>7, <2>9, <2>10, Zenon
  <2>15. r.ok => Loaded(md, r.md)
    BY <2>9, <2>11, Zenon
  <2> QED
    BY <2>13, <2>14, <2>15
<1> QED
  BY <1>2, <1>3

-----------------------------------------------------------------------------
(* The zygote: the main module, its stacks and its zygote function.        *)
LEMMA SameTable ==
  ASSUME NEW md, TableOK(md), NEW x, IsModule(x), x.table = md.table, x.got = md.got, x.gotMem = md.gotMem,
         x.missing = md.missing, x.dyn = md.dyn, x.paths = md.paths, x.loading = md.loading,
         x.pointers \subseteq md.pointers
  PROVE  TableOK(x)
<1>1. DataNames(x) = DataNames(md)
  BY DEF DataNames
<1>2. \A f, place : Leads(md, place, f) => Leads(x, place, f)
  BY DEF Leads
<1>3. \A d : DynOK(md, d) => DynOK(x, d)
  BY DEF DynOK, HasTable, HasData
<1> QED
  BY <1>1, <1>2, <1>3 DEF TableOK

LEMMA NoItems == IsSeq(<<>>) /\ Len(<<>>) = 0 /\ DOMAIN <<>> = {} /\ Range(<<>>) = {}
<1>2. IsSeq(<<>>) /\ Len(<<>>) = 0
  BY EmptySeq DEF IsSeq
<1>3. DOMAIN <<>> = {}
  BY <1>2, SeqType
<1> QED
  BY <1>2, <1>3 DEF Range

LEMMA DataPages ==
  ASSUME NEW n \in Nat, NEW c
  PROVE  /\ IsSeq(Pages(n, c)) /\ Len(Pages(n, c)) = n /\ DOMAIN Pages(n, c) = 1..n
         /\ \A i \in 1..n : IsPage(Pages(n, c)[i]) /\ Pages(n, c)[i].by = "anonymous"
<1> DEFINE p == [ZeroPage EXCEPT !.c = c]
<1>1. IsPage(p) /\ p.by = "anonymous"
  BY DEF ZeroPage, IsPage
<1> HIDE DEF p
<1>2. Pages(n, c) = [i \in 1..n |-> p]
  BY DEF Pages, p
<1>3. Pages(n, c) = [i \in 1..n |-> Pages(n, c)[i]] /\ \A i \in 1..n : Pages(n, c)[i] = p
  BY <1>2
<1>4. IsSeq(Pages(n, c)) /\ Len(Pages(n, c)) = n
  BY <1>3, MadeSeq
<1> QED
  BY <1>1, <1>3, <1>4, SeqType

Main == AddModuleToGOT(MainModule, MainTable, MainExports, 0, MainGlobals, 0)
MainFunctions == [i \in DOMAIN MainTable |-> <<"main", MainTable[i]>>]
LEMMA MainFields ==
  /\ IsModule(MainModule) /\ MainModule.mem = Pages(InitPages, DataC) /\ MainModule.brk = InitPages * PageSize
  /\ MainModule.stacks = <<>> /\ MainModule.shared = EmptyMap /\ MainModule.table = MainFunctions
  /\ MainModule.got = EmptyMap /\ MainModule.gotMem = EmptyMap /\ MainModule.missing = EmptyMap
  /\ MainModule.dyn = <<>> /\ MainModule.paths = EmptyMap /\ MainModule.loading = "" /\ MainModule.stdout = {}
  /\ MainModule.own = {} /\ MainModule.pointers = {} /\ MainModule.bound = TRUE
<1>1. PICK m, b, t, e, q : /\ m = Pages(InitPages, DataC) /\ b = InitPages * PageSize /\ t = MainFunctions
                          /\ e = EmptyMap /\ q = <<>>
  OBVIOUS
<1>2. MainModule = [bound |-> TRUE, mem |-> m, brk |-> b, stacks |-> q, shared |-> e, table |-> t,
                    got |-> e, gotMem |-> e, missing |-> e, dyn |-> q, paths |-> e, loading |-> "",
                    stdout |-> {}, base |-> q, own |-> {}, pointers |-> {}]
  BY <1>1, Zenon DEF MainModule, MainFunctions
<1>3. IsModule(MainModule)
  BY <1>2 DEF IsModule, Fields
<1>4. MainModule.mem = m /\ MainModule.brk = b /\ MainModule.stacks = q /\ MainModule.shared = e
  BY <1>2
<1>5. MainModule.table = t /\ MainModule.got = e /\ MainModule.gotMem = e /\ MainModule.missing = e
  BY <1>2
<1>6. MainModule.dyn = q /\ MainModule.paths = e /\ MainModule.loading = ""
  BY <1>2
<1>7. MainModule.stdout = {} /\ MainModule.own = {} /\ MainModule.pointers = {}
  BY <1>2
<1>8. MainModule.bound = TRUE
  BY Zenon DEF MainModule
<1> QED
  BY <1>1, <1>3, <1>4, <1>5, <1>6, <1>7, <1>8, Zenon

LEMMA MainSpace ==
  /\ SpaceOK(Main) /\ TableOK(Main) /\ Bytes(Main) = InitPages * 2 /\ DOMAIN Main.gotMem = DOMAIN MainGlobals
  /\ Main.bound = TRUE /\ Main.own = {} /\ Main.pointers = {} /\ Main.stdout = {} /\ Main.shared = EmptyMap
<1>1. PICK n \in Nat : n = InitPages /\ n * 2 <= MaxPages * 2 /\ n <= MaxPages
  <2>1. PICK a, b, c : a = InitPages * PageSize /\ b = ThreadPoolSize * (StackSize + 2 * GuardSize) /\ c = MaxPages * PageSize
    OBVIOUS
  <2>2. a + b + PageSize <= c
    BY <2>1, ZygoteAssumption
  <2>3. a \in Nat /\ b \in Nat /\ c \in Nat
    <3>1. StackSize + 2 * GuardSize \in Nat
      BY Sizes
    <3>2. PICK k \in Nat : k = StackSize + 2 * GuardSize
      BY <3>1
    <3>3. \A p \in Nat, q \in Nat : p * q \in Nat
      OBVIOUS
    <3> QED
      BY <2>1, <3>2, <3>3, Sizes
  <2>4. InitPages * 2 <= MaxPages * 2
    BY <2>1, <2>2, <2>3, Sizes
  <2> QED
    BY <2>4, Sizes
<1>2. PICK lib : lib.elems = MainTable /\ lib.exports = MainExports /\ lib.globals = MainGlobals
  <2>1. LET l == [elems |-> MainTable, exports |-> MainExports, globals |-> MainGlobals] IN
        l.elems = MainTable /\ l.exports = MainExports /\ l.globals = MainGlobals
    OBVIOUS
  <2> QED
    BY <2>1
<1>3. Main = AddModuleToGOT(MainModule, lib.elems, lib.exports, 0, lib.globals, 0)
  BY <1>2 DEF Main
<1>4. /\ Only(MainModule, Main, {"got", "gotMem"})
      /\ Main.got = Insert(MainModule.got, Places(lib, 0)) /\ Main.gotMem = Insert(MainModule.gotMem, Data(lib, 0))
  <2>1. Offers(MainModule, Main, lib, 0, 0)
    BY <1>3, MainFields, GOTFrame
  <2> QED
    BY <2>1, Zenon DEF Offers
<1>5. /\ IsModule(Main) /\ Main.mem = Pages(InitPages, DataC) /\ Main.brk = InitPages * PageSize
      /\ Main.stacks = <<>> /\ Main.shared = EmptyMap /\ Main.table = MainFunctions /\ Main.missing = EmptyMap
      /\ Main.dyn = <<>> /\ Main.paths = EmptyMap /\ Main.loading = "" /\ Main.stdout = {}
      /\ Main.own = {} /\ Main.pointers = {} /\ Main.bound = TRUE
  BY <1>4, MainFields DEF Only, Fields
<1>6. /\ Main.brk = 2 * n /\ Main.brk \in Nat /\ Main.brk % 2 = 0 /\ IsSeq(Main.mem) /\ Len(Main.mem) = n
      /\ DOMAIN Main.mem = 1..n /\ \A i \in 1..n : IsPage(Main.mem[i]) /\ Main.mem[i].by = "anonymous"
  <2>1. /\ IsSeq(Pages(n, DataC)) /\ Len(Pages(n, DataC)) = n /\ DOMAIN Pages(n, DataC) = 1..n
        /\ \A i \in 1..n : IsPage(Pages(n, DataC)[i]) /\ Pages(n, DataC)[i].by = "anonymous"
    BY <1>1, DataPages
  <2>2. Main.mem = Pages(n, DataC)
    BY <1>1, <1>5
  <2>3. 2 * n \in Nat /\ (2 * n) % 2 = 0 /\ n * 2 = 2 * n
    BY <1>1, Twice
  <2>4. Main.brk = 2 * n
    BY <1>1, <1>5, <2>3, Sizes
  <2> QED
    BY <2>1, <2>2, <2>3, <2>4
<1>7. MemoryOK(Main)
  <2>1. Main.brk <= 2 * Len(Main.mem) /\ Len(Main.mem) <= MaxPages
    BY <1>1, <1>6
  <2> QED
    BY <1>5, <1>6, <2>1, IsMemory
<1>8. DOMAIN EmptyMap = {}
  BY DEF EmptyMap
<1>9. Items(Main) = {<<"main", 0>>}
  BY <1>5, <1>8, NoItems DEF Items
<1>10. Lo(Main, <<"main", 0>>) = 0 /\ Hi(Main, <<"main", 0>>) = 2 * n
  <2>1. Lo(Main, <<"main", 0>>) = 0 /\ Hi(Main, <<"main", 0>>) = InitPages * PageSize
    BY ItemBounds
  <2> QED
    BY <1>1, <2>1, Sizes
<1>11. Placed(Main)
  <2>1. 2 * n \in Nat /\ (0 < 2 * n \/ 2 * n = 0) /\ 0 % 2 = 0
    OBVIOUS
  <2> QED
    BY <1>6, <1>9, <1>10, <2>1 DEF Placed, Bounds
<1>12. LayoutOK(Main)
  BY <1>5, <1>8, <1>11, NoItems DEF LayoutOK
<1>13. BackOK(Main)
  BY <1>5, <1>6, <1>8, NoItems DEF BackOK, Demands
<1>14. SpaceOK(Main)
  BY <1>7, <1>12, <1>13 DEF SpaceOK
<1>15. Bytes(Main) = InitPages * 2
  BY <1>1, <1>6, Sizes DEF Bytes
<1>16. DOMAIN Main.gotMem = DOMAIN MainGlobals
  BY <1>2, <1>4, <1>8, MainFields DEF Insert, Data
<1>17. \A f \in DOMAIN Main.got : Leads(Main, Main.got[f], f)
  <2> TAKE f \in DOMAIN Main.got
  <2>1. f \in DOMAIN Places(lib, 0) /\ Main.got[f] = Places(lib, 0)[f]
    <3>1. PICK e, p : e = EmptyMap /\ p = Places(lib, 0)
      OBVIOUS
    <3>2. Main.got = Insert(e, p) /\ DOMAIN e = {}
      BY <1>4, <1>8, <3>1, MainFields
    <3>3. DOMAIN Main.got = DOMAIN p /\ \A g \in DOMAIN p : Main.got[g] = p[g]
      BY <3>2 DEF Insert
    <3> QED
      BY <3>1, <3>3
  <2>2. f \in {lib.elems[i] : i \in Exported(lib)}
    BY <2>1 DEF Places
  <2> DEFINE c == CHOOSE i \in Exported(lib) : lib.elems[i] = f
  <2>3. c \in Exported(lib) /\ lib.elems[c] = f
    BY <2>2
  <2>4. Main.got[f] = 0 + c - 1
    BY <2>1, <2>2 DEF Places
  <2> HIDE DEF c
  <2>5. c \in DOMAIN MainTable /\ MainTable[c] = f
    BY <1>2, <2>3 DEF Exported
  <2>6. MainTable \in Seq(Range(MainTable))
    BY ModuleAssumption
  <2>7. c \in Nat /\ c > 0
    BY <2>5, <2>6
  <2>8. c - 1 \in Nat /\ 0 + c - 1 = c - 1 /\ c - 1 + 1 = c
    BY <2>7
  <2>9. c \in DOMAIN Main.table /\ Main.table[c][2] = f
    <3>1. c \in DOMAIN MainFunctions /\ MainFunctions[c] = <<"main", f>>
      BY <2>5 DEF MainFunctions
    <3>2. PICK t, u : t = MainFunctions /\ u = <<"main", f>>
      OBVIOUS
    <3>3. u[2] = f /\ Main.table = t /\ c \in DOMAIN t /\ t[c] = u
      BY <1>5, <3>1, <3>2
    <3> QED
      BY <3>3
  <2> QED
    BY <2>4, <2>8, <2>9 DEF Leads
<1>18. IsSeq(Main.table)
  <2>1. MainTable \in Seq(Range(MainTable))
    BY ModuleAssumption
  <2>2. DOMAIN MainTable = 1..Len(MainTable) /\ Len(MainTable) \in Nat
    BY <2>1
  <2>3. MainFunctions = [i \in 1..Len(MainTable) |-> MainFunctions[i]]
    BY <2>2 DEF MainFunctions
  <2> QED
    BY <1>5, <2>2, <2>3, MadeSeq
<1>19. DOMAIN Main.gotMem \subseteq DataNames(Main)
  BY <1>16 DEF DataNames
<1>20. TableOK(Main)
  BY <1>5, <1>8, <1>17, <1>18, <1>19, NoItems DEF TableOK
<1> QED
  BY <1>5, <1>14, <1>15, <1>16, <1>20

(* The break moves down to where nothing is placed above. *)
LEMMA ShrinkSpace ==
  ASSUME NEW md, SpaceOK(md), NEW p, Room(md, p), NEW x, MemoryOK(x), Only(md, x, {"brk"}), x.brk = p
  PROVE  SpaceOK(x)
<1>1. /\ x.mem = md.mem /\ x.own = md.own /\ x.stacks = md.stacks /\ x.dyn = md.dyn /\ x.shared = md.shared
  BY DEF Only, Fields
<1>2. /\ p \in Nat /\ p < md.brk /\ \A i \in Items(md) : Hi(md, i) <= p
      /\ \A i \in DOMAIN md.mem : i > p \div 2 => md.mem[i].by = "anonymous"
  BY DEF Room
<1>3. Stays(md, x) /\ Items(x) = Items(md) /\ Demands(x) = Demands(md) /\ LayoutTypes(x) /\ Placed(md)
  BY <1>1, SpaceTypes DEF Stays, Items, Demands, LayoutTypes, SpaceOK, LayoutOK
<1>4. \A i \in Items(md) : Lo(x, i) = Lo(md, i) /\ Hi(x, i) = Hi(md, i)
  BY <1>3, SameBounds
<1>5. Placed(x)
  BY <1>2, <1>3, <1>4 DEF Placed, Bounds, Apart
<1>6. BackOK(x)
  BY <1>1, <1>2, <1>3 DEF SpaceOK, BackOK, BackedBy
<1> QED
  BY <1>3, <1>5, <1>6 DEF SpaceOK, LayoutOK, LayoutTypes

ThreadStacks == CreateThreadStacks(Main)
Fresh(md) ==
  /\ SpaceOK(md) /\ TableOK(md) /\ md.bound = TRUE /\ md.pointers = {} /\ md.stdout = {} /\ md.shared = EmptyMap
LEMMA StacksFresh ==
  /\ Fresh(ThreadStacks) /\ DOMAIN ThreadStacks.gotMem = DOMAIN MainGlobals
  /\ Bytes(ThreadStacks) + 2 <= MaxPages * 2 /\ Bytes(ThreadStacks) + DynArea <= MaxPages * 2
<1>1. PICK a \in Nat, b \in Nat, c \in Nat :
        a = Bytes(Main) /\ b = ThreadPoolSize * StackArea /\ c = MaxPages * 2
  <2>1. StackArea \in Nat
    BY Sizes DEF StackArea
  <2>2. \A p \in Nat, q \in Nat : p * q \in Nat
    OBVIOUS
  <2>3. ThreadPoolSize * StackArea \in Nat /\ MaxPages * 2 \in Nat
    BY <2>1, <2>2, Sizes
  <2>4. Bytes(Main) \in Nat
    BY MainSpace, MemoryTypes DEF SpaceOK
  <2> QED
    BY <2>3, <2>4
<1>2. DynArea \in Nat
  BY Sizes DEF DynArea
<1>3. a + b + 2 <= c /\ a + b + DynArea <= c
  <2>1. /\ InitPages * PageSize + ThreadPoolSize * (StackSize + 2 * GuardSize) + PageSize <= MaxPages * PageSize
        /\ InitPages * PageSize + ThreadPoolSize * (StackSize + 2 * GuardSize) + (DynMemorySize + 2 * GuardSize)
             <= MaxPages * PageSize
    BY ZygoteAssumption
  <2>2. a = InitPages * PageSize /\ b = ThreadPoolSize * (StackSize + 2 * GuardSize) /\ c = MaxPages * PageSize
    BY <1>1, MainSpace, Sizes DEF StackArea
  <2> QED
    BY <2>1, <2>2, Sizes DEF DynArea
<1>4. a + b <= c
  BY <1>1, <1>3
<1>5. Bytes(Main) + ThreadPoolSize * StackArea <= MaxPages * 2
  BY <1>1, <1>4
<1>6. LET x == CreateThreadStacks(Main) IN
      /\ SpaceOK(x) /\ Only(Main, x, {"mem", "brk", "stacks"})
      /\ Bytes(x) <= Bytes(Main) + ThreadPoolSize * StackArea
  BY <1>5, MainSpace, StacksSpace
<1>7. PICK x : x = ThreadStacks
  OBVIOUS
<1>8. SpaceOK(x) /\ Only(Main, x, {"mem", "brk", "stacks"}) /\ Bytes(x) <= a + b
  BY <1>1, <1>6, <1>7 DEF ThreadStacks
<1>9. Bytes(x) \in Nat
  BY <1>8, MemoryTypes DEF SpaceOK
<1>10. Bytes(x) + 2 <= c /\ Bytes(x) + DynArea <= c
  BY <1>1, <1>2, <1>3, <1>8, <1>9
<1>11. /\ IsModule(x) /\ x.table = Main.table /\ x.got = Main.got /\ x.gotMem = Main.gotMem
       /\ x.missing = Main.missing /\ x.dyn = Main.dyn /\ x.paths = Main.paths /\ x.loading = Main.loading
       /\ x.pointers = Main.pointers /\ x.stdout = Main.stdout /\ x.shared = Main.shared
  BY <1>8 DEF Only, Fields
<1>12. x.bound = Main.bound
  BY <1>8, Zenon DEF Only, Fields
<1>13. TableOK(x)
  BY <1>11, MainSpace, SameTable
<1>14. Fresh(x)
  BY <1>8, <1>11, <1>12, <1>13, MainSpace, Zenon DEF Fresh
<1> QED
  BY <1>1, <1>7, <1>10, <1>11, <1>14, MainSpace

(* What the zygote function asks for is there: it does not throw. *)
LEMMA FreshFrame ==
  ASSUME NEW md, Fresh(md), NEW x, SpaceOK(x), Only(md, x, {"mem", "brk", "own", "base"})
  PROVE  Fresh(x)
<1>1. /\ IsModule(x) /\ x.table = md.table /\ x.got = md.got /\ x.gotMem = md.gotMem
      /\ x.missing = md.missing /\ x.dyn = md.dyn /\ x.paths = md.paths /\ x.loading = md.loading
      /\ x.pointers = md.pointers /\ x.stdout = md.stdout /\ x.shared = md.shared
  BY DEF Only, Fields
<1>2. x.bound = md.bound
  BY Zenon DEF Only, Fields
<1>3. TableOK(x)
  BY <1>1, SameTable DEF Fresh
<1> QED
  BY <1>1, <1>2, <1>3, Zenon DEF Fresh

LEMMA GrowsByOne ==
  ASSUME NEW md, SpaceOK(md), Bytes(md) + 2 <= MaxPages * 2, NEW g, g = GrowMemory(md, PageSize)
  PROVE  Grown(md, 2, g) /\ g.ok = TRUE /\ SpaceOK(g.md) /\ Room(g.md, g.ptr)
<1>1. 2 \in Nat \ {0} /\ 2 % 2 = 0 /\ PageSize = 2 /\ MemoryOK(md)
  BY Sizes, SpaceTypes
<1>2. Grown(md, 2, g)
  BY <1>1, GrowOk
<1>3. g.ok = TRUE
  BY <1>2, Zenon DEF Grown
<1> QED
  BY <1>1, <1>2, <1>3, GrowRoom

LEMMA GrowZygote ==
  ASSUME NEW md, Fresh(md), Bytes(md) + 2 <= MaxPages * 2, NEW r, r = ZygoteGrows(md)
  PROVE  Fresh(r.md)
<1>1. PICK g : g = GrowMemory(md, PageSize)
  OBVIOUS
<1>2. PICK c : c = Claimed(GrowMemory(md, PageSize), PageSize, "heap")
  OBVIOUS
<1>3. SpaceOK(md)
  BY Zenon DEF Fresh
<1>4. g.ok = TRUE
  BY <1>1, <1>3, GrowsByOne
<1>5. c = Done(Own(g.md, g.ptr, PageSize, "heap"), g.ptr)
  BY <1>1, <1>2, <1>4, Zenon DEF Claimed, Then
<1>6. c.ok = TRUE
  BY <1>5, Zenon DEF Done
<1>7. SpaceOK(c.md) /\ Only(md, c.md, {"mem", "brk", "own"})
  <2>1. c = Claimed(GrowMemory(md, 2), 2, "heap")
    BY <1>2, Sizes
  <2>2. 2 \in Nat \ {0} /\ RoundUp(2) <= 2
    BY RoundEven
  <2>3. "heap" \in {"heap", "mmap"}
    OBVIOUS
  <2>4. c.ok => SpaceOK(c.md) /\ Only(md, c.md, {"mem", "brk", "own"})
    BY <1>3, <2>1, <2>2, <2>3, ClaimSpace
  <2> QED
    BY <1>6, <2>4
<1>8. r = Done(StoreAt(c.md, c.ptr, ZygoteC), 0)
  BY <1>2, <1>6, Zenon DEF ZygoteGrows, Then
<1>9. r.md = StoreAt(c.md, c.ptr, ZygoteC)
  <2>1. PICK w : w = StoreAt(c.md, c.ptr, ZygoteC)
    OBVIOUS
  <2>2. r = Done(w, 0)
    BY <1>8, <2>1, Zenon
  <2> QED
    BY <2>1, <2>2 DEF Done
<1>10. SpaceOK(r.md) /\ Only(c.md, r.md, {"mem"})
  BY <1>7, <1>9, StoreSpace
<1>11. Only(md, r.md, {"mem", "brk", "own", "base"})
  BY <1>7, <1>10 DEF Only
<1> QED
  BY <1>10, <1>11, FreshFrame

LEMMA TrimZygote ==
  ASSUME NEW md, Fresh(md), Bytes(md) + 2 <= MaxPages * 2, NEW r, r = ZygoteTrims(md)
  PROVE  Fresh(r.md)
<1>1. PICK g, s, p : g = GrowMemory(md, PageSize) /\ s = StoreAt(g.md, g.ptr, ZygoteC) /\ p = g.ptr
  OBVIOUS
<1>2. SpaceOK(md)
  BY Zenon DEF Fresh
<1>3. Grown(md, 2, g) /\ g.ok = TRUE /\ SpaceOK(g.md) /\ Room(g.md, g.ptr)
  BY <1>1, <1>2, GrowsByOne
<1>4. r = ShrinkMemory(s, PageSize)
  BY <1>1, <1>3, Zenon DEF ZygoteTrims, Then
<1>5. SpaceOK(s) /\ Only(g.md, s, {"mem"}) /\ DOMAIN s.mem = DOMAIN g.md.mem
      /\ \A i \in DOMAIN g.md.mem : s.mem[i].by = g.md.mem[i].by
  BY <1>1, <1>3, StoreSpace
<1>6. g.md.brk = p + 2 /\ p \in Nat /\ p % 2 = 0 /\ Only(md, g.md, {"mem", "brk"})
  BY <1>1, <1>3 DEF Grown
<1>7. s.brk = p + 2 /\ s.own = g.md.own /\ s.stacks = g.md.stacks /\ s.dyn = g.md.dyn /\ s.shared = g.md.shared
  BY <1>5, <1>6 DEF Only, Fields
<1>8. Room(s, p)
  <2>1. Items(s) = Items(g.md) /\ Stays(g.md, s)
    BY <1>7 DEF Items, Stays
  <2>2. \A i \in Items(g.md) : Hi(s, i) = Hi(g.md, i)
    BY <2>1, SameBounds
  <2>3. p < s.brk
    BY <1>6, <1>7
  <2> QED
    BY <1>1, <1>3, <1>5, <1>6, <2>1, <2>2, <2>3 DEF Room
<1>9. MemoryOK(r.md) /\ Only(s, r.md, {"brk"}) /\ r.md.brk = p
  <2>1. MemoryOK(s) /\ 2 \in Nat /\ 2 % 2 = 0 /\ r = ShrinkMemory(s, 2)
    BY <1>4, <1>5, SpaceTypes, Sizes
  <2>2. 2 <= s.brk /\ s.brk - 2 = p
    BY <1>6, <1>7
  <2>3. r.ok /\ MemoryOK(r.md) /\ Only(s, r.md, {"brk"}) /\ r.md.brk = s.brk - 2
    BY <2>1, <2>2, ShrinkOk
  <2> QED
    BY <2>2, <2>3
<1>10. SpaceOK(r.md)
  BY <1>5, <1>8, <1>9, ShrinkSpace
<1>11. Only(md, r.md, {"mem", "brk", "own", "base"})
  BY <1>5, <1>6, <1>9 DEF Only
<1> QED
  BY <1>10, <1>11, FreshFrame

(* The sizes of the tables are cached for the library of the function.     *)
Knows(irh) == zygoteFn \in Paths => irh[zygoteFn].original = Len(LibAt(zygoteFn).elems)
LEMMA LoadZygote ==
  ASSUME NEW lib \in Libs, lib.path \in ZygoteFunctions, NEW irh, irh[lib.path].original = Len(lib.elems),
         NEW r, r = DynamicLoadModule(ThreadStacks, irh, lib.path)
  PROVE  Fresh(r.md)
<1>1. PICK md : md = ThreadStacks
  OBVIOUS
<1>2. SpaceOK(md) /\ TableOK(md) /\ md.pointers = {} /\ md.stdout = {} /\ md.shared = EmptyMap /\ md.bound = TRUE
  BY <1>1, StacksFresh, Zenon DEF Fresh
<1>3. Loadable(md, lib)
  <2>1. /\ lib.gotMem \subseteq DOMAIN MainGlobals \cup DOMAIN lib.globals
        /\ Range(lib.gotFuncs) \subseteq MainExports \cup lib.exports
    BY ZygoteAssumption
  <2> QED
    BY <1>1, <2>1, StacksFresh DEF Loadable
<1>4. Loaded(md, r.md)
  BY <1>1, <1>2, <1>3, LoadSpace
<1>5. SpaceOK(r.md) /\ TableOK(r.md) /\ Only(md, r.md, LoadFields)
  BY <1>4, Zenon DEF Loaded
<1>6. r.md.pointers = md.pointers /\ r.md.stdout = md.stdout /\ r.md.shared = md.shared
  BY <1>5 DEF Only, Fields, LoadFields
<1>7. r.md.bound = md.bound
  <2>1. "bound" \in Fields \ LoadFields
    BY DEF Fields, LoadFields
  <2> QED
    BY <1>5, <2>1, Zenon DEF Only
<1> QED
  BY <1>2, <1>5, <1>6, <1>7, Zenon DEF Fresh

(* The zygote of a function: the same on every host but for its key.       *)
FullIr == [p \in Paths |-> [original |-> Len(LibAt(p).elems)]]
Zygote == ExecuteZygoteFunction(ThreadStacks, FullIr).md
ZygoteOf(h) == [Zygote EXCEPT !.base = BaseKey(h)]
LEMMA ZygoteLibs ==
  ASSUME zygoteFn \in ZygoteFunctions
  PROVE  zygoteFn \in {"none", "grow", "trim"} \/ \E lib \in Libs : zygoteFn = lib.path /\ LibAt(zygoteFn) = lib
<1>1. zygoteFn \in {"none", "grow", "trim"} \cup Paths
  BY ZygoteAssumption
<1>2. CASE zygoteFn \in Paths
  <2>1. PICK lib \in Libs : zygoteFn = lib.path
    BY <1>2 DEF Paths
  <2>2. LibAt(zygoteFn) = lib
    BY <2>1, LibTypes
  <2> QED
    BY <2>1, <2>2
<1> QED
  BY <1>1, <1>2

LEMMA ZygoteFresh ==
  ASSUME zygoteFn \in ZygoteFunctions
  PROVE  Fresh(Zygote)
<1>1. PICK md, r : md = ThreadStacks /\ r = ExecuteZygoteFunction(ThreadStacks, FullIr)
  OBVIOUS
<1>2. Zygote = r.md
  BY <1>1, Zenon DEF Zygote
<1>3. Fresh(md) /\ Bytes(md) + 2 <= MaxPages * 2
  BY <1>1, StacksFresh
<1>4. CASE zygoteFn = "none"
  <2>1. r = Done(md, 0)
    BY <1>1, <1>4 DEF ExecuteZygoteFunction
  <2>2. r.md = md
    BY <2>1 DEF Done
  <2> QED
    BY <1>2, <1>3, <2>2
<1>5. CASE zygoteFn = "grow"
  <2>1. r = ZygoteGrows(md)
    BY <1>1, <1>5 DEF ExecuteZygoteFunction
  <2> QED
    BY <1>2, <1>3, <2>1, GrowZygote
<1>6. CASE zygoteFn = "trim"
  <2>1. r = ZygoteTrims(md)
    BY <1>1, <1>6 DEF ExecuteZygoteFunction
  <2> QED
    BY <1>2, <1>3, <2>1, TrimZygote
<1>7. CASE zygoteFn \notin {"none", "grow", "trim"}
  <2>1. PICK lib \in Libs : zygoteFn = lib.path /\ LibAt(zygoteFn) = lib
    BY <1>7, ZygoteLibs
  <2>2. PICK irh : irh = FullIr
    OBVIOUS
  <2>3. r = DynamicLoadModule(ThreadStacks, irh, zygoteFn)
    BY <1>1, <1>7, <2>2 DEF ExecuteZygoteFunction
  <2>4. irh[lib.path].original = Len(lib.elems)
    <3>1. lib.path \in Paths
      BY <2>1, LibTypes
    <3> QED
      BY <2>1, <2>2, <3>1 DEF FullIr
  <2>5. lib.path \in ZygoteFunctions /\ r = DynamicLoadModule(ThreadStacks, irh, lib.path)
    BY <2>1, <2>3
  <2> QED
    BY <1>2, <2>4, <2>5, LoadZygote
<1> QED
  BY <1>4, <1>5, <1>6, <1>7

LEMMA SameLoad ==
  ASSUME zygoteFn \in ZygoteFunctions, NEW irh, Knows(irh), NEW md
  PROVE  ExecuteZygoteFunction(md, irh) = ExecuteZygoteFunction(md, FullIr)
<1>1. CASE zygoteFn \in {"none", "grow", "trim"}
  BY <1>1 DEF ExecuteZygoteFunction
<1>2. CASE zygoteFn \notin {"none", "grow", "trim"}
  <2>1. PICK lib \in Libs : zygoteFn = lib.path /\ LibAt(zygoteFn) = lib
    BY <1>2, ZygoteLibs
  <2>2. lib.path \in Paths
    BY <2>1, LibTypes
  <2>3. GetSharedModuleTableSize(irh, lib) = GetSharedModuleTableSize(FullIr, lib)
    BY <2>1, <2>2 DEF Knows, FullIr, GetSharedModuleTableSize
  <2>4. \A m : CreateModuleInstance(m, irh, lib) = CreateModuleInstance(m, FullIr, lib)
    BY <2>3, Zenon DEF CreateModuleInstance, Then
  <2>5. DynamicLoadModule(md, irh, zygoteFn) = DynamicLoadModule(md, FullIr, zygoteFn)
    BY <2>1, <2>4, Zenon DEF DynamicLoadModule
  <2> QED
    BY <1>2, <2>5 DEF ExecuteZygoteFunction
<1> QED
  BY <1>1, <1>2

LEMMA ZygoteFrame ==
  ASSUME zygoteFn \in ZygoteFunctions, NEW h
  PROVE  Only(Zygote, ZygoteOf(h), {"base"}) /\ ZygoteOf(h).base = BaseKey(h) /\ Fresh(ZygoteOf(h))
<1>1. Fresh(Zygote)
  BY ZygoteFresh
<1>2. PICK z, b : z = Zygote /\ b = BaseKey(h)
  OBVIOUS
<1>3. SpaceOK(z) /\ MemoryOK(z) /\ IsModule(z)
  BY <1>1, <1>2, SpaceTypes DEF Fresh
<1>4. PICK x : x = [z EXCEPT !.base = b]
  OBVIOUS
<1>5. Only(z, x, {"base"}) /\ x.base = b
  BY <1>3, <1>4 DEF Only, IsModule, Fields
<1>6. /\ x.mem = z.mem /\ x.brk = z.brk /\ x.own = z.own /\ x.stacks = z.stacks /\ x.dyn = z.dyn
      /\ x.shared = z.shared /\ IsModule(x)
  BY <1>5 DEF Only, Fields
<1>7. MemoryOK(x)
  BY <1>3, <1>6, SameMemory
<1>8. SpaceOK(x)
  BY <1>3, <1>6, <1>7, SameSpace
<1>9. Only(z, x, {"mem", "brk", "own", "base"})
  BY <1>5 DEF Only
<1>10. Fresh(x)
  BY <1>1, <1>2, <1>8, <1>9, FreshFrame
<1>11. ZygoteOf(h) = x
  BY <1>2, <1>4, Zenon DEF ZygoteOf
<1> QED
  BY <1>2, <1>5, <1>10, <1>11

LEMMA Binds ==
  ASSUME zygoteFn \in ZygoteFunctions, NEW irh, Knows(irh), NEW h
  PROVE  DoBindToFunction(h, irh) = ZygoteOf(h)
<1>1. ExecuteZygoteFunction(ThreadStacks, irh) = ExecuteZygoteFunction(ThreadStacks, FullIr)
  BY SameLoad
<1> QED
  BY <1>1, Zenon DEF DoBindToFunction, ThreadStacks, Main, Zygote, ZygoteOf

-----------------------------------------------------------------------------
(* Clones, and memories restored from a snapshot: blank but for contents.  *)
Lives(x) ==
  /\ SpaceOK(x) /\ TableOK(x) /\ x.bound = TRUE
  /\ x.stacks = Zygote.stacks /\ Keeps(Zygote.dyn, x.dyn)
Mold(own, brk) == [Zygote EXCEPT !.own = own, !.brk = brk]
ImageOK(image) ==
  /\ image.size \in Nat /\ image.size % 2 = 0 /\ image.pointers = {} /\ image.own \subseteq Area
  /\ Placed(Mold(image.own, image.size))
Blank(x) ==
  /\ Only(Zygote, x, {"mem", "brk", "own", "stdout", "base", "pointers"})
  /\ MemoryOK(x) /\ \A i \in DOMAIN x.mem : x.mem[i].by = "anonymous"
LEMMA MoldFrame ==
  ASSUME zygoteFn \in ZygoteFunctions, NEW own, NEW brk
  PROVE  /\ Only(Zygote, Mold(own, brk), {"own", "brk"}) /\ Mold(own, brk).own = own /\ Mold(own, brk).brk = brk
         /\ Mold(own, brk).stacks = Zygote.stacks /\ Mold(own, brk).dyn = Zygote.dyn
         /\ Mold(own, brk).shared = EmptyMap /\ Zygote.shared = EmptyMap
<1>1. PICK z : z = Zygote /\ IsModule(z) /\ z.shared = EmptyMap
  BY ZygoteFresh, SpaceTypes DEF Fresh
<1>2. PICK x : x = [z EXCEPT !.own = own, !.brk = brk]
  OBVIOUS
<1>3. Only(z, x, {"own", "brk"}) /\ x.own = own /\ x.brk = brk
  BY <1>1, <1>2 DEF Only, IsModule, Fields
<1>4. x.stacks = z.stacks /\ x.dyn = z.dyn /\ x.shared = z.shared
  BY <1>3 DEF Only, Fields
<1>5. Mold(own, brk) = x
  BY <1>1, <1>2, Zenon DEF Mold
<1> QED
  BY <1>1, <1>3, <1>4, <1>5

LEMMA BlankLives ==
  ASSUME zygoteFn \in ZygoteFunctions, NEW x, Blank(x), x.own \subseteq Area, Placed(x), x.pointers = {}
  PROVE  Lives(x)
<1>1. PICK z : z = Zygote /\ Fresh(z)
  BY ZygoteFresh
<1>2. SpaceOK(z) /\ TableOK(z) /\ z.shared = EmptyMap /\ z.pointers = {} /\ z.bound = TRUE /\ LayoutTypes(z)
  BY <1>1, SpaceTypes, Zenon DEF Fresh
<1>3. /\ Only(z, x, {"mem", "brk", "own", "stdout", "base", "pointers"})
      /\ MemoryOK(x) /\ \A i \in DOMAIN x.mem : x.mem[i].by = "anonymous"
  BY <1>1 DEF Blank
<1>4. /\ IsModule(x) /\ x.table = z.table /\ x.got = z.got /\ x.gotMem = z.gotMem /\ x.stacks = z.stacks
      /\ x.missing = z.missing /\ x.dyn = z.dyn /\ x.paths = z.paths /\ x.loading = z.loading /\ x.shared = z.shared
  BY <1>3 DEF Only, Fields
<1>5. x.bound = TRUE
  BY <1>2, <1>3, Zenon DEF Only, Fields
<1>6. TableOK(x)
  BY <1>2, <1>4, SameTable
<1>7. LayoutOK(x)
  BY <1>2, <1>4 DEF LayoutTypes, LayoutOK
<1>8. DOMAIN x.shared = {}
  BY <1>2, <1>4 DEF EmptyMap
<1>9. ASSUME NEW d \in Demands(x) PROVE BackedBy(x, d[1], d[2], d[3])
  <2>1. d[3] = "anonymous"
    BY <1>8 DEF Demands
  <2>2. x.brk \in Nat /\ x.brk % 2 = 0 /\ x.brk <= 2 * Len(x.mem) /\ Len(x.mem) \in Nat /\ DOMAIN x.mem = 1..Len(x.mem)
    BY <1>3, MemoryTypes
  <2>3. \A i \in Items(x) : Hi(x, i) <= x.brk
    BY <1>7 DEF LayoutOK, Placed
  <2>4. d[1] \in Nat /\ d[2] \in Nat \ {0} /\ d[1] + d[2] <= x.brk
    BY <1>7, <2>2, <2>3, DemandFits
  <2>5. PagesIn(d[1], d[2]) \subseteq 1..(x.brk \div 2)
    BY <2>2, <2>4, PagesBelow
  <2>6. x.brk \div 2 <= Len(x.mem) /\ x.brk \div 2 \in Nat
    BY <2>2
  <2>7. PagesIn(d[1], d[2]) \subseteq DOMAIN x.mem
    BY <2>2, <2>5, <2>6
  <2> QED
    BY <1>3, <2>1, <2>7 DEF BackedBy
<1>10. SpaceOK(x)
  BY <1>3, <1>7, <1>9 DEF SpaceOK, BackOK
<1>11. Keeps(z.dyn, x.dyn)
  BY <1>4 DEF Keeps
<1> QED
  BY <1>1, <1>4, <1>5, <1>6, <1>10, <1>11 DEF Lives

LEMMA Imaged ==
  ASSUME NEW md
  PROVE  /\ Image(md).size = md.brk /\ Image(md).own = md.own /\ Image(md).pointers = md.pointers
         /\ Image(md).pages = [i \in 1..(md.brk \div PageSize) |-> md.mem[i].c]
BY DEF Image

(* What is running fits into a memory of its zygote.                       *)
LEMMA ImageFits ==
  ASSUME zygoteFn \in ZygoteFunctions, NEW md, Lives(md), md.pointers = {}
  PROVE  ImageOK(Image(md))
<1>1. SpaceOK(md) /\ md.stacks = Zygote.stacks /\ Keeps(Zygote.dyn, md.dyn)
  BY DEF Lives
<1>2. md.brk \in Nat /\ md.brk % 2 = 0 /\ LayoutTypes(md) /\ Placed(md)
  BY <1>1, SpaceTypes DEF SpaceOK, LayoutOK
<1>3. PICK w : w = Mold(md.own, md.brk)
  OBVIOUS
<1>4. /\ w.own = md.own /\ w.brk = md.brk /\ w.stacks = md.stacks /\ w.shared = EmptyMap
      /\ Keeps(w.dyn, md.dyn)
  BY <1>1, <1>3, MoldFrame
<1>5. DOMAIN w.shared = {}
  BY <1>4 DEF EmptyMap
<1>6. Stays(w, md) /\ Items(w) \subseteq Items(md)
  BY <1>4, <1>5 DEF Stays, Items, Keeps
<1>7. \A i \in Items(w) : Lo(md, i) = Lo(w, i) /\ Hi(md, i) = Hi(w, i)
  BY <1>6, SameBounds
<1>8. Placed(w)
  BY <1>2, <1>4, <1>6, <1>7 DEF Placed, Bounds, Apart
<1>9. md.own \subseteq Area
  BY <1>2 DEF LayoutTypes
<1>10. PICK image : image = Image(md)
  OBVIOUS
<1>11. image.size = md.brk /\ image.own = md.own /\ image.pointers = md.pointers
  BY <1>10, Imaged
<1> QED
  BY <1>2, <1>3, <1>8, <1>9, <1>10, <1>11 DEF ImageOK

(* A snapshot is mapped over the pages that are not state or a file.       *)
Wiped(c) == [ZeroPage EXCEPT !.c = c]
LEMMA WipedPage ==
  ASSUME NEW c
  PROVE  IsPage(Wiped(c)) /\ Wiped(c).by = "anonymous" /\ Wiped(c).c = c
BY DEF Wiped, ZeroPage, IsPage

LEMMA MapFrame ==
  ASSUME NEW md, MemoryOK(md), \A i \in DOMAIN md.mem : md.mem[i].by = "anonymous", NEW image,
         NEW x, x = MapSnapshot(md, image)
  PROVE  /\ Only(md, x, {"own", "pointers", "mem"}) /\ x.own = image.own /\ x.pointers = image.pointers
         /\ MemoryOK(x) /\ DOMAIN x.mem = DOMAIN md.mem /\ \A i \in DOMAIN x.mem : x.mem[i].by = "anonymous"
         /\ \A i \in DOMAIN x.mem : x.mem[i] = IF i \in DOMAIN image.pages THEN Wiped(image.pages[i]) ELSE md.mem[i]
<1> DEFINE e == [i \in DOMAIN md.mem |-> IF i \in DOMAIN image.pages THEN Wiped(image.pages[i]) ELSE md.mem[i]]
<1>1. IsModule(md) /\ \A i \in DOMAIN md.mem : IsPage(md.mem[i])
  BY DEF MemoryOK
<1>2. \A i \in DOMAIN md.mem : IsPage(e[i]) /\ e[i].by = "anonymous"
  <2> TAKE i \in DOMAIN md.mem
  <2>1. CASE i \in DOMAIN image.pages
    BY <2>1, WipedPage
  <2>2. CASE i \notin DOMAIN image.pages
    BY <1>1, <2>2
  <2> QED
    BY <2>1, <2>2
<1>3. x = [md EXCEPT !.own = image.own, !.pointers = image.pointers, !.mem = e]
  BY Zenon DEF MapSnapshot, Wiped
<1>4. e = [i \in DOMAIN md.mem |-> e[i]]
  OBVIOUS
<1>5. \A i \in DOMAIN md.mem : e[i] = IF i \in DOMAIN image.pages THEN Wiped(image.pages[i]) ELSE md.mem[i]
  OBVIOUS
<1> HIDE DEF e
<1>6. Only(md, x, {"own", "pointers", "mem"}) /\ x.own = image.own /\ x.pointers = image.pointers /\ x.mem = e
  BY <1>1, <1>3 DEF Only, IsModule, Fields
<1>7. x.brk = md.brk /\ IsModule(x) /\ x.mem = [i \in DOMAIN md.mem |-> e[i]]
  BY <1>4, <1>6 DEF Only, Fields
<1>8. MemoryOK(x) /\ DOMAIN x.mem = DOMAIN md.mem
  BY <1>2, <1>7, Repaged
<1> QED
  BY <1>2, <1>5, <1>6, <1>8

BlankOf(md) == [md EXCEPT !.mem = [i \in DOMAIN @ |-> ZeroPage], !.stdout = {}]
CloneOf(md) == MapSnapshot(BlankOf(md), Image(md))
LEMMA BlankFrame ==
  ASSUME NEW md, MemoryOK(md), NEW x, x = BlankOf(md)
  PROVE  /\ Only(md, x, {"mem", "stdout"}) /\ x.stdout = {} /\ x.brk = md.brk /\ MemoryOK(x)
         /\ DOMAIN x.mem = DOMAIN md.mem /\ \A i \in DOMAIN x.mem : x.mem[i] = ZeroPage /\ x.mem[i].by = "anonymous"
<1> DEFINE e == [i \in DOMAIN md.mem |-> ZeroPage]
<1>1. IsModule(md)
  BY DEF MemoryOK
<1>2. x = [md EXCEPT !.mem = e, !.stdout = {}]
  BY Zenon DEF BlankOf
<1>3. e = [i \in DOMAIN md.mem |-> e[i]] /\ \A i \in DOMAIN md.mem : e[i] = ZeroPage
  OBVIOUS
<1>4. IsPage(ZeroPage) /\ ZeroPage.by = "anonymous"
  BY DEF ZeroPage, IsPage
<1> HIDE DEF e
<1>5. Only(md, x, {"mem", "stdout"}) /\ x.stdout = {} /\ x.mem = e
  BY <1>1, <1>2 DEF Only, IsModule, Fields
<1>6. x.brk = md.brk /\ IsModule(x) /\ x.mem = [i \in DOMAIN md.mem |-> e[i]]
  BY <1>3, <1>5 DEF Only, Fields
<1>7. \A i \in DOMAIN md.mem : IsPage(e[i])
  BY <1>3, <1>4
<1>8. MemoryOK(x) /\ DOMAIN x.mem = DOMAIN md.mem
  BY <1>6, <1>7, Repaged
<1> QED
  BY <1>3, <1>4, <1>5, <1>6, <1>8

LEMMA CloneFrame ==
  ASSUME NEW md, MemoryOK(md), NEW x, x = CloneOf(md)
  PROVE  /\ Only(md, x, {"mem", "stdout"}) /\ x.stdout = {} /\ MemoryOK(x)
         /\ DOMAIN x.mem = DOMAIN md.mem /\ \A i \in DOMAIN x.mem : x.mem[i].by = "anonymous"
         /\ \A i \in DOMAIN x.mem : x.mem[i] = IF i \in 1..(md.brk \div PageSize) THEN Wiped(md.mem[i].c) ELSE ZeroPage
<1>1. PICK b, image : b = BlankOf(md) /\ image = Image(md)
  OBVIOUS
<1>2. x = MapSnapshot(b, image)
  BY <1>1, Zenon DEF CloneOf
<1>3. /\ Only(md, b, {"mem", "stdout"}) /\ b.stdout = {} /\ b.brk = md.brk /\ MemoryOK(b)
      /\ DOMAIN b.mem = DOMAIN md.mem /\ \A i \in DOMAIN b.mem : b.mem[i] = ZeroPage /\ b.mem[i].by = "anonymous"
  BY <1>1, BlankFrame
<1>4. /\ image.own = md.own /\ image.pointers = md.pointers
      /\ image.pages = [i \in 1..(md.brk \div PageSize) |-> md.mem[i].c]
  BY <1>1, Imaged
<1>5. /\ Only(b, x, {"own", "pointers", "mem"}) /\ x.own = image.own /\ x.pointers = image.pointers
      /\ MemoryOK(x) /\ DOMAIN x.mem = DOMAIN b.mem /\ \A i \in DOMAIN x.mem : x.mem[i].by = "anonymous"
      /\ \A i \in DOMAIN x.mem : x.mem[i] = IF i \in DOMAIN image.pages THEN Wiped(image.pages[i]) ELSE b.mem[i]
  BY <1>2, <1>3, MapFrame
<1>6. Only(md, x, {"mem", "stdout"}) /\ x.stdout = {}
  BY <1>3, <1>4, <1>5 DEF Only, Fields
<1>7. ASSUME NEW i \in DOMAIN x.mem
      PROVE  x.mem[i] = IF i \in 1..(md.brk \div PageSize) THEN Wiped(md.mem[i].c) ELSE ZeroPage
  <2>1. CASE i \in 1..(md.brk \div PageSize)
    <3>1. i \in DOMAIN image.pages /\ image.pages[i] = md.mem[i].c
      BY <1>4, <2>1
    <3>2. x.mem[i] = Wiped(image.pages[i])
      BY <1>5, <3>1
    <3> QED
      BY <2>1, <3>1, <3>2
  <2>2. CASE i \notin 1..(md.brk \div PageSize)
    <3>1. i \notin DOMAIN image.pages
      BY <1>4, <2>2
    <3>2. x.mem[i] = b.mem[i] /\ i \in DOMAIN b.mem
      BY <1>5, <3>1
    <3> QED
      BY <1>3, <2>2, <3>2
  <2> QED
    BY <2>1, <2>2
<1> QED
  BY <1>3, <1>5, <1>6, <1>7

(* The clone of a zygote is like it in all that a function can see.        *)
LEMMA CloneLives ==
  ASSUME zygoteFn \in ZygoteFunctions, NEW h, NEW z, z = ZygoteOf(h), NEW x, x = CloneOf(z)
  PROVE  Lives(x) /\ Blank(x) /\ x.pointers = {} /\ Lives(z) /\ z.pointers = {}
<1>1. Only(Zygote, z, {"base"}) /\ Fresh(z)
  BY ZygoteFrame
<1>2. SpaceOK(z) /\ TableOK(z) /\ z.pointers = {} /\ z.bound = TRUE /\ MemoryOK(z) /\ IsModule(z)
  BY <1>1, SpaceTypes, Zenon DEF Fresh
<1>3. /\ Only(z, x, {"mem", "stdout"}) /\ MemoryOK(x) /\ DOMAIN x.mem = DOMAIN z.mem
      /\ \A i \in DOMAIN x.mem : x.mem[i].by = "anonymous"
  BY <1>2, CloneFrame
<1>4. Blank(x)
  <2>1. Only(Zygote, x, {"mem", "brk", "own", "stdout", "base", "pointers"})
    BY <1>1, <1>3 DEF Only
  <2> QED
    BY <1>3, <2>1 DEF Blank
<1>5. x.own = z.own /\ x.brk = z.brk /\ x.pointers = {} /\ x.stacks = z.stacks /\ x.dyn = z.dyn /\ x.shared = z.shared
  BY <1>2, <1>3 DEF Only, Fields
<1>6. LayoutTypes(z) /\ Placed(z)
  BY <1>2, SpaceTypes DEF SpaceOK, LayoutOK
<1>7. Placed(x)
  <2>1. Stays(z, x) /\ Items(x) = Items(z)
    BY <1>5 DEF Stays, Items
  <2>2. \A i \in Items(z) : Lo(x, i) = Lo(z, i) /\ Hi(x, i) = Hi(z, i)
    BY <2>1, SameBounds
  <2> QED
    BY <1>5, <1>6, <2>1, <2>2 DEF Placed, Bounds, Apart
<1>8. x.own \subseteq Area
  BY <1>5, <1>6 DEF LayoutTypes
<1>9. Lives(x)
  BY <1>4, <1>5, <1>7, <1>8, BlankLives
<1>10. Lives(z)
  <2>1. z.stacks = Zygote.stacks /\ z.dyn = Zygote.dyn
    BY <1>1 DEF Only, Fields
  <2>2. Keeps(Zygote.dyn, z.dyn)
    BY <2>1 DEF Keeps
  <2> QED
    BY <1>2, <2>1, <2>2, Zenon DEF Lives
<1> QED
  BY <1>2, <1>4, <1>5, <1>9, <1>10

LEMMA CloneVisible ==
  ASSUME NEW z, Fresh(z), NEW x, x = CloneOf(z)
  PROVE  /\ Visible(x) = Visible(z)
         /\ \A i \in DOMAIN x.mem : i > x.brk \div PageSize => x.mem[i] = ZeroPage
<1>1. SpaceOK(z) /\ MemoryOK(z) /\ IsModule(z) /\ z.stdout = {}
  BY SpaceTypes, Zenon DEF Fresh
<1>2. z.brk \in Nat /\ z.brk % 2 = 0 /\ z.brk <= 2 * Len(z.mem) /\ Len(z.mem) \in Nat /\ DOMAIN z.mem = 1..Len(z.mem)
  BY <1>1, MemoryTypes
<1>3. /\ Only(z, x, {"mem", "stdout"}) /\ x.stdout = {} /\ MemoryOK(x) /\ DOMAIN x.mem = DOMAIN z.mem
      /\ \A i \in DOMAIN x.mem : x.mem[i] = IF i \in 1..(z.brk \div PageSize) THEN Wiped(z.mem[i].c) ELSE ZeroPage
  BY <1>1, CloneFrame
<1>4. /\ x.own = z.own /\ x.brk = z.brk /\ x.pointers = z.pointers /\ x.stacks = z.stacks /\ x.dyn = z.dyn
      /\ x.shared = z.shared /\ x.table = z.table /\ x.got = z.got /\ x.gotMem = z.gotMem /\ x.paths = z.paths
      /\ x.stdout = z.stdout
  BY <1>1, <1>3 DEF Only, Fields
<1>5. PICK n : n = z.brk \div PageSize /\ n = x.brk \div PageSize
  BY <1>4
<1>6. n \in Nat /\ 1..n \subseteq DOMAIN z.mem
  <2>1. n = z.brk \div 2
    BY <1>5, Sizes
  <2> QED
    BY <1>2, <2>1
<1>7. \A i \in 1..n : x.mem[i].c = z.mem[i].c
  <2> TAKE i \in 1..n
  <2>1. x.mem[i] = Wiped(z.mem[i].c)
    BY <1>3, <1>5, <1>6
  <2> QED
    BY <2>1, WipedPage
<1>8. [i \in 1..n |-> x.mem[i].c] = [i \in 1..n |-> z.mem[i].c]
  BY <1>7
<1>9. Image(x) = Image(z)
  <2>1. PICK p : p = [i \in 1..n |-> x.mem[i].c] /\ p = [i \in 1..n |-> z.mem[i].c]
    BY <1>8
  <2>2. Image(x) = [size |-> x.brk, pages |-> p, own |-> x.own, pointers |-> x.pointers]
    BY <1>5, <2>1, Zenon DEF Image
  <2>3. Image(z) = [size |-> z.brk, pages |-> p, own |-> z.own, pointers |-> z.pointers]
    BY <1>5, <2>1, Zenon DEF Image
  <2> QED
    BY <1>4, <2>2, <2>3
<1>10. Visible(x) = Visible(z)
  BY <1>4, <1>9, Zenon DEF Visible
<1>11. ASSUME NEW i \in DOMAIN x.mem, i > n PROVE x.mem[i] = ZeroPage
  <2>1. i \notin 1..n
    BY <1>6, <1>11
  <2> QED
    BY <1>3, <1>5, <2>1
<1> QED
  BY <1>5, <1>10, <1>11

LEMMA NoShrink ==
  ASSUME NEW md, MemoryOK(md)
  PROVE  Resize(md, md.brk).ok = TRUE /\ Resize(md, md.brk).md = md
<1>1. md.brk \in Nat /\ IsModule(md)
  BY MemoryTypes
<1>2. ~(md.brk > md.brk) /\ md.brk - md.brk = 0 /\ 0 % 2 = 0 /\ ~(0 > md.brk) /\ md.brk - 0 = md.brk
  BY <1>1
<1>3. Resize(md, md.brk) = ShrinkMemory(md, 0)
  BY <1>2 DEF Resize
<1>4. ShrinkMemory(md, 0) = Done([md EXCEPT !.brk = @ - 0], md.brk)
  BY <1>2, Sizes DEF ShrinkMemory
<1>5. [md EXCEPT !.brk = @ - 0] = md
  BY <1>1, <1>2 DEF IsModule, Fields
<1> QED
  BY <1>3, <1>4, <1>5 DEF Done

BaseEntry(md) == [image |-> Image(md), fd |-> TRUE]
LEMMA Cloned ==
  ASSUME NEW z, MemoryOK(z), NEW reg, z.base \in DOMAIN reg, reg[z.base] = BaseEntry(z)
  PROVE  Clone(z, reg) = CloneOf(z)
<1>1. PICK b, k, e : b = BlankOf(z) /\ k = z.base /\ e = Image(z)
  OBVIOUS
<1>2. b.brk = z.brk /\ MemoryOK(b)
  BY <1>1, BlankFrame
<1>3. reg[k].image = e /\ reg[k].fd = TRUE /\ k \in DOMAIN reg
  <2>1. PICK p : p = [image |-> e, fd |-> TRUE]
    OBVIOUS
  <2>2. reg[k] = p
    BY <1>1, <2>1, Zenon DEF BaseEntry
  <2>3. p.image = e
    BY <2>1
  <2>4. p.fd = TRUE
    BY <2>1
  <2> QED
    BY <1>1, <2>2, <2>3, <2>4
<1>4. e.size = b.brk
  BY <1>1, <1>2, Imaged
<1>5. Resize(b, e.size).ok = TRUE /\ Resize(b, e.size).md = b
  BY <1>2, <1>4, NoShrink
<1>6. PICK r : r = Resize(b, e.size) /\ r.ok = TRUE /\ r.md = b
  BY <1>5
<1>7. Restore(b, reg, k) = Done(MapSnapshot(b, e), 0)
  BY <1>3, <1>6, Zenon DEF Restore, Then
<1>8. PICK x : x = MapSnapshot(b, e)
  OBVIOUS
<1>9. Restore(b, reg, k).md = x
  <2>1. Restore(b, reg, k) = Done(x, 0)
    BY <1>7, <1>8
  <2> QED
    BY <2>1 DEF Done
<1>10. Clone(z, reg) = x
  BY <1>1, <1>9, Zenon DEF Clone, BlankOf
<1> QED
  BY <1>1, <1>8, <1>10, Zenon DEF CloneOf

(* A thread starts from a snapshot on a clone.                             *)
LEMMA Between ==
  ASSUME NEW a \in Nat, NEW b \in Nat
  PROVE  /\ b > a => b - a \in Nat \ {0} /\ a + (b - a) = b
         /\ ~(a > b) => b - a \in Nat /\ b - (b - a) = a
OBVIOUS
LEMMA Resized ==
  ASSUME NEW md, MemoryOK(md), \A i \in DOMAIN md.mem : md.mem[i].by = "anonymous",
         NEW size \in Nat, size % 2 = 0, NEW r, r = Resize(md, size)
  PROVE  /\ r.ok \in BOOLEAN
         /\ r.ok => /\ MemoryOK(r.md) /\ Only(md, r.md, {"mem", "brk"}) /\ size <= r.md.brk
                    /\ \A i \in DOMAIN r.md.mem : r.md.mem[i].by = "anonymous"
<1>1. md.brk \in Nat /\ md.brk % 2 = 0 /\ DOMAIN md.mem = 1..Len(md.mem) /\ IsModule(md)
  BY MemoryTypes
<1>2. CASE size > md.brk
  <2>1. PICK n : n = size - md.brk /\ n \in Nat \ {0} /\ md.brk + n = size
    <3>1. size - md.brk \in Nat \ {0} /\ md.brk + (size - md.brk) = size
      BY <1>1, <1>2, Between
    <3> QED
      BY <3>1, Zenon
  <2>2. r = GrowMemory(md, n)
    BY <1>2, <2>1 DEF Resize
  <2>3. n \in Nat \ {0}
    BY <2>1
  <2>4. r.ok \in BOOLEAN /\ (r.ok => Grown(md, n, r))
    BY <2>2, <2>3, GrowOk
  <2>5. ASSUME r.ok
        PROVE  /\ MemoryOK(r.md) /\ Only(md, r.md, {"mem", "brk"}) /\ size <= r.md.brk
               /\ \A i \in DOMAIN r.md.mem : r.md.mem[i].by = "anonymous"
    <3>1. Grown(md, n, r)
      BY <2>4, <2>5
    <3>2. /\ MemoryOK(r.md) /\ Only(md, r.md, {"mem", "brk"}) /\ r.ptr \in Nat /\ md.brk <= r.ptr /\ r.md.brk = r.ptr + n
          /\ \A i \in DOMAIN md.mem : r.md.mem[i] = md.mem[i]
          /\ \A i \in DOMAIN r.md.mem \ DOMAIN md.mem : r.md.mem[i] = ZeroPage
      BY <3>1 DEF Grown
    <3>3. size <= r.md.brk
      BY <1>1, <2>1, <2>3, <3>2
    <3>4. ZeroPage.by = "anonymous"
      BY DEF ZeroPage
    <3>5. \A i \in DOMAIN r.md.mem : r.md.mem[i].by = "anonymous"
      BY <3>2, <3>4
    <3> QED
      BY <3>2, <3>3, <3>5
  <2> QED
    BY <2>4, <2>5
<1>3. CASE ~(size > md.brk)
  <2>1. PICK n : n = md.brk - size /\ n \in Nat /\ md.brk - n = size
    <3>1. md.brk - size \in Nat /\ md.brk - (md.brk - size) = size
      BY <1>1, <1>3, Between
    <3> QED
      BY <3>1, Zenon
  <2>2. r = ShrinkMemory(md, n)
    BY <1>3, <2>1 DEF Resize
  <2>3. n \in Nat
    BY <2>1
  <2>4. r.ok \in BOOLEAN /\ (r.ok => MemoryOK(r.md) /\ Only(md, r.md, {"brk"}) /\ r.md.brk = md.brk - n)
    BY <2>2, <2>3, ShrinkOk
  <2>5. ASSUME r.ok
        PROVE  /\ MemoryOK(r.md) /\ Only(md, r.md, {"mem", "brk"}) /\ size <= r.md.brk
               /\ \A i \in DOMAIN r.md.mem : r.md.mem[i].by = "anonymous"
    <3>1. MemoryOK(r.md) /\ Only(md, r.md, {"brk"}) /\ r.md.brk = size
      BY <2>1, <2>4, <2>5
    <3>2. r.md.mem = md.mem /\ Only(md, r.md, {"mem", "brk"})
      BY <3>1 DEF Only, Fields
    <3> QED
      BY <3>1, <3>2
  <2> QED
    BY <2>4, <2>5
<1> QED
  BY <1>2, <1>3

LEMMA RestoreLives ==
  ASSUME zygoteFn \in ZygoteFunctions, NEW md, Blank(md), NEW reg, NEW key,
         key \in DOMAIN reg => ImageOK(reg[key].image), NEW r, r = Restore(md, reg, key)
  PROVE  r.ok \in BOOLEAN /\ (r.ok => Lives(r.md) /\ r.md.pointers = {})
<1>1. CASE key \notin DOMAIN reg
  <2>1. r = Thrown(md)
    BY <1>1, Zenon DEF Restore
  <2>2. r.ok = FALSE
    BY <2>1 DEF Thrown
  <2> QED
    BY <2>2
<1>2. CASE key \in DOMAIN reg
  <2>1. PICK image, y : image = reg[key].image /\ y = Resize(md, image.size)
    OBVIOUS
  <2>2. /\ image.size \in Nat /\ image.size % 2 = 0 /\ image.pointers = {} /\ image.own \subseteq Area
        /\ Placed(Mold(image.own, image.size))
    BY <1>2, <2>1 DEF ImageOK
  <2>3. /\ Only(Zygote, md, {"mem", "brk", "own", "stdout", "base", "pointers"})
        /\ MemoryOK(md) /\ \A i \in DOMAIN md.mem : md.mem[i].by = "anonymous"
    BY DEF Blank
  <2>4. /\ y.ok \in BOOLEAN
        /\ y.ok => /\ MemoryOK(y.md) /\ Only(md, y.md, {"mem", "brk"}) /\ image.size <= y.md.brk
                   /\ \A i \in DOMAIN y.md.mem : y.md.mem[i].by = "anonymous"
    BY <2>1, <2>2, <2>3, Resized
  <2>5. CASE ~y.ok
    <3>1. r = y
      BY <1>2, <2>1, <2>5, Zenon DEF Restore, Then
    <3> QED
      BY <2>4, <2>5, <3>1
  <2>6. CASE y.ok /\ ~reg[key].fd
    <3>1. r = Thrown(y.md)
      BY <1>2, <2>1, <2>6, Zenon DEF Restore, Then
    <3>2. r.ok = FALSE
      BY <3>1 DEF Thrown
    <3> QED
      BY <3>2
  <2>7. CASE y.ok /\ reg[key].fd
    <3>1. r = Done(MapSnapshot(y.md, image), 0)
      BY <1>2, <2>1, <2>7, Zenon DEF Restore, Then
    <3>2. PICK x : x = MapSnapshot(y.md, image)
      OBVIOUS
    <3>3. r = Done(x, 0)
      BY <3>1, <3>2
    <3>4. r.ok = TRUE /\ r.md = x
      BY <3>3 DEF Done
    <3>5. /\ Only(y.md, x, {"own", "pointers", "mem"}) /\ x.own = image.own /\ x.pointers = image.pointers
          /\ MemoryOK(x) /\ \A i \in DOMAIN x.mem : x.mem[i].by = "anonymous"
      BY <2>4, <2>7, <3>2, MapFrame
    <3>6. x.brk = y.md.brk /\ image.size <= x.brk /\ x.brk \in Nat
      BY <2>4, <2>7, <3>5, MemoryTypes DEF Only, Fields
    <3>7. Blank(x)
      <4>1. Only(Zygote, x, {"mem", "brk", "own", "stdout", "base", "pointers"})
        BY <2>3, <2>4, <2>7, <3>5 DEF Only
      <4> QED
        BY <3>5, <4>1 DEF Blank
    <3>8. PICK w : w = Mold(image.own, image.size)
      OBVIOUS
    <3>9. w.own = x.own /\ w.brk = image.size /\ w.stacks = Zygote.stacks /\ w.dyn = Zygote.dyn
          /\ w.shared = EmptyMap /\ Zygote.shared = EmptyMap
      BY <3>5, <3>8, MoldFrame
    <3>10. x.stacks = w.stacks /\ x.dyn = w.dyn /\ x.shared = w.shared /\ x.own = w.own
      BY <3>7, <3>9 DEF Blank, Only, Fields
    <3>11. Stays(w, x) /\ Items(x) \subseteq Items(w)
      BY <3>10 DEF Stays, Items
    <3>12. Placed(x)
      BY <2>2, <3>6, <3>8, <3>9, <3>11, PlaceNone
    <3>13. Lives(x)
      BY <2>2, <3>5, <3>7, <3>12, BlankLives
    <3> QED
      BY <2>2, <3>4, <3>5, <3>13
  <2> QED
    BY <2>4, <2>5, <2>6, <2>7
<1> QED
  BY <1>1, <1>2

(* What a host function may do to the module of a Faaslet.                 *)
LEMMA LivesFrame ==
  ASSUME NEW md, Lives(md), NEW x, SpaceOK(x), Only(md, x, {"mem", "brk", "own", "shared", "stdout"})
  PROVE  Lives(x)
<1>1. SpaceOK(md) /\ TableOK(md) /\ md.bound = TRUE /\ md.stacks = Zygote.stacks /\ Keeps(Zygote.dyn, md.dyn)
  BY Zenon DEF Lives
<1>2. /\ IsModule(x) /\ x.table = md.table /\ x.got = md.got /\ x.gotMem = md.gotMem /\ x.stacks = md.stacks
      /\ x.missing = md.missing /\ x.dyn = md.dyn /\ x.paths = md.paths /\ x.loading = md.loading
      /\ x.pointers = md.pointers
  BY DEF Only, Fields
<1>3. x.bound = md.bound
  BY Zenon DEF Only, Fields
<1>4. TableOK(x)
  BY <1>1, <1>2, SameTable
<1>5. x.bound = TRUE
  BY <1>1, <1>3
<1>6. x.stacks = Zygote.stacks /\ Keeps(Zygote.dyn, x.dyn)
  BY <1>1, <1>2
<1> QED
  BY <1>4, <1>5, <1>6, Zenon DEF Lives

LEMMA LivesLoaded ==
  ASSUME NEW md, Lives(md), NEW x, Loaded(md, x)
  PROVE  Lives(x)
<1>1. SpaceOK(md) /\ TableOK(md) /\ md.bound = TRUE /\ md.stacks = Zygote.stacks /\ Keeps(Zygote.dyn, md.dyn)
  BY Zenon DEF Lives
<1>2. SpaceOK(x) /\ TableOK(x) /\ Only(md, x, LoadFields) /\ Keeps(md.dyn, x.dyn)
  BY Zenon DEF Loaded
<1>3. x.stacks = md.stacks
  BY <1>2 DEF Only, Fields, LoadFields
<1>4. x.bound = md.bound
  <2>1. "bound" \in Fields \ LoadFields
    BY DEF Fields, LoadFields
  <2> QED
    BY <1>2, <2>1, Zenon DEF Only
<1>5. Keeps(Zygote.dyn, x.dyn)
  BY <1>1, <1>2 DEF Keeps
<1>6. x.bound = TRUE /\ x.stacks = Zygote.stacks
  BY <1>1, <1>3, <1>4
<1> QED
  BY <1>2, <1>5, <1>6, Zenon DEF Lives

-----------------------------------------------------------------------------
(* Host functions: an exception, or a module that lives on.                *)
Alive(r) == r.ok \in BOOLEAN /\ (r.ok => Lives(r.md))
LEMMA LivesSpace ==
  ASSUME NEW md, Lives(md)
  PROVE  SpaceOK(md) /\ TableOK(md) /\ IsModule(md) /\ MemoryOK(md) /\ LayoutTypes(md) /\ md.brk \in Nat
BY SpaceTypes, Zenon DEF Lives

LEMMA SbrkGrows ==
  ASSUME NEW md, Lives(md), NEW n \in {1, PageSize}
  PROVE  Alive(Claimed(GrowMemory(md, n), n, "heap"))
<1>1. PICK r : r = Claimed(GrowMemory(md, n), n, "heap")
  OBVIOUS
<1>2. n \in Nat \ {0} /\ "heap" \in {"heap", "mmap"}
  BY Sizes
<1>3. n % 2 = 0 => RoundUp(n) <= n
  BY <1>2, RoundEven
<1>4. r.ok \in BOOLEAN /\ (r.ok => SpaceOK(r.md) /\ Only(md, r.md, {"mem", "brk", "own"}))
  BY <1>1, <1>2, <1>3, LivesSpace, ClaimSpace
<1>5. \A x : Only(md, x, {"mem", "brk", "own"}) => Only(md, x, {"mem", "brk", "own", "shared", "stdout"})
  BY DEF Only
<1>6. r.ok => Lives(r.md)
  BY <1>4, <1>5, LivesFrame
<1> QED
  BY <1>1, <1>4, <1>6, Zenon DEF Alive

LEMMA SbrkShrinks ==
  ASSUME NEW md, Lives(md), NEW a \in md.own, a.kind = "heap", a.base + a.len = md.brk
  PROVE  Alive(ShrinkMemory([md EXCEPT !.own = @ \ {a}], a.len))
<1>1. PICK m, r : m = Disown(md, a) /\ r = ShrinkMemory(m, a.len)
  OBVIOUS
<1>2. r = ShrinkMemory([md EXCEPT !.own = @ \ {a}], a.len)
  BY <1>1, Zenon DEF Disown
<1>3. a.base \in Nat /\ a.len \in Nat \ {0} /\ SpaceOK(md) /\ MemoryOK(md) /\ IsModule(md)
  BY LivesSpace DEF LayoutTypes, Area
<1>4. Only(md, m, {"own"}) /\ m.own = md.own \ {a}
  BY <1>1, <1>3, DisownFrame
<1>5. m.mem = md.mem /\ m.brk = md.brk /\ IsModule(m)
  BY <1>4 DEF Only, Fields
<1>6. MemoryOK(m)
  BY <1>3, <1>5, SameMemory
<1>7. /\ r.ok \in BOOLEAN
      /\ r.ok => a.len % 2 = 0 /\ MemoryOK(r.md) /\ Only(m, r.md, {"brk"}) /\ r.md.brk = m.brk - a.len
  BY <1>1, <1>3, <1>6, ShrinkOk
<1>8. ASSUME r.ok PROVE Lives(r.md)
  <2>1. RoundUp(a.len) = a.len
    BY <1>3, <1>7, <1>8, RoundEven
  <2>2. Only(md, r.md, {"own", "brk"}) /\ r.md.own = md.own \ {a}
    BY <1>4, <1>7, <1>8 DEF Only, Fields
  <2>3. r.md.brk = a.base
    BY <1>3, <1>5, <1>7, <1>8
  <2>4. a.base + RoundUp(a.len) = md.brk /\ a.kind # "file"
    BY <2>1
  <2>5. SpaceOK(r.md)
    BY <1>3, <1>7, <1>8, <2>2, <2>3, <2>4, FreeSpace
  <2>6. Only(md, r.md, {"mem", "brk", "own", "shared", "stdout"})
    BY <2>2 DEF Only
  <2> QED
    BY <2>5, <2>6, LivesFrame
<1> QED
  BY <1>2, <1>7, <1>8, Zenon DEF Alive

LEMMA Mmaps ==
  ASSUME NEW md, Lives(md)
  PROVE  Alive(MmapAnonymous(md)) /\ Alive(MmapFd(md))
<1>1. PICK n, r, f : n = RoundUp(1) /\ r = Claimed(GrowMemory(md, n), 1, "mmap") /\ f = MmapFd(md)
  OBVIOUS
<1>2. MmapAnonymous(md) = r
  BY <1>1, Zenon DEF MmapAnonymous, MmapMemory
<1>3. n \in Nat \ {0} /\ 1 \in Nat \ {0} /\ "mmap" \in {"heap", "mmap"}
  BY <1>1, RoundUps
<1>4. r.ok \in BOOLEAN /\ (r.ok => SpaceOK(r.md) /\ Only(md, r.md, {"mem", "brk", "own"}))
  <2>1. n % 2 = 0 => RoundUp(1) <= n
    BY <1>1, <1>3
  <2> QED
    BY <1>1, <1>3, <2>1, LivesSpace, ClaimSpace
<1>5. f.ok \in BOOLEAN /\ (f.ok => SpaceOK(f.md) /\ Only(md, f.md, {"mem", "brk", "own"}))
  BY <1>1, LivesSpace, FileSpace
<1>6. \A x : Only(md, x, {"mem", "brk", "own"}) => Only(md, x, {"mem", "brk", "own", "shared", "stdout"})
  BY DEF Only
<1>7. r.ok => Lives(r.md)
  BY <1>4, <1>6, LivesFrame
<1>8. f.ok => Lives(f.md)
  BY <1>5, <1>6, LivesFrame
<1> QED
  BY <1>1, <1>2, <1>4, <1>5, <1>7, <1>8, Zenon DEF Alive

LEMMA Munmaps ==
  ASSUME NEW md, Lives(md), NEW a \in md.own, a.kind = "mmap"
  PROVE  Alive(UnmapMemory([md EXCEPT !.own = @ \ {a}], a.base, a.len))
<1>1. PICK m, n, r : m = Disown(md, a) /\ n = RoundUp(a.len) /\ r = UnmapMemory(m, a.base, a.len)
  OBVIOUS
<1>2. r = UnmapMemory([md EXCEPT !.own = @ \ {a}], a.base, a.len)
  BY <1>1, Zenon DEF Disown
<1>3. a.base \in Nat /\ a.len \in Nat \ {0} /\ SpaceOK(md) /\ MemoryOK(md) /\ IsModule(md)
  BY LivesSpace DEF LayoutTypes, Area
<1>4. Only(md, m, {"own"}) /\ m.own = md.own \ {a}
  BY <1>1, <1>3, DisownFrame
<1>5. m.mem = md.mem /\ m.brk = md.brk /\ IsModule(m) /\ m.stacks = md.stacks /\ m.dyn = md.dyn /\ m.shared = md.shared
  BY <1>4 DEF Only, Fields
<1>6. MemoryOK(m)
  BY <1>3, <1>5, SameMemory
<1>7. n \in Nat \ {0}
  BY <1>1, <1>3, RoundUps
<1>8. CASE r = Thrown(m)
  <2>1. r.ok = FALSE
    BY <1>8 DEF Thrown
  <2> QED
    BY <1>2, <2>1, Zenon DEF Alive
<1>9. CASE r = Done(m, 0)
  <2>1. r.ok = TRUE /\ r.md = m
    BY <1>9 DEF Done
  <2>2. SpaceOK(m)
    BY <1>3, <1>4, <1>5, <1>6, SameSpace
  <2>3. Only(md, m, {"mem", "brk", "own", "shared", "stdout"})
    BY <1>4 DEF Only
  <2>4. Lives(m)
    BY <2>2, <2>3, LivesFrame
  <2> QED
    BY <1>2, <2>1, <2>4, Zenon DEF Alive
<1>10. CASE r = ShrinkMemory(m, n) /\ a.base + n = m.brk
  <2>1. /\ r.ok \in BOOLEAN
        /\ r.ok => MemoryOK(r.md) /\ Only(m, r.md, {"brk"}) /\ r.md.brk = m.brk - n
    BY <1>6, <1>7, <1>10, ShrinkOk
  <2>2. ASSUME r.ok PROVE Lives(r.md)
    <3>1. Only(md, r.md, {"own", "brk"}) /\ r.md.own = md.own \ {a} /\ MemoryOK(r.md)
      BY <1>4, <2>1, <2>2 DEF Only, Fields
    <3>2. r.md.brk = a.base
      BY <1>3, <1>7, <1>10, <2>1, <2>2
    <3>3. a.base + RoundUp(a.len) = md.brk /\ a.kind # "file"
      BY <1>1, <1>5, <1>10
    <3>4. SpaceOK(r.md)
      BY <1>3, <3>1, <3>2, <3>3, FreeSpace
    <3>5. Only(md, r.md, {"mem", "brk", "own", "shared", "stdout"})
      BY <3>1 DEF Only
    <3> QED
      BY <3>4, <3>5, LivesFrame
  <2> QED
    BY <1>2, <2>1, <2>2, Zenon DEF Alive
<1>11. r = Thrown(m) \/ r = Done(m, 0) \/ (r = ShrinkMemory(m, n) /\ a.base + n = m.brk)
  <2>1. a.len # 0
    BY <1>3
  <2> QED
    BY <1>1, <2>1 DEF UnmapMemory
<1> QED
  BY <1>8, <1>9, <1>10, <1>11

LEMMA MapsState ==
  ASSUME NEW md, Lives(md), NEW seg \in Segments
  PROVE  Alive(MapSharedStateMemory(md, seg))
<1>1. PICK r : r = MapSharedStateMemory(md, seg)
  OBVIOUS
<1>2. r.ok \in BOOLEAN /\ (r.ok => SpaceOK(r.md) /\ Only(md, r.md, {"mem", "brk", "shared"}))
  BY <1>1, LivesSpace, SharedSpace
<1>3. \A x : Only(md, x, {"mem", "brk", "shared"}) => Only(md, x, {"mem", "brk", "own", "shared", "stdout"})
  BY DEF Only
<1>4. r.ok => Lives(r.md)
  BY <1>2, <1>3, LivesFrame
<1> QED
  BY <1>1, <1>2, <1>4, Zenon DEF Alive

LEMMA Finished ==
  ASSUME NEW md, Lives(md), NEW ptr
  PROVE  Alive(Done(md, ptr))
<1>1. PICK r : r = Done(md, ptr)
  OBVIOUS
<1>2. r.ok = TRUE /\ r.md = md
  BY <1>1 DEF Done
<1> QED
  BY <1>1, <1>2, Zenon DEF Alive

LEMMA Captures ==
  ASSUME NEW md, Lives(md), NEW c
  PROVE  Alive(Done([md EXCEPT !.stdout = @ \cup {c}], 0))
<1>1. PICK x : x = [md EXCEPT !.stdout = @ \cup {c}]
  OBVIOUS
<1>2. SpaceOK(md) /\ MemoryOK(md) /\ IsModule(md)
  BY LivesSpace
<1>3. Only(md, x, {"stdout"})
  BY <1>1, <1>2 DEF Only, IsModule, Fields
<1>4. /\ x.mem = md.mem /\ x.brk = md.brk /\ IsModule(x) /\ x.stacks = md.stacks /\ x.dyn = md.dyn
      /\ x.shared = md.shared /\ x.own = md.own
  BY <1>3 DEF Only, Fields
<1>5. MemoryOK(x)
  BY <1>2, <1>4, SameMemory
<1>6. SpaceOK(x)
  BY <1>2, <1>4, <1>5, SameSpace
<1>7. Only(md, x, {"mem", "brk", "own", "shared", "stdout"})
  BY <1>3 DEF Only
<1>8. Lives(x)
  BY <1>6, <1>7, LivesFrame
<1> QED
  BY <1>1, <1>8, Finished

LEMMA Stores ==
  ASSUME NEW md, Lives(md), NEW base, NEW c
  PROVE  Alive(Done(StoreAt(md, base, c), 0))
<1>1. PICK x : x = StoreAt(md, base, c)
  OBVIOUS
<1>2. SpaceOK(x) /\ Only(md, x, {"mem"})
  BY <1>1, LivesSpace, StoreSpace
<1>3. Only(md, x, {"mem", "brk", "own", "shared", "stdout"})
  BY <1>2 DEF Only
<1>4. Lives(x)
  BY <1>2, <1>3, LivesFrame
<1> QED
  BY <1>1, <1>4, Finished

LEMMA Throws ==
  ASSUME NEW md
  PROVE  Alive(Thrown(md))
<1>1. PICK r : r = Thrown(md)
  OBVIOUS
<1>2. r.ok = FALSE
  BY <1>1 DEF Thrown
<1> QED
  BY <1>1, <1>2, Zenon DEF Alive

(* dlsym appends the function to the table and gives its place.            *)
Pointing(md, fn) ==
  [AddFunctionToTable(md, fn) EXCEPT !.pointers = @ \cup {[ptr |-> Len(md.table), fn |-> fn]}]
LEMMA PointingFrame ==
  ASSUME NEW md, IsModule(md), NEW fn, NEW x, x = Pointing(md, fn)
  PROVE  /\ Only(md, x, {"table", "pointers"}) /\ x.table = Append(md.table, fn)
         /\ x.pointers = md.pointers \cup {[ptr |-> Len(md.table), fn |-> fn]}
<1>1. PICK t, n : t = Append(md.table, fn) /\ n = Len(md.table)
  OBVIOUS
<1>2. x = [[md EXCEPT !.table = t] EXCEPT !.pointers = @ \cup {[ptr |-> n, fn |-> fn]}]
  BY <1>1, Zenon DEF Pointing, AddFunctionToTable
<1>3. PICK q : q = {[ptr |-> n, fn |-> fn]}
  OBVIOUS
<1>4. x = [[md EXCEPT !.table = t] EXCEPT !.pointers = @ \cup q]
  BY <1>2, <1>3
<1>5. Only(md, x, {"table", "pointers"}) /\ x.table = t /\ x.pointers = md.pointers \cup q
  BY <1>4 DEF Only, IsModule, Fields
<1> QED
  BY <1>1, <1>3, <1>5

Points(md, p) == p.ptr \in Nat /\ p.ptr + 1 \in DOMAIN md.table /\ md.table[p.ptr + 1] = p.fn
LEMMA PointingTable ==
  ASSUME NEW md, TableOK(md), NEW fn, NEW x, x = Pointing(md, fn)
  PROVE  TableOK(x)
<1>1. /\ IsModule(md) /\ IsSeq(md.table) /\ IsSeq(md.dyn) /\ DOMAIN md.paths \subseteq Paths
      /\ md.loading = "" /\ md.missing = EmptyMap
      /\ \A p \in md.pointers : Points(md, p)
      /\ \A f \in DOMAIN md.got : Leads(md, md.got[f], f)
      /\ \A d \in Range(md.dyn) : DynOK(md, d)
      /\ DOMAIN md.gotMem \subseteq DataNames(md)
  BY DEF TableOK, Points
<1>2. PICK t, u : t = md.table /\ u = Append(t, fn)
  OBVIOUS
<1>3. /\ IsSeq(u) /\ Len(t) \in Nat /\ Len(u) = Len(t) + 1 /\ u[Len(t) + 1] = fn
      /\ \A i \in 1..Len(t) : u[i] = t[i]
  <2>1. IsSeq(t)
    BY <1>1, <1>2
  <2>2. /\ IsSeq(Append(t, fn)) /\ Len(t) \in Nat /\ Len(Append(t, fn)) = Len(t) + 1 /\ Append(t, fn)[Len(t) + 1] = fn
        /\ \A i \in 1..Len(t) : Append(t, fn)[i] = t[i]
    BY <2>1, AppendTable
  <2> QED
    BY <1>2, <2>2
<1>4. PICK n \in Nat : n = Len(t) /\ DOMAIN t = 1..n /\ DOMAIN u = 1..(n + 1) /\ Len(u) = n + 1
  BY <1>1, <1>2, <1>3, SeqType
<1>5. /\ Only(md, x, {"table", "pointers"}) /\ x.table = u
      /\ x.pointers = md.pointers \cup {[ptr |-> n, fn |-> fn]}
  BY <1>1, <1>2, <1>4, PointingFrame
<1>6. /\ IsModule(x) /\ x.got = md.got /\ x.gotMem = md.gotMem /\ x.missing = md.missing /\ x.dyn = md.dyn
      /\ x.paths = md.paths /\ x.loading = md.loading
  BY <1>5 DEF Only, Fields
<1>7. \A i \in DOMAIN t : i \in DOMAIN u /\ u[i] = t[i]
  BY <1>3, <1>4
<1>8. \A p : Points(md, p) => Points(x, p)
  BY <1>2, <1>5, <1>7 DEF Points
<1>9. Points(x, [ptr |-> n, fn |-> fn])
  <2>1. n + 1 \in DOMAIN u /\ u[n + 1] = fn
    BY <1>3, <1>4
  <2> QED
    BY <1>4, <1>5, <2>1 DEF Points
<1>10. \A place, f : Leads(md, place, f) => Leads(x, place, f)
  BY <1>2, <1>5, <1>7 DEF Leads
<1>11. ASSUME NEW d \in Range(md.dyn) PROVE DynOK(x, d)
  <2>1. DynOK(md, d)
    BY <1>1
  <2>2. PICK e : e = LibAt(d.path).elems
    OBVIOUS
  <2>3. PICK k \in Nat, l \in {d.tableTop} : k = d.tableBottom /\ l = d.tableTop
    BY <2>1 DEF DynOK, HasTable
  <2>4. l = k + Len(e) /\ l <= n /\ \A i \in DOMAIN e : t[k + i] = <<d.path, e[i]>>
    BY <1>2, <1>4, <2>1, <2>2, <2>3 DEF DynOK, HasTable
  <2>5. PICK lib \in Libs : d.path = lib.path
    BY <2>1 DEF DynOK, Paths
  <2>6. e = lib.elems /\ DOMAIN e = 1..Len(e) /\ Len(e) \in Nat
    BY <2>2, <2>5, LibTypes
  <2>7. \A i \in DOMAIN e : k + i \in DOMAIN t
    BY <1>4, <2>3, <2>4, <2>6
  <2>8. \A i \in DOMAIN e : u[k + i] = <<d.path, e[i]>>
    BY <1>7, <2>4, <2>7
  <2>9. l <= Len(u)
    BY <1>4, <2>3, <2>4, <2>6
  <2>10. HasTable(x, d)
    BY <1>5, <2>2, <2>3, <2>4, <2>8, <2>9 DEF HasTable
  <2>11. HasData(x, d)
    BY <1>6, <2>1 DEF DynOK, HasData
  <2> QED
    BY <1>6, <2>1, <2>10, <2>11 DEF DynOK
<1>12. DataNames(x) = DataNames(md)
  BY <1>6 DEF DataNames
<1>13. \A p \in x.pointers : Points(x, p)
  BY <1>1, <1>5, <1>8, <1>9
<1>14. \A f \in DOMAIN x.got : Leads(x, x.got[f], f)
  BY <1>1, <1>6, <1>10
<1>15. IsSeq(x.table) /\ IsSeq(x.dyn) /\ DOMAIN x.paths \subseteq Paths /\ x.loading = "" /\ x.missing = EmptyMap
  BY <1>1, <1>3, <1>5, <1>6
<1>16. \A d \in Range(x.dyn) : DynOK(x, d)
  BY <1>6, <1>11
<1>17. DOMAIN x.gotMem \subseteq DataNames(x)
  BY <1>1, <1>6, <1>12
<1> QED
  BY <1>6, <1>13, <1>14, <1>15, <1>16, <1>17 DEF TableOK, Points

LEMMA PointingLives ==
  ASSUME NEW md, Lives(md), NEW fn, NEW x, x = Pointing(md, fn)
  PROVE  Lives(x)
<1>1. SpaceOK(md) /\ TableOK(md) /\ md.bound = TRUE /\ md.stacks = Zygote.stacks /\ Keeps(Zygote.dyn, md.dyn)
  BY Zenon DEF Lives
<1>2. MemoryOK(md) /\ IsModule(md)
  BY LivesSpace
<1>3. Only(md, x, {"table", "pointers"})
  BY <1>2, PointingFrame
<1>4. /\ x.mem = md.mem /\ x.brk = md.brk /\ IsModule(x) /\ x.stacks = md.stacks /\ x.dyn = md.dyn
      /\ x.shared = md.shared /\ x.own = md.own
  BY <1>3 DEF Only, Fields
<1>5. MemoryOK(x)
  BY <1>2, <1>4, SameMemory
<1>6. SpaceOK(x)
  BY <1>1, <1>4, <1>5, SameSpace
<1>7. TableOK(x)
  BY <1>1, PointingTable
<1>8. x.bound = md.bound
  BY <1>3, Zenon DEF Only, Fields
<1>9. x.bound = TRUE /\ x.stacks = Zygote.stacks /\ Keeps(Zygote.dyn, x.dyn)
  BY <1>1, <1>4, <1>8
<1> QED
  BY <1>6, <1>7, <1>9, Zenon DEF Lives

LEMMA Dlsyms ==
  ASSUME NEW md, Lives(md), NEW handle, NEW name
  PROVE  Alive(GetDynamicModuleFunction(md, handle, name))
<1>1. PICK provider : provider = IF handle = 1 THEN "main" ELSE md.dyn[handle - FirstHandle + 1].path
  OBVIOUS
<1>2. PICK r, x, n : /\ r = GetDynamicModuleFunction(md, handle, name)
                     /\ x = Pointing(md, <<provider, name>>) /\ n = Len(md.table)
  OBVIOUS
<1>3. r = Thrown(md) \/ r = Done(x, n)
  BY <1>1, <1>2, Zenon DEF GetDynamicModuleFunction, Pointing
<1>4. Lives(x)
  BY <1>2, PointingLives
<1> QED
  BY <1>2, <1>3, <1>4, Finished, Throws

(* What is cached about a library does not change.                         *)
IrOK(irh) == \A p \in DOMAIN irh : irh[p].original = Len(LibAt(p).elems)
LEMMA CachedOK ==
  ASSUME NEW irh, IrOK(irh), NEW lib \in Libs, NEW c, c = CachedModule(irh, lib)
  PROVE  IrOK(c) /\ c[lib.path].original = Len(lib.elems)
<1>1. PICK a, b, e, k : a = Len(MainTable) /\ b = Len(lib.elems) /\ e = [min |-> a, original |-> b] /\ k = lib.path
  OBVIOUS
<1>2. c = Insert(irh, Entry(k, e))
  BY <1>1, Zenon DEF CachedModule
<1>3. e.original = b /\ Len(LibAt(k).elems) = b
  BY <1>1, LibTypes
<1>4. /\ DOMAIN c = DOMAIN irh \cup {k} /\ \A x \in DOMAIN irh : c[x] = irh[x]
      /\ k \notin DOMAIN irh => c[k] = e
  <2>1. /\ DOMAIN Insert(irh, Entry(k, e)) = DOMAIN irh \cup {k}
        /\ \A x \in DOMAIN irh : Insert(irh, Entry(k, e))[x] = irh[x]
        /\ k \notin DOMAIN irh => Insert(irh, Entry(k, e))[k] = e
    BY Merged
  <2> QED
    BY <1>2, <2>1
<1>5. \A p \in DOMAIN c : c[p].original = Len(LibAt(p).elems)
  BY <1>3, <1>4 DEF IrOK
<1> QED
  BY <1>1, <1>3, <1>4, <1>5 DEF IrOK

LEMMA Dlopens ==
  ASSUME NEW md, Lives(md), NEW lib \in Libs, NEW irh, IrOK(irh)
  PROVE  Alive(DynamicLoadModule(md, CachedModule(irh, lib), lib.path))
<1>1. PICK c, r : c = CachedModule(irh, lib) /\ r = DynamicLoadModule(md, c, lib.path)
  OBVIOUS
<1>2. c[lib.path].original = Len(lib.elems)
  BY <1>1, CachedOK
<1>3. SpaceOK(md) /\ TableOK(md)
  BY LivesSpace
<1>4. r.ok \in BOOLEAN /\ (r.ok => Loaded(md, r.md))
  BY <1>1, <1>2, <1>3, LoadSpace
<1>5. r.ok => Lives(r.md)
  BY <1>4, LivesLoaded
<1> QED
  BY <1>1, <1>4, <1>5, Zenon DEF Alive

-----------------------------------------------------------------------------
(* The inductive invariant: what is cached and running on every host.      *)
CacheOK(h, c, s) ==
  \/ c = NoModule
  \/ c = ZygoteOf(h) /\ BaseKey(h) \in DOMAIN s /\ s[BaseKey(h)] = BaseEntry(ZygoteOf(h))
FaasletOK(h, c, f, n) ==
  \/ f = NoModule /\ n = 0
  \/ c = ZygoteOf(h) /\ Lives(f) /\ (n = 0 => f = CloneOf(ZygoteOf(h)))
SnapshotsOK(s) == \A k \in DOMAIN s : ImageOK(s[k].image)
HostOK(h, c, f, n, s, i) == CacheOK(h, c, s) /\ FaasletOK(h, c, f, n) /\ SnapshotsOK(s) /\ IrOK(i)
OfHosts(map) == map = [h \in Host |-> map[h]]
MapsOK == OfHosts(cache) /\ OfHosts(faaslet) /\ OfHosts(call) /\ OfHosts(snapshots) /\ OfHosts(ir)
IInv ==
  /\ zygoteFn \in ZygoteFunctions /\ calls \in Nat /\ MapsOK
  /\ \A h \in Host : HostOK(h, cache[h], faaslet[h], call[h], snapshots[h], ir[h])

LEMMA Fixed ==
  ASSUME zygoteFn' = zygoteFn
  PROVE  Zygote' = Zygote
BY DEF Zygote, ExecuteZygoteFunction

LEMMA FixedHosts ==
  ASSUME Zygote' = Zygote, NEW h, NEW c, NEW f, NEW n, NEW s, NEW i, HostOK(h, c, f, n, s, i)
  PROVE  HostOK(h, c, f, n, s, i)'
<1>1. ZygoteOf(h)' = ZygoteOf(h)
  BY DEF ZygoteOf
<1>2. CacheOK(h, c, s)'
  BY <1>1 DEF HostOK, CacheOK
<1>3. Lives(f) => Lives(f)'
  BY DEF Lives
<1>4. FaasletOK(h, c, f, n)'
  BY <1>1, <1>3 DEF HostOK, FaasletOK
<1>5. \A image : ImageOK(image) => ImageOK(image)'
  BY DEF ImageOK, Mold
<1>6. SnapshotsOK(s)'
  BY <1>5 DEF HostOK, SnapshotsOK
<1> QED
  BY <1>2, <1>4, <1>6 DEF HostOK

(* A step of one host. *)
Moved(map, new, h) == OfHosts(new) /\ \A g \in Host \ {h} : new[g] = map[g]
LEMMA Updated ==
  ASSUME NEW map, OfHosts(map), NEW h \in Host, NEW v, NEW new, new = [map EXCEPT ![h] = v]
  PROVE  Moved(map, new, h) /\ new[h] = v
BY DEF Moved, OfHosts
LEMMA Unmoved ==
  ASSUME NEW map, OfHosts(map), NEW h \in Host, NEW new, new = map
  PROVE  Moved(map, new, h) /\ new[h] = map[h]
BY DEF Moved, OfHosts

StepOf(h) ==
  /\ Moved(cache, cache', h) /\ Moved(faaslet, faaslet', h) /\ Moved(call, call', h)
  /\ Moved(snapshots, snapshots', h) /\ Moved(ir, ir', h)
HostAfter(h) == HostOK(h, cache'[h], faaslet'[h], call'[h], snapshots'[h], ir'[h])
LEMMA AllHosts ==
  ASSUME MapsOK', zygoteFn \in ZygoteFunctions, zygoteFn' = zygoteFn, calls' \in Nat,
         \A g \in Host : HostOK(g, cache'[g], faaslet'[g], call'[g], snapshots'[g], ir'[g])
  PROVE  IInv'
<1>1. Zygote' = Zygote
  BY Fixed
<1>2. ASSUME NEW g \in Host PROVE HostOK(g, cache[g], faaslet[g], call[g], snapshots[g], ir[g])'
  <2>1. PICK c, f, n, s, i : c = cache'[g] /\ f = faaslet'[g] /\ n = call'[g] /\ s = snapshots'[g] /\ i = ir'[g]
    OBVIOUS
  <2>2. HostOK(g, c, f, n, s, i)
    BY <2>1
  <2>3. HostOK(g, c, f, n, s, i)'
    BY <1>1, <2>2, FixedHosts
  <2> QED
    BY <2>1, <2>3
<1> QED
  BY <1>2 DEF IInv

LEMMA HostStep ==
  ASSUME IInv, NEW h \in Host, StepOf(h), HostAfter(h), zygoteFn' = zygoteFn, calls' \in Nat
  PROVE  IInv'
<1>1. MapsOK'
  BY DEF StepOf, Moved, MapsOK
<1>2. ASSUME NEW g \in Host PROVE HostOK(g, cache'[g], faaslet'[g], call'[g], snapshots'[g], ir'[g])
  <2>1. CASE g = h
    BY <2>1 DEF HostAfter
  <2>2. CASE g # h
    <3>1. HostOK(g, cache[g], faaslet[g], call[g], snapshots[g], ir[g])
      BY DEF IInv
    <3>2. /\ cache'[g] = cache[g] /\ faaslet'[g] = faaslet[g] /\ call'[g] = call[g]
          /\ snapshots'[g] = snapshots[g] /\ ir'[g] = ir[g]
      BY <2>2 DEF StepOf, Moved
    <3> QED
      BY <3>1, <3>2
  <2> QED
    BY <2>1, <2>2
<1>3. zygoteFn \in ZygoteFunctions
  BY DEF IInv
<1> QED
  BY <1>1, <1>2, <1>3, AllHosts

LEMMA HostNow ==
  ASSUME IInv, NEW h \in Host
  PROVE  /\ zygoteFn \in ZygoteFunctions /\ calls \in Nat
         /\ OfHosts(cache) /\ OfHosts(faaslet) /\ OfHosts(call) /\ OfHosts(snapshots) /\ OfHosts(ir)
         /\ CacheOK(h, cache[h], snapshots[h]) /\ FaasletOK(h, cache[h], faaslet[h], call[h])
         /\ SnapshotsOK(snapshots[h]) /\ IrOK(ir[h])
BY DEF IInv, MapsOK, HostOK

LEMMA Running ==
  ASSUME IInv, NEW h \in Host, call[h] # 0
  PROVE  cache[h] = ZygoteOf(h) /\ Lives(faaslet[h])
BY HostNow DEF FaasletOK

LEMMA Waiting ==
  ASSUME IInv, NEW h \in Host, faaslet[h].bound, call[h] = 0
  PROVE  cache[h] = ZygoteOf(h) /\ Lives(faaslet[h]) /\ faaslet[h] = CloneOf(ZygoteOf(h))
<1>1. ~NoModule.bound
  BY DEF NoModule
<1>2. FaasletOK(h, cache[h], faaslet[h], call[h])
  BY HostNow
<1>3. faaslet[h] # NoModule
  BY <1>1
<1> QED
  BY <1>2, <1>3 DEF FaasletOK

(* A Faaslet is renewed: from the zygote of the cache, or from a new one.  *)
Renewed(h) ==
  /\ Moved(cache, cache', h) /\ Moved(faaslet, faaslet', h)
  /\ Moved(snapshots, snapshots', h) /\ Moved(ir, ir', h)
  /\ \A n : HostOK(h, cache'[h], faaslet'[h], n, snapshots'[h], ir'[h])
LEMMA Clones ==
  ASSUME zygoteFn \in ZygoteFunctions, NEW h \in Host, NEW z, z = ZygoteOf(h), NEW reg,
         BaseKey(h) \in DOMAIN reg, reg[BaseKey(h)] = BaseEntry(z)
  PROVE  /\ Clone(z, reg) = CloneOf(z) /\ CacheOK(h, z, reg)
         /\ \A n : FaasletOK(h, z, CloneOf(z), n)
<1>1. z.base = BaseKey(h) /\ Fresh(z)
  BY ZygoteFrame
<1>2. MemoryOK(z)
  BY <1>1, SpaceTypes, Zenon DEF Fresh
<1>3. Clone(z, reg) = CloneOf(z)
  BY <1>1, <1>2, Cloned
<1>4. Lives(CloneOf(z))
  BY CloneLives
<1>5. CacheOK(h, z, reg)
  BY DEF CacheOK
<1>6. \A n : FaasletOK(h, z, CloneOf(z), n)
  BY <1>4 DEF FaasletOK
<1> QED
  BY <1>3, <1>5, <1>6

Held(image, fd) == [image |-> image, fd |-> fd]
Taken(reg, key, image, fd, new) ==
  /\ SnapshotsOK(new) /\ DOMAIN new = DOMAIN reg \cup {key} /\ new[key] = Held(image, fd)
  /\ \A k \in DOMAIN reg : k # key => new[k] = reg[k]
LEMMA NewSnapshot ==
  ASSUME NEW reg, SnapshotsOK(reg), NEW key, NEW image, ImageOK(image), NEW fd,
         NEW new, new = TakeSnapshot(reg, key, image, fd)
  PROVE  Taken(reg, key, image, fd, new)
<1>1. PICK e : e = [image |-> image, fd |-> fd] /\ e = Held(image, fd)
  BY DEF Held
<1>2. e.image = image
  BY <1>1
<1>3. new = Insert(Entry(key, e), reg)
  BY <1>1, Zenon DEF TakeSnapshot
<1>4. /\ DOMAIN new = DOMAIN reg \cup {key} /\ new[key] = e
      /\ \A k \in DOMAIN reg : k # key => new[k] = reg[k]
  BY <1>3 DEF Insert, Entry
<1>5. SnapshotsOK(new)
  BY <1>2, <1>4 DEF SnapshotsOK
<1> QED
  BY <1>1, <1>4, <1>5 DEF Taken

LEMMA RenewOK ==
  ASSUME IInv, NEW h \in Host, Renew(h)
  PROVE  Renewed(h)
<1>1. /\ zygoteFn \in ZygoteFunctions
      /\ OfHosts(cache) /\ OfHosts(faaslet) /\ OfHosts(call) /\ OfHosts(snapshots) /\ OfHosts(ir)
      /\ CacheOK(h, cache[h], snapshots[h]) /\ SnapshotsOK(snapshots[h]) /\ IrOK(ir[h])
  BY HostNow
<1>2. PICK z, k : z = ZygoteOf(h) /\ k = BaseKey(h)
  OBVIOUS
<1>3. PICK irh : irh = IF zygoteFn \in Paths THEN CachedModule(ir[h], LibAt(zygoteFn)) ELSE ir[h]
  OBVIOUS
<1>4. IrOK(irh) /\ Knows(irh)
  <2>1. CASE zygoteFn \in Paths
    <3>1. PICK lib \in Libs : zygoteFn = lib.path
      BY <2>1 DEF Paths
    <3>2. LibAt(zygoteFn) = lib
      BY <3>1, LibTypes
    <3>3. irh = CachedModule(ir[h], lib)
      BY <1>3, <2>1, <3>2
    <3>4. IrOK(irh) /\ irh[lib.path].original = Len(lib.elems)
      BY <1>1, <3>3, CachedOK
    <3> QED
      BY <3>1, <3>2, <3>4 DEF Knows
  <2>2. CASE zygoteFn \notin Paths
    BY <1>1, <1>3, <2>2 DEF Knows
  <2> QED
    BY <2>1, <2>2
<1>5. DoBindToFunction(h, irh) = z
  BY <1>1, <1>2, <1>4, Binds
<1>6. \/ cache[h].bound /\ KnownZygote(h)
      \/ ~cache[h].bound /\ NewZygote(h, irh, DoBindToFunction(h, irh))
  BY <1>3, Zenon DEF Renew
<1>7. CASE cache[h].bound /\ KnownZygote(h)
  <2>1. ~NoModule.bound
    BY DEF NoModule
  <2>2. cache[h] = z /\ k \in DOMAIN snapshots[h] /\ snapshots[h][k] = BaseEntry(z)
    BY <1>1, <1>2, <1>7, <2>1 DEF CacheOK
  <2>3. /\ Clone(z, snapshots[h]) = CloneOf(z) /\ CacheOK(h, z, snapshots[h])
        /\ \A n : FaasletOK(h, z, CloneOf(z), n)
    BY <1>1, <1>2, <2>2, Clones
  <2>4. /\ faaslet' = [faaslet EXCEPT ![h] = CloneOf(z)]
        /\ cache' = cache /\ ir' = ir /\ snapshots' = snapshots
    BY <1>7, <2>2, <2>3 DEF KnownZygote
  <2>5. Moved(faaslet, faaslet', h) /\ faaslet'[h] = CloneOf(z)
    BY <1>1, <2>4 DEF Moved, OfHosts
  <2>6. Moved(cache, cache', h) /\ Moved(ir, ir', h) /\ Moved(snapshots, snapshots', h)
    BY <1>1, <2>4, Unmoved
  <2>7. \A n : HostOK(h, cache'[h], faaslet'[h], n, snapshots'[h], ir'[h])
    BY <1>1, <2>2, <2>3, <2>4, <2>5 DEF HostOK
  <2> QED
    BY <2>5, <2>6, <2>7 DEF Renewed
<1>8. CASE ~cache[h].bound /\ NewZygote(h, irh, DoBindToFunction(h, irh))
  <2>1. NewZygote(h, irh, z)
    BY <1>5, <1>8
  <2>2. Lives(z) /\ z.pointers = {}
    BY <1>1, <1>2, CloneLives
  <2>3. PICK image : image = Image(z) /\ ImageOK(image)
    BY <1>1, <2>2, ImageFits
  <2>4. PICK s : s = TakeSnapshot(snapshots[h], k, image, TRUE)
    OBVIOUS
  <2>5. SnapshotsOK(s) /\ DOMAIN s = DOMAIN snapshots[h] \cup {k} /\ s[k] = Held(image, TRUE)
    <3>1. PICK reg, b : reg = snapshots[h] /\ b = TRUE
      OBVIOUS
    <3>2. SnapshotsOK(reg) /\ ImageOK(image) /\ s = TakeSnapshot(reg, k, image, b)
      BY <1>1, <2>3, <2>4, <3>1
    <3>3. Taken(reg, k, image, b, s)
      BY <3>2, NewSnapshot
    <3> QED
      BY <3>1, <3>3 DEF Taken
  <2>6. s[k] = BaseEntry(z) /\ k \in DOMAIN s
    BY <2>3, <2>5, Zenon DEF BaseEntry, Held
  <2>7. /\ Clone(z, s) = CloneOf(z) /\ CacheOK(h, z, s)
        /\ \A n : FaasletOK(h, z, CloneOf(z), n)
    BY <1>1, <1>2, <2>6, Clones
  <2>8. /\ cache' = [cache EXCEPT ![h] = z] /\ ir' = [ir EXCEPT ![h] = irh]
        /\ snapshots' = [snapshots EXCEPT ![h] = s]
        /\ faaslet' = [faaslet EXCEPT ![h] = Clone(z, snapshots'[h])]
    BY <1>2, <2>1, <2>3, <2>4 DEF NewZygote
  <2>9. Moved(cache, cache', h) /\ cache'[h] = z
    BY <1>1, <2>8 DEF Moved, OfHosts
  <2>10. Moved(ir, ir', h) /\ ir'[h] = irh
    BY <1>1, <2>8 DEF Moved, OfHosts
  <2>11. Moved(snapshots, snapshots', h) /\ snapshots'[h] = s
    BY <1>1, <2>8 DEF Moved, OfHosts
  <2>12. faaslet' = [faaslet EXCEPT ![h] = CloneOf(z)]
    BY <2>7, <2>8, <2>11
  <2>13. Moved(faaslet, faaslet', h) /\ faaslet'[h] = CloneOf(z)
    BY <1>1, <2>12 DEF Moved, OfHosts
  <2>14. \A n : HostOK(h, cache'[h], faaslet'[h], n, snapshots'[h], ir'[h])
    BY <1>4, <2>5, <2>7, <2>9, <2>10, <2>11, <2>13 DEF HostOK
  <2> QED
    BY <2>9, <2>10, <2>11, <2>13, <2>14 DEF Renewed
<1> QED
  BY <1>6, <1>7, <1>8

(* The actions. *)
LEMMA FinishCallStep ==
  ASSUME IInv, NEW h \in Host, PreFinishCall(h), zygoteFn' = zygoteFn, calls' \in Nat
  PROVE  IInv'
<1>1. call' = [call EXCEPT ![h] = 0] /\ Renew(h)
  BY DEF PreFinishCall
<1>2. Renewed(h)
  BY <1>1, RenewOK
<1>3. Moved(call, call', h)
  BY <1>1, HostNow DEF Moved, OfHosts
<1>4. StepOf(h) /\ HostAfter(h)
  BY <1>2, <1>3 DEF Renewed, StepOf, HostAfter
<1> QED
  BY <1>4, HostStep

(* Only the Faaslet of one host changes, and lives on. *)
LEMMA FaasletStep ==
  ASSUME IInv, NEW h \in Host, NEW x, Lives(x), faaslet' = [faaslet EXCEPT ![h] = x],
         cache[h] = ZygoteOf(h), NEW n, n # 0, call' = [call EXCEPT ![h] = n], cache' = cache, snapshots' = snapshots,
         Moved(ir, ir', h), IrOK(ir'[h]), zygoteFn' = zygoteFn, calls' \in Nat
  PROVE  IInv'
<1>1. /\ OfHosts(cache) /\ OfHosts(faaslet) /\ OfHosts(call) /\ OfHosts(snapshots) /\ OfHosts(ir)
      /\ CacheOK(h, cache[h], snapshots[h]) /\ SnapshotsOK(snapshots[h])
  BY HostNow
<1>2. Moved(faaslet, faaslet', h) /\ faaslet'[h] = x
  BY <1>1 DEF Moved, OfHosts
<1>3. Moved(call, call', h) /\ call'[h] = n
  BY <1>1 DEF Moved, OfHosts
<1>4. Moved(cache, cache', h) /\ Moved(snapshots, snapshots', h)
  BY <1>1, Unmoved
<1>5. FaasletOK(h, cache'[h], faaslet'[h], call'[h])
  BY <1>2, <1>3 DEF FaasletOK
<1>6. StepOf(h) /\ HostAfter(h)
  BY <1>1, <1>2, <1>3, <1>4, <1>5 DEF StepOf, HostAfter, HostOK
<1> QED
  BY <1>6, HostStep

LEMMA HostFunctionStep ==
  ASSUME IInv, NEW h \in Host, call[h] # 0, NEW r, Alive(r), HostFunction(h, r)
  PROVE  IInv'
<1>1. zygoteFn' = zygoteFn /\ calls' = calls
  BY DEF HostFunction, static
<1>2. OfHosts(faaslet) /\ OfHosts(call) /\ OfHosts(ir) /\ IrOK(ir[h]) /\ calls \in Nat
  BY HostNow
<1>3. CASE r.ok
  <2>1. Lives(r.md)
    BY <1>3, Zenon DEF Alive
  <2>2. /\ faaslet' = [faaslet EXCEPT ![h] = r.md] /\ cache' = cache /\ call' = call
        /\ snapshots' = snapshots /\ ir' = ir
    BY <1>3 DEF HostFunction
  <2>3. PICK n : n = call[h] /\ n # 0 /\ call' = [call EXCEPT ![h] = n]
    BY <1>2, <2>2 DEF OfHosts
  <2>4. cache[h] = ZygoteOf(h)
    BY Running
  <2>5. Moved(ir, ir', h) /\ IrOK(ir'[h])
    BY <1>2, <2>2, Unmoved
  <2>6. PICK x : x = r.md
    OBVIOUS
  <2> QED
    BY <1>1, <1>2, <2>1, <2>2, <2>3, <2>4, <2>5, <2>6, FaasletStep
<1>4. CASE ~r.ok
  <2>1. PreFinishCall(h)
    BY <1>4 DEF HostFunction
  <2> QED
    BY <1>1, <1>2, <2>1, FinishCallStep
<1> QED
  BY <1>3, <1>4

LEMMA ExecuteStep ==
  ASSUME IInv, Execute
  PROVE  IInv'
<1>1. Origin \in Host
  BY ModuleAssumption
<1>2. /\ faaslet[Origin].bound /\ call[Origin] = 0 /\ calls' = calls + 1 /\ call' = [call EXCEPT ![Origin] = calls']
      /\ cache' = cache /\ faaslet' = faaslet /\ snapshots' = snapshots /\ ir' = ir /\ zygoteFn' = zygoteFn
  BY DEF Execute, static
<1>3. calls \in Nat /\ OfHosts(faaslet) /\ OfHosts(ir) /\ IrOK(ir[Origin])
  BY <1>1, HostNow
<1>4. cache[Origin] = ZygoteOf(Origin) /\ Lives(faaslet[Origin])
  BY <1>1, <1>2, Waiting
<1>5. PICK n \in Nat : n = calls' /\ n # 0
  BY <1>2, <1>3
<1>6. PICK x : x = faaslet[Origin] /\ faaslet' = [faaslet EXCEPT ![Origin] = x]
  BY <1>2, <1>3 DEF OfHosts
<1>7. Moved(ir, ir', Origin) /\ IrOK(ir'[Origin])
  BY <1>1, <1>2, <1>3, Unmoved
<1> QED
  BY <1>1, <1>2, <1>4, <1>5, <1>6, <1>7, FaasletStep

LEMMA PostBindStep ==
  ASSUME IInv, NEW h \in Host, PostBind(h)
  PROVE  IInv'
<1>1. Renew(h) /\ call' = call /\ calls' = calls /\ zygoteFn' = zygoteFn
  BY DEF PostBind, static
<1>2. Renewed(h)
  BY <1>1, RenewOK
<1>3. Moved(call, call', h) /\ calls \in Nat
  BY <1>1, HostNow, Unmoved
<1>4. StepOf(h) /\ HostAfter(h)
  BY <1>2, <1>3 DEF Renewed, StepOf, HostAfter
<1> QED
  BY <1>1, <1>3, <1>4, HostStep

LEMMA FlushStep ==
  ASSUME IInv, NEW h \in Host, Flush(h)
  PROVE  IInv'
<1>1. /\ call[h] = 0 /\ faaslet' = [faaslet EXCEPT ![h] = NoModule] /\ cache' = [cache EXCEPT ![h] = NoModule]
      /\ ir' = [ir EXCEPT ![h] = EmptyMap] /\ call' = call /\ snapshots' = snapshots
      /\ calls' = calls /\ zygoteFn' = zygoteFn
  BY DEF Flush, static
<1>2. /\ OfHosts(cache) /\ OfHosts(faaslet) /\ OfHosts(call) /\ OfHosts(snapshots) /\ OfHosts(ir)
      /\ SnapshotsOK(snapshots[h]) /\ calls \in Nat
  BY HostNow
<1>3. Moved(faaslet, faaslet', h) /\ faaslet'[h] = NoModule
  BY <1>1, <1>2 DEF Moved, OfHosts
<1>4. Moved(cache, cache', h) /\ cache'[h] = NoModule
  BY <1>1, <1>2 DEF Moved, OfHosts
<1>5. Moved(ir, ir', h) /\ ir'[h] = EmptyMap
  BY <1>1, <1>2 DEF Moved, OfHosts
<1>6. Moved(call, call', h) /\ Moved(snapshots, snapshots', h)
  BY <1>1, <1>2, Unmoved
<1>7. IrOK(EmptyMap)
  BY DEF IrOK, EmptyMap
<1>8. CacheOK(h, cache'[h], snapshots'[h]) /\ FaasletOK(h, cache'[h], faaslet'[h], call'[h])
  BY <1>1, <1>3, <1>4 DEF CacheOK, FaasletOK
<1>9. StepOf(h) /\ HostAfter(h)
  BY <1>1, <1>2, <1>3, <1>4, <1>5, <1>6, <1>7, <1>8 DEF StepOf, HostAfter, HostOK
<1> QED
  BY <1>1, <1>2, <1>9, HostStep

LEMMA RestoreStep ==
  ASSUME IInv, NEW h \in Host, NEW t \in chained, ExecuteFromSnapshot(h, t)
  PROVE  IInv'
<1>1. PICK r : r = Restore(faaslet[h], snapshots[h], t.key)
  OBVIOUS
<1>2. /\ faaslet[h].bound /\ call[h] = 0 /\ calls' = calls + 1 /\ zygoteFn' = zygoteFn
      /\ \/ /\ r.ok /\ faaslet' = [faaslet EXCEPT ![h] = r.md] /\ call' = [call EXCEPT ![h] = calls']
            /\ cache' = cache /\ snapshots' = snapshots /\ ir' = ir
         \/ PreFinishCall(h)
  BY <1>1 DEF ExecuteFromSnapshot, static
<1>3. zygoteFn \in ZygoteFunctions /\ calls \in Nat /\ SnapshotsOK(snapshots[h]) /\ OfHosts(ir) /\ IrOK(ir[h])
  BY HostNow
<1>4. PICK n \in Nat : n = calls' /\ n # 0
  BY <1>2, <1>3
<1>5. cache[h] = ZygoteOf(h) /\ faaslet[h] = CloneOf(ZygoteOf(h))
  BY <1>2, Waiting
<1>6. PICK md, reg, key : md = faaslet[h] /\ reg = snapshots[h] /\ key = t.key
  OBVIOUS
<1>7. Blank(md)
  <2>1. PICK z : z = ZygoteOf(h)
    OBVIOUS
  <2>2. md = CloneOf(z)
    BY <1>5, <1>6, <2>1
  <2> QED
    BY <1>3, <2>1, <2>2, CloneLives
<1>8. key \in DOMAIN reg => ImageOK(reg[key].image)
  BY <1>3, <1>6 DEF SnapshotsOK
<1>9. r = Restore(md, reg, key)
  BY <1>1, <1>6
<1>10. r.ok => Lives(r.md)
  BY <1>3, <1>7, <1>8, <1>9, RestoreLives
<1>11. CASE PreFinishCall(h)
  BY <1>2, <1>4, <1>11, FinishCallStep
<1>12. CASE /\ r.ok /\ faaslet' = [faaslet EXCEPT ![h] = r.md] /\ call' = [call EXCEPT ![h] = calls']
            /\ cache' = cache /\ snapshots' = snapshots /\ ir' = ir
  <2>1. PICK x : x = r.md
    OBVIOUS
  <2>2. Moved(ir, ir', h) /\ IrOK(ir'[h])
    BY <1>3, <1>12, Unmoved
  <2>3. Lives(x) /\ faaslet' = [faaslet EXCEPT ![h] = x] /\ call' = [call EXCEPT ![h] = n]
    BY <1>4, <1>10, <1>12, <2>1
  <2> QED
    BY <1>2, <1>4, <1>5, <1>12, <2>2, <2>3, FaasletStep
<1> QED
  BY <1>2, <1>11, <1>12

LEMMA AllocatesStep ==
  ASSUME IInv, NEW h \in Host, Allocates(h)
  PROVE  IInv'
<1>1. call[h] # 0
  BY DEF Allocates, SbrkGrow, SbrkShrink, DoMmap, Munmap, StatePtr, Calls
<1>2. PICK md : md = faaslet[h] /\ Lives(md)
  BY <1>1, Running
<1>3. CASE SbrkGrow(h)
  <2>1. PICK n \in {1, PageSize} : HostFunction(h, Claimed(GrowMemory(md, n), n, "heap"))
    BY <1>2, <1>3, Zenon DEF SbrkGrow
  <2>2. Alive(Claimed(GrowMemory(md, n), n, "heap"))
    BY <1>2, SbrkGrows
  <2> QED
    BY <1>1, <2>1, <2>2, HostFunctionStep
<1>4. CASE SbrkShrink(h)
  <2>1. PICK a \in md.own : /\ a.kind = "heap" /\ a.base + a.len = md.brk
                            /\ HostFunction(h, ShrinkMemory([md EXCEPT !.own = @ \ {a}], a.len))
    BY <1>2, <1>4, Zenon DEF SbrkShrink
  <2>2. PICK r : r = ShrinkMemory([md EXCEPT !.own = @ \ {a}], a.len)
    OBVIOUS
  <2>3. Alive(r)
    BY <1>2, <2>1, <2>2, SbrkShrinks
  <2> QED
    BY <1>1, <2>1, <2>2, <2>3, HostFunctionStep
<1>5. CASE DoMmap(h)
  <2>1. HostFunction(h, MmapAnonymous(md)) \/ HostFunction(h, MmapFd(md))
    BY <1>2, <1>5, Zenon DEF DoMmap
  <2>2. Alive(MmapAnonymous(md)) /\ Alive(MmapFd(md))
    BY <1>2, Mmaps
  <2> QED
    BY <1>1, <2>1, <2>2, HostFunctionStep
<1>6. CASE Munmap(h)
  <2>1. PICK a \in md.own : /\ a.kind = "mmap"
                            /\ HostFunction(h, UnmapMemory([md EXCEPT !.own = @ \ {a}], a.base, a.len))
    BY <1>2, <1>6, Zenon DEF Munmap
  <2>2. PICK r : r = UnmapMemory([md EXCEPT !.own = @ \ {a}], a.base, a.len)
    OBVIOUS
  <2>3. Alive(r)
    BY <1>2, <2>1, <2>2, Munmaps
  <2> QED
    BY <1>1, <2>1, <2>2, <2>3, HostFunctionStep
<1>7. CASE StatePtr(h)
  <2>1. PICK seg \in Segments : HostFunction(h, MapSharedStateMemory(md, seg))
    BY <1>2, <1>7, Zenon DEF StatePtr
  <2>2. Alive(MapSharedStateMemory(md, seg))
    BY <1>2, MapsState
  <2> QED
    BY <1>1, <2>1, <2>2, HostFunctionStep
<1> QED
  BY <1>3, <1>4, <1>5, <1>6, <1>7 DEF Allocates

LEMMA DlopenStep ==
  ASSUME IInv, NEW h \in Host, Dlopen(h)
  PROVE  IInv'
<1>1. call[h] # 0
  BY DEF Dlopen, Calls
<1>2. PICK md : md = faaslet[h] /\ Lives(md) /\ cache[h] = ZygoteOf(h)
  BY <1>1, Running
<1>3. OfHosts(call) /\ OfHosts(ir) /\ IrOK(ir[h]) /\ calls \in Nat
  BY HostNow
<1>4. PICK lib \in Libs :
        LET irh == CachedModule(ir[h], lib)
            r == DynamicLoadModule(faaslet[h], irh, lib.path)
        IN  /\ r.ok
            /\ ir' = [ir EXCEPT ![h] = irh]
            /\ faaslet' = [faaslet EXCEPT ![h] = r.md]
            /\ ops' = ops + 1
            /\ UNCHANGED <<cache, call, snapshots, chained, static, calls>>
  BY Zenon DEF Dlopen
<1>5. PICK old, irh, r : /\ old = ir[h] /\ irh = CachedModule(old, lib)
                         /\ r = DynamicLoadModule(md, CachedModule(old, lib), lib.path)
  OBVIOUS
<1>6. r.ok /\ ir' = [ir EXCEPT ![h] = irh] /\ faaslet' = [faaslet EXCEPT ![h] = r.md]
  BY <1>2, <1>4, <1>5, Zenon
<1>7. cache' = cache /\ call' = call /\ snapshots' = snapshots /\ calls' = calls /\ zygoteFn' = zygoteFn
  BY <1>4 DEF static
<1>8. Alive(r) /\ IrOK(irh)
  BY <1>2, <1>3, <1>5, Dlopens, CachedOK
<1>9. PICK x : x = r.md /\ Lives(x)
  BY <1>6, <1>8, Zenon DEF Alive
<1>10. Moved(ir, ir', h) /\ IrOK(ir'[h])
  BY <1>3, <1>6, <1>8 DEF Moved, OfHosts
<1>11. PICK n : n = call[h] /\ n # 0 /\ call' = [call EXCEPT ![h] = n]
  BY <1>1, <1>3, <1>7 DEF OfHosts
<1>12. faaslet' = [faaslet EXCEPT ![h] = x]
  BY <1>6, <1>9
<1> QED
  BY <1>2, <1>3, <1>7, <1>9, <1>10, <1>11, <1>12, FaasletStep

LEMMA LinksStep ==
  ASSUME IInv, NEW h \in Host, Links(h)
  PROVE  IInv'
<1>1. call[h] # 0
  BY DEF Links, Dlopen, DlopenFails, Dlsym, FfiCall, Calls
<1>2. PICK md : md = faaslet[h] /\ Lives(md)
  BY <1>1, Running
<1>3. CASE Dlopen(h)
  BY <1>3, DlopenStep
<1>4. CASE DlopenFails(h)
  <2>1. PreFinishCall(h) /\ zygoteFn' = zygoteFn /\ calls' = calls
    BY <1>4 DEF DlopenFails, static
  <2>2. calls \in Nat
    BY HostNow
  <2> QED
    BY <2>1, <2>2, FinishCallStep
<1>5. CASE Dlsym(h)
  <2>1. PICK path \in DOMAIN faaslet[h].paths, name \in UNION {l.exports : l \in Libs} :
          HostFunction(h, GetDynamicModuleFunction(faaslet[h], faaslet[h].paths[path], name))
    BY <1>5, Zenon DEF Dlsym
  <2>2. PICK handle, r : handle = faaslet[h].paths[path] /\ r = GetDynamicModuleFunction(md, handle, name)
    OBVIOUS
  <2>3. HostFunction(h, r)
    BY <1>2, <2>1, <2>2, Zenon
  <2>4. Alive(r)
    BY <1>2, <2>2, Dlsyms
  <2> QED
    BY <1>1, <2>3, <2>4, HostFunctionStep
<1>6. CASE FfiCall(h)
  <2>1. PICK a \in md.own, p \in md.pointers :
          HostFunction(h, IF GetFunctionFromPtr(md, p.ptr) = NoFunction
                          THEN Thrown(md) ELSE Done(StoreAt(md, a.base, call[h]), 0))
    BY <1>2, <1>6, Zenon DEF FfiCall
  <2>2. PICK r : r = IF GetFunctionFromPtr(md, p.ptr) = NoFunction
                     THEN Thrown(md) ELSE Done(StoreAt(md, a.base, call[h]), 0)
    OBVIOUS
  <2>3. r = Thrown(md) \/ r = Done(StoreAt(md, a.base, call[h]), 0)
    BY <2>2, Zenon
  <2>4. HostFunction(h, r)
    BY <2>1, <2>2, Zenon
  <2>5. Alive(Done(StoreAt(md, a.base, call[h]), 0)) /\ Alive(Thrown(md))
    BY <1>2, Stores, Throws
  <2>6. Alive(r)
    BY <2>3, <2>5
  <2> QED
    BY <1>1, <2>4, <2>6, HostFunctionStep
<1> QED
  BY <1>3, <1>4, <1>5, <1>6 DEF Links

LEMMA WritesStep ==
  ASSUME IInv, NEW h \in Host, CaptureStdout(h) \/ Store(h)
  PROVE  IInv'
<1>1. call[h] # 0
  BY DEF CaptureStdout, Store, Calls
<1>2. PICK md : md = faaslet[h] /\ Lives(md)
  BY <1>1, Running
<1>3. CASE CaptureStdout(h)
  <2>1. HostFunction(h, Done([md EXCEPT !.stdout = @ \cup {call[h]}], 0))
    BY <1>2, <1>3, Zenon DEF CaptureStdout
  <2>2. Alive(Done([md EXCEPT !.stdout = @ \cup {call[h]}], 0))
    BY <1>2, Captures
  <2> QED
    BY <1>1, <2>1, <2>2, HostFunctionStep
<1>4. CASE Store(h)
  <2>1. PICK a \in md.own : HostFunction(h, Done(StoreAt(md, a.base, call[h]), 0))
    BY <1>2, <1>4, Zenon DEF Store
  <2>2. Alive(Done(StoreAt(md, a.base, call[h]), 0))
    BY <1>2, Stores
  <2> QED
    BY <1>1, <2>1, <2>2, HostFunctionStep
<1> QED
  BY <1>3, <1>4

LEMMA ChainThreadStep ==
  ASSUME IInv, NEW h \in Host, NEW f \in 0..(Len(MainTable) - 1), ChainThread(h, f)
  PROVE  IInv'
<1>1. PICK key, image : key = <<"call", ops>> /\ image = Image(faaslet[Origin])
  OBVIOUS
<1>2. /\ call[Origin] # 0 /\ faaslet[Origin].pointers = {}
      /\ cache' = cache /\ faaslet' = faaslet /\ call' = call /\ ir' = ir /\ calls' = calls /\ zygoteFn' = zygoteFn
  BY DEF ChainThread, Calls, static
<1>3. snapshots' = [g \in Host |->
        IF g = Origin THEN TakeSnapshot(snapshots[g], key, image, FALSE)
        ELSE IF g = h THEN TakeSnapshot(snapshots[g], key, image, TRUE) ELSE snapshots[g]]
  BY <1>1, Zenon DEF ChainThread, PushSnapshot
<1>4. MapsOK /\ zygoteFn \in ZygoteFunctions /\ calls \in Nat
  BY DEF IInv
<1>5. ImageOK(image)
  <2>1. Origin \in Host
    BY ModuleAssumption
  <2>2. Lives(faaslet[Origin])
    BY <1>2, <2>1, Running
  <2> QED
    BY <1>1, <1>2, <1>4, <2>2, ImageFits
<1>6. ASSUME NEW g \in Host PROVE HostOK(g, cache[g], faaslet[g], call[g], snapshots'[g], ir[g])
  <2>1. PICK s, n, fd : /\ s = snapshots[g] /\ n = snapshots'[g]
                        /\ n = s \/ n = TakeSnapshot(s, key, image, fd)
    BY <1>3, Zenon
  <2>2. HostOK(g, cache[g], faaslet[g], call[g], s, ir[g])
    BY <2>1 DEF IInv
  <2>3. CASE n = s
    BY <2>1, <2>2, <2>3
  <2>4. CASE n = TakeSnapshot(s, key, image, fd)
    <3>1. SnapshotsOK(s) /\ CacheOK(g, cache[g], s) /\ FaasletOK(g, cache[g], faaslet[g], call[g]) /\ IrOK(ir[g])
      BY <2>2 DEF HostOK
    <3>2. SnapshotsOK(n) /\ DOMAIN n = DOMAIN s \cup {key} /\ \A k \in DOMAIN s : k # key => n[k] = s[k]
      <4>1. Taken(s, key, image, fd, n)
        BY <1>5, <2>4, <3>1, NewSnapshot
      <4> QED
        BY <4>1 DEF Taken
    <3>3. BaseKey(g) # key
      BY <1>1 DEF BaseKey
    <3>4. CacheOK(g, cache[g], n)
      BY <3>1, <3>2, <3>3 DEF CacheOK
    <3> QED
      BY <2>1, <3>1, <3>2, <3>4 DEF HostOK
  <2> QED
    BY <2>1, <2>3, <2>4
<1>7. MapsOK'
  BY <1>2, <1>3, <1>4 DEF MapsOK, OfHosts
<1>8. \A g \in Host : HostOK(g, cache'[g], faaslet'[g], call'[g], snapshots'[g], ir'[g])
  BY <1>2, <1>6
<1> QED
  BY <1>2, <1>4, <1>7, <1>8, AllHosts

LEMMA StutterStep ==
  ASSUME IInv, UNCHANGED vars
  PROVE  IInv'
<1>1. /\ cache' = cache /\ faaslet' = faaslet /\ call' = call /\ snapshots' = snapshots /\ ir' = ir
      /\ calls' = calls /\ zygoteFn' = zygoteFn
  BY DEF vars, static
<1>2. /\ MapsOK /\ zygoteFn \in ZygoteFunctions /\ calls \in Nat
      /\ \A g \in Host : HostOK(g, cache[g], faaslet[g], call[g], snapshots[g], ir[g])
  BY DEF IInv
<1>3. MapsOK'
  BY <1>1, <1>2 DEF MapsOK, OfHosts
<1>4. \A g \in Host : HostOK(g, cache'[g], faaslet'[g], call'[g], snapshots'[g], ir'[g])
  BY <1>1, <1>2
<1> QED
  BY <1>1, <1>2, <1>3, <1>4, AllHosts

(* The invariant holds: what is cached is the zygote, its snapshot is in   *)
(* the registry, every memory is laid out and backed, every table is       *)
(* consistent, and every snapshot fits into a clone.                       *)
LEMMA IInvInit == Init => IInv
<1> SUFFICES ASSUME Init PROVE IInv
  OBVIOUS
<1>1. /\ cache = [h \in Host |-> NoModule] /\ faaslet = [h \in Host |-> NoModule]
      /\ call = [h \in Host |-> 0]
      /\ snapshots = [h \in Host |-> EmptyMap] /\ ir = [h \in Host |-> EmptyMap]
      /\ zygoteFn \in ZygoteFunctions /\ calls = 0
  BY DEF Init
<1>2. MapsOK
  BY <1>1 DEF MapsOK, OfHosts
<1>3. IrOK(EmptyMap) /\ SnapshotsOK(EmptyMap)
  BY DEF IrOK, SnapshotsOK, EmptyMap
<1>4. \A h : CacheOK(h, NoModule, EmptyMap) /\ FaasletOK(h, NoModule, NoModule, 0)
  BY DEF CacheOK, FaasletOK
<1>5. \A h \in Host : HostOK(h, cache[h], faaslet[h], call[h], snapshots[h], ir[h])
  BY <1>1, <1>3, <1>4 DEF HostOK
<1> QED
  BY <1>1, <1>2, <1>5 DEF IInv

LEMMA IInvNext == IInv /\ [Next]_vars => IInv'
<1> SUFFICES ASSUME IInv, [Next]_vars PROVE IInv'
  OBVIOUS
<1>1. CASE Execute
  BY <1>1, ExecuteStep
<1>2. ASSUME NEW h \in Host, PostBind(h) PROVE IInv'
  BY <1>2, PostBindStep
<1>3. ASSUME NEW h \in Host, Finish(h) PROVE IInv'
  <2>1. PreFinishCall(h) /\ calls' = calls /\ zygoteFn' = zygoteFn
    BY <1>3 DEF Finish, static
  <2>2. calls \in Nat
    BY DEF IInv
  <2> QED
    BY <2>1, <2>2, FinishCallStep
<1>4. ASSUME NEW h \in Host, Flush(h) PROVE IInv'
  BY <1>4, FlushStep
<1>5. ASSUME NEW h \in Host, NEW t \in chained, ExecuteFromSnapshot(h, t) PROVE IInv'
  BY <1>5, RestoreStep
<1>6. ASSUME NEW h \in Host, Allocates(h) PROVE IInv'
  BY <1>6, AllocatesStep
<1>7. ASSUME NEW h \in Host, Links(h) PROVE IInv'
  BY <1>7, LinksStep
<1>8. ASSUME NEW h \in Host, CaptureStdout(h) \/ Store(h) PROVE IInv'
  BY <1>8, WritesStep
<1>9. ASSUME NEW h \in Host, NEW f \in 0..(Len(MainTable) - 1), ChainThread(h, f) PROVE IInv'
  BY <1>9, ChainThreadStep
<1>10. CASE UNCHANGED vars
  BY <1>10, StutterStep
<1> QED
  BY <1>1, <1>2, <1>3, <1>4, <1>5, <1>6, <1>7, <1>8, <1>9, <1>10 DEF Next

(* The memory, the tables and the zygote of every module are as the loader *)
(* of WAVMWasmModule.cpp lays them out, whatever the host functions did.   *)
THEOREM ModuleInvariant == Spec => []IInv
<1> QED
  BY IInvInit, IInvNext, PTL DEF Spec

LEMMA BoundLives ==
  ASSUME IInv, NEW md \in BoundModules
  PROVE  Lives(md)
<1>1. md.bound /\ ~NoModule.bound
  BY DEF BoundModules, NoModule
<1>2. PICK h \in Host : md = faaslet[h] \/ md = cache[h]
  BY DEF BoundModules, Modules
<1>3. /\ zygoteFn \in ZygoteFunctions
      /\ CacheOK(h, cache[h], snapshots[h]) /\ FaasletOK(h, cache[h], faaslet[h], call[h])
  BY HostNow
<1>4. md # NoModule
  BY <1>1
<1>5. CASE md = faaslet[h]
  BY <1>3, <1>4, <1>5 DEF FaasletOK
<1>6. CASE md = cache[h]
  <2>1. md = ZygoteOf(h)
    BY <1>3, <1>4, <1>6 DEF CacheOK
  <2> QED
    BY <1>3, <2>1, CloneLives
<1> QED
  BY <1>2, <1>5, <1>6

LEMMA AreaItems ==
  ASSUME NEW md, NEW x \in Areas(md)
  PROVE  \E i \in Items(md) : x = <<Lo(md, i), Hi(md, i)>>
<1>1. CASE x = <<0, InitPages * PageSize>>
  <2>1. <<"main", 0>> \in Items(md)
    BY DEF Items
  <2> QED
    BY <1>1, <2>1, ItemBounds
<1>2. CASE x \in {<<a.base, a.base + RoundUp(a.len)>> : a \in md.own}
  <2>1. PICK a \in md.own : x = <<a.base, a.base + RoundUp(a.len)>>
    BY <1>2
  <2>2. <<"own", a>> \in Items(md)
    BY DEF Items
  <2> QED
    BY <2>1, <2>2, ItemBounds
<1>3. CASE x \in {<<t - StackSize + 1 - GuardSize, t + 1 + GuardSize>> : t \in Range(md.stacks)}
  <2>1. PICK i \in DOMAIN md.stacks : x = <<md.stacks[i] - StackSize + 1 - GuardSize, md.stacks[i] + 1 + GuardSize>>
    BY <1>3 DEF Range
  <2>2. <<"stack", i>> \in Items(md)
    BY DEF Items
  <2> QED
    BY <2>1, <2>2, ItemBounds
<1>4. CASE x \in {<<d.bottom - GuardSize, d.top + GuardSize>> : d \in Range(md.dyn)}
  <2>1. PICK i \in DOMAIN md.dyn : x = <<md.dyn[i].bottom - GuardSize, md.dyn[i].top + GuardSize>>
    BY <1>4 DEF Range
  <2>2. <<"dyn", i>> \in Items(md)
    BY DEF Items
  <2> QED
    BY <2>1, <2>2, ItemBounds
<1>5. CASE x \in {<<md.shared[s] - s.rem, md.shared[s] - s.rem + RoundUp(s.rem + s.len)>> : s \in DOMAIN md.shared}
  <2>1. PICK s \in DOMAIN md.shared : x = <<md.shared[s] - s.rem, md.shared[s] - s.rem + RoundUp(s.rem + s.len)>>
    BY <1>5
  <2>2. <<"shared", s>> \in Items(md)
    BY DEF Items
  <2> QED
    BY <2>1, <2>2, ItemBounds
<1> QED
  BY <1>1, <1>2, <1>3, <1>4, <1>5 DEF Areas

LEMMA IInvAllocs == IInv => AllocsDisjoint
<1> SUFFICES ASSUME IInv, NEW md \in BoundModules
             PROVE  /\ BreakOK(md)
                    /\ \A x \in Areas(md) : /\ x[2] <= md.brk
                                            /\ \A y \in Areas(md) : x = y \/ x[2] <= y[1] \/ y[2] <= x[1]
  BY DEF AllocsDisjoint
<1>1. SpaceOK(md)
  BY BoundLives DEF Lives
<1>2. BreakOK(md) /\ Placed(md)
  BY <1>1 DEF SpaceOK, MemoryOK, LayoutOK
<1>3. ASSUME NEW x \in Areas(md) PROVE x[2] <= md.brk
  <2>1. PICK i \in Items(md) : x = <<Lo(md, i), Hi(md, i)>>
    BY AreaItems
  <2> QED
    BY <1>2, <2>1 DEF Placed
<1>4. ASSUME NEW x \in Areas(md), NEW y \in Areas(md) PROVE x = y \/ x[2] <= y[1] \/ y[2] <= x[1]
  <2>1. PICK i \in Items(md) : x = <<Lo(md, i), Hi(md, i)>>
    BY AreaItems
  <2>2. PICK j \in Items(md) : y = <<Lo(md, j), Hi(md, j)>>
    BY AreaItems
  <2>3. i = j \/ Apart(md, i, j)
    BY <1>2 DEF Placed
  <2> QED
    BY <2>1, <2>2, <2>3 DEF Apart
<1> QED
  BY <1>2, <1>3, <1>4

(* No two areas of a memory overlap: program, stacks, dynamic modules and  *)
(* mapped state never share a page, and none ends above the break, so that *)
(* a snapshot misses nothing, wherever growMemory put it.                  *)
THEOREM AllocsDisjointHolds == Spec => []AllocsDisjoint
<1> QED
  BY ModuleInvariant, IInvAllocs, PTL

LEMMA IInvReset == IInv => ResetComplete
<1> SUFFICES ASSUME IInv, NEW h \in Host, faaslet[h].bound, call[h] = 0
             PROVE  /\ cache[h].bound /\ Visible(faaslet[h]) = Visible(cache[h])
                    /\ \A i \in DOMAIN faaslet[h].mem :
                         i > faaslet[h].brk \div PageSize => faaslet[h].mem[i] = ZeroPage
  BY DEF ResetComplete
<1>1. PICK z : z = ZygoteOf(h)
  OBVIOUS
<1>2. cache[h] = z /\ faaslet[h] = CloneOf(z)
  BY <1>1, Waiting
<1>3. Fresh(z)
  BY <1>1, HostNow, ZygoteFrame
<1>4. z.bound = TRUE
  BY <1>3, Zenon DEF Fresh
<1>5. PICK x : x = faaslet[h] /\ x = CloneOf(z)
  BY <1>2
<1>6. Visible(x) = Visible(z) /\ \A i \in DOMAIN x.mem : i > x.brk \div PageSize => x.mem[i] = ZeroPage
  BY <1>3, <1>5, CloneVisible
<1> QED
  BY <1>2, <1>4, <1>5, <1>6

(* Between two calls a Faaslet is what its zygote is, whatever the calls   *)
(* before did to memory, tables, modules and output, and however they      *)
(* ended: Faaslet::reset, for every program and all sizes.                 *)
THEOREM ResetCompleteHolds == Spec => []ResetComplete
<1> QED
  BY ModuleInvariant, IInvReset, PTL

LEMMA IInvBacking == IInv => BackingMatches
<1> SUFFICES ASSUME IInv, NEW h \in Host, faaslet[h].bound, NEW md, md = faaslet[h]
             PROVE  /\ \A s \in DOMAIN md.shared : BackedBy(md, md.shared[s], s.len, s.key)
                    /\ \A a \in md.own : a.kind # "file" => BackedBy(md, a.base, a.len, "anonymous")
                    /\ \A t \in Range(md.stacks) : BackedBy(md, t - StackSize + 1, StackSize, "anonymous")
  BY DEF BackingMatches
<1>1. md \in BoundModules
  BY DEF BoundModules, Modules
<1>2. SpaceOK(md)
  BY <1>1, BoundLives DEF Lives
<1>3. \A d \in Demands(md) : BackedBy(md, d[1], d[2], d[3])
  BY <1>2 DEF SpaceOK, BackOK
<1>4. ASSUME NEW s \in DOMAIN md.shared PROVE BackedBy(md, md.shared[s], s.len, s.key)
  <2>1. <<md.shared[s], s.len, s.key>> \in Demands(md)
    BY DEF Demands
  <2> QED
    BY <1>3, <2>1
<1>5. ASSUME NEW a \in md.own, a.kind # "file" PROVE BackedBy(md, a.base, a.len, "anonymous")
  <2>1. <<a.base, a.len, "anonymous">> \in Demands(md)
    BY <1>5 DEF Demands
  <2> QED
    BY <1>3, <2>1
<1>6. ASSUME NEW t \in Range(md.stacks) PROVE BackedBy(md, t - StackSize + 1, StackSize, "anonymous")
  <2>1. <<t - StackSize + 1, StackSize, "anonymous">> \in Demands(md)
    BY DEF Demands
  <2> QED
    BY <1>3, <2>1
<1> QED
  BY <1>4, <1>5, <1>6

(* State is mapped where its pointer says, and what the program allocated  *)
(* and its stacks are never a mapping of a file or of state, although      *)
(* mapped pages are handed out again and snapshots are mapped over them.   *)
THEOREM BackingMatchesHolds == Spec => []BackingMatches
<1> QED
  BY ModuleInvariant, IInvBacking, PTL

(* The elements of module d, in table slots b + 1 to t. *)
InSlots(md, d, elems, b, t) ==
  IsSeq(elems) /\ b \in Nat /\ t = b + Len(elems) /\ \A e \in DOMAIN elems : md.table[b + e] = <<d.path, elems[e]>>

IsRange(md, d, elems, b, t) == SubSeq(md.table, b + 1, t) = [i \in DOMAIN elems |-> <<d.path, elems[i]>>]

LEMMA TableRange ==
  ASSUME NEW md, NEW d, NEW elems, NEW b, NEW t, InSlots(md, d, elems, b, t)
  PROVE  IsRange(md, d, elems, b, t)
<1>0. /\ IsSeq(elems) /\ b \in Nat /\ t = b + Len(elems)
      /\ \A e \in DOMAIN elems : md.table[b + e] = <<d.path, elems[e]>>
  BY DEF InSlots
<1>1. PICK n \in Nat : n = Len(elems) /\ DOMAIN elems = 1..n
  BY <1>0, SeqType
<1>2. PICK f : f = md.table
  OBVIOUS
<1>3. PICK q : q = SubSeq(f, b + 1, t)
  OBVIOUS
<1>4. PICK S : S = {f[i] : i \in (b + 1)..t}
  OBVIOUS
<1>5. t = b + n /\ t \in Int /\ b + 1 \in Int
  BY <1>0, <1>1
<1>6. /\ q \in Seq(S) /\ Len(q) = IF b + 1 <= t THEN t - (b + 1) + 1 ELSE 0
      /\ \A i \in 1..(t - (b + 1) + 1) : q[i] = f[b + 1 + i - 1]
  BY <1>3, <1>4, <1>5, SubSeqProperties
<1>7. Len(q) = n /\ t - (b + 1) + 1 = n
  BY <1>0, <1>1, <1>5, <1>6
<1>8. DOMAIN q = 1..n /\ q = [i \in 1..n |-> q[i]]
  BY <1>6, <1>7
<1>9. \A i \in 1..n : q[i] = <<d.path, elems[i]>>
  <2> TAKE i \in 1..n
  <2>1. b + 1 + i - 1 = b + i
    BY <1>0
  <2> QED
    BY <1>0, <1>1, <1>2, <1>6, <1>7, <2>1
<1> QED
  BY <1>1, <1>2, <1>3, <1>8, <1>9 DEF IsRange

LEMMA IInvPointers == IInv => FunctionPointersValid
<1> SUFFICES ASSUME IInv, NEW md \in BoundModules
             PROVE  /\ \A p \in md.pointers : GetFunctionFromPtr(md, p.ptr) = p.fn
                    /\ \A f \in DOMAIN md.got : GetFunctionFromPtr(md, md.got[f])[2] = f
                    /\ \A d \in Range(md.dyn) : Range(LibAt(d.path).gotFuncs) \subseteq DOMAIN md.got /\ LaidOut(md, d)
  BY DEF FunctionPointersValid
<1>1. TableOK(md)
  BY BoundLives DEF Lives
<1>2. \A p \in md.pointers : GetFunctionFromPtr(md, p.ptr) = p.fn
  BY <1>1 DEF TableOK, GetFunctionFromPtr
<1>3. \A f \in DOMAIN md.got : GetFunctionFromPtr(md, md.got[f])[2] = f
  BY <1>1 DEF TableOK, Leads, GetFunctionFromPtr
<1>4. ASSUME NEW d \in Range(md.dyn)
      PROVE  Range(LibAt(d.path).gotFuncs) \subseteq DOMAIN md.got /\ LaidOut(md, d)
  <2>1. DynOK(md, d)
    BY <1>1 DEF TableOK
  <2>2. PICK e, b, t : e = LibAt(d.path).elems /\ b = d.tableBottom /\ t = d.tableTop
    OBVIOUS
  <2>3. PICK lib \in Libs : d.path = lib.path
    BY <2>1 DEF DynOK, Paths
  <2>4. IsSeq(e)
    BY <2>2, <2>3, LibTypes
  <2>5. InSlots(md, d, e, b, t)
    BY <2>1, <2>2, <2>4 DEF DynOK, HasTable, InSlots
  <2>6. SubSeq(md.table, b + 1, t) = [i \in DOMAIN e |-> <<d.path, e[i]>>]
    BY <2>5, TableRange DEF IsRange
  <2>7. LaidOut(md, d)
    BY <2>1, <2>2, <2>6 DEF DynOK, HasData, LaidOut
  <2> QED
    BY <2>1, <2>7 DEF DynOK
<1> QED
  BY <1>2, <1>3, <1>4

(* Function pointers and offsets stay right however the table grows, and a *)
(* dynamic module keeps its range of the table, also when the module was   *)
(* parsed before and its declared table size comes from the cache.         *)
THEOREM FunctionPointersValidHold == Spec => []FunctionPointersValid
<1> QED
  BY ModuleInvariant, IInvPointers, PTL
=============================================================================
