----------------------- MODULE FileDescriptorsProofs -----------------------
(***************************************************************************)
(* Theorems about FileDescriptors: a number stands for its file, a listing *)
(* is complete, the output of a call is its own, and files are written by  *)
(* right, for any tree, programs, buffers and number of calls.             *)
(***************************************************************************)
EXTENDS FileDescriptors, FiniteSetTheorems, SequenceTheorems, TLAPS

-----------------------------------------------------------------------------
Zygote == Std \cup Preopened
Nodes == Dirs \cup Files
OpenFile == [node : Nodes \cup {"tty", "memory"}, offset : Nat, access : {"r", "w", "rw"}, append : BOOLEAN]
IsSeq(s) == s \in Seq(Range(s))

IterOK(it) ==
  /\ it = [loaded |-> it.loaded, contents |-> it.contents, idx |-> it.idx]
  /\ IsSeq(it.contents) /\ it.idx \in 0..Len(it.contents)
DescriptorOK(d) ==
  /\ d = [path |-> d.path, host |-> d.host, base |-> d.base, inh |-> d.inh, iter |-> d.iter, root |-> d.root, node |-> d.node]
  /\ d.host \in Nat \cup {Closed} /\ IterOK(d.iter)

TableTypes ==
  /\ nextFd \in Nat /\ FirstFd <= nextFd
  /\ fds = [n \in 0..(nextFd - 1) |-> fds[n]]
  /\ \A n \in DOMAIN fds : DescriptorOK(fds[n])
HostTypes ==
  /\ open \in Seq(OpenFile)
  /\ host \in [DOMAIN host -> 1..Len(open)] /\ DOMAIN host \subseteq Nat /\ IsFiniteSet(DOMAIN host)
  /\ tree \in [DOMAIN tree -> Nodes] /\ IsFiniteSet(DOMAIN tree)
  /\ data \in [Files -> Seq(Nat)]
TypeOK == pc \in {"idle", "run", "failed"} /\ TableTypes /\ HostTypes

(* What a descriptor stands for is open, and was opened for writing only   *)
(* with a right that its directory passes on.                              *)
Backed(d, h, o) == d.host # Closed => d.host \in DOMAIN h /\ o[h[d.host]].node = d.node
ByRight(d, inh, h, o) == d.host # Closed /\ o[h[d.host]].access # "r" => Write \in d.base \cap inh
TableInv ==
  /\ pc # "idle" => given \subseteq DOMAIN fds
  /\ pc = "idle" => fds = PrepareFilesystem
  /\ \A n \in DOMAIN fds : /\ fds[n].root \in DOMAIN fds
                           /\ Backed(fds[n], host, open)
                           /\ ByRight(fds[n], fds[fds[n].root].inh, host, open)

(* The zygote's descriptors are open whatever a call did. *)
StdOK(n, h, o) ==
  /\ n \in DOMAIN h /\ h[n] = n + 1 /\ n + 1 \in DOMAIN o
  /\ o[n + 1].node = IF n \in Std THEN "tty" ELSE Tree[RootPath]
  /\ n \notin Std => o[n + 1].access = "r"
ZygoteInv == \A n \in Zygote : StdOK(n, host, open)

(* The captured output has a host descriptor of its own, and is what was   *)
(* printed.                                                                *)
CaptureInv ==
  /\ stdout = [host |-> stdout.host, written |-> stdout.written]
  /\ stdout.host = 0 => stdout.written = <<>>
  /\ stdout.host # 0 => stdout.host \in DOMAIN host \ Zygote
  /\ pc = "idle" => stdout.host = 0
  /\ pc = "run" => stdout.written = printed

(* What was seen of a directory is what the iterator passed. *)
SeenOK(it, e) ==
  /\ e = [names |-> e.names, ended |-> e.ended]
  /\ e.names = SubSeq(it.contents, 1, it.idx)
  /\ e.ended => it.idx = Len(it.contents)
ListInv ==
  pc # "idle" =>
    /\ DOMAIN seen \subseteq DOMAIN fds
    /\ \A n \in DOMAIN fds : fds[n].iter.loaded <=> n \in DOMAIN seen
    /\ \A n \in DOMAIN seen : SeenOK(fds[n].iter, seen[n])

IInv == TypeOK /\ TableInv /\ ZygoteInv /\ CaptureInv /\ ListInv /\ OutputIsOwn

-----------------------------------------------------------------------------
(* Sets, sequences and maps. *)
LEMMA MinExists ==
  ASSUME NEW S, S \subseteq Nat, IsFiniteSet(S), S # {}
  PROVE  Min(S) \in S /\ \A y \in S : Min(S) <= y
<1> DEFINE Below(x) == {y \in S : y < x}
<1> DEFINE T == {Below(x) : x \in S}
<1>1. T \subseteq SUBSET S /\ T # {}
  OBVIOUS
<1>2. IsWellFoundedOn(StrictSubsetOrdering(S), SUBSET S)
  BY FS_StrictSubsetOrderingWellFounded, FS_FiniteSubsetsOfFinite
<1>3. \E U \in T : \A V \in T : ~ (<<V, U>> \in StrictSubsetOrdering(S))
  BY <1>1, <1>2, WFMin
<1>4. PICK x \in S : \A z \in S : ~ (<<Below(z), Below(x)>> \in StrictSubsetOrdering(S))
  BY <1>3
<1>5. ASSUME NEW y \in S PROVE x <= y
  <2>1. SUFFICES ASSUME y < x PROVE FALSE
    BY <1>5
  <2>0. x \in Nat /\ y \in Nat /\ y < x /\ y \in S
    BY <1>4, <1>5, <2>1
  <2>2. y \in Below(x) /\ y \notin Below(y)
    BY <2>0
  <2>5. ASSUME NEW z \in Below(y) PROVE z \in Below(x)
    <3>1. z \in S /\ z \in Nat /\ z < y
      BY <2>5
    <3> QED
      BY <3>1, <2>0
  <2>3. <<Below(y), Below(x)>> \in (SUBSET S) \X (SUBSET S)
    OBVIOUS
  <2>4. <<Below(y), Below(x)>> \in StrictSubsetOrdering(S)
    BY <2>2, <2>3, <2>5 DEF StrictSubsetOrdering
  <2> QED
    BY <2>4, <1>4, <1>5
<1>6. \E z \in S : \A y \in S : z <= y
  BY <1>5
<1> QED
  BY <1>6 DEF Min

LEMMA WithFacts ==
  ASSUME NEW m, NEW x, NEW v
  PROVE  /\ DOMAIN With(m, x, v) = DOMAIN m \cup {x}
         /\ With(m, x, v)[x] = v
         /\ \A y \in DOMAIN m : y # x => With(m, x, v)[y] = m[y]
BY DEF With

LEMMA WithTyped ==
  ASSUME NEW V, NEW m, m \in [DOMAIN m -> V], NEW x, NEW v \in V
  PROVE  With(m, x, v) \in [DOMAIN With(m, x, v) -> V]
BY DEF With

LEMMA ImageFinite ==
  ASSUME NEW S, IsFiniteSet(S), NEW T, NEW f \in [S -> T], \A y \in T : \E x \in S : f[x] = y
  PROVE  IsFiniteSet(T)
<1>1. f \in Surjection(S, T)
  BY DEF Surjection
<1> QED
  BY <1>1, FS_Surjection

(* The entries of a directory in some order. *)
LEMMA SetToSeqFacts ==
  ASSUME NEW S, IsFiniteSet(S)
  PROVE  IsSeq(SetToSeq(S))
<1>1. Cardinality(S) \in Nat /\ ExistsBijection(1..Cardinality(S), S)
  BY FS_CardinalityType
<1>2. PICK f \in [1..Cardinality(S) -> S] : IsInjective(f)
  BY <1>1 DEF ExistsBijection, Bijection, Injection, IsInjective
<1>3. SetToSeq(S) \in [1..Cardinality(S) -> S]
  BY <1>2 DEF SetToSeq
<1> DEFINE s == SetToSeq(S)
<1>4. s \in [1..Cardinality(S) -> Range(s)]
  BY <1>3 DEF Range
<1>5. s \in Seq(Range(s))
  BY <1>4, <1>1
<1> QED
  BY <1>5 DEF IsSeq

-----------------------------------------------------------------------------
(* The host's descriptors and open files. *)
LEMMA LowestFreeFacts ==
  ASSUME HostTypes, ~Exhausted
  PROVE  LowestFree \in Nat /\ LowestFree \notin DOMAIN host /\ LowestFree # Closed
<1> DEFINE S == 0..HostFds \ DOMAIN host
<1>1. HostFds \in Nat /\ IsFiniteSet(DOMAIN host)
  BY FilesAssumption DEF HostTypes
<1>2. IsFiniteSet(0..HostFds) /\ Cardinality(0..HostFds) = HostFds + 1
  BY <1>1, FS_Interval
<1>3. Cardinality(DOMAIN host) < HostFds /\ Cardinality(DOMAIN host) \in Nat
  BY <1>1, FS_CardinalityType DEF Exhausted
<1>4. S # {}
  <2>1. SUFFICES ASSUME 0..HostFds \subseteq DOMAIN host PROVE FALSE
    OBVIOUS
  <2>2. Cardinality(0..HostFds) <= Cardinality(DOMAIN host)
    BY <2>1, <1>1, FS_Subset
  <2> QED
    BY <2>2, <1>1, <1>2, <1>3
<1>5. IsFiniteSet(S) /\ S \subseteq Nat
  BY <1>1, <1>2, FS_Subset
<1>6. Min(S) \in S
  BY <1>4, <1>5, MinExists
<1> QED
  BY <1>6, <1>1 DEF LowestFree, Closed

LEMMA AppendOpen ==
  ASSUME NEW o, o \in Seq(OpenFile), NEW f \in OpenFile
  PROVE  /\ Append(o, f) \in Seq(OpenFile) /\ Len(Append(o, f)) = Len(o) + 1
         /\ Append(o, f)[Len(o) + 1] = f /\ Last(Append(o, f)) = f
         /\ \A k \in 1..Len(o) : Append(o, f)[k] = o[k]
         /\ Len(o) \in Nat
<1>1. /\ Append(o, f) \in Seq(OpenFile) /\ Len(Append(o, f)) = Len(o) + 1
      /\ Append(o, f)[Len(o) + 1] = f
      /\ \A k \in 1..Len(o) : Append(o, f)[k] = o[k]
      /\ Len(o) \in Nat
  BY AppendProperties, LenProperties
<1> QED
  BY <1>1 DEF Last

(* What an open file stands for, and what it was opened for, stays. *)
SameFile(f, g) == f.node = g.node /\ f.access = g.access
Continues(o, p) ==
  /\ p \in Seq(OpenFile) /\ Len(o) <= Len(p)
  /\ \A k \in 1..Len(o) : k \in DOMAIN p /\ SameFile(o[k], p[k])

LEMMA AppendContinues ==
  ASSUME NEW o, o \in Seq(OpenFile), NEW f \in OpenFile
  PROVE  Continues(o, Append(o, f))
<1>1. Append(o, f) \in Seq(OpenFile) /\ Len(Append(o, f)) = Len(o) + 1 /\ Len(o) \in Nat
  BY AppendOpen
<1>2. DOMAIN Append(o, f) = 1..(Len(o) + 1)
  BY <1>1, LenProperties
<1>3. \A k \in 1..Len(o) : Append(o, f)[k] = o[k]
  BY AppendOpen
<1> QED
  BY <1>1, <1>2, <1>3 DEF Continues, SameFile

LEMMA ExceptContinues ==
  ASSUME NEW o, o \in Seq(OpenFile), NEW k \in 1..Len(o), NEW f \in OpenFile, SameFile(o[k], f)
  PROVE  Continues(o, [o EXCEPT ![k] = f])
<1>1. Len(o) \in Nat /\ DOMAIN o = 1..Len(o)
  BY LenProperties
<1> DEFINE p == [o EXCEPT ![k] = f]
<1>2. p \in [1..Len(o) -> OpenFile]
  BY <1>1
<1>3. p \in Seq(OpenFile) /\ Len(p) = Len(o) /\ DOMAIN p = 1..Len(o)
  BY <1>1, <1>2
<1>4. \A i \in 1..Len(o) : SameFile(o[i], p[i])
  BY <1>1 DEF SameFile
<1> HIDE DEF p
<1>5. Continues(o, p)
  BY <1>1, <1>3, <1>4 DEF Continues
<1> QED
  BY <1>5 DEF p

LEMMA SameContinues ==
  ASSUME NEW o, o \in Seq(OpenFile)
  PROVE  Continues(o, o)
<1>1. Len(o) \in Nat /\ DOMAIN o = 1..Len(o)
  BY LenProperties
<1> QED
  BY <1>1 DEF Continues, SameFile

(* offset and append. *)
LEMMA Moved ==
  ASSUME NEW f \in OpenFile, NEW offset \in Nat
  PROVE  [f EXCEPT !.offset = offset] \in OpenFile /\ SameFile(f, [f EXCEPT !.offset = offset])
BY DEF OpenFile, SameFile

LEMMA Flagged ==
  ASSUME NEW f \in OpenFile, NEW append \in BOOLEAN
  PROVE  [f EXCEPT !.append = append] \in OpenFile /\ SameFile(f, [f EXCEPT !.append = append])
BY DEF OpenFile, SameFile

-----------------------------------------------------------------------------
(* Rights: what a file is opened for. *)
LEMMA AccessFacts ==
  ASSUME NEW rights, NEW mode, Access(rights, mode) # "custom"
  PROVE  /\ Access(rights, mode) \in {"r", "w", "rw"}
         /\ Access(rights, mode) # "r" => Write \in rights
<1>1. CASE mode = "directory"
  BY <1>1 DEF Access
<1>2. CASE mode # "directory"
  <2>1. Access(rights, mode) = RwType(rights)
    BY <1>2 DEF Access
  <2>2. RwType(rights) \in {"r", "w", "rw", "custom"}
    BY DEF RwType
  <2>3. RwType(rights) \in {"w", "rw"} => Write \in rights
    BY DEF RwType
  <2> QED
    BY <2>1, <2>2, <2>3
<1> QED
  BY <1>1, <1>2

(* Listings: the entries that fit come right after those that were passed, *)
(* and a buffer that is not filled has the last of them.                   *)
LEMMA NothingYet == IterOK(NoIterator) /\ ~NoIterator.loaded
<1>1. <<>> \in Seq(Range(<<>>)) /\ Len(<<>>) = 0
  OBVIOUS
<1> QED
  BY <1>1 DEF IterOK, NoIterator, IsSeq

LEMMA Loaded ==
  ASSUME NEW d, IterOK(d.iter), HostTypes
  PROVE  /\ IterOK(LoadDirContents(d)) /\ LoadDirContents(d).loaded
         /\ ~d.iter.loaded => LoadDirContents(d).idx = 0
         /\ d.iter.loaded => LoadDirContents(d) = d.iter
<1>1. CASE d.iter.loaded
  BY <1>1 DEF LoadDirContents
<1>2. CASE ~d.iter.loaded
  <2> DEFINE p == RealPath(d.path)
             D == {q \in DOMAIN tree : q # <<>> /\ Front(q) = p}
             f == [q \in D |-> Last(q)]
  <2>1. IsFiniteSet(D)
    BY FS_Subset DEF HostTypes
  <2>2. f \in [D -> Children(p)] /\ \A y \in Children(p) : \E q \in D : f[q] = y
    BY DEF Children
  <2>3. IsFiniteSet(Children(p))
    BY <2>1, <2>2, ImageFinite
  <2> DEFINE S == {".", ".."} \cup Children(p)
  <2>4. IsFiniteSet(S)
    <3>1. S = (Children(p) \cup {"."}) \cup {".."}
      OBVIOUS
    <3> QED
      BY <3>1, <2>3, FS_AddElement
  <2>5. IsSeq(SetToSeq(S))
    BY <2>4, SetToSeqFacts
  <2>6. LoadDirContents(d) = [loaded |-> TRUE, contents |-> SetToSeq(S), idx |-> 0]
    BY <1>2 DEF LoadDirContents
  <2>7. Len(SetToSeq(S)) \in Nat
    BY <2>5, LenProperties DEF IsSeq
  <2> HIDE DEF S
  <2> QED
    BY <2>5, <2>6, <2>7, <1>2 DEF IterOK
<1> QED
  BY <1>1, <1>2

LEMMA SubSeqOfRest ==
  ASSUME NEW S, NEW c \in Seq(S), NEW i \in 0..Len(c), NEW n \in 0..(Len(c) - i)
  PROVE  /\ SubSeq(SubSeq(c, i + 1, Len(c)), 1, n) = SubSeq(c, i + 1, i + n)
         /\ Len(SubSeq(c, i + 1, i + n)) = n
<1>1. Len(c) \in Nat
  BY LenProperties
<1>2. /\ SubSeq(c, i + 1, Len(c)) \in Seq(S) /\ Len(SubSeq(c, i + 1, Len(c))) = Len(c) - i
      /\ \A k \in 1..(Len(c) - i) : SubSeq(c, i + 1, Len(c))[k] = c[i + k]
  BY <1>1, SubSeqProperties
<1>3. /\ SubSeq(c, i + 1, i + n) \in Seq(S) /\ Len(SubSeq(c, i + 1, i + n)) = n
      /\ \A k \in 1..n : SubSeq(c, i + 1, i + n)[k] = c[i + k]
  BY <1>1, SubSeqProperties
<1> DEFINE r == SubSeq(c, i + 1, Len(c))
<1>4. \A k \in 1..n : r[k] = c[i + k] /\ r[k] \in S
  BY <1>1, <1>2
<1> HIDE DEF r
<1>5. /\ SubSeq(r, 1, n) \in Seq(S) /\ Len(SubSeq(r, 1, n)) = n
      /\ \A k \in 1..n : SubSeq(r, 1, n)[k] = r[k]
  BY <1>4, SubSeqProperties
<1>6. SubSeq(r, 1, n) = SubSeq(c, i + 1, i + n)
  BY <1>3, <1>4, <1>5, SeqEqual
<1> QED
  BY <1>3, <1>6 DEF r

LEMMA FittingFacts ==
  ASSUME NEW it, IterOK(it), NEW len
  PROVE  \E n \in 0..(Len(it.contents) - it.idx) :
           /\ Fitting(it, len) = SubSeq(it.contents, it.idx + 1, it.idx + n)
           /\ Len(Fitting(it, len)) = n
           /\ Fitting(it, len) = Rest(it) => it.idx + n = Len(it.contents)
<1>1. it.contents \in Seq(Range(it.contents)) /\ it.idx \in 0..Len(it.contents) /\ Len(it.contents) \in Nat
  BY LenProperties DEF IterOK, IsSeq
<1>2. Len(Rest(it)) = Len(it.contents) - it.idx /\ Len(Rest(it)) \in Nat
  BY <1>1, SubSeqProperties DEF Rest
<1> DEFINE S == {n \in 0..Len(Rest(it)) : ~Fits(it, len, n + 1)}
<1>3. Min(S) \in S
  <2>1. Len(Rest(it)) \in S
    BY <1>2 DEF Fits
  <2>2. IsFiniteSet(0..Len(Rest(it)))
    BY <1>2, FS_Interval
  <2>3. IsFiniteSet(S) /\ S \subseteq Nat
    BY <1>2, <2>2, FS_Subset
  <2> QED
    BY <2>1, <2>3, MinExists
<1>4. PICK n : n = Min(S)
  OBVIOUS
<1>5. n \in 0..(Len(it.contents) - it.idx)
  BY <1>2, <1>3, <1>4
<1>6. Fitting(it, len) = SubSeq(Rest(it), 1, n)
  BY <1>4 DEF Fitting
<1> HIDE DEF S
<1>7. /\ SubSeq(Rest(it), 1, n) = SubSeq(it.contents, it.idx + 1, it.idx + n)
      /\ Len(SubSeq(Rest(it), 1, n)) = n
  <2>1. /\ SubSeq(SubSeq(it.contents, it.idx + 1, Len(it.contents)), 1, n) = SubSeq(it.contents, it.idx + 1, it.idx + n)
        /\ Len(SubSeq(it.contents, it.idx + 1, it.idx + n)) = n
    BY <1>1, <1>5, SubSeqOfRest
  <2> QED
    BY <2>1 DEF Rest
<1>8. Fitting(it, len) = Rest(it) => it.idx + n = Len(it.contents)
  BY <1>1, <1>2, <1>5, <1>6, <1>7
<1> QED
  BY <1>5, <1>6, <1>7, <1>8

LEMMA JoinedSubSeqs ==
  ASSUME NEW S, NEW c \in Seq(S), NEW i \in 0..Len(c), NEW n \in 0..(Len(c) - i)
  PROVE  SubSeq(c, 1, i) \o SubSeq(c, i + 1, i + n) = SubSeq(c, 1, i + n)
<1>1. Len(c) \in Nat
  BY LenProperties
<1>2. /\ SubSeq(c, 1, i) \in Seq(S) /\ Len(SubSeq(c, 1, i)) = i
      /\ \A k \in 1..i : SubSeq(c, 1, i)[k] = c[k]
  BY <1>1, SubSeqProperties
<1>3. /\ SubSeq(c, i + 1, i + n) \in Seq(S) /\ Len(SubSeq(c, i + 1, i + n)) = n
      /\ \A k \in 1..n : SubSeq(c, i + 1, i + n)[k] = c[i + k]
  BY <1>1, SubSeqProperties
<1>4. /\ SubSeq(c, 1, i + n) \in Seq(S) /\ Len(SubSeq(c, 1, i + n)) = i + n
      /\ \A k \in 1..(i + n) : SubSeq(c, 1, i + n)[k] = c[k]
  BY <1>1, SubSeqProperties
<1> DEFINE s == SubSeq(c, 1, i) \o SubSeq(c, i + 1, i + n)
<1>5. /\ s \in Seq(S) /\ Len(s) = i + n
      /\ \A k \in 1..(i + n) : s[k] = IF k <= i THEN SubSeq(c, 1, i)[k] ELSE SubSeq(c, i + 1, i + n)[k - i]
  BY <1>1, <1>2, <1>3, ConcatProperties
<1>6. \A k \in 1..(i + n) : s[k] = SubSeq(c, 1, i + n)[k]
  <2> HIDE DEF s
  <2>1. SUFFICES ASSUME NEW k \in 1..(i + n) PROVE s[k] = SubSeq(c, 1, i + n)[k]
    OBVIOUS
  <2>2. CASE k <= i
    BY <2>2, <1>1, <1>2, <1>4, <1>5
  <2>3. CASE ~(k <= i)
    <3>1. k - i \in 1..n /\ i + (k - i) = k
      BY <2>3, <1>1
    <3> QED
      BY <3>1, <2>3, <1>1, <1>3, <1>4, <1>5
  <2> QED
    BY <2>2, <2>3
<1> QED
  BY <1>1, <1>4, <1>5, <1>6, SeqEqual

-----------------------------------------------------------------------------
(* What a step that closes nothing leaves true. *)
Grows(h, g) == \A k \in DOMAIN h : k \in DOMAIN g /\ g[k] = h[k]

LEMMA EntryKept ==
  ASSUME NEW o, NEW p, Continues(o, p), NEW h, NEW g, h \in [DOMAIN h -> 1..Len(o)], Grows(h, g),
         NEW d, NEW inh, Backed(d, h, o), ByRight(d, inh, h, o)
  PROVE  Backed(d, g, p) /\ ByRight(d, inh, g, p)
<1>1. CASE d.host = Closed
  BY <1>1 DEF Backed, ByRight
<1>2. CASE d.host # Closed
  <2>1. d.host \in DOMAIN h /\ o[h[d.host]].node = d.node
    BY <1>2 DEF Backed
  <2>2. h[d.host] \in 1..Len(o) /\ d.host \in DOMAIN g /\ g[d.host] = h[d.host]
    BY <2>1 DEF Grows
  <2>3. SameFile(o[h[d.host]], p[h[d.host]])
    BY <2>2 DEF Continues
  <2>4. p[g[d.host]].node = o[h[d.host]].node /\ p[g[d.host]].access = o[h[d.host]].access
    BY <2>2, <2>3 DEF SameFile
  <2>5. o[h[d.host]].access # "r" => Write \in d.base \cap inh
    BY <1>2 DEF ByRight
  <2> QED
    BY <2>1, <2>2, <2>4, <2>5 DEF Backed, ByRight
<1> QED
  BY <1>1, <1>2

LEMMA ZygoteKept ==
  ASSUME NEW o, o \in Seq(OpenFile), NEW p, Continues(o, p), NEW h, NEW g, Grows(h, g), NEW n, StdOK(n, h, o)
  PROVE  StdOK(n, g, p)
<1>1. n \in DOMAIN h /\ h[n] = n + 1 /\ n + 1 \in DOMAIN o
  BY DEF StdOK
<1>2. n + 1 \in 1..Len(o)
  BY <1>1, LenProperties
<1>3. n \in DOMAIN g /\ g[n] = n + 1
  BY <1>1 DEF Grows
<1>4. n + 1 \in DOMAIN p /\ p[n + 1].node = o[n + 1].node /\ p[n + 1].access = o[n + 1].access
  BY <1>2 DEF Continues, SameFile
<1> QED
  BY <1>3, <1>4 DEF StdOK

(* Steps of a function that has started, as far as the host sees them. *)
HostStep ==
  /\ pc = "run" /\ pc' \in {"run", "failed"}
  /\ HostTypes' /\ Continues(open, open') /\ Grows(host, host')

LEMMA TableKept ==
  ASSUME IInv, HostStep, UNCHANGED table, given' \subseteq given
  PROVE  TypeOK' /\ TableInv' /\ ZygoteInv'
<1>1. TypeOK /\ TableInv /\ ZygoteInv /\ HostTypes /\ TableTypes
  BY DEF IInv, TypeOK
<1>2. fds' = fds /\ nextFd' = nextFd /\ pc # "idle" /\ pc' # "idle" /\ pc' \in {"run", "failed"}
  BY DEF table, HostStep
<1>3. TableTypes'
  BY <1>1, <1>2 DEF TableTypes
<1>4. TypeOK'
  BY <1>2, <1>3 DEF TypeOK, HostStep
<1>5. open \in Seq(OpenFile) /\ host \in [DOMAIN host -> 1..Len(open)] /\ Continues(open, open') /\ Grows(host, host')
  BY <1>1 DEF HostTypes, HostStep
<1>6. ASSUME NEW n \in DOMAIN fds
      PROVE  Backed(fds[n], host', open') /\ ByRight(fds[n], fds[fds[n].root].inh, host', open')
  <2>1. Backed(fds[n], host, open) /\ ByRight(fds[n], fds[fds[n].root].inh, host, open)
    BY <1>1, <1>6 DEF TableInv
  <2> QED
    BY <2>1, <1>5, EntryKept
<1>7. TableInv'
  BY <1>1, <1>2, <1>6 DEF TableInv
<1>8. ASSUME NEW n \in Zygote PROVE StdOK(n, host', open')
  BY <1>1, <1>5, <1>8, ZygoteKept DEF ZygoteInv
<1>9. ZygoteInv'
  BY <1>8 DEF ZygoteInv
<1> QED
  BY <1>4, <1>7, <1>9

LEMMA TableGrows ==
  ASSUME IInv, HostStep, NEW d, fds' = With(fds, nextFd, d), nextFd' = NewFd,
         DescriptorOK(d), d.root \in DOMAIN fds, Backed(d, host', open'), ByRight(d, fds[d.root].inh, host', open'),
         given' \subseteq given \cup {nextFd}
  PROVE  /\ TypeOK' /\ TableInv' /\ ZygoteInv'
         /\ nextFd \notin DOMAIN fds /\ DOMAIN fds' = DOMAIN fds \cup {nextFd} /\ fds'[nextFd] = d
         /\ \A n \in DOMAIN fds : fds'[n] = fds[n]
<1>1. TypeOK /\ TableInv /\ ZygoteInv /\ HostTypes /\ TableTypes
  BY DEF IInv, TypeOK
<1>2. nextFd' = nextFd + 1 /\ pc # "idle" /\ pc' # "idle" /\ pc' \in {"run", "failed"}
  BY DEF HostStep, NewFd
<1>3. nextFd \in Nat /\ FirstFd <= nextFd /\ DOMAIN fds = 0..(nextFd - 1) /\ nextFd \notin DOMAIN fds
  BY <1>1 DEF TableTypes
<1>4. /\ DOMAIN fds' = DOMAIN fds \cup {nextFd} /\ fds'[nextFd] = d
      /\ \A n \in DOMAIN fds : fds'[n] = fds[n]
  BY <1>3 DEF With
<1>5. nextFd' \in Nat /\ FirstFd <= nextFd' /\ DOMAIN fds' = 0..(nextFd' - 1)
  BY <1>2, <1>3, <1>4 DEF FirstFd
<1>6. fds' = [n \in 0..(nextFd' - 1) |-> fds'[n]]
  <2>1. fds' = [n \in DOMAIN fds' |-> fds'[n]]
    BY DEF With
  <2> QED
    BY <2>1, <1>5
<1>7. \A n \in DOMAIN fds' : DescriptorOK(fds'[n])
  BY <1>1, <1>4 DEF TableTypes
<1>8. TypeOK'
  BY <1>2, <1>5, <1>6, <1>7 DEF TypeOK, TableTypes, HostStep
<1>9. open \in Seq(OpenFile) /\ host \in [DOMAIN host -> 1..Len(open)] /\ Continues(open, open') /\ Grows(host, host')
  BY <1>1 DEF HostTypes, HostStep
<1>10. ASSUME NEW n \in DOMAIN fds'
       PROVE  /\ fds'[n].root \in DOMAIN fds' /\ Backed(fds'[n], host', open')
              /\ ByRight(fds'[n], fds'[fds'[n].root].inh, host', open')
  <2>1. CASE n = nextFd
    <3>1. fds'[n] = d /\ fds'[d.root] = fds[d.root] /\ d.root \in DOMAIN fds'
      BY <2>1, <1>4
    <3> QED
      BY <3>1
  <2>2. CASE n # nextFd
    <3>1. n \in DOMAIN fds /\ fds'[n] = fds[n]
      BY <2>2, <1>4, <1>10
    <3>2. /\ fds[n].root \in DOMAIN fds /\ Backed(fds[n], host, open)
          /\ ByRight(fds[n], fds[fds[n].root].inh, host, open)
      BY <3>1, <1>1 DEF TableInv
    <3>3. fds'[fds[n].root] = fds[fds[n].root] /\ fds[n].root \in DOMAIN fds'
      BY <3>2, <1>4
    <3>4. Backed(fds[n], host', open') /\ ByRight(fds[n], fds[fds[n].root].inh, host', open')
      BY <3>2, <1>9, EntryKept
    <3> QED
      BY <3>1, <3>3, <3>4
  <2> QED
    BY <2>1, <2>2
<1>11. given' \subseteq DOMAIN fds'
  BY <1>1, <1>2, <1>4 DEF TableInv
<1>12. TableInv'
  BY <1>2, <1>10, <1>11 DEF TableInv
<1>13. ASSUME NEW n \in Zygote PROVE StdOK(n, host', open')
  BY <1>1, <1>9, <1>13, ZygoteKept DEF ZygoteInv
<1>14. ZygoteInv'
  BY <1>13 DEF ZygoteInv
<1> QED
  BY <1>3, <1>4, <1>8, <1>12, <1>14

LEMMA CaptureKept ==
  ASSUME IInv, HostStep, UNCHANGED <<stdout, printed>>
  PROVE  CaptureInv' /\ OutputIsOwn'
<1>1. CaptureInv /\ pc = "run" /\ pc' \in {"run", "failed"} /\ stdout' = stdout /\ printed' = printed
  BY DEF IInv, HostStep
<1>2. \A k \in DOMAIN host : k \in DOMAIN host'
  BY DEF HostStep, Grows
<1>3. CaptureInv'
  BY <1>1, <1>2 DEF CaptureInv
<1> QED
  BY <1>1, <1>3 DEF OutputIsOwn

LEMMA ListKept ==
  ASSUME IInv, HostStep, UNCHANGED <<seen, table>>
  PROVE  ListInv'
<1>1. ListInv /\ pc = "run" /\ seen' = seen /\ fds' = fds
  BY DEF IInv, HostStep, table
<1> QED
  BY <1>1 DEF ListInv

(* Nothing but the tree, or files that are open. *)
LEMMA HostOnly ==
  ASSUME IInv, HostStep, UNCHANGED <<table, capture, seen>>, given' \subseteq given
  PROVE  IInv'
<1>1. UNCHANGED table /\ UNCHANGED <<stdout, printed>> /\ UNCHANGED <<seen, table>>
  BY DEF capture
<1>2. TypeOK' /\ TableInv' /\ ZygoteInv'
  BY <1>1, TableKept
<1>3. CaptureInv' /\ OutputIsOwn'
  BY <1>1, CaptureKept
<1>4. ListInv'
  BY <1>1, ListKept
<1> QED
  BY <1>2, <1>3, <1>4 DEF IInv

-----------------------------------------------------------------------------
(* Operations on paths change the tree of the host, which stays one. *)
TreeTypes(t) == t \in [DOMAIN t -> Nodes] /\ IsFiniteSet(DOMAIN t)

LEMMA TreeStep ==
  ASSUME IInv, pc = "run", pc' \in {"run", "failed"}, UNCHANGED <<host, open, data>>, TreeTypes(tree')
  PROVE  HostStep
<1>1. HostTypes
  BY DEF IInv, TypeOK
<1>2. HostTypes'
  BY <1>1 DEF HostTypes, TreeTypes
<1>3. Continues(open, open')
  BY <1>1, SameContinues DEF HostTypes
<1>4. Grows(host, host')
  BY DEF Grows
<1> QED
  BY <1>2, <1>3, <1>4 DEF HostStep

LEMMA TreeWith ==
  ASSUME NEW t, TreeTypes(t), NEW p, NEW i \in Nodes
  PROVE  TreeTypes(With(t, p, i))
<1>1. With(t, p, i) \in [DOMAIN With(t, p, i) -> Nodes] /\ DOMAIN With(t, p, i) = DOMAIN t \cup {p}
  BY WithTyped, WithFacts DEF TreeTypes
<1>2. IsFiniteSet(DOMAIN t \cup {p})
  BY FS_AddElement DEF TreeTypes
<1> QED
  BY <1>1, <1>2 DEF TreeTypes

LEMMA MkdirTree ==
  ASSUME TreeTypes(tree), NEW p, HostMkdirErrno(p) = OK, HostMkdir(p)
  PROVE  TreeTypes(tree')
<1>1. Free(Dirs) # {}
  BY DEF HostMkdirErrno, OK
<1>2. (CHOOSE i \in Free(Dirs) : TRUE) \in Nodes
  BY <1>1 DEF Free, Nodes
<1> QED
  BY <1>2, TreeWith DEF HostMkdir

LEMMA UnlinkTree ==
  ASSUME TreeTypes(tree), NEW p, HostUnlink(p)
  PROVE  TreeTypes(tree')
<1>1. tree' = [x \in DOMAIN tree \ {p} |-> tree[x]]
  BY DEF HostUnlink, Restrict
<1>2. IsFiniteSet(DOMAIN tree \ {p})
  BY FS_Subset DEF TreeTypes
<1> QED
  BY <1>1, <1>2 DEF TreeTypes

LEMMA RenameTree ==
  ASSUME TreeTypes(tree), NEW p, NEW q, HostRename(p, q)
  PROVE  TreeTypes(tree')
<1> DEFINE kept == {r \in DOMAIN tree : p = q \/ ~IsPrefix(q, r)}
           T == {MovedPath(p, q, s) : s \in kept}
           f == [s \in kept |-> MovedPath(p, q, s)]
<1>1. tree' = [r \in T |-> tree[CHOOSE s \in kept : MovedPath(p, q, s) = r]]
  BY DEF HostRename
<1>2. IsFiniteSet(kept)
  BY FS_Subset DEF TreeTypes
<1>3. f \in [kept -> T] /\ \A y \in T : \E s \in kept : f[s] = y
  OBVIOUS
<1>4. IsFiniteSet(T)
  BY <1>2, <1>3, ImageFinite
<1>5. \A r \in T : (CHOOSE s \in kept : MovedPath(p, q, s) = r) \in kept
  OBVIOUS
<1>6. kept \subseteq DOMAIN tree
  OBVIOUS
<1> HIDE DEF kept, T
<1>7. \A r \in T : tree[CHOOSE s \in kept : MovedPath(p, q, s) = r] \in Nodes
  BY <1>5, <1>6 DEF TreeTypes
<1> QED
  BY <1>1, <1>4, <1>7 DEF TreeTypes

(* The operations that change nothing that lasts. *)
LEMMA QuietSteps ==
  ASSUME IInv, pc = "run", pc' \in {"run", "failed"}, Same
  PROVE  IInv'
<1>1. TreeTypes(tree')
  BY DEF IInv, TypeOK, HostTypes, TreeTypes, Same, hostVars
<1>2. UNCHANGED <<table, capture, caller>> /\ UNCHANGED <<host, open, data>>
  BY DEF Same, hostVars
<1>3. HostStep
  BY <1>1, <1>2, TreeStep
<1>4. UNCHANGED <<table, capture, seen>> /\ given' \subseteq given
  BY <1>2 DEF caller
<1> QED
  BY <1>3, <1>4, HostOnly

LEMMA PathSteps ==
  ASSUME IInv, pc = "run", pc' \in {"run", "failed"}, TreeTypes(tree'),
         UNCHANGED <<table, capture, caller, host, open, data>>
  PROVE  IInv'
<1>1. HostStep
  BY TreeStep
<1>2. UNCHANGED <<table, capture, seen>> /\ given' \subseteq given
  BY DEF caller
<1> QED
  BY <1>1, <1>2, HostOnly

LEMMA Running == ASSUME NEW kind, NEW n, Op(kind) \/ Has(kind, n) PROVE pc = "run"
BY DEF Op, Has

LEMMA FdPrestatGetStep == ASSUME IInv, NEW n, FdPrestatGet(n) PROVE IInv'
<1>1. pc = "run" /\ pc' = pc /\ Same
  BY DEF FdPrestatGet, Op
<1> QED
  BY <1>1, QuietSteps

LEMMA TellingSteps ==
  ASSUME IInv, NEW n,
         \/ FdReaddirAgain(n) \/ FdTell(n) \/ FdFilestatGet(n) \/ FdFdstatGet(n) \/ FdAdvise(n)
         \/ \E rel \in program.names : PathFilestatGet(n, rel) \/ PathReadlink(n, rel) \/ SAccess(rel)
  PROVE  IInv'
<1>1. pc = "run" /\ pc' = pc /\ Same
  BY DEF FdReaddirAgain, FdTell, FdFilestatGet, FdFdstatGet, FdAdvise, PathFilestatGet, PathReadlink, SAccess,
         DoFileStat, Has, Op
<1> QED
  BY <1>1, QuietSteps

LEMMA MkdirStep == ASSUME IInv, NEW n, NEW rel, PathCreateDirectory(n, rel) \/ SMkdir(rel) PROVE IInv'
<1>1. TreeTypes(tree)
  BY DEF IInv, TypeOK, HostTypes, TreeTypes
<1>2. /\ pc = "run" /\ pc' \in {"run", "failed"} /\ UNCHANGED <<table, capture, caller, host, open, data>>
      /\ tree' = tree \/ \E p : HostMkdirErrno(p) = OK /\ HostMkdir(p)
  BY DEF PathCreateDirectory, SMkdir, Legacy, PathOp, Throws, Has, Op, OK
<1>3. TreeTypes(tree')
  BY <1>1, <1>2, MkdirTree
<1> QED
  BY <1>2, <1>3, PathSteps

LEMMA UnlinkStep == ASSUME IInv, NEW n, NEW rel, PathUnlinkFile(n, rel) \/ SUnlink(rel) PROVE IInv'
<1>1. TreeTypes(tree)
  BY DEF IInv, TypeOK, HostTypes, TreeTypes
<1>2. /\ pc = "run" /\ pc' \in {"run", "failed"} /\ UNCHANGED <<table, capture, caller, host, open, data>>
      /\ tree' = tree \/ \E p : HostUnlink(p)
  BY DEF PathUnlinkFile, SUnlink, Legacy, PathOp, Throws, Has, Op, OK
<1>3. TreeTypes(tree')
  BY <1>1, <1>2, UnlinkTree
<1> QED
  BY <1>2, <1>3, PathSteps

LEMMA RenameStep ==
  ASSUME IInv, NEW n, NEW rel, NEW m, NEW to, PathRename(n, rel, m, to) \/ SRename(rel, to)
  PROVE  IInv'
<1>1. TreeTypes(tree)
  BY DEF IInv, TypeOK, HostTypes, TreeTypes
<1>2. /\ pc = "run" /\ pc' \in {"run", "failed"} /\ UNCHANGED <<table, capture, caller, host, open, data>>
      /\ tree' = tree \/ \E p, q : HostRename(p, q)
  BY DEF PathRename, SRename, Legacy, PathOp, Throws, Has, Op, OK
<1>3. TreeTypes(tree')
  BY <1>1, <1>2, RenameTree
<1> QED
  BY <1>2, <1>3, PathSteps

-----------------------------------------------------------------------------
(* Open files: reads, writes and seeks move the offset of one. *)
LEMMA MaxOfTwo ==
  ASSUME NEW a \in Int, NEW b \in Int
  PROVE  Max({a, b}) \in {a, b} /\ a <= Max({a, b}) /\ b <= Max({a, b})
<1>1. \E x \in {a, b} : \A y \in {a, b} : x >= y
  <2>1. CASE a >= b
    BY <2>1
  <2>2. CASE b >= a
    BY <2>2
  <2> QED
    BY <2>1, <2>2
<1>2. Max({a, b}) \in {a, b} /\ \A y \in {a, b} : Max({a, b}) >= y
  BY <1>1 DEF Max
<1> QED
  BY <1>2

LEMMA WrittenTyped ==
  ASSUME NEW s \in Seq(Nat), NEW at \in Nat, NEW what \in Nat
  PROVE  Written(s, at, what) \in Seq(Nat)
<1>1. Len(s) \in Nat /\ DOMAIN s = 1..Len(s)
  BY LenProperties
<1>2. PICK m : m = Max({Len(s), at + 1})
  OBVIOUS
<1>3. m \in Nat
  <2>1. Len(s) \in Int /\ at + 1 \in Int
    BY <1>1
  <2>2. Max({Len(s), at + 1}) \in {Len(s), at + 1}
    BY <2>1, MaxOfTwo
  <2> QED
    BY <2>2, <1>1, <1>2
<1>4. Written(s, at, what) = [k \in 1..m |-> IF k = at + 1 THEN what ELSE IF k <= Len(s) THEN s[k] ELSE 0]
  BY <1>2 DEF Written
<1>5. \A k \in 1..m : (IF k = at + 1 THEN what ELSE IF k <= Len(s) THEN s[k] ELSE 0) \in Nat
  BY <1>1, <1>3
<1>6. Written(s, at, what) \in [1..m -> Nat]
  BY <1>4, <1>5
<1> QED
  BY <1>3, <1>6

LEMMA OpenedFacts ==
  ASSUME IInv, pc = "run", NEW n \in given, fds[n].host # Closed
  PROVE  /\ n \in DOMAIN fds /\ n \in Nat
         /\ host[fds[n].host] \in 1..Len(open) /\ Opened(n) \in OpenFile
<1>1. TypeOK /\ TableInv /\ HostTypes /\ TableTypes
  BY DEF IInv, TypeOK
<1>2. n \in DOMAIN fds
  BY <1>1 DEF TableInv
<1>3. n \in Nat
  <2>1. DOMAIN fds = 0..(nextFd - 1) /\ nextFd \in Nat
    BY <1>1 DEF TableTypes
  <2> QED
    BY <2>1, <1>2
<1>4. fds[n].host \in DOMAIN host
  BY <1>1, <1>2 DEF TableInv, Backed
<1>5. host[fds[n].host] \in 1..Len(open) /\ open \in Seq(OpenFile)
  BY <1>1, <1>4 DEF HostTypes
<1>6. open[host[fds[n].host]] \in OpenFile
  BY <1>5, ElementOfSeq
<1> QED
  BY <1>2, <1>3, <1>5, <1>6 DEF Opened

LEMMA OpenFileStep ==
  ASSUME IInv, pc = "run", pc' = pc, NEW k \in 1..Len(open), NEW f \in OpenFile, SameFile(open[k], f),
         open' = [open EXCEPT ![k] = f] \/ open' = open,
         data' \in [Files -> Seq(Nat)],
         UNCHANGED <<table, capture, caller, host, tree>>
  PROVE  IInv'
<1>1. HostTypes
  BY DEF IInv, TypeOK
<1>2. Continues(open, open')
  BY <1>1, ExceptContinues, SameContinues DEF HostTypes
<1>3. open' \in Seq(OpenFile) /\ Len(open) <= Len(open') /\ Len(open) \in Nat /\ Len(open') \in Nat
  BY <1>1, <1>2, LenProperties DEF Continues, HostTypes
<1>4. host \in [DOMAIN host -> 1..Len(open')]
  BY <1>1, <1>3 DEF HostTypes
<1>5. HostTypes'
  BY <1>1, <1>3, <1>4 DEF HostTypes
<1>6. HostStep
  BY <1>2, <1>5 DEF HostStep, Grows
<1>7. UNCHANGED <<table, capture, seen>> /\ given' \subseteq given
  BY DEF caller
<1> QED
  BY <1>6, <1>7, HostOnly

LEMMA MoveStep ==
  ASSUME IInv, pc = "run", pc' = pc, NEW n \in given, fds[n].host # Closed, NEW offset \in Nat, Moves(n, offset),
         data' \in [Files -> Seq(Nat)],
         UNCHANGED <<table, capture, caller, host, tree>>
  PROVE  IInv'
<1>1. host[fds[n].host] \in 1..Len(open) /\ Opened(n) \in OpenFile
  BY OpenedFacts
<1>2. PICK k \in 1..Len(open) : k = host[fds[n].host] /\ open[k] \in OpenFile
  BY <1>1 DEF Opened
<1>3. PICK f : f = [open[k] EXCEPT !.offset = offset]
  OBVIOUS
<1>4. f \in OpenFile /\ SameFile(open[k], f)
  BY <1>2, <1>3, Moved
<1>5. open' = [open EXCEPT ![k] = f]
  BY <1>2, <1>3 DEF Moves
<1> QED
  BY <1>4, <1>5, OpenFileStep

LEMMA AtTyped ==
  ASSUME HostTypes, NEW n, Opened(n) \in OpenFile, Opened(n).node \in Files
  PROVE  At(n) \in Nat /\ Opened(n).offset \in Nat /\ Len(data[Opened(n).node]) \in Nat
<1>1. Opened(n).offset \in Nat
  BY DEF OpenFile
<1>2. data[Opened(n).node] \in Seq(Nat)
  BY DEF HostTypes
<1>3. Len(data[Opened(n).node]) \in Nat
  BY <1>2, LenProperties
<1> QED
  BY <1>1, <1>3 DEF At

LEMMA FdWriteStep == ASSUME IInv, NEW n \in given, FdWrite(n) PROVE IInv'
<1>1. pc = "run" /\ pc' = pc /\ UNCHANGED <<table, capture, caller, host, tree>>
  BY DEF FdWrite, Has, Op
<1>2. HostTypes /\ TreeTypes(tree) /\ data \in [Files -> Seq(Nat)]
  BY DEF IInv, TypeOK, HostTypes, TreeTypes
<1>3. CASE IsFile(n) /\ Opened(n).access # "r"
  <2>1. fds[n].host # Closed /\ Opened(n).node \in Files
    BY <1>3 DEF IsFile
  <2>2. Opened(n) \in OpenFile /\ n \in Nat
    BY <2>1, <1>1, OpenedFacts
  <2>3. At(n) \in Nat
    BY <2>1, <2>2, <1>2, AtTyped
  <2>4. data' = [data EXCEPT ![Opened(n).node] = Written(@, At(n), n)] /\ Moves(n, At(n) + 1)
    BY <1>3 DEF FdWrite
  <2>5. PICK w : w = Written(data[Opened(n).node], At(n), n)
    OBVIOUS
  <2>6. w \in Seq(Nat)
    BY <2>1, <2>2, <2>3, <2>5, <1>2, WrittenTyped
  <2>7. data' = [data EXCEPT ![Opened(n).node] = w]
    BY <2>4, <2>5
  <2>8. data' \in [Files -> Seq(Nat)]
    BY <2>6, <2>7, <1>2
  <2>9. At(n) + 1 \in Nat
    BY <2>3
  <2> QED
    BY <1>1, <2>1, <2>4, <2>8, <2>9, MoveStep
<1>4. CASE ~(IsFile(n) /\ Opened(n).access # "r")
  <2>1. UNCHANGED <<open, data>>
    BY <1>4 DEF FdWrite
  <2> QED
    BY <1>1, <1>2, <2>1, PathSteps
<1> QED
  BY <1>3, <1>4

LEMMA FdReadStep == ASSUME IInv, NEW n \in given, FdRead(n) PROVE IInv'
<1>1. pc = "run" /\ pc' = pc /\ UNCHANGED <<table, capture, caller, host, tree>> /\ data' = data
  BY DEF FdRead, Has, Op
<1>2. HostTypes /\ TreeTypes(tree) /\ data \in [Files -> Seq(Nat)]
  BY DEF IInv, TypeOK, HostTypes, TreeTypes
<1>3. CASE IsFile(n) /\ Moves(n, Opened(n).offset + 1)
  <2>1. fds[n].host # Closed /\ Opened(n).node \in Files
    BY <1>3 DEF IsFile
  <2>2. Opened(n) \in OpenFile
    BY <2>1, <1>1, OpenedFacts
  <2>3. Opened(n).offset + 1 \in Nat
    BY <2>1, <2>2, <1>2, AtTyped
  <2> QED
    BY <1>1, <1>2, <1>3, <2>1, <2>3, MoveStep
<1>4. CASE UNCHANGED open
  BY <1>1, <1>2, <1>4, PathSteps
<1> QED
  BY <1>3, <1>4 DEF FdRead

LEMMA FdSeekStep ==
  ASSUME IInv, NEW n \in given, NEW whence \in {"set", "cur", "end"}, NEW by \in {-1, 1}, FdSeek(n, whence, by)
  PROVE  IInv'
<1>1. pc = "run" /\ pc' = pc /\ UNCHANGED <<table, capture, caller, host, tree>> /\ data' = data
  BY DEF FdSeek, Has, Op
<1>2. HostTypes /\ TreeTypes(tree) /\ data \in [Files -> Seq(Nat)]
  BY DEF IInv, TypeOK, HostTypes, TreeTypes
<1>3. CASE IsFile(n) /\ ~(Seek(n, whence, by) < 0) /\ Moves(n, Seek(n, whence, by))
  <2>1. fds[n].host # Closed /\ Opened(n).node \in Files
    BY <1>3 DEF IsFile
  <2>2. Opened(n) \in OpenFile
    BY <2>1, <1>1, OpenedFacts
  <2>3. Opened(n).offset \in Nat /\ Len(data[Opened(n).node]) \in Nat
    BY <2>1, <2>2, <1>2, AtTyped
  <2>4. Seek(n, whence, by) \in Int
    <3>1. CASE whence = "set"
      BY <3>1 DEF Seek
    <3>2. CASE whence = "cur"
      BY <3>2, <2>3 DEF Seek
    <3>3. CASE whence = "end"
      BY <3>3, <2>3 DEF Seek
    <3> QED
      BY <3>1, <3>2, <3>3
  <2>5. Seek(n, whence, by) \in Nat
    BY <2>4, <1>3
  <2> QED
    BY <1>1, <1>2, <1>3, <2>1, <2>5, MoveStep
<1>4. CASE UNCHANGED open
  BY <1>1, <1>2, <1>4, PathSteps
<1> QED
  BY <1>3, <1>4 DEF FdSeek

LEMMA Boolean == ASSUME NEW fdFlags PROVE WasiFdFlagsToLinux(fdFlags) \in BOOLEAN
<1>1. CASE "append" \in fdFlags
  BY <1>1, Zenon DEF WasiFdFlagsToLinux
<1>2. CASE "append" \notin fdFlags
  <2>1. ("append" \in fdFlags) = FALSE
    BY <1>2
  <2> QED
    BY <2>1 DEF WasiFdFlagsToLinux
<1> QED
  BY <1>1, <1>2

LEMMA SetFlagsStep ==
  ASSUME IInv, NEW n \in given, NEW fdFlags, FdFdstatSetFlags(n, fdFlags)
  PROVE  IInv'
<1>1. pc = "run" /\ pc' = pc /\ UNCHANGED <<table, capture, caller, host, tree>> /\ data' = data
  BY DEF FdFdstatSetFlags, Has, Op
<1>2. HostTypes /\ TreeTypes(tree) /\ data \in [Files -> Seq(Nat)]
  BY DEF IInv, TypeOK, HostTypes, TreeTypes
<1>3. CASE fds[n].host # Closed /\ UpdateFlags(n, fdFlags)
  <2>1. host[fds[n].host] \in 1..Len(open) /\ Opened(n) \in OpenFile
    BY <1>1, <1>3, OpenedFacts
  <2>2. PICK k \in 1..Len(open) : k = host[fds[n].host] /\ open[k] \in OpenFile
    BY <2>1 DEF Opened
  <2>3. PICK append \in BOOLEAN : append = WasiFdFlagsToLinux(fdFlags)
    BY Boolean
  <2>4. PICK f : f = [open[k] EXCEPT !.append = append]
    OBVIOUS
  <2>5. f \in OpenFile /\ SameFile(open[k], f)
    BY <2>2, <2>4, Flagged
  <2>6. open' = [open EXCEPT ![k] = f]
    BY <1>3, <2>2, <2>3, <2>4 DEF UpdateFlags
  <2> QED
    BY <1>1, <1>2, <2>5, <2>6, OpenFileStep
<1>4. CASE UNCHANGED open
  BY <1>1, <1>2, <1>4, PathSteps
<1> QED
  BY <1>3, <1>4 DEF FdFdstatSetFlags

-----------------------------------------------------------------------------
(* A host descriptor more, for a file that is opened now or is open. *)
LEMMA HostWith ==
  ASSUME HostTypes, NEW h \in Nat, h \notin DOMAIN host, NEW k \in Nat, k > 0,
         NEW p, Continues(open, p), k <= Len(p),
         NEW t, TreeTypes(t), NEW d, d \in [Files -> Seq(Nat)],
         host' = With(host, h, k), open' = p, tree' = t, data' = d
  PROVE  HostTypes' /\ Grows(host, host') /\ host'[h] = k /\ h \in DOMAIN host'
<1>1. p \in Seq(OpenFile) /\ Len(open) <= Len(p) /\ Len(open) \in Nat /\ Len(p) \in Nat
  BY LenProperties DEF Continues, HostTypes
<1>2. host \in [DOMAIN host -> 1..Len(p)] /\ k \in 1..Len(p)
  BY <1>1 DEF HostTypes
<1>3. host' \in [DOMAIN host' -> 1..Len(p)] /\ DOMAIN host' = DOMAIN host \cup {h}
  BY <1>2, WithTyped, WithFacts
<1>4. IsFiniteSet(DOMAIN host') /\ DOMAIN host' \subseteq Nat
  <2>1. IsFiniteSet(DOMAIN host) /\ DOMAIN host \subseteq Nat
    BY DEF HostTypes
  <2>2. IsFiniteSet(DOMAIN host \cup {h}) /\ DOMAIN host \cup {h} \subseteq Nat
    BY <2>1, FS_AddElement
  <2> QED
    BY <2>2, <1>3
<1>5. HostTypes'
  BY <1>1, <1>3, <1>4 DEF HostTypes, TreeTypes
<1>6. host'[h] = k /\ \A x \in DOMAIN host : host'[x] = host[x]
  BY DEF With
<1> QED
  BY <1>3, <1>5, <1>6 DEF Grows

LEMMA FdCloseStep == ASSUME IInv, NEW n, FdClose(n) PROVE IInv'
<1>1. /\ pc = "run" /\ pc' = pc /\ UNCHANGED <<table, host, open, tree, data>> /\ UNCHANGED capture /\ UNCHANGED seen
      /\ given' \subseteq given
  BY DEF FdClose, FdCloses, Has, Op, table
<1>2. TreeTypes(tree')
  BY <1>1 DEF IInv, TypeOK, HostTypes, TreeTypes
<1>3. HostStep
  BY <1>1, <1>2, TreeStep
<1> QED
  BY <1>1, <1>3, HostOnly

(* What is printed goes to the captured output. *)
LEMMA CapturesStep ==
  ASSUME IInv, pc = "run", NEW op, NEW n, NEW what, Captures(op, n, what)
  PROVE  IInv'
<1>1. UNCHANGED table /\ UNCHANGED caller /\ tree' = tree /\ data' = data
  BY DEF Captures
<1>2. /\ HostTypes /\ TreeTypes(tree) /\ data \in [Files -> Seq(Nat)] /\ CaptureInv /\ ZygoteInv
      /\ open \in Seq(OpenFile) /\ Len(open) \in Nat
  BY LenProperties DEF IInv, TypeOK, HostTypes, TreeTypes
<1>3. UNCHANGED <<seen, table>> /\ given' \subseteq given
  BY <1>1 DEF caller
<1>4. CASE stdout.host = 0 /\ Exhausted
  <2>1. pc' = "failed" /\ UNCHANGED <<stdout, host, open>>
    BY <1>4 DEF Captures, Throws
  <2>2. HostStep
    BY <1>1, <1>2, <2>1, TreeStep
  <2>3. TypeOK' /\ TableInv' /\ ZygoteInv'
    BY <1>3, <2>2, TableKept
  <2>4. CaptureInv' /\ OutputIsOwn'
    BY <1>2, <2>1 DEF CaptureInv, OutputIsOwn
  <2> QED
    BY <1>3, <2>2, <2>3, <2>4, ListKept DEF IInv
<1>5. CASE stdout.host = 0 /\ ~Exhausted
  <2>1. /\ stdout' = [host |-> LowestFree, written |-> Append(stdout.written, what)]
        /\ printed' = Append(printed, what) /\ pc' = "run"
        /\ host' = With(host, LowestFree, Len(open) + 1)
        /\ open' = Append(open, [node |-> "memory", offset |-> 1, access |-> "rw", append |-> FALSE])
    BY <1>5 DEF Captures, GetStdoutFd
  <2>2. PICK f \in OpenFile : f = [node |-> "memory", offset |-> 1, access |-> "rw", append |-> FALSE]
    BY DEF OpenFile
  <2>3. open' = Append(open, f) /\ Continues(open, open') /\ Len(open') = Len(open) + 1
    BY <2>1, <2>2, <1>2, AppendContinues, AppendOpen
  <2>4. LowestFree \in Nat /\ LowestFree \notin DOMAIN host
    BY <1>2, <1>5, LowestFreeFacts
  <2>5. Len(open) + 1 \in Nat /\ Len(open) + 1 > 0 /\ Len(open) + 1 <= Len(open')
    BY <1>2, <2>3
  <2>6. HostTypes' /\ Grows(host, host') /\ LowestFree \in DOMAIN host'
    BY <1>1, <1>2, <2>1, <2>3, <2>4, <2>5, HostWith
  <2>7. HostStep
    BY <2>1, <2>3, <2>6 DEF HostStep
  <2>8. TypeOK' /\ TableInv' /\ ZygoteInv'
    BY <1>3, <2>7, TableKept
  <2>9. LowestFree \notin Zygote /\ LowestFree # 0
    BY <1>2, <2>4 DEF ZygoteInv, StdOK, Zygote, Std
  <2>10. CaptureInv' /\ OutputIsOwn'
    BY <1>2, <2>1, <2>6, <2>9 DEF CaptureInv, OutputIsOwn
  <2> QED
    BY <1>3, <2>7, <2>8, <2>10, ListKept DEF IInv
<1>6. CASE stdout.host # 0
  <2>1. /\ stdout' = [host |-> stdout.host, written |-> Append(stdout.written, what)]
        /\ printed' = Append(printed, what) /\ pc' = "run" /\ host' = host
        /\ open' = [open EXCEPT ![host[stdout.host]].offset = @ + 1]
    BY <1>6 DEF Captures, GetStdoutFd
  <2>2. host[stdout.host] \in 1..Len(open)
    BY <1>2, <1>6 DEF CaptureInv, HostTypes
  <2>3. PICK k \in 1..Len(open) : k = host[stdout.host] /\ open[k] \in OpenFile
    BY <2>2, <1>2, ElementOfSeq
  <2>4. open[k].offset + 1 \in Nat
    BY <2>3 DEF OpenFile
  <2>5. PICK f : f = [open[k] EXCEPT !.offset = open[k].offset + 1]
    OBVIOUS
  <2>6. f \in OpenFile /\ SameFile(open[k], f)
    BY <2>3, <2>4, <2>5, Moved
  <2>7. open' = [open EXCEPT ![k] = f]
    BY <2>1, <2>3, <2>5
  <2>8. Continues(open, open')
    BY <1>2, <2>6, <2>7, ExceptContinues
  <2>9. open' \in Seq(OpenFile) /\ Len(open) <= Len(open') /\ Len(open') \in Nat
    BY <2>8, LenProperties DEF Continues
  <2>10. host' \in [DOMAIN host' -> 1..Len(open')]
    BY <1>2, <2>1, <2>9 DEF HostTypes
  <2>11. HostTypes'
    BY <1>1, <1>2, <2>1, <2>9, <2>10 DEF HostTypes
  <2>12. HostStep
    BY <2>1, <2>8, <2>11 DEF HostStep, Grows
  <2>13. TypeOK' /\ TableInv' /\ ZygoteInv'
    BY <1>3, <2>12, TableKept
  <2>14. CaptureInv' /\ OutputIsOwn'
    BY <1>2, <1>6, <2>1 DEF CaptureInv, OutputIsOwn
  <2> QED
    BY <1>3, <2>12, <2>13, <2>14, ListKept DEF IInv
<1> QED
  BY <1>4, <1>5, <1>6

LEMMA PrintSteps == ASSUME IInv, NEW n, FdWriteStd(n) \/ Puts PROVE IInv'
<1>1. pc = "run"
  BY DEF FdWriteStd, Puts, Has, Op
<1>2. CASE FdWriteStd(n)
  BY <1>1, <1>2, CapturesStep DEF FdWriteStd
<1>3. CASE Puts
  BY <1>1, <1>3, CapturesStep DEF Puts
<1> QED
  BY <1>2, <1>3

-----------------------------------------------------------------------------
(* Descriptors: opening, duplicating, listing. *)
LEMMA ListGrows ==
  ASSUME IInv, HostStep, nextFd \notin DOMAIN fds, DOMAIN fds' = DOMAIN fds \cup {nextFd},
         \A n \in DOMAIN fds : fds'[n] = fds[n], seen' = seen, ~fds'[nextFd].iter.loaded
  PROVE  ListInv'
<1>1. ListInv /\ pc # "idle"
  BY DEF IInv, HostStep
<1>2. /\ DOMAIN seen \subseteq DOMAIN fds
      /\ \A n \in DOMAIN fds : fds[n].iter.loaded <=> n \in DOMAIN seen
      /\ \A n \in DOMAIN seen : SeenOK(fds[n].iter, seen[n])
  BY <1>1 DEF ListInv
<1>3. DOMAIN seen' \subseteq DOMAIN fds'
  BY <1>2
<1>4. ASSUME NEW n \in DOMAIN fds' PROVE fds'[n].iter.loaded <=> n \in DOMAIN seen'
  BY <1>2, <1>4
<1>5. ASSUME NEW n \in DOMAIN seen' PROVE SeenOK(fds'[n].iter, seen'[n])
  BY <1>2, <1>5
<1> QED
  BY <1>3, <1>4, <1>5 DEF ListInv

LEMMA DescriptorTyped ==
  ASSUME NEW path, NEW h \in Nat \cup {Closed}, NEW base, NEW inh, NEW root, NEW node
  PROVE  LET d == Descriptor(path, h, base, inh, root, node) IN
         /\ DescriptorOK(d) /\ ~d.iter.loaded
         /\ d.host = h /\ d.base = base /\ d.inh = inh /\ d.root = root /\ d.node = node
<1>1. IterOK(NoIterator) /\ ~NoIterator.loaded
  BY NothingYet
<1> QED
  BY <1>1 DEF DescriptorOK, Descriptor

(* What could not be opened. *)
LEMMA OpenFails ==
  ASSUME IInv, pc = "run", pc' \in {"run", "failed"}, NEW root \in given, NEW path, NEW base, NEW inh,
         fds' = With(fds, nextFd, Descriptor(path, Closed, base, inh, root, "none")), nextFd' = NewFd,
         UNCHANGED <<capture, caller, hostVars>>
  PROVE  IInv'
<1>1. /\ UNCHANGED <<host, open, data>> /\ tree' = tree /\ UNCHANGED <<stdout, printed>>
      /\ seen' = seen /\ given' = given
  BY DEF hostVars, caller, capture
<1>2. TreeTypes(tree')
  BY <1>1 DEF IInv, TypeOK, HostTypes, TreeTypes
<1>3. HostStep
  BY <1>1, <1>2, TreeStep
<1>4. PICK d : d = Descriptor(path, Closed, base, inh, root, "none")
  OBVIOUS
<1>5. DescriptorOK(d) /\ ~d.iter.loaded /\ d.host = Closed /\ d.root = root
  <2>1. PICK h \in Nat \cup {Closed} : h = Closed
    OBVIOUS
  <2>2. PICK node : node = "none"
    OBVIOUS
  <2>3. d = Descriptor(path, h, base, inh, root, node)
    BY <1>4, <2>1, <2>2
  <2>4. DescriptorOK(d) /\ ~d.iter.loaded /\ d.host = h /\ d.root = root
    BY <2>3, DescriptorTyped
  <2> QED
    BY <2>1, <2>4
<1>6. root \in DOMAIN fds
  BY DEF IInv, TableInv
<1>7. Backed(d, host', open') /\ ByRight(d, fds[d.root].inh, host', open')
  BY <1>5 DEF Backed, ByRight
<1>8. given' \subseteq given \cup {nextFd} /\ fds' = With(fds, nextFd, d) /\ d.root \in DOMAIN fds
  BY <1>1, <1>4, <1>5, <1>6
<1>9. /\ TypeOK' /\ TableInv' /\ ZygoteInv'
      /\ nextFd \notin DOMAIN fds /\ DOMAIN fds' = DOMAIN fds \cup {nextFd} /\ fds'[nextFd] = d
      /\ \A n \in DOMAIN fds : fds'[n] = fds[n]
  BY <1>3, <1>5, <1>7, <1>8, TableGrows
<1>10. ListInv'
  BY <1>1, <1>3, <1>5, <1>9, ListGrows
<1> QED
  BY <1>1, <1>3, <1>9, <1>10, CaptureKept DEF IInv

(* What could. *)
LEMMA OpenSucceeds ==
  ASSUME IInv, pc = "run", pc' = "run", NEW root \in given, NEW path, NEW rights, NEW inh, NEW mode, NEW append \in BOOLEAN,
         NEW base, base = EffectiveRights(root, rights), Access(base, mode) # "custom",
         NEW p, HostOpenErrno(p, Access(base, mode), mode) = OK, HostOpen(p, Access(base, mode), mode, append),
         fds' = With(fds, nextFd, Descriptor(path, LowestFree, base, inh, root, Last(open').node)), nextFd' = NewFd,
         given' = given \cup {nextFd}, seen' = seen, UNCHANGED capture
  PROVE  IInv'
<1>1. /\ HostTypes /\ TreeTypes(tree) /\ data \in [Files -> Seq(Nat)] /\ open \in Seq(OpenFile) /\ Len(open) \in Nat
      /\ root \in DOMAIN fds
  BY LenProperties DEF IInv, TypeOK, HostTypes, TreeTypes, TableInv
<1>2. PICK access : access = Access(base, mode)
  OBVIOUS
<1>3. access \in {"r", "w", "rw"} /\ (access # "r" => Write \in base)
  BY <1>2, AccessFacts
<1>4. ~Exhausted /\ (p \notin DOMAIN tree => Free(Files) # {})
  BY DEF HostOpenErrno, OK
<1>5. PICK node : node = IF p \in DOMAIN tree THEN tree[p] ELSE CHOOSE i \in Free(Files) : TRUE
  OBVIOUS
<1>6. node \in Nodes
  <2>1. CASE p \in DOMAIN tree
    BY <2>1, <1>1, <1>5 DEF TreeTypes
  <2>2. CASE p \notin DOMAIN tree
    <3>1. node \in Free(Files)
      BY <2>2, <1>4, <1>5
    <3> QED
      BY <3>1 DEF Free, Nodes
  <2> QED
    BY <2>1, <2>2
<1>7. PICK f : f = [node |-> node, offset |-> 0, access |-> access, append |-> append]
  OBVIOUS
<1>8. f \in OpenFile
  BY <1>3, <1>6, <1>7 DEF OpenFile
<1>9. /\ host' = With(host, LowestFree, Len(open) + 1) /\ open' = Append(open, f) /\ tree' = With(tree, p, node)
      /\ data' = IF node \in Files /\ (mode = "trunc" \/ p \notin DOMAIN tree) THEN [data EXCEPT ![node] = <<>>] ELSE data
  BY <1>2, <1>5, <1>7 DEF HostOpen
<1>10. Continues(open, open') /\ Len(open') = Len(open) + 1 /\ Last(open') = f /\ open'[Len(open) + 1] = f
  BY <1>1, <1>8, <1>9, AppendContinues, AppendOpen
<1>11. TreeTypes(tree')
  BY <1>1, <1>6, <1>9, TreeWith
<1>12. data' \in [Files -> Seq(Nat)]
  <2>1. <<>> \in Seq(Nat)
    OBVIOUS
  <2> QED
    BY <2>1, <1>1, <1>9
<1>13. LowestFree \in Nat /\ LowestFree \notin DOMAIN host /\ LowestFree # Closed
  BY <1>1, <1>4, LowestFreeFacts
<1>14. Len(open) + 1 \in Nat /\ Len(open) + 1 > 0 /\ Len(open) + 1 <= Len(open')
  BY <1>1, <1>10
<1>15. HostTypes' /\ Grows(host, host') /\ host'[LowestFree] = Len(open) + 1 /\ LowestFree \in DOMAIN host'
  BY <1>1, <1>9, <1>10, <1>11, <1>12, <1>13, <1>14, HostWith
<1>16. HostStep
  BY <1>10, <1>15 DEF HostStep
<1>17. PICK d : d = Descriptor(path, LowestFree, base, inh, root, f.node)
  OBVIOUS
<1>18. DescriptorOK(d) /\ ~d.iter.loaded /\ d.host = LowestFree /\ d.root = root /\ d.base = base /\ d.node = f.node
  BY <1>13, <1>17, DescriptorTyped
<1>19. f.access = access
  BY <1>7
<1>20. Write \in base => Write \in fds[root].inh
  BY DEF EffectiveRights
<1>21. Backed(d, host', open') /\ ByRight(d, fds[d.root].inh, host', open')
  BY <1>3, <1>10, <1>15, <1>18, <1>19, <1>20 DEF Backed, ByRight
<1>22. given' \subseteq given \cup {nextFd} /\ fds' = With(fds, nextFd, d) /\ d.root \in DOMAIN fds
  BY <1>1, <1>10, <1>17, <1>18
<1>23. /\ TypeOK' /\ TableInv' /\ ZygoteInv'
       /\ nextFd \notin DOMAIN fds /\ DOMAIN fds' = DOMAIN fds \cup {nextFd} /\ fds'[nextFd] = d
       /\ \A n \in DOMAIN fds : fds'[n] = fds[n]
  BY <1>16, <1>18, <1>21, <1>22, TableGrows
<1>24. ListInv'
  BY <1>16, <1>18, <1>23, ListGrows
<1>25. UNCHANGED <<stdout, printed>>
  BY DEF capture
<1> QED
  BY <1>16, <1>23, <1>24, <1>25, CaptureKept DEF IInv

LEMMA PathOpenStep == ASSUME IInv, NEW root \in given, NEW o, PathOpen(root, o) PROVE IInv'
<1>1. pc = "run" /\ UNCHANGED capture /\ OpenFileDescriptor(root, o)
  BY DEF PathOpen, Has, Op
<1>2. PICK path, base, inh, mode :
        path = FullPath(root, o.rel) /\ base = EffectiveRights(root, o.base)
        /\ inh = EffectiveRights(root, o.inh) /\ mode = OpenMode(o.flags)
  OBVIOUS
<1>3. PICK access, errno : access = Access(base, mode) /\ errno = OpenErrno(path, access, mode)
  OBVIOUS
<1>4. nextFd' = NewFd
  BY <1>1 DEF OpenFileDescriptor
<1>5. CASE access = "custom" \/ ~Known(errno)
  <2>1. /\ pc' = "failed" /\ fds' = With(fds, nextFd, Descriptor(path, Closed, base, inh, root, "none"))
        /\ UNCHANGED <<caller, hostVars>>
    BY <1>1, <1>2, <1>3, <1>5 DEF OpenFileDescriptor, Throws
  <2> QED
    BY <1>1, <1>4, <2>1, OpenFails
<1>6. CASE ~(access = "custom" \/ ~Known(errno)) /\ errno # OK
  <2>1. /\ pc' = pc /\ fds' = With(fds, nextFd, Descriptor(path, Closed, base, inh, root, "none"))
        /\ UNCHANGED <<caller, hostVars>>
    BY <1>1, <1>2, <1>3, <1>6 DEF OpenFileDescriptor
  <2> QED
    BY <1>1, <1>4, <2>1, OpenFails
<1>7. CASE ~(access = "custom" \/ ~Known(errno)) /\ errno = OK
  <2>1. PICK append \in BOOLEAN : append = WasiFdFlagsToLinux(o.fdFlags)
    BY Boolean
  <2>2. /\ HostOpen(RealPath(path), access, mode, append)
        /\ fds' = With(fds, nextFd, Descriptor(path, LowestFree, base, inh, root, Last(open').node))
        /\ given' = given \cup {nextFd} /\ UNCHANGED <<pc, seen>>
    BY <1>1, <1>2, <1>3, <1>7, <2>1 DEF OpenFileDescriptor
  <2>3. HostOpenErrno(RealPath(path), access, mode) = OK
    BY <1>3, <1>7 DEF OpenErrno
  <2> QED
    BY <1>1, <1>2, <1>3, <1>4, <1>7, <2>2, <2>3, OpenSucceeds
<1> QED
  BY <1>5, <1>6, <1>7

-----------------------------------------------------------------------------
LEMMA ListCopies ==
  ASSUME IInv, HostStep, NEW n \in DOMAIN fds, nextFd \notin DOMAIN fds, DOMAIN fds' = DOMAIN fds \cup {nextFd},
         \A m \in DOMAIN fds : fds'[m] = fds[m], fds'[nextFd].iter = fds[n].iter,
         seen' = IF n \in DOMAIN seen THEN With(seen, nextFd, seen[n]) ELSE seen
  PROVE  ListInv'
<1>1. ListInv /\ pc # "idle"
  BY DEF IInv, HostStep
<1>2. /\ DOMAIN seen \subseteq DOMAIN fds
      /\ \A m \in DOMAIN fds : fds[m].iter.loaded <=> m \in DOMAIN seen
      /\ \A m \in DOMAIN seen : SeenOK(fds[m].iter, seen[m])
  BY <1>1 DEF ListInv
<1>3. CASE n \in DOMAIN seen
  <2>1. /\ DOMAIN seen' = DOMAIN seen \cup {nextFd} /\ seen'[nextFd] = seen[n]
        /\ \A m \in DOMAIN seen : seen'[m] = seen[m]
    BY <1>2, <1>3 DEF With
  <2>2. DOMAIN seen' \subseteq DOMAIN fds'
    BY <1>2, <2>1
  <2>3. ASSUME NEW m \in DOMAIN fds' PROVE fds'[m].iter.loaded <=> m \in DOMAIN seen'
    BY <1>2, <1>3, <2>1, <2>3
  <2>4. ASSUME NEW m \in DOMAIN seen' PROVE SeenOK(fds'[m].iter, seen'[m])
    <3>1. CASE m = nextFd
      BY <1>2, <1>3, <2>1, <3>1
    <3>2. CASE m # nextFd
      <4>1. m \in DOMAIN seen /\ m \in DOMAIN fds
        BY <1>2, <2>1, <2>4, <3>2
      <4> QED
        BY <1>2, <2>1, <4>1
    <3> QED
      BY <3>1, <3>2
  <2> QED
    BY <2>2, <2>3, <2>4 DEF ListInv
<1>4. CASE n \notin DOMAIN seen
  <2>1. seen' = seen /\ ~fds'[nextFd].iter.loaded
    BY <1>2, <1>4
  <2> QED
    BY <2>1, ListGrows
<1> QED
  BY <1>3, <1>4

LEMMA DuplicateTyped ==
  ASSUME NEW d, DescriptorOK(d), NEW h \in Nat \cup {Closed}
  PROVE  /\ DescriptorOK(Duplicate(d, h)) /\ Duplicate(d, h).host = h /\ Duplicate(d, h).node = d.node
         /\ Duplicate(d, h).base = d.base /\ Duplicate(d, h).inh = d.inh /\ Duplicate(d, h).root = d.root
         /\ Duplicate(d, h).iter = d.iter
<1>1. PICK p, b, i, it, r, n : d = [path |-> p, host |-> d.host, base |-> b, inh |-> i, iter |-> it, root |-> r, node |-> n]
  BY DEF DescriptorOK
<1>2. Duplicate(d, h) = [path |-> p, host |-> h, base |-> b, inh |-> i, iter |-> it, root |-> r, node |-> n]
  BY <1>1 DEF Duplicate
<1>3. IterOK(d.iter)
  BY DEF DescriptorOK
<1>4. d.path = p /\ d.base = b /\ d.inh = i /\ d.iter = it /\ d.root = r /\ d.node = n
  BY <1>1
<1> QED
  BY <1>2, <1>3, <1>4 DEF DescriptorOK

LEMMA DupStep == ASSUME IInv, NEW n \in given, Dup(n) PROVE IInv'
<1>1. /\ pc = "run" /\ pc' = "run" /\ UNCHANGED <<capture, open, tree, data>> /\ FileSystemDup(n)
      /\ given' = given \cup {nextFd}
      /\ seen' = IF n \in DOMAIN seen THEN With(seen, nextFd, seen[n]) ELSE seen
  BY DEF Dup, Has, Op
<1>2. /\ HostTypes /\ TreeTypes(tree) /\ data \in [Files -> Seq(Nat)] /\ open \in Seq(OpenFile) /\ Len(open) \in Nat
      /\ n \in DOMAIN fds
  BY <1>1, LenProperties DEF IInv, TypeOK, HostTypes, TreeTypes, TableInv
<1>3. /\ DescriptorOK(fds[n]) /\ fds[n].root \in DOMAIN fds
      /\ Backed(fds[n], host, open) /\ ByRight(fds[n], fds[fds[n].root].inh, host, open)
  BY <1>2 DEF IInv, TypeOK, TableTypes, TableInv
<1>4. PICK h : h = IF Exhausted \/ fds[n].host = Closed THEN Closed ELSE LowestFree
  OBVIOUS
<1>5. PICK d : d = Duplicate(fds[n], h)
  OBVIOUS
<1>6. /\ nextFd' = NewFd /\ fds' = With(fds, nextFd, d)
      /\ host' = IF h = Closed THEN host ELSE With(host, h, host[fds[n].host])
  BY <1>1, <1>4, <1>5 DEF FileSystemDup
<1>7. HostStep /\ h \in Nat \cup {Closed} /\ Backed(d, host', open') /\ ByRight(d, fds[fds[n].root].inh, host', open')
  <2>1. CASE h = Closed
    <3>1. UNCHANGED <<host, open, data>> /\ TreeTypes(tree')
      BY <1>1, <1>2, <1>6, <2>1
    <3>2. HostStep
      BY <1>1, <3>1, TreeStep
    <3>3. d.host = Closed
      <4>1. h \in Nat \cup {Closed}
        BY <2>1
      <4>2. Duplicate(fds[n], h).host = h
        BY <1>3, <4>1, DuplicateTyped
      <4> QED
        BY <1>5, <2>1, <4>2
    <3> QED
      BY <2>1, <3>2, <3>3 DEF Backed, ByRight
  <2>2. CASE h # Closed
    <3>1. ~Exhausted /\ fds[n].host # Closed /\ h = LowestFree
      BY <1>4, <2>2
    <3>2. h \in Nat /\ h \notin DOMAIN host
      BY <1>2, <3>1, LowestFreeFacts
    <3>3. fds[n].host \in DOMAIN host /\ open[host[fds[n].host]].node = fds[n].node
      BY <1>3, <3>1 DEF Backed
    <3>4. PICK k \in 1..Len(open) : k = host[fds[n].host]
      BY <1>2, <3>3 DEF HostTypes
    <3>5. host' = With(host, h, k) /\ open' = open /\ tree' = tree /\ data' = data
      BY <1>1, <1>6, <2>2, <3>4
    <3>6. Continues(open, open) /\ k \in Nat /\ k > 0 /\ k <= Len(open)
      BY <1>2, <3>4, SameContinues
    <3>7. HostTypes' /\ Grows(host, host') /\ host'[h] = k /\ h \in DOMAIN host'
      BY <1>2, <3>2, <3>5, <3>6, HostWith
    <3>8. HostStep
      BY <1>1, <3>5, <3>6, <3>7 DEF HostStep
    <3>9. /\ d.host = h /\ d.node = fds[n].node /\ d.base = fds[n].base
      <4>1. h \in Nat \cup {Closed}
        BY <3>2
      <4>2. /\ Duplicate(fds[n], h).host = h /\ Duplicate(fds[n], h).node = fds[n].node
            /\ Duplicate(fds[n], h).base = fds[n].base
        BY <1>3, <4>1, DuplicateTyped
      <4> QED
        BY <1>5, <4>2
    <3>10. open[k].access # "r" => Write \in fds[n].base \cap fds[fds[n].root].inh
      BY <1>3, <3>1, <3>4 DEF ByRight
    <3> QED
      BY <3>2, <3>3, <3>4, <3>5, <3>7, <3>8, <3>9, <3>10 DEF Backed, ByRight
  <2> QED
    BY <2>1, <2>2
<1>8. DescriptorOK(d) /\ d.root = fds[n].root /\ d.iter = fds[n].iter
  BY <1>3, <1>5, <1>7, DuplicateTyped
<1>9. given' \subseteq given \cup {nextFd} /\ d.root \in DOMAIN fds /\ ByRight(d, fds[d.root].inh, host', open')
  BY <1>1, <1>3, <1>7, <1>8
<1>10. /\ TypeOK' /\ TableInv' /\ ZygoteInv'
       /\ nextFd \notin DOMAIN fds /\ DOMAIN fds' = DOMAIN fds \cup {nextFd} /\ fds'[nextFd] = d
       /\ \A m \in DOMAIN fds : fds'[m] = fds[m]
  BY <1>6, <1>7, <1>8, <1>9, TableGrows
<1>11. ListInv'
  BY <1>1, <1>2, <1>7, <1>8, <1>10, ListCopies
<1>12. UNCHANGED <<stdout, printed>>
  BY <1>1 DEF capture
<1> QED
  BY <1>7, <1>10, <1>11, <1>12, CaptureKept DEF IInv

(* fd_readdir: what the function sees is what the iterator passes. *)
LEMMA Passed ==
  ASSUME NEW it, IterOK(it), NEW e, SeenOK(it, e), NEW len \in Nat, NEW j, j = [it EXCEPT !.idx = IterBack(it, len)]
  PROVE  /\ IterOK(j) /\ j.loaded = it.loaded
         /\ SeenOK(j, [names |-> e.names \o Fitting(it, len), ended |-> BytesCopied(it, len) < len])
<1>1. /\ it.contents \in Seq(Range(it.contents)) /\ it.idx \in 0..Len(it.contents) /\ Len(it.contents) \in Nat
      /\ it = [loaded |-> it.loaded, contents |-> it.contents, idx |-> it.idx]
  BY LenProperties DEF IterOK, IsSeq
<1>2. PICK n \in 0..(Len(it.contents) - it.idx) :
        /\ Fitting(it, len) = SubSeq(it.contents, it.idx + 1, it.idx + n)
        /\ Len(Fitting(it, len)) = n
        /\ Fitting(it, len) = Rest(it) => it.idx + n = Len(it.contents)
  BY FittingFacts
<1>3. IterBack(it, len) = it.idx + n
  <2>1. it.idx \in Nat /\ n \in Nat /\ Len(Fitting(it, len)) = n
    BY <1>1, <1>2
  <2>2. CASE IsBufferFull(it, len)
    <3>1. IdxTaken(it, len) = it.idx + Len(Fitting(it, len)) + 1
      BY <2>2 DEF IdxTaken
    <3>2. IterBack(it, len) = IdxTaken(it, len) - 1
      BY <2>2 DEF IterBack
    <3> QED
      BY <2>1, <3>1, <3>2
  <2>3. CASE ~IsBufferFull(it, len)
    <3>1. IdxTaken(it, len) = it.idx + Len(Fitting(it, len)) + 0
      BY <2>3 DEF IdxTaken
    <3>2. IterBack(it, len) = IdxTaken(it, len) - 0
      BY <2>3 DEF IterBack
    <3> QED
      BY <2>1, <3>1, <3>2
  <2> QED
    BY <2>2, <2>3
<1>4. j = [loaded |-> it.loaded, contents |-> it.contents, idx |-> it.idx + n]
  BY <1>1, <1>3
<1>5. j.loaded = it.loaded /\ j.contents = it.contents /\ j.idx = it.idx + n /\ it.idx + n \in 0..Len(it.contents)
  <2>1. j.loaded = it.loaded /\ j.contents = it.contents /\ j.idx = it.idx + n
    BY <1>4
  <2>2. it.idx \in Nat /\ n \in Nat /\ it.idx + n <= Len(it.contents)
    BY <1>1, <1>2
  <2>3. it.idx + n \in 0..Len(it.contents)
    BY <2>2, <1>1
  <2> QED
    BY <2>1, <2>3
<1>6. IterOK(j)
  BY <1>1, <1>4, <1>5 DEF IterOK, IsSeq
<1>7. e.names \o Fitting(it, len) = SubSeq(it.contents, 1, it.idx + n)
  <2>1. e.names = SubSeq(it.contents, 1, it.idx)
    BY DEF SeenOK
  <2>2. SubSeq(it.contents, 1, it.idx) \o SubSeq(it.contents, it.idx + 1, it.idx + n) = SubSeq(it.contents, 1, it.idx + n)
    BY <1>1, JoinedSubSeqs
  <2> QED
    BY <1>2, <2>1, <2>2
<1>8. BytesCopied(it, len) < len => it.idx + n = Len(it.contents)
  <2>1. CASE IsBufferFull(it, len)
    BY <2>1 DEF BytesCopied
  <2>2. CASE ~IsBufferFull(it, len)
    BY <2>2, <1>2 DEF IsBufferFull
  <2> QED
    BY <2>1, <2>2
<1>9. PICK g : g = [names |-> e.names \o Fitting(it, len), ended |-> BytesCopied(it, len) < len]
  OBVIOUS
<1>10. /\ g = [names |-> g.names, ended |-> g.ended] /\ g.names = e.names \o Fitting(it, len)
       /\ g.ended <=> BytesCopied(it, len) < len
  BY <1>9
<1>11. SeenOK(j, g)
  BY <1>5, <1>7, <1>8, <1>10 DEF SeenOK
<1> QED
  BY <1>5, <1>6, <1>9, <1>11

LEMMA SameIter ==
  ASSUME NEW d, DescriptorOK(d), NEW it, IterOK(it), NEW c, c = [d EXCEPT !.iter = it]
  PROVE  /\ DescriptorOK(c) /\ c.iter = it /\ c.host = d.host /\ c.node = d.node
         /\ c.base = d.base /\ c.inh = d.inh /\ c.root = d.root
<1>1. PICK p, h, b, i, j, r, n : d = [path |-> p, host |-> h, base |-> b, inh |-> i, iter |-> j, root |-> r, node |-> n]
  BY DEF DescriptorOK
<1>2. c = [path |-> p, host |-> h, base |-> b, inh |-> i, iter |-> it, root |-> r, node |-> n]
  BY <1>1
<1>3. d.host \in Nat \cup {Closed}
  BY DEF DescriptorOK
<1>4. d.path = p /\ d.host = h /\ d.base = b /\ d.inh = i /\ d.root = r /\ d.node = n
  BY <1>1
<1> QED
  BY <1>2, <1>3, <1>4 DEF DescriptorOK

(* A step that passes entries of the directory of one number. *)
LEMMA ListStep ==
  ASSUME IInv, pc = "run", pc' = pc, NEW n \in DOMAIN fds, NEW it, IterOK(it), it.loaded, NEW e, SeenOK(it, e),
         NEW d, d = [fds[n] EXCEPT !.iter = it], fds' = [fds EXCEPT ![n] = d], seen' = With(seen, n, e),
         UNCHANGED <<nextFd, capture, given, hostVars>>
  PROVE  IInv'
<1>1. /\ TypeOK /\ TableInv /\ ListInv /\ CaptureInv /\ ZygoteInv /\ HostTypes /\ TableTypes
      /\ UNCHANGED <<host, open, tree, data, stdout, printed, given, nextFd>>
  BY DEF IInv, TypeOK, hostVars, capture
<1>2. DescriptorOK(fds[n]) /\ nextFd \in Nat /\ FirstFd <= nextFd /\ fds = [m \in 0..(nextFd - 1) |-> fds[m]]
  BY <1>1 DEF TableTypes
<1>3. /\ DescriptorOK(d) /\ d.iter = it /\ d.host = fds[n].host /\ d.node = fds[n].node
      /\ d.base = fds[n].base /\ d.inh = fds[n].inh /\ d.root = fds[n].root
  BY <1>2, SameIter
<1>4. DOMAIN fds' = DOMAIN fds /\ fds'[n] = d /\ \A m \in DOMAIN fds : m # n => fds'[m] = fds[m]
  OBVIOUS
<1>5. fds' = [m \in 0..(nextFd' - 1) |-> fds'[m]]
  BY <1>1, <1>2, <1>4
<1>6. \A m \in DOMAIN fds' : DescriptorOK(fds'[m])
  BY <1>1, <1>3, <1>4 DEF TableTypes
<1>7. HostTypes'
  BY <1>1 DEF HostTypes
<1>8. TypeOK'
  BY <1>1, <1>2, <1>5, <1>6, <1>7 DEF TypeOK, TableTypes
<1>9. \A m \in DOMAIN fds : /\ fds'[m].root = fds[m].root /\ fds'[m].inh = fds[m].inh /\ fds'[m].host = fds[m].host
                            /\ fds'[m].node = fds[m].node /\ fds'[m].base = fds[m].base
  BY <1>3, <1>4
<1>10. ASSUME NEW m \in DOMAIN fds'
       PROVE  /\ fds'[m].root \in DOMAIN fds' /\ Backed(fds'[m], host', open')
              /\ ByRight(fds'[m], fds'[fds'[m].root].inh, host', open')
  <2>1. /\ m \in DOMAIN fds /\ fds[m].root \in DOMAIN fds /\ Backed(fds[m], host, open)
        /\ ByRight(fds[m], fds[fds[m].root].inh, host, open)
    BY <1>1, <1>4, <1>10 DEF TableInv
  <2>2. fds'[m].root = fds[m].root /\ fds'[fds[m].root].inh = fds[fds[m].root].inh
    BY <1>9, <2>1
  <2>3. Backed(fds'[m], host', open')
    BY <1>1, <1>9, <2>1 DEF Backed
  <2>4. ByRight(fds'[m], fds[fds[m].root].inh, host', open')
    BY <1>1, <1>9, <2>1 DEF ByRight
  <2> QED
    BY <1>4, <2>1, <2>2, <2>3, <2>4
<1>11. TableInv'
  BY <1>1, <1>4, <1>10 DEF TableInv
<1>12. ZygoteInv'
  BY <1>1 DEF ZygoteInv
<1>13. CaptureInv' /\ OutputIsOwn'
  BY <1>1 DEF CaptureInv, OutputIsOwn
<1>14. /\ DOMAIN seen \subseteq DOMAIN fds
       /\ \A m \in DOMAIN fds : fds[m].iter.loaded <=> m \in DOMAIN seen
       /\ \A m \in DOMAIN seen : SeenOK(fds[m].iter, seen[m])
  BY <1>1 DEF ListInv
<1>15. /\ DOMAIN seen' = DOMAIN seen \cup {n} /\ seen'[n] = e /\ \A m \in DOMAIN seen : m # n => seen'[m] = seen[m]
  BY DEF With
<1>16. DOMAIN seen' \subseteq DOMAIN fds'
  BY <1>4, <1>14, <1>15
<1>17. ASSUME NEW m \in DOMAIN fds' PROVE fds'[m].iter.loaded <=> m \in DOMAIN seen'
  BY <1>3, <1>4, <1>14, <1>15, <1>17
<1>18. ASSUME NEW m \in DOMAIN seen' PROVE SeenOK(fds'[m].iter, seen'[m])
  <2>1. CASE m = n
    <3>1. fds'[m].iter = it /\ seen'[m] = e
      BY <2>1, <1>3, <1>4, <1>15
    <3> QED
      BY <3>1
  <2>2. CASE m # n
    <3>1. m \in DOMAIN seen /\ m \in DOMAIN fds
      BY <1>14, <1>15, <1>18, <2>2
    <3> QED
      BY <3>1, <2>2, <1>4, <1>14, <1>15
  <2> QED
    BY <2>1, <2>2
<1>19. ListInv'
  BY <1>16, <1>17, <1>18 DEF ListInv
<1> QED
  BY <1>8, <1>11, <1>12, <1>13, <1>19 DEF IInv

LEMMA FdReaddirStep == ASSUME IInv, NEW n \in given, NEW len \in Buffers, FdReaddir(n, len) PROVE IInv'
<1>1. pc = "run" /\ UNCHANGED <<nextFd, capture, given, hostVars>>
  BY DEF FdReaddir, Has, Op
<1>2. HostTypes /\ TableTypes /\ n \in DOMAIN fds /\ ListInv /\ len \in Nat
  BY <1>1, FilesAssumption DEF IInv, TypeOK, TableInv
<1>3. CASE pc' = "failed" /\ UNCHANGED <<fds, seen>>
  BY <1>1, <1>3, QuietSteps DEF Same, table, caller
<1>4. CASE /\ fds' = [fds EXCEPT ![n].iter = [LoadDirContents(fds[n]) EXCEPT !.idx = IterBack(LoadDirContents(fds[n]), len)]]
           /\ seen' = With(seen, n, [names |-> Seen(n).names \o Fitting(LoadDirContents(fds[n]), len),
                                     ended |-> BytesCopied(LoadDirContents(fds[n]), len) < len])
           /\ pc' = pc
  <2>1. PICK it : it = LoadDirContents(fds[n])
    OBVIOUS
  <2>2. PICK j : j = [it EXCEPT !.idx = IterBack(it, len)]
    OBVIOUS
  <2>3. PICK e : e = [names |-> Seen(n).names \o Fitting(it, len), ended |-> BytesCopied(it, len) < len]
    OBVIOUS
  <2>4. IterOK(fds[n].iter)
    BY <1>2 DEF TableTypes, DescriptorOK
  <2>5. IterOK(it) /\ it.loaded /\ (~fds[n].iter.loaded => it.idx = 0) /\ (fds[n].iter.loaded => it = fds[n].iter)
    BY <1>2, <2>1, <2>4, Loaded
  <2>6. SeenOK(it, Seen(n))
    <3>1. /\ DOMAIN seen \subseteq DOMAIN fds
          /\ fds[n].iter.loaded <=> n \in DOMAIN seen
          /\ \A m \in DOMAIN seen : SeenOK(fds[m].iter, seen[m])
      BY <1>1, <1>2 DEF ListInv
    <3>2. CASE n \in DOMAIN seen
      BY <3>1, <3>2, <2>5 DEF Seen
    <3>3. CASE n \notin DOMAIN seen
      <4>1. Seen(n) = [names |-> <<>>, ended |-> FALSE]
        BY <3>3 DEF Seen
      <4>2. it.idx = 0
        BY <3>1, <3>3, <2>5
      <4>3. SubSeq(it.contents, 1, 0) = <<>>
        BY SubSeqEmpty
      <4> QED
        BY <4>1, <4>2, <4>3 DEF SeenOK
    <3> QED
      BY <3>2, <3>3
  <2>7. IterOK(j) /\ j.loaded = it.loaded /\ SeenOK(j, e)
    BY <1>2, <2>2, <2>3, <2>5, <2>6, Passed
  <2>8. PICK d : d = [fds[n] EXCEPT !.iter = j]
    OBVIOUS
  <2>9. fds' = [fds EXCEPT ![n] = d] /\ seen' = With(seen, n, e)
    BY <1>4, <2>1, <2>2, <2>3, <2>8
  <2>10. j.loaded /\ IterOK(j) /\ SeenOK(j, e) /\ pc' = pc /\ n \in DOMAIN fds
    BY <1>2, <1>4, <2>5, <2>7
  <2> QED
    BY <1>1, <2>8, <2>9, <2>10, ListStep
<1>5. \/ pc' = "failed" /\ UNCHANGED <<fds, seen>>
      \/ /\ fds' = [fds EXCEPT ![n].iter = [LoadDirContents(fds[n]) EXCEPT !.idx = IterBack(LoadDirContents(fds[n]), len)]]
         /\ seen' = With(seen, n, [names |-> Seen(n).names \o Fitting(LoadDirContents(fds[n]), len),
                                   ended |-> BytesCopied(LoadDirContents(fds[n]), len) < len])
         /\ pc' = pc
  BY DEF FdReaddir, Throws
<1> QED
  BY <1>3, <1>4, <1>5

-----------------------------------------------------------------------------
(* Calls begin and end with the descriptors of the zygote. *)
LEMMA ZygoteNumbers == Zygote = 0..4 /\ IsFiniteSet(Zygote) /\ FirstFd = 5
<1>1. Zygote = 0..4
  BY DEF Zygote, Std, Preopened
<1>2. IsFiniteSet(0..4)
  <2>1. PICK a \in Int, b \in Int : a = 0 /\ b = 4
    OBVIOUS
  <2>2. IsFiniteSet(a..b)
    BY FS_Interval
  <2> QED
    BY <2>1, <2>2
<1> QED
  BY <1>1, <1>2 DEF FirstFd

LEMMA Prepared ==
  ASSUME NEW n \in Zygote
  PROVE  /\ DOMAIN PrepareFilesystem = Zygote
         /\ DescriptorOK(PrepareFilesystem[n]) /\ ~PrepareFilesystem[n].iter.loaded
         /\ PrepareFilesystem[n].host = n /\ PrepareFilesystem[n].root = n
         /\ PrepareFilesystem[n].base = Rights /\ PrepareFilesystem[n].inh = Rights
         /\ PrepareFilesystem[n].node = IF n \in Std THEN "tty" ELSE Tree[RootPath]
<1>1. n \in Nat \cup {Closed}
  BY ZygoteNumbers
<1>2. DOMAIN PrepareFilesystem = Zygote
  BY DEF PrepareFilesystem, Zygote
<1>3. CASE n \in Std
  <2>1. PICK path : path = <<"dev">>
    OBVIOUS
  <2>2. PICK node : node = "tty"
    OBVIOUS
  <2>3. PICK d : d = PrepareFilesystem[n]
    OBVIOUS
  <2>4. d = Descriptor(path, n, Rights, Rights, n, node)
    BY <1>3, <2>1, <2>2, <2>3 DEF PrepareFilesystem, StdFactory, Zygote
  <2>5. /\ DescriptorOK(d) /\ ~d.iter.loaded /\ d.host = n /\ d.root = n
        /\ d.base = Rights /\ d.inh = Rights /\ d.node = node
    BY <1>1, <2>4, DescriptorTyped
  <2> QED
    BY <1>2, <1>3, <2>2, <2>3, <2>5
<1>4. CASE n \notin Std
  <2>1. PICK path : path = <<>>
    OBVIOUS
  <2>2. PICK node : node = Tree[RootPath]
    OBVIOUS
  <2>3. PICK d : d = PrepareFilesystem[n]
    OBVIOUS
  <2>4. d = Descriptor(path, n, Rights, Rights, n, node)
    BY <1>4, <2>1, <2>2, <2>3 DEF PrepareFilesystem, CreatePreopenedFileDescriptor, Zygote
  <2>5. /\ DescriptorOK(d) /\ ~d.iter.loaded /\ d.host = n /\ d.root = n
        /\ d.base = Rights /\ d.inh = Rights /\ d.node = node
    BY <1>1, <2>4, DescriptorTyped
  <2> QED
    BY <1>2, <1>4, <2>2, <2>3, <2>5
<1> QED
  BY <1>3, <1>4

LEMMA PreparedTable ==
  ASSUME fds = PrepareFilesystem, nextFd = FirstFd, ZygoteInv, pc # "idle" => given \subseteq Zygote
  PROVE  TableTypes /\ TableInv
<1>1. DOMAIN fds = Zygote
  <2>1. 0 \in Zygote
    BY ZygoteNumbers
  <2> QED
    BY <2>1, Prepared
<1>2. fds = [n \in 0..(nextFd - 1) |-> fds[n]]
  <2>1. fds = [n \in Zygote |-> fds[n]] /\ nextFd - 1 = 4
    BY ZygoteNumbers DEF PrepareFilesystem, Zygote
  <2> QED
    BY <2>1, ZygoteNumbers
<1>3. ASSUME NEW n \in DOMAIN fds
      PROVE  /\ DescriptorOK(fds[n]) /\ fds[n].root \in DOMAIN fds
             /\ Backed(fds[n], host, open) /\ ByRight(fds[n], fds[fds[n].root].inh, host, open)
  <2>1. n \in Zygote
    BY <1>1, <1>3
  <2>2. /\ DescriptorOK(fds[n]) /\ fds[n].host = n /\ fds[n].root = n
        /\ fds[n].base = Rights /\ fds[n].inh = Rights
        /\ fds[n].node = IF n \in Std THEN "tty" ELSE Tree[RootPath]
    BY <2>1, Prepared
  <2>3. n \in DOMAIN host /\ host[n] = n + 1 /\ open[n + 1].node = IF n \in Std THEN "tty" ELSE Tree[RootPath]
    BY <2>1 DEF ZygoteInv, StdOK
  <2>4. Backed(fds[n], host, open)
    BY <2>2, <2>3 DEF Backed
  <2>5. Write \in Rights
    BY DEF Rights
  <2> QED
    BY <1>1, <2>1, <2>2, <2>4, <2>5 DEF ByRight
<1>4. TableTypes
  BY <1>2, <1>3, ZygoteNumbers DEF TableTypes
<1> QED
  BY <1>1, <1>3, <1>4 DEF TableInv

LEMMA InitInv == Init => IInv
<1> SUFFICES ASSUME Init PROVE IInv
  OBVIOUS
<1>1. Tree[RootPath] \in Nodes /\ IsFiniteSet(DOMAIN Tree) /\ \A p \in DOMAIN Tree : Tree[p] \in Nodes
  BY FilesAssumption DEF Nodes
<1>2. /\ open = [k \in 1..5 |->
            [node |-> IF k - 1 \in Std THEN "tty" ELSE Tree[RootPath], offset |-> 0,
             access |-> IF k - 1 \in Std THEN "rw" ELSE "r", append |-> FALSE]]
      /\ host = [n \in Zygote |-> n + 1]
  BY DEF Init, FirstFd, Zygote
<1>3. \A k \in 1..5 : open[k] \in OpenFile
  BY <1>1, <1>2 DEF OpenFile
<1>4. open \in Seq(OpenFile) /\ Len(open) = 5 /\ DOMAIN open = 1..5
  <2>1. PICK m \in Nat : m = 5
    OBVIOUS
  <2>2. open \in [1..m -> OpenFile]
    BY <1>2, <1>3, <2>1
  <2>3. open \in Seq(OpenFile) /\ Len(open) = m /\ DOMAIN open = 1..m
    BY <2>2
  <2> QED
    BY <2>1, <2>3
<1>5. host \in [DOMAIN host -> 1..Len(open)] /\ DOMAIN host \subseteq Nat /\ IsFiniteSet(DOMAIN host)
  BY <1>2, <1>4, ZygoteNumbers
<1>6. Tree = [p \in DOMAIN Tree |-> Tree[p]]
  BY FilesAssumption
<1>7. tree \in [DOMAIN tree -> Nodes] /\ IsFiniteSet(DOMAIN tree)
  BY <1>1, <1>6 DEF Init
<1>8. data \in [Files -> Seq(Nat)]
  <2>1. <<0>> \in Seq(Nat)
    OBVIOUS
  <2> QED
    BY <2>1 DEF Init
<1>9. HostTypes
  BY <1>4, <1>5, <1>7, <1>8 DEF HostTypes
<1>10. ASSUME NEW n \in Zygote PROVE StdOK(n, host, open)
  <2>1. n \in 0..4 /\ n + 1 \in 1..5 /\ (n + 1) - 1 = n
    BY ZygoteNumbers
  <2>2. open[n + 1] = [node |-> IF n \in Std THEN "tty" ELSE Tree[RootPath], offset |-> 0,
                       access |-> IF n \in Std THEN "rw" ELSE "r", append |-> FALSE]
    BY <1>2, <2>1
  <2> QED
    BY <1>2, <1>4, <2>1, <2>2 DEF StdOK
<1>11. ZygoteInv
  BY <1>10 DEF ZygoteInv
<1>12. TableTypes /\ TableInv
  BY <1>11, PreparedTable DEF Init
<1>13. CaptureInv /\ ListInv /\ OutputIsOwn
  BY DEF Init, CaptureInv, ListInv, OutputIsOwn
<1> QED
  BY <1>9, <1>11, <1>12, <1>13 DEF IInv, TypeOK, Init

LEMMA StartStep == ASSUME IInv, StartCall PROVE IInv'
<1>1. /\ pc = "idle" /\ pc' = "run" /\ given' = Zygote /\ seen' = [n \in {} |-> 0] /\ printed' = <<>>
      /\ UNCHANGED <<fds, nextFd, stdout, host, open, tree, data>>
  BY DEF StartCall, Zygote, table, hostVars
<1>2. TypeOK /\ TableTypes /\ HostTypes /\ TableInv /\ ZygoteInv /\ CaptureInv
  BY DEF IInv, TypeOK
<1>3. fds = PrepareFilesystem /\ DOMAIN fds = Zygote
  <2>1. 0 \in Zygote
    BY ZygoteNumbers
  <2> QED
    BY <2>1, <1>1, <1>2, Prepared DEF TableInv
<1>4. TypeOK' /\ ZygoteInv'
  BY <1>1, <1>2 DEF TypeOK, TableTypes, HostTypes, ZygoteInv
<1>5. TableInv'
  BY <1>1, <1>2, <1>3 DEF TableInv
<1>6. CaptureInv' /\ OutputIsOwn'
  BY <1>1, <1>2 DEF CaptureInv, OutputIsOwn
<1>7. \A n \in Zygote : ~fds[n].iter.loaded
  BY <1>3, Prepared
<1>8. ListInv'
  BY <1>1, <1>3, <1>7 DEF ListInv
<1> QED
  BY <1>4, <1>5, <1>6, <1>8 DEF IInv

LEMMA FinishStep == ASSUME IInv, FinishCall PROVE IInv'
<1>1. /\ pc \in {"run", "failed"} /\ pc' = "idle" /\ output' = GetCapturedStdout /\ ClearCapturedStdout
      /\ stdout' = [host |-> 0, written |-> <<>>] /\ fds' = PrepareFilesystem /\ nextFd' = FirstFd
      /\ result'.errno = (IF pc = "failed" THEN "throws" ELSE OK)
      /\ UNCHANGED <<printed, open, tree, data>>
  BY DEF FinishCall, Tells
<1>2. HostTypes /\ ZygoteInv /\ CaptureInv
  BY DEF IInv, TypeOK
<1>3. output' = stdout.written
  BY <1>1 DEF GetCapturedStdout, ReadFromStart
<1>4. PICK S : S \subseteq DOMAIN host /\ Zygote \subseteq S /\ host' = [x \in S |-> host[x]]
  <2>1. \A n \in Zygote : n \in DOMAIN host
    BY <1>2 DEF ZygoteInv, StdOK
  <2>2. CASE stdout.written = <<>>
    <3>1. host' = host /\ host = [x \in DOMAIN host |-> host[x]]
      BY <1>1, <1>2, <2>2 DEF ClearCapturedStdout, HostTypes
    <3> QED
      BY <2>1, <3>1
  <2>3. CASE stdout.written # <<>>
    <3>1. host' = [x \in DOMAIN host \ {stdout.host} |-> host[x]]
      BY <1>1, <2>3 DEF ClearCapturedStdout, Restrict
    <3>2. stdout.host \notin Zygote
      BY <1>2, <2>3 DEF CaptureInv
    <3> QED
      BY <2>1, <3>1, <3>2
  <2> QED
    BY <2>2, <2>3
<1>5. host' \in [DOMAIN host' -> 1..Len(open)] /\ DOMAIN host' \subseteq Nat /\ IsFiniteSet(DOMAIN host')
  <2>1. IsFiniteSet(S)
    BY <1>2, <1>4, FS_Subset DEF HostTypes
  <2>2. DOMAIN host' = S
    BY <1>4
  <2> QED
    BY <1>2, <1>4, <2>1, <2>2 DEF HostTypes
<1>6. HostTypes'
  BY <1>1, <1>2, <1>5 DEF HostTypes
<1>7. ZygoteInv'
  <2>1. SUFFICES ASSUME NEW n \in Zygote PROVE StdOK(n, host', open)
    BY <1>1 DEF ZygoteInv
  <2>2. StdOK(n, host, open)
    BY <1>2 DEF ZygoteInv
  <2>3. n \in DOMAIN host' /\ host'[n] = host[n]
    BY <1>4
  <2> QED
    BY <2>2, <2>3 DEF StdOK
<1>8. (TableTypes /\ TableInv)'
  <2>1. (fds = PrepareFilesystem)' /\ (nextFd = FirstFd)' /\ (pc # "idle" => given \subseteq Zygote)'
    BY <1>1 DEF PrepareFilesystem, StdFactory, CreatePreopenedFileDescriptor, Descriptor, FirstFd
  <2> QED
    BY <2>1, <1>7, PreparedTable, PTL
<1>9. CaptureInv'
  BY <1>1 DEF CaptureInv
<1>10. ListInv'
  BY <1>1 DEF ListInv
<1>11. OutputIsOwn'
  <2>1. CASE pc = "run"
    BY <2>1, <1>1, <1>2, <1>3 DEF OutputIsOwn, CaptureInv
  <2>2. CASE pc # "run"
    BY <2>2, <1>1 DEF OutputIsOwn, OK
  <2> QED
    BY <2>1, <2>2
<1> QED
  BY <1>1, <1>6, <1>7, <1>8, <1>9, <1>10, <1>11 DEF IInv, TypeOK

-----------------------------------------------------------------------------
LEMMA UsesStep == ASSUME IInv, NEW n \in given, Uses(n) PROVE IInv'
<1>1. \/ Dup(n) \/ FdClose(n) \/ FdWrite(n) \/ FdRead(n) \/ FdWriteStd(n)
      \/ FdReaddirAgain(n) \/ FdTell(n) \/ FdFilestatGet(n) \/ FdFdstatGet(n) \/ FdAdvise(n)
      \/ \E len \in Buffers : FdReaddir(n, len)
      \/ \E fdFlags \in {{}, {"append"}} : FdFdstatSetFlags(n, fdFlags)
      \/ \E whence \in {"set", "cur", "end"}, by \in {-1, 1} : FdSeek(n, whence, by)
      \/ \E o \in program.opens : PathOpen(n, o)
      \/ \E rel \in program.names : PathFilestatGet(n, rel) \/ PathReadlink(n, rel)
      \/ \E rel \in program.names : PathCreateDirectory(n, rel)
      \/ \E rel \in program.names : PathUnlinkFile(n, rel)
      \/ \E rel \in program.names : \E m \in Preopened, to \in program.names : PathRename(n, rel, m, to)
  BY DEF Uses
<1>2. CASE Dup(n)
  BY <1>2, DupStep
<1>3. CASE FdClose(n)
  BY <1>3, FdCloseStep
<1>4. CASE FdWrite(n)
  BY <1>4, FdWriteStep
<1>5. CASE FdRead(n)
  BY <1>5, FdReadStep
<1>6. CASE FdWriteStd(n)
  BY <1>6, PrintSteps
<1>7. CASE \/ FdReaddirAgain(n) \/ FdTell(n) \/ FdFilestatGet(n) \/ FdFdstatGet(n) \/ FdAdvise(n)
           \/ \E rel \in program.names : PathFilestatGet(n, rel) \/ PathReadlink(n, rel)
  BY <1>7, TellingSteps
<1>8. CASE \E len \in Buffers : FdReaddir(n, len)
  BY <1>8, FdReaddirStep
<1>9. CASE \E fdFlags \in {{}, {"append"}} : FdFdstatSetFlags(n, fdFlags)
  BY <1>9, SetFlagsStep
<1>10. CASE \E whence \in {"set", "cur", "end"}, by \in {-1, 1} : FdSeek(n, whence, by)
  BY <1>10, FdSeekStep
<1>11. CASE \E o \in program.opens : PathOpen(n, o)
  BY <1>11, PathOpenStep
<1>12. CASE \E rel \in program.names : PathCreateDirectory(n, rel)
  BY <1>12, MkdirStep
<1>13. CASE \E rel \in program.names : PathUnlinkFile(n, rel)
  BY <1>13, UnlinkStep
<1>14. CASE \E rel \in program.names : \E m \in Preopened, to \in program.names : PathRename(n, rel, m, to)
  BY <1>14, RenameStep
<1> QED
  BY <1>1, <1>2, <1>3, <1>4, <1>5, <1>6, <1>7, <1>8, <1>9, <1>10, <1>11, <1>12, <1>13, <1>14

LEMMA StutterStep == ASSUME IInv, UNCHANGED vars PROVE IInv'
<1>1. /\ pc' = pc /\ fds' = fds /\ nextFd' = nextFd /\ stdout' = stdout /\ output' = output /\ printed' = printed
      /\ given' = given /\ seen' = seen /\ result' = result /\ host' = host /\ open' = open /\ tree' = tree /\ data' = data
  BY DEF vars, table, capture, caller, hostVars
<1>2. TypeOK /\ TableInv /\ ZygoteInv /\ CaptureInv /\ ListInv /\ OutputIsOwn
  BY DEF IInv
<1>3. TypeOK'
  BY <1>1, <1>2 DEF TypeOK, TableTypes, HostTypes
<1>4. TableInv' /\ ZygoteInv'
  BY <1>1, <1>2 DEF TableInv, ZygoteInv
<1>5. CaptureInv' /\ OutputIsOwn'
  BY <1>1, <1>2 DEF CaptureInv, OutputIsOwn
<1>6. ListInv'
  BY <1>1, <1>2 DEF ListInv
<1> QED
  BY <1>3, <1>4, <1>5, <1>6 DEF IInv

LEMMA NextInv == IInv /\ [Next]_vars => IInv'
<1> SUFFICES ASSUME IInv, [Next]_vars PROVE IInv'
  OBVIOUS
<1>1. CASE StartCall
  BY <1>1, StartStep
<1>2. CASE FinishCall
  BY <1>2, FinishStep
<1>3. CASE Puts
  BY <1>3, PrintSteps
<1>4. CASE UsesMusl
  <2>1. PICK rel \in program.names :
          SMkdir(rel) \/ SUnlink(rel) \/ SAccess(rel) \/ \E to \in program.names : SRename(rel, to)
    BY <1>4 DEF UsesMusl
  <2>2. CASE SMkdir(rel)
    BY <2>2, MkdirStep
  <2>3. CASE SUnlink(rel)
    BY <2>3, UnlinkStep
  <2>4. CASE SAccess(rel)
    BY <2>4, TellingSteps
  <2>5. CASE \E to \in program.names : SRename(rel, to)
    BY <2>5, RenameStep
  <2> QED
    BY <2>1, <2>2, <2>3, <2>4, <2>5
<1>5. CASE \E n \in given : Uses(n)
  BY <1>5, UsesStep
<1>6. CASE \E n \in 3..5 : FdPrestatGet(n)
  BY <1>6, FdPrestatGetStep
<1>7. CASE UNCHANGED vars
  BY <1>7, StutterStep
<1> QED
  BY <1>1, <1>2, <1>3, <1>4, <1>5, <1>6, <1>7 DEF Next

(* The invariant of the files of a function: what its numbers, the host's  *)
(* descriptors, the captured output and the iterators know of each other.  *)
(* (FileSystem, FileDescriptor, io.cpp)                                    *)
THEOREM FilesInvariant == Spec => []IInv
<1>1. Init => IInv
  BY InitInv
<1>2. IInv /\ [Next]_vars => IInv'
  BY NextInv
<1> QED
  BY <1>1, <1>2, PTL DEF Spec

(* A number stands for the file it was opened on, in every call that has   *)
(* it, whatever is opened, duplicated, closed or printed meanwhile, and    *)
(* when the host runs out of descriptors. (openFileDescriptor, dup,        *)
(* wasi_fd_close, clearCapturedStdout)                                     *)
THEOREM NumbersOpenTheirFiles == Spec => []OpensItsFile
<1>1. IInv => OpensItsFile
  <2> SUFFICES ASSUME IInv PROVE OpensItsFile
    OBVIOUS
  <2>1. TableTypes /\ TableInv
    BY DEF IInv, TypeOK
  <2>2. nextFd \notin DOMAIN fds
    BY <2>1 DEF TableTypes
  <2>3. \A n \in DOMAIN fds : fds[n].host # Closed => fds[n].host \in DOMAIN host /\ Opened(n).node = fds[n].node
    BY <2>1 DEF TableInv, Backed, Opened
  <2> QED
    BY <2>1, <2>2, <2>3 DEF OpensItsFile, TableInv
<1> QED
  BY <1>1, FilesInvariant, PTL

(* Directories are listed completely and without repetition, with buffers  *)
(* of any length and through duplicates. (copyDirentsToWasiBuffer)         *)
THEOREM ListingsComplete == Spec => []ListingComplete
<1>1. IInv => ListingComplete
  <2> SUFFICES ASSUME IInv, pc # "idle", NEW n \in DOMAIN seen
               PROVE  /\ IsPrefix(seen[n].names, fds[n].iter.contents)
                      /\ seen[n].ended => seen[n].names = fds[n].iter.contents
    BY DEF ListingComplete
  <2>1. PICK it : it = fds[n].iter
    OBVIOUS
  <2>2. SeenOK(it, seen[n]) /\ IterOK(it)
    BY <2>1 DEF IInv, ListInv, TypeOK, TableTypes, DescriptorOK
  <2>3. /\ seen[n].names = SubSeq(it.contents, 1, it.idx) /\ (seen[n].ended => it.idx = Len(it.contents))
        /\ it.contents \in Seq(Range(it.contents)) /\ it.idx \in 0..Len(it.contents) /\ Len(it.contents) \in Nat
    BY <2>2, LenProperties DEF SeenOK, IterOK, IsSeq
  <2>4. /\ SubSeq(it.contents, 1, it.idx) \in Seq(Range(it.contents)) /\ Len(SubSeq(it.contents, 1, it.idx)) = it.idx
        /\ \A k \in 1..it.idx : SubSeq(it.contents, 1, it.idx)[k] = it.contents[k]
    BY <2>3, SubSeqProperties
  <2>5. IsPrefix(seen[n].names, it.contents)
    <3>1. SubSeq(seen[n].names, 1, it.idx) = seen[n].names
      BY <2>3, <2>4, SubSeqFull
    <3> QED
      BY <2>3, <2>4, <3>1 DEF IsPrefix
  <2>6. seen[n].ended => seen[n].names = it.contents
    BY <2>3, SubSeqFull
  <2> QED
    BY <2>1, <2>5, <2>6
<1> QED
  BY <1>1, FilesInvariant, PTL

(* The output of a call is what the call printed, for any number of calls. *)
(* (getCapturedStdout, preFinishCall)                                      *)
THEOREM OutputsAreOwn == Spec => []OutputIsOwn
<1>1. IInv => OutputIsOwn
  BY DEF IInv
<1> QED
  BY <1>1, FilesInvariant, PTL

-----------------------------------------------------------------------------
(* What changes the contents of files. *)
Righted(i) ==
  \/ result'.op = "write" /\ LET d == fds[result'.fd] IN Write \in d.base \cap fds[d.root].inh
  \/ result'.op = "open" /\ data'[i] = <<>>

LEMMA WriteRighted ==
  ASSUME IInv, NEW n \in given, FdWrite(n), NEW i \in Files, data'[i] # data[i]
  PROVE  Righted(i)
<1>1. pc = "run" /\ data \in [Files -> Seq(Nat)]
  BY DEF FdWrite, Has, Op, IInv, TypeOK, HostTypes
<1>2. IsFile(n) /\ Opened(n).access # "r" /\ Tells("write", n, OK, "none")
  BY DEF FdWrite
<1>3. n \in DOMAIN fds /\ fds[n].host # Closed
  BY <1>1, <1>2, OpenedFacts DEF IsFile
<1>4. ByRight(fds[n], fds[fds[n].root].inh, host, open)
  BY <1>3 DEF IInv, TableInv
<1>5. Write \in fds[n].base \cap fds[fds[n].root].inh
  BY <1>2, <1>3, <1>4 DEF ByRight, Opened
<1>6. result'.op = "write" /\ result'.fd = n
  BY <1>2 DEF Tells
<1> QED
  BY <1>5, <1>6 DEF Righted

LEMMA OpenRighted ==
  ASSUME IInv, NEW n \in given, NEW o, PathOpen(n, o), NEW i \in Files, data'[i] # data[i]
  PROVE  Righted(i)
<1>1. OpenFileDescriptor(n, o) /\ data \in [Files -> Seq(Nat)]
  BY DEF PathOpen, IInv, TypeOK, HostTypes
<1>2. Tells("open", nextFd, OK, "none") /\ \E p, access, mode, append : HostOpen(p, access, mode, append)
  BY <1>1 DEF OpenFileDescriptor, hostVars
<1>3. PICK node : data' = data \/ data' = [data EXCEPT ![node] = <<>>]
  BY <1>2 DEF HostOpen
<1>4. data'[i] = <<>>
  BY <1>1, <1>3
<1>5. result'.op = "open"
  BY <1>2 DEF Tells
<1> QED
  BY <1>4, <1>5 DEF Righted

LEMMA StepRighted ==
  ASSUME IInv, Next, NEW i \in Files, data'[i] # data[i]
  PROVE  Righted(i)
<1>1. data' # data
  OBVIOUS
<1>2. ASSUME NEW n \in given, Uses(n) PROVE Righted(i)
  <2>1. \/ FdWrite(n) \/ \E o \in program.opens : PathOpen(n, o) \/ data' = data
    BY <1>2 DEF Uses, Dup, FdClose, FdReaddirAgain, FdRead, FdTell, FdFilestatGet, FdFdstatGet, FdAdvise, FdWriteStd,
       FdReaddir, FdFdstatSetFlags, FdSeek, PathFilestatGet, PathCreateDirectory, PathUnlinkFile, PathReadlink,
       PathRename, DoFileStat, PathOp, Captures, Same, hostVars
  <2> QED
    BY <1>1, <1>2, <2>1, WriteRighted, OpenRighted
<1>3. CASE StartCall \/ FinishCall \/ Puts \/ UsesMusl \/ \E n \in 3..5 : FdPrestatGet(n)
  BY <1>1, <1>3 DEF StartCall, FinishCall, Puts, UsesMusl, SMkdir, SUnlink, SRename, SAccess, Legacy, PathOp, Captures,
     FdPrestatGet, Same, hostVars
<1> QED
  BY <1>2, <1>3 DEF Next

(* What is in a file changes only by a write to a descriptor that has the  *)
(* right, and whose directory passes it on, or by an open that truncates   *)
(* it, whatever rights and flags programs ask for. (openFileDescriptor,    *)
(* getRwType, pathOpen)                                                    *)
THEOREM FilesWrittenByRight == Spec => WritesByRight
<1>1. IInv /\ [Next]_vars =>
        [\A i \in Files : data'[i] # data[i] =>
           \/ result'.op = "write" /\ LET d == fds[result'.fd] IN Write \in d.base \cap fds[d.root].inh
           \/ result'.op = "open" /\ data'[i] = <<>>]_vars
  BY StepRighted DEF Righted
<1> QED
  BY <1>1, FilesInvariant, PTL DEF Spec, WritesByRight
=============================================================================
