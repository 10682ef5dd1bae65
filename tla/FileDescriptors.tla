-------------------------- MODULE FileDescriptors --------------------------
(***************************************************************************)
(* The files of a Wasm function (FileSystem, FileDescriptor, the WASI      *)
(* calls of io.cpp): a table of descriptors that each stand for a          *)
(* descriptor of the host, copied with the module from its zygote; rights  *)
(* that shrink from a directory to what is opened under it; an iterator    *)
(* over a directory; and the capture of what is printed.                   *)
(*                                                                         *)
(* Paths are sequences of names.  The file system of the host is external: *)
(* its tree maps paths to nodes, <<"root">> is runtimeFilesDir and         *)
(* <<"shared">> is sharedFilesDir, where this specification finds a shared *)
(* file or does not.  One thread of the function uses its files.           *)
(***************************************************************************)
EXTENDS Integers, SequencesExt, FiniteSetsExt, Functions

CONSTANTS
  Tree,       \* the tree a host starts with: path -> node
  Dirs, Files, \* nodes
  Programs,   \* what functions do: [kinds, opens, names, ops]
  Buffers,    \* lengths of the buffers they read directories with
  HostFds,    \* descriptors the host has
  MaxCalls

RootPath == <<"root">>

ASSUME FilesAssumption ==
  /\ Dirs \cap Files = {} /\ IsInjective(Tree)
  /\ Tree \in [DOMAIN Tree -> Dirs \cup Files] /\ IsFiniteSet(DOMAIN Tree) /\ RootPath \in DOMAIN Tree
  /\ {HostFds, MaxCalls} \subseteq Nat /\ HostFds > 5 /\ Buffers \subseteq Nat

VARIABLES
  program,  \* operations of its kinds, opens with its [rel, base, inh, flags, fdFlags], its paths and budget
  call, ops, pc,
  fds,      \* fileDescriptors: number -> descriptor
  nextFd,
  stdout,   \* the captured output: its host descriptor, 0 if there is none, and what was written
  output,   \* what the result of the last call has of it
  printed,  \* what the call printed
  given,    \* numbers the function was given and has not closed
  seen,     \* what it has seen of the directory of a number, and whether it saw the end
  result,   \* what the last operation told it
  host,     \* host descriptor -> open file, for those in use
  open,     \* the open files of the host
  tree, data

table == <<fds, nextFd>>
capture == <<stdout, output, printed>>
caller == <<given, seen>>
hostVars == <<host, open, tree, data>>
vars == <<program, call, ops, pc, table, capture, caller, result, hostVars>>

Read == "read"  Write == "write"  Other == "other"
Rights == {Read, Write, Other}
OK == "OK"
Closed == -1
SharedPrefix == "faasm"
Std == 0..2
Preopened == {3, 4}

With(m, x, v) == [y \in DOMAIN m \cup {x} |-> IF y = x THEN v ELSE m[y]]

-----------------------------------------------------------------------------
(* The host. *)
IsDir(p) == p \in DOMAIN tree /\ tree[p] \in Dirs
Node(p) == IF p \in DOMAIN tree THEN tree[p] ELSE "none"
Children(p) == {Last(q) : q \in {q \in DOMAIN tree : q # <<>> /\ Front(q) = p}}
Free(kind) == kind \ (Range(tree) \cup {open[k].node : k \in DOMAIN open})
LowestFree == Min(0..HostFds \ DOMAIN host)
Exhausted == Cardinality(DOMAIN host) >= HostFds

HostOpenErrno(p, access, mode) ==
  CASE Exhausted -> "EMFILE"
    [] p \notin DOMAIN tree /\ (mode # "create" \/ ~IsDir(Front(p)) \/ Free(Files) = {}) -> "ENOENT"
    [] IsDir(p) /\ (mode = "create" \/ access # "r") -> "EISDIR"
    [] ~IsDir(p) /\ mode = "directory" -> "ENOTDIR"
    [] OTHER -> OK

HostOpen(p, access, mode, append) ==
  LET node == IF p \in DOMAIN tree THEN tree[p] ELSE CHOOSE i \in Free(Files) : TRUE IN
  /\ host' = With(host, LowestFree, Len(open) + 1)
  /\ open' = Append(open, [node |-> node, offset |-> 0, access |-> access, append |-> append])
  /\ tree' = With(tree, p, node)
  /\ data' = IF node \in Files /\ (mode = "trunc" \/ p \notin DOMAIN tree) THEN [data EXCEPT ![node] = <<>>] ELSE data

HostMkdirErrno(p) ==
  CASE p \in DOMAIN tree -> "EEXIST"
    [] ~IsDir(Front(p)) \/ Free(Dirs) = {} -> "ENOENT"
    [] OTHER -> OK
HostMkdir(p) == tree' = With(tree, p, CHOOSE i \in Free(Dirs) : TRUE)

HostUnlinkErrno(p) ==
  CASE p \notin DOMAIN tree -> "ENOENT" [] IsDir(p) -> "EISDIR" [] OTHER -> OK
HostUnlink(p) == tree' = Restrict(tree, DOMAIN tree \ {p})

HostCanRename(p, q) ==
  /\ p \in DOMAIN tree /\ IsDir(Front(q)) /\ ~IsStrictPrefix(p, q)
  /\ q \in DOMAIN tree => IsDir(p) = IsDir(q) /\ (q = p \/ Children(q) = {})
MovedPath(p, q, r) == IF IsPrefix(p, r) THEN q \o SubSeq(r, Len(p) + 1, Len(r)) ELSE r
HostRename(p, q) ==
  tree' = LET kept == {r \in DOMAIN tree : p = q \/ ~IsPrefix(q, r)} IN
          [r \in {MovedPath(p, q, s) : s \in kept} |-> tree[CHOOSE s \in kept : MovedPath(p, q, s) = r]]

-----------------------------------------------------------------------------
(* FileDescriptor: paths, rights, modes. *)
IsPathShared(p) == p # <<>> /\ Head(p) = SharedPrefix
RealPathForSharedFile(p) == <<"shared">> \o Tail(p)
PrependRuntimeRoot(p) == RootPath \o p
RealPath(p) == IF IsPathShared(p) THEN RealPathForSharedFile(p) ELSE PrependRuntimeRoot(p)

(* syncSharedFile, for this specification: the local copy is there, or the *)
(* file does not exist.                                                    *)
SyncErrno(p) == IF IsPathShared(p) /\ RealPath(p) \notin DOMAIN tree THEN "ENOENT" ELSE OK

AbsPath(d, rel) == d.path \o rel
MkdirPath(d, rel) == PrependRuntimeRoot(rel)

(* What a descriptor's read and write rights let the file be opened for;   *)
(* rights that are neither make pathOpen throw.                            *)
RwTypeOfAny(rights) == IF rights = {} THEN "r" ELSE IF rights = {Other} THEN "custom" ELSE "rw"
RwType(rights) ==
  CASE {Read, Write} \subseteq rights -> "rw"
    [] Read \in rights -> "r"
    [] Write \in rights -> "w"
    [] rights = {} -> "r"
    [] OTHER -> "custom"
OpenMode(flags) ==
  CASE "creat" \in flags -> "create"
    [] "directory" \in flags -> "directory"
    [] "trunc" \in flags -> "trunc"
    [] OTHER -> "none"
WasiFdFlagsToLinux(fdFlags) == "append" \in fdFlags
Access(rights, mode) == IF mode = "directory" THEN "r" ELSE RwType(rights)

(* What errnoToWasi knows of what the host may answer here; it throws for  *)
(* the rest.                                                               *)
Known(errno) == errno \in {OK, "ENOENT", "EBADF", "EEXIST", "ENOTDIR", "EISDIR", "EINVAL", "EMFILE", "EPERM"}

NoIterator == [loaded |-> FALSE, contents |-> <<>>, idx |-> 0]
Descriptor(path, h, base, inh, root, node) ==
  [path |-> path, host |-> h, base |-> base, inh |-> inh, iter |-> NoIterator, root |-> root, node |-> node]

(* prepareFilesystem of the zygote: the standard descriptors and the two   *)
(* roots, opened once for all modules of the function.                     *)
StdFactory(n) == Descriptor(<<"dev">>, n, Rights, Rights, n, "tty")
CreatePreopenedFileDescriptor(n) == Descriptor(<<>>, n, Rights, Rights, n, Tree[RootPath])
PrepareFilesystem == [n \in Std \cup Preopened |->
  IF n \in Std THEN StdFactory(n) ELSE CreatePreopenedFileDescriptor(n)]
FirstFd == 5

Init ==
  /\ program \in Programs /\ call = 0 /\ ops = 0 /\ pc = "idle"
  /\ fds = PrepareFilesystem /\ nextFd = FirstFd
  /\ stdout = [host |-> 0, written |-> <<>>] /\ output = <<>> /\ printed = <<>>
  /\ given = Std \cup Preopened /\ seen = [n \in {} |-> 0]
  /\ result = [op |-> "none", fd |-> 0, errno |-> OK, value |-> "none"]
  /\ tree = Tree /\ data = [i \in Files |-> <<0>>]
  /\ host = [n \in Std \cup Preopened |-> n + 1]
  /\ open = [k \in 1..FirstFd |->
       [node |-> IF k - 1 \in Std THEN "tty" ELSE Tree[RootPath], offset |-> 0,
        access |-> IF k - 1 \in Std THEN "rw" ELSE "r", append |-> FALSE]]

-----------------------------------------------------------------------------
Tells(op, n, errno, value) == result' = [op |-> op, fd |-> n, errno |-> errno, value |-> value]

(* An exception of a host call ends the call of the function. *)
Throws(op, n) == pc' = "failed" /\ Tells(op, n, "throws", "none")

(* A descriptor that is not in the table makes getFileDescriptor throw;    *)
(* the function uses the numbers it has.                                   *)
Op(kind) == pc = "run" /\ kind \in program.kinds /\ ops < program.ops /\ ops' = ops + 1 /\ UNCHANGED <<program, call>>
Has(kind, n) == Op(kind) /\ n \in given
Same == UNCHANGED <<table, capture, caller, hostVars>>

FdPrestatGet(n) ==
  /\ Op("print")
  /\ Tells("prestat", n, IF n \in DOMAIN fds THEN OK ELSE "EBADF", IF n \in DOMAIN fds THEN fds[n].path ELSE <<>>)
  /\ UNCHANGED pc /\ Same

FullPath(root, rel) == IF IsPathShared(rel) THEN rel ELSE fds[root].path \o rel
EffectiveRights(root, rights) == rights \cap fds[root].inh

NewFd == nextFd + 1

OpenErrno(path, access, mode) ==
  IF SyncErrno(path) # OK THEN SyncErrno(path) ELSE HostOpenErrno(RealPath(path), access, mode)

(* openFileDescriptor: the descriptor is in the table, with a number of    *)
(* its own, whether or not the path can be opened.                         *)
OpenFileDescriptor(root, o) ==
  LET path == FullPath(root, o.rel)
      base == EffectiveRights(root, o.base)
      inh == EffectiveRights(root, o.inh)
      mode == OpenMode(o.flags)
      access == Access(base, mode)
      errno == OpenErrno(path, access, mode)
      Enters(h, node) == fds' = With(fds, nextFd, Descriptor(path, h, base, inh, root, node)) IN
  /\ nextFd' = NewFd
  /\ IF access = "custom" \/ ~Known(errno)
     THEN Throws("open", root) /\ Enters(Closed, "none") /\ UNCHANGED <<caller, hostVars>>
     ELSE IF errno # OK
     THEN Tells("open", root, errno, "none") /\ Enters(Closed, "none") /\ UNCHANGED <<pc, caller, hostVars>>
     ELSE /\ HostOpen(RealPath(path), access, mode, WasiFdFlagsToLinux(o.fdFlags))
          /\ Enters(LowestFree, Last(open').node)
          /\ given' = given \cup {nextFd} /\ UNCHANGED <<pc, seen>>
          /\ Tells("open", nextFd, OK, "none")

PathOpen(root, o) ==
  /\ Has("open", root) /\ root \notin Std
  /\ OpenFileDescriptor(root, o)
  /\ UNCHANGED capture

(* dup: the open file is shared, what is known of it and of its directory  *)
(* is copied.  The host refuses when it has no descriptors left, and is    *)
(* not asked whether it did.                                               *)
Duplicate(d, h) == [d EXCEPT !.host = h]
FileSystemDup(n) ==
  LET h == IF Exhausted \/ fds[n].host = Closed THEN Closed ELSE LowestFree IN
  /\ nextFd' = NewFd
  /\ fds' = With(fds, nextFd, Duplicate(fds[n], h))
  /\ host' = IF h = Closed THEN host ELSE With(host, h, host[fds[n].host])
Dup(n) ==
  /\ Has("data", n) \/ Has("list", n)
  /\ FileSystemDup(n)
  /\ given' = given \cup {nextFd}
  /\ seen' = IF n \in DOMAIN seen THEN With(seen, nextFd, seen[n]) ELSE seen
  /\ Tells("dup", nextFd, OK, "none")
  /\ UNCHANGED <<pc, capture, open, tree, data>>

FdClosesHost(n) == host' = Restrict(host, DOMAIN host \ {fds[n].host}) /\ UNCHANGED table
FdCloses(n) == UNCHANGED <<table, host>>
FdClose(n) ==
  /\ Has("data", n) \/ Has("print", n)
  /\ FdCloses(n)
  /\ given' = given \ {n}
  /\ Tells("close", n, OK, "none")
  /\ UNCHANGED <<pc, capture, seen, open, tree, data>>

-----------------------------------------------------------------------------
(* fd_readdir.  Lengths: an entry is two units and its name one, a buffer  *)
(* is as long as the function chooses.                                     *)
NameSize(name) == IF name \in {"."} THEN 1 ELSE 2
EntrySize(name) == 2 + NameSize(name)
SizeOf(entries) == FoldSeq(LAMBDA e, sum : sum + EntrySize(e), 0, entries)

LoadDirContents(d) ==
  IF d.iter.loaded THEN d.iter
  ELSE [loaded |-> TRUE, contents |-> SetToSeq({".", ".."} \cup Children(RealPath(d.path))), idx |-> 0]

Rest(it) == SubSeq(it.contents, it.idx + 1, Len(it.contents))
Fits(it, len, n) == n <= Len(Rest(it)) /\ SizeOf(SubSeq(Rest(it), 1, n)) <= len
Fitting(it, len) == SubSeq(Rest(it), 1, Min({n \in 0..Len(Rest(it)) : ~Fits(it, len, n + 1)}))

IsBufferFull(it, len) == Fitting(it, len) # Rest(it)

(* The entry that does not fit any more is taken, and given back. *)
IdxTaken(it, len) == it.idx + Len(Fitting(it, len)) + IF IsBufferFull(it, len) THEN 1 ELSE 0
NotSteppedBack(it, len) == IdxTaken(it, len)
IterBack(it, len) == IdxTaken(it, len) - IF IsBufferFull(it, len) THEN 1 ELSE 0

BytesCopied(it, len) == IF IsBufferFull(it, len) THEN len ELSE SizeOf(Fitting(it, len))

(* readdir of wasi-libc, the caller, on a directory the function opened:   *)
(* it takes the entries that are there with their names, and knows the end *)
(* by a buffer that is not filled.                                         *)
Seen(n) == IF n \in DOMAIN seen THEN seen[n] ELSE [names |-> <<>>, ended |-> FALSE]
FdReaddir(n, len) ==
  LET it == LoadDirContents(fds[n]) IN
  /\ Has("list", n) /\ n \notin Std \cup Preopened /\ ~Seen(n).ended
  /\ IF ~fds[n].iter.loaded /\ (SyncErrno(fds[n].path) # OK \/ ~IsDir(RealPath(fds[n].path)))
     THEN Throws("readdir", n) /\ UNCHANGED <<fds, seen>>
     ELSE /\ fds' = [fds EXCEPT ![n].iter = [it EXCEPT !.idx = IterBack(it, len)]]
          /\ seen' = With(seen, n, [names |-> Seen(n).names \o Fitting(it, len), ended |-> BytesCopied(it, len) < len])
          /\ Tells("readdir", n, OK, "none")
          /\ UNCHANGED pc
  /\ UNCHANGED <<nextFd, capture, given, hostVars>>

(* From the start again, with an iterator that has been used: rejected. *)
FdReaddirAgain(n) ==
  /\ Has("list", n) /\ n \notin Std /\ fds[n].iter.loaded
  /\ Tells("readdir", n, "EINVAL", "none")
  /\ UNCHANGED pc /\ Same

-----------------------------------------------------------------------------
Opened(n) == open[host[fds[n].host]]
At(n) == IF Opened(n).append THEN Len(data[Opened(n).node]) ELSE Opened(n).offset
Moves(n, offset) == open' = [open EXCEPT ![host[fds[n].host]].offset = offset]
IsFile(n) == fds[n].host # Closed /\ Opened(n).node \in Files

Written(s, at, what) ==
  [k \in 1..Max({Len(s), at + 1}) |-> IF k = at + 1 THEN what ELSE IF k <= Len(s) THEN s[k] ELSE 0]

FdWrite(n) ==
  /\ Has("data", n) /\ n \notin Std
  /\ IF IsFile(n) /\ Opened(n).access # "r"
     THEN /\ data' = [data EXCEPT ![Opened(n).node] = Written(@, At(n), n)]
          /\ Moves(n, At(n) + 1)
          /\ Tells("write", n, OK, "none")
     ELSE Tells("write", n, "EBADF", "none") /\ UNCHANGED <<open, data>>
  /\ UNCHANGED <<pc, table, capture, caller, host, tree>>

(* The function is told of success also when the host could not read. *)
FdRead(n) ==
  /\ Has("data", n) /\ n \notin Std
  /\ Tells("read", n, OK, "none")
  /\ IF IsFile(n) /\ Opened(n).access # "w" /\ Opened(n).offset < Len(data[Opened(n).node])
     THEN Moves(n, Opened(n).offset + 1)
     ELSE UNCHANGED open
  /\ UNCHANGED <<pc, table, capture, caller, host, tree, data>>

Seek(n, whence, by) ==
  CASE whence = "set" -> by
    [] whence = "cur" -> Opened(n).offset + by
    [] whence = "end" -> Len(data[Opened(n).node]) + by

FdSeek(n, whence, by) ==
  /\ Has("data", n)
  /\ IF ~IsFile(n) THEN Tells("seek", n, "EBADF", "none") /\ UNCHANGED open
     ELSE IF Seek(n, whence, by) < 0 THEN Tells("seek", n, "EINVAL", "none") /\ UNCHANGED open
     ELSE Moves(n, Seek(n, whence, by)) /\ Tells("seek", n, OK, "none")
  /\ UNCHANGED <<pc, table, capture, caller, host, tree, data>>

Offset(n) == Opened(n).offset
FdTell(n) ==
  /\ Has("data", n) /\ IsFile(n)
  /\ Tells("tell", n, OK, Offset(n))
  /\ UNCHANGED pc /\ Same

(* The flags are replaced, not added to. *)
UpdateFlags(n, fdFlags) == open' = [open EXCEPT ![host[fds[n].host]].append = WasiFdFlagsToLinux(fdFlags)]
FdFdstatSetFlags(n, fdFlags) ==
  /\ Has("data", n) /\ n \notin Std
  /\ IF fds[n].host = Closed THEN Tells("flags", n, "EBADF", "none") /\ UNCHANGED open
     ELSE UpdateFlags(n, fdFlags) /\ Tells("flags", n, OK, "none")
  /\ UNCHANGED <<pc, table, capture, caller, host, tree, data>>

-----------------------------------------------------------------------------
(* Operations on paths.  stat goes by the path of the descriptor, but for  *)
(* the standard ones.                                                      *)
StatPath(n, rel) == RealPath(AbsPath(fds[n], rel))
StatErrno(n, rel) ==
  IF SyncErrno(AbsPath(fds[n], rel)) = OK /\ StatPath(n, rel) \in DOMAIN tree THEN OK ELSE "ENOENT"
Stat(n, rel) ==
  IF fds[n].host \in Std THEN [errno |-> OK, node |-> "tty"]
  ELSE [errno |-> StatErrno(n, rel), node |-> Node(StatPath(n, rel))]

DoFileStat(op, n, rel) ==
  /\ Tells(op, n, Stat(n, rel).errno, Stat(n, rel).node)
  /\ UNCHANGED pc /\ Same
FdFilestatGet(n) == Has("path", n) /\ DoFileStat("fstat", n, <<>>)
PathFilestatGet(n, rel) == Has("path", n) /\ DoFileStat("stat", n, rel)
FdFdstatGet(n) ==
  /\ Has("print", n)
  /\ Tells("fdstat", n, Stat(n, <<>>).errno, fds[n].base)
  /\ UNCHANGED pc /\ Same
(* Taken note of by nobody: fd_advise, ioctl. *)
FdAdvise(n) == Has("print", n) /\ Tells("advise", n, OK, "none") /\ UNCHANGED pc /\ Same

(* The result of an operation that changes the tree, or does not. *)
PathOp(op, n, errno, Change) ==
  /\ IF errno = OK THEN Change ELSE UNCHANGED tree
  /\ IF Known(errno) THEN Tells(op, n, errno, "none") /\ UNCHANGED pc ELSE Throws(op, n)
  /\ UNCHANGED <<table, capture, caller, host, open, data>>

(* The path of the descriptor is not looked at. *)
PathCreateDirectory(n, rel) ==
  LET p == MkdirPath(fds[n], rel) IN
  Has("path", n) /\ PathOp("mkdir", n, HostMkdirErrno(p), HostMkdir(p))

UnlinkPath(d, rel) == PrependRuntimeRoot(AbsPath(d, rel))
PathUnlinkFile(n, rel) ==
  LET p == UnlinkPath(fds[n], rel) IN
  Has("path", n) /\ PathOp("unlink", n, HostUnlinkErrno(p), HostUnlink(p))

(* Whatever went wrong, the function is told EPERM. *)
RenameErrno(p, q) == IF HostCanRename(p, q) THEN OK ELSE "EPERM"
PathRename(n, rel, m, to) ==
  LET p == PrependRuntimeRoot(AbsPath(fds[n], rel))
      q == PrependRuntimeRoot(AbsPath(fds[m], to)) IN
  /\ Has("path", n) /\ m \in given
  /\ PathOp("rename", n, RenameErrno(p, q), HostRename(p, q))

(* No link is in the tree: what could not be read is a success, too. *)
ReadLink(n, rel) == -1
PathReadlink(n, rel) == Has("path", n) /\ Tells("readlink", n, OK, ReadLink(n, rel)) /\ UNCHANGED pc /\ Same

(* The calls of the musl ABI: they throw for what cannot be done. *)
Legacy(op, errno, Change) ==
  /\ Op("legacy")
  /\ PathOp(op, 4, IF errno = OK THEN OK ELSE "other", Change)
SMkdir(rel) == LET p == PrependRuntimeRoot(rel) IN Legacy("mkdir", HostMkdirErrno(p), HostMkdir(p))
SUnlink(rel) == LET p == PrependRuntimeRoot(rel) IN Legacy("unlink", HostUnlinkErrno(p), HostUnlink(p))
SRename(rel, to) ==
  LET p == PrependRuntimeRoot(rel)
      q == PrependRuntimeRoot(to) IN
  Legacy("rename", RenameErrno(p, q), HostRename(p, q))
SAccess(rel) ==
  /\ Op("legacy")
  /\ Tells("access", 4, IF PrependRuntimeRoot(rel) \in DOMAIN tree THEN OK ELSE "EPERM", "none")
  /\ UNCHANGED pc /\ Same

-----------------------------------------------------------------------------
(* What the function prints is captured: into a file in memory that is     *)
(* made when the first of it comes.                                        *)
GetStdoutFd == IF stdout.host = 0 THEN LowestFree ELSE stdout.host
Captures(op, n, what) ==
  /\ printed' = Append(printed, what)
  /\ IF stdout.host = 0 /\ Exhausted
     THEN Throws(op, n) /\ UNCHANGED <<stdout, host, open>>
     ELSE /\ stdout' = [host |-> GetStdoutFd, written |-> Append(stdout.written, what)]
          /\ IF stdout.host = 0
             THEN /\ host' = With(host, LowestFree, Len(open) + 1)
                  /\ open' = Append(open, [node |-> "memory", offset |-> 1, access |-> "rw", append |-> FALSE])
             ELSE open' = [open EXCEPT ![host[stdout.host]].offset = @ + 1] /\ UNCHANGED host
          /\ Tells(op, n, OK, "none") /\ UNCHANGED pc
  /\ UNCHANGED <<table, output, caller, tree, data>>

FdWriteStd(n) == Has("print", n) /\ n \in Std /\ Captures("print", n, n)
Puts == Op("print") /\ Captures("puts", 1, 3)

ReadFromHere(at) == SubSeq(stdout.written, at + 1, Len(stdout.written))
ReadFromStart(at) == stdout.written
GetCapturedStdout == IF stdout.written = <<>> THEN <<>> ELSE ReadFromStart(open[host[stdout.host]].offset)
ClearCapturedStdout == IF stdout.written = <<>> THEN UNCHANGED host ELSE host' = Restrict(host, DOMAIN host \ {stdout.host})

StartCall ==
  /\ pc = "idle" /\ call < MaxCalls
  /\ call' = call + 1 /\ pc' = "run"
  /\ given' = Std \cup Preopened /\ seen' = [n \in {} |-> 0]
  /\ printed' = <<>>
  /\ Tells("start", 0, OK, "none")
  /\ UNCHANGED <<program, ops, table, stdout, output, hostVars>>

(* preFinishCall: the output is taken, and the module becomes a clone of   *)
(* the zygote again.  What the call opened on the host stays open.         *)
FinishCall ==
  /\ pc \in {"run", "failed"}
  /\ output' = GetCapturedStdout
  /\ ClearCapturedStdout
  /\ stdout' = [host |-> 0, written |-> <<>>]
  /\ fds' = PrepareFilesystem /\ nextFd' = FirstFd
  /\ pc' = "idle"
  /\ Tells("finish", 0, IF pc = "failed" THEN "throws" ELSE OK, "none")
  /\ UNCHANGED <<program, call, ops, printed, caller, open, tree, data>>

Uses(n) ==
  \/ Dup(n) \/ FdClose(n) \/ FdReaddirAgain(n) \/ FdWrite(n) \/ FdRead(n) \/ FdTell(n) \/ FdFilestatGet(n)
  \/ FdFdstatGet(n) \/ FdAdvise(n) \/ FdWriteStd(n)
  \/ \E len \in Buffers : FdReaddir(n, len)
  \/ \E fdFlags \in {{}, {"append"}} : FdFdstatSetFlags(n, fdFlags)
  \/ \E whence \in {"set", "cur", "end"}, by \in {-1, 1} : FdSeek(n, whence, by)
  \/ \E o \in program.opens : PathOpen(n, o)
  \/ \E rel \in program.names :
       \/ PathFilestatGet(n, rel) \/ PathCreateDirectory(n, rel) \/ PathUnlinkFile(n, rel) \/ PathReadlink(n, rel)
       \/ \E m \in Preopened, to \in program.names : PathRename(n, rel, m, to)

UsesMusl == \E rel \in program.names :
  SMkdir(rel) \/ SUnlink(rel) \/ SAccess(rel) \/ \E to \in program.names : SRename(rel, to)

Next ==
  \/ StartCall \/ FinishCall \/ Puts \/ UsesMusl
  \/ \E n \in given : Uses(n)
  \/ \E n \in 3..5 : FdPrestatGet(n)
Spec == Init /\ [][Next]_vars

-----------------------------------------------------------------------------
(* A number stands for the file it was opened on, in this call and in      *)
(* every later one that has it from the zygote: the host descriptor behind *)
(* it is not closed and opened again for something else.  Numbers the      *)
(* function has are in the table, and the next one is not. (fd_close:      *)
(* "closing here can close the preopened fds")                             *)
OpensItsFile ==
  /\ nextFd \notin DOMAIN fds /\ (pc # "idle" => given \subseteq DOMAIN fds)
  /\ \A n \in DOMAIN fds : fds[n].host # Closed =>
    /\ fds[n].host \in DOMAIN host
    /\ Opened(n).node = fds[n].node

(* A directory that is read in as many calls and with such buffers as the  *)
(* function likes is seen entry by entry, each once, and its end is taken  *)
(* for the end only when all of it was seen; a duplicate goes on from      *)
(* where the descriptor was. (copyDirentsToWasiBuffer)                     *)
ListingComplete ==
  pc # "idle" => \A n \in DOMAIN seen :
    /\ IsPrefix(seen[n].names, fds[n].iter.contents)
    /\ seen[n].ended => seen[n].names = fds[n].iter.contents

(* The output of a call is what the call printed: all of it, in order, and *)
(* nothing of another call. (getCapturedStdout, preFinishCall)             *)
OutputIsOwn == pc = "idle" /\ result.op = "finish" /\ result.errno = OK => output = printed

(* What is in a file changes by a write to a descriptor with a right to    *)
(* write, which the directory it was opened under passes on, or by an open *)
(* that truncates it. (openFileDescriptor, getRwType, pathOpen)            *)
WritesByRight ==
  [][\A i \in Files : data'[i] # data[i] =>
       \/ result'.op = "write" /\ LET d == fds[result'.fd] IN Write \in d.base \cap fds[d.root].inh
       \/ result'.op = "open" /\ data'[i] = <<>>]_vars
=============================================================================
