------------------------------- MODULE Files -------------------------------
(***************************************************************************)
(* The system calls on files (sys/syscall.c) and the descriptor tables     *)
(* (proc/process.c) of processes that share the file system of Vfs.        *)
(*                                                                         *)
(* A system call is one step: the tick does not switch processes while the *)
(* kernel runs, and none of these calls waits (reading the terminal does;  *)
(* that is in Pty).                                                        *)
(***************************************************************************)
EXTENDS Vfs

CONSTANTS
    Proc,       \* process slots
    InitProc,   \* the first process
    Image,      \* archives in memory
    Path,       \* paths that processes use for files
    Dir,        \* paths that they use for directories
    Mode,       \* flags they open with
    Size,       \* numbers of bytes they read or write
    Capacity,   \* descriptors of a process, 32 in the code
    MaxOffset,  \* bound on the offset of a handle
    MaxSize,    \* bound on the size of a file that pwrite64 makes
    MaxOpen     \* bound on the handles open in all processes

Flag == {"O_CREAT", "O_WRONLY", "O_TRUNC", "O_APPEND", "O_DIRECTORY"}
Header == [head : BOOLEAN, zero : BOOLEAN, path : Seq(Name), dir : BOOLEAN, size : Nat]

ASSUME FilesAssumption ==
    /\ InitProc \in Proc /\ Capacity \in Nat \ {0} /\ MaxOffset \in Nat
    /\ Image \subseteq Seq(Header) /\ Path \cup Dir \subseteq Seq(Name \cup {".", ".."})
    /\ Mode \subseteq SUBSET Flag /\ Size \subseteq Nat

VARIABLES
    image,  \* the archive the boot loader has placed in memory
    fs,     \* the file system
    fdt,    \* fd_table of each process: the number of open handles and the handles
    alive,  \* processes that exist
    names   \* history: the paths that exist, a function of fs

vars == <<image, fs, fdt, alive, names>>

Fd == 0..Capacity - 1
AnyFd == 0..Capacity + 1   \* what processes pass

\* Offsets are 64 bits wide; -1 stands for 2^64 - 1, the only one above MaxOffset
\* that is reached.
Offset == -1..MaxOffset

NoHandle == [node |-> Null, offset |-> 0, mode |-> {}]
Handle(n, mode) == [node |-> n, offset |-> 0, mode |-> mode]

EmptyTable == [length |-> 0, handles |-> [i \in Fd |-> NoHandle]]

\* The slot process_open_fd takes: the first free one, or slot 0 if there is none.
FreeSlot(t) ==
    LET free == {i \in Fd : t.handles[i] = NoHandle}
    IN IF free = {} THEN 0 ELSE Min(free)

process_open_fd(t, n, mode) ==
    IF t.length >= Capacity THEN t
    ELSE [t EXCEPT !.length = @ + 1, !.handles[FreeSlot(t)] = Handle(n, mode)]

\* Standard input, output and error of a new process.
process_create(f) ==
    LET tty == open(f, <<"dev", "tty">>, {}).node
    IN process_open_fd(process_open_fd(process_open_fd(EmptyTable, tty, {}), tty, {}), tty, {})

\* The paths that exist, among those without dots that processes name and their
\* prefixes.
Watched == UNION {{SubSeq(p, 1, k) : k \in 0..Len(p)} :
                    p \in {q \in Path \cup Dir : Range(q) \subseteq Name}}
Existing(f) == {p \in Watched : Peek(f, p).cur # Null}

Init ==
    /\ image \in Image
    /\ fs = Boot(image)
    /\ alive = {InitProc}
    /\ fdt = [p \in Proc |-> IF p \in alive THEN process_create(fs) ELSE EmptyTable]
    /\ names = Existing(fs)
-----------------------------------------------------------------------------
\* The nodes that one call may need.
CallNodes == 4

\* After an undefined step nothing is known of the files.  The model stops, in a state
\* without any.
Lost == [vfs_install(<<>>) EXCEPT !.ok = FALSE]
Undefined == fs' = Lost /\ fdt' = [p \in Proc |-> EmptyTable]

TotalOpen(tables) == MapThenSumSet(LAMBDA p : tables[p].length, Proc)

\* A call that leaves the file system in the state new and the descriptor tables in
\* the state tables.
Commit(new, tables) ==
    /\ new.next <= MaxNode - CallNodes
    /\ TotalOpen(tables) <= MaxOpen
    /\ IF new.ok THEN fs' = new /\ fdt' = tables ELSE Undefined

Unchanged == UNCHANGED <<fs, fdt>>

\* What system calls do with a descriptor.  The test is fd > capacity: the slot after
\* the last one is read.
WithHandle(p, fd, Call(_)) ==
    \/ fd > Capacity /\ Unchanged
    \/ fd = Capacity /\ Undefined
    \/ fd \in Fd /\ fdt[p].handles[fd] = NoHandle /\ Unchanged
    \/ fd \in Fd /\ fdt[p].handles[fd] # NoHandle /\ Call(fdt[p].handles[fd])

\* A handle's offset moves; the offset of a device is not used by its driver and is
\* not tracked.
Moved(p, fd, offset) ==
    [fdt EXCEPT ![p].handles[fd].offset =
        IF fs.node[fdt[p].handles[fd].node].type = "VIRTUAL_DEVICE" THEN @ ELSE offset]

Seek(p, fd, offset, new) == offset \in Offset /\ Commit(new, Moved(p, fd, offset))

IsFile(h) == fs.node[h.node].live   \* the node of the handle has not been freed

\* read and the read operation of the node: the result, -1 for a handle opened for
\* writing only.  The offset moves by the result all the same.
ReadOp(h, offset, n) ==
    LET f == fs.node[h.node]
    IN IF "O_WRONLY" \in h.mode THEN -1
       ELSE IF offset = -1 THEN 0
       ELSE IF f.driver = "ramfs_file" THEN ramfs_read(fs, h.node, offset, n)
       ELSE IF f.driver = "console" THEN n
       ELSE tarfs_read(fs.archive, f.ent, offset, n)

\* Reading is undefined when the node was freed, has no read operation, or is a
\* directory of the RAM file system.
Readable(h) ==
    /\ IsFile(h)
    /\ \/ "O_WRONLY" \in h.mode
       \/ Has(fs, h.node, "read") /\ (HasFs(fs, h.node) \/ fs.node[h.node].driver = "console")

sys_read(p, fd, n) ==
    WithHandle(p, fd, LAMBDA h :
        IF Readable(h) THEN Seek(p, fd, h.offset + ReadOp(h, h.offset, n), fs)
        ELSE Undefined)

sys_pread64(p, fd) ==
    WithHandle(p, fd, LAMBDA h : IF Readable(h) THEN Unchanged ELSE Undefined)

\* readv with two buffers; the second read starts where the first one ended.
sys_readv(p, fd, n, m) ==
    WithHandle(p, fd, LAMBDA h :
        IF Readable(h)
        THEN LET mid == h.offset + ReadOp(h, h.offset, n)
             IN Seek(p, fd, mid + ReadOp(h, mid, m), fs)
        ELSE Undefined)

\* Writing at 2^64 - 1 is undefined: the size of the new buffer wraps around.
Writable(h, offset) ==
    /\ IsFile(h) /\ Has(fs, h.node, "write")
    /\ \/ fs.node[h.node].driver = "console"
       \/ HasFs(fs, h.node) /\ (offset # -1 \/ "O_APPEND" \in h.mode)

\* write: O_APPEND moves to the end given by the size of the node.
Start(f, h, offset) == IF "O_APPEND" \in h.mode THEN f.node[h.node].size ELSE offset

WriteOp(f, h, offset, n, byte) ==
    IF f.node[h.node].driver = "console" THEN f
    ELSE ramfs_write(f, h.node, Start(f, h, offset), n, byte)

sys_write(p, fd, n, byte) ==
    WithHandle(p, fd, LAMBDA h :
        IF Writable(h, h.offset)
        THEN Seek(p, fd, Start(fs, h, h.offset) + n, WriteOp(fs, h, h.offset, n, byte))
        ELSE Undefined)

sys_writev(p, fd, n, m, byte) ==
    WithHandle(p, fd, LAMBDA h :
        IF Writable(h, h.offset)
        THEN LET first == WriteOp(fs, h, h.offset, n, byte)
                 mid == Start(fs, h, h.offset) + n
             IN Seek(p, fd, Start(first, h, mid) + m, WriteOp(first, h, mid, m, byte))
        ELSE Undefined)

\* pwrite64 writes through a temporary handle.
sys_pwrite64(p, fd, n, offset, byte) ==
    WithHandle(p, fd, LAMBDA h :
        IF Writable(h, offset)
        THEN /\ Start(fs, h, offset) + n <= MaxSize
             /\ Commit(WriteOp(fs, h, offset, n, byte), fdt)
        ELSE Undefined)

\* lseek, with SEEK_SET, SEEK_CUR and SEEK_END.
sys_lseek(p, fd, offset, whence) ==
    WithHandle(p, fd, LAMBDA h :
        IF ~IsFile(h) THEN Undefined
        ELSE Seek(p, fd, offset + (CASE whence = "SEEK_SET" -> 0
                                     [] whence = "SEEK_CUR" -> h.offset
                                     [] OTHER -> fs.node[h.node].size), fs))
-----------------------------------------------------------------------------
\* open for a system call: the descriptor table grows if there is a node.
sys_open(p, path, mode) ==
    \E o \in {open(fs, path, mode)} :
       Commit(o.fs, IF o.node = Null THEN fdt
                    ELSE [fdt EXCEPT ![p] = process_open_fd(@, o.node, mode)])

sys_create(p, path) == sys_open(p, path, {"O_CREAT", "O_WRONLY", "O_TRUNC"})

\* As it would be if it kept the table dense.
process_close_fd_Dense(t, fd) ==
    LET last == Max({i \in Fd : t.handles[i] # NoHandle})
    IN [t EXCEPT !.length = @ - 1, !.handles = [t.handles EXCEPT ![fd] = t.handles[last], ![last] = NoHandle]]

\* process_close_fd follows the handle without any test.
process_close_fd(t, fd) == [t EXCEPT !.length = @ - 1, !.handles[fd] = NoHandle]

sys_close(p, fd) ==
    IF fd \in Fd /\ fdt[p].handles[fd] # NoHandle /\ IsFile(fdt[p].handles[fd])
    THEN fdt' = [fdt EXCEPT ![p] = process_close_fd(@, fd)] /\ UNCHANGED fs
    ELSE Undefined

\* dup: the new handle is opened with flags, which nobody sets.  In a full table the
\* slot before the first one is written through.
sys_dup(p, fd) ==
    WithHandle(p, fd, LAMBDA h :
        IF fdt[p].length >= Capacity THEN Undefined
        ELSE LET t == process_open_fd(fdt[p], h.node, {})
             IN Commit(fs, [fdt EXCEPT ![p] = [t EXCEPT !.handles[FreeSlot(fdt[p])].offset = h.offset]]))

\* Calls that look at the node of a handle.
sys_fstat(p, fd) == WithHandle(p, fd, LAMBDA h : IF IsFile(h) THEN Unchanged ELSE Undefined)
sys_ioctl(p, fd) == WithHandle(p, fd, LAMBDA h : IF IsFile(h) THEN Unchanged ELSE Undefined)
sys_poll(p, fd) == WithHandle(p, fd, LAMBDA h : IF IsFile(h) THEN Unchanged ELSE Undefined)

\* As it would be if a look created what it did not find.
Look_Creates(path) ==
    \E o \in {open(fs, path, {"O_CREAT"})} :
       Commit(IF o.node = Null THEN o.fs ELSE Touch(o.fs, o.node), fdt)

\* Calls that look at the node of a path: resolving it may cache nodes.
Look(path) ==
    \E o \in {open(fs, path, {})} :
       Commit(IF o.node = Null THEN o.fs ELSE Touch(o.fs, o.node), fdt)

sys_stat(path) == Look(path)
sys_lstat(path) == Look(path)
sys_access(path) == Look(path)

\* link: no file system has the operation.
sys_link(p, fd, path) ==
    LET wild == \/ fd = Capacity
                \/ fd \in Fd /\ fdt[p].handles[fd] # NoHandle /\ ~IsFile(fdt[p].handles[fd])
    IN \E o \in {open(fs, path, {})} :
       IF o.fs.ok /\ o.node = Null /\ wild THEN Undefined ELSE Commit(o.fs, fdt)

sys_mkdir(path) ==
    \E o \in {open(fs, path, {})} :
       Commit(IF ~o.fs.ok \/ o.node # Null THEN o.fs ELSE mkdir(o.fs, path).fs, fdt)

sys_rmdir(path) ==
    \E o \in {open(fs, path, {})} :
       LET seen == IF o.node = Null THEN o.fs ELSE Touch(o.fs, o.node)
       IN Commit(IF ~seen.ok \/ o.node = Null \/ seen.node[o.node].type # "DIR" THEN seen
                 ELSE delete(seen, path), fdt)

sys_unlink(path) ==
    \E o \in {open(fs, path, {})} :
       Commit(IF ~o.fs.ok \/ o.node = Null THEN o.fs ELSE delete(o.fs, path), fdt)

sys_rename(old, new) ==
    \E o \in {open(fs, old, {})} :
       Commit(IF ~o.fs.ok \/ o.node = Null THEN o.fs ELSE move_file(o.fs, o.node, new), fdt)

\* The child gets a copy of the table: its handles have offsets of their own.
process_fork(p, c) ==
    /\ c \notin alive
    /\ TotalOpen(fdt) + fdt[p].length <= MaxOpen
    /\ alive' = alive \cup {c}
    /\ fdt' = [fdt EXCEPT ![c] = fdt[p]]
    /\ UNCHANGED fs

\* process_terminate; the first process must not exit (the kernel panics).  It frees as
\* many handles as length says; the slots are searched for them even beyond the last.
process_terminate(p) ==
    /\ p # InitProc
    /\ alive' = alive \ {p}
    /\ IF fdt[p].length > Cardinality({i \in Fd : fdt[p].handles[i] # NoHandle}) THEN Undefined
       ELSE fdt' = [fdt EXCEPT ![p] = EmptyTable] /\ UNCHANGED fs

HandleCall(p, fd) ==
    \/ \E n \in Size, byte \in Byte :
        \/ sys_read(p, fd, n) \/ sys_readv(p, fd, n, n)
        \/ sys_write(p, fd, n, byte) \/ sys_writev(p, fd, n, n, byte)
        \/ \E o \in 0..MaxOffset : sys_pwrite64(p, fd, n, o, byte)
    \/ \E o \in {-1, 0}, w \in {"SEEK_SET", "SEEK_CUR", "SEEK_END"} : sys_lseek(p, fd, o, w)
    \/ sys_pread64(p, fd) \/ sys_close(p, fd) \/ sys_dup(p, fd) \/ sys_fstat(p, fd) \/ sys_ioctl(p, fd) \/ sys_poll(p, fd)
    \/ \E path \in Path : sys_link(p, fd, path)

PathCall(p) ==
    \/ \E path \in Path :
        \/ \E mode \in Mode : sys_open(p, path, mode)
        \/ sys_create(p, path) \/ sys_unlink(path)
        \/ \E new \in Path \cup Dir : sys_rename(path, new)
    \/ \E path \in Dir : sys_mkdir(path) \/ sys_rmdir(path)
    \/ \E path \in Path \cup Dir : sys_stat(path) \/ sys_lstat(path) \/ sys_access(path)

Next ==
    \/ /\ fs.ok
       /\ UNCHANGED image
       /\ \E p \in alive :
            \/ (\E fd \in AnyFd : HandleCall(p, fd)) /\ UNCHANGED alive
            \/ PathCall(p) /\ UNCHANGED alive
            \/ \E c \in Proc : process_fork(p, c)
            \/ process_terminate(p)
       /\ names' = IF fs' \in {fs, Lost} THEN names ELSE Existing(fs')
    \/ ~fs.ok /\ UNCHANGED vars

Spec == Init /\ [][Next]_vars
-----------------------------------------------------------------------------
NodeType ==
    [name : Name \cup {NoName, "[root]", "[root_tarfs]"}, type : Type, driver : DOMAIN Ops,
     size : Nat, cached : BOOLEAN, ent : Nat, buf : Seq(Byte \cup {Junk}), bsize : {0, BufferSize},
     live : BOOLEAN, written : Seq(Byte \cup {None})]

TypeOK ==
    /\ fs.node \in [Node -> NodeType]
    /\ fs.kids \in [Node -> Seq(Node)] /\ fs.up \in [Node -> Node \cup {Null}]
    /\ fs.root \in Node /\ fs.next \in 1..MaxNode + 1 /\ fs.ok \in BOOLEAN
    /\ \A p \in Proc :
          /\ fdt[p].length \in 0..Capacity
          /\ \A i \in Fd : fdt[p].handles[i] \in [node : Node \cup {Null}, offset : Offset, mode : SUBSET Flag]
    /\ image \in Image /\ alive \subseteq Proc

Used(p) == {i \in Fd : fdt[p].handles[i] # NoHandle}

\* The counter that process_open_fd compares with the capacity is the number of open
\* handles, after any mix of open, close, dup, fork and failures: the search for a
\* free slot succeeds whenever it is made, and exit finds every handle to free.
FdAgree == \A p \in Proc : fdt[p].length = Cardinality(Used(p))

\* A descriptor names the same node from the call that opened it to the call that
\* closes it, whatever the process or others open, dup, fork, delete or exit.
DescriptorStable ==
    [][\A p \in Proc, i \in Fd :
        LET h == fdt[p].handles[i]
        IN h # NoHandle => fdt'[p].handles[i].node \in {h.node, Null}]_vars

\* Parent pointers and lists of children agree, a node is in one list once, and the
\* way up from a node ends: caching, creating and deleting keep the tree a tree.
TreeAgree ==
    /\ \A n, c \in Node : c \in Range(fs.kids[n]) <=> fs.up[c] = n
    /\ \A n \in Node : IsInjective(fs.kids[n])
    /\ \A n \in Node : n < fs.next /\ fs.node[n].live =>
           \E k \in Node : fs.up[k] = Null /\ InTree([fs EXCEPT !.root = k], n)

\* No directory has two entries of one name.  Nodes come into a directory from
\* look-ups in the archive, from create, mkdir and mounts; each relies on a look-up
\* that failed before.
NamesUnique ==
    \A n, c, d \in Node :
        /\ c # d /\ {c, d} \subseteq Range(fs.kids[n])
        /\ fs.node[c].live /\ fs.node[d].live
        => fs.node[c].name # fs.node[d].name

\* What open, close, dup, fork, exit, mkdir, unlink and the caching look-ups keep up
\* between them: the descriptor counters, and a tree with unambiguous names.
FilesOK == TypeOK /\ FdAgree /\ TreeAgree /\ NamesUnique

\* In the first BufferSize bytes a file of the RAM file system holds what was last
\* written to each offset, however often its buffer was replaced by a larger one and
\* whichever of its handles wrote.
BytesKept ==
    \A n \in Node : fs.node[n].live =>
        \A i \in DOMAIN fs.node[n].written :
            fs.node[n].written[i] # None => fs.node[n].buf[i] = fs.node[n].written[i]

\* The header in block j of the archive: its directories come before it, and no mount
\* and no earlier header has its path.
Plain(j) ==
    /\ image[j].head
    /\ Head(image[j].path) \notin {"dev", "tmp"}
    /\ \A k \in 1..Len(image[j].path) - 1 : \E i \in 1..j - 1 :
           image[i].head /\ image[i].dir /\ image[i].path = SubSeq(image[j].path, 1, k)
    /\ \A i \in 1..j - 1 : image[i].head => image[i].path # image[j].path

\* Every file of the archive is found under its path, in every state: the walk along
\* the archive steps over file data, the search in a directory begins early enough,
\* and what is cached for one path does not hide another.
TarReachable ==
    fs.ok => \A j \in DOMAIN image : Plain(j) =>
        LET w == Peek(fs, image[j].path)
        IN /\ w.cur # Null
           /\ w.fs.node[w.cur].ent # 0 /\ w.fs.archive[w.fs.node[w.cur].ent] = image[j]

Below(path) == {q \in Watched : IsPrefix(path, q)}

\* A path begins to exist when a process creates it, in a directory that exists, and
\* ceases to exist when a process deletes it; no other call, of this process or of
\* another, changes which paths exist.  Caching a node is invisible, and a path names
\* something if and only if it did at the last look.
NamesChange ==
    [][names' # names =>
        \E path \in Path \cup Dir :
            \/ /\ path \notin names /\ Front(path) \in names /\ names' = names \cup {path}
               /\ \/ sys_mkdir(path)
                  \/ \E p \in alive : \/ sys_create(p, path)
                                      \/ \E mode \in Mode : "O_CREAT" \in mode /\ sys_open(p, path, mode)
            \/ /\ path \in names /\ names' = names \ Below(path)
               /\ sys_unlink(path) \/ sys_rmdir(path)]_vars
=============================================================================
