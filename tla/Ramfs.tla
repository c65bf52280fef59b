------------------------------- MODULE Ramfs -------------------------------
(***************************************************************************)
(* The RAM file system (fs/ramfs.c), mounted at /tmp.  Directories and     *)
(* files are nodes of the file tree; a file has a buffer, which starts     *)
(* with BufferSize bytes of uninitialised memory.                          *)
(***************************************************************************)
EXTENDS FileTree

CONSTANTS
    BufferSize,  \* 4096
    Byte         \* what processes write

ASSUME RamfsAssumption == BufferSize \in Nat

Junk == "junk"   \* a byte nobody wrote
None == "none"   \* an offset never written

\* ramfs_mkdir: a directory has no ram_file_t.
ramfs_mkdir(fs, p, name) ==
    IF ~InTree(fs, p) THEN fs
    ELSE [AddChild(fs, p, FileNode(name, "DIR", "ramfs_mkdir")) EXCEPT !.node[p].size = @ + 1]

ramfs_create(fs, p, name) ==
    IF ~InTree(fs, p) THEN fs
    ELSE [AddChild(fs, p, [FileNode(name, "FILE", "ramfs_file") EXCEPT
                              !.buf = [i \in 1..BufferSize |-> Junk],
                              !.bsize = BufferSize,
                              !.written = [i \in 1..BufferSize |-> None]])
          EXCEPT !.node[p].size = @ + 1]

\* ramfs_delete follows node->fs, which directories do not have.
ramfs_delete(fs, n) == [fs EXCEPT !.ok = @ /\ HasFs(fs, n)]

\* ramfs_read: how many bytes are copied.  A read that would pass the end of the
\* buffer copies as many bytes as lie behind the end.
ramfs_read(fs, n, offset, length) ==
    LET size == fs.node[n].bsize
    IN IF offset > size THEN 0
       ELSE IF offset + length > size THEN offset + length - size
       ELSE length

\* As it would be without the copy.
Grow_NoCopy(buf, bsize, size) == [i \in 1..size |-> Junk]

\* The buffer grown to size bytes: the first bsize bytes are copied.
Grow(buf, bsize, size) == [i \in 1..size |-> IF i <= bsize THEN buf[i] ELSE Junk]

\* ramfs_write: the buffer grows when the write passes bsize, which itself is never
\* changed.
ramfs_write(fs, n, offset, length, byte) ==
    LET f == fs.node[n]
        end == offset + length
        old == IF end > f.bsize THEN Grow(f.buf, f.bsize, end) ELSE f.buf
        Store(seq) == [i \in DOMAIN seq |-> IF i \in offset + 1..end THEN byte ELSE seq[i]]
    IN [fs EXCEPT !.ok = @ /\ HasFs(fs, n),
                  !.node[n].buf = Store(old),
                  !.node[n].written = Store(@),
                  !.node[n].size = IF @ < end THEN end ELSE @]
=============================================================================
