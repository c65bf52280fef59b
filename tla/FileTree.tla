------------------------------ MODULE FileTree ------------------------------
(***************************************************************************)
(* The tree of file nodes (fs/vfs.h, libc/kernel/tree.c) and the walk      *)
(* along a path (resolve_path of fs/vfs.c).                                *)
(*                                                                         *)
(* The operations are functions on the state of the file system, a record  *)
(* fs: a call returns it changed.  The current directory of every process  *)
(* is "/", so a relative path is resolved like an absolute one.            *)
(*                                                                         *)
(* fs.ok becomes FALSE where the code reads a node that has been freed, or *)
(* follows or calls a NULL pointer: what the kernel does then is not       *)
(* defined, and nothing is said about it.                                  *)
(***************************************************************************)
EXTENDS Tarfs

CONSTANTS
    Name,     \* the names of files, "." and ".." excluded
    MaxNode   \* bound on the file nodes ever allocated

\* Booting makes five nodes.
ASSUME TreeAssumption ==
    /\ {"dev", "tty", "tmp"} \subseteq Name /\ {".", ".."} \cap Name = {}
    /\ MaxNode \in Nat /\ MaxNode >= 5

Null == 0
NoName == ""
Node == 1..MaxNode

\* The set of operations in file_ops of a node, by the function that made the node.
Ops == [vfs_install |-> {"read_dir"},
        mkdir_vfs   |-> {"read_dir", "create"},
        vfs_create  |-> {},
        tarfs_mount |-> {"find_dir", "read_dir", "read", "get_size"},
        tarfs       |-> {"find_dir", "read_dir", "read"},
        ramfs_init  |-> {"delete", "mkdir", "create", "read", "write"},
        ramfs_mkdir |-> {"delete", "mkdir", "create", "read", "write", "rename"},
        ramfs_file  |-> {"delete", "create", "read", "write", "rename"},
        console     |-> {"read", "write", "ioctl", "poll"}]

Type == {"FILE", "DIR", "MOUNT_POINT", "VIRTUAL_DEVICE"}

\* file_node_t.  ent is the header of a tar node, buf and bsize the ram_file_t of a
\* file in the RAM file system; live is FALSE once the node has been freed.  written
\* is not in the code: the byte last written to each offset below bsize.
FileNode(name, type, driver) ==
    [name |-> name, type |-> type, driver |-> driver, size |-> 0, cached |-> FALSE,
     ent |-> 0, buf |-> <<>>, bsize |-> 0, live |-> TRUE, written |-> <<>>]

NoNode == [FileNode(NoName, "FILE", "vfs_create") EXCEPT !.live = FALSE]

Has(fs, n, op) == op \in Ops[fs.node[n].driver]
HasFs(fs, n) == fs.node[n].driver \in {"tarfs_mount", "tarfs", "ramfs_file"}  \* node->fs # NULL

\* A node is read through a pointer to it.
Touch(fs, n) == [fs EXCEPT !.ok = @ /\ n # Null /\ fs.node[n].live]

\* The tree goes up from a node to the head (tree_find_child_root finds the node).
InTree(fs, n) ==
    LET above[k \in 0..MaxNode] ==
            IF k = 0 THEN n
            ELSE LET m == above[k - 1] IN IF m = Null THEN Null ELSE fs.up[m]
    IN \E k \in 0..MaxNode : above[k] = fs.root

tree_insert_child(fs, p, n) == [fs EXCEPT !.kids[p] = Append(@, n), !.up[n] = p]

\* As it would be if the entry stayed in the list.
tree_remove_KeepsEntry(fs, n) == [fs EXCEPT !.up[n] = Null]

\* The children of the node stay attached to it, out of reach from the head.
tree_remove(fs, n) ==
    IF fs.up[n] = Null THEN [fs EXCEPT !.ok = FALSE]
    ELSE [fs EXCEPT !.kids[fs.up[n]] = RemoveFirst(@, n), !.up[n] = Null]

\* calloc of a node.  When a freed node is still in the tree the new one may get its
\* address.
Dangling(fs) == \E n \in Node : ~fs.node[n].live /\ n < fs.next /\ (n = fs.root \/ fs.up[n] # Null)
NewNode(fs, rec) ==
    [fs EXCEPT !.node[fs.next] = rec, !.next = @ + 1, !.ok = @ /\ ~Dangling(fs)]

\* A new node below p, as the functions that create files do it.
AddChild(fs, p, rec) == tree_insert_child(NewNode(fs, rec), p, fs.next)

\* free of a node: what it held is forgotten, unless the tree still has it.
Free(fs, n) ==
    [Touch(fs, n) EXCEPT !.node[n] = IF n = fs.root \/ fs.up[n] # Null THEN [@ EXCEPT !.live = FALSE]
                                     ELSE NoNode]
-----------------------------------------------------------------------------

\* get_child compares the names of the children in their order; Null if none matches.
\* The first child that was freed before a match is found makes the outcome undefined.
get_child(fs, p, name) ==
    LET i == SelectInSeq(fs.kids[p],
                         LAMBDA c : ~fs.node[c].live \/ fs.node[c].name = name)
    IN IF i = 0 THEN Null ELSE fs.kids[p][i]

\* cache_node: the node found by the file system becomes a child for good.
cache_node(fs, p, name, ent) ==
    AddChild(fs, p, [FileNode(name, IF fs.archive[ent].dir THEN "DIR" ELSE "FILE", "tarfs")
                        EXCEPT !.size = fs.archive[ent].size, !.ent = ent, !.cached = TRUE])

\* One component of the path.  w is the state of the walk: the file system, the node
\* reached, whether the walk has returned, and what it returns.
Component(w, name, last) ==
    LET fs == w.fs
        cur == w.cur
        c == get_child(fs, cur, name)
        ent == IF Has(fs, cur, "find_dir") THEN tarfs_find_dir(fs.archive, fs.node[cur].ent, name)
               ELSE 0
        missing == [w EXCEPT !.fs = Touch(fs, cur), !.cur = Null]
    IN IF w.done \/ ~fs.ok \/ name = "." THEN w
       ELSE IF cur = Null THEN [w EXCEPT !.fs.ok = FALSE]
       ELSE IF name = ".." THEN
           IF cur = fs.root THEN [w EXCEPT !.done = TRUE] ELSE [w EXCEPT !.cur = fs.up[cur]]
       ELSE IF c # Null THEN [w EXCEPT !.fs = Touch(fs, c), !.cur = c]
       ELSE IF ent # 0 THEN
           [w EXCEPT !.fs = cache_node(Touch(fs, cur), cur, name, ent), !.cur = fs.next]
       ELSE IF last THEN [missing EXCEPT !.done = TRUE, !.parent = cur, !.name = name]
       ELSE [missing EXCEPT !.done = Has(fs, cur, "find_dir")]

AtRoot(fs) == [fs |-> fs, cur |-> fs.root, done |-> FALSE, parent |-> Null, name |-> NoName]

\* resolve_path: the file system, the node (Null if there is none), and in the latter
\* case the parent and the name if only the last component is missing.
resolve_path(fs, path) ==
    LET walk[i \in 0..Len(path)] ==
            IF i = 0 THEN AtRoot(fs) ELSE Component(walk[i - 1], path[i], i = Len(path))
    IN walk[Len(path)]

\* What a path names, memory that was freed read as it was: the view of the tree that
\* the properties use.
Peek(fs, path) ==
    resolve_path([fs EXCEPT !.ok = TRUE,
                            !.node = [n \in Node |-> [fs.node[n] EXCEPT !.live = TRUE]]], path)
=============================================================================
