-------------------------------- MODULE Vfs --------------------------------
(***************************************************************************)
(* The calls of the virtual file system (fs/vfs.c): mounting, opening,     *)
(* creating, deleting and renaming, on the tree of FileTree and with the   *)
(* operations of Ramfs and Tarfs called through a node's file_ops.         *)
(*                                                                         *)
(* A call returns a record with the file system changed and the node that  *)
(* the code returns (Null for NULL).                                       *)
(***************************************************************************)
EXTENDS Ramfs

Result(fs, n) == [fs |-> fs, node |-> n]

\* A new root: it takes over the children of the old one, which is freed.
MountRoot(fs, rec) ==
    [NewNode(fs, [rec EXCEPT !.size = @ + fs.node[fs.root].size]) EXCEPT
        !.root = fs.next,
        !.node[fs.root].live = FALSE,
        !.kids[fs.next] = fs.kids[fs.root],
        !.kids[fs.root] = <<>>,
        !.up = [n \in Node |-> IF fs.up[n] = fs.root THEN fs.next ELSE fs.up[n]]]

\* The nodes that mkdir_vfs and the mounts make are children of the parent that
\* resolve_path reports, which it does not when the path exists.
mount_directly(fs, path, rec) ==
    IF path = <<>> THEN MountRoot(fs, rec)
    ELSE LET w == resolve_path(fs, path)
         IN IF w.parent = Null THEN w.fs
            ELSE [AddChild(w.fs, w.parent, rec) EXCEPT !.node[w.parent].size = @ + 1]

mkdir_vfs(fs, path) == mount_directly(fs, path, FileNode(Last(path), "DIR", "mkdir_vfs"))

vfs_install(archive) ==
    [ok |-> TRUE, archive |-> archive, root |-> 1, next |-> 2,
     node |-> [n \in Node |-> IF n = 1 THEN FileNode("[root]", "MOUNT_POINT", "vfs_install")
                              ELSE NoNode],
     kids |-> [n \in Node |-> <<>>],
     up |-> [n \in Node |-> Null]]

tarfs_mount == FileNode("[root_tarfs]", "MOUNT_POINT", "tarfs_mount")
ramfs_init(path) == FileNode(Last(path), "MOUNT_POINT", "ramfs_init")
console_init == FileNode("tty", "VIRTUAL_DEVICE", "console")

\* The file system when the first process starts.  The FAT volume at /mnt is left out.
Boot(image) ==
    LET installed == mkdir_vfs(vfs_install(tarfs_init(image)), <<"dev">>)
        rooted == mount_directly(installed, <<>>, tarfs_mount)
        console == mount_directly(rooted, <<"dev", "tty">>, console_init)
    IN mount_directly(console, <<"tmp">>, ramfs_init(<<"tmp">>))
-----------------------------------------------------------------------------
\* vfs_create: a plain node, without any operation.
vfs_create(fs, p, name) ==
    IF ~InTree(fs, p) THEN fs ELSE AddChild(fs, p, FileNode(name, "FILE", "vfs_create"))

\* file_ops.create of a directory, NULL in the tar file system and in the console.
CreateOp(fs, p, name) ==
    CASE ~Has(fs, p, "create") -> [fs EXCEPT !.ok = FALSE]
      [] fs.node[p].driver = "mkdir_vfs" -> vfs_create(fs, p, name)
      [] OTHER -> ramfs_create(fs, p, name)

\* What is left of open once there is a node: O_DIRECTORY refuses every node, since
\* the type is compared with two values and must equal both.
OpenNode(fs, n, mode) ==
    LET seen == Touch(fs, n)
    IN Result(seen, IF "O_DIRECTORY" \in mode THEN Null ELSE n)

\* The second look-up in create, once file_ops.create has returned.
Reopen(made, p, path, mode) ==
    LET OpenFound(w) == IF w.cur = Null THEN Result(w.fs, Null) ELSE OpenNode(w.fs, w.cur, mode)
    IN IF ~made.ok THEN Result(made, Null)
       ELSE OpenFound(resolve_path([made EXCEPT !.node[p].size = @ + 1], path))

\* create: the parent is counted up here as well as in ramfs_create.
create(fs, path, mode) ==
    LET CreateIn(w) ==
            IF ~w.fs.ok \/ w.cur # Null \/ w.parent = Null THEN Result(w.fs, Null)
            ELSE Reopen(CreateOp(w.fs, w.parent, w.name), w.parent, path, mode)
    IN CreateIn(resolve_path(fs, path))

\* open: with O_CREAT, NULL from create is not checked for.
open(fs, path, mode) ==
    LET OpenMade(made) == OpenNode(made.fs, made.node, mode)
        OpenAt(w) ==
            IF ~w.fs.ok THEN Result(w.fs, Null)
            ELSE IF w.cur # Null THEN OpenNode(w.fs, w.cur, mode)
            ELSE IF "O_CREAT" \notin mode THEN Result(w.fs, Null)
            ELSE OpenMade(create(w.fs, path, mode \ {"O_CREAT"}))
    IN IF path = <<>> THEN Result(fs, fs.root) ELSE OpenAt(resolve_path(fs, path))

\* mkdir: the new directory is looked up by its last component, from the root.
mkdir(fs, path) ==
    LET MkdirIn(w) ==
            IF w.parent = Null THEN Result(w.fs, Null)
            ELSE IF ~Has(w.fs, w.parent, "mkdir") THEN Result([w.fs EXCEPT !.ok = FALSE], Null)
            ELSE open(ramfs_mkdir(w.fs, w.parent, w.name), <<w.name>>, {})
        Mkdir(o) ==
            IF o.node # Null \/ ~o.fs.ok THEN Result(o.fs, Null)
            ELSE MkdirIn(resolve_path(o.fs, path))
    IN Mkdir(open(fs, path, {}))

\* The delete operation of a node and the removal from the tree.  A node without the
\* operation stays in the tree; in both cases the node is freed.
DeleteNode(fs, n) ==
    LET seen == Touch(fs, n)
        gone == ramfs_delete(seen, n)
    IN IF ~seen.ok THEN seen
       ELSE IF ~Has(fs, n, "delete") THEN Free(fs, n)
       ELSE IF ~gone.ok THEN gone
       ELSE Free(IF InTree(gone, n) THEN tree_remove(gone, n) ELSE gone, n)

delete(fs, path) ==
    LET Delete(o) == IF o.node = Null \/ ~o.fs.ok THEN o.fs ELSE DeleteNode(o.fs, o.node)
    IN Delete(open(fs, path, {}))

\* get_size: the tar root counts its headers, every other node has its size field.
get_size(fs, n) ==
    IF Has(fs, n, "get_size") THEN tarfs_get_size(fs.archive, fs.node[n].size)
    ELSE fs.node[n].size

\* move_file.  When the new path names a node it is the OLD node that is deleted and
\* freed, and then read again.  When it does not, new->fs is read through NULL unless
\* the old node has no file system data; the parent that is compared with NULL before
\* may be uninitialised.
move_file(fs, n, path) ==
    LET MoveTo(seen, target) ==
            IF ~seen.ok \/ (seen.node[target].type = "DIR" /\ get_size(seen, target) > 0) THEN seen
            ELSE Touch(DeleteNode(seen, n), n)
        Move(o) ==
            IF ~o.fs.ok THEN o.fs
            ELSE IF o.node = Null THEN [o.fs EXCEPT !.ok = ~HasFs(o.fs, n)]
            ELSE MoveTo(Touch(o.fs, o.node), o.node)
    IN Move(open(fs, path, {}))
=============================================================================
