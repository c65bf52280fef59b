------------------------------- MODULE Tarfs -------------------------------
(***************************************************************************)
(* The tar file system (fs/tarfs.c) that is mounted as the root.  Its      *)
(* archive is read once, at boot, into a linked list of headers; a file or *)
(* directory is looked up by a walk along that list.                       *)
(*                                                                         *)
(* A header is a record [path, dir, size].  The path is the sequence of    *)
(* its components, a directory's name ends with a slash in the archive and *)
(* a file's does not.  Names are model values; the one operation on their  *)
(* characters that tarfs_find_dir does, appending a name to a name without *)
(* a slash in between, is the constant operator Glue.                      *)
(***************************************************************************)
EXTENDS Integers, SequencesExt, FiniteSetsExt

CONSTANTS
    Glue(_, _)  \* the name made of two names

\* A block of the archive in memory, as tarfs_init sees it, is a record
\* [zero, path, dir, size]: a header, or file data that would be misread as one, or
\* a block of zeros.
CONSTANT BlockSize  \* 512

ASSUME TarfsAssumption == BlockSize \in Nat \ {0}

\* jump of tarfs_init: the blocks that the data of a file takes.
Blocks(size) == (size + BlockSize - 1) \div BlockSize

\* tarfs_init: reads a header, steps over the data it announces, and stops at a
\* block of zeros or at the end of the buffer.  The list has the headers before
\* that: the record allocated for the zero block is linked to nothing.
tarfs_init(image) ==
    LET at[n \in 1..Len(image)] ==     \* the block of the n-th header, 0 after the last
            LET b == IF n = 1 THEN 1
                     ELSE LET prev == at[n - 1]
                          IN IF prev = 0 THEN 0 ELSE prev + 1 + Blocks(image[prev].size)
            IN IF b \in 1..Len(image) /\ ~image[b].zero THEN b ELSE 0
    IN [n \in 1..Cardinality({k \in DOMAIN at : at[k] # 0}) |-> image[at[n]]]

\* The path that tarfs_find_dir compares with for a child of an entry: the name in
\* the header, then the child's name.  Only a directory's name ends with a slash.
ChildPath(h, name) ==
    IF h.dir THEN Append(h.path, name)
    ELSE Append(Front(h.path), Glue(Last(h.path), name))

\* As it would be if the name of the directory were left out.
tarfs_find_dir_NameOnly(archive, ent, name) ==
    SelectInSeq(archive, LAMBDA h : h.path = <<name>>)

\* tarfs_find_dir: the first header with the right name, 0 if there is none.  In the
\* root (entry 0) all headers are compared, but those with more than one slash are
\* skipped; elsewhere the search starts at the directory's own header.
tarfs_find_dir(archive, ent, name) ==
    IF ent = 0 THEN SelectInSeq(archive, LAMBDA h : h.path = <<name>>)
    ELSE SelectInSubSeq(archive, ent, Len(archive),
                        LAMBDA h : h.path = ChildPath(archive[ent], name))

\* tarfs_read: the number of bytes copied; the root directory has no entry.
tarfs_read(archive, ent, offset, length) ==
    IF ent = 0 \/ offset > archive[ent].size THEN 0
    ELSE IF offset + length > archive[ent].size THEN archive[ent].size - offset
    ELSE length

\* tarfs_get_size of the root: the headers before the first one whose name is a
\* part of "/", which none is, and the size of the node.  Only the root has this
\* operation.
tarfs_get_size(archive, size) == Len(archive) + size
=============================================================================
