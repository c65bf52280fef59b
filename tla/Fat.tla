-------------------------------- MODULE Fat ---------------------------------
(***************************************************************************)
(* The FAT file system (fs/fat.c) on a disk that may fail (pci/ahci.c).    *)
(*                                                                         *)
(* A volume is its allocation table, of which a sector holds EntriesPer    *)
(* Sector entries, and its clusters.  A cluster is divided into Slots      *)
(* units: directory entries, if a directory is read from it.  Lengths and  *)
(* offsets are counted in such units.  The contents of files are left out: *)
(* a unit that was written is "junk" to whoever reads it as a directory.   *)
(*                                                                         *)
(* The calls come through the virtual file system, which passes offset and *)
(* length to read and write in this order, while fat_read and fat_write    *)
(* take them the other way round.                                          *)
(***************************************************************************)
EXTENDS Ahci, FiniteSets, FiniteSetsExt

CONSTANTS
    LastCluster,       \* of the volume
    Limit,             \* capacity / clusterSize: reserved sectors are counted as clusters
    EntriesPerSector,
    Slots,             \* directory entries of a cluster
    RootCluster,       \* fatEbr32.root_cluster
    ParentCluster,     \* what is found where the cluster of a mount point would be
    Volumes,           \* volumes to begin with
    Length,            \* lengths and offsets that are used
    MaxFault           \* bound on the command that fails, counted within a call

ASSUME FatAssumption ==
    /\ LastCluster \in Nat /\ Limit > LastCluster /\ EntriesPerSector > 2
    /\ {Slots, MaxFault, RootCluster, ParentCluster} \subseteq Nat \ {0} /\ Length \subseteq Nat

Cluster == 2..LastCluster
Entry == 0..Limit - 1
End8 == Limit + 1  \* 0x0FFFFFF8, with which others end a chain
EndF == Limit + 2  \* 0x0FFFFFFF
Ends == {End8, EndF}

\* Directory entries.  "free" is the one that begins with 0, "junk" the data of a file.
Slot(name, kind, first, size) == [name |-> name, kind |-> kind, first |-> first, size |-> size]
Free == Slot("", "free", 0, 0)
Junk == Slot("?", "junk", 0, 0)
NoEntries == [i \in 1..Slots |-> Free]
-----------------------------------------------------------------------------
\* The sector of the table that has the entry for cluster c.
ReadSector(d, c) ==
    LET e == ahci_send_command(d, c \in Entry)
        first == c - (c % EntriesPerSector)
    IN [e EXCEPT !.buf = [i \in DOMAIN @ |->
                            IF ~Up(e) THEN @[i]
                            ELSE Fetched(e, IF first + i \in Entry THEN d.fat[first + i] ELSE 0, 0)]]

WriteSector(d, c) ==
    LET e == ahci_send_command(d, c \in Entry)
        first == c - (c % EntriesPerSector)
    IN IF ~Done(e) THEN e
       ELSE [e EXCEPT !.fat = [x \in Entry |->
                                 IF x - first \in DOMAIN d.buf THEN d.buf[x - first] ELSE @[x]]]

\* fat_get_next_cluster leaves the value in the buffer.
fat_get_next_cluster(d, c) == ReadSector(d, c)
After(d, c) == d.buf[c % EntriesPerSector]

\* As it would be if the sector were not read before it is written.
fat_update_fat_NoRead(d, c, v) ==
    WriteSector([d EXCEPT !.buf = [i \in DOMAIN @ |-> IF i = c % EntriesPerSector THEN v ELSE 0]], c)

fat_update_fat(d, c, v) ==
    LET r == ReadSector(d, c)
    IN IF Up(r) THEN WriteSector([r EXCEPT !.buf[c % EntriesPerSector] = v], c) ELSE r

\* fat_find_free_cluster reads no sector before the first boundary: up to there it
\* searches what the buffer was left with, and it ends behind the last cluster.  The ghost
\* wrong says that a cluster was taken that is in use or does not exist.
RECURSIVE FindFrom(_, _)
FindFrom(d, i) ==
    LET r == IF i % EntriesPerSector = 0 THEN ReadSector(d, i) ELSE d
    IN IF i = Limit \/ ~Up(r) THEN [disk |-> r, cluster |-> 0]
       ELSE IF After(r, i) = 0
            THEN [disk |-> [r EXCEPT !.wrong = @ \/ d.fat[i] # 0 \/ i \notin Cluster], cluster |-> i]
       ELSE FindFrom(r, i + 1)

fat_find_free_cluster(d) == FindFrom(d, 2)

\* A directory, and a cluster of which the first n units are replaced.
ReadCluster(d, c) == ahci_send_command(d, c \in Cluster)
EntriesOf(d, c) == Fetched(d, IF c \in Cluster THEN d.area[c] ELSE NoEntries, NoEntries)
WriteCluster(d, c, n, entries) ==
    LET e == ahci_send_command(d, c \in Cluster)
    IN IF ~Done(e) THEN e
       ELSE [e EXCEPT !.area[c] = [i \in 1..Slots |-> IF i <= n THEN entries[i] ELSE @[i]]]

\* fat_create_dir_entry: the first entry that is free or erased, in the first cluster of
\* the directory.
fat_create_dir_entry(d, dir, slot) ==
    LET r == ReadCluster(d, dir)
        entries == EntriesOf(r, dir)
        room == {i \in 1..Slots : entries[i].kind \in {"free", "erased"}}
    IN IF ~Up(r) \/ room = {} THEN [disk |-> r, ok |-> FALSE]
       ELSE [disk |-> WriteCluster(r, dir, Slots, [entries EXCEPT ![Min(room)] = slot]), ok |-> TRUE]

\* fat_create_file and fat_mkdir: the entry first, the table afterwards.  The cluster
\* of a directory is not cleared.
NewFile(d, dir, kind) ==
    LET found == fat_find_free_cluster(d)
        entered == fat_create_dir_entry(found.disk, dir, Slot("new", kind, found.cluster, 0))
    IN IF found.cluster = 0 THEN [disk |-> found.disk, ok |-> FALSE]
       ELSE IF ~entered.ok THEN entered
       ELSE [disk |-> fat_update_fat(entered.disk, found.cluster, EndF), ok |-> TRUE]

MarkEnd(d, cur) == [disk |-> fat_update_fat(d, cur, EndF), ok |-> TRUE]

\* fat_write_file_data: a further cluster is looked for behind the first one each time,
\* so that everything from the second cluster on is written to the same place.
RECURSIVE Chunks(_, _, _, _, _)
Chunks(d, start, cur, left, unit) ==
    LET n == Min({left, Slots})
        w == WriteCluster(d, cur, n, [i \in 1..Slots |-> unit])
        r == fat_get_next_cluster(w, start)
        found == fat_find_free_cluster(r)
        linked == fat_update_fat(found.disk, cur, found.cluster)
    IN IF ~Up(d) THEN [disk |-> d, ok |-> FALSE]
       ELSE IF left = 0 THEN MarkEnd(d, cur)
       ELSE IF left = n THEN Chunks(w, start, cur, 0, unit)
       ELSE IF ~Up(r) THEN [disk |-> r, ok |-> FALSE]
       ELSE IF After(r, start) # EndF THEN Chunks(r, start, After(r, start), left - n, unit)
       ELSE IF found.cluster = 0 THEN [disk |-> found.disk, ok |-> FALSE]
       ELSE Chunks(linked, start, found.cluster, left - n, unit)
fat_write_file_data(d, start, size, unit) == Chunks(d, start, start, size, unit)

\* As it would be if the new cluster were not marked as the end.
Extend_NoEnd(d, start, new) ==
    fat_update_fat(fat_write_file_data(d, start, Slots, Free).disk, start, new)

\* fat_write clears the last cluster, and appends a new one.
Extend(d, start, new) ==
    fat_update_fat(
        fat_update_fat(fat_write_file_data(d, start, Slots, Free).disk, start, new), new, EndF)

\* fat_write's way to the cluster of the offset.
RECURSIVE Seek(_, _, _, _)
Seek(d, start, offset, size) ==
    LET r == fat_get_next_cluster(d, start)
        found == fat_find_free_cluster(r)
    IN IF ~Up(d) THEN [disk |-> d, ok |-> FALSE]
       ELSE IF offset < Slots THEN [disk |-> d, ok |-> TRUE, start |-> start, offset |-> offset]
       ELSE IF ~Up(r) THEN [disk |-> r, ok |-> FALSE]
       ELSE IF After(r, start) \notin Ends THEN Seek(r, After(r, start), offset - Slots, size)
       ELSE IF offset <= size THEN [disk |-> r, ok |-> FALSE]
       ELSE IF found.cluster = 0 THEN [disk |-> found.disk, ok |-> FALSE]
       ELSE Seek(Extend(found.disk, start, found.cluster), found.cluster, offset - Slots, size)

\* fat_update_dir_entry_size and fat_remove_dir_entry take the mount point's file
\* system for the entry of a directory, and search in the cluster they find there.  The
\* node's name is empty, so that it equals an entry that is free.
UpdateParent(d, Changed(_)) ==
    LET r == ReadCluster(d, ParentCluster)
        entries == EntriesOf(r, ParentCluster)
    IN IF Up(r) /\ \E i \in 1..Slots : entries[i].kind = "free"
       THEN WriteCluster(r, ParentCluster, Slots, Changed(entries)) ELSE r

fat_update_dir_entry_size(d) == UpdateParent(d, LAMBDA entries : entries)
fat_remove_dir_entry(d) == UpdateParent(d, LAMBDA entries : [entries EXCEPT ![1] = Free])

\* fat_write: with the arguments of the virtual file system, size is the handle's offset
\* and offset the length.  The size of the file ends up in the node only.
fat_write(d, node, size, offset) ==
    LET to == Seek(d, node.first, offset, node.size)
        written == fat_write_file_data(to.disk, to.start, size, Junk)
    IN IF ~to.ok THEN to.disk
       ELSE IF ~written.ok THEN written.disk
       ELSE fat_update_dir_entry_size(written.disk)

\* fat_read and fat_read_file_data.
RECURSIVE SeekRead(_, _, _), ReadChunks(_, _, _)
ReadChunks(d, cur, left) ==
    LET e == ReadCluster(d, cur)
        r == fat_get_next_cluster(e, cur)
    IN IF left = 0 \/ ~Up(d) THEN d
       ELSE IF left <= Slots THEN e
       ELSE IF ~Up(r) \/ After(r, cur) \in Ends THEN r
       ELSE ReadChunks(r, After(r, cur), left - Slots)
SeekRead(d, start, offset) ==
    LET r == fat_get_next_cluster(d, start)
    IN IF offset < Slots \/ ~Up(d) THEN [disk |-> d, ok |-> Up(d), start |-> start]
       ELSE IF ~Up(r) \/ After(r, start) \in Ends THEN [disk |-> r, ok |-> FALSE]
       ELSE SeekRead(r, After(r, start), offset - Slots)
fat_read(d, node, size, offset) ==
    LET to == SeekRead(d, node.first, offset)
    IN IF to.ok THEN ReadChunks(to.disk, to.start, size) ELSE to.disk

\* As it would be if an entry were cleared before it is read.
RECURSIVE FreeChain_ClearsFirst(_, _)
FreeChain_ClearsFirst(d, c) ==
    LET r == fat_get_next_cluster(fat_update_fat(d, c, 0), c)
    IN IF c \in Ends \/ ~Up(d) THEN d
       ELSE IF c = 0 /\ d.fat[0] = 0 THEN [d EXCEPT !.status = "endless"]
       ELSE IF ~Up(r) THEN r
       ELSE FreeChain_ClearsFirst(r, After(r, c))

\* The loop that gives a chain back.  A chain that leads to 0 goes on with the first
\* entry of the table, and if that is 0 for ever.
RECURSIVE FreeChain(_, _)
FreeChain(d, c) ==
    LET r == fat_get_next_cluster(d, c)
    IN IF c \in Ends \/ ~Up(d) THEN d
       ELSE IF c = 0 /\ d.fat[0] = 0 THEN [d EXCEPT !.status = "endless"]
       ELSE IF ~Up(r) THEN r
       ELSE FreeChain(fat_update_fat(r, c, 0), After(r, c))

\* fat_get_size of a directory: what is in front of the first free entry.
Real(slot) == slot.kind \notin {"free", "erased", "lfn"}
Listed(entries) ==
    LET free == {i \in 1..Slots : entries[i].kind = "free"}
    IN {i \in 1..Slots : (\A j \in free : i < j) /\ Real(entries[i])}

fat_delete(d, node) ==
    LET counted == ReadCluster(d, node.first)
        full == Listed(EntriesOf(counted, node.first)) # {}
        freed == FreeChain(IF node.kind = "dir" THEN counted ELSE d, node.first)
    IN IF node.kind = "dir" /\ (full \/ ~Up(counted)) THEN counted
       ELSE fat_remove_dir_entry(IF node.kind = "dir" THEN freed ELSE fat_update_dir_entry_size(freed))

\* fat_find_dir at the mount point: the first entry that is not skipped is compared with
\* the name again and again.
fat_find_dir(d, name) ==
    LET r == ReadCluster(d, RootCluster)
        entries == EntriesOf(r, RootCluster)
        slot == entries[Min({i \in 1..Slots : entries[i].kind \notin {"erased", "lfn"}} \cup {Slots})]
    IN IF ~Up(r) \/ slot.kind = "free" THEN [disk |-> r, ok |-> FALSE]
       ELSE IF slot.name # name THEN [disk |-> [r EXCEPT !.status = "searching"], ok |-> FALSE]
       ELSE [disk |-> r, ok |-> TRUE,
             node |-> [kind |-> slot.kind, first |-> slot.first, size |-> slot.size]]

\* fat_find_dir in a directory reads a place in front of the clusters, where the offset
\* is in sectors and not in bytes: there is nothing there, or something without end.
FindBelow(d, node) ==
    LET r == ahci_send_command(d, TRUE)
    IN IF node.kind # "dir" THEN {d}
       ELSE IF ~Up(r) THEN {r} ELSE {r, [r EXCEPT !.status = "searching"]}
-----------------------------------------------------------------------------
VARIABLES
    fat, area,  \* the volume
    status,     \* "running", "down", or in a loop: "searching" or "endless"
    nodes,      \* what is open
    deletes,    \* ghost: deletions so far, up to 2
    failed,     \* ghost: the fault there was, "none", "busy" or "stop"
    wrong       \* ghost: a cluster that is not free has been taken

vars == <<fat, area, status, nodes, deletes, failed, wrong>>

\* The disk when a call begins.  The buffer holds what the heap was left with; only the
\* entries in front of the first boundary are ever looked at.  One command fails at most.
Calls ==
    {[fat |-> fat, area |-> area, sent |-> 0, fault |-> f, status |-> "running", wrong |-> wrong,
      buf |-> [i \in 0..EntriesPerSector - 1 |-> IF i \in used THEN EndF ELSE 0]] :
        f \in IF failed = "none" THEN Faults(MaxFault) ELSE {NoFault},
        used \in SUBSET (2..EntriesPerSector - 1)}

Ended(d) ==
    /\ fat' = d.fat /\ area' = d.area /\ status' = d.status /\ wrong' = d.wrong
    /\ failed' = IF d.fault[2] \in 1..d.sent THEN d.fault[1] ELSE failed

\* Bound of the model: nothing is looked at after a command was lost.
Running == status = "running" /\ failed # "busy"

Init ==
    /\ \E v \in Volumes : fat = v.fat /\ area = v.area
    /\ status = "running" /\ nodes = {}
    /\ deletes = 0 /\ failed = "none" /\ wrong = FALSE

Names == {"a", "b"}

open(name) ==
    /\ Running
    /\ \E d \in Calls :
          LET found == fat_find_dir(d, name)
          IN Ended(found.disk) /\ nodes' = IF found.ok THEN nodes \cup {found.node} ELSE nodes
    /\ UNCHANGED deletes

\* The offset of the handle is whatever lseek set it to.
read(node, offset, length) ==
    /\ Running
    /\ \E d \in Calls : Ended(fat_read(d, node, offset, length))
    /\ UNCHANGED <<nodes, deletes>>

write(node, offset, length) ==
    /\ Running
    /\ \E d \in Calls : Ended(fat_write(d, node, offset, length))
    /\ UNCHANGED <<nodes, deletes>>

delete(name) ==
    /\ Running
    /\ \E d \in Calls :
          LET found == fat_find_dir(d, name)
          IN Ended(IF found.ok THEN fat_delete(found.disk, found.node) ELSE found.disk)
    /\ deletes' = Min({deletes + 1, 2})
    /\ UNCHANGED nodes

\* open with O_CREAT and mkdir, for a path below an entry of the root.  The file cannot be
\* found after it was made, and open then uses the NULL that it gets.
create(name) ==
    /\ Running
    /\ \E d \in Calls :
          LET found == fat_find_dir(d, name)
          IN IF ~found.ok THEN Ended(found.disk)
             ELSE \E b \in FindBelow(found.disk, found.node) :
                     IF ~Up(b) THEN Ended(b)
                     ELSE Ended([NewFile(b, found.node.first, "file").disk EXCEPT !.status = "down"])
    /\ UNCHANGED <<nodes, deletes>>

mkdir(name) ==
    /\ Running
    /\ \E d \in Calls :
          LET found == fat_find_dir(d, name)
          IN IF ~found.ok THEN Ended(found.disk)
             ELSE \E b \in FindBelow(found.disk, found.node) :
                     Ended(IF Up(b) /\ found.node.kind = "dir"
                           THEN NewFile(b, found.node.first, "dir").disk ELSE b)
    /\ UNCHANGED <<nodes, deletes>>

\* After a panic, a reset or a power failure the volume is mounted again.  Without the
\* boot sector fat_mount returns NULL, which is mounted and used all the same.
fat_mount ==
    /\ status # "running" /\ failed # "busy"
    /\ \E d \in Calls :
          LET boot == ahci_send_command(d, TRUE)
          IN Ended(IF Done(boot) THEN ReadCluster(boot, RootCluster)
                   ELSE [boot EXCEPT !.status = "down"])
    /\ nodes' = {}
    /\ UNCHANGED deletes

Next ==
    \/ \E name \in Names : open(name) \/ delete(name) \/ create(name) \/ mkdir(name)
    \/ \E node \in nodes, offset, length \in Length :
          read(node, offset, length) \/ write(node, offset, length)
    \/ fat_mount
    \/ failed = "busy" /\ UNCHANGED vars

Spec == Init /\ [][Next]_vars
-----------------------------------------------------------------------------
TypeOK ==
    /\ fat \in [Entry -> Entry \cup Ends]
    /\ \A c \in Cluster, i \in 1..Slots :
          area[c][i] \in [name : Names \cup {"", "?", "new"}, first : Entry, size : Nat,
                          kind : {"free", "erased", "lfn", "junk", "file", "dir"}]
    /\ status \in {"running", "down", "searching", "endless"}
    /\ deletes \in 0..2 /\ failed \in {"none", "busy", "stop"} /\ wrong \in BOOLEAN

\* The clusters that one gets to from c, and whether one comes back to one of them.
RECURSIVE Chain(_, _, _)
Chain(f, c, seen) == IF c \in Ends \cup seen THEN seen ELSE Chain(f, f[c], seen \cup {c})

\* No chain of the table leads back to itself: not if fat_find_free_cluster returns a
\* cluster in use, since the cluster that is linked last is marked as the end, and not if
\* the power fails on the way.  It takes both, or a command that is lost.
NoLoop ==
    failed = "none" \/ (failed = "stop" /\ ~wrong) =>
        \A c \in 2..Limit - 1 : fat[c] \in 2..Limit - 1 => c \notin Chain(fat, fat[c], {})

\* As long as no command failed and no wrong cluster was taken, no two clusters are
\* followed by the same one, and none is followed by one that is free.
NoSharing ==
    failed = "none" /\ ~wrong =>
        \A c \in 2..Limit - 1 :
            fat[c] \in 2..Limit - 1 =>
                /\ fat[fat[c]] # 0
                /\ \A x \in 2..Limit - 1 : fat[x] = fat[c] => x = c

\* The chains of the table stay disjoint and end, as far as fat_update_fat and
\* fat_find_free_cluster keep them so when commands fail and the power goes.
ChainsOK == TypeOK /\ NoLoop /\ NoSharing

\* The first two deletions of a file end, although its entry stays and the second one
\* frees a chain that is free already.  (The third one need not end: the second has
\* cleared the first entry of the table.)
DeleteEnds == status = "endless" => deletes = 2 \/ failed # "none" \/ wrong

\* A step leaves every entry outside the chain of the first file of the directory alone.
OwnChain ==
    LET slots == {i \in 1..Slots : area[RootCluster][i].kind \notin {"erased", "lfn"}}
        own == Chain(fat, area[RootCluster][Min(slots)].first, {})
    IN failed' # "busy" /\ ~wrong' =>
        \A c \in Entry \ own : fat[c] # 0 => fat'[c] = fat[c]

\* The entry of the table for a cluster of another file is never changed, even when the
\* power fails in the middle: every update writes back the rest of its sector as it was.
OthersKept == [][OwnChain]_vars
=============================================================================
