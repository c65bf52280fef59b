-------------------------------- MODULE Lists --------------------------------
(***************************************************************************)
(* The doubly linked list (libc/kernel/list.c) and the tree                *)
(* (libc/kernel/tree.c), at the level of pointers.  Entries and tree nodes *)
(* are objects of the slab allocator, which are not erased when they are   *)
(* freed; list_t is allocated from the heap.                               *)
(*                                                                         *)
(* The operations are functions on the memory mem, a record:               *)
(*   slabs  the slab allocator                                             *)
(*   entry  list_entry_t of the objects used as list entries               *)
(*   node   tree_node_t of the objects used as tree nodes                  *)
(*   list   list_t of the lists with a name, and of the children of nodes  *)
(*   head   head of the tree                                               *)
(*   ok     FALSE once a NULL pointer was followed                         *)
(*   hung   TRUE once kmalloc searches forever                             *)
(* Nothing happens after ok is lost or hung is set.                        *)
(***************************************************************************)
EXTENDS Slab

CONSTANT NamedLists  \* how many lists have a name

Named == -NamedLists..-1   \* they have negative numbers, the children of a node its own

EmptyList == [head |-> Null, tail |-> Null, length |-> 0]
NoEntry == [prev |-> Null, next |-> Null, value |-> Null]
TreeNode(value, parent) == [value |-> value, parent |-> parent]

\* list_create of the named lists, tree_create.
EmptyMemory ==
    [slabs |-> Registered, entry |-> [o \in Object |-> NoEntry],
     node |-> [o \in Object |-> TreeNode(Null, Null)],
     list |-> [l \in Named \cup Object |-> EmptyList],
     head |-> Null, ok |-> TRUE, hung |-> FALSE]

Stopped(mem) == mem.hung \/ ~mem.ok
Fault(mem) == [mem EXCEPT !.ok = FALSE]

\* kcalloc, then what the caller does with the object.
WithObject(mem, Use(_, _)) ==
    LET new == kmalloc(mem.slabs)
    IN IF Stopped(mem) THEN mem
       ELSE IF new.obj = Null THEN [mem EXCEPT !.hung = TRUE]
       ELSE Use([mem EXCEPT !.slabs = new.slabs], new.obj)

\* The entries from e on along next, and along prev.
RECURSIVE Forward(_, _), Backward(_, _)
Forward(mem, e) == IF e = Null THEN <<>> ELSE <<e>> \o Forward(mem, mem.entry[e].next)
Backward(mem, e) == IF e = Null THEN <<>> ELSE <<e>> \o Backward(mem, mem.entry[e].prev)

Entries(mem, l) == Forward(mem, mem.list[l].head)
Contents(mem, l) == LET s == Entries(mem, l) IN [i \in DOMAIN s |-> mem.entry[s[i]].value]
-----------------------------------------------------------------------------
\* As it would be if the old tail were not linked to the new entry.
list_append_NoLink(mem, l, e) ==
    LET a == mem.list[l]
    IN IF a.length = 0
       THEN [mem EXCEPT !.list[l] = [head |-> e, tail |-> e, length |-> 1]]
       ELSE [mem EXCEPT !.entry[e].prev = a.tail, !.list[l].tail = e, !.list[l].length = @ + 1]

list_append(mem, l, e) ==
    LET a == mem.list[l]
    IN IF a.length = 0
       THEN [mem EXCEPT !.list[l] = [head |-> e, tail |-> e, length |-> 1]]
       ELSE [mem EXCEPT !.entry = [@ EXCEPT ![a.tail].next = e, ![e].prev = a.tail],
                        !.list[l].tail = e, !.list[l].length = @ + 1]

list_insert(mem, l, value) ==
    WithObject(mem, LAMBDA m, e :
        list_append([m EXCEPT !.entry[e] = [NoEntry EXCEPT !.value = value]], l, e))

\* list_find: the first entry with the value.
list_find(mem, l, value) ==
    LET s == Entries(mem, l)
        i == SelectInSeq(s, LAMBDA e : mem.entry[e].value = value)
    IN IF i = 0 THEN Null ELSE s[i]

\* The links around an entry that is taken out; its own become NULL.
Unlink(entry, e) ==
    [o \in Object |->
        [entry[o] EXCEPT
            !.prev = IF o = e THEN Null ELSE IF o = entry[e].next THEN entry[e].prev ELSE @,
            !.next = IF o = e THEN Null ELSE IF o = entry[e].prev THEN entry[e].next ELSE @]]

\* head and tail after the deletion.
Ends(list, entry, e) ==
    [list EXCEPT !.head = IF @ = e THEN entry[e].next ELSE @,
                 !.tail = IF @ = e THEN entry[e].prev ELSE @]

\* As it would be if the entry were not freed.
list_delete_NoFree(mem, l, e) ==
    IF Stopped(mem) THEN mem
    ELSE IF e = Null THEN Fault(mem)
    ELSE [mem EXCEPT !.entry = Unlink(@, e),
                     !.list[l] = [Ends(@, mem.entry, e) EXCEPT !.length = @ - 1]]

list_delete(mem, l, e) ==
    IF Stopped(mem) THEN mem
    ELSE IF e = Null THEN Fault(mem)
    ELSE [mem EXCEPT !.entry = Unlink(@, e),
                     !.list[l] = [Ends(@, mem.entry, e) EXCEPT !.length = @ - 1],
                     !.slabs = kfree(@, e)]

\* list_remove_by_index: for the last index the tail is deleted first, and then the
\* walk to the index-th entry begins at what is left of the list.
list_remove_by_index(mem, l, index) ==
    LET m == IF index = mem.list[l].length THEN list_delete(mem, l, mem.list[l].tail) ELSE mem
        s == Entries(m, l)
    IN IF mem.list[l].length = 0 THEN mem
       ELSE IF index <= 1 THEN list_delete(m, l, m.list[l].head)
       ELSE IF index > Len(s) THEN m
       ELSE list_delete(m, l, s[index])
-----------------------------------------------------------------------------
\* The nodes below n in preorder, with n.  The children of a node are the values in
\* its list.
RECURSIVE Preorder(_, _)
Preorder(mem, n) ==
    LET kids == Contents(mem, n)
    IN <<n>> \o FlattenSeq([i \in DOMAIN kids |-> Preorder(mem, kids[i])])

\* tree_find_child_root: the node with the value, Null if there is none.
tree_find_child_root(mem, value) ==
    LET s == Preorder(mem, mem.head)
        i == SelectInSeq(s, LAMBDA n : mem.node[n].value = value)
    IN IF mem.head = Null \/ i = 0 THEN Null ELSE s[i]

\* tree_insert_child below a node that is not NULL, or as the head of an empty tree.
tree_insert_child(mem, n, value) ==
    WithObject(mem, LAMBDA m, new :
        LET made == [m EXCEPT !.node[new] = TreeNode(value, n), !.list[new] = EmptyList]
        IN IF m.head = Null THEN [made EXCEPT !.head = new]
           ELSE list_insert(made, n, new))

\* tree_remove: the walk along the parent's list ends at the deleted entry, whose
\* next is NULL.  Neither the node nor its list is freed.
tree_remove(mem, n) ==
    LET parent == mem.node[n].parent
    IN IF parent = Null THEN [mem EXCEPT !.head = IF @ = n THEN Null ELSE @]
       ELSE [list_delete(mem, parent, list_find(mem, parent, n)) EXCEPT !.node[n].parent = Null]
=============================================================================
