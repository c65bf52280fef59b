---------------------------- MODULE Files_proof ----------------------------
(***************************************************************************)
(* Proofs about the file system calls: FilesOK, BytesKept and              *)
(* DescriptorStable, for every archive, set of paths and capacity.         *)
(*                                                                         *)
(* A call is a composition of functions on the file system, so the proof   *)
(* is one about values: Valid is kept by each of them.                     *)
(***************************************************************************)
EXTENDS Files, FiniteSetTheorems, SequenceTheorems, WellFoundedInduction, TLAPS

-----------------------------------------------------------------------------
\* What every function on the file system keeps.

Shape(f) ==
    f = [ok |-> f.ok, archive |-> f.archive, root |-> f.root, next |-> f.next,
         node |-> f.node, kids |-> f.kids, up |-> f.up]

Typed(f) ==
    /\ f.archive \in Seq(Header)
    /\ f.node \in [Node -> NodeType]
    /\ f.kids \in [Node -> Seq(Node)] /\ f.up \in [Node -> Node \cup {Null}]
    /\ f.root \in Node

\* Nodes are numbered as they are allocated; only the root was mounted above older ones.
Rising(f) ==
    /\ f.root < f.next /\ f.up[f.root] = Null
    /\ \A n \in Node : f.up[n] # Null => n < f.next /\ (f.up[n] < n \/ f.up[n] = f.root)

Doubly(f) ==
    /\ \A n, c \in Node : c \in Range(f.kids[n]) <=> f.up[c] = n
    /\ \A n \in Node : IsInjective(f.kids[n])

Unique(f) ==
    \A n, c, d \in Node :
        /\ c # d /\ {c, d} \subseteq Range(f.kids[n])
        /\ f.node[c].live /\ f.node[d].live
        => f.node[c].name # f.node[d].name

\* The buffer is at least as long as bsize, and agrees with what was written.
Kept(r) ==
    /\ Len(r.written) = r.bsize /\ Len(r.buf) >= r.bsize
    /\ \A i \in 1..r.bsize : r.written[i] # None => r.buf[i] = r.written[i]

Good(f) ==
    /\ Typed(f) /\ Rising(f) /\ Doubly(f) /\ Unique(f)
    /\ \A n \in Node : Kept(f.node[n])

\* Nothing is said once the outcome is undefined or the bound on nodes is passed.
Counts(f) == f.ok /\ f.next <= MaxNode + 1

Valid(f) ==
    /\ Shape(f) /\ f.ok \in BOOLEAN /\ f.next \in Nat
    /\ Counts(f) => Good(f)

\* g comes after f in a call.
Later(f, g) == f.next <= g.next /\ (g.ok => f.ok)

-----------------------------------------------------------------------------
\* Walks.

\* Every set of natural numbers that is not empty has a least element.
LEMMA LeastNat ==
    ASSUME NEW S, S \subseteq Nat, S # {}
    PROVE  Min(S) \in S /\ \A x \in S : Min(S) =< x
<1> DEFINE R == {ss \in Nat \X Nat : ss[1] < ss[2]}
<1>1. IsWellFoundedOn(R, Nat)
  BY NatLessThanWellFounded DEF OpToRel
<1>2. \E x \in S : \A y \in S : ~(<<y, x>> \in R)
  <2> HIDE DEF R
  <2> QED BY <1>1, WFMin
<1>3. \E x \in S : \A y \in S : x =< y
  <2>1. PICK x \in S : \A y \in S : ~(<<y, x>> \in R)
    BY <1>2
  <2>2. ASSUME NEW y \in S PROVE x =< y
    <3>1. x \in Nat /\ y \in Nat
      OBVIOUS
    <3>2. SUFFICES ASSUME y < x PROVE FALSE
      BY <3>1
    <3>3. <<y, x>> \in R
      BY <3>1, <3>2
    <3> QED BY <2>1, <3>3
  <2> QED BY <2>2
<1> QED BY <1>3 DEF Min

\* resolve_path goes from component to component.
LEMMA WalkSteps ==
    ASSUME NEW f, NEW path, Len(path) \in Nat
    PROVE  \E w : /\ w[0] = AtRoot(f)
                  /\ \A i \in 1..Len(path) :
                        w[i] = Component(w[i - 1], path[i], i = Len(path))
                  /\ resolve_path(f, path) = w[Len(path)]
<1> DEFINE T == Len(path)
           Step(v, i) == Component(v, path[i], i = T)
           B == AtRoot(f)
           Is(g, n) == g = [i \in 0..n |-> IF i = 0 THEN B ELSE Step(g[i - 1], i)]
           Bad == {n \in 0..T : ~ \E g : Is(g, n)}
<1>0. T \in Nat
  OBVIOUS
<1>1. resolve_path(f, path) = (CHOOSE g : Is(g, T))[T]
  BY DEF resolve_path
<1> HIDE DEF T, Step, B, Is
<1>2. ASSUME Bad # {} PROVE FALSE
  <2> DEFINE m == Min(Bad)
  <2>1. m \in Bad /\ \A x \in Bad : m =< x
    <3>1. Bad \subseteq Nat
      BY <1>0
    <3> HIDE DEF Bad
    <3> QED BY <3>1, <1>2, LeastNat
  <2> HIDE DEF m
  <2>2. CASE m = 0
    <3>1. Is([i \in 0..0 |-> B], 0)
      BY DEF Is
    <3> QED BY <2>1, <2>2, <3>1
  <2>3. CASE m # 0
    <3>1. m - 1 \in 0..T /\ m \in Nat /\ m - 1 \notin Bad
      BY <1>0, <2>1, <2>3
    <3>2. PICK g : Is(g, m - 1)
      BY <3>1
    <3> DEFINE h == [i \in 0..m |-> IF i < m THEN g[i] ELSE Step(g[m - 1], m)]
    <3>3. ASSUME NEW i \in 0..m PROVE h[i] = IF i = 0 THEN B ELSE Step(h[i - 1], i)
      <4>1. CASE i = 0 BY <2>3, <3>1, <3>2, <4>1 DEF Is
      <4>2. CASE i # 0 /\ i < m
        <5>1. i \in 0..(m - 1) /\ i - 1 \in 0..m /\ i - 1 < m
          BY <3>1, <4>2
        <5>2. h[i] = g[i] /\ h[i - 1] = g[i - 1]
          BY <5>1, <4>2
        <5>3. g[i] = Step(g[i - 1], i)
          BY <3>2, <5>1, <4>2 DEF Is
        <5> QED BY <5>2, <5>3, <4>2
      <4>3. CASE i = m
        <5>1. h[m] = Step(g[m - 1], m) /\ h[m - 1] = g[m - 1]
          BY <3>1, <2>3
        <5> QED BY <5>1, <4>3, <2>3
      <4> QED BY <3>1, <4>1, <4>2, <4>3
    <3>4. Is(h, m)
      BY <3>3 DEF Is
    <3> QED BY <2>1, <3>4
  <2> QED BY <2>2, <2>3
<1>3. Is(CHOOSE g : Is(g, T), T)
  <2>1. \E g : Is(g, T)
    BY <1>0, <1>2
  <2> QED BY <2>1
<1> DEFINE w == CHOOSE g : Is(g, T)
<1>4. w[0] = B /\ \A i \in 1..T : w[i] = Step(w[i - 1], i)
  <2> HIDE DEF w
  <2>1. w = [i \in 0..T |-> IF i = 0 THEN B ELSE Step(w[i - 1], i)]
    BY <1>3 DEF w, Is
  <2> QED BY <1>0, <2>1
<1> HIDE DEF w
<1> QED BY <1>1, <1>4 DEF w, T, B, Step
-----------------------------------------------------------------------------
\* The functions that change the tree.

\* The list of children grows at its end.
LEMMA AppendFacts ==
    ASSUME NEW S, NEW s \in Seq(S), NEW x \in S
    PROVE  /\ Append(s, x) \in Seq(S)
           /\ Range(Append(s, x)) = Range(s) \cup {x}
           /\ IsInjective(s) /\ x \notin Range(s) => IsInjective(Append(s, x))
<1>1. Append(s, x) \in Seq(S)
  OBVIOUS
<1>2. Range(Append(s, x)) = Range(s) \cup {x}
  <2>1. \A i \in DOMAIN s : Append(s, x)[i] = s[i]
    OBVIOUS
  <2>2. DOMAIN Append(s, x) = DOMAIN s \cup {Len(s) + 1} /\ Append(s, x)[Len(s) + 1] = x
    OBVIOUS
  <2> QED BY <2>1, <2>2 DEF Range
<1>3. IsInjective(s) /\ x \notin Range(s) => IsInjective(Append(s, x))
  BY DEF IsInjective, Range
<1> QED BY <1>1, <1>2, <1>3

LEMMA TouchFacts ==
    ASSUME NEW f, NEW n, Valid(f)
    PROVE  LET g == Touch(f, n)
           IN /\ Valid(g) /\ Later(f, g)
              /\ g.node = f.node /\ g.kids = f.kids /\ g.up = f.up /\ g.archive = f.archive
              /\ g.root = f.root /\ g.next = f.next
              /\ g.ok => n # Null /\ f.node[n].live
<1> DEFINE g == Touch(f, n)
<1>1. g = [f EXCEPT !.ok = f.ok /\ n # Null /\ f.node[n].live]
  BY DEF Touch
<1>2. /\ Shape(g) /\ g.ok \in BOOLEAN
      /\ g.node = f.node /\ g.kids = f.kids /\ g.up = f.up /\ g.archive = f.archive
      /\ g.root = f.root /\ g.next = f.next
      /\ g.ok => f.ok /\ n # Null /\ f.node[n].live
  <2> HIDE DEF g
  <2> QED BY <1>1 DEF Valid, Shape
<1> HIDE DEF g
<1>3. Good(f) => Good(g)
  BY <1>2 DEF Good, Typed, Rising, Doubly, Unique
<1>4. Valid(g) /\ Later(f, g)
  BY <1>2, <1>3 DEF Valid, Counts, Later
<1> QED BY <1>2, <1>4 DEF g

LEMMA AddIs ==
    ASSUME NEW f, NEW p, NEW rec, Shape(f), f.ok \in BOOLEAN
    PROVE  LET g == AddChild(f, p, rec)
           IN /\ Shape(g)
              /\ g.node = [f.node EXCEPT ![f.next] = rec]
              /\ g.kids = [f.kids EXCEPT ![p] = Append(@, f.next)]
              /\ g.up = [f.up EXCEPT ![f.next] = p]
              /\ g.archive = f.archive /\ g.root = f.root /\ g.next = f.next + 1
              /\ g.ok \in BOOLEAN /\ (g.ok <=> f.ok /\ ~Dangling(f))
<1> DEFINE h == NewNode(f, rec)
<1>1. /\ Shape(h) /\ h.node = [f.node EXCEPT ![f.next] = rec]
      /\ h.kids = f.kids /\ h.up = f.up
      /\ h.archive = f.archive /\ h.root = f.root /\ h.next = f.next + 1
      /\ h.ok \in BOOLEAN /\ (h.ok <=> f.ok /\ ~Dangling(f))
  <2> DEFINE D == f.ok /\ ~Dangling(f)
             k == [f EXCEPT !.node[f.next] = rec, !.next = f.next + 1, !.ok = D]
  <2>1. h = k /\ D \in BOOLEAN
    BY DEF NewNode
  <2>2. /\ Shape(k) /\ k.node = [f.node EXCEPT ![f.next] = rec]
        /\ k.kids = f.kids /\ k.up = f.up
        /\ k.archive = f.archive /\ k.root = f.root /\ k.next = f.next + 1 /\ k.ok = D
    <3> HIDE DEF D, k
    <3>1. k = [f EXCEPT !.node[f.next] = rec, !.next = f.next + 1, !.ok = D]
      BY DEF k
    <3> QED BY <3>1 DEF Shape
  <2> HIDE DEF k, h
  <2> QED BY <2>1, <2>2
<1> HIDE DEF h
<1>2. AddChild(f, p, rec) = [h EXCEPT !.kids[p] = Append(@, f.next), !.up[f.next] = p]
  BY DEF AddChild, tree_insert_child, h
<1> DEFINE g == AddChild(f, p, rec)
<1>3. /\ Shape(g) /\ g.ok = h.ok
      /\ g.node = h.node /\ g.archive = h.archive /\ g.root = h.root /\ g.next = h.next
      /\ g.kids = [h.kids EXCEPT ![p] = Append(@, f.next)] /\ g.up = [h.up EXCEPT ![f.next] = p]
  <2> HIDE DEF g
  <2> QED BY <1>1, <1>2 DEF Shape, g
<1> HIDE DEF g
<1> QED BY <1>1, <1>3 DEF g

\* No child of p that is still there has the name.
Lacks(f, p, name) == \A c \in Range(f.kids[p]) : f.node[c].live => f.node[c].name # name

\* A node is added below a node that lacks its name.
LEMMA AddKeeps ==
    ASSUME NEW f, NEW p, NEW rec, Valid(f),
           Counts(f) => /\ p \in Node /\ p < f.next /\ rec \in NodeType /\ Kept(rec)
                        /\ Lacks(f, p, rec.name)
    PROVE  LET g == AddChild(f, p, rec)
           IN Valid(g) /\ Later(f, g) /\ g.next = f.next + 1 /\ g.archive = f.archive
<1> DEFINE g == AddChild(f, p, rec)
           new == f.next
<1>1. /\ Shape(g)
      /\ g.node = [f.node EXCEPT ![new] = rec]
      /\ g.kids = [f.kids EXCEPT ![p] = Append(@, new)]
      /\ g.up = [f.up EXCEPT ![new] = p]
      /\ g.archive = f.archive /\ g.root = f.root /\ g.next = new + 1
      /\ g.ok \in BOOLEAN /\ (g.ok <=> f.ok /\ ~Dangling(f))
  BY AddIs DEF Valid
<1>2. new \in Nat /\ f.ok \in BOOLEAN
  BY DEF Valid
<1> HIDE DEF g
<1>3. ASSUME Counts(g) PROVE Good(g)
  <2>1. Counts(f) /\ new \in Nat /\ new =< MaxNode /\ MaxNode \in Nat
    BY <1>1, <1>2, <1>3, TreeAssumption DEF Counts
  <2>2. /\ p \in Node /\ p < new /\ rec \in NodeType /\ Kept(rec) /\ Lacks(f, p, rec.name)
        /\ Typed(f) /\ Rising(f) /\ Doubly(f) /\ Unique(f)
        /\ \A n \in Node : Kept(f.node[n])
    BY <2>1 DEF Valid, Good
  <2>3. new \in Node /\ f.root \in Node /\ f.root # new /\ f.up[new] = Null
    <3>1. new \in Node
      BY <2>1, <2>2 DEF Node
    <3> QED BY <2>1, <2>2, <3>1 DEF Node, Typed, Rising
  <2>4. \A n \in Node : new \notin Range(f.kids[n])
    BY <2>2, <2>3 DEF Doubly, Node, Null
  <2>5. /\ f.kids[p] \in Seq(Node) /\ IsInjective(f.kids[p])
    BY <2>2 DEF Typed, Doubly
  <2>6. /\ Append(f.kids[p], new) \in Seq(Node)
        /\ Range(Append(f.kids[p], new)) = Range(f.kids[p]) \cup {new}
        /\ IsInjective(Append(f.kids[p], new))
    BY <2>2, <2>3, <2>4, <2>5, AppendFacts
  <2>7. /\ \A n \in Node : g.kids[n] = IF n = p THEN Append(f.kids[p], new) ELSE f.kids[n]
        /\ \A n \in Node : g.up[n] = IF n = new THEN p ELSE f.up[n]
        /\ \A n \in Node : g.node[n] = IF n = new THEN rec ELSE f.node[n]
    BY <1>1, <2>2, <2>3 DEF Typed
  <2>8. Typed(g)
    BY <1>1, <2>2, <2>3, <2>6 DEF Typed
  <2>9. Rising(g)
    <3>1. g.root < g.next /\ g.up[g.root] = Null
      BY <1>1, <2>1, <2>2, <2>3, <2>7 DEF Rising, Node
    <3>2. ASSUME NEW n \in Node, g.up[n] # Null
          PROVE  n < g.next /\ (g.up[n] < n \/ g.up[n] = g.root)
      <4>1. CASE n = new
        BY <1>1, <2>1, <2>2, <2>7, <4>1
      <4>2. CASE n # new
        <5>1. f.up[n] # Null /\ g.up[n] = f.up[n]
          BY <2>7, <3>2, <4>2
        <5>2. n < new /\ (f.up[n] < n \/ f.up[n] = f.root)
          BY <5>1, <2>2 DEF Rising
        <5> QED BY <1>1, <2>1, <5>1, <5>2 DEF Node
      <4> QED BY <4>1, <4>2
    <3> QED BY <3>1, <3>2 DEF Rising
  <2>10. \A n, c \in Node :
            c \in Range(g.kids[n]) <=> c \in Range(f.kids[n]) \/ (n = p /\ c = new)
    <3> TAKE n, c \in Node
    <3>1. CASE n = p
      <4>1. g.kids[n] = Append(f.kids[p], new)
        BY <2>7, <3>1
      <4> QED BY <4>1, <2>6, <3>1
    <3>2. CASE n # p
      <4>1. g.kids[n] = f.kids[n]
        BY <2>7, <3>2
      <4> QED BY <4>1, <3>2
    <3> QED BY <3>1, <3>2
  <2>11. Doubly(g)
    <3>1. \A n, c \in Node : c \in Range(g.kids[n]) <=> g.up[c] = n
      <4> TAKE n, c \in Node
      <4>1. c \in Range(f.kids[n]) <=> f.up[c] = n
        BY <2>2 DEF Doubly
      <4>2. n # Null
        BY DEF Node, Null
      <4>3. c \in Range(g.kids[n]) <=> c \in Range(f.kids[n]) \/ (n = p /\ c = new)
        BY <2>10
      <4>4. g.up[c] = IF c = new THEN p ELSE f.up[c]
        BY <2>7
      <4> QED BY <2>3, <4>1, <4>2, <4>3, <4>4
    <3>2. \A n \in Node : IsInjective(g.kids[n])
      BY <2>2, <2>6, <2>7 DEF Doubly
    <3> QED BY <3>1, <3>2 DEF Doubly
  <2>12. Unique(g)
    <3> SUFFICES ASSUME NEW n \in Node, NEW c \in Node, NEW d \in Node, c # d,
                        {c, d} \subseteq Range(g.kids[n]), g.node[c].live, g.node[d].live
                 PROVE  g.node[c].name # g.node[d].name
      BY DEF Unique
    <3>1. CASE c = new
      <4>1. n = p /\ d \in Range(f.kids[p]) /\ g.node[d] = f.node[d] /\ g.node[c] = rec
        BY <3>1, <2>4, <2>7, <2>10
      <4> QED BY <2>2, <4>1 DEF Lacks
    <3>2. CASE d = new
      <4>1. n = p /\ c \in Range(f.kids[p]) /\ g.node[c] = f.node[c] /\ g.node[d] = rec
        BY <3>2, <2>4, <2>7, <2>10
      <4> QED BY <2>2, <4>1 DEF Lacks
    <3>3. CASE c # new /\ d # new
      <4>1. {c, d} \subseteq Range(f.kids[n]) /\ g.node[c] = f.node[c] /\ g.node[d] = f.node[d]
        BY <3>3, <2>7, <2>10
      <4> QED BY <2>2, <4>1 DEF Unique
    <3> QED BY <3>1, <3>2, <3>3
  <2>13. \A n \in Node : Kept(g.node[n])
    BY <2>2, <2>7
  <2> QED BY <2>8, <2>9, <2>11, <2>12, <2>13 DEF Good
<1>4. Valid(g) /\ Later(f, g)
  BY <1>1, <1>2, <1>3 DEF Valid, Later
<1> QED BY <1>1, <1>4 DEF g

\* Deleting one entry of a list of children.
LEMMA RemoveAtFacts ==
    ASSUME NEW S, NEW s \in Seq(S), NEW n \in DOMAIN s
    PROVE  /\ RemoveAt(s, n) \in Seq(S)
           /\ s[n] \in S
           /\ Range(s) = Range(RemoveAt(s, n)) \cup {s[n]}
           /\ IsInjective(s) => IsInjective(RemoveAt(s, n)) /\ s[n] \notin Range(RemoveAt(s, n))
<1> DEFINE r == RemoveAt(s, n)
<1>1. Len(s) \in Nat /\ n \in 1..Len(s) /\ DOMAIN s = 1..Len(s)
  OBVIOUS
<1> DEFINE a == SubSeq(s, 1, n - 1)
           b == SubSeq(s, n + 1, Len(s))
<1>a. a \in Seq(S) /\ Len(a) = n - 1 /\ \A i \in 1..(n - 1) : a[i] = s[i]
  BY <1>1
<1>b. b \in Seq(S) /\ Len(b) = Len(s) - n /\ \A i \in 1..(Len(s) - n) : b[i] = s[n + i]
  BY <1>1
<1>c. r = a \o b
  BY DEF RemoveAt
<1> HIDE DEF a, b, r
<1>2. r \in Seq(S) /\ Len(r) = Len(s) - 1 /\ DOMAIN r = 1..(Len(s) - 1)
  <2>1. a \o b \in Seq(S) /\ Len(a \o b) = Len(a) + Len(b)
    BY <1>a, <1>b, ConcatProperties
  <2>2. Len(a) + Len(b) = Len(s) - 1
    BY <1>1, <1>a, <1>b
  <2>3. r \in Seq(S) /\ Len(r) = Len(s) - 1
    BY <1>c, <2>1, <2>2
  <2> QED BY <2>3
<1>3. \A i \in 1..(Len(s) - 1) : r[i] = IF i < n THEN s[i] ELSE s[i + 1]
  <2> TAKE i \in 1..(Len(s) - 1)
  <2>1. r[i] = IF i <= Len(a) THEN a[i] ELSE b[i - Len(a)]
    BY <1>1, <1>a, <1>b, <1>c
  <2>2. CASE i < n
    BY <1>1, <1>a, <2>1, <2>2
  <2>3. CASE ~(i < n)
    <3>1. i - Len(a) \in 1..(Len(s) - n) /\ n + (i - Len(a)) = i + 1
      BY <1>1, <1>a, <2>3
    <3> QED BY <1>1, <1>a, <1>b, <2>1, <2>3, <3>1
  <2> QED BY <2>2, <2>3
<1>4. Range(s) = Range(r) \cup {s[n]}
  <2>1. \A i \in DOMAIN s : s[i] \in Range(r) \cup {s[n]}
    <3> TAKE i \in DOMAIN s
    <3>1. CASE i < n
      <4>1. i \in DOMAIN r /\ r[i] = s[i] BY <1>1, <1>2, <1>3, <3>1
      <4> QED BY <4>1 DEF Range
    <3>2. CASE i > n
      <4>1. i - 1 \in DOMAIN r /\ r[i - 1] = s[i] BY <1>1, <1>2, <1>3, <3>2
      <4> QED BY <4>1 DEF Range
    <3> QED BY <1>1, <3>1, <3>2
  <2>2. \A i \in DOMAIN r : r[i] \in Range(s)
    BY SMTT(30), <1>1, <1>2, <1>3 DEF Range
  <2> QED BY <2>1, <2>2 DEF Range
<1>5. IsInjective(s) => IsInjective(r) /\ s[n] \notin Range(r)
  <2> SUFFICES ASSUME IsInjective(s)
               PROVE  IsInjective(r) /\ \A i \in DOMAIN r : r[i] # s[n]
    BY DEF Range
  <2> DEFINE k(i) == IF i < n THEN i ELSE i + 1
  <2>1. \A i \in DOMAIN r : k(i) \in DOMAIN s /\ r[i] = s[k(i)] /\ k(i) # n
    BY <1>1, <1>2, <1>3
  <2>2. \A i, j \in DOMAIN r : k(i) = k(j) => i = j
    BY <1>1, <1>2
  <2> HIDE DEF k
  <2> QED BY <2>1, <2>2 DEF IsInjective
<1> QED BY <1>1, <1>2, <1>4, <1>5 DEF r

LEMMA RemoveFirstFacts ==
    ASSUME NEW S, NEW s \in Seq(S), NEW x \in Range(s), IsInjective(s)
    PROVE  /\ RemoveFirst(s, x) \in Seq(S) /\ IsInjective(RemoveFirst(s, x))
           /\ Range(RemoveFirst(s, x)) = Range(s) \ {x}
<1> DEFINE I == {i \in 1..Len(s) : s[i] = x}
<1>1. DOMAIN s = 1..Len(s) /\ Len(s) \in Nat
  OBVIOUS
<1>2. I # {} /\ I \subseteq Nat /\ I \subseteq DOMAIN s
  BY <1>1 DEF Range
<1>3. RemoveFirst(s, x) = RemoveAt(s, Min(I))
  <2>1. SelectInSeq(s, LAMBDA v : v = x) = Min(I)
    BY <1>2 DEF SelectInSeq
  <2> QED BY <2>1, <1>2 DEF RemoveFirst
<1>4. Min(I) \in I
  <2> HIDE DEF I
  <2> QED BY <1>2, LeastNat
<1>5. Min(I) \in DOMAIN s /\ s[Min(I)] = x
  BY <1>2, <1>4
<1> HIDE DEF I
<1> QED BY <1>3, <1>5, RemoveAtFacts

\* One node changes; a node does not come back or get another name.
LEMMA NodeKeeps ==
    ASSUME NEW f, NEW g, NEW n, NEW rec, Valid(f), Shape(g), g.ok \in BOOLEAN, g.ok => f.ok,
           g.next = f.next /\ g.root = f.root /\ g.kids = f.kids /\ g.up = f.up,
           g.archive = f.archive,
           Counts(g) => /\ n \in Node /\ rec \in NodeType /\ Kept(rec)
                        /\ g.node = [f.node EXCEPT ![n] = rec]
                        /\ rec.live => f.node[n].live /\ rec.name = f.node[n].name
    PROVE  Valid(g) /\ Later(f, g)
<1>1. ASSUME Counts(g) PROVE Good(g)
  <2>1. Good(f)
    BY <1>1 DEF Valid, Counts
  <2>2. g.node \in [Node -> NodeType]
        /\ \A m \in Node : g.node[m] = IF m = n THEN rec ELSE f.node[m]
    BY <1>1, <2>1 DEF Good, Typed
  <2>3. Typed(g) /\ Rising(g) /\ Doubly(g)
    BY <2>1, <2>2 DEF Good, Typed, Rising, Doubly
  <2>4. \A m \in Node : Kept(g.node[m])
    BY <1>1, <2>1, <2>2 DEF Good
  <2>5. \A m \in Node : g.node[m].live => f.node[m].live /\ g.node[m].name = f.node[m].name
    BY <1>1, <2>2
  <2>6. Unique(g)
    <3> SUFFICES ASSUME NEW m \in Node, NEW c \in Node, NEW d \in Node, c # d,
                        {c, d} \subseteq Range(g.kids[m]), g.node[c].live, g.node[d].live
                 PROVE  g.node[c].name # g.node[d].name
      BY DEF Unique
    <3> QED BY <2>1, <2>5 DEF Good, Unique
  <2> QED BY <2>3, <2>4, <2>6 DEF Good
<1> QED BY <1>1 DEF Valid, Later

\* Nothing changes, or the outcome becomes undefined.
LEMMA SameKeeps ==
    ASSUME NEW f, NEW ok \in BOOLEAN, Valid(f), ok => f.ok
    PROVE  LET g == [f EXCEPT !.ok = ok]
           IN /\ Valid(g) /\ Later(f, g) /\ g.ok = ok
              /\ g.node = f.node /\ g.kids = f.kids /\ g.up = f.up
              /\ g.root = f.root /\ g.next = f.next
<1> DEFINE g == [f EXCEPT !.ok = ok]
<1>1. /\ Shape(g) /\ g.ok = ok /\ g.next = f.next /\ g.root = f.root /\ g.node = f.node
      /\ g.kids = f.kids /\ g.up = f.up /\ g.archive = f.archive
  BY DEF Valid, Shape
<1> HIDE DEF g
<1>2. Good(f) => Good(g)
  BY <1>1 DEF Good, Typed, Rising, Doubly, Unique
<1> QED BY <1>1, <1>2 DEF g, Valid, Later, Counts

LEMMA FieldTypes ==
    ASSUME NEW r \in NodeType
    PROVE  /\ r.size \in Nat /\ r.ent \in Nat /\ r.bsize \in {0, BufferSize} /\ r.live \in BOOLEAN
           /\ r.buf \in Seq(Byte \cup {Junk}) /\ r.written \in Seq(Byte \cup {None})
           /\ r.name \in Name \cup {NoName, "[root]", "[root_tarfs]"} /\ r.driver \in DOMAIN Ops
BY DEF NodeType

LEMMA SizeType ==
    ASSUME NEW r \in NodeType, NEW k \in Nat, NEW rec, rec = [r EXCEPT !.size = k]
    PROVE  /\ rec \in NodeType /\ rec.live = r.live /\ rec.name = r.name
           /\ rec.buf = r.buf /\ rec.bsize = r.bsize /\ rec.written = r.written
BY DEF NodeType

\* Directories count their entries.
LEMMA SizeKeeps ==
    ASSUME NEW f, NEW n, Valid(f), Counts(f) => n \in Node
    PROVE  LET g == [f EXCEPT !.node[n].size = @ + 1]
           IN /\ Valid(g) /\ Later(f, g) /\ g.next = f.next /\ g.root = f.root
              /\ g.kids = f.kids /\ g.up = f.up /\ g.ok = f.ok
<1> DEFINE g == [f EXCEPT !.node[n].size = @ + 1]
           rec == [f.node[n] EXCEPT !.size = @ + 1]
<1>1. /\ Shape(g) /\ g.ok = f.ok /\ g.next = f.next /\ g.root = f.root
      /\ g.kids = f.kids /\ g.up = f.up /\ g.archive = f.archive
      /\ g.node = [f.node EXCEPT ![n] = rec]
  <2> HIDE DEF g
  <2>1. g = [f EXCEPT !.node[n].size = @ + 1]
    BY DEF g
  <2> QED BY <2>1 DEF Valid, Shape
<1> HIDE DEF g
<1>2. ASSUME Counts(f) PROVE rec \in NodeType /\ Kept(rec) /\ rec.live = f.node[n].live
                             /\ rec.name = f.node[n].name
  <2>1. n \in Node /\ f.node[n] \in NodeType /\ Kept(f.node[n])
    BY <1>2 DEF Valid, Good, Typed
  <2>2. rec \in NodeType /\ rec.live = f.node[n].live /\ rec.name = f.node[n].name
        /\ rec.buf = f.node[n].buf /\ rec.bsize = f.node[n].bsize
        /\ rec.written = f.node[n].written
    <3>1. f.node[n].size + 1 \in Nat
      <4>1. f.node[n].size \in Nat
        BY <2>1, FieldTypes
      <4> QED BY <4>1
    <3> QED BY <2>1, <3>1, SizeType
  <2> HIDE DEF rec
  <2> QED BY <2>1, <2>2 DEF Kept
<1> HIDE DEF rec
<1>3. Valid(g) /\ Later(f, g)
  BY <1>1, <1>2, NodeKeeps DEF Counts, Valid
<1> QED BY <1>1, <1>3 DEF g

LEMMA FileNodeType ==
    ASSUME NEW name \in Name \cup {NoName, "[root]", "[root_tarfs]"}, NEW type \in Type,
           NEW driver \in DOMAIN Ops
    PROVE  LET rec == FileNode(name, type, driver)
           IN /\ rec \in NodeType /\ Kept(rec) /\ rec.name = name /\ rec.live = TRUE
              /\ rec.size = 0 /\ rec.ent = 0 /\ rec.driver = driver
<1> DEFINE rec == FileNode(name, type, driver)
<1>1. <<>> \in Seq(Byte \cup {Junk}) /\ <<>> \in Seq(Byte \cup {None})
  BY EmptySeq
<1>0. Len(<<>>) = 0
  BY <1>1, EmptySeq
<1>2. rec \in NodeType
  BY <1>1 DEF NodeType, FileNode
<1>3. rec.buf = <<>> /\ rec.written = <<>> /\ rec.bsize = 0 /\ rec.name = name /\ rec.live = TRUE
      /\ rec.size = 0 /\ rec.ent = 0 /\ rec.driver = driver
  BY DEF FileNode
<1> HIDE DEF rec
<1>4. Kept(rec)
  <2>1. 0 >= 0 /\ \A i \in 1..0 : FALSE
    OBVIOUS
  <2> QED BY <1>0, <1>3, <2>1 DEF Kept
<1> QED BY <1>2, <1>3, <1>4 DEF rec

LEMMA Drivers ==
    DOMAIN Ops = {"vfs_install", "mkdir_vfs", "vfs_create", "tarfs_mount", "tarfs", "ramfs_init",
                  "ramfs_mkdir", "ramfs_file", "console"}
BY DEF Ops

LEMMA NoNodeType == NoNode \in NodeType /\ Kept(NoNode) /\ NoNode.live = FALSE
<1> DEFINE r == FileNode(NoName, "FILE", "vfs_create")
<1>1. r \in NodeType /\ Kept(r)
  <2>1. NoName \in Name \cup {NoName, "[root]", "[root_tarfs]"} /\ "FILE" \in Type
        /\ "vfs_create" \in DOMAIN Ops
    BY Drivers DEF Type
  <2> HIDE DEF r
  <2> QED BY <2>1, FileNodeType DEF r
<1>2. NoNode = [r EXCEPT !.live = FALSE]
  BY DEF NoNode
<1> HIDE DEF r
<1>3. NoNode \in NodeType /\ NoNode.buf = r.buf /\ NoNode.bsize = r.bsize
      /\ NoNode.written = r.written /\ NoNode.live = FALSE
  BY <1>1, <1>2 DEF NodeType
<1> QED BY <1>1, <1>3 DEF Kept

LEMMA FreeKeeps ==
    ASSUME NEW f, NEW n, Valid(f), Counts(f) => n \in Node
    PROVE  LET g == Free(f, n) IN Valid(g) /\ Later(f, g) /\ g.next = f.next
<1> DEFINE t == Touch(f, n)
           dead == [f.node[n] EXCEPT !.live = FALSE]
           rec == IF n = f.root \/ f.up[n] # Null THEN dead ELSE NoNode
           g == Free(f, n)
<1>1. /\ Valid(t) /\ Later(f, t) /\ t.node = f.node /\ t.kids = f.kids /\ t.up = f.up
      /\ t.archive = f.archive /\ t.root = f.root /\ t.next = f.next
  BY TouchFacts
<1>2. g = [t EXCEPT !.node[n] = IF n = f.root \/ f.up[n] # Null THEN [@ EXCEPT !.live = FALSE]
                                ELSE NoNode]
  BY DEF Free
<1> HIDE DEF g, t
<1>3. /\ Shape(g) /\ g.ok = t.ok /\ g.next = t.next /\ g.root = t.root
      /\ g.kids = t.kids /\ g.up = t.up /\ g.archive = t.archive
      /\ g.node = [t.node EXCEPT ![n] = rec]
  <2> HIDE DEF NoNode
  <2> QED BY <1>1, <1>2 DEF Valid, Shape
<1>4. ASSUME Counts(f) PROVE rec \in NodeType /\ Kept(rec) /\ rec.live = FALSE
  <2>1. f.node[n] \in NodeType /\ Kept(f.node[n])
    BY <1>4 DEF Valid, Good, Typed
  <2>2. dead \in NodeType /\ dead.live = FALSE /\ dead.buf = f.node[n].buf
        /\ dead.bsize = f.node[n].bsize /\ dead.written = f.node[n].written
    <3>1. ASSUME NEW r \in NodeType, NEW d, d = [r EXCEPT !.live = FALSE]
          PROVE  d \in NodeType /\ d.live = FALSE /\ d.buf = r.buf /\ d.bsize = r.bsize
                 /\ d.written = r.written
      BY <3>1 DEF NodeType
    <3> QED BY <2>1, <3>1
  <2> HIDE DEF dead
  <2>3. Kept(dead)
    BY <2>1, <2>2 DEF Kept
  <2> QED BY <2>2, <2>3, NoNodeType
<1> HIDE DEF rec
<1>5. Valid(g) /\ Later(t, g)
  <2>1. Counts(g) => Counts(f)
    BY <1>1, <1>3 DEF Counts, Later
  <2>2. g.ok \in BOOLEAN
    BY <1>1, <1>3 DEF Valid
  <2>3. ASSUME Counts(g)
        PROVE  /\ n \in Node /\ rec \in NodeType /\ Kept(rec)
               /\ g.node = [t.node EXCEPT ![n] = rec] /\ ~rec.live
    BY <1>3, <1>4, <2>1, <2>3
  <2> QED BY <1>1, <1>3, <2>2, <2>3, NodeKeeps
<1> QED BY <1>1, <1>3, <1>5 DEF g, Later, Valid

LEMMA tree_removeKeeps ==
    ASSUME NEW f, NEW n, Valid(f), Counts(f) => n \in Node
    PROVE  LET g == tree_remove(f, n) IN Valid(g) /\ Later(f, g) /\ g.next = f.next
<1> DEFINE g == tree_remove(f, n)
           p == f.up[n]
<1>1. CASE f.up[n] = Null
  <2>1. g = [f EXCEPT !.ok = FALSE]
    BY <1>1 DEF tree_remove
  <2> HIDE DEF g
  <2> QED BY <2>1, SameKeeps DEF g
<1>2. CASE f.up[n] # Null
  <2>1. g = [f EXCEPT !.kids[p] = RemoveFirst(@, n), !.up[n] = Null]
    BY <1>2 DEF tree_remove
  <2> HIDE DEF g
  <2>2. /\ Shape(g) /\ g.ok = f.ok /\ g.next = f.next /\ g.root = f.root
        /\ g.archive = f.archive /\ g.node = f.node
        /\ g.kids = [f.kids EXCEPT ![p] = RemoveFirst(@, n)] /\ g.up = [f.up EXCEPT ![n] = Null]
    BY <2>1 DEF Valid, Shape
  <2>3. ASSUME Counts(g) PROVE Good(g)
    <3>1. n \in Node /\ Good(f)
      BY <2>2, <2>3 DEF Counts, Valid
    <3> HIDE DEF p
    <3>2. p \in Node /\ n \in Range(f.kids[p]) /\ f.kids[p] \in Seq(Node) /\ IsInjective(f.kids[p])
          /\ p = f.up[n]
      BY <1>2, <3>1 DEF Good, Typed, Doubly, p
    <3> DEFINE short == RemoveFirst(f.kids[p], n)
    <3>3. short \in Seq(Node) /\ IsInjective(short) /\ Range(short) = Range(f.kids[p]) \ {n}
      BY <3>2, RemoveFirstFacts
    <3> HIDE DEF short
    <3>4. /\ \A m \in Node : g.kids[m] = IF m = p THEN short ELSE f.kids[m]
          /\ \A m \in Node : g.up[m] = IF m = n THEN Null ELSE f.up[m]
          /\ g.kids \in [Node -> Seq(Node)] /\ g.up \in [Node -> Node \cup {Null}]
      BY <2>2, <3>1, <3>2, <3>3 DEF Good, Typed, short
    <3>5. Typed(g)
      BY <2>2, <3>1, <3>4 DEF Good, Typed
    <3>6. Rising(g)
      <4>1. Rising(f)
        BY <3>1 DEF Good
      <4>2. g.root < g.next /\ g.up[g.root] = Null
        BY <2>2, <3>1, <3>4, <4>1 DEF Rising, Good, Typed
      <4>3. ASSUME NEW m \in Node, g.up[m] # Null
            PROVE  m < g.next /\ (g.up[m] < m \/ g.up[m] = g.root)
        <5>1. g.up[m] = f.up[m]
          BY <3>4, <4>3
        <5> QED BY <2>2, <4>1, <4>3, <5>1 DEF Rising
      <4> QED BY <4>2, <4>3 DEF Rising
    <3>7. \A m, c \in Node : c \in Range(g.kids[m]) <=> c \in Range(f.kids[m]) /\ ~(m = p /\ c = n)
      <4> TAKE m, c \in Node
      <4>1. CASE m = p
        <5>1. g.kids[m] = short
          BY <3>4, <4>1
        <5> QED BY <5>1, <4>1, <3>3
      <4>2. CASE m # p
        <5>1. g.kids[m] = f.kids[m]
          BY <3>4, <4>2
        <5> QED BY <5>1, <4>2
      <4> QED BY <4>1, <4>2
    <3>8. Doubly(g)
      <4>1. ASSUME NEW m \in Node, NEW c \in Node
            PROVE  c \in Range(g.kids[m]) <=> g.up[c] = m
        <5>1. c \in Range(f.kids[m]) <=> f.up[c] = m
          BY <3>1 DEF Good, Doubly
        <5>2. m # Null
          BY DEF Node, Null
        <5>3. c \in Range(g.kids[m]) <=> c \in Range(f.kids[m]) /\ ~(m = p /\ c = n)
          BY <3>7
        <5>4. g.up[c] = IF c = n THEN Null ELSE f.up[c]
          BY <3>4
        <5> QED BY <3>2, <5>1, <5>2, <5>3, <5>4
      <4>2. \A m \in Node : IsInjective(g.kids[m])
        BY <3>1, <3>3, <3>4 DEF Good, Doubly
      <4> QED BY <4>1, <4>2 DEF Doubly
    <3>9. Unique(g)
      <4> SUFFICES ASSUME NEW m \in Node, NEW c \in Node, NEW d \in Node, c # d,
                          {c, d} \subseteq Range(g.kids[m]), g.node[c].live, g.node[d].live
                   PROVE  g.node[c].name # g.node[d].name
        BY DEF Unique
      <4>1. {c, d} \subseteq Range(f.kids[m])
        BY <3>7
      <4> QED BY <2>2, <3>1, <4>1 DEF Good, Unique
    <3> QED BY <2>2, <3>1, <3>5, <3>6, <3>8, <3>9 DEF Good
  <2> QED BY <2>2, <2>3 DEF Valid, Later, g
<1> QED BY <1>1, <1>2

\* ramfs_write keeps the first bsize bytes and stores the same bytes in buffer and history.
LEMMA WriteKeeps ==
    ASSUME NEW f, NEW n, NEW offset, NEW length \in Nat, NEW byte \in Byte, Valid(f),
           Counts(f) => n \in Node /\ offset \in Nat
    PROVE  LET g == ramfs_write(f, n, offset, length, byte) IN Valid(g) /\ Later(f, g)
<1> DEFINE g == ramfs_write(f, n, offset, length, byte)
           o == f.node[n]
           end == offset + length
           old == IF end > o.bsize THEN Grow(o.buf, o.bsize, end) ELSE o.buf
           Put(seq) == [i \in DOMAIN seq |-> IF i \in offset + 1..end THEN byte ELSE seq[i]]
           size == IF o.size < end THEN end ELSE o.size
           ok == f.ok /\ HasFs(f, n)
           rec == [o EXCEPT !.buf = Put(old), !.written = Put(o.written), !.size = size]
<1>1. g = [f EXCEPT !.ok = ok, !.node[n].buf = Put(old), !.node[n].written = Put(@),
                    !.node[n].size = IF @ < end THEN end ELSE @]
  BY DEF ramfs_write
<1>2. ok \in BOOLEAN /\ (ok => f.ok)
  OBVIOUS
<1> HIDE DEF g, ok
<1>3. ASSUME Counts(f) PROVE rec \in NodeType /\ Kept(rec) /\ rec.live = o.live /\ rec.name = o.name
  <2>1. o \in NodeType /\ Kept(o) /\ offset \in Nat /\ end \in Nat
    BY <1>3 DEF Valid, Good, Typed
  <2>2. /\ o.size \in Nat /\ o.bsize \in Nat
        /\ o.buf \in Seq(Byte \cup {Junk}) /\ o.written \in Seq(Byte \cup {None})
    <3> HIDE DEF o
    <3> QED BY <2>1, FieldTypes, RamfsAssumption
  <2> HIDE DEF o, end
  <2>3. old \in Seq(Byte \cup {Junk}) /\ Len(old) >= o.bsize
        /\ \A i \in 1..o.bsize : old[i] = o.buf[i]
    <3>1. CASE end > o.bsize
      <4>1. old = [i \in 1..end |-> IF i <= o.bsize THEN o.buf[i] ELSE Junk]
        BY <3>1 DEF Grow
      <4>2. DOMAIN o.buf = 1..Len(o.buf) /\ Len(o.buf) >= o.bsize /\ Len(o.buf) \in Nat
            /\ \A i \in 1..Len(o.buf) : o.buf[i] \in Byte \cup {Junk}
        BY <2>1, <2>2 DEF Kept
      <4>3. old \in [1..end -> Byte \cup {Junk}]
        BY <2>1, <2>2, <4>1, <4>2
      <4>4. old \in Seq(Byte \cup {Junk}) /\ Len(old) = end
        BY <2>1, <4>3, LenProperties, SeqDef
      <4> QED BY <2>1, <2>2, <3>1, <4>1, <4>4
    <3>2. CASE ~(end > o.bsize)
      BY <2>1, <2>2, <3>2 DEF Kept
    <3> QED BY <3>1, <3>2
  <2> HIDE DEF old
  <2>4. ASSUME NEW S, NEW s \in Seq(S), byte \in S
        PROVE  Put(s) \in Seq(S) /\ Len(Put(s)) = Len(s)
               /\ \A i \in 1..Len(s) : Put(s)[i] = IF i \in offset + 1..end THEN byte ELSE s[i]
    <3>1. Len(s) \in Nat /\ DOMAIN s = 1..Len(s) /\ \A i \in 1..Len(s) : s[i] \in S
      BY <2>4
    <3>2. Put(s) \in [1..Len(s) -> S]
      BY <2>4, <3>1
    <3>3. Put(s) \in Seq(S) /\ Len(Put(s)) = Len(s)
      <4> HIDE DEF Put
      <4> QED BY <3>1, <3>2, LenProperties, SeqDef
    <3> QED BY <3>1, <3>3
  <2>5. Put(old) \in Seq(Byte \cup {Junk}) /\ Len(Put(old)) = Len(old)
        /\ \A i \in 1..Len(old) : Put(old)[i] = IF i \in offset + 1..end THEN byte ELSE old[i]
    BY <2>3, <2>4
  <2>6. Put(o.written) \in Seq(Byte \cup {None}) /\ Len(Put(o.written)) = Len(o.written)
        /\ \A i \in 1..Len(o.written) :
              Put(o.written)[i] = IF i \in offset + 1..end THEN byte ELSE o.written[i]
    BY <2>2, <2>4
  <2>7. size \in Nat
    BY <2>1, <2>2
  <2> DEFINE b == Put(old)
             w == Put(o.written)
  <2> HIDE DEF size, Put, b, w
  <2>8. rec \in NodeType /\ rec.live = o.live /\ rec.name = o.name /\ rec.bsize = o.bsize
        /\ rec.buf = b /\ rec.written = w
    <3>2. rec = [o EXCEPT !.buf = b, !.written = w, !.size = size]
      BY DEF b, w
    <3>3. b \in Seq(Byte \cup {Junk}) /\ w \in Seq(Byte \cup {None})
      BY <2>5, <2>6 DEF b, w
    <3> HIDE DEF rec
    <3> QED BY <2>1, <2>7, <3>2, <3>3 DEF NodeType
  <2> HIDE DEF rec
  <2>9. Kept(rec)
    <3>1. Len(w) = o.bsize /\ Len(b) >= o.bsize /\ Len(old) \in Nat
      BY <2>1, <2>3, <2>5, <2>6 DEF Kept, b, w
    <3>2. ASSUME NEW i \in 1..o.bsize, w[i] # None PROVE b[i] = w[i]
      <4>1. i \in 1..Len(old) /\ i \in 1..Len(o.written)
        BY <2>1, <2>2, <2>3, <3>1 DEF Kept
      <4>2. b[i] = IF i \in offset + 1..end THEN byte ELSE old[i]
        BY <4>1, <2>5 DEF b
      <4>3. w[i] = IF i \in offset + 1..end THEN byte ELSE o.written[i]
        BY <4>1, <2>6 DEF w
      <4>4. o.written[i] # None => o.buf[i] = o.written[i]
        BY <2>1 DEF Kept
      <4>5. old[i] = o.buf[i]
        BY <2>3
      <4> QED BY <3>2, <4>2, <4>3, <4>4, <4>5
    <3> QED BY <2>8, <3>1, <3>2 DEF Kept
  <2> QED BY <2>8, <2>9
<1>4. /\ Shape(g) /\ g.ok = ok /\ g.next = f.next /\ g.root = f.root
      /\ g.kids = f.kids /\ g.up = f.up /\ g.archive = f.archive
      /\ (Counts(f) => g.node = [f.node EXCEPT ![n] = rec])
  <2> DEFINE b == Put(old)
             w == Put(o.written)
  <2>1. g = [f EXCEPT !.ok = ok, !.node[n].buf = b, !.node[n].written = w, !.node[n].size = size]
    BY <1>1
  <2>2. rec = [o EXCEPT !.buf = b, !.written = w, !.size = size]
    OBVIOUS
  <2> HIDE DEF b, w, size, rec
  <2>3. /\ Shape(g) /\ g.ok = ok /\ g.next = f.next /\ g.root = f.root
        /\ g.kids = f.kids /\ g.up = f.up /\ g.archive = f.archive
        /\ g.node = [f.node EXCEPT ![n].buf = b, ![n].written = w, ![n].size = size]
    BY <2>1 DEF Valid, Shape
  <2>4. ASSUME Counts(f) PROVE g.node = [f.node EXCEPT ![n] = rec]
    <3>1. n \in Node /\ f.node \in [Node -> NodeType]
      BY <2>4 DEF Valid, Good, Typed
    <3> QED BY <2>2, <2>3, <3>1
  <2> QED BY <2>3, <2>4
<1> HIDE DEF o, end, old, Put, size, rec
<1>5. Counts(g) => Counts(f)
  BY <1>2, <1>4 DEF Counts
<1>6. Valid(g) /\ Later(f, g)
  BY <1>2, <1>3, <1>4, <1>5, NodeKeeps DEF o
<1> QED BY <1>6 DEF g

-----------------------------------------------------------------------------
\* Looking things up.

LEMMA get_childFacts ==
    ASSUME NEW f, NEW p, NEW name, f.kids[p] \in Seq(Node)
    PROVE  LET c == get_child(f, p, name)
           IN /\ c # Null => c \in Range(f.kids[p]) /\ (~f.node[c].live \/ f.node[c].name = name)
              /\ c = Null => \A k \in Range(f.kids[p]) : f.node[k].live /\ f.node[k].name # name
<1> DEFINE s == f.kids[p]
           I == {i \in 1..Len(s) : ~f.node[s[i]].live \/ f.node[s[i]].name = name}
           i == SelectInSeq(s, LAMBDA c : ~f.node[c].live \/ f.node[c].name = name)
<1>1. Len(s) \in Nat /\ DOMAIN s = 1..Len(s) /\ I \subseteq Nat /\ \A k \in 1..Len(s) : s[k] \in Node
  OBVIOUS
<1>2. i = IF I # {} THEN Min(I) ELSE 0
  BY DEF SelectInSeq
<1>3. get_child(f, p, name) = IF i = 0 THEN Null ELSE s[i]
  BY DEF get_child
<1> HIDE DEF i
<1>4. CASE I = {}
  <2>1. get_child(f, p, name) = Null
    BY <1>2, <1>3, <1>4
  <2>2. \A k \in 1..Len(s) : f.node[s[k]].live /\ f.node[s[k]].name # name
    BY <1>4
  <2> QED BY <1>1, <2>1, <2>2 DEF Range
<1>5. CASE I # {}
  <2>1. Min(I) \in I
    <3> HIDE DEF I
    <3> QED BY <1>1, <1>5, LeastNat
  <2>2. i \in 1..Len(s) /\ (~f.node[s[i]].live \/ f.node[s[i]].name = name)
    BY <1>2, <1>5, <2>1
  <2>3. get_child(f, p, name) = s[i] /\ s[i] \in Node /\ s[i] \in Range(s)
        /\ (~f.node[s[i]].live \/ f.node[s[i]].name = name)
    BY <1>1, <1>3, <2>2 DEF Range
  <2> QED BY <2>3 DEF Node, Null
<1> QED BY <1>4, <1>5

LEMMA tarfs_find_dirType ==
    ASSUME NEW archive \in Seq(Header), NEW ent \in Nat, NEW name
    PROVE  tarfs_find_dir(archive, ent, name) \in 0..Len(archive)
<1> DEFINE T == Len(archive)
           J == {i \in 1..T : archive[i].path = <<name>>}
           K == {i \in ent..T : archive[i].path = ChildPath(archive[ent], name)}
<1>1. T \in Nat /\ J \subseteq Nat /\ K \subseteq Nat
  OBVIOUS
<1>2. J # {} => Min(J) \in J
  <2> HIDE DEF J
  <2> QED BY <1>1, LeastNat
<1>3. K # {} => Min(K) \in K
  <2> HIDE DEF K
  <2> QED BY <1>1, LeastNat
<1>4. CASE ent = 0
  <2>1. tarfs_find_dir(archive, ent, name) = IF J # {} THEN Min(J) ELSE 0
    BY <1>4 DEF tarfs_find_dir, SelectInSeq
  <2> QED BY <1>1, <1>2, <2>1
<1>5. CASE ent # 0
  <2>1. tarfs_find_dir(archive, ent, name) = IF K # {} THEN Min(K) ELSE 0
    <3> HIDE DEF ChildPath
    <3> QED BY <1>5 DEF tarfs_find_dir, SelectInSubSeq
  <2>2. K \subseteq 1..T
    BY <1>1, <1>5
  <2> HIDE DEF K
  <2>3. CASE K # {}
    <3>1. Min(K) \in 1..T
      BY <1>3, <2>2, <2>3
    <3> QED BY <1>1, <2>1, <2>3, <3>1
  <2>4. CASE K = {}
    BY <1>1, <2>1, <2>4
  <2> QED BY <2>3, <2>4
<1> QED BY <1>4, <1>5

LEMMA CacheType ==
    ASSUME NEW f, NEW name \in Name, NEW ent, Valid(f), Counts(f), ent \in 1..Len(f.archive)
    PROVE  LET rec == [FileNode(name, IF f.archive[ent].dir THEN "DIR" ELSE "FILE", "tarfs")
                          EXCEPT !.size = f.archive[ent].size, !.ent = ent, !.cached = TRUE]
           IN rec \in NodeType /\ Kept(rec) /\ rec.name = name /\ rec.live = TRUE
<1> DEFINE r == FileNode(name, IF f.archive[ent].dir THEN "DIR" ELSE "FILE", "tarfs")
           size == f.archive[ent].size
           rec == [r EXCEPT !.size = size, !.ent = ent, !.cached = TRUE]
<1>1. r \in NodeType /\ Kept(r) /\ r.name = name /\ r.live = TRUE
  <2> DEFINE type == IF f.archive[ent].dir THEN "DIR" ELSE "FILE"
  <2>1. type \in Type /\ "tarfs" \in DOMAIN Ops
        /\ name \in Name \cup {NoName, "[root]", "[root_tarfs]"}
    BY Drivers DEF Type
  <2> HIDE DEF type, r
  <2>2. r = FileNode(name, type, "tarfs")
    BY DEF r, type
  <2> QED BY <2>1, <2>2, FileNodeType
<1> HIDE DEF r
<1>2. f.archive \in Seq(Header) /\ ent \in 1..Len(f.archive)
  BY DEF Valid, Good, Typed
<1>3. f.archive[ent] \in Header
  BY <1>2
<1>4. size \in Nat /\ ent \in Nat
  BY <1>2, <1>3 DEF Header
<1> HIDE DEF size
<1>5. rec \in NodeType /\ rec.buf = r.buf /\ rec.written = r.written /\ rec.bsize = r.bsize
      /\ rec.name = r.name /\ rec.live = r.live
  <2>1. rec = [r EXCEPT !.size = size, !.ent = ent, !.cached = TRUE]
    OBVIOUS
  <2> HIDE DEF rec
  <2> QED BY <1>1, <1>4, <2>1 DEF NodeType
<1>6. rec \in NodeType /\ Kept(rec) /\ rec.name = name /\ rec.live = TRUE
  <2> HIDE DEF rec
  <2> QED BY <1>1, <1>5 DEF Kept
<1> QED BY <1>6 DEF r, size

LEMMA CacheKeeps ==
    ASSUME NEW f, NEW p, NEW name \in Name, NEW ent, Valid(f),
           Counts(f) => /\ p \in Node /\ p < f.next /\ ent \in 1..Len(f.archive)
                        /\ Lacks(f, p, name)
    PROVE  LET g == cache_node(f, p, name, ent) IN Valid(g) /\ Later(f, g) /\ g.next = f.next + 1
<1> DEFINE rec == [FileNode(name, IF f.archive[ent].dir THEN "DIR" ELSE "FILE", "tarfs")
                      EXCEPT !.size = f.archive[ent].size, !.ent = ent, !.cached = TRUE]
<1>1. cache_node(f, p, name, ent) = AddChild(f, p, rec)
  BY DEF cache_node
<1>2. ASSUME Counts(f) PROVE rec \in NodeType /\ Kept(rec) /\ rec.name = name /\ rec.live = TRUE
  BY <1>2, CacheType
<1> HIDE DEF rec
<1>3. Counts(f) => /\ p \in Node /\ p < f.next /\ rec \in NodeType /\ Kept(rec)
                   /\ Lacks(f, p, rec.name)
  BY <1>2
<1> QED BY <1>1, <1>3, AddKeeps

\* The state of a walk: the node reached, and, if only the last name is missing, where it
\* is missing.
WalkOK(w) ==
    /\ w = [fs |-> w.fs, cur |-> w.cur, done |-> w.done, parent |-> w.parent, name |-> w.name]
    /\ Valid(w.fs) /\ w.done \in BOOLEAN /\ (w.parent # Null => w.name \in Name)
    /\ Counts(w.fs) =>
          /\ w.cur \in Node \cup {Null} /\ w.cur < w.fs.next
          /\ w.parent # Null =>
                /\ w.done /\ w.cur = Null
                /\ w.parent \in Node /\ w.parent < w.fs.next
                /\ Lacks(w.fs, w.parent, w.name)

LEMMA NextPositive == ASSUME NEW f, Valid(f), Counts(f) PROVE Null < f.next
BY DEF Valid, Good, Rising, Typed, Node, Null

LEMMA UpFacts ==
    ASSUME NEW f, NEW n \in Node, Valid(f), Counts(f), n < f.next
    PROVE  f.up[n] \in Node \cup {Null} /\ f.up[n] < f.next
<1>1. Typed(f) /\ Rising(f) /\ f.next \in Nat
  BY DEF Valid, Good
<1>2. f.up[n] \in Node \cup {Null}
  BY <1>1 DEF Typed
<1>3. CASE f.up[n] = Null
  BY <1>2, <1>3, NextPositive
<1>4. CASE f.up[n] # Null
  BY <1>1, <1>2, <1>4 DEF Rising, Node
<1> QED BY <1>2, <1>3, <1>4

LEMMA KidFacts ==
    ASSUME NEW f, NEW p \in Node, NEW c \in Range(f.kids[p]), Valid(f), Counts(f)
    PROVE  c \in Node /\ c < f.next
<1>1. Typed(f) /\ Rising(f) /\ Doubly(f)
  BY DEF Valid, Good
<1>2. f.kids[p] \in Seq(Node)
  BY <1>1 DEF Typed
<1>3. c \in Node
  BY <1>2 DEF Range
<1>4. f.up[c] = p /\ p # Null
  BY <1>1, <1>3 DEF Doubly, Node, Null
<1> QED BY <1>1, <1>3, <1>4 DEF Rising

LEMMA ComponentKeeps ==
    ASSUME NEW w, NEW name \in Name \cup {".", ".."}, NEW last \in BOOLEAN, WalkOK(w)
    PROVE  LET v == Component(w, name, last) IN WalkOK(v) /\ Later(w.fs, v.fs)
<1> DEFINE f == w.fs
           cur == w.cur
           c == get_child(f, cur, name)
           ent == IF Has(f, cur, "find_dir") THEN tarfs_find_dir(f.archive, f.node[cur].ent, name)
                  ELSE 0
           missing == [w EXCEPT !.fs = Touch(f, cur), !.cur = Null]
           v == Component(w, name, last)
<1>1. v = IF w.done \/ ~f.ok \/ name = "." THEN w
          ELSE IF cur = Null THEN [w EXCEPT !.fs.ok = FALSE]
          ELSE IF name = ".." THEN
              IF cur = f.root THEN [w EXCEPT !.done = TRUE] ELSE [w EXCEPT !.cur = f.up[cur]]
          ELSE IF c # Null THEN [w EXCEPT !.fs = Touch(f, c), !.cur = c]
          ELSE IF ent # 0 THEN
              [w EXCEPT !.fs = cache_node(Touch(f, cur), cur, name, ent), !.cur = f.next]
          ELSE IF last THEN [missing EXCEPT !.done = TRUE, !.parent = cur, !.name = name]
          ELSE [missing EXCEPT !.done = Has(f, cur, "find_dir")]
  BY DEF Component
<1> HIDE DEF f, cur, c, ent, v
<1>2. /\ w = [fs |-> f, cur |-> cur, done |-> w.done, parent |-> w.parent, name |-> w.name]
      /\ Valid(f) /\ w.done \in BOOLEAN /\ f.next \in Nat /\ f.ok \in BOOLEAN
      /\ w.parent # Null => w.name \in Name
      /\ Counts(f) => cur \in Node \cup {Null} /\ cur < f.next
  BY DEF WalkOK, f, cur, Valid
<1>3. CASE w.done \/ ~f.ok \/ name = "."
  <2>1. v = w /\ Later(f, f)
    BY <1>1, <1>2, <1>3 DEF Later
  <2> QED BY <2>1 DEF v, f
<1>4. CASE ~(w.done \/ ~f.ok \/ name = ".") /\ cur = Null
  <2>1. v = [w EXCEPT !.fs = [f EXCEPT !.ok = FALSE]]
    BY <1>1, <1>2, <1>4 DEF f
  <2> DEFINE g == [f EXCEPT !.ok = FALSE]
  <2>2. Valid(g) /\ Later(f, g) /\ g.ok = FALSE
    BY <1>2, SameKeeps
  <2> HIDE DEF g
  <2>3. v = [w EXCEPT !.fs = g]
    BY <2>1 DEF g
  <2>4. v = [fs |-> g, cur |-> cur, done |-> w.done, parent |-> w.parent, name |-> w.name]
    BY <1>2, <2>3
  <2>5. WalkOK(v) /\ Later(f, v.fs)
    BY <1>2, <2>2, <2>4 DEF WalkOK, Counts
  <2> QED BY <2>5 DEF v, f
<1> DEFINE Goes == ~(w.done \/ ~f.ok \/ name = ".") /\ cur # Null
<1>5. ASSUME Goes, Counts(f)
      PROVE  /\ cur \in Node /\ cur < f.next /\ f.kids[cur] \in Seq(Node)
             /\ w.parent = Null /\ f.node[cur] \in NodeType /\ f.archive \in Seq(Header)
  BY <1>2, <1>5 DEF WalkOK, f, Valid, Good, Typed
<1>6. CASE Goes /\ name = ".." /\ cur = f.root
  <2> DEFINE d == TRUE
  <2>0. v = [w EXCEPT !.done = d] /\ d \in BOOLEAN
    BY <1>1, <1>6
  <2> HIDE DEF d
  <2>1. v = [fs |-> f, cur |-> cur, done |-> d, parent |-> w.parent, name |-> w.name]
    BY <1>2, <2>0
  <2>2. WalkOK(v) /\ Later(f, v.fs)
    BY <1>2, <1>5, <1>6, <2>0, <2>1 DEF WalkOK, Later
  <2> QED BY <2>2 DEF v, f
<1>7. CASE Goes /\ name = ".." /\ cur # f.root
  <2>1. v = [fs |-> f, cur |-> f.up[cur], done |-> w.done, parent |-> w.parent, name |-> w.name]
    BY <1>1, <1>2, <1>7
  <2>2. Counts(f) => f.up[cur] \in Node \cup {Null} /\ f.up[cur] < f.next
    BY <1>2, <1>5, <1>7, UpFacts
  <2>3. WalkOK(v) /\ Later(f, v.fs)
    BY <1>2, <1>5, <1>7, <2>1, <2>2 DEF WalkOK, Later
  <2> QED BY <2>3 DEF v, f
<1> DEFINE Looks == Goes /\ name # ".."
<1>8. ASSUME Looks, Counts(f)
      PROVE  /\ c # Null => c \in Node /\ c < f.next
             /\ c = Null => Lacks(f, cur, name)
  <2>1. /\ c # Null => c \in Range(f.kids[cur])
        /\ c = Null => \A k \in Range(f.kids[cur]) : f.node[k].live /\ f.node[k].name # name
    BY <1>5, <1>8, get_childFacts DEF c
  <2>2. c # Null => c \in Node /\ c < f.next
    BY <1>2, <1>5, <1>8, <2>1, KidFacts
  <2> QED BY <2>1, <2>2 DEF Lacks
<1>9. CASE Looks /\ c # Null
  <2> DEFINE g == Touch(f, c)
  <2>1. Valid(g) /\ Later(f, g) /\ g.next = f.next
    BY <1>2, TouchFacts
  <2> HIDE DEF g
  <2>2. v = [fs |-> g, cur |-> c, done |-> w.done, parent |-> w.parent, name |-> w.name]
    BY <1>1, <1>2, <1>9 DEF g
  <2>3. Counts(g) => Counts(f)
    BY <2>1 DEF Counts, Later
  <2>4. WalkOK(v) /\ Later(f, v.fs)
    BY <1>2, <1>5, <1>8, <1>9, <2>1, <2>2, <2>3 DEF WalkOK
  <2> QED BY <2>4 DEF v, f
<1> DEFINE t == Touch(f, cur)
<1>10. /\ Valid(t) /\ Later(f, t) /\ t.next = f.next /\ t.node = f.node /\ t.kids = f.kids
       /\ t.archive = f.archive /\ (Counts(t) => Counts(f))
  <2>1. /\ Valid(t) /\ Later(f, t) /\ t.next = f.next /\ t.node = f.node /\ t.kids = f.kids
        /\ t.archive = f.archive
    BY <1>2, TouchFacts
  <2> HIDE DEF t
  <2> QED BY <2>1 DEF Counts, Later
<1> HIDE DEF t
<1>11. CASE Looks /\ c = Null /\ ent # 0
  <2> DEFINE g == cache_node(t, cur, name, ent)
  <2>1. name \in Name
    BY <1>11
  <2>2. ASSUME Counts(t)
        PROVE  cur \in Node /\ cur < t.next /\ ent \in 1..Len(t.archive) /\ Lacks(t, cur, name)
    <3>1. Counts(f) /\ cur \in Node /\ cur < f.next /\ Lacks(f, cur, name)
          /\ f.node[cur] \in NodeType /\ f.archive \in Seq(Header)
      BY <1>5, <1>8, <1>10, <1>11, <2>2
    <3>2. f.node[cur].ent \in Nat
      BY <3>1, FieldTypes
    <3>3. ent \in 0..Len(f.archive) /\ Len(f.archive) \in Nat
      BY <3>1, <3>2, tarfs_find_dirType DEF ent
    <3> QED BY <1>10, <1>11, <3>1, <3>3 DEF Lacks
  <2>3. Valid(g) /\ Later(t, g) /\ g.next = t.next + 1
    BY <1>10, <2>1, <2>2, CacheKeeps
  <2> HIDE DEF g
  <2>4. v = [fs |-> g, cur |-> f.next, done |-> w.done, parent |-> w.parent, name |-> w.name]
    BY <1>1, <1>2, <1>11 DEF g, t
  <2>5. Later(f, g) /\ (Counts(g) => Counts(f))
    BY <1>2, <1>10, <2>3, TreeAssumption DEF Later, Counts, Valid
  <2>6. Counts(g) => f.next \in Node /\ f.next < g.next
    BY <1>2, <1>10, <2>3, <2>5, NextPositive, TreeAssumption DEF Counts, Node, Null
  <2>7. WalkOK(v) /\ Later(f, v.fs)
    BY <1>2, <1>5, <1>11, <2>3, <2>4, <2>5, <2>6 DEF WalkOK
  <2> QED BY <2>7 DEF v, f
<1>12. CASE Looks /\ c = Null /\ ent = 0 /\ last
  <2>1. name \in Name
    BY <1>12
  <2>2. v = [fs |-> t, cur |-> Null, done |-> TRUE, parent |-> cur, name |-> name]
    BY <1>1, <1>2, <1>12 DEF t
  <2>3. Counts(t) => cur \in Node /\ cur < t.next /\ Lacks(t, cur, name) /\ Null < t.next
    BY <1>5, <1>8, <1>10, <1>12, NextPositive DEF Lacks
  <2>4. WalkOK(v) /\ Later(f, v.fs)
    BY <1>10, <2>1, <2>2, <2>3 DEF WalkOK
  <2> QED BY <2>4 DEF v, f
<1>13. CASE Looks /\ c = Null /\ ent = 0 /\ ~last
  <2> DEFINE d == Has(f, cur, "find_dir")
  <2>1. d \in BOOLEAN
    BY DEF Has
  <2>2. v = [fs |-> t, cur |-> Null, done |-> d, parent |-> w.parent, name |-> w.name]
    BY <1>1, <1>2, <1>13 DEF t
  <2> HIDE DEF d
  <2>3. Counts(t) => w.parent = Null /\ Null < t.next
    BY <1>5, <1>10, <1>13, NextPositive
  <2>4. WalkOK(v) /\ Later(f, v.fs)
    BY <1>10, <2>1, <2>2, <2>3 DEF WalkOK
  <2> QED BY <2>4 DEF v, f
<1> QED BY <1>3, <1>4, <1>6, <1>7, <1>9, <1>11, <1>12, <1>13

PathName == Name \cup {".", ".."}

\* The walk as a whole.
LEMMA ResolveKeeps ==
    ASSUME NEW f, NEW path \in Seq(PathName), Valid(f)
    PROVE  LET w == resolve_path(f, path) IN WalkOK(w) /\ Later(f, w.fs)
<1> DEFINE T == Len(path)
<1>1. T \in Nat /\ \A i \in 1..T : path[i] \in PathName
  OBVIOUS
<1>2. PICK w : /\ w[0] = AtRoot(f)
               /\ \A i \in 1..T : w[i] = Component(w[i - 1], path[i], i = T)
               /\ resolve_path(f, path) = w[T]
  BY <1>1, WalkSteps
<1> HIDE DEF T
<1> DEFINE Fine(i) == WalkOK(w[i]) /\ Later(f, w[i].fs)
           Bad == {i \in 0..T : ~Fine(i)}
<1>3. Fine(0)
  <2>1. w[0] = [fs |-> f, cur |-> f.root, done |-> FALSE, parent |-> Null, name |-> NoName]
    BY <1>2 DEF AtRoot
  <2>2. Counts(f) => f.root \in Node /\ f.root < f.next
    BY DEF Valid, Good, Typed, Rising
  <2>3. Later(f, f)
    BY DEF Later, Valid
  <2> QED BY <2>1, <2>2, <2>3 DEF WalkOK
<1>4. ASSUME NEW i \in 1..T, Fine(i - 1) PROVE Fine(i)
  <2> DEFINE u == w[i - 1]
             v == w[i]
             last == i = T
  <2>1. v = Component(u, path[i], last) /\ path[i] \in Name \cup {".", ".."} /\ last \in BOOLEAN
    BY <1>1, <1>2 DEF PathName
  <2>2. WalkOK(u) /\ Later(f, u.fs)
    BY <1>4
  <2> HIDE DEF u, v, last, Fine
  <2>3. WalkOK(v) /\ Later(u.fs, v.fs)
    BY <2>1, <2>2, ComponentKeeps
  <2>4. Later(f, v.fs)
    BY <2>2, <2>3 DEF Later, WalkOK, Valid
  <2> QED BY <2>3, <2>4 DEF Fine, v
<1> HIDE DEF Fine
<1>5. ASSUME Bad # {} PROVE FALSE
  <2> DEFINE m == Min(Bad)
  <2>1. m \in Bad /\ \A x \in Bad : m =< x
    <3>1. Bad \subseteq Nat
      BY <1>1
    <3> HIDE DEF Bad
    <3> QED BY <3>1, <1>5, LeastNat
  <2> HIDE DEF m
  <2>2. m # 0
    BY <1>3, <2>1
  <2>3. m \in 1..T /\ m - 1 \in 0..T /\ m - 1 \notin Bad
    BY <1>1, <2>1, <2>2
  <2> QED BY <1>4, <2>1, <2>3
<1>6. Fine(T)
  BY <1>1, <1>5
<1> QED BY <1>2, <1>6 DEF Fine

\* A node, or NULL, in a file system that may have changed.
Opened(f, o) ==
    /\ o = [fs |-> o.fs, node |-> o.node]
    /\ Valid(o.fs) /\ Later(f, o.fs)
    /\ Counts(o.fs) => o.node \in Node \cup {Null} /\ o.node < o.fs.next

LEMMA ResultFacts ==
    ASSUME NEW f, NEW n PROVE Result(f, n).fs = f /\ Result(f, n).node = n
                              /\ Result(f, n) = [fs |-> f, node |-> n]
BY DEF Result

LEMMA LaterTrans ==
    ASSUME NEW f, NEW g, NEW h, Valid(f), Valid(g), Valid(h), Later(f, g), Later(g, h)
    PROVE  Later(f, h) /\ (Counts(h) => Counts(g)) /\ (Counts(g) => Counts(f))
BY TreeAssumption DEF Later, Valid, Counts

LEMMA LaterSelf == ASSUME NEW f, Valid(f) PROVE Later(f, f)
BY DEF Later, Valid

\* NULL is always a possible result.
LEMMA NullOpened ==
    ASSUME NEW f, NEW g, Valid(g), Later(f, g) PROVE Opened(f, Result(g, Null))
<1>1. Counts(g) => Null < g.next
  BY NextPositive
<1> QED BY <1>1, ResultFacts DEF Opened

LEMMA OpenNodeKeeps ==
    ASSUME NEW f, NEW g, NEW n, NEW mode, Valid(f), Valid(g), Later(f, g),
           Counts(g) => n \in Node \cup {Null} /\ n < g.next
    PROVE  Opened(f, OpenNode(g, n, mode))
<1> DEFINE t == Touch(g, n)
           r == IF "O_DIRECTORY" \in mode THEN Null ELSE n
<1>1. Valid(t) /\ Later(g, t) /\ t.next = g.next
  BY TouchFacts
<1>2. OpenNode(g, n, mode) = Result(t, r)
  BY DEF OpenNode
<1> HIDE DEF t
<1>3. Later(f, t) /\ (Counts(t) => Counts(g))
  BY <1>1, LaterTrans
<1>4. Counts(t) => r \in Node \cup {Null} /\ r < t.next
  BY <1>1, <1>3, NextPositive
<1> HIDE DEF r
<1> QED BY <1>1, <1>2, <1>3, <1>4, ResultFacts DEF Opened

-----------------------------------------------------------------------------
\* The calls of the virtual file system.

\* A file of the RAM file system begins with a buffer nobody has written to.
LEMMA RamFileType ==
    ASSUME NEW name \in Name, NEW rec,
           rec = [FileNode(name, "FILE", "ramfs_file") EXCEPT
                     !.buf = [i \in 1..BufferSize |-> Junk], !.bsize = BufferSize,
                     !.written = [i \in 1..BufferSize |-> None]]
    PROVE  rec \in NodeType /\ Kept(rec) /\ rec.name = name
<1> DEFINE r == FileNode(name, "FILE", "ramfs_file")
           b == [i \in 1..BufferSize |-> Junk]
           u == [i \in 1..BufferSize |-> None]
<1>1. r \in NodeType /\ r.name = name
  <2>1. name \in Name \cup {NoName, "[root]", "[root_tarfs]"} /\ "FILE" \in Type
        /\ "ramfs_file" \in DOMAIN Ops
    BY Drivers DEF Type
  <2> HIDE DEF r
  <2> QED BY <2>1, FileNodeType DEF r
<1>2. b \in [1..BufferSize -> Byte \cup {Junk}] /\ u \in [1..BufferSize -> Byte \cup {None}]
  OBVIOUS
<1>3. \A i \in 1..BufferSize : u[i] = None
  OBVIOUS
<1>4. rec = [r EXCEPT !.buf = b, !.bsize = BufferSize, !.written = u]
  OBVIOUS
<1> HIDE DEF r, b, u
<1>5. /\ b \in Seq(Byte \cup {Junk}) /\ u \in Seq(Byte \cup {None})
      /\ Len(b) = BufferSize /\ Len(u) = BufferSize
  BY <1>2, RamfsAssumption, SeqDef, LenProperties
<1>6. rec \in NodeType /\ rec.name = r.name /\ rec.buf = b /\ rec.written = u
      /\ rec.bsize = BufferSize
  BY <1>1, <1>4, <1>5 DEF NodeType
<1>7. Kept(rec)
  BY <1>3, <1>5, <1>6, RamfsAssumption DEF Kept
<1> QED BY <1>1, <1>6, <1>7

\* A place for a new node of a given name.
Vacant(f, p, name) ==
    Counts(f) => p \in Node /\ p < f.next /\ name \in Name /\ Lacks(f, p, name)

\* Making an entry, and counting it.
LEMMA EntryKeeps ==
    ASSUME NEW f, NEW p, NEW name, NEW rec, Valid(f), Vacant(f, p, name),
           name \in Name => rec \in NodeType /\ Kept(rec) /\ rec.name = name
    PROVE  LET a == AddChild(f, p, rec)
               g == [a EXCEPT !.node[p].size = @ + 1]
           IN /\ Valid(a) /\ Later(f, a) /\ a.next = f.next + 1
              /\ Valid(g) /\ Later(f, g) /\ g.next = f.next + 1
<1> DEFINE a == AddChild(f, p, rec)
           g == [a EXCEPT !.node[p].size = @ + 1]
<1>1. Valid(a) /\ Later(f, a) /\ a.next = f.next + 1
  BY AddKeeps DEF Vacant
<1> HIDE DEF a
<1>2. Counts(a) => p \in Node
  BY <1>1, TreeAssumption DEF Vacant, Counts, Later, Valid
<1>3. Valid(g) /\ Later(a, g) /\ g.next = a.next
  BY <1>1, <1>2, SizeKeeps
<1> HIDE DEF g
<1>4. Later(f, g)
  BY <1>1, <1>3, LaterTrans
<1> QED BY <1>1, <1>3, <1>4 DEF g, a

LEMMA FileTypes ==
    ASSUME NEW name \in Name, NEW type \in Type, NEW driver \in DOMAIN Ops
    PROVE  LET r == FileNode(name, type, driver) IN r \in NodeType /\ Kept(r) /\ r.name = name
<1>1. name \in Name \cup {NoName, "[root]", "[root_tarfs]"}
  OBVIOUS
<1> QED BY <1>1, FileNodeType

LEMMA CreateOpKeeps ==
    ASSUME NEW f, NEW p, NEW name, Valid(f), Vacant(f, p, name)
    PROVE  LET g == CreateOp(f, p, name) IN Valid(g) /\ Later(f, g)
<1>1. ASSUME NEW g, g = f \/ g = [f EXCEPT !.ok = FALSE] PROVE Valid(g) /\ Later(f, g)
  BY ZenonT(60), <1>1, SameKeeps, LaterSelf
<1>2. LET g == vfs_create(f, p, name) IN Valid(g) /\ Later(f, g)
  <2> DEFINE rec == FileNode(name, "FILE", "vfs_create")
  <2>1. vfs_create(f, p, name) \in {f, AddChild(f, p, rec)}
    BY DEF vfs_create
  <2>2. name \in Name => rec \in NodeType /\ Kept(rec) /\ rec.name = name
    <3>1. "FILE" \in Type /\ "vfs_create" \in DOMAIN Ops
      BY Drivers DEF Type
    <3> QED BY <3>1, FileTypes
  <2> HIDE DEF rec
  <2>3. Valid(AddChild(f, p, rec)) /\ Later(f, AddChild(f, p, rec))
    BY <2>2, EntryKeeps
  <2> QED BY <1>1, <2>1, <2>3
<1>3. LET g == ramfs_create(f, p, name) IN Valid(g) /\ Later(f, g)
  <2> DEFINE rec == [FileNode(name, "FILE", "ramfs_file") EXCEPT
                        !.buf = [i \in 1..BufferSize |-> Junk], !.bsize = BufferSize,
                        !.written = [i \in 1..BufferSize |-> None]]
             g == [AddChild(f, p, rec) EXCEPT !.node[p].size = @ + 1]
  <2>1. ramfs_create(f, p, name) \in {f, g}
    BY DEF ramfs_create
  <2>2. name \in Name => rec \in NodeType /\ Kept(rec) /\ rec.name = name
    <3> HIDE DEF rec
    <3> QED BY RamFileType DEF rec
  <2> HIDE DEF rec
  <2>3. Valid(g) /\ Later(f, g)
    BY <2>2, EntryKeeps
  <2> HIDE DEF g
  <2> QED BY <1>1, <2>1, <2>3
<1> QED BY <1>1, <1>2, <1>3 DEF CreateOp

LEMMA ReopenKeeps ==
    ASSUME NEW f, NEW made, NEW p, NEW path \in Seq(PathName), NEW mode,
           Valid(f), Valid(made), Later(f, made), Counts(made) => p \in Node
    PROVE  Opened(f, Reopen(made, p, path, mode))
<1> DEFINE g == [made EXCEPT !.node[p].size = @ + 1]
           w == resolve_path(g, path)
<1>1. Valid(g) /\ Later(made, g)
  BY SizeKeeps
<1>2. Reopen(made, p, path, mode) =
          IF ~made.ok THEN Result(made, Null)
          ELSE IF w.cur = Null THEN Result(w.fs, Null) ELSE OpenNode(w.fs, w.cur, mode)
  BY DEF Reopen
<1> HIDE DEF g
<1>3. WalkOK(w) /\ Later(g, w.fs)
  BY <1>1, ResolveKeeps
<1> HIDE DEF w
<1>4. Valid(w.fs) /\ (Counts(w.fs) => w.cur \in Node \cup {Null} /\ w.cur < w.fs.next)
  BY <1>3 DEF WalkOK
<1>5. Later(f, w.fs)
  BY <1>1, <1>3, <1>4, LaterTrans
<1>6. Opened(f, Result(made, Null)) /\ Opened(f, Result(w.fs, Null))
  BY <1>4, <1>5, NullOpened
<1>7. Opened(f, OpenNode(w.fs, w.cur, mode))
  BY <1>4, <1>5, OpenNodeKeeps
<1> QED BY <1>2, <1>6, <1>7

LEMMA CreateKeeps ==
    ASSUME NEW f, NEW path \in Seq(PathName), NEW mode, Valid(f)
    PROVE  Opened(f, create(f, path, mode))
<1> DEFINE w == resolve_path(f, path)
           made == CreateOp(w.fs, w.parent, w.name)
<1>1. create(f, path, mode) =
          IF ~w.fs.ok \/ w.cur # Null \/ w.parent = Null THEN Result(w.fs, Null)
          ELSE Reopen(made, w.parent, path, mode)
  BY DEF create
<1>2. WalkOK(w) /\ Later(f, w.fs)
  BY ResolveKeeps
<1> HIDE DEF w
<1>3. Valid(w.fs)
  BY <1>2 DEF WalkOK
<1>4. CASE ~w.fs.ok \/ w.cur # Null \/ w.parent = Null
  BY <1>1, <1>2, <1>3, <1>4, NullOpened
<1>5. CASE ~(~w.fs.ok \/ w.cur # Null \/ w.parent = Null)
  <2>1. Vacant(w.fs, w.parent, w.name)
    BY <1>2, <1>5 DEF WalkOK, Vacant
  <2>2. Valid(made) /\ Later(w.fs, made)
    BY <1>3, <2>1, CreateOpKeeps
  <2> HIDE DEF made
  <2>3. Later(f, made) /\ (Counts(made) => w.parent \in Node)
    BY <1>2, <1>3, <2>1, <2>2, LaterTrans DEF Vacant
  <2> QED BY <1>1, <1>5, <2>2, <2>3, ReopenKeeps
<1> QED BY <1>4, <1>5

LEMMA OpenKeeps ==
    ASSUME NEW f, NEW path \in Seq(PathName), NEW mode, Valid(f)
    PROVE  Opened(f, open(f, path, mode))
<1> DEFINE w == resolve_path(f, path)
           made == create(w.fs, path, mode \ {"O_CREAT"})
<1>1. open(f, path, mode) =
          IF path = <<>> THEN Result(f, f.root)
          ELSE IF ~w.fs.ok THEN Result(w.fs, Null)
          ELSE IF w.cur # Null THEN OpenNode(w.fs, w.cur, mode)
          ELSE IF "O_CREAT" \notin mode THEN Result(w.fs, Null)
          ELSE OpenNode(made.fs, made.node, mode)
  BY DEF open
<1>2. WalkOK(w) /\ Later(f, w.fs)
  BY ResolveKeeps
<1> HIDE DEF w
<1>3. Valid(w.fs) /\ (Counts(w.fs) => w.cur \in Node \cup {Null} /\ w.cur < w.fs.next)
  BY <1>2 DEF WalkOK
<1>4. Opened(w.fs, made)
  BY <1>3, CreateKeeps
<1> HIDE DEF made
<1>5. Later(f, made.fs) /\ Valid(made.fs)
      /\ (Counts(made.fs) => made.node \in Node \cup {Null} /\ made.node < made.fs.next)
  BY <1>2, <1>3, <1>4, LaterTrans DEF Opened
<1>6. Opened(f, Result(f, f.root))
  <2>1. Counts(f) => f.root \in Node /\ f.root < f.next
    BY DEF Valid, Good, Typed, Rising
  <2> QED BY <2>1, LaterSelf, ResultFacts DEF Opened
<1>7. Opened(f, Result(w.fs, Null))
  BY <1>2, <1>3, NullOpened
<1>8. Opened(f, OpenNode(w.fs, w.cur, mode)) /\ Opened(f, OpenNode(made.fs, made.node, mode))
  BY <1>2, <1>3, <1>5, OpenNodeKeeps
<1> QED BY <1>1, <1>6, <1>7, <1>8

LEMMA ramfs_mkdirKeeps ==
    ASSUME NEW f, NEW p, NEW name, Valid(f), Vacant(f, p, name)
    PROVE  LET g == ramfs_mkdir(f, p, name) IN Valid(g) /\ Later(f, g)
<1> DEFINE rec == FileNode(name, "DIR", "ramfs_mkdir")
           g == [AddChild(f, p, rec) EXCEPT !.node[p].size = @ + 1]
<1>1. ramfs_mkdir(f, p, name) \in {f, g}
  BY DEF ramfs_mkdir
<1>2. name \in Name => rec \in NodeType /\ Kept(rec) /\ rec.name = name
  <2>1. "DIR" \in Type /\ "ramfs_mkdir" \in DOMAIN Ops
    BY Drivers DEF Type
  <2> QED BY <2>1, FileTypes
<1> HIDE DEF rec
<1>3. Valid(g) /\ Later(f, g)
  BY <1>2, EntryKeeps
<1> HIDE DEF g
<1> QED BY <1>1, <1>3, LaterSelf

LEMMA MkdirKeeps ==
    ASSUME NEW f, NEW path \in Seq(PathName), Valid(f)
    PROVE  Valid(mkdir(f, path).fs) /\ Later(f, mkdir(f, path).fs)
<1> DEFINE o == open(f, path, {})
           w == resolve_path(o.fs, path)
           made == ramfs_mkdir(w.fs, w.parent, w.name)
           again == open(made, <<w.name>>, {})
           m == mkdir(f, path)
<1>1. m = IF o.node # Null \/ ~o.fs.ok THEN Result(o.fs, Null)
          ELSE IF w.parent = Null THEN Result(w.fs, Null)
          ELSE IF ~Has(w.fs, w.parent, "mkdir") THEN Result([w.fs EXCEPT !.ok = FALSE], Null)
          ELSE again
  BY DEF mkdir
<1>2. Opened(f, o)
  BY OpenKeeps
<1> HIDE DEF o, m
<1>3. Valid(o.fs) /\ Later(f, o.fs)
  BY <1>2 DEF Opened
<1>4. WalkOK(w) /\ Later(o.fs, w.fs)
  BY <1>3, ResolveKeeps
<1> HIDE DEF w
<1>5. Valid(w.fs)
  BY <1>4 DEF WalkOK
<1>6. Later(f, w.fs)
  BY <1>3, <1>4, <1>5, LaterTrans
<1>7. CASE o.node # Null \/ ~o.fs.ok
  BY <1>1, <1>3, <1>7, ResultFacts DEF m
<1>8. CASE ~(o.node # Null \/ ~o.fs.ok) /\ w.parent = Null
  BY <1>1, <1>5, <1>6, <1>8, ResultFacts DEF m
<1>9. CASE ~(o.node # Null \/ ~o.fs.ok) /\ w.parent # Null /\ ~Has(w.fs, w.parent, "mkdir")
  <2> DEFINE g == [w.fs EXCEPT !.ok = FALSE]
  <2>1. Valid(g) /\ Later(w.fs, g)
    BY <1>5, SameKeeps
  <2>2. m = Result(g, Null)
    BY <1>1, <1>9
  <2> HIDE DEF g
  <2>3. Later(f, g)
    BY <1>5, <1>6, <2>1, LaterTrans
  <2> QED BY <2>1, <2>2, <2>3, ResultFacts DEF m
<1>10. CASE ~(o.node # Null \/ ~o.fs.ok) /\ w.parent # Null /\ Has(w.fs, w.parent, "mkdir")
  <2>1. m = again
    BY <1>1, <1>10
  <2>2. Vacant(w.fs, w.parent, w.name)
    BY <1>4, <1>10 DEF WalkOK, Vacant
  <2>3. Valid(made) /\ Later(w.fs, made)
    BY <1>5, <2>2, ramfs_mkdirKeeps
  <2> HIDE DEF made
  <2>4. Later(f, made) /\ (Counts(made) => Counts(w.fs))
    BY <1>5, <1>6, <2>3, LaterTrans
  <2>5. <<w.name>> \in Seq(PathName)
    BY <1>4, <1>10 DEF WalkOK, PathName
  <2>6. Opened(made, again)
    BY <2>3, <2>5, OpenKeeps
  <2> HIDE DEF again
  <2>7. Valid(again.fs) /\ Later(made, again.fs)
    BY <2>6 DEF Opened
  <2>8. Later(f, again.fs)
    BY <1>5, <1>6, <2>3, <2>7, LaterTrans
  <2> QED BY <2>1, <2>7, <2>8 DEF m
<1> QED BY <1>7, <1>8, <1>9, <1>10

\* The node is freed, after its entry was taken out of the tree or not.
LEMMA DeleteNodeKeeps ==
    ASSUME NEW f, NEW n, Valid(f), Counts(f) => n \in Node
    PROVE  LET g == DeleteNode(f, n) IN Valid(g) /\ Later(f, g) /\ g.next = f.next
<1> DEFINE seen == Touch(f, n)
           may == seen.ok /\ HasFs(seen, n)
           gone == [seen EXCEPT !.ok = may]
           out == IF InTree(gone, n) THEN tree_remove(gone, n) ELSE gone
           g == DeleteNode(f, n)
<1>1. g = IF ~seen.ok THEN seen
          ELSE IF ~Has(f, n, "delete") THEN Free(f, n)
          ELSE IF ~gone.ok THEN gone
          ELSE Free(out, n)
  BY DEF DeleteNode, ramfs_delete
<1>2. Valid(seen) /\ Later(f, seen) /\ seen.next = f.next
  BY TouchFacts
<1>3. may \in BOOLEAN /\ (may => seen.ok)
  OBVIOUS
<1> HIDE DEF seen, may, g
<1>4. Valid(gone) /\ Later(seen, gone) /\ gone.next = seen.next
  BY <1>2, <1>3, SameKeeps
<1> HIDE DEF gone
<1>5. Counts(seen) => n \in Node
  BY <1>2, LaterSelf, LaterTrans
<1>6. Later(f, gone) /\ (Counts(gone) => n \in Node)
  BY <1>2, <1>4, <1>5, LaterTrans
<1>7. Valid(out) /\ Later(gone, out) /\ out.next = gone.next
  BY <1>4, <1>6, tree_removeKeeps, LaterSelf
<1> HIDE DEF out
<1>8. Later(f, out) /\ (Counts(out) => n \in Node)
  BY <1>4, <1>6, <1>7, LaterTrans
<1>9. LET h == Free(out, n) IN Valid(h) /\ Later(f, h) /\ h.next = out.next
  <2>1. LET h == Free(out, n) IN Valid(h) /\ Later(out, h) /\ h.next = out.next
    BY <1>7, <1>8, FreeKeeps
  <2> QED BY <1>7, <1>8, <2>1, LaterTrans
<1>10. LET h == Free(f, n) IN Valid(h) /\ Later(f, h) /\ h.next = f.next
  BY FreeKeeps
<1> QED BY <1>1, <1>2, <1>4, <1>6, <1>7, <1>9, <1>10 DEF g

LEMMA DeleteKeeps ==
    ASSUME NEW f, NEW path \in Seq(PathName), Valid(f)
    PROVE  LET g == delete(f, path) IN Valid(g) /\ Later(f, g)
<1> DEFINE o == open(f, path, {})
<1>1. delete(f, path) = IF o.node = Null \/ ~o.fs.ok THEN o.fs ELSE DeleteNode(o.fs, o.node)
  BY DEF delete
<1>2. Opened(f, o)
  BY OpenKeeps
<1> HIDE DEF o
<1>3. /\ Valid(o.fs) /\ Later(f, o.fs)
      /\ Counts(o.fs) => o.node \in Node \cup {Null}
  BY <1>2 DEF Opened
<1>4. CASE o.node = Null \/ ~o.fs.ok
  BY <1>1, <1>3, <1>4
<1>5. CASE ~(o.node = Null \/ ~o.fs.ok)
  <2>1. LET g == DeleteNode(o.fs, o.node) IN Valid(g) /\ Later(o.fs, g)
    BY <1>3, <1>5, DeleteNodeKeeps
  <2> QED BY <1>1, <1>3, <1>5, <2>1, LaterTrans
<1> QED BY <1>4, <1>5

LEMMA MoveKeeps ==
    ASSUME NEW f, NEW n, NEW path \in Seq(PathName), Valid(f), Counts(f) => n \in Node
    PROVE  LET g == move_file(f, n, path) IN Valid(g) /\ Later(f, g)
<1> DEFINE o == open(f, path, {})
           none == ~HasFs(o.fs, n)
           seen == Touch(o.fs, o.node)
           cut == DeleteNode(seen, n)
           g == move_file(f, n, path)
<1>1. g = IF ~o.fs.ok THEN o.fs
          ELSE IF o.node = Null THEN [o.fs EXCEPT !.ok = none]
          ELSE IF ~seen.ok \/ (seen.node[o.node].type = "DIR" /\ get_size(seen, o.node) > 0) THEN seen
          ELSE Touch(cut, n)
  BY DEF move_file
<1>2. Opened(f, o)
  BY OpenKeeps
<1>3. none \in BOOLEAN
  OBVIOUS
<1> HIDE DEF o, none, g
<1>4. Valid(o.fs) /\ Later(f, o.fs)
  BY <1>2 DEF Opened
<1>5. Valid(seen) /\ Later(o.fs, seen)
  BY <1>4, TouchFacts
<1> HIDE DEF seen
<1>6. Later(f, seen) /\ (Counts(seen) => n \in Node)
  BY <1>4, <1>5, LaterTrans
<1>7. Valid(cut) /\ Later(seen, cut)
  BY <1>5, <1>6, DeleteNodeKeeps
<1> HIDE DEF cut
<1>8. LET h == Touch(cut, n) IN Valid(h) /\ Later(f, h)
  <2>1. Later(f, cut)
    BY <1>5, <1>6, <1>7, LaterTrans
  <2>2. LET h == Touch(cut, n) IN Valid(h) /\ Later(cut, h)
    BY <1>7, TouchFacts
  <2> QED BY <1>7, <2>1, <2>2, LaterTrans
<1>9. o.fs.ok => LET h == [o.fs EXCEPT !.ok = none] IN Valid(h) /\ Later(f, h)
  <2> SUFFICES ASSUME o.fs.ok
               PROVE  LET h == [o.fs EXCEPT !.ok = none] IN Valid(h) /\ Later(f, h)
    OBVIOUS
  <2> DEFINE h == [o.fs EXCEPT !.ok = none]
  <2>1. Valid(h) /\ Later(o.fs, h)
    BY <1>3, <1>4, SameKeeps
  <2> HIDE DEF h
  <2>2. Later(f, h)
    BY <1>4, <2>1, LaterTrans
  <2> QED BY <2>1, <2>2 DEF h
<1> QED BY <1>1, <1>4, <1>5, <1>6, <1>8, <1>9 DEF g

-----------------------------------------------------------------------------
\* Booting.

\* A new root above the children of the old one.
LEMMA RootMountKeeps ==
    ASSUME NEW f, NEW rec \in NodeType, Valid(f), Kept(rec)
    PROVE  LET g == MountRoot(f, rec)
           IN /\ Valid(g) /\ g.next = f.next + 1 /\ g.root = f.next
              /\ g.archive = f.archive /\ (g.ok <=> f.ok /\ ~Dangling(f))
              /\ Counts(f) /\ f.next \in Node =>
                    /\ g.kids[f.next] = f.kids[f.root]
                    /\ \A n \in Node : f.up[n] = Null => g.up[n] = Null
                    /\ \A n \in Node : n \notin {f.root, f.next} =>
                           g.node[n] = f.node[n] /\ g.kids[n] = f.kids[n]
                    /\ g.node[f.next].name = rec.name /\ g.node[f.next].driver = rec.driver
                    /\ g.node[f.next].live = rec.live /\ g.node[f.next].ent = rec.ent
<1> DEFINE new == f.next
           old == f.root
           top == [rec EXCEPT !.size = @ + f.node[old].size]
           h == NewNode(f, top)
           up == [n \in Node |-> IF f.up[n] = old THEN new ELSE f.up[n]]
           g == MountRoot(f, rec)
<1>1. g = [h EXCEPT !.root = new, !.node[old].live = FALSE, !.kids[new] = f.kids[old],
                    !.kids[old] = <<>>, !.up = up]
  BY DEF MountRoot
<1>2. Shape(f) /\ f.ok \in BOOLEAN /\ new \in Nat
  BY DEF Valid
<1>3. /\ Shape(h) /\ h.node = [f.node EXCEPT ![new] = top] /\ h.kids = f.kids
      /\ h.archive = f.archive /\ h.next = new + 1
      /\ h.ok \in BOOLEAN /\ (h.ok <=> f.ok /\ ~Dangling(f))
  <2> DEFINE D == f.ok /\ ~Dangling(f)
             k == [f EXCEPT !.node[f.next] = top, !.next = f.next + 1, !.ok = D]
  <2>1. h = k /\ D \in BOOLEAN
    BY DEF NewNode
  <2>2. /\ Shape(k) /\ k.node = [f.node EXCEPT ![f.next] = top]
        /\ k.kids = f.kids /\ k.archive = f.archive /\ k.next = f.next + 1 /\ k.ok = D
    <3> HIDE DEF D, k, top
    <3>1. k = [f EXCEPT !.node[f.next] = top, !.next = f.next + 1, !.ok = D]
      BY DEF k
    <3> QED BY <1>2, <3>1 DEF Shape
  <2> HIDE DEF k, h
  <2> QED BY <2>1, <2>2
<1> HIDE DEF h, top, up, g
<1>4. /\ Shape(g) /\ g.ok = h.ok /\ g.next = h.next /\ g.root = new /\ g.archive = h.archive
      /\ g.up = up /\ g.node = [h.node EXCEPT ![old].live = FALSE]
      /\ g.kids = [h.kids EXCEPT ![new] = f.kids[old], ![old] = <<>>]
  BY <1>1, <1>3 DEF Shape
<1>5. ASSUME Counts(f), new \in Node
      PROVE  /\ Good(f) /\ old \in Node /\ new # old /\ new # Null /\ f.up[new] = Null
             /\ top \in NodeType /\ Kept(top) /\ top.name = rec.name /\ top.driver = rec.driver
             /\ top.live = rec.live /\ top.ent = rec.ent
             /\ \A n \in Node : g.kids[n] = IF n = old THEN <<>>
                                            ELSE IF n = new THEN f.kids[old] ELSE f.kids[n]
             /\ \A n \in Node : g.up[n] = IF f.up[n] = old THEN new ELSE f.up[n]
             /\ \A n \in Node : g.node[n] = IF n = old THEN [f.node[old] EXCEPT !.live = FALSE]
                                            ELSE IF n = new THEN top ELSE f.node[n]
  <2>1. Good(f) /\ old \in Node /\ new # old /\ new # Null /\ f.up[new] = Null
    BY <1>2, <1>5 DEF Valid, Good, Typed, Rising, Node, Null
  <2>2. f.node[old] \in NodeType
    BY <2>1 DEF Good, Typed
  <2>3. rec.size + f.node[old].size \in Nat
    <3>1. rec.size \in Nat /\ f.node[old].size \in Nat
      BY <2>2, FieldTypes
    <3> QED BY <3>1
  <2>4. top \in NodeType /\ top.name = rec.name /\ top.live = rec.live /\ top.buf = rec.buf
        /\ top.bsize = rec.bsize /\ top.written = rec.written /\ top.driver = rec.driver
        /\ top.ent = rec.ent
    <3>1. ASSUME NEW k \in Nat, NEW r, r = [rec EXCEPT !.size = k]
          PROVE  /\ r \in NodeType /\ r.name = rec.name /\ r.live = rec.live /\ r.buf = rec.buf
                 /\ r.bsize = rec.bsize /\ r.written = rec.written /\ r.driver = rec.driver
                 /\ r.ent = rec.ent
      BY <3>1 DEF NodeType
    <3> QED BY <2>3, <3>1 DEF top
  <2>5. Kept(top)
    BY <2>4 DEF Kept
  <2>6. \A n \in Node : g.up[n] = IF f.up[n] = old THEN new ELSE f.up[n]
    BY <1>4 DEF up
  <2>7. \A n \in Node : g.kids[n] = IF n = old THEN <<>>
                                    ELSE IF n = new THEN f.kids[old] ELSE f.kids[n]
    BY <1>3, <1>4, <1>5, <2>1 DEF Good, Typed
  <2>8. \A n \in Node : g.node[n] = IF n = old THEN [f.node[old] EXCEPT !.live = FALSE]
                                    ELSE IF n = new THEN top ELSE f.node[n]
    <3>1. f.node \in [Node -> NodeType]
      BY <2>1 DEF Good, Typed
    <3> QED BY ZenonT(60), <1>3, <1>4, <1>5, <2>1, <3>1
  <2> QED BY <2>1, <2>4, <2>5, <2>6, <2>7, <2>8
<1>6. ASSUME Counts(g) PROVE Good(g)
  <2>0. Counts(f) /\ new \in Node
    <3>1. Counts(f) /\ new =< MaxNode
      BY <1>2, <1>3, <1>4, <1>6, TreeAssumption DEF Counts
    <3>2. Null < new
      BY <3>1, NextPositive
    <3> QED BY <1>2, <3>1, <3>2, TreeAssumption DEF Node, Null
  <2>1. /\ Typed(f) /\ Rising(f) /\ Doubly(f) /\ Unique(f)
        /\ \A n \in Node : Kept(f.node[n])
    BY <1>5, <2>0 DEF Good
  <2>2. f.node[old] \in NodeType /\ f.kids[old] \in Seq(Node) /\ <<>> \in Seq(Node)
    BY <1>5, <2>0, <2>1, EmptySeq DEF Typed
  <2> DEFINE dead == [f.node[old] EXCEPT !.live = FALSE]
  <2>3. dead \in NodeType /\ Kept(dead) /\ dead.live = FALSE
    <3>1. ASSUME NEW r \in NodeType, NEW d, d = [r EXCEPT !.live = FALSE]
          PROVE  d \in NodeType /\ d.live = FALSE /\ d.buf = r.buf /\ d.bsize = r.bsize
                 /\ d.written = r.written
      BY <3>1 DEF NodeType
    <3>2. dead \in NodeType /\ dead.live = FALSE /\ dead.buf = f.node[old].buf
          /\ dead.bsize = f.node[old].bsize /\ dead.written = f.node[old].written
      BY <2>2, <3>1
    <3>3. Kept(f.node[old])
      BY <1>5, <2>0, <2>1
    <3> HIDE DEF dead
    <3> QED BY <3>2, <3>3 DEF Kept
  <2>4. \A n \in Node : g.node[n] = IF n = old THEN dead ELSE IF n = new THEN top ELSE f.node[n]
    BY <1>5, <2>0
  <2> HIDE DEF dead
  <2>5. Typed(g)
    <3>1. g.archive \in Seq(Header) /\ g.root \in Node
      BY <1>3, <1>4, <2>0, <2>1 DEF Typed
    <3>2. g.node \in [Node -> NodeType]
      <4>1. g.node = [n \in Node |-> g.node[n]]
        BY <1>3, <1>4, <2>1 DEF Typed
      <4>2. \A n \in Node : g.node[n] \in NodeType
        BY <1>5, <2>0, <2>1, <2>3, <2>4 DEF Typed
      <4> QED BY <4>1, <4>2
    <3>3. g.kids \in [Node -> Seq(Node)]
      <4>1. \A n \in Node : g.kids[n] \in Seq(Node)
        <5> TAKE n \in Node
        <5>1. f.kids[n] \in Seq(Node)
          BY <2>1 DEF Typed
        <5> QED BY <1>5, <2>0, <2>2, <5>1
      <4>2. g.kids = [n \in Node |-> g.kids[n]]
        BY <1>3, <1>4, <2>1 DEF Typed
      <4> QED BY <4>1, <4>2
    <3>4. g.up \in [Node -> Node \cup {Null}]
      BY <1>4, <2>0, <2>1 DEF Typed, up
    <3> QED BY <3>1, <3>2, <3>3, <3>4 DEF Typed
  <2>6. Rising(g)
    <3>1. g.root < g.next /\ g.up[g.root] = Null
      BY <1>2, <1>3, <1>4, <1>5, <2>0 DEF Node, Null
    <3>2. ASSUME NEW n \in Node, g.up[n] # Null
          PROVE  n < g.next /\ (g.up[n] < n \/ g.up[n] = g.root)
      <4>1. f.up[n] # Null /\ g.up[n] = IF f.up[n] = old THEN new ELSE f.up[n]
        BY <1>5, <2>0, <3>2 DEF Node, Null
      <4>2. n < new /\ (f.up[n] < n \/ f.up[n] = old)
        BY <2>1, <4>1 DEF Rising
      <4> QED BY <1>2, <1>3, <1>4, <4>1, <4>2 DEF Node
    <3> QED BY <3>1, <3>2 DEF Rising
  <2>7. Doubly(g)
    <3>1. ASSUME NEW n \in Node, NEW c \in Node PROVE c \in Range(g.kids[n]) <=> g.up[c] = n
      <4>1. /\ c \in Range(f.kids[n]) <=> f.up[c] = n
            /\ c \in Range(f.kids[old]) <=> f.up[c] = old
        BY <1>5, <2>0, <2>1 DEF Doubly
      <4>2. c \notin Range(<<>>)
        BY DEF Range
      <4>3. f.up[c] # new
        <5>1. CASE f.up[c] = Null
          BY <1>5, <2>0, <5>1
        <5>2. CASE f.up[c] # Null
          BY <1>2, <1>5, <2>0, <2>1, <5>2 DEF Rising, Node
        <5> QED BY <5>1, <5>2
      <4>4. /\ g.up[c] = IF f.up[c] = old THEN new ELSE f.up[c]
            /\ g.kids[n] = IF n = old THEN <<>> ELSE IF n = new THEN f.kids[old] ELSE f.kids[n]
        BY <1>5, <2>0
      <4>5. new # old
        BY <1>5, <2>0
      <4>6. CASE n = old BY <4>2, <4>3, <4>4, <4>5, <4>6
      <4>7. CASE n = new BY <4>1, <4>3, <4>4, <4>5, <4>7
      <4>8. CASE n # old /\ n # new BY <4>1, <4>4, <4>8
      <4> QED BY <4>6, <4>7, <4>8
    <3>2. IsInjective(<<>>)
      BY DEF IsInjective
    <3>3. ASSUME NEW n \in Node PROVE IsInjective(g.kids[n])
      <4>1. IsInjective(f.kids[n]) /\ IsInjective(f.kids[old])
        BY <1>5, <2>0, <2>1 DEF Doubly
      <4>2. g.kids[n] = IF n = old THEN <<>> ELSE IF n = new THEN f.kids[old] ELSE f.kids[n]
        BY <1>5, <2>0
      <4>3. CASE n = old BY <3>2, <4>2, <4>3
      <4>4. CASE n = new /\ n # old BY <4>1, <4>2, <4>4
      <4>5. CASE n # old /\ n # new BY <4>1, <4>2, <4>5
      <4> QED BY <4>3, <4>4, <4>5
    <3> QED BY <3>1, <3>3 DEF Doubly
  <2>8. Unique(g)
    <3> SUFFICES ASSUME NEW n \in Node, NEW c \in Node, NEW d \in Node, c # d,
                        {c, d} \subseteq Range(g.kids[n]), g.node[c].live, g.node[d].live
                 PROVE  g.node[c].name # g.node[d].name
      BY DEF Unique
    <3>1. g.up[c] = n /\ g.up[d] = n /\ n # Null
      BY <2>7 DEF Doubly, Node, Null
    <3>2. c # new /\ d # new /\ c # old /\ d # old
      <4>1. g.up[new] = Null
        BY <1>4, <2>6 DEF Rising
      <4>2. g.node[old].live = FALSE
        BY <1>5, <2>0, <2>3, <2>4
      <4> QED BY <3>1, <4>1, <4>2
    <3>3. g.node[c] = f.node[c] /\ g.node[d] = f.node[d]
      BY <2>4, <3>2
    <3>4. \E m \in Node : {c, d} \subseteq Range(f.kids[m])
      <4>1. g.kids[n] = IF n = old THEN <<>> ELSE IF n = new THEN f.kids[old] ELSE f.kids[n]
        BY <1>5, <2>0
      <4>2. c \notin Range(<<>>)
        BY DEF Range
      <4>3. old \in Node
        BY <1>5, <2>0
      <4> QED BY <4>1, <4>2, <4>3
    <3> QED BY <2>1, <3>3, <3>4 DEF Unique
  <2>9. \A n \in Node : Kept(g.node[n])
    BY <1>5, <2>0, <2>1, <2>3, <2>4
  <2> QED BY <2>5, <2>6, <2>7, <2>8, <2>9 DEF Good
<1>7. Valid(g)
  BY <1>2, <1>3, <1>4, <1>6 DEF Valid
<1>8. ASSUME Counts(f), new \in Node
      PROVE  /\ g.kids[new] = f.kids[old]
             /\ \A n \in Node : f.up[n] = Null => g.up[n] = Null
             /\ \A n \in Node : n \notin {old, new} => g.node[n] = f.node[n] /\ g.kids[n] = f.kids[n]
             /\ g.node[new] = top
  BY <1>5, <1>8 DEF Node, Null
<1> QED BY <1>3, <1>4, <1>5, <1>7, <1>8 DEF g

\* Reading a node that was not freed changes nothing.
LEMMA TouchLive ==
    ASSUME NEW f, NEW n, Valid(f), f.ok, n # Null, f.node[n].live
    PROVE  Touch(f, n) = f
<1> DEFINE b == f.ok /\ n # Null /\ f.node[n].live
<1>1. b = f.ok
  BY DEF Valid
<1>2. Touch(f, n) = [f EXCEPT !.ok = b]
  BY DEF Touch
<1> HIDE DEF b
<1> QED BY <1>1, <1>2 DEF Valid, Shape

\* A walk that has come to a node.
At(f, n) == [fs |-> f, cur |-> n, done |-> FALSE, parent |-> Null, name |-> NoName]

LEMMA StepDown ==
    ASSUME NEW f, NEW n, NEW c, NEW name \in Name, NEW last, Valid(f), f.ok, n # Null,
           c = get_child(f, n, name), c # Null, f.node[c].live
    PROVE  Component(At(f, n), name, last) = At(f, c)
<1> DEFINE w == At(f, n)
<1>1. /\ w.fs = f /\ w.cur = n /\ ~w.done
      /\ w = [fs |-> f, cur |-> n, done |-> w.done, parent |-> w.parent, name |-> w.name]
      /\ w.done = FALSE /\ w.parent = Null /\ w.name = NoName
  BY DEF At
<1>2. Touch(f, c) = f
  BY TouchLive
<1>3. name # "." /\ name # ".."
  BY TreeAssumption
<1> HIDE DEF w
<1>4. Component(w, name, last) = [w EXCEPT !.fs = Touch(f, c), !.cur = c]
  BY <1>1, <1>3 DEF Component
<1>5. Component(w, name, last) =
          [fs |-> f, cur |-> c, done |-> w.done, parent |-> w.parent, name |-> w.name]
  BY <1>1, <1>2, <1>4
<1> QED BY <1>1, <1>5 DEF At, w

LEMMA StepMissing ==
    ASSUME NEW f, NEW n, NEW name \in Name, Valid(f), f.ok, n # Null, f.node[n].live,
           get_child(f, n, name) = Null,
           Has(f, n, "find_dir") => tarfs_find_dir(f.archive, f.node[n].ent, name) = 0
    PROVE  LET v == Component(At(f, n), name, TRUE)
           IN v.fs = f /\ v.parent = n
<1> DEFINE w == At(f, n)
           v == Component(w, name, TRUE)
           ent == IF Has(f, n, "find_dir") THEN tarfs_find_dir(f.archive, f.node[n].ent, name)
                  ELSE 0
<1>1. /\ w.fs = f /\ w.cur = n /\ ~w.done
      /\ w = [fs |-> f, cur |-> n, done |-> w.done, parent |-> w.parent, name |-> w.name]
  BY DEF At
<1>2. Touch(f, n) = f
  BY TouchLive
<1>3. name # "." /\ name # ".."
  BY TreeAssumption
<1>4. ent = 0
  OBVIOUS
<1> HIDE DEF w, v
<1>5. v = [[w EXCEPT !.fs = Touch(f, n), !.cur = Null] EXCEPT !.done = TRUE, !.parent = n, !.name = name]
  BY <1>1, <1>3, <1>4 DEF Component, v
<1>6. v.fs = f /\ v.parent = n
  BY <1>1, <1>2, <1>5
<1> QED BY <1>6 DEF v, w

LEMMA StepCached ==
    ASSUME NEW f, NEW n, NEW name \in Name, Valid(f), f.ok, n # Null, f.node[n].live,
           get_child(f, n, name) = Null, Has(f, n, "find_dir"),
           NEW ent, ent = tarfs_find_dir(f.archive, f.node[n].ent, name), ent # 0
    PROVE  LET v == Component(At(f, n), name, TRUE)
           IN v.fs = cache_node(f, n, name, ent) /\ v.parent = Null
<1> DEFINE w == At(f, n)
           v == Component(w, name, TRUE)
           g == cache_node(f, n, name, ent)
<1>1. /\ w.fs = f /\ w.cur = n /\ ~w.done /\ w.parent = Null
      /\ w = [fs |-> f, cur |-> n, done |-> w.done, parent |-> w.parent, name |-> w.name]
  BY DEF At
<1>2. Touch(f, n) = f
  BY TouchLive
<1>3. name # "." /\ name # ".."
  BY TreeAssumption
<1> HIDE DEF w, v
<1>5. v = [w EXCEPT !.fs = cache_node(Touch(f, n), n, name, ent), !.cur = f.next]
  BY <1>1, <1>3 DEF Component, v
<1>6. v = [w EXCEPT !.fs = g, !.cur = f.next]
  BY <1>2, <1>5
<1> HIDE DEF g
<1>7. v.fs = g /\ v.parent = Null
  BY <1>1, <1>6
<1> QED BY <1>7 DEF v, w, g

\* Paths of one and of two names.
LEMMA ResolveOne ==
    ASSUME NEW f, NEW name
    PROVE  resolve_path(f, <<name>>) = Component(At(f, f.root), name, TRUE)
<1> DEFINE p == <<name>>
<1>1. Len(p) = 1 /\ p[1] = name
  OBVIOUS
<1> HIDE DEF p
<1>2. PICK w : /\ w[0] = AtRoot(f)
               /\ \A i \in 1..Len(p) : w[i] = Component(w[i - 1], p[i], i = Len(p))
               /\ resolve_path(f, p) = w[Len(p)]
  BY <1>1, WalkSteps
<1>3. w[1] = Component(w[0], name, TRUE)
  <2>1. w[1] = Component(w[1 - 1], p[1], 1 = Len(p))
    BY <1>1, <1>2
  <2>2. (1 = Len(p)) = TRUE /\ 1 - 1 = 0
    BY <1>1
  <2> QED BY <1>1, <2>1, <2>2
<1>4. AtRoot(f) = At(f, f.root)
  BY DEF AtRoot, At
<1> QED BY <1>1, <1>2, <1>3, <1>4 DEF p

LEMMA ResolveTwo ==
    ASSUME NEW f, NEW name, NEW more
    PROVE  resolve_path(f, <<name, more>>) =
               Component(Component(At(f, f.root), name, FALSE), more, TRUE)
<1> DEFINE p == <<name, more>>
<1>1. Len(p) = 2 /\ p[1] = name /\ p[2] = more
  OBVIOUS
<1> HIDE DEF p
<1>2. PICK w : /\ w[0] = AtRoot(f)
               /\ \A i \in 1..Len(p) : w[i] = Component(w[i - 1], p[i], i = Len(p))
               /\ resolve_path(f, p) = w[Len(p)]
  BY <1>1, WalkSteps
<1>3. w[1] = Component(w[0], name, FALSE) /\ w[2] = Component(w[1], more, TRUE)
  <2>1. w[1] = Component(w[1 - 1], p[1], 1 = Len(p)) /\ w[2] = Component(w[2 - 1], p[2], 2 = Len(p))
    BY <1>1, <1>2
  <2>2. (1 = Len(p)) = FALSE /\ (2 = Len(p)) = TRUE /\ 1 - 1 = 0 /\ 2 - 1 = 1
    BY <1>1
  <2> QED BY <1>1, <2>1, <2>2
<1>4. AtRoot(f) = At(f, f.root)
  BY DEF AtRoot, At
<1> QED BY <1>1, <1>2, <1>3, <1>4 DEF p

Kids(f, n) == Range(f.kids[n])

Fits(rec, name) == rec \in NodeType /\ Kept(rec) /\ rec.name = name

LEMMA EntryFacts ==
    ASSUME NEW f, NEW p, NEW rec, NEW name, Valid(f), Vacant(f, p, name), Fits(rec, name)
    PROVE  LET a == AddChild(f, p, rec)
               b == [a EXCEPT !.node[p].size = @ + 1]
           IN /\ Valid(a) /\ a.next = f.next + 1 /\ Valid(b) /\ b.next = f.next + 1
              /\ Shape(a) /\ a.node = [f.node EXCEPT ![f.next] = rec]
              /\ a.kids = [f.kids EXCEPT ![p] = Append(@, f.next)] /\ a.up = [f.up EXCEPT ![f.next] = p]
              /\ a.root = f.root /\ (a.ok <=> f.ok /\ ~Dangling(f))
<1>1. Shape(f) /\ f.ok \in BOOLEAN
  BY DEF Valid
<1>2. name \in Name => rec \in NodeType /\ Kept(rec) /\ rec.name = name
  BY DEF Fits
<1> DEFINE a == AddChild(f, p, rec)
           b == [a EXCEPT !.node[p].size = @ + 1]
<1>3. Valid(a) /\ a.next = f.next + 1
  BY ZenonT(60), <1>2, EntryKeeps
<1>4. Valid(b) /\ b.next = f.next + 1
  BY <1>2, EntryKeeps
<1>5. /\ Shape(a)
      /\ a.node = [f.node EXCEPT ![f.next] = rec]
      /\ a.kids = [f.kids EXCEPT ![p] = Append(@, f.next)]
      /\ a.up = [f.up EXCEPT ![f.next] = p]
      /\ a.archive = f.archive /\ a.root = f.root /\ a.next = f.next + 1
      /\ a.ok \in BOOLEAN /\ (a.ok <=> f.ok /\ ~Dangling(f))
  BY <1>1, AddIs
<1> HIDE DEF a, b
<1> QED BY <1>3, <1>4, <1>5 DEF a, b

\* What an entry changes, and that it leaves no node in the tree that was freed.
EntryMade(f, p, rec, g) ==
    /\ Valid(g) /\ g.ok /\ g.next = f.next + 1 /\ g.root = f.root /\ ~Dangling(g)
    /\ Kids(g, p) = Kids(f, p) \cup {f.next}
    /\ \A n \in Node : n # p => Kids(g, n) = Kids(f, n)
    /\ \A n \in Node : n # f.next =>
          /\ g.node[n].name = f.node[n].name /\ (f.node[n].live => g.node[n].live)
    /\ g.node[f.next] = rec

LEMMA EntryIs ==
    ASSUME NEW f, NEW p \in Node, NEW rec, NEW name \in Name, Valid(f), f.ok, f.next \in Node,
           p < f.next, Fits(rec, name), rec.live, Lacks(f, p, name), ~Dangling(f),
           NEW g, g = AddChild(f, p, rec) \/ g = [AddChild(f, p, rec) EXCEPT !.node[p].size = @ + 1]
    PROVE  EntryMade(f, p, rec, g)
<1> DEFINE new == f.next
           a == AddChild(f, p, rec)
           b == [a EXCEPT !.node[p].size = @ + 1]
<1>1. Counts(f) /\ Good(f)
  <2>1. Counts(f)
    BY TreeAssumption DEF Counts, Node
  <2> QED BY <2>1 DEF Valid
<1>2. Vacant(f, p, name)
  BY DEF Vacant
<1>3. /\ Valid(a) /\ a.next = f.next + 1 /\ Valid(b) /\ b.next = f.next + 1
      /\ Shape(a) /\ a.node = [f.node EXCEPT ![f.next] = rec]
      /\ a.kids = [f.kids EXCEPT ![p] = Append(@, f.next)] /\ a.up = [f.up EXCEPT ![f.next] = p]
      /\ a.root = f.root /\ (a.ok <=> f.ok /\ ~Dangling(f))
  BY <1>2, EntryFacts
<1>4. a.ok
  BY <1>3
<1> HIDE DEF a, b
<1>5. b = [a EXCEPT !.node[p].size = @ + 1]
  BY DEF b
<1>6. /\ b.ok = a.ok /\ b.root = a.root /\ b.kids = a.kids /\ b.up = a.up
      /\ b.node = [a.node EXCEPT ![p].size = @ + 1]
  BY <1>3, <1>5 DEF Shape
<1>7. g = a \/ g = b
  BY DEF a, b
<1>8. /\ \A n \in Node : g.kids[n] = IF n = p THEN Append(f.kids[p], f.next) ELSE f.kids[n]
      /\ \A n \in Node : g.up[n] = IF n = new THEN p ELSE f.up[n]
  <2>1. f.kids \in [Node -> Seq(Node)] /\ f.up \in [Node -> Node \cup {Null}]
    BY <1>1 DEF Good, Typed
  <2>2. /\ g.kids = [f.kids EXCEPT ![p] = Append(@, new)] /\ g.up = [f.up EXCEPT ![new] = p]
    BY <1>3, <1>6, <1>7
  <2> QED BY <2>1, <2>2
<1>9. p # new
  BY DEF Valid, Node
<1>10. ASSUME NEW n \in Node
       PROVE  /\ a.node[n] = IF n = new THEN rec ELSE f.node[n]
              /\ b.node[n] = IF n = p THEN [a.node[p] EXCEPT !.size = @ + 1] ELSE a.node[n]
  BY <1>1, <1>3, <1>6 DEF Good, Typed
<1>11. ASSUME NEW r \in NodeType, NEW q, q = [r EXCEPT !.size = @ + 1]
       PROVE  q.name = r.name /\ q.live = r.live /\ q.driver = r.driver
  BY <1>11 DEF NodeType
<1>12. \A n \in Node : f.node[n] \in NodeType
  BY <1>1 DEF Good, Typed
<1>13. ASSUME NEW n \in Node, n # new
       PROVE  /\ g.node[n].name = f.node[n].name /\ g.node[n].live = f.node[n].live
              /\ g.node[n].driver = f.node[n].driver
  <2>1. a.node[n] = f.node[n] /\ a.node[p] = f.node[p] /\ f.node[p] \in NodeType
    BY <1>9, <1>10, <1>12, <1>13
  <2>2. CASE n = p
    <3>1. g.node[n] = f.node[n] \/ g.node[n] = [f.node[p] EXCEPT !.size = @ + 1]
      BY <1>7, <1>10, <2>1, <2>2
    <3> QED BY <1>11, <2>1, <2>2, <3>1
  <2>3. CASE n # p
    BY <1>7, <1>10, <2>1, <2>3
  <2> QED BY <2>2, <2>3
<1>14. g.node[new] = rec
  BY <1>7, <1>9, <1>10
<1>15. ~Dangling(g)
  <2> SUFFICES ASSUME NEW n \in Node, ~g.node[n].live, n < g.next, n = g.root \/ g.up[n] # Null
               PROVE  FALSE
    BY DEF Dangling
  <2>1. n # new
    BY <1>14
  <2>2. ~f.node[n].live /\ n < new /\ (n = f.root \/ f.up[n] # Null)
    BY <1>3, <1>4, <1>6, <1>7, <1>8, <1>13, <2>1 DEF Valid, Node
  <2> QED BY <2>2 DEF Dangling
<1>16. Kids(g, p) = Kids(f, p) \cup {f.next}
  <2>1. f.kids[p] \in Seq(Node)
    BY <1>1 DEF Good, Typed
  <2>2. Range(Append(f.kids[p], f.next)) = Range(f.kids[p]) \cup {f.next}
    BY <2>1, AppendFacts
  <2>3. g.kids[p] = Append(f.kids[p], f.next)
    BY <1>8
  <2> QED BY <2>2, <2>3 DEF Kids
<1>17. \A n \in Node : n # p => Kids(g, n) = Kids(f, n)
  BY <1>8 DEF Kids
<1> QED BY <1>3, <1>4, <1>6, <1>7, <1>13, <1>14, <1>15, <1>16, <1>17 DEF EntryMade

LEMMA InstallFacts ==
    ASSUME NEW archive \in Seq(Header)
    PROVE  LET f == vfs_install(archive)
           IN /\ Valid(f) /\ f.ok = TRUE /\ f.next = 2 /\ f.root = 1 /\ f.archive = archive
              /\ \A n \in Node : f.kids[n] = <<>> /\ f.up[n] = Null
              /\ f.node[1].live /\ f.node[1].driver = "vfs_install"
              /\ Typed(f) /\ Good(f)
<1> DEFINE f == vfs_install(archive)
           top == FileNode("[root]", "MOUNT_POINT", "vfs_install")
<1>1. top \in NodeType /\ Kept(top) /\ top.live = TRUE /\ top.driver = "vfs_install"
  <2>1. "[root]" \in Name \cup {NoName, "[root]", "[root_tarfs]"} /\ "MOUNT_POINT" \in Type
        /\ "vfs_install" \in DOMAIN Ops
    BY Drivers DEF Type
  <2> HIDE DEF top
  <2> QED BY <2>1, FileNodeType DEF top
<1> HIDE DEF top
<1>2. NoNode \in NodeType /\ Kept(NoNode)
  BY NoNodeType
<1>3. /\ f.ok = TRUE /\ f.archive = archive /\ f.root = 1 /\ f.next = 2
      /\ f.node = [n \in Node |-> IF n = 1 THEN top ELSE NoNode]
      /\ f.kids = [n \in Node |-> <<>>] /\ f.up = [n \in Node |-> Null] /\ Shape(f)
  <2> HIDE DEF NoNode
  <2> QED BY DEF vfs_install, Shape, top
<1> HIDE DEF f
<1>4. 1 \in Node /\ 2 \in Node
  BY TreeAssumption DEF Node
<1>5. <<>> \in Seq(Node)
  BY EmptySeq
<1>6. Typed(f)
  <2> HIDE DEF NoNode
  <2> QED BY <1>1, <1>2, <1>3, <1>4, <1>5 DEF Typed
<1>7. \A n \in Node : f.kids[n] = <<>> /\ f.up[n] = Null /\ Kept(f.node[n])
  <2> HIDE DEF NoNode
  <2> QED BY <1>1, <1>2, <1>3
<1>8. Rising(f)
  BY <1>3, <1>4, <1>7 DEF Rising
<1>9. \A n, c \in Node : c \notin Range(f.kids[n])
  <2>1. \A x : x \notin Range(<<>>)
    BY DEF Range
  <2> QED BY <1>7, <2>1
<1>10. Doubly(f) /\ Unique(f)
  <2>1. IsInjective(<<>>)
    BY DEF IsInjective
  <2>2. \A n \in Node : IsInjective(f.kids[n])
    BY <1>7, <2>1
  <2>3. Null \notin Node
    BY DEF Node, Null
  <2>4. Doubly(f)
    BY <1>7, <1>9, <2>2, <2>3 DEF Doubly
  <2>5. Unique(f)
    BY <1>9 DEF Unique
  <2> QED BY <2>4, <2>5
<1>11. Good(f)
  BY <1>6, <1>7, <1>8, <1>10 DEF Good
<1>12. Valid(f)
  <2>1. f.ok \in BOOLEAN
    BY <1>3, Zenon
  <2>2. f.next \in Nat
    BY <1>3
  <2> QED BY <1>3, <1>11, <2>1, <2>2 DEF Valid
<1>13. f.node[1].live /\ f.node[1].driver = "vfs_install"
  BY <1>1, <1>3, <1>4
<1> QED BY <1>3, <1>6, <1>7, <1>11, <1>12, <1>13 DEF f

\* The list tarfs_init makes has headers of the archive only: after the first block that is
\* none there is no other.
LEMMA tarfs_initType ==
    ASSUME NEW im \in Seq(Header)
    PROVE  tarfs_init(im) \in Seq(Header)
<1> DEFINE T == Len(im)
           Block(v, i) == IF i = 1 THEN 1 ELSE IF v = 0 THEN 0 ELSE v + 1 + Blocks(im[v].size)
           Step(v, i) == IF Block(v, i) \in 1..T /\ ~im[Block(v, i)].zero THEN Block(v, i) ELSE 0
           Is(g, n) == g = [i \in 1..n |-> Step(g[i - 1], i)]
           Bad == {n \in 0..T : ~ \E g : Is(g, n)}
           at == CHOOSE g : Is(g, T)
           S == {k \in DOMAIN at : at[k] # 0}
<1>0. T \in Nat /\ \A i \in 1..T : im[i] \in Header
  OBVIOUS
<1>1. tarfs_init(im) = [n \in 1..Cardinality(S) |-> im[at[n]]]
  BY DEF tarfs_init
<1>a. \A v, i : Step(v, i) \in 0..T /\ (i # 1 => Step(0, i) = 0)
  BY <1>0
<1> HIDE DEF T, Step, Is
<1>2. ASSUME Bad # {} PROVE FALSE
  <2> DEFINE m == Min(Bad)
  <2>1. m \in Bad /\ \A x \in Bad : m =< x
    <3>1. Bad \subseteq Nat
      BY <1>0
    <3> HIDE DEF Bad
    <3> QED BY <3>1, <1>2, LeastNat
  <2> HIDE DEF m
  <2>2. CASE m = 0
    <3> DEFINE e == [i \in 1..0 |-> 0]
    <3>1. \A i \in 1..0 : FALSE
      OBVIOUS
    <3>2. e = [i \in 1..0 |-> Step(e[i - 1], i)]
      BY <3>1
    <3> HIDE DEF e
    <3>3. Is(e, 0)
      BY <3>2 DEF Is
    <3> QED BY <2>1, <2>2, <3>3
  <2>3. CASE m # 0
    <3>1. m - 1 \in 0..T /\ m \in Nat /\ m - 1 \notin Bad
      BY <1>0, <2>1, <2>3
    <3>2. PICK g : Is(g, m - 1)
      BY <3>1
    <3> DEFINE h == [i \in 1..m |-> IF i < m THEN g[i] ELSE Step(g[m - 1], m)]
    <3>3. ASSUME NEW i \in 1..m PROVE h[i] = Step(h[i - 1], i)
      <4>1. CASE i = 1 /\ i < m
        <5>1. i \in 1..(m - 1)
          BY <3>1, <4>1
        <5>2. h[i] = g[i] /\ g[i] = Step(g[i - 1], i)
          BY <3>2, <4>1, <5>1 DEF Is
        <5>3. Step(g[i - 1], i) = Step(h[i - 1], i)
          BY <4>1 DEF Step
        <5> QED BY <5>2, <5>3
      <4>2. CASE i # 1 /\ i < m
        <5>1. i \in 1..(m - 1) /\ i - 1 \in 1..m /\ i - 1 < m
          BY <3>1, <4>2
        <5>2. h[i] = g[i] /\ h[i - 1] = g[i - 1]
          BY <5>1, <4>2
        <5>3. g[i] = Step(g[i - 1], i)
          BY <3>2, <5>1 DEF Is
        <5> QED BY <5>2, <5>3
      <4>3. CASE i = m /\ m # 1
        <5>1. m \in 1..m /\ m - 1 \in 1..m /\ m - 1 < m /\ ~(m < m)
          BY <3>1, <2>3, <4>3
        <5>2. h[m] = Step(g[m - 1], m) /\ h[m - 1] = g[m - 1]
          BY <5>1
        <5> QED BY <5>2, <4>3
      <4>4. CASE i = m /\ m = 1
        <5>1. h[1] = Step(g[m - 1], 1)
          BY <4>4
        <5>2. Step(g[m - 1], 1) = Step(h[i - 1], 1)
          BY DEF Step
        <5> QED BY <4>4, <5>1, <5>2
      <4> QED BY <3>1, <4>1, <4>2, <4>3, <4>4
    <3>4. Is(h, m)
      BY <3>3 DEF Is
    <3> QED BY <2>1, <3>4
  <2> QED BY <2>2, <2>3
<1>3. Is(at, T)
  <2>1. \E g : Is(g, T)
    <3>1. T \in 0..T
      BY <1>0
    <3> HIDE DEF at, S
    <3>2. T \notin Bad
      BY <1>2
    <3> QED BY <3>1, <3>2
  <2> QED BY <2>1
<1> HIDE DEF at
<1>4. DOMAIN at = 1..T /\ \A i \in 1..T : at[i] = Step(at[i - 1], i)
  BY <1>3 DEF Is
<1>5. \A i \in 1..T : at[i] \in 0..T /\ (i # 1 /\ at[i - 1] = 0 => at[i] = 0)
  <2> TAKE i \in 1..T
  <2>1. at[i] = Step(at[i - 1], i)
    BY <1>4
  <2> QED BY <1>a, <2>1
<1>6. \E m \in 0..T : \A k \in 1..T : at[k] # 0 <=> k =< m
  <2> DEFINE Z == {k \in 1..T : at[k] = 0}
  <2>1. CASE Z = {}
    BY <1>0, <2>1
  <2>2. CASE Z # {}
    <3> DEFINE z == Min(Z)
    <3>1. z \in Z /\ \A x \in Z : z =< x
      <4>1. Z \subseteq Nat
        BY <1>0
      <4> HIDE DEF Z
      <4> QED BY <2>2, <4>1, LeastNat
    <3> HIDE DEF z
    <3> DEFINE Y == {k \in 1..T : k >= z /\ at[k] # 0}
    <3>2. ASSUME Y # {} PROVE FALSE
      <4> DEFINE y == Min(Y)
      <4>1. y \in Y /\ \A x \in Y : y =< x
        <5>1. Y \subseteq Nat
          BY <1>0
        <5> HIDE DEF Y
        <5> QED BY <3>2, <5>1, LeastNat
      <4> HIDE DEF y
      <4>2. y # z /\ y \in 1..T /\ z \in 1..T /\ y >= z
        BY <3>1, <4>1
      <4>3. y - 1 \in 1..T /\ y - 1 >= z /\ y # 1 /\ y - 1 \notin Y
        BY <1>0, <4>1, <4>2
      <4>4. at[y - 1] = 0
        BY <4>3
      <4> QED BY <1>5, <4>1, <4>2, <4>3, <4>4
    <3>3. z - 1 \in 0..T
      BY <1>0, <3>1
    <3>4. \A k \in 1..T : at[k] # 0 <=> k =< z - 1
      <4> TAKE k \in 1..T
      <4>1. z \in Nat /\ k \in Nat
        BY <1>0, <3>1
      <4>2. CASE k >= z
        <5>1. at[k] = 0
          BY <3>2, <4>2
        <5> QED BY <4>1, <4>2, <5>1
      <4>3. CASE ~(k >= z)
        <5>1. k \notin Z
          BY <3>1, <4>1, <4>3
        <5> QED BY <4>1, <4>3, <5>1
      <4> QED BY <4>2, <4>3
    <3> QED BY <3>3, <3>4
  <2> QED BY <2>1, <2>2
<1>7. PICK m \in 0..T : \A k \in 1..T : at[k] # 0 <=> k =< m
  BY <1>6
<1>8. S = 1..m
  BY <1>0, <1>4, <1>7
<1>9. Cardinality(S) = m
  <2>1. Cardinality(1..m) = m
    BY <1>0, <1>7, FS_Interval
  <2> QED BY <1>8, <2>1
<1> HIDE DEF S
<1>10. \A n \in 1..m : im[at[n]] \in Header
  <2> TAKE n \in 1..m
  <2>1. n \in 1..T
    BY <1>0, <1>7
  <2>2. at[n] \in 1..T
    BY <1>0, <1>5, <1>7, <2>1
  <2> QED BY <1>0, <2>2
<1>11. tarfs_init(im) \in [1..m -> Header] /\ m \in Nat
  BY <1>0, <1>1, <1>7, <1>9, <1>10
<1> HIDE DEF Bad
<1> QED BY <1>11, SeqDef

LEMMA ChildIs ==
    ASSUME NEW f, NEW p \in Node, NEW k, NEW name, Valid(f), Counts(f), k \in Kids(f, p),
           f.node[k].name = name, \A c \in Kids(f, p) : f.node[c].live
    PROVE  get_child(f, p, name) = k /\ k \in Node /\ k # Null
<1> DEFINE c == get_child(f, p, name)
<1>1. f.kids[p] \in Seq(Node) /\ Unique(f)
  BY DEF Valid, Good, Typed
<1>2. /\ c # Null => c \in Kids(f, p) /\ (~f.node[c].live \/ f.node[c].name = name)
      /\ c = Null => \A j \in Kids(f, p) : f.node[j].live /\ f.node[j].name # name
  BY <1>1, get_childFacts DEF Kids
<1> HIDE DEF c
<1>3. c # Null
  BY <1>2
<1>4. c \in Kids(f, p) /\ f.node[c].live /\ f.node[k].live /\ f.node[c].name = name
  BY <1>2, <1>3
<1>5. c \in Node /\ k \in Node
  BY <1>4, KidFacts DEF Kids
<1>6. c = k
  BY <1>1, <1>4, <1>5 DEF Unique, Kids
<1> QED BY <1>5, <1>6 DEF c, Node, Null

LEMMA NoChild ==
    ASSUME NEW f, NEW p \in Node, NEW name, Valid(f), Counts(f),
           \A c \in Kids(f, p) : f.node[c].live /\ f.node[c].name # name
    PROVE  get_child(f, p, name) = Null /\ Lacks(f, p, name)
<1> DEFINE c == get_child(f, p, name)
<1>1. f.kids[p] \in Seq(Node)
  BY DEF Valid, Good, Typed
<1>2. c # Null => c \in Kids(f, p) /\ (~f.node[c].live \/ f.node[c].name = name)
  BY <1>1, get_childFacts DEF Kids
<1> HIDE DEF c
<1> QED BY <1>2 DEF c, Lacks, Kids

\* After the first mounts the root has one child, /dev, which is empty.
Rooted(f) ==
    /\ Valid(f) /\ f.ok /\ f.next = 4 /\ f.root = 3 /\ ~Dangling(f)
    /\ Kids(f, 3) = {2} /\ Kids(f, 2) = {}
    /\ f.node[2].name = "dev" /\ f.node[2].live /\ f.node[2].driver = "mkdir_vfs"
    /\ f.node[3].live

LEMMA RootedFacts ==
    ASSUME NEW im \in Seq(Header)
    PROVE  Rooted(MountRoot(mkdir_vfs(vfs_install(tarfs_init(im)), <<"dev">>), tarfs_mount))
<1> DEFINE f == vfs_install(tarfs_init(im))
           dev == FileNode("dev", "DIR", "mkdir_vfs")
           g == mkdir_vfs(f, <<"dev">>)
           w == resolve_path(f, <<"dev">>)
           h == MountRoot(g, tarfs_mount)
<1>0. {1, 2, 3, 4, 5} \subseteq Node /\ "dev" \in Name /\ MaxNode \in Nat
  BY TreeAssumption DEF Node
<1>1. /\ Valid(f) /\ f.ok /\ f.next = 2 /\ f.root = 1
      /\ Kids(f, 1) = {} /\ Kids(f, 2) = {}
      /\ f.node[1].live /\ f.node[1].driver = "vfs_install"
  <2>1. tarfs_init(im) \in Seq(Header)
    BY tarfs_initType
  <2>2. f.ok = TRUE
    BY <2>1, InstallFacts
  <2>3. /\ Valid(f) /\ f.next = 2 /\ f.root = 1
        /\ \A n \in Node : f.kids[n] = <<>>
        /\ f.node[1].live /\ f.node[1].driver = "vfs_install"
    BY <2>1, InstallFacts
  <2> HIDE DEF f
  <2>4. Range(<<>>) = {}
    BY DEF Range
  <2>5. f.kids[1] = <<>> /\ f.kids[2] = <<>>
    BY <1>0, <2>3
  <2> QED BY <2>2, <2>3, <2>4, <2>5 DEF Kids
<1>2. g = IF w.parent = Null THEN w.fs
          ELSE [AddChild(w.fs, w.parent, dev) EXCEPT !.node[w.parent].size = @ + 1]
  <2>1. Last(<<"dev">>) = "dev" /\ <<"dev">> # <<>>
    BY DEF Last
  <2> QED BY ZenonT(60), <2>1 DEF mkdir_vfs, mount_directly
<1> HIDE DEF f, g, w, h, dev
<1>3. Counts(f)
  BY <1>0, <1>1 DEF Counts, Node
<1>4. get_child(f, 1, "dev") = Null /\ Lacks(f, 1, "dev")
  <2> QED BY <1>0, <1>1, <1>3, NoChild
<1>5. w.fs = f /\ w.parent = 1
  <2>1. w = Component(At(f, 1), "dev", TRUE)
    BY <1>1, ResolveOne DEF w
  <2>2. ~Has(f, 1, "find_dir")
    BY <1>1 DEF Has, Ops
  <2>3. 1 # Null
    BY DEF Null
  <2> QED BY <1>0, <1>1, <1>4, <2>1, <2>2, <2>3, StepMissing
<1>6. g = [AddChild(f, 1, dev) EXCEPT !.node[1].size = @ + 1]
  BY <1>2, <1>5 DEF Null
<1>7. Fits(dev, "dev") /\ dev.live /\ dev.driver = "mkdir_vfs"
  <2>1. "dev" \in Name \cup {NoName, "[root]", "[root_tarfs]"} /\ "DIR" \in Type
        /\ "mkdir_vfs" \in DOMAIN Ops
    BY <1>0, Drivers DEF Type
  <2>2. dev \in NodeType /\ Kept(dev) /\ dev.name = "dev" /\ dev.live = TRUE
        /\ dev.driver = "mkdir_vfs"
    BY <2>1, FileNodeType DEF dev
  <2> QED BY <2>2 DEF Fits
<1>8. ~Dangling(f)
  <2> SUFFICES ASSUME NEW n \in Node, ~f.node[n].live, n < f.next PROVE FALSE
    BY DEF Dangling
  <2>1. n = 1
    BY <1>1 DEF Node
  <2> QED BY <1>1, <2>1
<1>9. EntryMade(f, 1, dev, g)
  <2>1. 1 \in Node /\ f.next \in Node /\ 1 < f.next
    BY <1>0, <1>1
  <2> QED BY <1>0, <1>1, <1>4, <1>6, <1>7, <1>8, <2>1, EntryIs
<1>10. /\ g.next = 3 /\ g.root = 1 /\ Kids(g, 1) = {2} /\ Kids(g, 2) = {}
       /\ g.node[2] = dev
  <2>1. 1 \in Node /\ 2 \in Node /\ 1 # 2
    BY <1>0
  <2>2. Kids(g, 1) = {2} /\ Kids(g, 2) = {}
    BY <1>1, <1>9, <2>1 DEF EntryMade
  <2>4. g.next = 3 /\ g.root = 1 /\ g.node[2] = dev
    BY <1>1, <1>9 DEF EntryMade
  <2> QED BY <2>2, <2>4
<1>11. Counts(g) /\ g.up[1] = Null
  <2>1. Counts(g)
    BY <1>0, <1>9, <1>10 DEF Counts, Node, EntryMade
  <2>2. Rising(g)
    BY <1>9, <2>1 DEF Valid, Good, EntryMade
  <2> QED BY <1>10, <2>1, <2>2 DEF Rising
<1>12. tarfs_mount \in NodeType /\ Kept(tarfs_mount) /\ tarfs_mount.live = TRUE
  <2>1. "[root_tarfs]" \in Name \cup {NoName, "[root]", "[root_tarfs]"} /\ "MOUNT_POINT" \in Type
        /\ "tarfs_mount" \in DOMAIN Ops
    BY Drivers DEF Type
  <2> QED BY <2>1, FileNodeType DEF tarfs_mount
<1>13. /\ Valid(h) /\ h.next = g.next + 1 /\ h.root = g.next
       /\ (h.ok <=> g.ok /\ ~Dangling(g))
       /\ Counts(g) /\ g.next \in Node =>
             /\ h.kids[g.next] = g.kids[g.root]
             /\ \A n \in Node : g.up[n] = Null => h.up[n] = Null
             /\ \A n \in Node : n \notin {g.root, g.next} =>
                    h.node[n] = g.node[n] /\ h.kids[n] = g.kids[n]
             /\ h.node[g.next].live = tarfs_mount.live
  <2>1. Valid(g)
    BY <1>9 DEF EntryMade
  <2> QED BY <1>12, <2>1, RootMountKeeps DEF h
<1>14. g.next \in Node /\ 2 \in Node /\ 2 \notin {g.root, g.next} /\ 1 \in Node
  BY <1>0, <1>10
<1>15. /\ h.next = 4 /\ h.root = 3 /\ h.ok /\ Kids(h, 3) = {2} /\ Kids(h, 2) = {}
       /\ h.node[2] = dev /\ h.up[1] = Null /\ h.node[3].live
  <2>1. /\ h.next = 4 /\ h.root = 3 /\ h.ok
        /\ h.node[2] = dev /\ h.up[1] = Null /\ h.node[3].live
    BY <1>9, <1>10, <1>11, <1>12, <1>13, <1>14 DEF EntryMade
  <2>2. h.kids[3] = g.kids[1] /\ h.kids[2] = g.kids[2]
    BY <1>10, <1>11, <1>13, <1>14
  <2>3. Kids(h, 3) = Kids(g, 1) /\ Kids(h, 2) = Kids(g, 2)
    BY <2>2 DEF Kids
  <2> QED BY <1>10, <2>1, <2>3
<1>16. ~Dangling(h)
  <2> SUFFICES ASSUME NEW n \in Node, ~h.node[n].live, n < h.next, n = h.root \/ h.up[n] # Null
               PROVE  FALSE
    BY DEF Dangling
  <2>1. n = 1 \/ n = 2 \/ n = 3
    BY <1>15 DEF Node
  <2>2. n # 2 /\ n # 3
    BY <1>7, <1>15
  <2> QED BY <1>15, <2>1, <2>2
<1>17. Rooted(h)
  BY <1>7, <1>13, <1>15, <1>16 DEF Rooted, Fits
<1> QED BY <1>17 DEF h, g, f

\* The console is a child of /dev.
Consoled(f) ==
    /\ Valid(f) /\ f.ok /\ f.next = 5 /\ f.root = 3 /\ ~Dangling(f)
    /\ Kids(f, 3) = {2} /\ Kids(f, 2) = {4}
    /\ f.node[2].name = "dev" /\ f.node[2].live
    /\ f.node[3].live
    /\ f.node[4].name = "tty" /\ f.node[4].live

LEMMA ConsoleFacts ==
    ASSUME NEW f, Rooted(f)
    PROVE  Consoled(mount_directly(f, <<"dev", "tty">>, console_init))
<1> DEFINE g == mount_directly(f, <<"dev", "tty">>, console_init)
           w == resolve_path(f, <<"dev", "tty">>)
<1>0. 1 \in Node /\ 2 \in Node /\ 3 \in Node /\ 4 \in Node /\ MaxNode \in Nat
  BY TreeAssumption DEF Node
<1>a. "dev" \in Name /\ "tty" \in Name
  BY TreeAssumption
<1>1. g = IF w.parent = Null THEN w.fs
          ELSE [AddChild(w.fs, w.parent, console_init) EXCEPT !.node[w.parent].size = @ + 1]
  BY DEF mount_directly
<1> HIDE DEF g, w
<1>2. Valid(f) /\ f.ok /\ f.next = 4 /\ f.root = 3 /\ Counts(f) /\ ~Dangling(f)
      /\ f.node[2].live /\ 3 # Null /\ 2 # Null
  BY <1>0 DEF Rooted, Counts, Node, Null
<1>3. get_child(f, 3, "dev") = 2
  <2>1. 2 \in Kids(f, 3) /\ \A c \in Kids(f, 3) : f.node[c].live
    BY <1>2 DEF Rooted
  <2> QED BY <1>0, <1>2, <2>1, ChildIs DEF Rooted
<1>4. get_child(f, 2, "tty") = Null /\ Lacks(f, 2, "tty")
  <2>1. \A c \in Kids(f, 2) : FALSE
    BY DEF Rooted
  <2> QED BY <1>0, <1>2, <2>1, NoChild
<1>5. w = Component(Component(At(f, 3), "dev", FALSE), "tty", TRUE)
  BY <1>2, ResolveTwo DEF w
<1>6. Component(At(f, 3), "dev", FALSE) = At(f, 2)
  BY ZenonT(60), <1>a, <1>2, <1>3, StepDown
<1>7. ~Has(f, 2, "find_dir")
  BY DEF Has, Ops, Rooted
<1>8. w.fs = f /\ w.parent = 2
  <2>1. w = Component(At(f, 2), "tty", TRUE)
    BY <1>5, <1>6
  <2>2. LET v == Component(At(f, 2), "tty", TRUE) IN v.fs = f /\ v.parent = 2
    BY <1>a, <1>2, <1>4, <1>7, StepMissing
  <2> QED BY <2>1, <2>2
<1>9. g = [AddChild(f, 2, console_init) EXCEPT !.node[2].size = @ + 1]
  BY <1>1, <1>2, <1>8
<1>10. Fits(console_init, "tty") /\ console_init.live /\ console_init.name = "tty"
  <2>1. "tty" \in Name \cup {NoName, "[root]", "[root_tarfs]"} /\ "VIRTUAL_DEVICE" \in Type
        /\ "console" \in DOMAIN Ops
    BY <1>a, Drivers DEF Type
  <2>2. console_init \in NodeType /\ Kept(console_init) /\ console_init.name = "tty"
        /\ console_init.live = TRUE
    BY <2>1, FileNodeType DEF console_init
  <2> HIDE DEF console_init
  <2> QED BY <2>2 DEF Fits
<1> HIDE DEF console_init
<1>11. EntryMade(f, 2, console_init, g)
  <2>1. f.next \in Node /\ 2 < f.next
    BY <1>0, <1>2
  <2> QED BY <1>0, <1>a, <1>2, <1>4, <1>9, <1>10, <2>1, EntryIs
<1>12. Kids(g, 3) = {2} /\ Kids(g, 2) = {4}
  BY <1>0, <1>2, <1>11 DEF Rooted, EntryMade
<1>13. g.node[2].name = "dev" /\ g.node[2].live /\ g.node[3].live
  BY <1>0, <1>2, <1>11 DEF Rooted, EntryMade
<1>14. g.node[4] = console_init /\ g.next = 5 /\ g.root = 3
  BY <1>2, <1>11 DEF EntryMade
<1>15. Consoled(g)
  BY <1>10, <1>11, <1>12, <1>13, <1>14 DEF Consoled, EntryMade
<1> QED BY <1>15 DEF g

\* After booting, /dev/tty can be opened.
LEMMA BootFacts ==
    ASSUME NEW im \in Seq(Header)
    PROVE  /\ Valid(Boot(im)) /\ Boot(im).ok /\ Boot(im).next = 6
           /\ open(Boot(im), <<"dev", "tty">>, {}).node = 4
<1> DEFINE r == MountRoot(mkdir_vfs(vfs_install(tarfs_init(im)), <<"dev">>), tarfs_mount)
           f == mount_directly(r, <<"dev", "tty">>, console_init)
           g == Boot(im)
           tmp == ramfs_init(<<"tmp">>)
           w == resolve_path(f, <<"tmp">>)
<1>0. 1 \in Node /\ 2 \in Node /\ 3 \in Node /\ 4 \in Node /\ 5 \in Node /\ MaxNode \in Nat
  BY TreeAssumption DEF Node
<1>a. "dev" \in Name /\ "tty" \in Name /\ "tmp" \in Name
  BY TreeAssumption
<1>1. g = mount_directly(f, <<"tmp">>, tmp)
  <2>1. Boot(im) = mount_directly(mount_directly(mount_directly(
                       mkdir_vfs(vfs_install(tarfs_init(im)), <<"dev">>), <<>>, tarfs_mount),
                       <<"dev", "tty">>, console_init), <<"tmp">>, tmp)
    BY DEF Boot
  <2>2. \A x, rec : mount_directly(x, <<>>, rec) = MountRoot(x, rec)
    BY DEF mount_directly
  <2> QED BY <2>1, <2>2
<1>2. Consoled(f)
  BY RootedFacts, ConsoleFacts
<1>3. g = IF w.parent = Null THEN w.fs
          ELSE [AddChild(w.fs, w.parent, tmp) EXCEPT !.node[w.parent].size = @ + 1]
  <2> HIDE DEF f, tmp, g
  <2> QED BY <1>1 DEF mount_directly
<1>4. Fits(tmp, "tmp") /\ tmp.live /\ tmp.name = "tmp"
  <2>1. "tmp" \in Name \cup {NoName, "[root]", "[root_tarfs]"} /\ "MOUNT_POINT" \in Type
        /\ "ramfs_init" \in DOMAIN Ops
    BY <1>a, Drivers DEF Type
  <2>2. tmp = FileNode("tmp", "MOUNT_POINT", "ramfs_init")
    BY DEF ramfs_init, Last
  <2> HIDE DEF tmp
  <2>3. tmp \in NodeType /\ Kept(tmp) /\ tmp.name = "tmp" /\ tmp.live = TRUE
    BY <2>1, <2>2, FileNodeType
  <2> QED BY <2>3 DEF Fits
<1> HIDE DEF r, f, g, tmp, w
<1>5. /\ Valid(f) /\ f.ok /\ f.next = 5 /\ f.root = 3 /\ Counts(f) /\ ~Dangling(f)
      /\ f.node[2].live /\ f.node[3].live /\ 3 # Null /\ 2 # Null /\ 4 # Null
  BY <1>0, <1>2 DEF Consoled, Counts, Node, Null
<1>6. get_child(f, 3, "tmp") = Null /\ Lacks(f, 3, "tmp")
  <2>1. \A c \in Kids(f, 3) : f.node[c].live /\ f.node[c].name # "tmp"
    BY <1>2 DEF Consoled
  <2> QED BY <1>0, <1>5, <2>1, NoChild
<1>7. w = Component(At(f, 3), "tmp", TRUE)
  BY <1>5, ResolveOne DEF w
<1> DEFINE ent == tarfs_find_dir(f.archive, f.node[3].ent, "tmp")
           cache == [FileNode("tmp", IF f.archive[ent].dir THEN "DIR" ELSE "FILE", "tarfs")
                        EXCEPT !.size = f.archive[ent].size, !.ent = ent, !.cached = TRUE]
<1>8. \E rec : /\ Fits(rec, "tmp") /\ rec.live
               /\ g = AddChild(f, 3, rec) \/ g = [AddChild(f, 3, rec) EXCEPT !.node[3].size = @ + 1]
  <2>1. CASE Has(f, 3, "find_dir") => ent = 0
    <3>1. w.fs = f /\ w.parent = 3
      BY <1>a, <1>5, <1>6, <1>7, <2>1, StepMissing
    <3>2. g = [AddChild(f, 3, tmp) EXCEPT !.node[3].size = @ + 1]
      BY <1>3, <1>5, <3>1
    <3> QED BY <1>4, <3>2
  <2>2. CASE Has(f, 3, "find_dir") /\ ent # 0
    <3>1. w.fs = cache_node(f, 3, "tmp", ent) /\ w.parent = Null
      <4>1. ent = tarfs_find_dir(f.archive, f.node[3].ent, "tmp") /\ ent # 0
        BY <2>2
      <4> HIDE DEF ent
      <4>2. LET v == Component(At(f, 3), "tmp", TRUE)
            IN v.fs = cache_node(f, 3, "tmp", ent) /\ v.parent = Null
        <5> DEFINE n == 3
        <5>1. /\ "tmp" \in Name /\ Valid(f) /\ f.ok /\ n # Null /\ f.node[n].live
              /\ get_child(f, n, "tmp") = Null /\ Has(f, n, "find_dir")
              /\ ent = tarfs_find_dir(f.archive, f.node[n].ent, "tmp") /\ ent # 0
          BY <1>a, <1>5, <1>6, <2>2, <4>1
        <5> HIDE DEF n
        <5>2. LET v == Component(At(f, n), "tmp", TRUE)
              IN v.fs = cache_node(f, n, "tmp", ent) /\ v.parent = Null
          BY <5>1, StepCached
        <5> QED BY <5>2 DEF n
      <4> QED BY <1>7, <4>2
    <3>2. g = AddChild(f, 3, cache)
      BY <1>3, <3>1 DEF cache_node
    <3>3. Fits(cache, "tmp") /\ cache.live
      <4>1. ent \in 1..Len(f.archive)
        <5>1. f.archive \in Seq(Header) /\ f.node[3] \in NodeType
          BY <1>0, <1>5 DEF Valid, Good, Typed
        <5>2. f.node[3].ent \in Nat
          BY <5>1, FieldTypes
        <5>3. ent \in 0..Len(f.archive) /\ Len(f.archive) \in Nat
          BY <5>1, <5>2, tarfs_find_dirType
        <5> HIDE DEF ent
        <5> QED BY <2>2, <5>3
      <4> HIDE DEF ent
      <4>2. cache \in NodeType /\ Kept(cache) /\ cache.name = "tmp" /\ cache.live = TRUE
        BY <1>a, <1>5, <4>1, CacheType
      <4> HIDE DEF cache
      <4> QED BY <4>2 DEF Fits
    <3> HIDE DEF cache
    <3> QED BY <3>2, <3>3
  <2> QED BY <2>1, <2>2
<1>9. PICK rec : /\ Fits(rec, "tmp") /\ rec.live
                 /\ g = AddChild(f, 3, rec) \/ g = [AddChild(f, 3, rec) EXCEPT !.node[3].size = @ + 1]
  BY <1>8
<1>10. EntryMade(f, 3, rec, g) /\ Valid(g) /\ g.ok
  <2>1. f.next \in Node /\ 3 < f.next
    BY <1>0, <1>5
  <2>2. EntryMade(f, 3, rec, g)
    BY <1>0, <1>a, <1>5, <1>6, <1>9, <2>1, EntryIs
  <2> QED BY <2>2 DEF EntryMade
<1>11. g.next = 6 /\ Counts(g) /\ g.root = 3
  BY <1>0, <1>5, <1>10 DEF Counts, Node, EntryMade
<1>12. /\ Kids(g, 3) = {2, 5} /\ Kids(g, 2) = {4}
       /\ g.node[2].name = "dev" /\ g.node[2].live /\ g.node[4].name = "tty" /\ g.node[4].live
       /\ g.node[5].live
  <2>1. Kids(g, 3) = {2, 5} /\ Kids(g, 2) = {4}
    BY <1>0, <1>2, <1>5, <1>10 DEF Consoled, EntryMade
  <2>2. /\ g.node[2].name = "dev" /\ g.node[2].live
        /\ g.node[4].name = "tty" /\ g.node[4].live
    BY <1>0, <1>2, <1>5, <1>10 DEF Consoled, EntryMade
  <2>3. g.node[5] = rec
    BY <1>5, <1>10 DEF EntryMade
  <2> QED BY <1>9, <2>1, <2>2, <2>3
<1>13. get_child(g, 3, "dev") = 2
  <2>1. 2 \in Kids(g, 3) /\ \A c \in Kids(g, 3) : g.node[c].live
    BY <1>12
  <2> QED BY <1>0, <1>10, <1>11, <1>12, <2>1, ChildIs
<1>14. get_child(g, 2, "tty") = 4
  <2>1. 4 \in Kids(g, 2) /\ \A c \in Kids(g, 2) : g.node[c].live
    BY <1>12
  <2> QED BY <1>0, <1>10, <1>11, <1>12, <2>1, ChildIs
<1>15. resolve_path(g, <<"dev", "tty">>) = At(g, 4)
  <2>1. Component(At(g, 3), "dev", FALSE) = At(g, 2)
    <3> DEFINE n == 3
               c == 2
    <3>1. "dev" \in Name /\ Valid(g) /\ g.ok /\ n # Null /\ c = get_child(g, n, "dev")
      BY <1>a, <1>5, <1>10, <1>13
    <3>2. c # Null /\ g.node[c].live
      BY <1>5, <1>12
    <3> HIDE DEF n, c
    <3>3. \A last : Component(At(g, n), "dev", last) = At(g, c)
      BY <3>1, <3>2, StepDown
    <3> QED BY <3>3 DEF n, c
  <2>2. Component(At(g, 2), "tty", TRUE) = At(g, 4)
    <3> DEFINE n == 2
               c == 4
    <3>1. "tty" \in Name /\ Valid(g) /\ g.ok /\ n # Null /\ c = get_child(g, n, "tty")
      BY <1>a, <1>5, <1>10, <1>14
    <3>2. c # Null /\ g.node[c].live
      BY <1>5, <1>12
    <3> HIDE DEF n, c
    <3>3. \A last : Component(At(g, n), "tty", last) = At(g, c)
      BY <3>1, <3>2, StepDown
    <3> QED BY <3>3 DEF n, c
  <2> QED BY <1>11, <2>1, <2>2, ResolveTwo
<1>16. open(g, <<"dev", "tty">>, {}) = OpenNode(g, 4, {})
  <2>1. At(g, 4).fs = g /\ At(g, 4).cur = 4
    BY DEF At
  <2> QED BY <1>5, <1>10, <1>15, <2>1 DEF open
<1>17. OpenNode(g, 4, {}).node = 4
  BY ResultFacts DEF OpenNode
<1> QED BY <1>10, <1>11, <1>16, <1>17 DEF g

-----------------------------------------------------------------------------
\* The way up from a node.

LEMMA AboveSteps ==
    ASSUME NEW f, NEW n
    PROVE  \E a : /\ a[0] = n
                  /\ \A i \in 1..MaxNode : a[i] = IF a[i - 1] = Null THEN Null ELSE f.up[a[i - 1]]
                  /\ InTree(f, n) = \E k \in 0..MaxNode : a[k] = f.root
<1> DEFINE T == MaxNode
           Step(v) == IF v = Null THEN Null ELSE f.up[v]
           Is(g, m) == g = [i \in 0..m |-> IF i = 0 THEN n ELSE Step(g[i - 1])]
           Bad == {m \in 0..T : ~ \E g : Is(g, m)}
<1>0. T \in Nat
  BY TreeAssumption
<1>1. InTree(f, n) = \E k \in 0..T : (CHOOSE g : Is(g, T))[k] = f.root
  BY DEF InTree
<1> HIDE DEF T, Step, Is
<1>2. ASSUME Bad # {} PROVE FALSE
  <2> DEFINE m == Min(Bad)
  <2>1. m \in Bad /\ \A x \in Bad : m =< x
    <3>1. Bad \subseteq Nat
      BY <1>0
    <3> HIDE DEF Bad
    <3> QED BY <3>1, <1>2, LeastNat
  <2> HIDE DEF m
  <2>2. CASE m = 0
    <3>1. Is([i \in 0..0 |-> n], 0)
      BY DEF Is
    <3> QED BY <2>1, <2>2, <3>1
  <2>3. CASE m # 0
    <3>1. m - 1 \in 0..T /\ m \in Nat /\ m - 1 \notin Bad
      BY <1>0, <2>1, <2>3
    <3>2. PICK g : Is(g, m - 1)
      BY <3>1
    <3> DEFINE h == [i \in 0..m |-> IF i < m THEN g[i] ELSE Step(g[m - 1])]
    <3>3. ASSUME NEW i \in 0..m PROVE h[i] = IF i = 0 THEN n ELSE Step(h[i - 1])
      <4>1. CASE i = 0 BY <2>3, <3>1, <3>2, <4>1 DEF Is
      <4>2. CASE i # 0 /\ i < m
        <5>1. i \in 0..(m - 1) /\ i - 1 \in 0..m /\ i - 1 < m
          BY <3>1, <4>2
        <5>2. h[i] = g[i] /\ h[i - 1] = g[i - 1]
          BY <5>1, <4>2
        <5>3. g[i] = Step(g[i - 1])
          BY <3>2, <5>1, <4>2 DEF Is
        <5> QED BY <5>2, <5>3, <4>2
      <4>3. CASE i = m
        <5>1. h[m] = Step(g[m - 1]) /\ h[m - 1] = g[m - 1]
          BY <3>1, <2>3
        <5> QED BY <5>1, <4>3, <2>3
      <4> QED BY <3>1, <4>1, <4>2, <4>3
    <3>4. Is(h, m)
      BY <3>3 DEF Is
    <3> QED BY <2>1, <3>4
  <2> QED BY <2>2, <2>3
<1>3. Is(CHOOSE g : Is(g, T), T)
  <2>1. \E g : Is(g, T)
    BY <1>0, <1>2
  <2> QED BY <2>1
<1> DEFINE a == CHOOSE g : Is(g, T)
<1>4. a[0] = n /\ \A i \in 1..T : a[i] = Step(a[i - 1])
  <2> HIDE DEF a
  <2>1. a = [i \in 0..T |-> IF i = 0 THEN n ELSE Step(a[i - 1])]
    BY <1>3 DEF a, Is
  <2> QED BY <1>0, <2>1
<1> HIDE DEF a
<1>5. InTree(f, n) = \E k \in 0..T : a[k] = f.root
  BY <1>1 DEF a
<1> QED BY <1>4, <1>5 DEF T, Step

\* Parents are older, except below the root: the way up ends after at most MaxNode steps.
LEMMA UpEnds ==
    ASSUME NEW f, NEW n \in Node, Shape(f), Typed(f), Rising(f)
    PROVE  \E k \in Node : f.up[k] = Null /\ InTree([f EXCEPT !.root = k], n)
<1>1. PICK a : /\ a[0] = n
               /\ \A i \in 1..MaxNode : a[i] = IF a[i - 1] = Null THEN Null ELSE f.up[a[i - 1]]
  <2>1. \E a : /\ a[0] = n
               /\ \A i \in 1..MaxNode : a[i] = IF a[i - 1] = Null THEN Null ELSE f.up[a[i - 1]]
               /\ InTree(f, n) = \E k \in 0..MaxNode : a[k] = f.root
    BY AboveSteps
  <2> QED BY <2>1
<1>2. MaxNode \in Nat /\ n \in 1..MaxNode
  BY TreeAssumption DEF Node
<1>3. \E j \in 0..MaxNode : a[j] \in Node /\ f.up[a[j]] = Null
  <2> SUFFICES ASSUME \A j \in 0..MaxNode : a[j] \in Node => f.up[a[j]] # Null PROVE FALSE
    OBVIOUS
  <2> DEFINE Fine(j) == a[j] \in Node /\ a[j] + j =< n
             Bad == {j \in 0..MaxNode : ~Fine(j)}
  <2>1. Fine(0)
    BY <1>1, <1>2
  <2>2. ASSUME NEW j \in 1..MaxNode, Fine(j - 1) PROVE Fine(j)
    <3> DEFINE x == a[j - 1]
               y == a[j]
    <3>1. j - 1 \in 0..MaxNode /\ j \in 0..MaxNode /\ j \in Nat
      BY <1>2
    <3>2. x \in Node /\ f.up[x] # Null /\ x + (j - 1) =< n
      BY <2>2, <3>1
    <3>3. y = f.up[x]
      BY <1>1, <3>2 DEF Node, Null
    <3>4. y \in Node /\ (y < x \/ y = f.root)
      BY <3>2, <3>3 DEF Typed, Rising
    <3>5. f.up[y] # Null
      BY <3>1, <3>4
    <3>6. y # f.root
      BY <3>5 DEF Rising
    <3> HIDE DEF x, y
    <3>7. y \in Node /\ y + j =< n
      BY <1>2, <3>1, <3>2, <3>4, <3>6 DEF Node
    <3> QED BY <3>7 DEF y
  <2> HIDE DEF Fine
  <2>3. ASSUME Bad # {} PROVE FALSE
    <3> DEFINE m == Min(Bad)
    <3>1. m \in Bad /\ \A x \in Bad : m =< x
      <4>1. Bad \subseteq Nat
        BY <1>2
      <4> HIDE DEF Bad
      <4> QED BY <4>1, <2>3, LeastNat
    <3> HIDE DEF m
    <3>2. m # 0
      BY <2>1, <3>1
    <3>3. m \in 1..MaxNode /\ m - 1 \in 0..MaxNode /\ m - 1 \notin Bad
      BY <1>2, <3>1, <3>2
    <3> QED BY <2>2, <3>1, <3>3
  <2>4. Fine(MaxNode)
    BY <1>2, <2>3
  <2> QED BY <1>2, <2>4 DEF Fine, Node
<1>4. PICK j \in 0..MaxNode : a[j] \in Node /\ f.up[a[j]] = Null
  BY <1>3
<1> DEFINE k == a[j]
           g == [f EXCEPT !.root = k]
<1>5. g.up = f.up /\ g.root = k
  BY DEF Shape
<1> HIDE DEF g
<1>6. InTree(g, n)
  <2>1. PICK b : /\ b[0] = n
                 /\ \A i \in 1..MaxNode : b[i] = IF b[i - 1] = Null THEN Null ELSE g.up[b[i - 1]]
                 /\ InTree(g, n) = \E i \in 0..MaxNode : b[i] = g.root
    BY AboveSteps
  <2> DEFINE Bad == {i \in 0..MaxNode : a[i] # b[i]}
  <2>2. ASSUME Bad # {} PROVE FALSE
    <3> DEFINE m == Min(Bad)
    <3>1. m \in Bad /\ \A x \in Bad : m =< x
      <4>1. Bad \subseteq Nat
        BY <1>2
      <4> HIDE DEF Bad
      <4> QED BY <4>1, <2>2, LeastNat
    <3> HIDE DEF m
    <3>2. m # 0
      BY <1>1, <2>1, <3>1
    <3>3. m \in 1..MaxNode /\ m - 1 \in 0..MaxNode /\ m - 1 \notin Bad
      BY <1>2, <3>1, <3>2
    <3>4. a[m - 1] = b[m - 1]
      BY <3>3
    <3>5. a[m] = b[m]
      BY <1>1, <1>5, <2>1, <3>3, <3>4
    <3> QED BY <3>1, <3>5
  <2>3. b[j] = g.root
    BY <1>5, <2>2
  <2> QED BY <2>1, <2>3
<1> QED BY <1>4, <1>6 DEF g

-----------------------------------------------------------------------------
\* Descriptor tables.

HandleType == [node : Node \cup {Null}, offset : Offset, mode : SUBSET Flag]

Busy(t) == {i \in Fd : t.handles[i] # NoHandle}

\* The counter is the number of open handles, and an open handle has a node.
TableShape(t) == t = [length |-> t.length, handles |-> t.handles]

TableOK(t) ==
    /\ TableShape(t)
    /\ t.handles \in [Fd -> HandleType]
    /\ \A i \in Fd : t.handles[i] # NoHandle => t.handles[i].node # Null
    /\ t.length = Cardinality(Busy(t))

\* Open descriptors of t keep their node in u, or are closed.
Follows(t, u) ==
    \A i \in Fd : t.handles[i] # NoHandle => u.handles[i].node \in {t.handles[i].node, Null}

LEMMA FdFinite ==
    /\ IsFiniteSet(Fd) /\ Cardinality(Fd) = Capacity /\ Capacity \in Nat /\ 0 \in Fd
<1>1. Capacity \in Nat \ {0}
  BY FilesAssumption
<1>2. 0 \in Int /\ Capacity - 1 \in Int
  BY <1>1
<1>3. /\ IsFiniteSet(0..(Capacity - 1))
      /\ Cardinality(0..(Capacity - 1)) = IF 0 > Capacity - 1 THEN 0 ELSE Capacity - 1 - 0 + 1
  BY <1>2, FS_Interval
<1> QED BY <1>1, <1>3 DEF Fd

LEMMA BusyFinite ==
    ASSUME NEW t
    PROVE  /\ IsFiniteSet(Busy(t)) /\ Cardinality(Busy(t)) \in 0..Capacity
           /\ Cardinality(Busy(t)) = Capacity => Busy(t) = Fd
<1>1. Busy(t) \subseteq Fd
  BY DEF Busy
<1>2. /\ IsFiniteSet(Busy(t)) /\ Cardinality(Busy(t)) =< Cardinality(Fd)
      /\ Cardinality(Busy(t)) = Cardinality(Fd) => Busy(t) = Fd
  BY <1>1, FdFinite, FS_Subset
<1>3. Cardinality(Busy(t)) \in Nat
  BY <1>2, FS_CardinalityType
<1> QED BY <1>2, <1>3, FdFinite

LEMMA NoHandleType == NoHandle \in HandleType /\ NoHandle.node = Null
<1>1. 0 \in Offset /\ {} \in SUBSET Flag
  BY FilesAssumption DEF Offset
<1> QED BY <1>1 DEF NoHandle, HandleType

LEMMA EmptyTableOK ==
    /\ TableOK(EmptyTable) /\ Busy(EmptyTable) = {} /\ EmptyTable.length = 0
    /\ \A t : Follows(t, EmptyTable)
<1> DEFINE e == EmptyTable
<1>1. e = [length |-> 0, handles |-> [i \in Fd |-> NoHandle]]
  BY DEF EmptyTable
<1> HIDE DEF e, NoHandle
<1>2. e.length = 0 /\ e.handles = [i \in Fd |-> NoHandle] /\ TableShape(e)
  BY <1>1 DEF TableShape
<1>3. \A i \in Fd : e.handles[i] = NoHandle
  BY <1>2
<1>4. e.handles \in [Fd -> HandleType]
  BY <1>2, NoHandleType
<1>5. Busy(e) = {}
  BY <1>3 DEF Busy
<1>6. e.length = Cardinality(Busy(e))
  BY <1>2, <1>5, FS_EmptySet
<1>7. TableOK(e)
  BY <1>2, <1>3, <1>4, <1>6 DEF TableOK
<1>8. \A t : Follows(t, e)
  BY <1>3, NoHandleType DEF Follows
<1> QED BY <1>2, <1>5, <1>7, <1>8 DEF e

\* A handle is stored in a free slot.
LEMMA StoreTable ==
    ASSUME NEW t, NEW s \in Fd, NEW h \in HandleType, NEW u, TableOK(t), t.handles[s] = NoHandle,
           h.node # Null, TableShape(u), u.length = t.length + 1, u.handles \in [Fd -> HandleType],
           \A i \in Fd : u.handles[i] = IF i = s THEN h ELSE t.handles[i]
    PROVE  TableOK(u) /\ Follows(t, u) /\ u.handles[s] = h
<1>1. h # NoHandle
  BY NoHandleType
<1>2. Busy(u) = Busy(t) \cup {s} /\ s \notin Busy(t)
  BY <1>1 DEF Busy
<1>3. Cardinality(Busy(u)) = Cardinality(Busy(t)) + 1
  BY ZenonT(60), <1>2, BusyFinite, FS_AddElement
<1>4. TableOK(u)
  BY <1>3 DEF TableOK
<1>5. Follows(t, u)
  BY DEF Follows
<1> QED BY <1>4, <1>5

LEMMA ClearTable ==
    ASSUME NEW t, NEW s \in Fd, NEW u, TableOK(t), t.handles[s] # NoHandle, u = process_close_fd(t, s)
    PROVE  TableOK(u) /\ Follows(t, u)
<1>0. u = [t EXCEPT !.length = @ - 1, !.handles[s] = NoHandle]
  BY DEF process_close_fd
<1> HIDE DEF NoHandle
<1>1. /\ u.length = t.length - 1 /\ u.handles = [t.handles EXCEPT ![s] = NoHandle]
      /\ TableShape(u)
  BY <1>0 DEF TableOK, TableShape
<1>2. \A i \in Fd : u.handles[i] = IF i = s THEN NoHandle ELSE t.handles[i]
  BY <1>1 DEF TableOK
<1>3. u.handles \in [Fd -> HandleType]
  BY <1>1, NoHandleType DEF TableOK
<1>5. Busy(u) = Busy(t) \ {s} /\ s \in Busy(t)
  BY <1>2 DEF Busy
<1>6. Cardinality(Busy(u)) = Cardinality(Busy(t)) - 1
  BY <1>5, BusyFinite, FS_RemoveElement
<1>7. TableOK(u)
  BY <1>1, <1>2, <1>3, <1>6 DEF TableOK
<1>8. Follows(t, u)
  BY <1>2, NoHandleType DEF Follows
<1> QED BY <1>7, <1>8

\* The offset of a handle changes.
LEMMA MoveTable ==
    ASSUME NEW t, NEW s \in Fd, NEW o \in Offset, TableOK(t), t.handles[s] # NoHandle
    PROVE  LET u == [t EXCEPT !.handles[s].offset = o] IN TableOK(u) /\ Follows(t, u)
<1> DEFINE u == [t EXCEPT !.handles[s].offset = o]
           g == t.handles[s]
           h == [g EXCEPT !.offset = o]
<1>1. u.length = t.length /\ u.handles = [t.handles EXCEPT ![s] = h] /\ TableShape(u)
  BY DEF TableOK, TableShape
<1> HIDE DEF u
<1>2. g \in HandleType /\ g.node # Null
  BY DEF TableOK
<1>3. h \in HandleType /\ h.node = g.node
  <2> HIDE DEF g
  <2> QED BY <1>2 DEF HandleType
<1> HIDE DEF h
<1>4. \A i \in Fd : u.handles[i] = IF i = s THEN h ELSE t.handles[i]
  BY <1>1 DEF TableOK
<1>5. u.handles \in [Fd -> HandleType]
  BY <1>1, <1>3 DEF TableOK
<1>6. h # NoHandle
  BY <1>2, <1>3, NoHandleType
<1>7. Busy(u) = Busy(t)
  BY <1>4, <1>6 DEF Busy
<1>8. TableOK(u)
  BY <1>1, <1>2, <1>3, <1>4, <1>5, <1>7 DEF TableOK
<1>9. Follows(t, u)
  BY <1>3, <1>4 DEF Follows
<1> QED BY <1>8, <1>9 DEF u

\* The search for a free slot succeeds: the counter is below the capacity.
LEMMA FreeSlotFacts ==
    ASSUME NEW t, TableOK(t), t.length < Capacity
    PROVE  FreeSlot(t) \in Fd /\ t.handles[FreeSlot(t)] = NoHandle
<1> HIDE DEF NoHandle
<1> DEFINE free == {i \in Fd : t.handles[i] = NoHandle}
<1>1. Busy(t) # Fd
  <2> SUFFICES ASSUME Busy(t) = Fd PROVE FALSE
    OBVIOUS
  <2> QED BY FdFinite DEF TableOK
<1>2. free # {} /\ free \subseteq Nat
  <2>1. Fd \subseteq Nat
    BY FdFinite DEF Fd
  <2> QED BY <1>1, <2>1 DEF Busy
<1>3. FreeSlot(t) = Min(free)
  BY <1>2 DEF FreeSlot
<1>4. Min(free) \in free
  <2> HIDE DEF free
  <2> QED BY <1>2, LeastNat
<1> QED BY <1>3, <1>4

LEMMA OpenTable ==
    ASSUME NEW t, NEW n \in Node, NEW mode \in SUBSET Flag, NEW u, TableOK(t),
           u = process_open_fd(t, n, mode)
    PROVE  /\ TableOK(u) /\ Follows(t, u)
           /\ t.length < Capacity => /\ FreeSlot(t) \in Fd
                                     /\ u.handles[FreeSlot(t)] = Handle(n, mode)
                                     /\ t.handles[FreeSlot(t)] = NoHandle
<1>0. t.length \in 0..Capacity
  BY BusyFinite DEF TableOK
<1>1. CASE t.length >= Capacity
  <2>1. u = t
    BY <1>1 DEF process_open_fd
  <2>2. Follows(t, t)
    BY DEF Follows
  <2> QED BY <1>0, <1>1, <2>1, <2>2, FdFinite
<1>2. CASE ~(t.length >= Capacity)
  <2> DEFINE s == FreeSlot(t)
             h == Handle(n, mode)
  <2>1. t.length < Capacity
    BY <1>0, <1>2, FdFinite
  <2>2. s \in Fd /\ t.handles[s] = NoHandle
    BY <2>1, FreeSlotFacts
  <2>3. u = [t EXCEPT !.length = @ + 1, !.handles[s] = h]
    BY <1>2 DEF process_open_fd
  <2>4. h \in HandleType /\ h.node = n /\ n # Null
    <3>1. 0 \in Offset
      BY FilesAssumption DEF Offset
    <3>2. n # Null
      BY DEF Node, Null
    <3> QED BY <3>1, <3>2 DEF Handle, HandleType
  <2> HIDE DEF s, h
  <2>5. h.node # Null
    BY <2>4
  <2>6. u.length = t.length + 1 /\ u.handles = [t.handles EXCEPT ![s] = h] /\ TableShape(u)
    BY <2>3 DEF TableOK, TableShape
  <2>7. /\ u.handles \in [Fd -> HandleType]
        /\ \A i \in Fd : u.handles[i] = IF i = s THEN h ELSE t.handles[i]
    BY <2>2, <2>4, <2>6 DEF TableOK
  <2>8. TableOK(u) /\ Follows(t, u) /\ u.handles[s] = h
    BY <2>2, <2>4, <2>5, <2>6, <2>7, StoreTable
  <2> QED BY <2>2, <2>8 DEF s, h
<1> QED BY <1>1, <1>2

-----------------------------------------------------------------------------
\* The steps of a call.

Sound(f) == Valid(f) /\ Good(f) /\ f.next \in 1..MaxNode + 1

Tables(T) == T = [q \in Proc |-> T[q]] /\ \A q \in Proc : TableOK(T[q])

\* Only the table of p changes, or every table is emptied.
TablesStep(p, old, new) ==
    /\ Tables(new)
    /\ \A q \in Proc : Follows(old[q], new[q])
    /\ \A q \in Proc \ {p} : new[q] \in {old[q], EmptyTable}

\* What a call of p does to the file system and to the tables.
Served(p) == Sound(fs') /\ TablesStep(p, fdt, fdt')

LEMMA FollowsSelf == \A t : Follows(t, t)
BY DEF Follows

LEMMA OneTable ==
    ASSUME NEW T, NEW p \in Proc, NEW u, Tables(T), TableOK(u), Follows(T[p], u)
    PROVE  TablesStep(p, T, [T EXCEPT ![p] = u])
<1> DEFINE N == [T EXCEPT ![p] = u]
<1>1. N = [q \in Proc |-> IF q = p THEN u ELSE T[q]]
  BY DEF Tables
<1> HIDE DEF N
<1>2. \A q \in Proc : N[q] = IF q = p THEN u ELSE T[q]
  BY <1>1
<1>3. N = [q \in Proc |-> N[q]]
  BY <1>1
<1>4. Tables(N)
  BY <1>2, <1>3 DEF Tables
<1>5. \A q \in Proc : Follows(T[q], N[q])
  BY <1>2, FollowsSelf
<1> QED BY <1>2, <1>4, <1>5 DEF TablesStep, N

LEMMA SameTables ==
    ASSUME NEW p, Tables(fdt) PROVE TablesStep(p, fdt, fdt)
BY FollowsSelf DEF TablesStep

LEMMA NoTables ==
    ASSUME NEW p PROVE TablesStep(p, fdt, [q \in Proc |-> EmptyTable])
<1> DEFINE N == [q \in Proc |-> EmptyTable]
<1>1. N = [q \in Proc |-> N[q]] /\ \A q \in Proc : N[q] = EmptyTable
  OBVIOUS
<1> HIDE DEF N
<1>2. Tables(N)
  BY <1>1, EmptyTableOK DEF Tables
<1>3. \A q \in Proc : Follows(fdt[q], N[q])
  BY <1>1, EmptyTableOK
<1> QED BY <1>1, <1>2, <1>3 DEF TablesStep, N

LEMMA LostSound == Sound(Lost)
<1> DEFINE f == vfs_install(<<>>)
           no == FALSE
           g == [f EXCEPT !.ok = no]
<1>1. <<>> \in Seq(Header)
  BY EmptySeq
<1>2. Valid(f) /\ f.ok = TRUE /\ f.next = 2 /\ Good(f)
  BY <1>1, InstallFacts
<1>3. Lost = g
  BY DEF Lost
<1>4. no \in BOOLEAN /\ (no => f.ok)
  OBVIOUS
<1> HIDE DEF no, f
<1>5. /\ Valid(g) /\ Later(f, g) /\ g.ok = no
      /\ g.node = f.node /\ g.kids = f.kids /\ g.up = f.up
      /\ g.root = f.root /\ g.next = f.next
  BY <1>2, <1>4, SameKeeps
<1>6. g.archive = f.archive
  BY <1>2 DEF Valid, Shape
<1> HIDE DEF g
<1>7. Good(g)
  BY <1>2, <1>5, <1>6 DEF Good, Typed, Rising, Doubly, Unique
<1>8. g.next \in 1..MaxNode + 1
  BY <1>2, <1>5, TreeAssumption
<1> QED BY <1>3, <1>5, <1>7, <1>8 DEF Sound

LEMMA UndefinedKeeps ==
    ASSUME NEW p, Undefined PROVE Served(p)
BY LostSound, NoTables DEF Undefined, Served

LEMMA UnchangedKeeps ==
    ASSUME NEW p, Sound(fs), Tables(fdt), Unchanged PROVE Served(p)
<1>1. fs' = fs /\ fdt' = fdt
  BY DEF Unchanged
<1>2. Sound(fs')
  BY <1>1
<1>3. TablesStep(p, fdt, fdt')
  BY <1>1, SameTables
<1> QED BY <1>2, <1>3 DEF Served

LEMMA CommitKeeps ==
    ASSUME NEW p, NEW new, NEW tables, Valid(new), Commit(new, tables),
           Counts(new) => TablesStep(p, fdt, tables)
    PROVE  Served(p)
<1>1. CASE new.ok
  <2>1. new.next <= MaxNode - CallNodes /\ fs' = new /\ fdt' = tables
    BY <1>1 DEF Commit
  <2>2. MaxNode \in Nat /\ new.next \in Nat
    BY TreeAssumption DEF Valid
  <2>3. Counts(new)
    BY <1>1, <2>1, <2>2 DEF Counts, CallNodes
  <2>4. Good(new)
    BY <2>3 DEF Valid
  <2>5. new.next \in 1..MaxNode + 1
    <3>1. new.root \in Node /\ new.root < new.next
      BY <2>4 DEF Good, Typed, Rising
    <3> QED BY <2>1, <2>2, <3>1 DEF Node, CallNodes
  <2> QED BY <2>1, <2>3, <2>4, <2>5 DEF Served, Sound
<1>2. CASE ~new.ok
  BY <1>2, UndefinedKeeps DEF Commit
<1> QED BY <1>1, <1>2

-----------------------------------------------------------------------------
\* Calls with a descriptor.

LEMMA HandleFacts ==
    ASSUME Tables(fdt), NEW p \in Proc, NEW fd \in Fd, NEW h, h = fdt[p].handles[fd], h # NoHandle
    PROVE  /\ TableOK(fdt[p]) /\ h \in HandleType /\ h.node \in Node
           /\ h.offset \in Offset /\ h.mode \in SUBSET Flag
<1>1. TableOK(fdt[p])
  BY DEF Tables
<1>2. h \in HandleType /\ h.node # Null
  BY <1>1 DEF TableOK
<1> QED BY <1>1, <1>2 DEF HandleType

LEMMA SeekKeeps ==
    ASSUME Tables(fdt), NEW p \in Proc, NEW fd \in Fd, fdt[p].handles[fd] # NoHandle,
           NEW offset, NEW new, Valid(new), Seek(p, fd, offset, new)
    PROVE  Served(p)
<1> DEFINE T == fdt
           t == fdt[p]
           h == t.handles[fd]
           o == IF fs.node[h.node].type = "VIRTUAL_DEVICE" THEN h.offset ELSE offset
           u == [t EXCEPT !.handles[fd].offset = o]
           tables == Moved(p, fd, offset)
<1>1. offset \in Offset /\ Commit(new, tables)
  BY DEF Seek
<1>2. TableOK(t) /\ h.offset \in Offset
  BY HandleFacts
<1>3. o \in Offset
  BY <1>1, <1>2
<1>4. tables = [fdt EXCEPT ![p] = u]
  BY DEF Moved
<1> HIDE DEF o, tables
<1>5. TableOK(u) /\ Follows(t, u)
  BY <1>2, <1>3, MoveTable
<1> HIDE DEF u, t
<1>6. TablesStep(p, fdt, tables)
  <2>1. TableOK(u) /\ Follows(fdt[p], u)
    BY <1>5 DEF t
  <2> QED BY <1>4, <2>1, OneTable
<1> QED BY <1>1, <1>6, CommitKeeps

LEMMA StartType ==
    ASSUME NEW f, NEW h, NEW offset, Typed(f), h.node \in Node, "O_APPEND" \in h.mode \/ offset \in Nat
    PROVE  Start(f, h, offset) \in Nat
<1>1. f.node[h.node] \in NodeType
  BY DEF Typed
<1>2. f.node[h.node].size \in Nat
  BY <1>1, FieldTypes
<1> QED BY <1>2 DEF Start

LEMMA WriteOpKeeps ==
    ASSUME NEW f, NEW h, NEW offset, NEW n \in Nat, NEW byte \in Byte, Valid(f), h.node \in Node,
           \/ f.node[h.node].driver = "console" \/ "O_APPEND" \in h.mode \/ offset \in Nat
    PROVE  Valid(WriteOp(f, h, offset, n, byte))
<1> DEFINE at == Start(f, h, offset)
           g == ramfs_write(f, h.node, at, n, byte)
<1>1. CASE f.node[h.node].driver = "console"
  BY <1>1 DEF WriteOp
<1>2. CASE f.node[h.node].driver # "console"
  <2>1. WriteOp(f, h, offset, n, byte) = g
    BY <1>2 DEF WriteOp
  <2>2. Counts(f) => at \in Nat
    BY <1>2, StartType DEF Valid, Good
  <2> HIDE DEF at
  <2>3. Valid(g)
    BY <2>2, WriteKeeps
  <2> QED BY <2>1, <2>3
<1> QED BY <1>1, <1>2

\* Where a write of one byte sequence may start.
LEMMA WritableFacts ==
    ASSUME NEW h, NEW offset \in Offset, Writable(h, offset)
    PROVE  fs.node[h.node].driver = "console" \/ "O_APPEND" \in h.mode \/ offset \in Nat
BY FilesAssumption DEF Writable, Offset

LEMMA readKeeps ==
    ASSUME Sound(fs), Tables(fdt), NEW p \in Proc, NEW fd, NEW n,
           sys_read(p, fd, n) \/ sys_readv(p, fd, n, n) \/ sys_pread64(p, fd)
    PROVE  Served(p)
<1>1. \/ Unchanged \/ Undefined
      \/ /\ fd \in Fd /\ fdt[p].handles[fd] # NoHandle
         /\ \E o : Seek(p, fd, o, fs)
  BY DEF sys_read, sys_readv, sys_pread64, WithHandle
<1>2. Valid(fs)
  BY DEF Sound
<1> QED BY <1>1, <1>2, UnchangedKeeps, UndefinedKeeps, SeekKeeps

LEMMA writeKeeps ==
    ASSUME Sound(fs), Tables(fdt), NEW p \in Proc, NEW fd, NEW n \in Nat, NEW byte \in Byte,
           sys_write(p, fd, n, byte) \/ sys_writev(p, fd, n, n, byte)
    PROVE  Served(p)
<1> DEFINE h == fdt[p].handles[fd]
           one == WriteOp(fs, h, h.offset, n, byte)
           mid == Start(fs, h, h.offset) + n
           two == WriteOp(one, h, mid, n, byte)
<1>1. \/ Unchanged \/ Undefined
      \/ /\ fd \in Fd /\ h # NoHandle /\ Writable(h, h.offset)
         /\ (\E o : Seek(p, fd, o, one)) \/ (\E o : Seek(p, fd, o, two))
  BY DEF sys_write, sys_writev, WithHandle
<1>2. Valid(fs) /\ Typed(fs)
  BY DEF Sound, Good
<1>3. ASSUME fd \in Fd, h # NoHandle, Writable(h, h.offset) PROVE Valid(one) /\ Valid(two)
  <2>1. h.node \in Node /\ h.offset \in Offset
    BY <1>3, HandleFacts
  <2> HIDE DEF h
  <2>2. fs.node[h.node].driver = "console" \/ "O_APPEND" \in h.mode \/ h.offset \in Nat
    BY <1>3, <2>1, WritableFacts
  <2>3. Valid(one)
    BY <1>2, <2>1, <2>2, WriteOpKeeps
  <2>4. one.node[h.node].driver = "console" \/ "O_APPEND" \in h.mode \/ mid \in Nat
    <3>1. CASE fs.node[h.node].driver = "console"
      <4>1. one = fs
        BY <3>1 DEF WriteOp
      <4> HIDE DEF one
      <4> QED BY <3>1, <4>1
    <3>2. CASE "O_APPEND" \in h.mode \/ h.offset \in Nat
      <4>1. Start(fs, h, h.offset) \in Nat
        BY <1>2, <2>1, <3>2, StartType
      <4> QED BY <4>1
    <3> QED BY <2>2, <3>1, <3>2
  <2> HIDE DEF one, mid
  <2>5. Valid(two)
    BY <2>1, <2>3, <2>4, WriteOpKeeps
  <2> QED BY <2>3, <2>5
<1> HIDE DEF one, two
<1>4. CASE Unchanged BY <1>4, UnchangedKeeps
<1>5. CASE Undefined BY <1>5, UndefinedKeeps
<1>6. CASE /\ fd \in Fd /\ h # NoHandle /\ Writable(h, h.offset)
           /\ (\E o : Seek(p, fd, o, one)) \/ (\E o : Seek(p, fd, o, two))
  BY <1>3, <1>6, SeekKeeps
<1> QED BY <1>1, <1>4, <1>5, <1>6

LEMMA pwriteKeeps ==
    ASSUME Sound(fs), Tables(fdt), NEW p \in Proc, NEW fd, NEW n \in Nat, NEW o \in 0..MaxOffset,
           NEW byte \in Byte, sys_pwrite64(p, fd, n, o, byte)
    PROVE  Served(p)
<1> DEFINE h == fdt[p].handles[fd]
           one == WriteOp(fs, h, o, n, byte)
<1>1. \/ Unchanged \/ Undefined
      \/ fd \in Fd /\ h # NoHandle /\ Commit(one, fdt)
  BY DEF sys_pwrite64, WithHandle
<1>2. Valid(fs) /\ o \in Nat
  BY FilesAssumption DEF Sound
<1>3. ASSUME fd \in Fd, h # NoHandle PROVE Valid(one)
  <2>1. h.node \in Node
    BY <1>3, HandleFacts
  <2> HIDE DEF h
  <2> QED BY <1>2, <2>1, WriteOpKeeps
<1> HIDE DEF one
<1>4. TablesStep(p, fdt, fdt)
  BY SameTables
<1> QED BY <1>1, <1>3, <1>4, UnchangedKeeps, UndefinedKeeps, CommitKeeps

LEMMA lseekKeeps ==
    ASSUME Sound(fs), Tables(fdt), NEW p \in Proc, NEW fd, NEW o, NEW w, sys_lseek(p, fd, o, w)
    PROVE  Served(p)
<1>1. \/ Unchanged \/ Undefined
      \/ /\ fd \in Fd /\ fdt[p].handles[fd] # NoHandle
         /\ \E x : Seek(p, fd, x, fs)
  BY DEF sys_lseek, WithHandle
<1>2. Valid(fs)
  BY DEF Sound
<1> QED BY <1>1, <1>2, UnchangedKeeps, UndefinedKeeps, SeekKeeps

LEMMA lookKeeps ==
    ASSUME Sound(fs), Tables(fdt), NEW p \in Proc, NEW fd,
           sys_fstat(p, fd) \/ sys_ioctl(p, fd) \/ sys_poll(p, fd)
    PROVE  Served(p)
<1>1. Unchanged \/ Undefined
  BY DEF sys_fstat, sys_ioctl, sys_poll, WithHandle
<1> QED BY <1>1, UnchangedKeeps, UndefinedKeeps

LEMMA closeKeeps ==
    ASSUME Sound(fs), Tables(fdt), NEW p \in Proc, NEW fd, sys_close(p, fd)
    PROVE  Served(p)
<1> DEFINE t == fdt[p]
           u == process_close_fd(t, fd)
<1>1. \/ Undefined
      \/ /\ fd \in Fd /\ t.handles[fd] # NoHandle
         /\ fdt' = [fdt EXCEPT ![p] = u] /\ fs' = fs
  BY DEF sys_close
<1>2. ASSUME fd \in Fd, t.handles[fd] # NoHandle, fdt' = [fdt EXCEPT ![p] = u], fs' = fs
      PROVE  Served(p)
  <2>1. TableOK(t)
    BY DEF Tables
  <2> HIDE DEF t
  <2>2. TableOK(u) /\ Follows(t, u)
    BY <1>2, <2>1, ClearTable
  <2> HIDE DEF u
  <2>3. TableOK(u) /\ Follows(fdt[p], u)
    BY <2>2 DEF t
  <2>4. TablesStep(p, fdt, fdt')
    BY <1>2, <2>3, OneTable
  <2>5. Sound(fs')
    BY <1>2
  <2> QED BY <2>4, <2>5 DEF Served
<1> QED BY <1>1, <1>2, UndefinedKeeps

LEMMA dupKeeps ==
    ASSUME Sound(fs), Tables(fdt), NEW p \in Proc, NEW fd, sys_dup(p, fd)
    PROVE  Served(p)
<1> DEFINE t == fdt[p]
           h == t.handles[fd]
           s == FreeSlot(t)
           mode == {}
           u == process_open_fd(t, h.node, mode)
           v == [u EXCEPT !.handles[s].offset = h.offset]
           tables == [fdt EXCEPT ![p] = v]
<1>1. \/ Unchanged \/ Undefined
      \/ /\ fd \in Fd /\ h # NoHandle /\ ~(t.length >= Capacity) /\ Commit(fs, tables)
  BY DEF sys_dup, WithHandle
<1>2. ASSUME fd \in Fd, h # NoHandle, ~(t.length >= Capacity), Commit(fs, tables)
      PROVE  Served(p)
  <2>1. TableOK(t) /\ h.node \in Node /\ h.offset \in Offset
    <3>1. h = fdt[p].handles[fd] /\ h # NoHandle /\ fd \in Fd
      BY <1>2
    <3> HIDE DEF h
    <3>2. /\ TableOK(fdt[p]) /\ h \in HandleType /\ h.node \in Node
          /\ h.offset \in Offset /\ h.mode \in SUBSET Flag
      BY <3>1, HandleFacts
    <3> QED BY <3>2
  <2>2. t.length < Capacity
    <3>1. t.length \in 0..Capacity
      BY <2>1, BusyFinite DEF TableOK
    <3> HIDE DEF t
    <3> QED BY <1>2, <3>1, FdFinite
  <2>3. mode \in SUBSET Flag
    OBVIOUS
  <2> DEFINE n == h.node
             o == h.offset
  <2> HIDE DEF t, mode, n, o
  <2>4. /\ TableOK(u) /\ Follows(t, u)
        /\ t.length < Capacity => /\ FreeSlot(t) \in Fd
                                  /\ u.handles[FreeSlot(t)] = Handle(n, mode)
                                  /\ t.handles[FreeSlot(t)] = NoHandle
    BY <2>1, <2>3, OpenTable DEF n
  <2>5. s \in Fd /\ u.handles[s] # NoHandle /\ t.handles[s] = NoHandle
    <3>1. n \in Node
      BY <2>1 DEF n
    <3>2. Handle(n, mode).node = n /\ n # Null
      BY <3>1 DEF Handle, Node, Null
    <3> QED BY <2>2, <2>4, <3>2, NoHandleType
  <2> HIDE DEF u, s
  <2>6. o \in Offset
    BY <2>1 DEF o
  <2>7. v = [u EXCEPT !.handles[s].offset = o]
    BY DEF o
  <2> HIDE DEF v
  <2>8. TableOK(v) /\ Follows(u, v)
    BY <2>4, <2>5, <2>6, <2>7, MoveTable
  <2>9. Follows(t, v)
    <3>1. ASSUME NEW i \in Fd, t.handles[i] # NoHandle
          PROVE  v.handles[i].node \in {t.handles[i].node, Null}
      <4>1. u.handles[i].node \in {t.handles[i].node, Null}
        BY <2>4, <3>1 DEF Follows
      <4>2. i # s
        BY <2>5, <3>1
      <4>3. v.handles = [u.handles EXCEPT ![s].offset = o]
        BY <2>4, <2>7 DEF TableOK, TableShape
      <4>4. v.handles[i] = u.handles[i]
        BY <2>4, <4>2, <4>3 DEF TableOK
      <4> QED BY <4>1, <4>4
    <3> QED BY <3>1 DEF Follows
  <2>10. TableOK(v) /\ Follows(fdt[p], v)
    BY <2>8, <2>9 DEF t
  <2> HIDE DEF v
  <2>11. TablesStep(p, fdt, tables)
    BY <2>10, OneTable
  <2> QED BY <1>2, <2>11, CommitKeeps DEF Sound
<1> QED BY <1>1, <1>2, UnchangedKeeps, UndefinedKeeps

-----------------------------------------------------------------------------
\* Calls with a path.

LEMMA PathType == ASSUME NEW path \in Path \cup Dir PROVE path \in Seq(PathName)
BY FilesAssumption DEF PathName

\* The file system that a look-up leaves, and the node it finds.
LEMMA LookFacts ==
    ASSUME NEW path \in Seq(PathName), NEW mode, NEW o, o = open(fs, path, mode), Sound(fs)
    PROVE  /\ Valid(o.fs)
           /\ Counts(o.fs) => o.node \in Node \cup {Null}
           /\ Valid(Touch(o.fs, o.node))
<1>1. Valid(fs)
  BY DEF Sound
<1>2. Opened(fs, o)
  BY <1>1, OpenKeeps
<1>3. Valid(o.fs) /\ (Counts(o.fs) => o.node \in Node \cup {Null})
  BY <1>2 DEF Opened
<1> QED BY <1>3, TouchFacts

LEMMA openKeeps ==
    ASSUME Sound(fs), Tables(fdt), NEW p \in Proc, NEW path \in Path \cup Dir, NEW mode \in SUBSET Flag,
           sys_open(p, path, mode)
    PROVE  Served(p)
<1> DEFINE o == open(fs, path, mode)
           t == fdt[p]
           u == process_open_fd(t, o.node, mode)
           tables == IF o.node = Null THEN fdt ELSE [fdt EXCEPT ![p] = u]
<1>1. Commit(o.fs, tables)
  BY DEF sys_open
<1>2. Valid(o.fs) /\ (Counts(o.fs) => o.node \in Node \cup {Null})
  BY LookFacts, PathType
<1> HIDE DEF o
<1>3. ASSUME Counts(o.fs) PROVE TablesStep(p, fdt, tables)
  <2>1. CASE o.node = Null
    <3>1. tables = fdt
      BY <2>1
    <3> HIDE DEF tables
    <3> QED BY <3>1, SameTables
  <2>2. CASE o.node # Null
    <3>1. o.node \in Node /\ TableOK(t)
      BY <1>2, <1>3, <2>2 DEF Tables
    <3>2. tables = [fdt EXCEPT ![p] = u]
      BY <2>2
    <3> HIDE DEF t, tables
    <3>3. TableOK(u) /\ Follows(t, u)
      BY <3>1, OpenTable
    <3> HIDE DEF u
    <3>4. TableOK(u) /\ Follows(fdt[p], u)
      BY <3>3 DEF t
    <3> QED BY <3>2, <3>4, OneTable
  <2> QED BY <2>1, <2>2
<1> HIDE DEF tables
<1> QED BY <1>1, <1>2, <1>3, CommitKeeps

LEMMA statKeeps ==
    ASSUME Sound(fs), Tables(fdt), NEW p \in Proc, NEW path \in Path \cup Dir,
           sys_stat(path) \/ sys_lstat(path) \/ sys_access(path)
    PROVE  Served(p)
<1> DEFINE o == open(fs, path, {})
           new == IF o.node = Null THEN o.fs ELSE Touch(o.fs, o.node)
<1>1. Commit(new, fdt)
  BY DEF sys_stat, sys_lstat, sys_access, Look
<1>2. Valid(o.fs) /\ Valid(Touch(o.fs, o.node))
  BY LookFacts, PathType
<1> HIDE DEF o
<1>3. Valid(new)
  BY <1>2
<1> HIDE DEF new
<1> QED BY <1>1, <1>3, SameTables, CommitKeeps

LEMMA linkKeeps ==
    ASSUME Sound(fs), Tables(fdt), NEW p \in Proc, NEW fd, NEW path \in Path \cup Dir,
           sys_link(p, fd, path)
    PROVE  Served(p)
<1> DEFINE o == open(fs, path, {})
<1>1. Undefined \/ Commit(o.fs, fdt)
  BY DEF sys_link
<1>2. Valid(o.fs)
  BY LookFacts, PathType
<1> HIDE DEF o
<1> QED BY <1>1, <1>2, SameTables, CommitKeeps, UndefinedKeeps

LEMMA mkdirKeeps ==
    ASSUME Sound(fs), Tables(fdt), NEW p \in Proc, NEW path \in Path \cup Dir, sys_mkdir(path)
    PROVE  Served(p)
<1> DEFINE o == open(fs, path, {})
           made == mkdir(o.fs, path).fs
           new == IF ~o.fs.ok \/ o.node # Null THEN o.fs ELSE made
<1>1. Commit(new, fdt)
  BY DEF sys_mkdir
<1>2. Valid(o.fs) /\ path \in Seq(PathName)
  BY LookFacts, PathType
<1> HIDE DEF o
<1>3. Valid(made)
  BY <1>2, MkdirKeeps
<1> HIDE DEF made
<1>4. Valid(new)
  BY <1>2, <1>3
<1> HIDE DEF new
<1> QED BY <1>1, <1>4, SameTables, CommitKeeps

LEMMA rmdirKeeps ==
    ASSUME Sound(fs), Tables(fdt), NEW p \in Proc, NEW path \in Path \cup Dir, sys_rmdir(path)
    PROVE  Served(p)
<1> DEFINE o == open(fs, path, {})
           seen == IF o.node = Null THEN o.fs ELSE Touch(o.fs, o.node)
           cut == delete(seen, path)
           new == IF ~seen.ok \/ o.node = Null \/ seen.node[o.node].type # "DIR" THEN seen ELSE cut
<1>1. Commit(new, fdt)
  BY DEF sys_rmdir
<1>2. Valid(o.fs) /\ Valid(Touch(o.fs, o.node)) /\ path \in Seq(PathName)
  BY LookFacts, PathType
<1> HIDE DEF o
<1>3. Valid(seen)
  BY <1>2
<1> HIDE DEF seen
<1>4. Valid(cut)
  BY <1>2, <1>3, DeleteKeeps
<1> HIDE DEF cut
<1>5. Valid(new)
  BY <1>3, <1>4
<1> HIDE DEF new
<1> QED BY <1>1, <1>5, SameTables, CommitKeeps

LEMMA unlinkKeeps ==
    ASSUME Sound(fs), Tables(fdt), NEW p \in Proc, NEW path \in Path \cup Dir, sys_unlink(path)
    PROVE  Served(p)
<1> DEFINE o == open(fs, path, {})
           cut == delete(o.fs, path)
           new == IF ~o.fs.ok \/ o.node = Null THEN o.fs ELSE cut
<1>1. Commit(new, fdt)
  BY DEF sys_unlink
<1>2. Valid(o.fs) /\ path \in Seq(PathName)
  BY LookFacts, PathType
<1> HIDE DEF o
<1>3. Valid(cut)
  BY <1>2, DeleteKeeps
<1> HIDE DEF cut
<1>4. Valid(new)
  BY <1>2, <1>3
<1> HIDE DEF new
<1> QED BY <1>1, <1>4, SameTables, CommitKeeps

LEMMA renameKeeps ==
    ASSUME Sound(fs), Tables(fdt), NEW p \in Proc, NEW old \in Path \cup Dir, NEW path \in Path \cup Dir,
           sys_rename(old, path)
    PROVE  Served(p)
<1> DEFINE o == open(fs, old, {})
           moved == move_file(o.fs, o.node, path)
           new == IF ~o.fs.ok \/ o.node = Null THEN o.fs ELSE moved
<1>1. Commit(new, fdt)
  BY DEF sys_rename
<1>2. Valid(o.fs) /\ (Counts(o.fs) => o.node \in Node \cup {Null}) /\ path \in Seq(PathName)
  BY LookFacts, PathType
<1> HIDE DEF o
<1>3. Valid(new)
  <2>1. CASE o.node = Null
    BY <1>2, <2>1
  <2>2. CASE o.node # Null
    <3>1. Counts(o.fs) => o.node \in Node
      BY <1>2, <2>2
    <3>2. Valid(moved)
      BY <1>2, <3>1, MoveKeeps
    <3> HIDE DEF moved
    <3> QED BY <1>2, <3>2
  <2> QED BY <2>1, <2>2
<1> HIDE DEF new
<1> QED BY <1>1, <1>3, SameTables, CommitKeeps

-----------------------------------------------------------------------------
\* The inductive invariant.  A process that does not exist has no open handle, so the
\* table a child gets replaces an empty one.
FilesInv ==
    /\ Sound(fs) /\ Tables(fdt) /\ image \in Image /\ alive \subseteq Proc
    /\ \A p \in Proc \ alive : fdt[p] = EmptyTable

LEMMA CreateTable ==
    ASSUME NEW f, open(f, <<"dev", "tty">>, {}).node \in Node
    PROVE  TableOK(process_create(f))
<1> DEFINE tty == open(f, <<"dev", "tty">>, {}).node
           mode == {}
           a == process_open_fd(EmptyTable, tty, mode)
           b == process_open_fd(a, tty, mode)
           c == process_open_fd(b, tty, mode)
<1>1. process_create(f) = c
  BY DEF process_create
<1>2. mode \in SUBSET Flag /\ tty \in Node
  OBVIOUS
<1> HIDE DEF mode, tty
<1>3. TableOK(a)
  BY <1>2, EmptyTableOK, OpenTable
<1> HIDE DEF a
<1>4. TableOK(b)
  BY <1>2, <1>3, OpenTable
<1> HIDE DEF b
<1>5. TableOK(c)
  BY <1>2, <1>4, OpenTable
<1> QED BY <1>1, <1>5

LEMMA FilesInit == Init => FilesInv
<1> SUFFICES ASSUME Init PROVE FilesInv
  OBVIOUS
<1> DEFINE t == process_create(fs)
<1>1. image \in Image /\ fs = Boot(image) /\ alive = {InitProc}
      /\ fdt = [p \in Proc |-> IF p \in alive THEN t ELSE EmptyTable]
  BY DEF Init
<1>2. image \in Seq(Header)
  BY <1>1, FilesAssumption
<1>3. Valid(fs) /\ fs.ok /\ fs.next = 6 /\ open(fs, <<"dev", "tty">>, {}).node = 4
  BY <1>1, <1>2, BootFacts
<1>4. Sound(fs)
  <2>1. fs.next \in 1..MaxNode + 1 /\ Counts(fs)
    BY <1>3, TreeAssumption DEF Counts
  <2> QED BY <1>3, <2>1 DEF Valid, Sound
<1>5. TableOK(t)
  <2>1. 4 \in Node
    BY TreeAssumption DEF Node
  <2>2. open(fs, <<"dev", "tty">>, {}).node \in Node
    BY <1>3, <2>1
  <2> QED BY <2>2, CreateTable
<1> HIDE DEF t
<1>6. \A p \in Proc : fdt[p] = IF p \in alive THEN t ELSE EmptyTable
  BY <1>1
<1>7. fdt = [p \in Proc |-> fdt[p]]
  BY <1>1
<1>8. Tables(fdt)
  BY <1>5, <1>6, <1>7, EmptyTableOK DEF Tables
<1>9. alive \subseteq Proc
  BY <1>1, FilesAssumption
<1> QED BY <1>1, <1>4, <1>6, <1>8, <1>9 DEF FilesInv

LEMMA HandleCallKeeps ==
    ASSUME FilesInv, NEW p \in alive, NEW fd, HandleCall(p, fd)
    PROVE  Served(p)
<1>1. Sound(fs) /\ Tables(fdt) /\ p \in Proc
  BY DEF FilesInv
<1>2. Size \subseteq Nat
  BY FilesAssumption
<1>3. ASSUME NEW n \in Size, NEW byte \in Byte,
             sys_read(p, fd, n) \/ sys_readv(p, fd, n, n)
      PROVE  Served(p)
  BY <1>1, <1>3, readKeeps
<1>4. ASSUME NEW n \in Size, NEW byte \in Byte,
             sys_write(p, fd, n, byte) \/ sys_writev(p, fd, n, n, byte)
      PROVE  Served(p)
  BY <1>1, <1>2, <1>4, writeKeeps
<1>5. ASSUME NEW n \in Size, NEW byte \in Byte, NEW o \in 0..MaxOffset, sys_pwrite64(p, fd, n, o, byte)
      PROVE  Served(p)
  BY <1>1, <1>2, <1>5, pwriteKeeps
<1>6. ASSUME NEW o, NEW w, sys_lseek(p, fd, o, w) PROVE Served(p)
  BY <1>1, <1>6, lseekKeeps
<1>7. ASSUME sys_pread64(p, fd) PROVE Served(p)
  BY <1>1, <1>7, readKeeps
<1>8. ASSUME sys_close(p, fd) PROVE Served(p)
  BY <1>1, <1>8, closeKeeps
<1>9. ASSUME sys_dup(p, fd) PROVE Served(p)
  BY <1>1, <1>9, dupKeeps
<1>10. ASSUME sys_fstat(p, fd) \/ sys_ioctl(p, fd) \/ sys_poll(p, fd) PROVE Served(p)
  BY <1>1, <1>10, lookKeeps
<1>11. ASSUME NEW path \in Path, sys_link(p, fd, path) PROVE Served(p)
  BY <1>1, <1>11, linkKeeps
<1> QED BY <1>3, <1>4, <1>5, <1>6, <1>7, <1>8, <1>9, <1>10, <1>11 DEF HandleCall

LEMMA PathCallKeeps ==
    ASSUME FilesInv, NEW p \in alive, PathCall(p)
    PROVE  Served(p)
<1>1. Sound(fs) /\ Tables(fdt) /\ p \in Proc
  BY DEF FilesInv
<1>2. ASSUME NEW path \in Path, NEW mode \in Mode, sys_open(p, path, mode) PROVE Served(p)
  <2>1. mode \in SUBSET Flag
    BY FilesAssumption
  <2> QED BY <1>1, <1>2, <2>1, openKeeps
<1>3. ASSUME NEW path \in Path, sys_create(p, path) PROVE Served(p)
  <2> DEFINE mode == {"O_CREAT", "O_WRONLY", "O_TRUNC"}
  <2>1. mode \in SUBSET Flag
    BY DEF Flag
  <2>2. sys_open(p, path, mode)
    BY <1>3 DEF sys_create
  <2> HIDE DEF mode
  <2> QED BY <1>1, <2>1, <2>2, openKeeps
<1>4. ASSUME NEW path \in Path, sys_unlink(path) PROVE Served(p)
  BY <1>1, <1>4, unlinkKeeps
<1>5. ASSUME NEW path \in Path, NEW new \in Path \cup Dir, sys_rename(path, new) PROVE Served(p)
  BY <1>1, <1>5, renameKeeps
<1>6. ASSUME NEW path \in Dir, sys_mkdir(path) PROVE Served(p)
  BY <1>1, <1>6, mkdirKeeps
<1>7. ASSUME NEW path \in Dir, sys_rmdir(path) PROVE Served(p)
  BY <1>1, <1>7, rmdirKeeps
<1>8. ASSUME NEW path \in Path \cup Dir, sys_stat(path) \/ sys_lstat(path) \/ sys_access(path)
      PROVE  Served(p)
  BY <1>1, <1>8, statKeeps
<1> QED BY <1>2, <1>3, <1>4, <1>5, <1>6, <1>7, <1>8 DEF PathCall

\* What a step does to the tables: open descriptors keep their node or are closed.
AllFollow == \A q \in Proc : Follows(fdt[q], fdt'[q])

LEMMA FilesNext ==
    ASSUME FilesInv, [Next]_vars
    PROVE  FilesInv' /\ AllFollow
<1>1. Sound(fs) /\ Tables(fdt) /\ image \in Image /\ alive \subseteq Proc
      /\ \A p \in Proc \ alive : fdt[p] = EmptyTable
  BY DEF FilesInv
<1>2. ASSUME NEW p \in alive, Served(p), alive' = alive, image' = image
      PROVE  FilesInv' /\ AllFollow
  <2>1. Sound(fs') /\ TablesStep(p, fdt, fdt')
    BY <1>2 DEF Served
  <2>2. Tables(fdt') /\ AllFollow
    BY <2>1 DEF TablesStep, AllFollow
  <2>3. \A q \in Proc \ alive' : fdt'[q] = EmptyTable
    BY <1>1, <1>2, <2>1 DEF TablesStep
  <2> QED BY <1>1, <1>2, <2>1, <2>2, <2>3 DEF FilesInv, Sound, Tables
<1>3. ASSUME NEW p \in alive, NEW c \in Proc, process_fork(p, c), image' = image
      PROVE  FilesInv' /\ AllFollow
  <2>1. /\ c \notin alive /\ alive' = alive \cup {c} /\ fs' = fs
        /\ fdt' = [fdt EXCEPT ![c] = fdt[p]]
    BY <1>3 DEF process_fork
  <2> DEFINE u == fdt[p]
  <2>2. TableOK(u) /\ Follows(fdt[c], u)
    <3>1. TableOK(u) /\ fdt[c] = EmptyTable
      BY <1>1, <2>1 DEF Tables
    <3> HIDE DEF u
    <3>2. \A i \in Fd : EmptyTable.handles[i] = NoHandle
      BY DEF EmptyTable
    <3> QED BY <3>1, <3>2 DEF Follows
  <2> HIDE DEF u
  <2>3. TablesStep(c, fdt, fdt')
    BY <1>1, <2>1, <2>2, OneTable DEF u
  <2>4. Tables(fdt') /\ AllFollow
    BY <2>3 DEF TablesStep, AllFollow
  <2>5. \A q \in Proc \ alive' : fdt'[q] = EmptyTable
    BY <1>1, <2>1, <2>3 DEF TablesStep
  <2>6. Sound(fs') /\ alive' \subseteq Proc
    BY <1>1, <2>1
  <2> QED BY <1>1, <1>3, <2>4, <2>5, <2>6 DEF FilesInv, Sound, Tables
<1>4. ASSUME NEW p \in alive, process_terminate(p), image' = image
      PROVE  FilesInv' /\ AllFollow
  <2> DEFINE e == EmptyTable
  <2>1. /\ alive' = alive \ {p}
        /\ Undefined \/ (fdt' = [fdt EXCEPT ![p] = e] /\ fs' = fs)
    BY <1>4 DEF process_terminate
  <2>2. TableOK(e) /\ Follows(fdt[p], e)
    BY EmptyTableOK
  <2> HIDE DEF e
  <2>3. Sound(fs') /\ TablesStep(p, fdt, fdt') /\ fdt'[p] = e
    <3>1. CASE Undefined
      <4>1. Served(p)
        BY <3>1, UndefinedKeeps
      <4>2. fdt'[p] = e
        BY <1>1, <3>1 DEF Undefined, e
      <4> QED BY <4>1, <4>2 DEF Served
    <3>2. CASE fdt' = [fdt EXCEPT ![p] = e] /\ fs' = fs
      <4>1. TablesStep(p, fdt, fdt')
        BY <1>1, <2>2, <3>2, OneTable
      <4>2. fdt'[p] = e
        BY <1>1, <3>2 DEF Tables
      <4>3. Sound(fs')
        BY <1>1, <3>2
      <4> QED BY <4>1, <4>2, <4>3
    <3> QED BY <2>1, <3>1, <3>2
  <2>4. Tables(fdt') /\ AllFollow
    BY <2>3 DEF TablesStep, AllFollow
  <2>5. \A q \in Proc \ alive' : fdt'[q] = EmptyTable
    BY <1>1, <2>1, <2>3 DEF TablesStep, e
  <2>6. alive' \subseteq Proc
    BY <1>1, <2>1
  <2> QED BY <1>1, <1>4, <2>3, <2>4, <2>5, <2>6 DEF FilesInv, Sound, Tables
<1>5. CASE UNCHANGED vars
  <2>1. fs' = fs /\ fdt' = fdt /\ image' = image /\ alive' = alive
    BY <1>5 DEF vars
  <2>2. AllFollow
    BY <2>1, FollowsSelf DEF AllFollow
  <2> QED BY <1>1, <2>1, <2>2 DEF FilesInv, Sound, Tables
<1>6. CASE Next
  <2>1. \/ UNCHANGED vars
        \/ /\ image' = image
           /\ \E p \in alive :
                \/ (\E fd \in AnyFd : HandleCall(p, fd)) /\ alive' = alive
                \/ PathCall(p) /\ alive' = alive
                \/ \E c \in Proc : process_fork(p, c)
                \/ process_terminate(p)
    BY <1>6 DEF Next
  <2> QED BY <1>2, <1>3, <1>4, <1>5, <2>1, HandleCallKeeps, PathCallKeeps
<1> QED BY <1>5, <1>6

LEMMA FilesInvOK == FilesInv => FilesOK /\ BytesKept
<1> SUFFICES ASSUME FilesInv PROVE FilesOK /\ BytesKept
  OBVIOUS
<1>1. /\ Shape(fs) /\ fs.ok \in BOOLEAN /\ fs.next \in 1..MaxNode + 1
      /\ Typed(fs) /\ Rising(fs) /\ Doubly(fs) /\ Unique(fs)
      /\ \A n \in Node : Kept(fs.node[n])
  BY DEF FilesInv, Sound, Valid, Good
<1>2. \A p \in Proc : TableOK(fdt[p])
  BY DEF FilesInv, Tables
<1>3. TypeOK
  <2>1. ASSUME NEW p \in Proc PROVE fdt[p].length \in 0..Capacity
    BY <1>2, BusyFinite DEF TableOK
  <2>2. ASSUME NEW p \in Proc, NEW i \in Fd
        PROVE  fdt[p].handles[i] \in [node : Node \cup {Null}, offset : Offset, mode : SUBSET Flag]
    BY <1>2 DEF TableOK, HandleType
  <2>3. image \in Image /\ alive \subseteq Proc
    BY DEF FilesInv
  <2>4. /\ fs.node \in [Node -> NodeType]
        /\ fs.kids \in [Node -> Seq(Node)] /\ fs.up \in [Node -> Node \cup {Null}]
        /\ fs.root \in Node
    BY <1>1 DEF Typed
  <2> QED BY <1>1, <2>1, <2>2, <2>3, <2>4 DEF TypeOK
<1>4. FdAgree
  BY <1>2 DEF FdAgree, Used, Busy, TableOK
<1>5. TreeAgree
  <2>1. \A n \in Node : \E k \in Node : fs.up[k] = Null /\ InTree([fs EXCEPT !.root = k], n)
    BY <1>1, UpEnds
  <2> QED BY <1>1, <2>1 DEF Doubly, TreeAgree
<1>6. NamesUnique
  BY <1>1 DEF Unique, NamesUnique
<1>7. BytesKept
  <2>1. ASSUME NEW n \in Node, NEW i \in DOMAIN fs.node[n].written, fs.node[n].written[i] # None
        PROVE  fs.node[n].buf[i] = fs.node[n].written[i]
    <3> DEFINE r == fs.node[n]
    <3>1. r \in NodeType /\ Kept(r)
      BY <1>1 DEF Typed
    <3> HIDE DEF r
    <3>2. r.written \in Seq(Byte \cup {None})
      BY <3>1, FieldTypes
    <3>3. DOMAIN r.written = 1..r.bsize
      BY <3>1, <3>2 DEF Kept
    <3> QED BY <2>1, <3>1, <3>3 DEF Kept, r
  <2> QED BY <2>1 DEF BytesKept
<1> QED BY <1>3, <1>4, <1>5, <1>6, <1>7 DEF FilesOK

-----------------------------------------------------------------------------
\* The calls on files keep the counters of the descriptor tables equal to the number of
\* open handles, and the file tree a tree with unambiguous names: for every archive, set
\* of paths, number of processes, capacity and bound on nodes.
THEOREM FilesHold == Spec => []FilesOK
<1>1. FilesInv /\ [Next]_vars => FilesInv'
  BY FilesNext
<1> QED BY FilesInit, FilesInvOK, <1>1, PTL DEF Spec

\* The buffer of a file of the RAM file system holds what was last written to each of
\* its first BufferSize offsets: for every sequence of writes, by any handles, that
\* makes ramfs_write replace the buffer.
THEOREM BytesHold == Spec => []BytesKept
<1>1. FilesInv /\ [Next]_vars => FilesInv'
  BY FilesNext
<1> QED BY FilesInit, FilesInvOK, <1>1, PTL DEF Spec

\* A descriptor names one node from open to close, whatever all processes do: no call
\* takes a slot that is in use, and fork gives the child a table of its own.
THEOREM DescriptorsStable == Spec => DescriptorStable
<1> DEFINE Stable == \A p \in Proc, i \in Fd :
                        LET h == fdt[p].handles[i]
                        IN h # NoHandle => fdt'[p].handles[i].node \in {h.node, Null}
<1>1. FilesInv /\ [Next]_vars => FilesInv'
  BY FilesNext
<1>2. FilesInv /\ [Next]_vars => [Stable]_vars
  <2>1. FilesInv /\ [Next]_vars => AllFollow
    BY FilesNext
  <2>2. AllFollow => Stable
    BY DEF AllFollow, Follows
  <2> QED BY <2>1, <2>2
<1>3. DescriptorStable <=> [][Stable]_vars
  BY DEF DescriptorStable
<1> HIDE DEF Stable
<1> QED BY FilesInit, <1>1, <1>2, <1>3, PTL DEF Spec
=============================================================================
