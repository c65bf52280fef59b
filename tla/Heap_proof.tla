---------------------------- MODULE Heap_proof ----------------------------
(***************************************************************************)
(* Proofs about Heap: the kernel's heap stays consistent (HeapOK), and     *)
(* malloc and free implement an allocator.                                 *)
(*                                                                         *)
(* The invariant has four parts that do not read each other's state: the   *)
(* blocks and their pieces, the free lists, who uses a piece, and what     *)
(* malloc or free knows in the middle of a call.                           *)
(***************************************************************************)
EXTENDS Heap, FiniteSetTheorems, WellFoundedInduction, TLAPS

-----------------------------------------------------------------------------
\* The parts of the inductive invariant.

\* The pieces fill the heap, and where there is no tag memory reads as cleared.
BlockInv ==
    /\ pieces \subseteq Address /\ pages \in 0..MaxPages
    /\ real_size \in [Address -> Nat]
    /\ split_left \in [Address -> Pointer] /\ split_right \in [Address -> Pointer]
    /\ Tiled
    /\ \A a \in Address \ pieces : split_left[a] = Null /\ split_right[a] = Null

InLists == {a \in Address : index[a] # -1}

\* A set that has the head of a list and, with a piece, the next one.
ClosedFor(i, S) ==
    /\ l_freePages[i] # Null => l_freePages[i] \in S
    /\ \A s \in S : next[s] # Null => next[s] \in S

ListTypes ==
    /\ index \in [Address -> -1..MaxExp - 1]
    /\ next \in [Address -> Address \cup {Null}] /\ prev \in [Address -> Address \cup {Null}]
    /\ l_freePages \in [Exp -> Address \cup {Null}]

\* A tag out of the lists has no links; the links of the others are each other's inverse
\* and stay in one list, which begins where no link leads back.
Linked ==
    /\ \A a \in Address :
          /\ index[a] = -1 => next[a] = Null /\ prev[a] = Null
          /\ next[a] # Null => prev[next[a]] = a /\ index[next[a]] = index[a]
          /\ prev[a] # Null => next[prev[a]] = a
          /\ index[a] # -1 /\ prev[a] = Null => l_freePages[index[a]] = a
    /\ \A i \in Exp : l_freePages[i] # Null =>
          index[l_freePages[i]] = i /\ prev[l_freePages[i]] = Null

\* Every tag with an index is met on the way from the head of that list.
Reached ==
    \A a \in InLists : \A S \in SUBSET InLists : ClosedFor(index[a], S) => a \in S

ListInv == ListTypes /\ Linked /\ Reached

\* A piece is in a list, in use or in the hands of malloc or free.
UseInv ==
    /\ InLists \subseteq pieces
    /\ \A t \in pieces :
          /\ index[t] = -1 <=> t \in Current \/ \E r \in owned : r[1] = t + TagSize
          /\ index[t] # -1 => index[t] = ListFor(Usable(t))
    /\ \A r \in owned :
          /\ r[1] - TagSize \in pieces \ Current /\ r[2] =< Usable(r[1] - TagSize)
          /\ \A s \in owned : s[1] = r[1] => s = r

\* malloc searches one list, and gives out a piece that is large enough and whose right
\* neighbour is in use.
OpOK ==
    /\ op.at # "none" => lock
    /\ op.at \in {"search", "got"} => op.size \in Size \cup {KeySize}
    /\ op.at = "search" /\ op.tag # Null => index[op.tag] = ListFor(op.size)
    /\ op.at \in {"got", "free", "full"} => op.tag # Null
    /\ op.at = "got" => /\ op.size =< Usable(op.tag) /\ Usable(op.tag) > 0
                        /\ ~IsFreeTag(split_right[op.tag])

CallTypes ==
    /\ l_completePages \in [Exp -> 0..MaxComplete]
    /\ owned \subseteq Address \X (Size \cup {KeySize})
    /\ op.at \in {"none", "search", "got", "free", "full"}
    /\ op = [at |-> op.at, size |-> op.size, tag |-> op.tag]
    /\ op.size \in Size \cup {KeySize, 0} /\ op.tag \in Pointer
    /\ lock \in BOOLEAN

KeyTypes ==
    /\ event \in Address \cup {Null}
    /\ keyboard \in [extended : BOOLEAN, lshift : BOOLEAN]
    /\ irq \in BOOLEAN /\ stuck \in BOOLEAN

HeapInv ==
    BlockInv /\ ListInv /\ UseInv /\ Coalesced /\ CompleteCounted /\ OpOK /\ CallTypes

-----------------------------------------------------------------------------
\* Numbers.

\* Every set of natural numbers that is not empty has a least element.
LEMMA LeastNat ==
    ASSUME NEW S, S \subseteq Nat, S # {}
    PROVE  Min(S) \in S /\ \A x \in S : Min(S) =< x
<1> DEFINE R == {ss \in Nat \X Nat : ss[1] < ss[2]}
<1>1. IsWellFoundedOn(R, Nat)
  BY NatLessThanWellFounded DEF OpToRel
<1>2. \E x \in S : \A y \in S : ~(<<y, x>> \in R)
  <2> HIDE DEF R
  <2> QED BY <1>1, WFMin
<1>3. \E x \in S : \A y \in S : x =< y
  <2>1. PICK x \in S : \A y \in S : ~(<<y, x>> \in R)
    BY <1>2
  <2>2. ASSUME NEW y \in S PROVE x =< y
    <3>1. x \in Nat /\ y \in Nat
      OBVIOUS
    <3>2. SUFFICES ASSUME y < x PROVE FALSE
      BY <3>1
    <3>3. <<y, x>> \in R
      BY <3>1, <3>2
    <3> QED BY <2>1, <3>3
  <2> QED BY <2>2
<1> QED BY <1>3 DEF Min

\* getexp counts down from a power that is too large, so every list number is one.
LEMMA ListForType == ASSUME NEW n \in Int PROVE ListFor(n) \in Exp
<1> DEFINE S == {shift \in MinExp..MaxExp : shift = MaxExp \/ 2^shift > n}
<1>1. MinExp \in Nat /\ MaxExp \in Nat \ {0} /\ MinExp < MaxExp
  BY HeapAssumption
<1>2. S \subseteq Nat /\ S # {} /\ S \subseteq MinExp..MaxExp
  BY <1>1
<1>3. Min(S) \in MinExp..MaxExp
  <2> HIDE DEF S
  <2> QED BY <1>2, LeastNat
<1>4. getexp(n) \in {-1, Min(S) - 1}
  BY DEF getexp
<1> HIDE DEF S
<1> QED BY <1>1, <1>3, <1>4 DEF ListFor, Exp

\* Multiples of d are at least d apart.
LEMMA Times ==
    ASSUME NEW d \in Nat \ {0}, NEW a \in Nat, NEW b \in Nat, a < b
    PROVE  d * a + d =< d * b
<1>1. PICK k \in Nat : b = a + 1 + k
  <2>1. b - a - 1 \in Nat /\ b = a + 1 + (b - a - 1)
    OBVIOUS
  <2> QED BY <2>1
<1>2. d * b = d * a + d + d * k
  BY <1>1
<1>3. d * k \in Nat /\ d * a \in Nat
  BY <1>1
<1> QED BY <1>2, <1>3

\* A multiple of the page size has no remainder.
LEMMA Multiple == ASSUME NEW d \in Nat \ {0}, NEW k \in Nat PROVE (k * d) % d = 0
<1> DEFINE q == (k * d) \div d
           r == (k * d) % d
<1>1. k * d \in Nat /\ k * d = d * k
  OBVIOUS
<1>2. q \in Nat /\ r \in 0..d - 1 /\ k * d = d * q + r
  BY <1>1
<1> HIDE DEF q, r
<1>3. d * k \in Nat /\ d * q \in Nat
  BY <1>2
<1>4. ~(k < q)
  <2> SUFFICES ASSUME k < q PROVE FALSE
    OBVIOUS
  <2>1. d * k + d =< d * q
    BY <1>2, Times
  <2> QED BY <2>1, <1>1, <1>2, <1>3
<1>5. ~(q < k)
  <2> SUFFICES ASSUME q < k PROVE FALSE
    OBVIOUS
  <2>1. d * q + d =< d * k
    BY <1>2, Times
  <2> QED BY <2>1, <1>1, <1>2, <1>3
<1>6. q = k
  BY <1>2, <1>4, <1>5
<1>7. r = 0
  BY <1>1, <1>2, <1>3, <1>6
<1> QED BY <1>7 DEF r

\* The first and the last address of the heap.
LEMMA Bounds ==
    ASSUME BlockInv
    PROVE  /\ PageSize \in Nat \ {0} /\ TagSize \in Nat \ {0} /\ TagSize < PageSize
           /\ Null \notin Address
           /\ Top \in Nat
           /\ \A a \in Int : PageSize =< a /\ a < Top => a \in Address
           /\ \A a \in Address : a \in Nat /\ PageSize =< a
<1>1. /\ PageSize \in Nat \ {0} /\ TagSize \in Nat \ {0} /\ TagSize < PageSize
      /\ MaxPages \in Nat
  BY HeapAssumption
<1>2. pages \in Nat /\ pages =< MaxPages
  BY <1>1 DEF BlockInv
<1>3. PageSize * (pages + 1) =< PageSize * (MaxPages + 1)
  <2>1. CASE pages = MaxPages
    BY <2>1, <1>1
  <2>2. CASE pages < MaxPages
    <3>1. PageSize * (pages + 1) + PageSize =< PageSize * (MaxPages + 1)
      BY <2>2, <1>1, <1>2, Times
    <3>2. PageSize * (pages + 1) \in Nat /\ PageSize * (MaxPages + 1) \in Nat
      BY <1>1, <1>2
    <3> QED BY <3>1, <3>2, <1>1
  <2> QED BY <1>1, <1>2, <2>1, <2>2
<1>4. Top = PageSize * (pages + 1) /\ Top \in Nat /\ PageSize * (MaxPages + 1) \in Nat
  BY <1>1, <1>2 DEF Top
<1> DEFINE Last == PageSize * (MaxPages + 1)
<1>5. Address = PageSize..Last - 1 /\ Top =< Last /\ Last \in Nat
  BY <1>3, <1>4 DEF Address
<1> HIDE DEF Last
<1> QED BY <1>1, <1>4, <1>5 DEF Null
-----------------------------------------------------------------------------
\* The free lists.

\* remove_tag: the lists stay lists, without the tag.
LEMMA RemoveKeeps ==
    ASSUME Null \notin Address, ListInv, NEW t \in InLists, remove_tag(t)
    PROVE  ListInv' /\ index' = [index EXCEPT ![t] = -1]
<1> DEFINE p == prev[t]
           n == next[t]
           i == index[t]
<1>0. MaxExp \in Nat \ {0} /\ t \in Address /\ i \in Exp /\ i # -1
  BY HeapAssumption DEF InLists, ListInv, ListTypes, Exp
<1>1. p \in Address \cup {Null} /\ n \in Address \cup {Null}
  BY <1>0 DEF ListInv, ListTypes
<1>2. ListTypes'
  BY <1>0, <1>1 DEF ListInv, ListTypes, remove_tag, Assign, Exp
<1>3. \A a \in Address :
         /\ next'[a] = IF a = t THEN Null ELSE IF a = p THEN n ELSE next[a]
         /\ prev'[a] = IF a = t THEN Null ELSE IF a = n THEN p ELSE prev[a]
         /\ index'[a] = IF a = t THEN -1 ELSE index[a]
  BY <1>0, <1>1 DEF ListInv, ListTypes, remove_tag, Assign
<1>4. \A j \in Exp : l_freePages'[j] = IF j = i /\ l_freePages[i] = t THEN n ELSE l_freePages[j]
  BY <1>0 DEF ListInv, ListTypes, remove_tag
<1>5. /\ p # Null => p \in Address /\ next[p] = t /\ index[p] = i
      /\ n # Null => n \in Address /\ prev[n] = t /\ index[n] = i
      /\ p = Null => l_freePages[i] = t
      /\ l_freePages[i] = t => p = Null
  <2>1. p # Null => p \in Address /\ next[p] = t
    BY <1>0, <1>1 DEF ListInv, Linked
  <2>2. p # Null => index[p] = i
    BY <2>1, <1>0 DEF ListInv, Linked, Null
  <2> QED BY <2>1, <2>2, <1>0, <1>1 DEF ListInv, Linked
<1>6. Linked'
  <2>1. ASSUME NEW a \in Address, index'[a] = -1 PROVE next'[a] = Null /\ prev'[a] = Null
    BY <2>1, <1>0, <1>1, <1>3, <1>5 DEF ListInv, Linked
  <2>2. ASSUME NEW a \in Address, next'[a] # Null
        PROVE  prev'[next'[a]] = a /\ index'[next'[a]] = index'[a]
    <3>1. a # t
      BY <2>2, <1>3
    <3>2. CASE a = p
      BY <2>2, <3>1, <3>2, <1>0, <1>1, <1>3, <1>5
    <3>3. CASE a # p
      <4>1. next'[a] = next[a] /\ next[a] \in Address
        BY <3>1, <3>3, <2>2, <1>3 DEF ListInv, ListTypes
      <4>2. prev[next[a]] = a /\ index[next[a]] = index[a]
        BY <2>2, <4>1 DEF ListInv, Linked
      <4>3. next[a] # t /\ next[a] # n
        BY <4>1, <4>2, <3>1, <3>3, <1>5
      <4> QED BY <3>1, <4>1, <4>2, <4>3, <1>3
    <3> QED BY <3>2, <3>3
  <2>3. ASSUME NEW a \in Address, prev'[a] # Null PROVE next'[prev'[a]] = a
    <3>1. a # t
      BY <2>3, <1>3
    <3>2. CASE a = n
      BY <2>3, <3>1, <3>2, <1>0, <1>1, <1>3, <1>5
    <3>3. CASE a # n
      <4>1. prev'[a] = prev[a] /\ prev[a] \in Address
        BY <3>1, <3>3, <2>3, <1>3 DEF ListInv, ListTypes
      <4>2. next[prev[a]] = a
        BY <2>3, <4>1 DEF ListInv, Linked
      <4>3. prev[a] # t /\ prev[a] # p
        BY <4>1, <4>2, <3>1, <3>3, <1>5
      <4> QED BY <3>1, <4>1, <4>2, <4>3, <1>3
    <3> QED BY <3>2, <3>3
  <2>4. ASSUME NEW a \in Address, index'[a] # -1, prev'[a] = Null
        PROVE  l_freePages'[index'[a]] = a
    <3>1. a # t /\ index'[a] = index[a] /\ index[a] \in Exp
      BY <2>4, <1>3 DEF ListInv, ListTypes, Exp
    <3>2. CASE a = n
      BY <2>4, <3>1, <3>2, <1>0, <1>1, <1>3, <1>4, <1>5
    <3>3. CASE a # n
      <4>1. l_freePages[index[a]] = a
        BY <2>4, <3>1, <3>3, <1>3 DEF ListInv, Linked
      <4> QED BY <3>1, <4>1, <1>4
    <3> QED BY <3>2, <3>3
  <2>5. ASSUME NEW j \in Exp, l_freePages'[j] # Null
        PROVE  index'[l_freePages'[j]] = j /\ prev'[l_freePages'[j]] = Null
    <3>1. CASE j = i /\ l_freePages[i] = t
      BY <2>5, <3>1, <1>0, <1>1, <1>3, <1>4, <1>5
    <3>2. CASE ~(j = i /\ l_freePages[i] = t)
      <4>1. l_freePages'[j] = l_freePages[j] /\ l_freePages[j] \in Address
        BY <2>5, <3>2, <1>4 DEF ListInv, ListTypes
      <4>2. index[l_freePages[j]] = j /\ prev[l_freePages[j]] = Null
        BY <2>5, <4>1 DEF ListInv, Linked
      <4>3. l_freePages[j] # t
        BY <3>2, <4>2
      <4>4. l_freePages[j] # n
        BY <4>1, <4>2, <1>0, <1>5
      <4> QED BY <4>1, <4>2, <4>3, <4>4, <1>3
    <3> QED BY <3>1, <3>2
  <2> QED BY <2>1, <2>2, <2>3, <2>4, <2>5 DEF Linked
<1>7. ASSUME NEW a \in InLists', NEW S \in SUBSET InLists', ClosedFor(index[a], S)'
      PROVE  a \in S
  <2>1. a \in InLists /\ a # t /\ index'[a] = index[a] /\ index[a] \in Exp
    BY <1>3 DEF InLists, ListInv, ListTypes, Exp
  <2>2. S \subseteq InLists /\ t \notin S /\ S \subseteq Address
    BY <1>3 DEF InLists
  <2> DEFINE k == index[a]
  <2>3. /\ l_freePages'[k] # Null => l_freePages'[k] \in S
        /\ \A s \in S : next'[s] # Null => next'[s] \in S
    BY <1>7, <2>1 DEF ClosedFor
  <2>4. CASE p \in S \/ (k = i /\ l_freePages[i] = t)
    <3> DEFINE T == S \cup {t}
    <3>1. T \in SUBSET InLists
      BY <2>2
    <3>2. n # Null => n \in S
      BY <2>4, <2>2, <2>3, <1>0, <1>3, <1>4
    <3>3. l_freePages[k] # Null => l_freePages[k] \in T
      BY <2>1, <2>3, <1>4
    <3>4. ASSUME NEW s \in S, next[s] # Null PROVE next[s] \in T
      <4>1. CASE s = p
        BY <4>1, <2>2, <1>5, <1>0, <3>4
      <4>2. CASE s # p
        <5>1. next'[s] = next[s]
          BY <4>2, <2>2, <1>3
        <5> QED BY <5>1, <2>3, <3>4
      <4> QED BY <4>1, <4>2
    <3>5. ClosedFor(k, T)
      BY <3>2, <3>3, <3>4 DEF ClosedFor
    <3>6. a \in T
      BY <3>1, <3>5, <2>1 DEF ListInv, Reached
    <3> QED BY <3>6, <2>1
  <2>5. CASE ~(p \in S \/ (k = i /\ l_freePages[i] = t))
    <3>1. ASSUME NEW s \in S PROVE next'[s] = next[s]
      BY <2>2, <2>5, <1>3
    <3>2. l_freePages'[k] = l_freePages[k]
      BY <2>1, <2>5, <1>4
    <3>3. ClosedFor(k, S)
      BY <3>1, <3>2, <2>3 DEF ClosedFor
    <3> QED BY <3>3, <2>1, <2>2 DEF ListInv, Reached
  <2> QED BY <2>4, <2>5
<1>8. Reached'
  BY <1>7 DEF Reached
<1> QED BY <1>2, <1>6, <1>8 DEF ListInv, remove_tag

\* insert_tag: the lists stay lists, and the tag is the head of one of them.
LEMMA InsertKeeps ==
    ASSUME Null \notin Address, ListInv, NEW t \in Address, index[t] = -1,
           NEW i \in Exp, insert_tag(t, i)
    PROVE  ListInv' /\ index' = [index EXCEPT ![t] = i]
<1> DEFINE f == l_freePages[i]
<1>0. MaxExp \in Nat \ {0} /\ i \in 0..MaxExp - 1 /\ f \in Address \cup {Null} /\ i # -1
  BY HeapAssumption DEF ListInv, ListTypes, Exp
<1>1. next[t] = Null /\ prev[t] = Null
  BY DEF ListInv, Linked
<1>2. f # Null => f \in Address /\ f # t /\ index[f] = i /\ prev[f] = Null
  BY <1>0 DEF ListInv, Linked
<1>3. ListTypes'
  BY <1>0 DEF ListInv, ListTypes, insert_tag, Assign, Exp
<1>4. \A a \in Address :
         /\ next'[a] = IF a = t THEN f ELSE next[a]
         /\ prev'[a] = IF a = f THEN t ELSE prev[a]
         /\ index'[a] = IF a = t THEN i ELSE index[a]
  BY <1>0, <1>1 DEF ListInv, ListTypes, insert_tag, Assign
<1>5. \A j \in Exp : l_freePages'[j] = IF j = i THEN t ELSE l_freePages[j]
  BY DEF ListInv, ListTypes, insert_tag
<1>6. \A a \in Address : next[a] # t /\ prev[a] # t
  BY <1>1 DEF ListInv, ListTypes, Linked
<1>7. Linked'
  <2>1. ASSUME NEW a \in Address, index'[a] = -1 PROVE next'[a] = Null /\ prev'[a] = Null
    BY <2>1, <1>0, <1>2, <1>4 DEF ListInv, Linked
  <2>2. ASSUME NEW a \in Address, next'[a] # Null
        PROVE  prev'[next'[a]] = a /\ index'[next'[a]] = index'[a]
    <3>1. CASE a = t
      BY <2>2, <3>1, <1>2, <1>4
    <3>2. CASE a # t
      <4>1. next'[a] = next[a] /\ next[a] \in Address
        BY <2>2, <3>2, <1>4 DEF ListInv, ListTypes
      <4>2. prev[next[a]] = a /\ index[next[a]] = index[a]
        BY <2>2, <4>1 DEF ListInv, Linked
      <4>3. next[a] # f /\ next[a] # t
        BY <4>1, <4>2, <1>2, <1>6
      <4> QED BY <3>2, <4>1, <4>2, <4>3, <1>4
    <3> QED BY <3>1, <3>2
  <2>3. ASSUME NEW a \in Address, prev'[a] # Null PROVE next'[prev'[a]] = a
    <3>1. CASE a = f
      BY <3>1, <1>4
    <3>2. CASE a # f
      <4>1. prev'[a] = prev[a] /\ prev[a] \in Address
        BY <2>3, <3>2, <1>4 DEF ListInv, ListTypes
      <4>2. next[prev[a]] = a
        BY <2>3, <4>1 DEF ListInv, Linked
      <4> QED BY <4>1, <4>2, <1>4, <1>6
    <3> QED BY <3>1, <3>2
  <2>4. ASSUME NEW a \in Address, index'[a] # -1, prev'[a] = Null
        PROVE  l_freePages'[index'[a]] = a
    <3>1. CASE a = t
      BY <3>1, <1>4, <1>5
    <3>2. CASE a # t
      <4>1. index'[a] = index[a] /\ index[a] \in Exp /\ a # f
        BY <2>4, <3>2, <1>4 DEF ListInv, ListTypes, Exp
      <4>2. l_freePages[index[a]] = a
        BY <2>4, <3>2, <4>1, <1>4 DEF ListInv, Linked
      <4> QED BY <4>1, <4>2, <1>5
    <3> QED BY <3>1, <3>2
  <2>5. ASSUME NEW j \in Exp, l_freePages'[j] # Null
        PROVE  index'[l_freePages'[j]] = j /\ prev'[l_freePages'[j]] = Null
    <3>1. CASE j = i
      BY <3>1, <1>1, <1>2, <1>4, <1>5
    <3>2. CASE j # i
      <4>1. l_freePages'[j] = l_freePages[j] /\ l_freePages[j] \in Address
        BY <2>5, <3>2, <1>5 DEF ListInv, ListTypes
      <4>2. index[l_freePages[j]] = j /\ prev[l_freePages[j]] = Null
        BY <2>5, <4>1 DEF ListInv, Linked
      <4>3. l_freePages[j] # t /\ l_freePages[j] # f
        BY <4>1, <4>2, <3>2, <1>2, <1>0 DEF Exp
      <4> QED BY <4>1, <4>2, <4>3, <1>4
    <3> QED BY <3>1, <3>2
  <2> QED BY <2>1, <2>2, <2>3, <2>4, <2>5 DEF Linked
<1>8. ASSUME NEW a \in InLists', NEW S \in SUBSET InLists', ClosedFor(index[a], S)'
      PROVE  a \in S
  <2> DEFINE T == S \ {t}
             k == index'[a]
  <2>1. a \in Address /\ index'[a] # -1 /\ S \subseteq Address /\ k \in Exp
    BY <1>3 DEF InLists, ListTypes, Exp
  <2>2. /\ l_freePages'[k] # Null => l_freePages'[k] \in S
        /\ \A s \in S : next'[s] # Null => next'[s] \in S
    BY <1>8 DEF ClosedFor
  <2>3. CASE a = t
    BY <2>2, <2>3, <1>4, <1>5
  <2>4. CASE a # t
    <3>1. a \in InLists /\ k = index[a]
      BY <2>1, <2>4, <1>4 DEF InLists
    <3>2. T \in SUBSET InLists
      BY <1>4 DEF InLists
    <3>3. l_freePages[k] # Null => l_freePages[k] \in T
      <4>1. CASE k = i
        BY <4>1, <2>1, <2>2, <1>2, <1>4, <1>5
      <4>2. CASE k # i
        <5>1. l_freePages[k] # t
          BY <2>1 DEF ListInv, Linked, Exp
        <5> QED BY <4>2, <5>1, <2>1, <2>2, <1>5
      <4> QED BY <4>1, <4>2
    <3>4. ASSUME NEW s \in T, next[s] # Null PROVE next[s] \in T
      BY <3>4, <2>1, <2>2, <1>4, <1>6
    <3>5. ClosedFor(k, T)
      BY <3>3, <3>4 DEF ClosedFor
    <3>6. a \in T
      BY <3>1, <3>2, <3>5 DEF ListInv, Reached
    <3> QED BY <3>6
  <2> QED BY <2>3, <2>4
<1>9. Reached'
  BY <1>8 DEF Reached
<1> QED BY <1>3, <1>7, <1>9 DEF ListInv, insert_tag
-----------------------------------------------------------------------------
\* The blocks.

\* A piece ends behind its tag, in the heap, and its neighbours are pieces.
LEMMA PieceFacts ==
    ASSUME BlockInv, NEW t \in pieces
    PROVE  /\ t \in Address /\ t \in Nat /\ PageSize =< t
           /\ real_size[t] \in Nat /\ TagSize =< real_size[t]
           /\ End(t) = t + real_size[t] /\ t < End(t) /\ End(t) =< Top
           /\ End(t) \in pieces \cup {Top}
           /\ split_right[t] # Null => /\ split_right[t] = End(t) /\ End(t) \in pieces
                                       /\ split_left[End(t)] = t
           /\ split_left[t] # Null => /\ split_left[t] \in pieces /\ split_left[t] < t
                                      /\ split_right[split_left[t]] = t
                                      /\ End(split_left[t]) = t
           /\ split_right[t] = Null => End(t) % PageSize = 0
           /\ \A s \in pieces : ~(t < s /\ s < End(t))
<1>0. TagSize \in Nat \ {0} /\ Null \notin Address
  BY Bounds
<1>1. \A s \in pieces : /\ s \in Address /\ s \in Nat /\ PageSize =< s
                        /\ real_size[s] \in Nat /\ TagSize =< real_size[s]
                        /\ End(s) = s + real_size[s] /\ s < End(s)
  <2> TAKE s \in pieces
  <2>1. s \in Address /\ s \in Nat /\ PageSize =< s
    BY Bounds DEF BlockInv
  <2>2. real_size[s] \in Nat /\ TagSize =< real_size[s]
    BY <2>1, <1>0 DEF BlockInv, Tiled
  <2> QED BY <2>1, <2>2, <1>0 DEF End
<1>2. /\ End(t) =< Top /\ End(t) \in pieces \cup {Top}
      /\ split_right[t] = Null => End(t) % PageSize = 0
      /\ \A s \in pieces : ~(t < s /\ s < End(t))
  BY DEF BlockInv, Tiled
<1>3. split_right[t] # Null => /\ split_right[t] = End(t) /\ End(t) \in pieces
                               /\ split_left[End(t)] = t
  BY <1>1 DEF BlockInv, Tiled, Pointer
<1>4. ASSUME split_left[t] # Null
      PROVE  /\ split_left[t] \in pieces /\ split_left[t] < t
             /\ split_right[split_left[t]] = t /\ End(split_left[t]) = t
  <2>1. split_left[t] \in pieces
    BY <1>1, <1>4 DEF BlockInv, Pointer
  <2>2. split_right[split_left[t]] = t
    BY <1>4 DEF BlockInv, Tiled
  <2>3. t # Null
    BY <1>0, <1>1
  <2>4. End(split_left[t]) = t
    BY <2>1, <2>2, <2>3 DEF BlockInv, Tiled
  <2> QED BY <2>1, <2>2, <2>4, <1>1
<1> QED BY <1>1, <1>2, <1>3, <1>4

\* melt_left and absorb_right: two neighbours become one piece, and the other pieces are
\* what they were.
LEMMA JoinKeeps ==
    ASSUME BlockInv, NEW left \in pieces, NEW right \in pieces,
           split_right[left] = right, Join(left, right), UNCHANGED pages
    PROVE  /\ BlockInv'
           /\ left # right /\ split_left[right] = left /\ pieces' = pieces \ {right}
           /\ split_right'[left] = split_right[right]
           /\ \A a \in pieces \ {left, right} :
                 /\ real_size'[a] = real_size[a] /\ split_right'[a] = split_right[a]
                 /\ Whole(a)' <=> Whole(a)
<1> DEFINE rr == split_right[right]
<1>0. /\ TagSize \in Nat \ {0} /\ PageSize \in Nat \ {0} /\ Null \notin Address
      /\ Top \in Nat /\ Top' = Top
  BY Bounds DEF Top
<1>1. /\ pieces \subseteq Address /\ pieces \subseteq Nat
      /\ left # Null /\ right # Null
  BY <1>0, PieceFacts
<1>2. /\ right = End(left) /\ split_left[right] = left /\ left < right
      /\ right = left + real_size[left] /\ End(right) = right + real_size[right]
      /\ right < End(right) /\ real_size[left] \in Nat /\ real_size[right] \in Nat
  BY <1>1, PieceFacts
<1>3. /\ rr # Null => rr \in pieces /\ rr = End(right) /\ split_left[rr] = right
      /\ rr # right /\ rr # left
  BY <1>1, <1>2, PieceFacts
<1>4. \A a \in Address :
         /\ real_size'[a] = IF a = left THEN real_size[left] + real_size[right]
                            ELSE IF a = right THEN 0 ELSE real_size[a]
         /\ split_right'[a] = IF a = left THEN rr ELSE IF a = right THEN Null
                              ELSE split_right[a]
         /\ split_left'[a] = IF a = right THEN Null ELSE IF a = rr THEN left
                             ELSE split_left[a]
  BY <1>0, <1>1, <1>2, <1>3 DEF Join, Assign, BlockInv
<1>5. pieces' = pieces \ {right}
  BY DEF Join
<1>6. /\ \A a \in pieces \ {left, right} :
            End(a)' = End(a) /\ real_size'[a] = real_size[a] /\ End(a) # right
      /\ End(left)' = End(right)
  <2>1. End(left)' = End(right)
    BY <1>1, <1>2, <1>4 DEF End
  <2>2. ASSUME NEW a \in pieces \ {left, right} PROVE End(a) # right
    <3>1. a \in Nat /\ a < End(a) /\ ~(a < left /\ left < End(a))
          /\ ~(left < a /\ a < End(left))
      BY PieceFacts
    <3> QED BY <3>1, <1>1, <1>2
  <2> QED BY <2>1, <2>2, <1>1, <1>4 DEF End
<1>7. /\ real_size' \in [Address -> Nat]
      /\ split_left' \in [Address -> Pointer'] /\ split_right' \in [Address -> Pointer']
  <2>1. real_size' \in [Address -> Nat]
    BY <1>1, <1>2 DEF Join, BlockInv
  <2>2. DOMAIN split_right' = Address /\ split_right' = [a \in Address |-> split_right'[a]]
    BY DEF Join, BlockInv
  <2>3. DOMAIN split_left' = Address /\ split_left' = [a \in Address |-> split_left'[a]]
    BY DEF Join, BlockInv, Assign
  <2>4. ASSUME NEW a \in Address PROVE split_right'[a] \in Pointer'
    <3>1. CASE a = left
      BY <3>1, <1>3, <1>4, <1>5 DEF Pointer
    <3>2. CASE a = right
      BY <3>2, <1>2, <1>4 DEF Pointer
    <3>3. CASE a # left /\ a # right
      <4>1. split_right'[a] = split_right[a] /\ split_right[a] \in Pointer
        BY <3>3, <1>4 DEF BlockInv
      <4>2. split_right[a] # right
        <5>1. CASE a \in pieces
          BY <5>1, <3>3, <1>1, <1>2, PieceFacts
        <5>2. CASE a \notin pieces
          BY <5>2, <1>1 DEF BlockInv
        <5> QED BY <5>1, <5>2
      <4> QED BY <4>1, <4>2, <1>5 DEF Pointer
    <3> QED BY <3>1, <3>2, <3>3
  <2>5. ASSUME NEW a \in Address PROVE split_left'[a] \in Pointer'
    <3>1. CASE a = rr
      BY <3>1, <1>2, <1>3, <1>4, <1>5 DEF Pointer
    <3>2. CASE a = right
      BY <3>2, <1>2, <1>4 DEF Pointer
    <3>3. CASE a # rr /\ a # right
      <4>1. split_left'[a] = split_left[a] /\ split_left[a] \in Pointer
        BY <3>3, <1>4 DEF BlockInv
      <4>2. split_left[a] # right
        <5>1. CASE a \in pieces
          BY <5>1, <3>3, <1>1, PieceFacts
        <5>2. CASE a \notin pieces
          BY <5>2, <1>1 DEF BlockInv
        <5> QED BY <5>1, <5>2
      <4> QED BY <4>1, <4>2, <1>5 DEF Pointer
    <3> QED BY <3>1, <3>2, <3>3
  <2> QED BY <2>1, <2>2, <2>3, <2>4, <2>5
<1>8. \A a \in Address \ pieces' : split_left'[a] = Null /\ split_right'[a] = Null
  BY <1>0, <1>1, <1>3, <1>4, <1>5 DEF BlockInv
<1>9. Tiled'
  <2>1. ASSUME NEW t \in pieces'
        PROVE  /\ real_size'[t] >= TagSize
               /\ split_right'[t] # Null =>
                     split_right'[t] = End(t)' /\ split_left'[End(t)'] = t
               /\ split_left'[t] # Null => split_right'[split_left'[t]] = t
               /\ split_right'[t] = Null => End(t)' % PageSize = 0
               /\ End(t)' \in pieces' \cup {Top'} /\ End(t)' =< Top'
               /\ \A s \in pieces' : ~(t < s /\ s < End(t)')
    <3>0. t \in pieces /\ t # right /\ t \in Address
      BY <1>1, <1>5
    <3>1. real_size'[t] >= TagSize
      BY <3>0, <1>0, <1>2, <1>4, PieceFacts
    <3>2. ASSUME split_left'[t] # Null PROVE split_right'[split_left'[t]] = t
      <4>1. CASE t = rr
        BY <4>1, <3>0, <1>1, <1>4
      <4>2. CASE t # rr
        <5>1. split_left'[t] = split_left[t]
          BY <3>0, <4>2, <1>4
        <5>2. split_left[t] \in pieces /\ split_right[split_left[t]] = t
          BY <5>1, <3>0, <3>2, PieceFacts
        <5>3. split_left[t] # left /\ split_left[t] # right
          BY <5>2, <3>0, <4>2
        <5> QED BY <5>1, <5>2, <5>3, <1>1, <1>4
      <4> QED BY <4>1, <4>2
    <3>3. CASE t = left
      <4>1. split_right'[t] = rr /\ End(t)' = End(right)
        BY <3>3, <1>1, <1>4, <1>6
      <4>2. rr # Null => rr = End(right) /\ split_left'[rr] = left
        BY <1>1, <1>3, <1>4
      <4>3. rr = Null => End(right) % PageSize = 0
        BY PieceFacts
      <4>4. /\ End(right) \in pieces \cup {Top} /\ End(right) =< Top /\ End(right) # right
        BY <1>1, <1>2, PieceFacts
      <4>5. ASSUME NEW s \in pieces' PROVE ~(left < s /\ s < End(right))
        <5>1. s \in Nat /\ s # right /\ ~(left < s /\ s < End(left)) /\ ~(right < s /\ s < End(right))
          BY <1>1, <1>5, PieceFacts
        <5> QED BY <5>1, <1>1, <1>2
      <4> QED BY <3>1, <3>2, <3>3, <4>1, <4>2, <4>3, <4>4, <4>5, <1>0, <1>5
    <3>4. CASE t # left
      <4>1. split_right'[t] = split_right[t] /\ End(t)' = End(t) /\ End(t) # right
        BY <3>0, <3>4, <1>4, <1>6
      <4>2. ASSUME split_right[t] # Null
            PROVE  split_right[t] = End(t) /\ split_left'[End(t)] = t
        <5>1. split_right[t] = End(t) /\ split_left[End(t)] = t /\ End(t) \in Address
          BY <4>2, <3>0, <1>1, PieceFacts
        <5>2. End(t) # rr
          BY <5>1, <3>0, <1>0, <1>1, <1>3
        <5> QED BY <5>1, <5>2, <4>1, <1>4
      <4>3. /\ split_right[t] = Null => End(t) % PageSize = 0
            /\ End(t) \in pieces \cup {Top} /\ End(t) =< Top
            /\ \A s \in pieces : ~(t < s /\ s < End(t))
        BY <3>0, PieceFacts
      <4> QED BY <3>1, <3>2, <4>1, <4>2, <4>3, <1>0, <1>5
    <3> QED BY <3>3, <3>4
  <2>2. pages' > 0 => PageSize \in pieces'
    <3>1. pages > 0 => PageSize \in pieces
      BY DEF BlockInv, Tiled
    <3>2. PageSize =< left
      BY PieceFacts
    <3> QED BY <3>1, <3>2, <1>0, <1>1, <1>2, <1>5
  <2> QED BY <2>1, <2>2 DEF Tiled
<1>10. \A a \in pieces \ {left, right} :
          /\ real_size'[a] = real_size[a] /\ split_right'[a] = split_right[a]
          /\ Whole(a)' <=> Whole(a)
  BY <1>0, <1>1, <1>3, <1>4 DEF Whole
<1>11. BlockInv'
  BY <1>5, <1>7, <1>8, <1>9 DEF BlockInv
<1> QED BY <1>1, <1>2, <1>4, <1>5, <1>10, <1>11

\* split_tag: one piece becomes two neighbours, and the other pieces are what they were.
LEMMA SplitKeeps ==
    ASSUME BlockInv, NEW t \in pieces, NEW size \in Nat,
           real_size[t] - size - 2 * TagSize > 0, split_tag(t, size), UNCHANGED pages,
           NEW new, new = t + TagSize + size
    PROVE  /\ BlockInv'
           /\ new \in Address \ pieces /\ new # t /\ pieces' = pieces \cup {new}
           /\ split_right'[t] = new /\ split_right'[new] = split_right[t]
           /\ split_left'[new] = t
           /\ real_size'[t] = TagSize + size
           /\ real_size'[new] = real_size[t] - TagSize - size
           /\ \A a \in pieces \ {t} :
                 /\ real_size'[a] = real_size[a] /\ split_right'[a] = split_right[a]
                 /\ Whole(a)' <=> Whole(a)
<1> DEFINE rr == split_right[t]
           rest == real_size[t] - TagSize - size
<1>0. /\ TagSize \in Nat \ {0} /\ PageSize \in Nat \ {0} /\ Null \notin Address
      /\ Top \in Nat /\ Top' = Top
  BY Bounds DEF Top
<1>1. pieces \subseteq Address /\ pieces \subseteq Nat /\ t # Null
  <2>1. \A a \in pieces : a \in Address /\ a \in Nat
    BY PieceFacts
  <2> QED BY <2>1, <1>0
<1>2. /\ End(t) = t + real_size[t] /\ End(t) =< Top /\ real_size[t] \in Nat
      /\ PageSize =< t
  BY PieceFacts
<1>3. /\ new \in Nat /\ t < new /\ new < End(t) /\ rest \in Nat /\ rest > TagSize
      /\ End(t) = new + rest
  BY <1>0, <1>1, <1>2
<1>4. new \in Address /\ new \notin pieces /\ new # Null
  <2>1. new \in Address
    BY <1>0, <1>1, <1>2, <1>3, Bounds
  <2>2. new \notin pieces
    BY <1>3, PieceFacts
  <2> QED BY <2>1, <2>2, <1>0
<1>5. /\ rr # Null => rr \in pieces /\ rr = End(t) /\ split_left[rr] = t
      /\ rr # t /\ rr # new
  BY <1>1, <1>2, <1>3, <1>4, PieceFacts
<1>6. /\ pieces' = pieces \cup {new}
      /\ real_size' = [real_size EXCEPT ![t] = TagSize + size, ![new] = rest]
      /\ split_right' = [split_right EXCEPT ![t] = new, ![new] = rr]
      /\ split_left' = [Assign(split_left, rr, new) EXCEPT ![new] = t]
  BY DEF split_tag
<1> HIDE DEF rest
<1>7. \A a \in Address :
         /\ real_size'[a] = IF a = t THEN TagSize + size ELSE IF a = new THEN rest
                            ELSE real_size[a]
         /\ split_right'[a] = IF a = t THEN new ELSE IF a = new THEN rr
                              ELSE split_right[a]
         /\ split_left'[a] = IF a = new THEN t ELSE IF a = rr THEN new
                             ELSE split_left[a]
  BY <1>0, <1>1, <1>3, <1>4, <1>5, <1>6 DEF Assign, BlockInv
<1>8. /\ \A a \in pieces \ {t} : End(a)' = End(a) /\ real_size'[a] = real_size[a]
      /\ End(t)' = new /\ End(new)' = End(t)
  BY <1>0, <1>1, <1>2, <1>3, <1>4, <1>7 DEF End
<1>9. /\ real_size' \in [Address -> Nat]
      /\ split_left' \in [Address -> Pointer'] /\ split_right' \in [Address -> Pointer']
  <2>1. real_size' \in [Address -> Nat]
    <3>1. TagSize + size \in Nat /\ rest \in Nat /\ real_size \in [Address -> Nat]
      BY <1>0, <1>3 DEF BlockInv
    <3> QED BY <3>1, <1>6
  <2>2. split_left \in [Address -> Pointer'] /\ split_right \in [Address -> Pointer']
    BY <1>6 DEF BlockInv, Pointer
  <2>3. t \in Pointer' /\ new \in Pointer' /\ rr \in Pointer'
    BY <1>5, <1>6 DEF Pointer
  <2>4. Assign(split_left, rr, new) \in [Address -> Pointer']
    BY <2>2, <2>3 DEF Assign
  <2> QED BY <2>1, <2>2, <2>3, <2>4, <1>6
<1>10. \A a \in Address \ pieces' : split_left'[a] = Null /\ split_right'[a] = Null
  BY <1>0, <1>1, <1>4, <1>5, <1>6, <1>7 DEF BlockInv
<1>11. Tiled'
  <2>1. ASSUME NEW u \in pieces'
        PROVE  /\ real_size'[u] >= TagSize
               /\ split_right'[u] # Null =>
                     split_right'[u] = End(u)' /\ split_left'[End(u)'] = u
               /\ split_left'[u] # Null => split_right'[split_left'[u]] = u
               /\ split_right'[u] = Null => End(u)' % PageSize = 0
               /\ End(u)' \in pieces' \cup {Top'} /\ End(u)' =< Top'
               /\ \A s \in pieces' : ~(u < s /\ s < End(u)')
    <3>0. u \in pieces \cup {new} /\ u \in Address
      BY <1>1, <1>4, <1>6
    <3>1. real_size'[u] >= TagSize
      <4>1. CASE u \in pieces \ {t}
        BY <4>1, <1>8, PieceFacts, <1>0
      <4>2. CASE u = t
        BY <4>2, <3>0, <1>7, <1>0
      <4>3. CASE u = new
        BY <4>3, <1>3, <1>4, <1>7, <1>0
      <4> QED BY <3>0, <4>1, <4>2, <4>3
    <3>2. ASSUME split_left'[u] # Null PROVE split_right'[split_left'[u]] = u
      <4>1. CASE u = new
        BY <4>1, <1>1, <1>4, <1>7
      <4>2. CASE u # new /\ u = rr
        BY <4>2, <3>0, <1>4, <1>5, <1>7
      <4>3. CASE u # new /\ u # rr
        <5>1. split_left'[u] = split_left[u] /\ u \in pieces
          BY <3>0, <4>3, <1>7
        <5>2. split_left[u] \in pieces /\ split_right[split_left[u]] = u
          BY <5>1, <3>2, PieceFacts
        <5>3. split_left[u] # t /\ split_left[u] # new
          BY <5>2, <4>3, <1>4
        <5> QED BY <5>1, <5>2, <5>3, <1>1, <1>7
      <4> QED BY <4>1, <4>2, <4>3
    <3>3. CASE u = t
      <4>1. split_right'[u] = new /\ End(u)' = new /\ split_left'[new] = t
        BY <3>3, <1>1, <1>4, <1>7, <1>8
      <4>2. new \in pieces' /\ new =< Top
        BY <1>0, <1>2, <1>3, <1>1, <1>6
      <4>3. \A s \in pieces' : ~(t < s /\ s < new)
        <5>1. \A s \in pieces : s \in Nat /\ ~(t < s /\ s < End(t))
          BY <1>1, PieceFacts
        <5> QED BY <5>1, <1>1, <1>2, <1>3, <1>6
      <4> QED BY <3>1, <3>2, <3>3, <4>1, <4>2, <4>3, <1>0, <1>4
    <3>4. CASE u = new
      <4>1. split_right'[u] = rr /\ End(u)' = End(t)
        BY <3>4, <1>3, <1>4, <1>7, <1>8
      <4>2. rr # Null => rr = End(t) /\ split_left'[rr] = new
        BY <1>1, <1>5, <1>7
      <4>3. /\ rr = Null => End(t) % PageSize = 0
            /\ End(t) \in pieces \cup {Top} /\ End(t) =< Top
        BY PieceFacts
      <4>4. ASSUME NEW s \in pieces' PROVE ~(new < s /\ s < End(t))
        <5>1. \A x \in pieces : x \in Nat /\ ~(t < x /\ x < End(t))
          BY <1>1, PieceFacts
        <5> QED BY <5>1, <1>1, <1>2, <1>3, <1>6
      <4> QED BY <3>1, <3>2, <3>4, <4>1, <4>2, <4>3, <4>4, <1>0, <1>6
    <3>5. CASE u \in pieces \ {t}
      <4>1. split_right'[u] = split_right[u] /\ End(u)' = End(u)
        BY <3>5, <1>1, <1>4, <1>7, <1>8
      <4>2. ASSUME split_right[u] # Null
            PROVE  split_right[u] = End(u) /\ split_left'[End(u)] = u
        <5>1. split_right[u] = End(u) /\ split_left[End(u)] = u /\ End(u) \in pieces
          BY <4>2, <3>5, PieceFacts
        <5>2. End(u) # rr /\ End(u) # new
          BY <5>1, <3>5, <1>0, <1>1, <1>4, <1>5
        <5> QED BY <5>1, <5>2, <1>1, <1>7
      <4>3. /\ split_right[u] = Null => End(u) % PageSize = 0
            /\ End(u) \in pieces \cup {Top} /\ End(u) =< Top
            /\ u \in Nat /\ u < End(u)
            /\ \A s \in pieces : ~(u < s /\ s < End(u))
        BY <3>5, PieceFacts
      <4>4. ~(u < new /\ new < End(u))
        <5>1. ~(t < u /\ u < End(t)) /\ ~(u < t /\ t < End(u)) /\ u # t
          BY <4>3, <3>5, PieceFacts
        <5>2. End(u) \in Nat
          BY <4>3, <1>0, <1>1
        <5> QED BY <5>1, <5>2, <4>3, <1>1, <1>3
      <4> QED BY <3>1, <3>2, <4>1, <4>2, <4>3, <4>4, <1>0, <1>6
    <3> QED BY <3>0, <3>3, <3>4, <3>5
  <2>2. pages' > 0 => PageSize \in pieces'
    BY <1>6 DEF BlockInv, Tiled
  <2> QED BY <2>1, <2>2 DEF Tiled
<1>12. \A a \in pieces \ {t} :
          /\ real_size'[a] = real_size[a] /\ split_right'[a] = split_right[a]
          /\ Whole(a)' <=> Whole(a)
  BY <1>0, <1>1, <1>4, <1>5, <1>7 DEF Whole
<1>13. BlockInv'
  BY <1>1, <1>4, <1>6, <1>9, <1>10, <1>11 DEF BlockInv
<1> QED BY <1>1, <1>3, <1>4, <1>6, <1>7, <1>12, <1>13 DEF rest

\* allocate_new_tag: the pages from sbrk, which begin where the heap ended, are one piece.
LEMMA GrowKeeps ==
    ASSUME BlockInv, NEW size \in Nat, pages + PagesFor(size) =< MaxPages,
           NEW t, t = (pages + 1) * PageSize,
           pieces' = pieces \cup {t},
           real_size' = [real_size EXCEPT ![t] = PagesFor(size) * PageSize],
           pages' = pages + PagesFor(size), UNCHANGED <<split_left, split_right>>
    PROVE  /\ BlockInv'
           /\ t \in Address \ pieces
           /\ real_size'[t] \in Nat /\ real_size'[t] > TagSize
           /\ real_size'[t] - TagSize >= size
           /\ \A a \in pieces : real_size'[a] = real_size[a]
<1> DEFINE n == PagesFor(size)
           len == n * PageSize
<1>0. /\ TagSize \in Nat \ {0} /\ PageSize \in Nat \ {0} /\ Null \notin Address
      /\ Top \in Nat /\ pages \in Nat /\ MaxPages \in Nat /\ TagSize < PageSize
  BY Bounds, HeapAssumption DEF BlockInv
<1>1. n \in Nat /\ len >= size + TagSize /\ len \in Nat /\ n # 0
  <2> DEFINE v == size + TagSize + PageSize - 1
             r == v % PageSize
  <2>1. v \in Nat
    BY <1>0
  <2>2. n \in Nat /\ r \in 0..PageSize - 1 /\ v = PageSize * n + r
    <3> HIDE DEF v
    <3> QED BY <2>1, <1>0 DEF PagesFor, v
  <2> HIDE DEF r, n
  <2>3. len = PageSize * n /\ PageSize * n \in Nat
    BY <2>2, <1>0
  <2>4. PageSize * n >= size + TagSize
    BY <2>2, <2>3, <1>0
  <2>5. n # 0
    <3> SUFFICES ASSUME n = 0 PROVE FALSE
      OBVIOUS
    <3>1. PageSize * n = 0
      BY <1>0
    <3> QED BY <3>1, <2>4, <1>0
  <2> QED BY <2>2, <2>3, <2>4, <2>5
<1> HIDE DEF n, len
<1>2. len >= PageSize
  <2>1. PageSize * 0 + PageSize =< PageSize * n
    BY <1>0, <1>1, Times
  <2> QED BY <2>1, <1>0, <1>1 DEF len
<1>3. /\ pages' = pages + n /\ pages' \in 0..MaxPages
      /\ Top' = Top + len
  <2>1. pages' = pages + n /\ pages' \in 0..MaxPages
    BY <1>0, <1>1 DEF n
  <2>2. (pages + n + 1) * PageSize = (pages + 1) * PageSize + n * PageSize
    BY <1>0, <1>1
  <2>3. pages' + 1 = pages + n + 1
    BY <2>1, <1>0, <1>1
  <2> QED BY <2>1, <2>2, <2>3 DEF Top, len
<1>4. t = Top /\ Top \in Address
  <2>1. PageSize * (pages + 1) + PageSize =< PageSize * (MaxPages + 1)
    BY <1>0, <1>1, <1>3, Times
  <2>2. PageSize * 0 + PageSize =< PageSize * (pages + 1)
    BY <1>0, Times
  <2>3. Top = PageSize * (pages + 1)
    BY <1>0 DEF Top
  <2> DEFINE Last == PageSize * (MaxPages + 1)
  <2>4. Last \in Nat /\ Address = PageSize..Last - 1
    BY <1>0 DEF Address
  <2>5. Top + PageSize =< Last /\ PageSize =< Top
    BY <2>1, <2>2, <2>3, <1>0
  <2> HIDE DEF Last
  <2> QED BY <2>4, <2>5, <1>0 DEF Top
<1>5. pieces \subseteq Nat /\ \A a \in pieces : a < Top
  <2> SUFFICES ASSUME NEW a \in pieces PROVE a \in Nat /\ a < Top
    OBVIOUS
  <2>1. a \in Nat /\ a < End(a) /\ End(a) =< Top /\ End(a) \in pieces \cup {Top}
        /\ End(a) = a + real_size[a] /\ real_size[a] \in Nat
    BY PieceFacts
  <2> QED BY <2>1, <1>0
<1>6. t \notin pieces /\ pieces \subseteq Address /\ t \in Address /\ t \in Nat
  BY <1>0, <1>4, <1>5 DEF BlockInv
<1>7. \A a \in Address : real_size'[a] = IF a = t THEN len ELSE real_size[a]
  BY <1>6 DEF len, n, BlockInv
<1>8. /\ \A a \in pieces : End(a)' = End(a) /\ real_size'[a] = real_size[a]
      /\ End(t)' = Top' /\ Top' \in Nat /\ Top =< Top'
  BY <1>0, <1>1, <1>3, <1>4, <1>6, <1>7 DEF End
<1>9. split_left[t] = Null /\ split_right[t] = Null
  BY <1>6 DEF BlockInv
<1>10. Tiled'
  <2>1. ASSUME NEW u \in pieces'
        PROVE  /\ real_size'[u] >= TagSize
               /\ split_right'[u] # Null =>
                     split_right'[u] = End(u)' /\ split_left'[End(u)'] = u
               /\ split_left'[u] # Null => split_right'[split_left'[u]] = u
               /\ split_right'[u] = Null => End(u)' % PageSize = 0
               /\ End(u)' \in pieces' \cup {Top'} /\ End(u)' =< Top'
               /\ \A s \in pieces' : ~(u < s /\ s < End(u)')
    <3>1. CASE u = t
      <4>1. Top' % PageSize = 0
        <5>1. pages' + 1 \in Nat
          BY <1>0, <1>1, <1>3
        <5> QED BY <5>1, <1>0, Multiple DEF Top
      <4>2. \A s \in pieces' : ~(t < s)
        BY <1>4, <1>5, <1>6, <1>0
      <4>3. real_size'[t] >= TagSize
        BY <1>0, <1>1, <1>2, <1>6, <1>7
      <4> QED BY <3>1, <4>1, <4>2, <4>3, <1>8, <1>9
    <3>2. CASE u \in pieces
      <4>1. /\ real_size[u] >= TagSize /\ End(u) =< Top /\ End(u) \in pieces \cup {Top}
            /\ split_right[u] # Null => split_right[u] = End(u) /\ split_left[End(u)] = u
            /\ split_left[u] # Null => split_right[split_left[u]] = u
            /\ split_right[u] = Null => End(u) % PageSize = 0
            /\ \A s \in pieces : ~(u < s /\ s < End(u))
        BY <3>2, <1>0, PieceFacts
      <4>2. End(u)' = End(u) /\ End(u) \in Nat
        BY <4>1, <3>2, <1>0, <1>5, <1>8
      <4> QED BY <4>1, <4>2, <3>2, <1>0, <1>4, <1>6, <1>8
    <3> QED BY <3>1, <3>2
  <2>2. PageSize \in pieces'
    <3>1. CASE pages > 0
      BY <3>1 DEF BlockInv, Tiled
    <3>2. CASE pages = 0
      BY <3>2, <1>0
    <3> QED BY <3>1, <3>2, <1>0
  <2> QED BY <2>1, <2>2 DEF Tiled
<1>11. BlockInv'
  <2>1. real_size' \in [Address -> Nat]
    BY <1>1 DEF BlockInv, len, n
  <2>2. split_left' \in [Address -> Pointer'] /\ split_right' \in [Address -> Pointer']
    BY DEF BlockInv, Pointer
  <2> QED BY <2>1, <2>2, <1>3, <1>6, <1>10 DEF BlockInv
<1> QED BY <1>0, <1>1, <1>2, <1>6, <1>7, <1>11
-----------------------------------------------------------------------------
\* The calls.  Every lemma is about one step of malloc or free.

\* The whole blocks in a list, which l_completePages counts.
WholeIn(i) == {t \in pieces : index[t] = i /\ Whole(t)}

\* What the parts of the invariant say together about pieces and lists.
LEMMA HeapFacts ==
    ASSUME HeapInv
    PROVE  /\ Null \notin Address /\ TagSize \in Nat \ {0}
           /\ pieces \subseteq Address /\ pieces \subseteq Nat
           /\ MaxExp \in Nat \ {0} /\ MaxComplete \in Nat \ {0}
           /\ \A n \in Size \cup {KeySize, 0} : n \in Nat /\ ListFor(n) \in Exp
           /\ \A t \in pieces : /\ Usable(t) \in Nat /\ ListFor(Usable(t)) \in Exp
                                /\ t \in InLists <=> index[t] # -1
                                /\ index[t] \in -1..MaxExp - 1
                                /\ index[t] >= 0 <=> index[t] # -1
                                /\ split_left[t] \in Pointer /\ split_right[t] \in Pointer
           /\ \A i \in Exp : /\ IsFiniteSet(WholeIn(i))
                             /\ l_completePages[i] = Cardinality(WholeIn(i))
                             /\ l_completePages[i] \in 0..MaxComplete
           /\ -1 \notin Exp
<1>1. /\ Null \notin Address /\ TagSize \in Nat \ {0}
      /\ MaxExp \in Nat \ {0} /\ MaxComplete \in Nat \ {0} /\ BlockInv
  BY Bounds, HeapAssumption DEF HeapInv
<1>2. \A n \in Size \cup {KeySize, 0} : n \in Nat
  BY HeapAssumption
<1>3. \A n \in Size \cup {KeySize, 0} : ListFor(n) \in Exp
  BY <1>2, ListForType
<1>4. \A t \in pieces : t \in Address /\ t \in Nat /\ Usable(t) \in Nat
  <2> SUFFICES ASSUME NEW t \in pieces PROVE t \in Address /\ t \in Nat /\ Usable(t) \in Nat
    OBVIOUS
  <2>1. t \in Address /\ t \in Nat /\ real_size[t] \in Nat /\ TagSize =< real_size[t]
    BY <1>1, PieceFacts
  <2> QED BY <2>1, <1>1 DEF Usable
<1>5. \A t \in pieces : /\ ListFor(Usable(t)) \in Exp
                        /\ t \in InLists <=> index[t] # -1
                        /\ index[t] \in -1..MaxExp - 1
                        /\ index[t] >= 0 <=> index[t] # -1
                        /\ split_left[t] \in Pointer /\ split_right[t] \in Pointer
  <2>1. \A t \in pieces : ListFor(Usable(t)) \in Exp
    BY <1>4, ListForType
  <2>2. \A t \in pieces : index[t] \in -1..MaxExp - 1
    BY <1>4 DEF HeapInv, ListInv, ListTypes
  <2> QED BY <2>1, <2>2, <1>1, <1>4 DEF InLists, BlockInv
<1>6. IsFiniteSet(pieces)
  <2>1. IsFiniteSet(Address)
    <3>1. PageSize \in Int /\ PageSize * (MaxPages + 1) - 1 \in Int
      BY HeapAssumption
    <3> QED BY <3>1, FS_Interval DEF Address
  <2> QED BY <2>1, <1>1, FS_Subset DEF BlockInv
<1>7. \A i \in Exp : /\ IsFiniteSet(WholeIn(i))
                     /\ l_completePages[i] = Cardinality(WholeIn(i))
                     /\ l_completePages[i] \in 0..MaxComplete
  <2> SUFFICES ASSUME NEW i \in Exp
               PROVE  /\ IsFiniteSet(WholeIn(i))
                      /\ l_completePages[i] = Cardinality(WholeIn(i))
                      /\ l_completePages[i] \in 0..MaxComplete
    OBVIOUS
  <2>1. WholeIn(i) \subseteq pieces
    BY DEF WholeIn
  <2> QED BY <2>1, <1>6, FS_Subset DEF HeapInv, CompleteCounted, CallTypes, WholeIn
<1>8. -1 \notin Exp
  BY <1>1 DEF Exp
<1> QED BY <1>1, <1>2, <1>3, <1>4, <1>5, <1>7, <1>8

\* Steps that touch no tag.
LEMMA HeapSame ==
    ASSUME HeapInv, UNCHANGED heapVars
    PROVE  BlockInv' /\ ListInv' /\ Coalesced' /\ CompleteCounted'
<1>1. UNCHANGED <<pieces, real_size, split_left, split_right, index, next, prev, l_freePages,
                  l_completePages, pages>>
  BY DEF heapVars, blockVars, listVars
<1>2. BlockInv'
  <2>1. Tiled'
    BY <1>1 DEF HeapInv, BlockInv, Tiled, End, Top
  <2> QED BY <1>1, <2>1 DEF HeapInv, BlockInv, Pointer
<1>3. ListInv'
  BY <1>1 DEF HeapInv, ListInv, ListTypes, Linked, Reached, InLists, ClosedFor
<1>4. Coalesced' /\ CompleteCounted'
  BY <1>1 DEF HeapInv, Coalesced, CompleteCounted, IsFreeTag, Whole
<1> QED BY <1>2, <1>3, <1>4

\* malloc takes the lock and the head of a list.
LEMMA MallocKeeps ==
    ASSUME HeapInv, NEW n \in Size \cup {KeySize}, Malloc(n)
    PROVE  HeapInv'
<1> DEFINE h == l_freePages[ListFor(n)]
<1>0. UNCHANGED <<pieces, real_size, split_left, split_right, index, next, prev, l_freePages,
                  l_completePages, pages, owned>>
  BY DEF Malloc, heapVars, blockVars, listVars
<1>1. BlockInv' /\ ListInv' /\ Coalesced' /\ CompleteCounted'
  BY HeapSame DEF Malloc
<1>2. /\ op.at = "none" /\ lock' = TRUE
      /\ op' = [at |-> "search", size |-> n, tag |-> h]
  BY DEF Malloc, HeapInv, OpOK
<1>3. ListFor(n) \in Exp
  BY HeapFacts
<1>4. h # Null => h \in pieces /\ index[h] = ListFor(n)
  <2>1. h # Null => h \in Address /\ index[h] = ListFor(n)
    BY <1>3 DEF HeapInv, ListInv, ListTypes, Linked
  <2> QED BY <2>1, <1>3, HeapFacts DEF HeapInv, UseInv, InLists
<1>5. UseInv'
  <2>1. Current = {} /\ Current' = {}
    BY <1>2 DEF Current
  <2> QED BY <2>1, <1>0 DEF HeapInv, UseInv, InLists, Usable
<1>6. OpOK' /\ CallTypes'
  BY <1>0, <1>2, <1>4 DEF HeapInv, OpOK, CallTypes, Pointer
<1> QED BY <1>1, <1>5, <1>6 DEF HeapInv

\* free takes the lock and the piece of a region.
LEMMA FreeKeeps ==
    ASSUME HeapInv, NEW r \in owned, Free(r)
    PROVE  HeapInv'
<1> DEFINE t == r[1] - TagSize
<1>0. UNCHANGED <<pieces, real_size, split_left, split_right, index, next, prev, l_freePages,
                  l_completePages, pages>>
  BY DEF Free, heapVars, blockVars, listVars
<1>1. BlockInv' /\ ListInv' /\ Coalesced' /\ CompleteCounted'
  BY HeapSame DEF Free
<1>2. /\ op.at = "none" /\ lock' = TRUE /\ owned' = owned \ {r}
      /\ op' = [at |-> "free", size |-> 0, tag |-> t]
  BY DEF Free, HeapInv, OpOK
<1>3. /\ t \in pieces /\ r[1] \in Int /\ TagSize \in Nat /\ t # Null
      /\ \A s \in owned : s[1] \in Int
  <2>1. Address \subseteq Int
    BY HeapAssumption DEF Address
  <2> QED BY <2>1, HeapFacts DEF HeapInv, UseInv, CallTypes
<1>4. Current = {} /\ Current' = {t}
  BY <1>0, <1>2, <1>3 DEF Current
<1>5. UseInv'
  <2>1. ASSUME NEW u \in pieces
        PROVE  index[u] = -1 <=> u \in Current' \/ \E s \in owned' : s[1] = u + TagSize
    <3>1. u \in Int
      BY HeapFacts
    <3>2. index[u] = -1 <=> \E s \in owned : s[1] = u + TagSize
      BY <1>4 DEF HeapInv, UseInv
    <3>3. CASE u = t
      <4>1. r[1] = u + TagSize
        BY <3>3, <1>3
      <4> QED BY <3>2, <3>3, <4>1, <1>4
    <3>4. CASE u # t
      <4>1. r[1] # u + TagSize
        BY <3>1, <3>4, <1>3
      <4> QED BY <3>2, <3>4, <4>1, <1>2, <1>4
    <3> QED BY <3>3, <3>4
  <2>2. ASSUME NEW s \in owned'
        PROVE  /\ s[1] - TagSize \in pieces \ Current' /\ s[2] =< Usable(s[1] - TagSize)
               /\ \A q \in owned' : q[1] = s[1] => q = s
    <3>1. s \in owned /\ s # r
      BY <1>2
    <3>2. s[1] # r[1]
      BY <3>1 DEF HeapInv, UseInv
    <3>3. s[1] - TagSize # t
      BY <3>1, <3>2, <1>3
    <3> QED BY <3>1, <3>3, <1>2, <1>4 DEF HeapInv, UseInv
  <2>3. InLists' = InLists /\ \A x : Usable(x)' = Usable(x)
    BY <1>0 DEF InLists, Usable
  <2> QED BY <2>1, <2>2, <2>3, <1>0 DEF HeapInv, UseInv
<1>6. OpOK' /\ CallTypes'
  BY <1>0, <1>2, <1>3 DEF HeapInv, OpOK, CallTypes, Pointer
<1> QED BY <1>1, <1>5, <1>6 DEF HeapInv

\* malloc goes on to the next piece of the list, or the lock is given back.
LEMMA NextKeeps ==
    ASSUME HeapInv, NextTag \/ liballoc_unlock
    PROVE  HeapInv'
<1>0. UNCHANGED <<pieces, real_size, split_left, split_right, index, next, prev, l_freePages,
                  l_completePages, pages, owned>>
  BY DEF NextTag, liballoc_unlock, heapVars, blockVars, listVars
<1>1. BlockInv' /\ ListInv' /\ Coalesced' /\ CompleteCounted'
  BY HeapSame DEF NextTag, liballoc_unlock
<1>2. UseInv'
  <2>1. op.at \in {"none", "search"} /\ op'.at = op.at
    BY DEF NextTag, liballoc_unlock, At, HeapInv, CallTypes
  <2>2. Current = {} /\ Current' = {}
    BY <2>1 DEF Current
  <2> QED BY <2>2, <1>0 DEF HeapInv, UseInv, InLists, Usable
<1>3. OpOK' /\ CallTypes'
  <2>1. CASE liballoc_unlock
    BY <2>1, <1>0 DEF liballoc_unlock, At, HeapInv, OpOK, CallTypes, Pointer
  <2>2. CASE NextTag
    <3> DEFINE n == next[op.tag]
    <3>1. op.tag \in pieces /\ op.at = "search" /\ index[op.tag] = ListFor(op.size)
      BY <2>2 DEF NextTag, At, HeapInv, CallTypes, OpOK, Pointer
    <3>2. op' = [at |-> "search", size |-> op.size, tag |-> n] /\ UNCHANGED lock
      BY <2>2, <3>1 DEF NextTag, HeapInv, CallTypes
    <3>3. n # Null => n \in pieces /\ index[n] = ListFor(op.size)
      <4>1. n # Null => n \in Address /\ index[n] = ListFor(op.size)
        BY <3>1, HeapFacts DEF HeapInv, ListInv, ListTypes, Linked
      <4>2. ListFor(op.size) \in Exp /\ -1 \notin Exp
        BY HeapFacts DEF HeapInv, CallTypes
      <4> QED BY <4>1, <4>2 DEF HeapInv, UseInv, InLists
    <3> QED BY <3>1, <3>2, <3>3, <1>0 DEF HeapInv, CallTypes, OpOK, Pointer
  <2> QED BY <2>1, <2>2
<1> QED BY <1>1, <1>2, <1>3 DEF HeapInv

\* malloc takes the piece that is large enough out of its list.
LEMMA TakeKeeps == ASSUME HeapInv, Take PROVE HeapInv'
<1> DEFINE t == op.tag
           i == index[t]
<1>0. UNCHANGED <<pieces, real_size, split_left, split_right, pages, owned, lock>>
  BY DEF Take, blockVars
<1>1. /\ op.at = "search" /\ t \in pieces /\ i = ListFor(op.size) /\ i \in Exp /\ i # -1
      /\ t \in InLists /\ t \in Address /\ t # Null /\ op.size \in Size \cup {KeySize}
  <2>1. op.at = "search" /\ t \in pieces /\ i = ListFor(op.size)
    BY DEF Take, At, HeapInv, CallTypes, OpOK, Pointer
  <2> QED BY <2>1, HeapFacts DEF HeapInv, OpOK, CallTypes
<1>2. /\ remove_tag(t) /\ Fits(t, op.size)
      /\ op' = [at |-> "got", size |-> op.size, tag |-> t]
      /\ l_completePages' = [l_completePages EXCEPT ![i] = IF Whole(t) THEN @ - 1 ELSE @]
  BY <1>1 DEF Take, HeapInv, CallTypes
<1>3. ListInv' /\ index' = [index EXCEPT ![t] = -1]
  BY <1>1, <1>2, RemoveKeeps, HeapFacts DEF HeapInv
<1>4. /\ pieces \subseteq Address
      /\ \A a \in Address : index'[a] = IF a = t THEN -1 ELSE index[a]
  BY <1>3, HeapFacts DEF HeapInv, ListInv, ListTypes
<1>5. BlockInv'
  <2>1. Tiled'
    BY <1>0 DEF HeapInv, BlockInv, Tiled, End, Top
  <2> QED BY <1>0, <2>1 DEF HeapInv, BlockInv, Pointer
<1>6. Current = {} /\ Current' = {t}
  BY <1>0, <1>1, <1>2 DEF Current
<1>7. UseInv'
  <2>1. InLists' \subseteq pieces
    BY <1>4 DEF InLists, HeapInv, UseInv
  <2>2. \A r \in owned : r[1] - TagSize # t
    <3> SUFFICES ASSUME NEW r \in owned, r[1] - TagSize = t PROVE FALSE
      OBVIOUS
    <3>1. r[1] \in Int /\ TagSize \in Nat
      BY HeapAssumption DEF HeapInv, CallTypes, Address
    <3>2. r[1] = t + TagSize
      BY <3>1
    <3> QED BY <3>2, <1>1 DEF HeapInv, UseInv
  <2>3. \A u \in pieces : Usable(u)' = Usable(u)
    BY <1>0 DEF Usable
  <2>4. ASSUME NEW u \in pieces
        PROVE  /\ index'[u] = -1 <=> u \in Current' \/ \E r \in owned : r[1] = u + TagSize
               /\ index'[u] # -1 => index'[u] = ListFor(Usable(u))
    BY <1>4, <1>6 DEF HeapInv, UseInv
  <2>5. ASSUME NEW r \in owned
        PROVE  /\ r[1] - TagSize \in pieces \ Current' /\ r[2] =< Usable(r[1] - TagSize)
               /\ \A s \in owned : s[1] = r[1] => s = r
    BY <2>2, <1>6 DEF HeapInv, UseInv
  <2> QED BY <2>1, <2>3, <2>4, <2>5, <1>0 DEF UseInv
<1>8. Coalesced'
  <2>1. \A u \in Pointer : IsFreeTag(u)' => IsFreeTag(u)
    BY <1>4 DEF IsFreeTag, Pointer
  <2>2. \A u \in pieces : split_right'[u] = split_right[u] /\ split_right[u] \in Pointer
    BY <1>0, HeapFacts
  <2>3. \A u \in pieces : u \in Pointer
    BY DEF Pointer
  <2> QED BY <2>1, <2>2, <2>3, <1>0 DEF HeapInv, Coalesced, IsFreeTag
<1>9. CompleteCounted' /\ l_completePages' \in [Exp -> 0..MaxComplete]
  <2>1. ASSUME NEW j \in Exp
        PROVE  /\ l_completePages'[j] = Cardinality(WholeIn(j)')
               /\ l_completePages'[j] \in 0..MaxComplete
    <3>1. /\ IsFiniteSet(WholeIn(j)) /\ l_completePages[j] = Cardinality(WholeIn(j))
          /\ l_completePages[j] \in 0..MaxComplete
      BY HeapFacts
    <3>2. CASE j = i /\ Whole(t)
      <4>1. WholeIn(j)' = WholeIn(j) \ {t} /\ t \in WholeIn(j)
        BY <3>2, <1>0, <1>1, <1>4, HeapFacts DEF WholeIn, Whole
      <4>2. Cardinality(WholeIn(j) \ {t}) = Cardinality(WholeIn(j)) - 1
        BY <3>1, <4>1, FS_RemoveElement
      <4>3. Cardinality(WholeIn(j)) # 0
        BY <3>1, <4>1, FS_EmptySet
      <4>4. l_completePages'[j] = l_completePages[j] - 1
        BY <3>2, <1>2 DEF HeapInv, CallTypes
      <4> QED BY <3>1, <4>1, <4>2, <4>3, <4>4, HeapFacts
    <3>3. CASE ~(j = i /\ Whole(t))
      <4>1. WholeIn(j)' = WholeIn(j)
        BY <3>3, <1>0, <1>1, <1>4, HeapFacts DEF WholeIn, Whole
      <4>2. l_completePages'[j] = l_completePages[j]
        BY <3>3, <1>2 DEF HeapInv, CallTypes
      <4> QED BY <3>1, <4>1, <4>2
    <3> QED BY <3>2, <3>3
  <2>2. l_completePages' = [j \in Exp |-> l_completePages'[j]]
    BY <1>2 DEF HeapInv, CallTypes
  <2> QED BY <2>1, <2>2 DEF CompleteCounted, WholeIn
<1>10. OpOK'
  <2>1. op.size =< Usable(t) /\ Usable(t) > 0
    <3>1. op.size \in Nat /\ Usable(t) \in Nat /\ TagSize \in Nat \ {0}
      BY <1>1, HeapFacts
    <3> QED BY <3>1, <1>2 DEF Fits
  <2>2. ~IsFreeTag(split_right[t])
    <3>1. IsFreeTag(t)
      BY <1>1, HeapFacts DEF IsFreeTag
    <3> QED BY <3>1, <1>1 DEF HeapInv, Coalesced
  <2>3. ~IsFreeTag(split_right[t])'
    <3>1. split_right'[t] = split_right[t] /\ split_right[t] \in Pointer
      BY <1>0, <1>1, HeapFacts
    <3> QED BY <2>2, <3>1, <1>2, <1>4, HeapFacts DEF IsFreeTag, Pointer
  <2>4. Usable(t)' = Usable(t)
    BY <1>0, <1>2 DEF Usable
  <2>5. lock
    BY <1>1 DEF HeapInv, OpOK
  <2>6. op'.tag = t
    BY <1>2
  <2> QED BY <2>1, <2>3, <2>4, <2>5, <2>6, <1>0, <1>1, <1>2 DEF OpOK
<1>11. CallTypes'
  BY <1>0, <1>1, <1>2, <1>9 DEF HeapInv, CallTypes, Pointer
<1> QED BY <1>3, <1>5, <1>7, <1>8, <1>9, <1>10, <1>11 DEF HeapInv

\* malloc makes a piece of new pages.
LEMMA GrowHeapKeeps == ASSUME HeapInv, allocate_new_tag PROVE HeapInv'
<1> DEFINE t == (pages + 1) * PageSize
           n == PagesFor(op.size)
<1>0. UNCHANGED <<split_left, split_right, index, next, prev, l_freePages,
                  l_completePages, owned, lock>>
  BY DEF allocate_new_tag, listVars
<1>1. /\ op.at = "search" /\ op.size \in Size \cup {KeySize} /\ op.size \in Nat
  BY HeapFacts DEF allocate_new_tag, At, HeapInv, OpOK, CallTypes
<1>2. /\ op' = [at |-> "got", size |-> op.size, tag |-> t]
      /\ pieces' = pieces \cup {t} /\ pages' = pages + n
      /\ real_size' = [real_size EXCEPT ![t] = n * PageSize]
      /\ ~(pages + n > MaxPages)
  BY <1>1 DEF allocate_new_tag, Full, HeapInv, CallTypes
<1>3. pages + n =< MaxPages
  <2>1. pages \in Nat /\ MaxPages \in Nat /\ TagSize \in Nat /\ PageSize \in Nat \ {0}
    BY HeapAssumption DEF HeapInv, BlockInv
  <2>2. op.size + TagSize + PageSize - 1 \in Nat
    BY <1>1, <2>1
  <2>3. n \in Nat
    BY <2>1, <2>2 DEF PagesFor
  <2> QED BY <1>2, <2>1, <2>3
<1>4. /\ BlockInv' /\ t \in Address \ pieces
      /\ real_size'[t] \in Nat /\ real_size'[t] > TagSize
      /\ real_size'[t] - TagSize >= op.size
      /\ \A a \in pieces : real_size'[a] = real_size[a]
  <2> HIDE DEF t, n
  <2>1. BlockInv /\ t = (pages + 1) * PageSize /\ UNCHANGED <<split_left, split_right>>
    BY <1>0 DEF HeapInv, t
  <2> QED BY <2>1, <1>1, <1>2, <1>3, GrowKeeps DEF n
<1> HIDE DEF t, n
<1>5. /\ index[t] = -1 /\ split_left[t] = Null /\ split_right[t] = Null /\ t # Null
      /\ pieces \subseteq Address /\ t \in Address
  BY <1>4, HeapFacts DEF HeapInv, UseInv, InLists, BlockInv
<1>6. ListInv'
  BY <1>0 DEF HeapInv, ListInv, ListTypes, Linked, Reached, InLists, ClosedFor
<1>7. Current = {} /\ Current' = {t}
  BY <1>1, <1>2 DEF Current
<1>8. UseInv'
  <2>1. InLists' \subseteq pieces'
    BY <1>0, <1>2 DEF InLists, HeapInv, UseInv
  <2>2. \A u \in pieces : Usable(u)' = Usable(u)
    BY <1>4 DEF Usable
  <2>3. ASSUME NEW u \in pieces'
        PROVE  /\ index'[u] = -1 <=> u \in Current' \/ \E r \in owned' : r[1] = u + TagSize
               /\ index'[u] # -1 => index'[u] = ListFor(Usable(u))'
    <3>1. CASE u = t
      BY <3>1, <1>0, <1>5, <1>7
    <3>2. CASE u \in pieces
      <4>1. u # t /\ ListFor(Usable(u))' = ListFor(Usable(u))
        BY <3>2, <2>2, <1>4
      <4> QED BY <3>2, <4>1, <1>0, <1>7 DEF HeapInv, UseInv
    <3> QED BY <3>1, <3>2, <1>2
  <2>4. ASSUME NEW r \in owned
        PROVE  /\ r[1] - TagSize \in pieces' \ Current' /\ r[2] =< Usable(r[1] - TagSize)'
               /\ \A s \in owned : s[1] = r[1] => s = r
    BY <2>2, <1>2, <1>4, <1>7 DEF HeapInv, UseInv
  <2> QED BY <2>1, <2>3, <2>4, <1>0 DEF UseInv
<1>9. Coalesced'
  BY <1>0, <1>2, <1>5 DEF HeapInv, Coalesced, IsFreeTag
<1>10. CompleteCounted'
  <2>1. \A j \in Exp : WholeIn(j)' = WholeIn(j)
    BY <1>0, <1>2, <1>5, HeapFacts DEF WholeIn, Whole
  <2> QED BY <2>1, <1>0 DEF HeapInv, CompleteCounted, WholeIn
<1>11. OpOK'
  <2>1. op'.tag = t /\ op'.size = op.size /\ TagSize \in Nat
    BY <1>2, HeapFacts
  <2>3. op.size =< Usable(op.tag)' /\ Usable(op.tag)' > 0
    BY <2>1, <1>1, <1>4 DEF Usable
  <2>4. ~IsFreeTag(split_right[op.tag])'
    BY <2>1, <1>0, <1>5 DEF IsFreeTag
  <2>5. lock
    BY <1>1 DEF HeapInv, OpOK
  <2> QED BY <2>3, <2>4, <2>5, <1>0, <1>1, <1>2, <1>5 DEF OpOK
<1>12. CallTypes'
  BY <1>0, <1>1, <1>2 DEF HeapInv, CallTypes, Pointer
<1> QED BY <1>4, <1>6, <1>8, <1>9, <1>10, <1>11, <1>12 DEF HeapInv

\* The region that malloc is about to give out lies in its piece.
LEMMA GivenFacts ==
    ASSUME HeapInv, op.at = "got"
    PROVE  /\ op.tag \in pieces /\ op.tag \in Nat /\ op.tag # Null
           /\ op.size \in Size \cup {KeySize} /\ op.size \in Nat
           /\ op.tag + TagSize \in Address /\ Current = {op.tag} /\ index[op.tag] = -1
           /\ op.size =< Usable(op.tag) /\ real_size[op.tag] \in Nat
           /\ ~IsFreeTag(split_right[op.tag])
<1>1. /\ op.tag \in pieces /\ op.tag # Null /\ op.size \in Size \cup {KeySize}
      /\ op.size =< Usable(op.tag) /\ Usable(op.tag) > 0
      /\ ~IsFreeTag(split_right[op.tag])
  BY DEF HeapInv, OpOK, CallTypes, Pointer
<1>2. op.tag \in Nat /\ op.size \in Nat /\ Usable(op.tag) \in Nat /\ TagSize \in Nat
  BY <1>1, HeapFacts
<1>3. /\ real_size[op.tag] \in Nat /\ End(op.tag) = op.tag + real_size[op.tag]
      /\ End(op.tag) =< Top /\ PageSize =< op.tag /\ BlockInv
  BY <1>1, PieceFacts DEF HeapInv
<1>4. op.tag + TagSize \in Address
  <2>1. op.tag + TagSize \in Int /\ PageSize =< op.tag + TagSize /\ op.tag + TagSize < Top
    BY <1>1, <1>2, <1>3, Bounds DEF Usable
  <2> QED BY <2>1, <1>3, Bounds
<1>5. Current = {op.tag}
  BY <1>1 DEF Current
<1>6. index[op.tag] = -1
  BY <1>1, <1>5 DEF HeapInv, UseInv
<1> QED BY <1>1, <1>2, <1>3, <1>4, <1>5, <1>6

\* Whose piece a region is in, if malloc or free has another one in its hands.
LEMMA OwnedFacts ==
    ASSUME HeapInv
    PROVE  \A r \in owned :
              /\ r[1] \in Int /\ r[1] - TagSize \in pieces \ Current
              /\ index[r[1] - TagSize] = -1
              /\ \A t \in pieces : r[1] = t + TagSize <=> r[1] - TagSize = t
<1> SUFFICES ASSUME NEW r \in owned
             PROVE  /\ r[1] \in Int /\ r[1] - TagSize \in pieces \ Current
                    /\ index[r[1] - TagSize] = -1
                    /\ \A t \in pieces : r[1] = t + TagSize <=> r[1] - TagSize = t
  OBVIOUS
<1>1. r[1] \in Int /\ TagSize \in Nat
  BY HeapAssumption DEF HeapInv, CallTypes, Address
<1>2. r[1] - TagSize \in pieces \ Current
  BY DEF HeapInv, UseInv
<1>3. pieces \subseteq Nat
  BY HeapFacts
<1>4. \A t \in pieces : r[1] = t + TagSize <=> r[1] - TagSize = t
  BY <1>1, <1>3
<1>5. index[r[1] - TagSize] = -1
  BY <1>2, <1>4 DEF HeapInv, UseInv
<1> QED BY <1>1, <1>2, <1>4, <1>5

\* malloc gives out a piece, and keeps what is left of it as a free one.
LEMMA GiveKeeps == ASSUME HeapInv, Give PROVE HeapInv'
<1>1. PICK t : t = op.tag
  OBVIOUS
<1>2. PICK size : size = op.size
  OBVIOUS
<1>3. /\ op.at = "got" /\ t \in pieces /\ t \in Nat /\ t # Null
      /\ size \in Size \cup {KeySize} /\ size \in Nat
      /\ t + TagSize \in Address /\ Current = {t} /\ index[t] = -1
      /\ size =< Usable(t) /\ real_size[t] \in Nat /\ ~IsFreeTag(split_right[t])
  <2>1. op.at = "got"
    BY DEF Give, At
  <2> QED BY <2>1, <1>1, <1>2, GivenFacts
<1>4. /\ UNCHANGED <<l_completePages, pages, lock>> /\ op' = NoOp
      /\ owned' = owned \cup {<<t + TagSize, size>>}
  BY <1>1, <1>2 DEF Give
<1>5. Current' = {}
  BY <1>4 DEF Current, NoOp
<1>6. OpOK' /\ CallTypes'
  <2>1. OpOK'
    BY <1>4 DEF OpOK, NoOp
  <2> QED BY <2>1, <1>3, <1>4 DEF HeapInv, CallTypes, NoOp, Pointer
<1>7. \A r \in owned : r[1] \in Int /\ r[1] - TagSize \in pieces \ {t} /\ r[1] # t + TagSize
  BY <1>3, OwnedFacts
<1>8. TagSize \in Nat \ {0} /\ pieces \subseteq Address /\ pieces \subseteq Nat
  BY HeapFacts
<1>9. \E r \in owned' : r[1] = t + TagSize
  <2>1. <<t + TagSize, size>> \in owned' /\ <<t + TagSize, size>>[1] = t + TagSize
    BY <1>4
  <2> QED BY <2>1
<1>10. CASE UNCHANGED <<blockVars, listVars>>
  <2>1. BlockInv' /\ ListInv' /\ Coalesced' /\ CompleteCounted'
    BY <1>4, <1>10, HeapSame DEF heapVars
  <2>2. UNCHANGED <<pieces, real_size, index>>
    BY <1>10 DEF blockVars, listVars
  <2>3. InLists' = InLists /\ \A u \in pieces : Usable(u)' = Usable(u)
    BY <2>2 DEF InLists, Usable
  <2>4. ASSUME NEW u \in pieces
        PROVE  index[u] = -1 <=> \E r \in owned' : r[1] = u + TagSize
    <3>1. CASE u = t
      BY <3>1, <1>3, <1>9
    <3>2. CASE u # t
      <4>1. u + TagSize # t + TagSize
        BY <3>2, <1>3, <1>8
      <4> QED BY <3>2, <4>1, <1>3, <1>4 DEF HeapInv, UseInv
    <3> QED BY <3>1, <3>2
  <2>5. ASSUME NEW r \in owned'
        PROVE  /\ r[1] - TagSize \in pieces /\ r[2] =< Usable(r[1] - TagSize)
               /\ \A s \in owned' : s[1] = r[1] => s = r
    <3>1. CASE r \in owned
      BY <3>1, <1>4, <1>7 DEF HeapInv, UseInv
    <3>2. CASE r = <<t + TagSize, size>>
      <4>1. r[1] = t + TagSize /\ r[1] - TagSize = t /\ r[2] = size
        BY <3>2, <1>3, <1>8
      <4> QED BY <3>2, <4>1, <1>3, <1>4, <1>7
    <3> QED BY <3>1, <3>2, <1>4
  <2>6. UseInv'
    BY <2>2, <2>3, <2>4, <2>5, <1>5 DEF HeapInv, UseInv
  <2> QED BY <2>1, <2>6, <1>6 DEF HeapInv
<1>11. CASE real_size[t] - size - 2 * TagSize > 0 /\ split_tag(t, size)
  <2>1. PICK new : new = t + TagSize + size
    OBVIOUS
  <2>2. /\ BlockInv'
        /\ new \in Address \ pieces /\ new # t /\ pieces' = pieces \cup {new}
        /\ split_right'[t] = new /\ split_right'[new] = split_right[t]
        /\ split_left'[new] = t
        /\ real_size'[t] = TagSize + size
        /\ real_size'[new] = real_size[t] - TagSize - size
        /\ \A a \in pieces \ {t} :
              /\ real_size'[a] = real_size[a] /\ split_right'[a] = split_right[a]
              /\ Whole(a)' <=> Whole(a)
    BY <1>3, <1>4, <1>11, <2>1, SplitKeeps DEF HeapInv
  <2>3. index[new] = -1 /\ new # Null /\ new \in Nat
    BY <2>1, <2>2, <1>3, <1>8, HeapFacts DEF HeapInv, UseInv, InLists
  <2>4. PICK i : i = ListFor(real_size[t] - TagSize - size - TagSize)
    OBVIOUS
  <2>5. i \in Exp
    <3>1. real_size[t] - TagSize - size - TagSize \in Int
      BY <1>3, <1>8
    <3> QED BY <2>4, <3>1, ListForType
  <2>6. insert_tag(new, i)
    BY <2>1, <2>4, <1>11 DEF split_tag
  <2>7. ListInv' /\ index' = [index EXCEPT ![new] = i]
    BY <2>2, <2>3, <2>5, <2>6, HeapFacts, InsertKeeps DEF HeapInv
  <2>8. /\ \A a \in Address : index'[a] = IF a = new THEN i ELSE index[a]
        /\ i # -1
    BY <2>5, <2>7, HeapFacts DEF HeapInv, ListInv, ListTypes
  <2>9. /\ Usable(new)' = real_size[t] - TagSize - size - TagSize
        /\ Usable(t)' = size
        /\ \A u \in pieces \ {t} : Usable(u)' = Usable(u)
    BY <2>2, <1>3, <1>8 DEF Usable
  <2>10. UseInv'
    <3>1. InLists' \subseteq pieces'
      BY <2>2, <2>8 DEF HeapInv, UseInv, InLists
    <3>2. ASSUME NEW u \in pieces'
          PROVE  /\ index'[u] = -1 <=> \E r \in owned' : r[1] = u + TagSize
                 /\ index'[u] # -1 => index'[u] = ListFor(Usable(u)')
      <4>1. CASE u = new
        <5>1. \A r \in owned' : r[1] # new + TagSize
          BY <2>2, <2>3, <1>3, <1>4, <1>7, <1>8
        <5> QED BY <4>1, <5>1, <2>2, <2>4, <2>8, <2>9
      <4>2. CASE u = t
        BY <4>2, <2>2, <2>8, <1>3, <1>8, <1>9
      <4>3. CASE u \in pieces \ {t}
        <5>1. u + TagSize # t + TagSize /\ u # new /\ u \in Address
          BY <4>3, <2>2, <1>3, <1>8
        <5> QED BY <4>3, <5>1, <2>8, <2>9, <1>3, <1>4 DEF HeapInv, UseInv
      <4> QED BY <4>1, <4>2, <4>3, <2>2
    <3>3. ASSUME NEW r \in owned'
          PROVE  /\ r[1] - TagSize \in pieces' /\ r[2] =< Usable(r[1] - TagSize)'
                 /\ \A s \in owned' : s[1] = r[1] => s = r
      <4>1. CASE r \in owned
        <5>1. r[1] - TagSize \in pieces \ {t} /\ r[2] =< Usable(r[1] - TagSize)
          BY <4>1, <1>7 DEF HeapInv, UseInv
        <5>2. real_size'[r[1] - TagSize] = real_size[r[1] - TagSize]
          BY <5>1, <2>2
        <5>3. r[2] =< Usable(r[1] - TagSize)'
          BY <5>1, <5>2 DEF Usable
        <5> QED BY <4>1, <5>1, <5>3, <2>2, <1>4, <1>7 DEF HeapInv, UseInv
      <4>2. CASE r = <<t + TagSize, size>>
        <5>1. r[1] = t + TagSize /\ r[1] - TagSize = t /\ r[2] = size
          BY <4>2, <1>3, <1>8
        <5>2. r[2] =< Usable(r[1] - TagSize)'
          BY <5>1, <2>2, <1>3, <1>8 DEF Usable
        <5> QED BY <4>2, <5>1, <5>2, <2>2, <1>3, <1>4, <1>7
      <4> QED BY <4>1, <4>2, <1>4
    <3> QED BY <3>1, <3>2, <3>3, <1>5 DEF UseInv
  <2>11. Coalesced'
    <3> SUFFICES ASSUME NEW u \in pieces', IsFreeTag(u)', IsFreeTag(split_right[u])'
                 PROVE  FALSE
      BY DEF Coalesced
    <3>1. CASE u = t
      BY <3>1, <2>2, <2>8, <1>3, <1>8 DEF IsFreeTag
    <3>2. CASE u = new
      <4>1. split_right'[u] = split_right[t] /\ split_right[t] \in Pointer
        BY <3>2, <2>2, <1>3, HeapFacts
      <4>2. split_right[t] # new
        BY <4>1, <2>2, <2>3 DEF Pointer
      <4> QED BY <4>1, <4>2, <2>8, <1>3, <1>8 DEF IsFreeTag, Pointer
    <3>3. CASE u \in pieces \ {t}
      <4>1. split_right'[u] = split_right[u] /\ split_right[u] \in Pointer
        BY <3>3, <2>2, HeapFacts
      <4>2. split_right[u] # new /\ u # new
        BY <3>3, <4>1, <2>2, <2>3 DEF Pointer
      <4>3. IsFreeTag(u) /\ IsFreeTag(split_right[u])
        BY <4>1, <4>2, <3>3, <2>8, <1>8 DEF IsFreeTag, Pointer
      <4> QED BY <3>3, <4>3 DEF HeapInv, Coalesced
    <3> QED BY <3>1, <3>2, <3>3, <2>2
  <2>12. CompleteCounted'
    <3>1. ASSUME NEW j \in Exp PROVE WholeIn(j)' = WholeIn(j)
      <4>1. j # -1
        BY HeapFacts
      <4>2. ~Whole(new)'
        BY <2>2, <1>3 DEF Whole
      <4>3. ASSUME NEW u \in pieces \ {t} PROVE u \in WholeIn(j)' <=> u \in WholeIn(j)
        BY <2>2, <2>8, <1>8 DEF WholeIn
      <4>4. t \notin WholeIn(j)' /\ t \notin WholeIn(j)
        BY <4>1, <2>2, <2>8, <1>3, <1>8 DEF WholeIn
      <4>5. new \notin WholeIn(j)' /\ new \notin WholeIn(j)
        BY <4>2, <2>2 DEF WholeIn
      <4>6. WholeIn(j) \subseteq pieces /\ WholeIn(j)' \subseteq pieces'
        BY DEF WholeIn
      <4> HIDE DEF WholeIn
      <4> QED BY <4>3, <4>4, <4>5, <4>6, <2>2
    <3> QED BY <3>1, <1>4 DEF HeapInv, CompleteCounted, WholeIn
  <2> QED BY <2>2, <2>7, <2>10, <2>11, <2>12, <1>6 DEF HeapInv
<1> QED BY <1>1, <1>2, <1>10, <1>11 DEF Give

\* free joins its piece with a free neighbour, on either side.
LEMMA JoinHeapKeeps ==
    ASSUME HeapInv, op.at = "free", NEW left \in pieces, NEW right \in pieces, NEW f \in InLists,
           split_right[left] = right, {left, right} = {op.tag, f},
           Join(left, right), remove_tag(f),
           op' = [at |-> "free", size |-> op.size, tag |-> left],
           UNCHANGED <<l_completePages, pages, owned, lock>>
    PROVE  HeapInv'
<1>1. /\ BlockInv'
      /\ left # right /\ split_left[right] = left /\ pieces' = pieces \ {right}
      /\ split_right'[left] = split_right[right]
      /\ \A a \in pieces \ {left, right} :
            /\ real_size'[a] = real_size[a] /\ split_right'[a] = split_right[a]
            /\ Whole(a)' <=> Whole(a)
  BY JoinKeeps DEF HeapInv
<1>2. ListInv' /\ index' = [index EXCEPT ![f] = -1]
  BY RemoveKeeps, HeapFacts DEF HeapInv
<1>3. /\ pieces \subseteq Address /\ left # Null /\ right # Null
      /\ \A a \in Address : index'[a] = IF a = f THEN -1 ELSE index[a]
  BY <1>2, HeapFacts DEF HeapInv, ListInv, ListTypes
<1>4. /\ op.tag \in pieces /\ f \in pieces /\ op.tag # f /\ Current = {op.tag}
      /\ index[op.tag] = -1 /\ index[f] # -1
  <2>1. op.tag \in pieces /\ f \in pieces /\ op.tag # f
    BY <1>1
  <2>2. Current = {op.tag}
    BY <2>1 DEF Current
  <2> QED BY <2>1, <2>2 DEF HeapInv, UseInv, InLists
<1>5. /\ index'[left] = -1 /\ index'[right] = -1
      /\ \A a \in pieces \ {left, right} : index'[a] = index[a]
  BY <1>1, <1>3, <1>4
<1>6. Current' = {left}
  BY <1>1 DEF Current
<1>7. \A r \in owned : /\ r[1] - TagSize \in pieces \ {left, right}
                       /\ r[1] # left + TagSize /\ r[1] # right + TagSize
  BY <1>4, OwnedFacts
<1>8. \A u \in pieces \ {left, right} : Usable(u)' = Usable(u)
  BY <1>1 DEF Usable
<1>9. UseInv'
  <2>1. InLists' \subseteq pieces'
    BY <1>1, <1>3, <1>5 DEF HeapInv, UseInv, InLists
  <2>2. ASSUME NEW u \in pieces'
        PROVE  /\ index'[u] = -1 <=> u \in Current' \/ \E r \in owned' : r[1] = u + TagSize
               /\ index'[u] # -1 => index'[u] = ListFor(Usable(u)')
    <3>1. CASE u = left
      BY <3>1, <1>5, <1>6
    <3>2. CASE u # left
      <4>1. u \in pieces \ {left, right} /\ u \notin Current /\ u \notin Current'
        BY <3>2, <1>1, <1>4, <1>6
      <4> QED BY <4>1, <1>5, <1>8 DEF HeapInv, UseInv
    <3> QED BY <3>1, <3>2
  <2>3. ASSUME NEW r \in owned'
        PROVE  /\ r[1] - TagSize \in pieces' \ Current' /\ r[2] =< Usable(r[1] - TagSize)'
               /\ \A s \in owned' : s[1] = r[1] => s = r
    <3>1. r \in owned /\ r[1] - TagSize \in pieces \ {left, right}
      BY <1>7
    <3>2. r[2] =< Usable(r[1] - TagSize)'
      <4>1. real_size'[r[1] - TagSize] = real_size[r[1] - TagSize]
        BY <3>1, <1>1
      <4>2. r[2] =< Usable(r[1] - TagSize)
        BY <3>1 DEF HeapInv, UseInv
      <4> QED BY <4>1, <4>2 DEF Usable
    <3> QED BY <3>1, <3>2, <1>1, <1>6 DEF HeapInv, UseInv
  <2> QED BY <2>1, <2>2, <2>3 DEF UseInv
<1>10. Coalesced'
  <2> SUFFICES ASSUME NEW u \in pieces', IsFreeTag(u)', IsFreeTag(split_right[u])'
               PROVE  FALSE
    BY DEF Coalesced
  <2>1. CASE u = left
    BY <2>1, <1>5 DEF IsFreeTag
  <2>2. CASE u # left
    <3>1. /\ u \in pieces \ {left, right} /\ split_right'[u] = split_right[u]
          /\ split_right[u] \in Pointer
      BY <2>2, <1>1, HeapFacts
    <3>2. index'[split_right[u]] = index[split_right[u]]
      <4>1. split_right[u] # Null /\ index'[split_right[u]] >= 0
        BY <3>1 DEF IsFreeTag
      <4>2. split_right[u] \in pieces \ {left, right}
        BY <4>1, <3>1, <1>5 DEF Pointer
      <4> QED BY <4>2, <1>5
    <3> QED BY <3>1, <3>2, <1>5 DEF HeapInv, Coalesced, IsFreeTag
  <2> QED BY <2>1, <2>2
<1>11. CompleteCounted'
  <2>1. ASSUME NEW j \in Exp PROVE WholeIn(j)' = WholeIn(j)
    <3>1. ~Whole(left) /\ ~Whole(right) /\ j # -1
      BY <1>1, <1>3, HeapFacts DEF Whole
    <3>2. \A u \in pieces \ {left, right} : u \in WholeIn(j)' <=> u \in WholeIn(j)
      BY <1>1, <1>5 DEF WholeIn
    <3>3. /\ left \notin WholeIn(j)' /\ right \notin WholeIn(j)'
          /\ left \notin WholeIn(j) /\ right \notin WholeIn(j)
      BY <3>1, <1>5 DEF WholeIn
    <3>4. WholeIn(j) \subseteq pieces /\ WholeIn(j)' \subseteq pieces'
      BY DEF WholeIn
    <3> QED BY <3>2, <3>3, <3>4, <1>1
  <2> QED BY <2>1 DEF HeapInv, CompleteCounted, WholeIn
<1>12. OpOK' /\ CallTypes'
  BY <1>1, <1>3 DEF HeapInv, OpOK, CallTypes, Pointer
<1> QED BY <1>1, <1>2, <1>9, <1>10, <1>11, <1>12 DEF HeapInv

\* The two loops of free.
LEMMA MeltKeeps == ASSUME HeapInv, MeltLeft \/ AbsorbRight PROVE HeapInv'
<1>1. PICK t : t = op.tag
  OBVIOUS
<1>2. op.at = "free" /\ t \in pieces
  BY <1>1 DEF MeltLeft, AbsorbRight, At, HeapInv, OpOK, CallTypes, Pointer
<1>3. /\ BlockInv /\ split_left[t] \in Pointer /\ split_right[t] \in Pointer
      /\ \A u \in pieces : index[u] >= 0 => u \in InLists
  BY <1>2, HeapFacts DEF HeapInv
<1>4. CASE MeltLeft
  <2>1. PICK l : l = split_left[t]
    OBVIOUS
  <2>2. /\ IsFreeTag(l) /\ Join(l, t) /\ remove_tag(l)
        /\ op' = [at |-> "free", size |-> op.size, tag |-> l]
        /\ UNCHANGED <<l_completePages, pages, owned, lock>>
    BY <1>1, <1>2, <1>4, <2>1 DEF MeltLeft, HeapInv, CallTypes
  <2>3. l \in pieces /\ l \in InLists /\ l # Null
    BY <2>1, <2>2, <1>3 DEF IsFreeTag, Pointer
  <2>4. split_right[l] = t
    BY <2>1, <2>3, <1>2, <1>3, PieceFacts
  <2> QED BY <1>1, <1>2, <2>2, <2>3, <2>4, JoinHeapKeeps
<1>5. CASE AbsorbRight
  <2>1. PICK r : r = split_right[t]
    OBVIOUS
  <2>2. /\ IsFreeTag(r) /\ Join(t, r) /\ remove_tag(r)
        /\ op' = op /\ op = [at |-> "free", size |-> op.size, tag |-> t]
        /\ UNCHANGED <<l_completePages, pages, owned, lock>>
    BY <1>1, <1>2, <1>5, <2>1 DEF AbsorbRight, HeapInv, CallTypes
  <2>3. r \in pieces /\ r \in InLists
    BY <2>1, <2>2, <1>3 DEF IsFreeTag, Pointer
  <2> QED BY <1>1, <1>2, <2>1, <2>2, <2>3, JoinHeapKeeps
<1> QED BY <1>4, <1>5

\* free puts its piece into a list, or stops there.
LEMMA InsertHeapKeeps == ASSUME HeapInv, Insert PROVE HeapInv'
<1>1. PICK t : t = op.tag
  OBVIOUS
<1>2. PICK i : i = ListFor(Usable(t))
  OBVIOUS
<1>3. /\ op.at = "free" /\ t \in pieces /\ t # Null /\ Current = {t} /\ index[t] = -1
      /\ lock
  <2>1. op.at = "free" /\ t \in pieces /\ t # Null /\ lock
    BY <1>1 DEF Insert, At, HeapInv, OpOK, CallTypes, Pointer
  <2>2. Current = {t}
    BY <2>1, <1>1 DEF Current
  <2> QED BY <2>1, <2>2 DEF HeapInv, UseInv
<1>4. i \in Exp /\ i # -1 /\ i >= 0 /\ pieces \subseteq Address /\ pieces \subseteq Nat
      /\ Null \notin Address
  BY <1>2, <1>3, HeapFacts DEF Exp
<1>5. /\ UNCHANGED <<pieces, real_size, split_left, split_right, pages, owned, lock>>
      /\ ~IsFreeTag(split_left[t]) /\ ~IsFreeTag(split_right[t])
  BY <1>1 DEF Insert, blockVars
<1>6. BlockInv'
  <2>1. Tiled'
    BY <1>5 DEF HeapInv, BlockInv, Tiled, End, Top
  <2> QED BY <1>5, <2>1 DEF HeapInv, BlockInv, Pointer
<1>7. CASE op' = [op EXCEPT !.at = "full"] /\ UNCHANGED <<listVars, l_completePages>>
  <2>1. /\ UNCHANGED <<index, next, prev, l_freePages, l_completePages>>
        /\ op' = [at |-> "full", size |-> op.size, tag |-> t]
    BY <1>1, <1>7 DEF listVars, HeapInv, CallTypes
  <2>2. ListInv' /\ Coalesced' /\ CompleteCounted'
    BY <1>5, <2>1, HeapSame DEF heapVars, blockVars, listVars
  <2>3. Current' = Current
    BY <2>1, <1>3, <1>5 DEF Current
  <2>4. UseInv'
    BY <2>1, <2>3, <1>5 DEF HeapInv, UseInv, InLists, Usable
  <2>5. OpOK' /\ CallTypes'
    BY <2>1, <1>3, <1>5 DEF HeapInv, OpOK, CallTypes, Pointer
  <2> QED BY <2>2, <2>4, <2>5, <1>6 DEF HeapInv
<1>8. CASE /\ ~(Whole(t) /\ l_completePages[i] = MaxComplete)
           /\ l_completePages' = [l_completePages EXCEPT ![i] = IF Whole(t) THEN @ + 1 ELSE @]
           /\ insert_tag(t, i) /\ op' = NoOp
  <2>1. ListInv' /\ index' = [index EXCEPT ![t] = i]
    BY <1>3, <1>4, <1>8, InsertKeeps DEF HeapInv
  <2>2. \A a \in Address : index'[a] = IF a = t THEN i ELSE index[a]
    BY <2>1 DEF HeapInv, ListInv, ListTypes
  <2>3. Current' = {}
    BY <1>8 DEF Current, NoOp
  <2>4. UseInv'
    <3>1. InLists' \subseteq pieces'
      BY <2>2, <1>3, <1>5 DEF HeapInv, UseInv, InLists
    <3>2. \A u \in pieces : Usable(u)' = Usable(u)
      BY <1>5 DEF Usable
    <3>3. \A r \in owned : r[1] # t + TagSize
      BY <1>3, OwnedFacts
    <3>4. ASSUME NEW u \in pieces
          PROVE  /\ index'[u] = -1 <=> \E r \in owned : r[1] = u + TagSize
                 /\ index'[u] # -1 => index'[u] = ListFor(Usable(u))
      <4>1. CASE u = t
        BY <4>1, <2>2, <3>3, <1>2, <1>3, <1>4
      <4>2. CASE u # t
        BY <4>2, <2>2, <1>3, <1>4 DEF HeapInv, UseInv
      <4> QED BY <4>1, <4>2
    <3> QED BY <3>1, <3>2, <3>4, <2>3, <1>5 DEF HeapInv, UseInv
  <2>5. Coalesced'
    <3> SUFFICES ASSUME NEW u \in pieces, IsFreeTag(u)', IsFreeTag(split_right[u])'
                 PROVE  FALSE
      BY <1>5 DEF Coalesced
    <3>1. split_right'[u] = split_right[u] /\ split_right[u] \in pieces /\ u \in Address
          /\ split_right[u] \in Address
      BY <1>4, <1>5, HeapFacts DEF IsFreeTag, Pointer
    <3>2. BlockInv /\ u # Null /\ split_right[u] # Null
      BY <3>1, <1>4 DEF HeapInv
    <3>3. split_right[u] = End(u) /\ split_left[End(u)] = u /\ u < End(u)
      BY <3>2, PieceFacts
    <3>4. CASE u = t
      <4>1. split_right[u] # t
        BY <3>3, <3>4, <1>3, <1>4
      <4> QED BY <4>1, <3>1, <3>2, <3>4, <2>2, <1>5 DEF IsFreeTag
    <3>5. CASE u # t /\ split_right[u] = t
      <4>1. split_left[t] = u
        BY <3>3, <3>5
      <4> QED BY <4>1, <3>1, <3>2, <3>5, <2>2, <1>5 DEF IsFreeTag
    <3>6. CASE u # t /\ split_right[u] # t
      BY <3>6, <3>1, <2>2 DEF IsFreeTag, HeapInv, Coalesced
    <3> QED BY <3>4, <3>5, <3>6
  <2>6. CompleteCounted' /\ l_completePages' \in [Exp -> 0..MaxComplete]
    <3>1. ASSUME NEW j \in Exp
          PROVE  /\ l_completePages'[j] = Cardinality(WholeIn(j)')
                 /\ l_completePages'[j] \in 0..MaxComplete
      <4>1. /\ IsFiniteSet(WholeIn(j)) /\ l_completePages[j] = Cardinality(WholeIn(j))
            /\ l_completePages[j] \in 0..MaxComplete /\ MaxComplete \in Nat /\ j # -1
        BY HeapFacts
      <4>2. CASE j = i /\ Whole(t)
        <5>1. WholeIn(j)' = WholeIn(j) \cup {t} /\ t \notin WholeIn(j)
          BY <4>1, <4>2, <2>2, <1>3, <1>4, <1>5 DEF WholeIn, Whole
        <5>2. Cardinality(WholeIn(j) \cup {t}) = Cardinality(WholeIn(j)) + 1
          BY <4>1, <5>1, FS_AddElement
        <5>3. l_completePages'[j] = l_completePages[j] + 1
          BY <4>2, <1>8 DEF HeapInv, CallTypes
        <5>4. l_completePages[j] # MaxComplete
          BY <4>2, <1>8
        <5> QED BY <4>1, <5>1, <5>2, <5>3, <5>4
      <4>3. CASE ~(j = i /\ Whole(t))
        <5>1. WholeIn(j)' = WholeIn(j)
          BY <4>1, <4>3, <2>2, <1>3, <1>4, <1>5 DEF WholeIn, Whole
        <5>2. l_completePages'[j] = l_completePages[j]
          BY <4>3, <1>4, <1>8 DEF HeapInv, CallTypes
        <5> QED BY <4>1, <5>1, <5>2
      <4> QED BY <4>2, <4>3
    <3>2. l_completePages' = [j \in Exp |-> l_completePages'[j]]
      BY <1>8 DEF HeapInv, CallTypes
    <3> QED BY <3>1, <3>2 DEF CompleteCounted, WholeIn
  <2>7. OpOK' /\ CallTypes'
    BY <2>6, <1>5, <1>8 DEF HeapInv, OpOK, CallTypes, NoOp, Pointer
  <2> QED BY <2>1, <2>4, <2>5, <2>6, <2>7, <1>6 DEF HeapInv
<1> QED BY <1>1, <1>2, <1>7, <1>8 DEF Insert
-----------------------------------------------------------------------------
\* At first the heap is empty and has no pages.
LEMMA InitKeeps == Init => HeapInv /\ KeyTypes
<1> SUFFICES ASSUME Init PROVE HeapInv /\ KeyTypes
  OBVIOUS
<1>0. /\ Null \notin Address /\ PageSize \in Nat \ {0} /\ MaxPages \in Nat
      /\ MaxExp \in Nat \ {0} /\ MaxComplete \in Nat
  BY HeapAssumption DEF Address, Null
<1>1. BlockInv
  BY <1>0 DEF Init, BlockInv, Tiled, Pointer
<1>2. InLists = {} /\ Current = {}
  BY DEF Init, InLists, Current
<1>3. ListInv
  <2>1. ListTypes
    BY <1>0 DEF Init, ListTypes
  <2>2. Linked
    BY <1>0 DEF Init, Linked
  <2>3. Reached
    BY <1>2 DEF Reached
  <2> QED BY <2>1, <2>2, <2>3 DEF ListInv
<1>4. UseInv /\ Coalesced
  BY <1>2 DEF Init, UseInv, Coalesced
<1>5. CompleteCounted
  <2>1. \A i \in Exp : {t \in pieces : index[t] = i /\ Whole(t)} = {}
    BY DEF Init
  <2> QED BY <2>1, FS_EmptySet DEF Init, CompleteCounted
<1>6. OpOK /\ CallTypes /\ KeyTypes
  <2>1. op = [at |-> "none", size |-> 0, tag |-> Null]
    BY DEF Init, NoOp
  <2>2. OpOK
    BY <2>1 DEF OpOK
  <2>3. CallTypes
    <3>1. l_completePages \in [Exp -> 0..MaxComplete] /\ owned = {} /\ lock = FALSE
      BY <1>0 DEF Init
    <3>2. op.at = "none" /\ op.size = 0 /\ op.tag = Null
      BY <2>1
    <3> QED BY <2>1, <3>1, <3>2 DEF CallTypes, Pointer
  <2>4. KeyTypes
    BY DEF Init, KeyTypes
  <2> QED BY <2>2, <2>3, <2>4
<1> QED BY <1>1, <1>3, <1>4, <1>5, <1>6 DEF HeapInv

\* Steps of the keyboard handler that call neither malloc nor free.
LEMMA QuietKeeps ==
    ASSUME HeapInv, UNCHANGED <<heapVars, owned, lock, op>>
    PROVE  HeapInv'
<1>1. BlockInv' /\ ListInv' /\ Coalesced' /\ CompleteCounted'
  BY HeapSame
<1>2. UNCHANGED <<pieces, real_size, split_right, index, l_completePages>>
  BY DEF heapVars, blockVars, listVars
<1>3. UseInv'
  BY <1>2 DEF HeapInv, UseInv, InLists, Current, Usable
<1>4. OpOK' /\ CallTypes'
  BY <1>2 DEF HeapInv, OpOK, CallTypes, Pointer, Usable, IsFreeTag
<1> QED BY <1>1, <1>3, <1>4 DEF HeapInv

\* Every step of the kernel and of the keyboard handler keeps the invariant.
LEMMA StepKeeps ==
    ASSUME HeapInv, KeyTypes, [Next]_vars
    PROVE  HeapInv' /\ KeyTypes'
<1>1. CASE UNCHANGED vars
  <2>1. HeapInv'
    BY <1>1, QuietKeeps DEF vars
  <2> QED BY <2>1, <1>1 DEF vars, keyVars, KeyTypes
<1>2. CASE Kernel
  <2>1. HeapInv'
    BY <1>2, MallocKeeps, FreeKeeps DEF Kernel
  <2> QED BY <2>1, <1>2 DEF Kernel, keyVars, KeyTypes
<1>3. CASE NextTag \/ liballoc_unlock
  <2>1. HeapInv'
    BY <1>3, NextKeeps
  <2> QED BY <2>1, <1>3 DEF NextTag, liballoc_unlock, keyVars, KeyTypes
<1>4. CASE Take
  <2>1. HeapInv'
    BY <1>4, TakeKeeps
  <2> QED BY <2>1, <1>4 DEF Take, keyVars, KeyTypes
<1>5. CASE allocate_new_tag
  <2>1. HeapInv'
    BY <1>5, GrowHeapKeeps
  <2> QED BY <2>1, <1>5 DEF allocate_new_tag, keyVars, KeyTypes
<1>6. CASE Give
  <2>1. HeapInv'
    BY <1>6, GiveKeeps
  <2>2. op.tag + TagSize \in Address
    BY <1>6, GivenFacts DEF Give, At
  <2> QED BY <2>1, <2>2, <1>6 DEF Give, KeyTypes
<1>7. CASE MeltLeft \/ AbsorbRight
  <2>1. HeapInv'
    BY <1>7, MeltKeeps
  <2> QED BY <2>1, <1>7 DEF MeltLeft, AbsorbRight, keyVars, KeyTypes
<1>8. CASE Insert
  <2>1. HeapInv'
    BY <1>8, InsertHeapKeeps
  <2> QED BY <2>1, <1>8 DEF Insert, keyVars, KeyTypes
<1>9. ASSUME NEW code \in {"key", "lshift", "extended", "release"}, keyboard_handler(code)
      PROVE  HeapInv' /\ KeyTypes'
  <2>1. HeapInv'
    BY <1>9, MallocKeeps, QuietKeeps DEF keyboard_handler
  <2>2. keyboard' \in [extended : BOOLEAN, lshift : BOOLEAN]
    BY <1>9 DEF keyboard_handler, KeyTypes
  <2>3. irq' \in BOOLEAN /\ stuck' \in BOOLEAN /\ event' = event
    BY <1>9 DEF keyboard_handler, KeyTypes
  <2> QED BY <2>1, <2>2, <2>3 DEF KeyTypes
<1>10. CASE FreeEvent
  <2>1. HeapInv'
    BY <1>10, FreeKeeps DEF FreeEvent
  <2> QED BY <2>1, <1>10 DEF FreeEvent, KeyTypes
<1>11. CASE HandlerReturns
  <2>1. HeapInv'
    BY <1>11, QuietKeeps DEF HandlerReturns
  <2> QED BY <2>1, <1>11 DEF HandlerReturns, KeyTypes
<1>12. CASE Stopped
  BY <1>1, <1>12 DEF Stopped
<1> QED BY <1>1, <1>2, <1>3, <1>4, <1>5, <1>6, <1>7, <1>8, <1>9, <1>10, <1>11, <1>12 DEF Next

\* The invariant says what HeapOK says: a tag with an index is met on the way from the
\* head of that list and on no other.
LEMMA InvImplies == ASSUME HeapInv, KeyTypes PROVE HeapOK
<1>0. /\ pieces \subseteq Address /\ Null \notin Address /\ -1 \notin Exp /\ InLists \subseteq pieces
      /\ MaxExp \in Nat \ {0}
  BY HeapFacts DEF HeapInv, UseInv
<1>1. /\ \A a \in Address : /\ next[a] # Null => next[a] \in InLists
                            /\ prev[a] # Null => prev[a] \in InLists
      /\ \A i \in Exp : l_freePages[i] # Null => l_freePages[i] \in InLists
  <2>1. ASSUME NEW a \in Address, next[a] # Null PROVE next[a] \in InLists
    <3>1. next[a] \in Address /\ index[next[a]] = index[a] /\ index[a] # -1
      BY <2>1 DEF HeapInv, ListInv, ListTypes, Linked
    <3> QED BY <3>1 DEF InLists
  <2>2. ASSUME NEW a \in Address, prev[a] # Null PROVE prev[a] \in InLists
    <3>1. prev[a] \in Address /\ next[prev[a]] = a /\ a # Null
      BY <2>2, <1>0 DEF HeapInv, ListInv, ListTypes, Linked
    <3>2. index[prev[a]] # -1
      BY <3>1 DEF HeapInv, ListInv, Linked
    <3> QED BY <3>1, <3>2 DEF InLists
  <2>3. ASSUME NEW i \in Exp, l_freePages[i] # Null PROVE l_freePages[i] \in InLists
    <3>1. l_freePages[i] \in Address /\ index[l_freePages[i]] = i
      BY <2>3 DEF HeapInv, ListInv, ListTypes, Linked
    <3> QED BY <3>1, <1>0 DEF InLists
  <2> QED BY <2>1, <2>2, <2>3
<1>2. TypeOK
  <2>1. /\ next \in [Address -> Address \cup {Null}] /\ prev \in [Address -> Address \cup {Null}]
        /\ l_freePages \in [Exp -> Address \cup {Null}]
    BY DEF HeapInv, ListInv, ListTypes
  <2>2. next \in [Address -> Pointer] /\ prev \in [Address -> Pointer]
    BY <2>1, <1>0, <1>1 DEF Pointer
  <2>3. l_freePages \in [Exp -> Pointer]
    BY <2>1, <1>0, <1>1 DEF Pointer
  <2>4. \A f \in {split_left, split_right, next, prev} : f \in [Address -> Pointer]
    BY <2>2 DEF HeapInv, BlockInv
  <2> QED BY <2>3, <2>4 DEF TypeOK, HeapInv, BlockInv, ListInv, ListTypes, CallTypes, KeyTypes
<1>3. ASSUME NEW t \in pieces, NEW i \in Exp PROVE t \in Listed(i) <=> i = index[t]
  <2>1. ASSUME i = index[t] PROVE t \in Listed(i)
    <3>1. t \in InLists
      BY <2>1, <1>0 DEF InLists
    <3>2. ASSUME NEW S \in SUBSET pieces,
                 {l_freePages[i]} \cup {next[s] : s \in S} \subseteq S \cup {Null}
          PROVE  t \in S
      <4> DEFINE T == S \cap InLists
      <4>1. l_freePages[i] # Null => l_freePages[i] \in T
        BY <3>2, <1>1
      <4>2. ASSUME NEW s \in T, next[s] # Null PROVE next[s] \in T
        <5>1. s \in S /\ s \in Address
          BY <1>0
        <5>2. next[s] \in S
          BY <3>2, <4>2, <5>1
        <5> QED BY <4>2, <5>1, <5>2, <1>1
      <4>3. ClosedFor(index[t], T)
        BY <2>1, <4>1, <4>2 DEF ClosedFor
      <4>4. t \in T
        BY <3>1, <4>3 DEF HeapInv, ListInv, Reached
      <4> QED BY <4>4
    <3> QED BY <3>2 DEF Listed
  <2>2. ASSUME t \in Listed(i) PROVE i = index[t]
    <3> DEFINE S == {s \in pieces : index[s] = i}
    <3>1. S \in SUBSET pieces
      OBVIOUS
    <3>2. l_freePages[i] \in S \cup {Null}
      BY <1>0, <1>1 DEF HeapInv, ListInv, Linked
    <3>3. ASSUME NEW s \in S PROVE next[s] \in S \cup {Null}
      BY <1>0, <1>1 DEF HeapInv, ListInv, Linked
    <3>4. {l_freePages[i]} \cup {next[s] : s \in S} \subseteq S \cup {Null}
      BY <3>2, <3>3
    <3>5. t \in S
      <4> HIDE DEF S
      <4> QED BY <2>2, <3>1, <3>4 DEF Listed
    <3> QED BY <3>5
  <2> QED BY <2>1, <2>2
<1>4. FreeListed
  <2>1. ASSUME NEW t \in pieces
        PROVE  /\ next[t] # Null => prev[next[t]] = t
               /\ prev[t] # Null => next[prev[t]] = t
    BY <1>0 DEF HeapInv, ListInv, Linked
  <2> QED BY <2>1, <1>3 DEF HeapInv, UseInv, FreeListed
<1> QED BY <1>2, <1>4 DEF HeapInv, BlockInv, HeapOK

\* In every state of the heap the invariant holds.
LEMMA HeapInvariant == Spec => [](HeapInv /\ KeyTypes)
<1>1. HeapInv /\ KeyTypes /\ [Next]_vars => (HeapInv /\ KeyTypes)'
  BY StepKeeps
<1> QED BY <1>1, InitKeeps, PTL DEF Spec

\* Splitting, joining and listing pieces, with the keyboard handler's malloc and free in
\* between, never loses a byte, a piece or a link: the pieces fill the heap, every piece is
\* in use or in its own list once, no two free pieces are neighbours and the counters are
\* right.
THEOREM HeapHolds == Spec => []HeapOK
<1>1. HeapInv /\ KeyTypes => HeapOK
  BY InvImplies
<1> QED BY <1>1, HeapInvariant, PTL

\* Two pieces have no byte in common.
LEMMA PiecesApart ==
    ASSUME HeapInv, NEW t \in pieces, NEW s \in pieces, t # s
    PROVE  End(t) =< s \/ End(s) =< t
<1>1. BlockInv
  BY DEF HeapInv
<1>2. /\ t \in Nat /\ real_size[t] \in Nat /\ End(t) = t + real_size[t]
      /\ ~(t < s /\ s < End(t))
  BY <1>1, PieceFacts
<1>3. /\ s \in Nat /\ real_size[s] \in Nat /\ End(s) = s + real_size[s]
      /\ ~(s < t /\ t < End(s))
  BY <1>1, PieceFacts
<1> QED BY <1>2, <1>3

\* What malloc gives out overlaps nothing that is handed out already.
LEMMA GiveIsAllocate == ASSUME HeapInv, Give PROVE Abstract!Allocate
<1>1. PICK r : r = <<op.tag + TagSize, op.size>>
  OBVIOUS
<1>2. /\ op.tag \in pieces /\ op.tag \in Nat /\ op.size \in Nat /\ Current = {op.tag}
      /\ op.size =< Usable(op.tag) /\ r[1] = op.tag + TagSize /\ r[2] = op.size
  BY <1>1, GivenFacts DEF Give, At
<1>3. owned' = owned \cup {r}
  BY <1>1 DEF Give
<1>4. /\ TagSize \in Nat /\ PageSize =< op.tag /\ PageSize \in Nat
      /\ real_size[op.tag] \in Nat /\ End(op.tag) = op.tag + real_size[op.tag]
      /\ End(op.tag) =< Top /\ Top \in Nat /\ BlockInv
  BY <1>2, PieceFacts, Bounds DEF HeapInv
<1>5. Abstract!Bytes(r) \subseteq Address
  <2> SUFFICES ASSUME NEW a \in r[1]..r[1] + r[2] - 1 PROVE a \in Address
    BY DEF Abstract!Bytes
  <2>1. a \in Int /\ PageSize =< a /\ a < Top
    BY <1>2, <1>4 DEF Usable
  <2> QED BY <2>1, <1>4, Bounds
<1>6. ASSUME NEW s \in owned PROVE Abstract!Bytes(r) \cap Abstract!Bytes(s) = {} /\ r[1] # s[1]
  <2>1. PICK u : u = s[1] - TagSize
    OBVIOUS
  <2>2. /\ u \in pieces /\ u # op.tag /\ s[1] \in Int /\ s[2] =< Usable(u)
        /\ s[1] = u + TagSize
    BY <2>1, <1>2, OwnedFacts DEF HeapInv, UseInv
  <2>3. s[2] \in Nat
    BY HeapFacts DEF HeapInv, CallTypes
  <2>4. u \in Nat /\ real_size[u] \in Nat /\ End(u) = u + real_size[u]
    BY <2>2, <1>4, PieceFacts
  <2>5. End(u) =< op.tag \/ End(op.tag) =< u
    BY <2>2, <1>2, PiecesApart
  <2>6. ASSUME NEW a \in Int, r[1] =< a, a =< r[1] + r[2] - 1, s[1] =< a, a =< s[1] + s[2] - 1
        PROVE  FALSE
    BY <2>2, <2>3, <2>4, <2>5, <2>6, <1>2, <1>4 DEF Usable
  <2>7. r[1] # s[1]
    <3>1. \A x, y \in Nat : x + TagSize = y + TagSize => x = y
      BY <1>4
    <3> QED BY <3>1, <2>2, <2>4, <1>2
  <2> QED BY <2>2, <2>3, <2>6, <2>7, <1>2, <1>4 DEF Abstract!Bytes
<1> QED BY <1>3, <1>5, <1>6 DEF Abstract!Allocate

\* malloc and free implement the allocator, whatever key presses come in between: the
\* region that malloc gives out overlaps no other, and a region is given back once.
THEOREM HeapRefinement == Spec => ImplementsAllocator
<1>1. Init => owned = {}
  BY DEF Init
<1>2. ASSUME HeapInv, [Next]_vars
      PROVE  [Abstract!Allocate \/ Abstract!Release]_owned
  <2>1. CASE Give
    BY <1>2, <2>1, GiveIsAllocate
  <2>2. ASSUME NEW r \in owned, Free(r) PROVE Abstract!Release
    BY <2>2 DEF Free, Abstract!Release
  <2>3. CASE Kernel
    BY <2>2, <2>3 DEF Kernel, Malloc
  <2>4. CASE FreeEvent
    BY <2>2, <2>4 DEF FreeEvent
  <2>5. CASE UNCHANGED owned
    BY <2>5
  <2>6. Next => Give \/ Kernel \/ FreeEvent \/ UNCHANGED owned
    BY DEF Next, NextTag, Take, allocate_new_tag, MeltLeft, AbsorbRight, Insert, liballoc_unlock,
           keyboard_handler, Malloc, HandlerReturns, Stopped, vars
  <2>7. UNCHANGED vars => UNCHANGED owned
    BY DEF vars
  <2> QED BY <1>2, <2>1, <2>3, <2>4, <2>5, <2>6, <2>7
<1> QED BY <1>1, <1>2, HeapInvariant, PTL
        DEF Spec, ImplementsAllocator, Abstract!AllocatorSpec
===========================================================================
