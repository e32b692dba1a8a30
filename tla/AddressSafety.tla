---------------------------- MODULE AddressSafety ----------------------------
(***************************************************************************)
(* Pages and address spaces are right for every layout of memory, every    *)
(* number of processes and every history: no page has two uses, none is    *)
(* lost, a process has pages exactly where its segments say, the pointers  *)
(* that system calls accept are mapped, the directory in use is that of a  *)
(* live process, and no assert fails.                                      *)
(***************************************************************************)
EXTENDS AddressSpace, ListFacts, FiniteSetTheorems

-----------------------------------------------------------------------------
(***************************************************************************)
(* Addresses and page numbers.                                             *)
(***************************************************************************)
Sizes == {WORD, PAGE_START, TEXT_BASE, DATA_BASE, STACK_BASE, STACK_SIZE, DATA_MAX}

(* The constants are positive, and multiples of a page where they are      *)
(* addresses.                                                              *)
LEMMA Numbers ==
  /\ PAGE_SIZE \in Nat \ {0} /\ TABLE_SIZE \in Nat \ {0}
  /\ WORD \in Nat \ {0} /\ PAGE_START \in Nat \ {0} /\ TEXT_BASE \in Nat \ {0}
  /\ DATA_BASE \in Nat \ {0} /\ STACK_BASE \in Nat \ {0} /\ STACK_SIZE \in Nat \ {0}
  /\ DATA_MAX \in Nat \ {0}
  /\ Aligned(WORD) /\ Aligned(PAGE_START) /\ Aligned(TEXT_BASE) /\ Aligned(DATA_BASE)
  /\ Aligned(STACK_BASE) /\ Aligned(STACK_SIZE) /\ Aligned(DATA_MAX)
  BY SpaceAssumption

(* The kernel, text, data and stack come in this order.                    *)
LEMMA Order ==
  /\ PAGE_START <= TEXT_BASE /\ TEXT_BASE <= DATA_BASE
  /\ DATA_BASE + DATA_MAX <= STACK_BASE - STACK_SIZE /\ STACK_BASE < WORD
  BY SpaceAssumption

(* A later address is on the same page or on a later one.                  *)
LEMMA DivMono ==
  ASSUME NEW a \in Nat, NEW b \in Nat, NEW c \in Nat \ {0}, a <= b
  PROVE  a \div c \in Nat /\ b \div c \in Nat /\ a \div c <= b \div c
<1>1. a \div c \in Nat /\ a = (a \div c) * c + (a % c) /\ a % c \in 0 .. (c - 1)
  BY Z3
<1>2. b \div c \in Nat /\ b = (b \div c) * c + (b % c) /\ b % c \in 0 .. (c - 1)
  BY Z3
<1> DEFINE x == a \div c
           y == b \div c
<1> HIDE DEF x, y
<1>3. x \in Nat /\ y \in Nat /\ x * c <= b /\ b < (y + 1) * c
  BY <1>1, <1>2, Z3 DEF x, y
<1>4. x < y + 1
  BY <1>3, Z3
<1> QED
  BY <1>1, <1>2, <1>3, <1>4 DEF x, y

-----------------------------------------------------------------------------
(***************************************************************************)
(* Uses of pages: taking a page and giving one back.                       *)
(***************************************************************************)
Put(f, x, y) == [f EXCEPT ![x] = y]

LEMMA PutAt ==
  ASSUME NEW f, NEW x \in DOMAIN f, NEW y
  PROVE  /\ DOMAIN Put(f, x, y) = DOMAIN f
         /\ \A z \in DOMAIN f : Put(f, x, y)[z] = IF z = x THEN y ELSE f[z]
  BY DEF Put

LEMMA FirstFacts == First \in Nat /\ None \notin Nat /\ None = -1
  BY Numbers, DivMono DEF First, None

(* What the last conjunct of Consistent says of each page.                 *)
LEMMA Covered ==
  ASSUME NEW V, NEW s, NEW e
  PROVE  ({V[u] : u \in AllUses} \ {None}) \cup ToSet(s) = First .. (e - 1)
         <=> /\ \A u \in AllUses : V[u] # None => V[u] \in First .. (e - 1)
             /\ \A g \in ToSet(s) : g \in First .. (e - 1)
             /\ \A g \in First .. (e - 1) : g # None /\ (g \in ToSet(s) \/ \E u \in AllUses : V[u] = g)
<1>1. \A g \in First .. (e - 1) : g # None
  BY FirstFacts
<1> QED
  BY <1>1

(* Taking the page at page_end or the head of the free list for a use that *)
(* has none keeps uses and free list consistent.                           *)
LEMMA UseGiven ==
  ASSUME NEW V, NEW s \in Seq(Nat), NEW e \in Nat, First <= e, Consistent(V, s, e),
         DOMAIN V = AllUses, NEW u \in AllUses, V[u] = None
  PROVE  /\ s = <<>> => Consistent(Put(V, u, e), s, e + 1)
         /\ s # <<>> => Consistent(Put(V, u, Head(s)), Tail(s), e)
<1>1. /\ \A v, w \in AllUses : V[v] = V[w] /\ V[v] # None => v = w
      /\ \A v \in AllUses : V[v] \notin ToSet(s)
      /\ IsInjective(s)
  BY DEF Consistent
<1>2. /\ \A v \in AllUses : V[v] # None => V[v] \in First .. (e - 1)
      /\ \A g \in ToSet(s) : g \in First .. (e - 1)
      /\ \A g \in First .. (e - 1) : g # None /\ (g \in ToSet(s) \/ \E v \in AllUses : V[v] = g)
  BY Covered DEF Consistent
<1>3. CASE s = <<>>
  <2> DEFINE W == Put(V, u, e)
  <2>1. \A v \in AllUses : W[v] = IF v = u THEN e ELSE V[v]
    BY PutAt
  <2> HIDE DEF W
  <2>2. ToSet(s) = {}
    BY <1>3, InList
  <2>3. e \notin First .. (e - 1) /\ e # None /\ e \in First .. (e + 1 - 1)
    BY FirstFacts
  <2>4. \A v, w \in AllUses : W[v] = W[w] /\ W[v] # None => v = w
    BY <2>1, <2>3, <1>1, <1>2
  <2>5. /\ \A v \in AllUses : W[v] # None => W[v] \in First .. (e + 1 - 1)
        /\ \A g \in ToSet(s) : g \in First .. (e + 1 - 1)
        /\ \A g \in First .. (e + 1 - 1) :
             g # None /\ (g \in ToSet(s) \/ \E v \in AllUses : W[v] = g)
    <3>1. \A v \in AllUses : W[v] # None => W[v] \in First .. (e + 1 - 1)
      BY <2>1, <2>3, <1>2
    <3>2. ASSUME NEW g \in First .. (e + 1 - 1)
          PROVE  g # None /\ \E v \in AllUses : W[v] = g
      <4>1. CASE g = e
        BY <4>1, <2>1, <2>3
      <4>2. CASE g # e
        <5>1. g \in First .. (e - 1)
          BY <4>2, FirstFacts
        <5>2. PICK v \in AllUses : V[v] = g
          BY <5>1, <2>2, <1>2
        <5> QED
          BY <5>1, <5>2, <2>1, <1>2
      <4> QED
        BY <4>1, <4>2
    <3> QED
      BY <3>1, <3>2, <2>2
  <2>6. ({W[v] : v \in AllUses} \ {None}) \cup ToSet(s) = First .. (e + 1 - 1)
    BY <2>5, Covered
  <2> QED
    BY <1>1, <1>3, <2>2, <2>4, <2>6 DEF Consistent, W
<1>4. CASE s # <<>>
  <2> DEFINE x == Head(s)
             t == Tail(s)
             W == Put(V, u, x)
  <2>1. \A v \in AllUses : W[v] = IF v = u THEN x ELSE V[v]
    BY PutAt
  <2>2. ToSet(s) = ToSet(t) \cup {x} /\ IsInjective(t) /\ x \notin ToSet(t)
    BY <1>1, <1>4, TakenFromFront
  <2> HIDE DEF W, x, t
  <2>3. x # None /\ x \in First .. (e - 1)
    BY <2>2, <1>2, FirstFacts
  <2>4. \A v, w \in AllUses : W[v] = W[w] /\ W[v] # None => v = w
    BY <2>1, <2>2, <1>1
  <2>5. \A v \in AllUses : W[v] \notin ToSet(t)
    BY <2>1, <2>2, <1>1
  <2>6. /\ \A v \in AllUses : W[v] # None => W[v] \in First .. (e - 1)
        /\ \A g \in ToSet(t) : g \in First .. (e - 1)
        /\ \A g \in First .. (e - 1) : g # None /\ (g \in ToSet(t) \/ \E v \in AllUses : W[v] = g)
    <3>1. ASSUME NEW g \in First .. (e - 1)
          PROVE  g # None /\ (g \in ToSet(t) \/ \E v \in AllUses : W[v] = g)
      <4>1. g \in ToSet(t) \/ g = x \/ \E v \in AllUses : V[v] = g
        BY <2>2, <1>2
      <4>2. g # None
        BY <1>2
      <4> QED
        BY <4>1, <4>2, <2>1
    <3> QED
      BY <3>1, <2>1, <2>2, <2>3, <1>2
  <2>7. ({W[v] : v \in AllUses} \ {None}) \cup ToSet(t) = First .. (e - 1)
    BY <2>6, Covered
  <2> QED
    BY <1>4, <2>2, <2>4, <2>5, <2>7 DEF Consistent, W, x, t
<1> QED
  BY <1>3, <1>4

(* So does putting the page of a use that ends in front of the free list.  *)
LEMMA UseEnded ==
  ASSUME NEW V, NEW s \in Seq(Nat), NEW e \in Nat, Consistent(V, s, e),
         DOMAIN V = AllUses, NEW u \in AllUses, V[u] # None
  PROVE  V[u] \in Nat /\ Consistent(Put(V, u, None), <<V[u]>> \o s, e)
<1>1. /\ \A v, w \in AllUses : V[v] = V[w] /\ V[v] # None => v = w
      /\ \A v \in AllUses : V[v] \notin ToSet(s)
      /\ IsInjective(s)
  BY DEF Consistent
<1>2. /\ \A v \in AllUses : V[v] # None => V[v] \in First .. (e - 1)
      /\ \A g \in ToSet(s) : g \in First .. (e - 1)
      /\ \A g \in First .. (e - 1) : g # None /\ (g \in ToSet(s) \/ \E v \in AllUses : V[v] = g)
  BY Covered DEF Consistent
<1> DEFINE x == V[u]
           t == <<x>> \o s
           W == Put(V, u, None)
<1>3. \A v \in AllUses : W[v] = IF v = u THEN None ELSE V[v]
  BY PutAt
<1>4. x \in First .. (e - 1) /\ x \in Nat
  BY <1>2, FirstFacts
<1>5. ToSet(t) = ToSet(s) \cup {x} /\ IsInjective(t)
  BY <1>1, <1>4, AddedInFront
<1>6. \A v \in AllUses : v # u => V[v] # x
  BY <1>1
<1>7. None \notin ToSet(t)
  BY <1>2, <1>4, <1>5, FirstFacts
<1> HIDE DEF W, t
<1>8. \A v, w \in AllUses : W[v] = W[w] /\ W[v] # None => v = w
  BY <1>3, <1>1
<1>9. \A v \in AllUses : W[v] \notin ToSet(t)
  BY <1>1, <1>3, <1>5, <1>6, <1>7
<1>10. /\ \A v \in AllUses : W[v] # None => W[v] \in First .. (e - 1)
       /\ \A g \in ToSet(t) : g \in First .. (e - 1)
       /\ \A g \in First .. (e - 1) : g # None /\ (g \in ToSet(t) \/ \E v \in AllUses : W[v] = g)
  <2>1. ASSUME NEW g \in First .. (e - 1)
        PROVE  g # None /\ (g \in ToSet(t) \/ \E v \in AllUses : W[v] = g)
    BY <1>2, <1>3, <1>5
  <2> QED
    BY <2>1, <1>2, <1>3, <1>4, <1>5
<1>11. ({W[v] : v \in AllUses} \ {None}) \cup ToSet(t) = First .. (e - 1)
  BY <1>10, Covered
<1> QED
  BY <1>4, <1>5, <1>8, <1>9, <1>11 DEF Consistent, W, t

-----------------------------------------------------------------------------
(***************************************************************************)
(* Memory in the middle of an operation. M has the allocator's variables   *)
(* and the tables of process p, pd is its directory; the uses of the other *)
(* processes are those of the state.                                       *)
(***************************************************************************)
PageOrNone == Nat \cup {None}
Memories == [free : Seq(Nat), end : Nat, npages : Int,
             dir : [Tables -> PageOrNone], table : [Logical -> PageOrNone]]

UseOf(p, pd, M, u) ==
  IF u[2] # p THEN PageOf(u)
  ELSE CASE u[1] = "dir" -> pd [] u[1] = "table" -> M.dir[u[3]] [] u[1] = "page" -> M.table[u[3]]
View(p, pd, M) == [u \in AllUses |-> UseOf(p, pd, M, u)]

Sound(p, pd, M) ==
  /\ M \in Memories /\ First <= M.end
  /\ Consistent(View(p, pd, M), M.free, M.end)
  /\ M.npages + Len(M.free) = M.end - First
Present(M) == \A l \in Logical : M.table[l] # None => M.dir[l \div TABLE_SIZE] # None

(* The types of the fields of a memory.                                    *)
LEMMA Fields ==
  ASSUME NEW M \in Memories
  PROVE  /\ M.free \in Seq(Nat) /\ M.end \in Nat /\ M.npages \in Int
         /\ M.dir \in [Tables -> PageOrNone] /\ M.table \in [Logical -> PageOrNone]
         /\ Len(M.free) \in Nat
<1>1. M.free \in Seq(Nat)
  BY DEF Memories
<1> QED
  BY <1>1, LenProperties DEF Memories

(* The three kinds of uses.                                                *)
LEMMA UseKinds ==
  ASSUME NEW p \in Pids
  PROVE  /\ <<"dir", p, 0>> \in AllUses
         /\ \A d \in Tables : <<"table", p, d>> \in AllUses
         /\ \A l \in Logical \ Kernel : <<"page", p, l>> \in AllUses
  BY DEF AllUses

LEMMA UseShape ==
  ASSUME NEW u \in AllUses
  PROVE  /\ u = <<u[1], u[2], u[3]>> /\ u[2] \in Pids
         /\ \/ u[1] = "dir" /\ u[3] = 0
            \/ u[1] = "table" /\ u[3] \in Tables
            \/ u[1] = "page" /\ u[3] \in Logical \ Kernel
  BY DEF AllUses

(* Where a use finds its page.                                             *)
LEMMA DirectoryUse ==
  ASSUME NEW p \in Pids, NEW pd, NEW M
  PROVE  <<"dir", p, 0>> \in AllUses /\ View(p, pd, M)[<<"dir", p, 0>>] = pd
<1>1. <<"dir", p, 0>> \in AllUses
  BY UseKinds
<1>2. View(p, pd, M)[<<"dir", p, 0>>] = UseOf(p, pd, M, <<"dir", p, 0>>)
  BY <1>1 DEF View
<1> QED
  BY <1>1, <1>2 DEF UseOf

LEMMA TableUse ==
  ASSUME NEW p \in Pids, NEW pd, NEW M, NEW d \in Tables
  PROVE  <<"table", p, d>> \in AllUses /\ View(p, pd, M)[<<"table", p, d>>] = M.dir[d]
<1>1. <<"table", p, d>> \in AllUses
  BY UseKinds
<1>2. View(p, pd, M)[<<"table", p, d>>] = UseOf(p, pd, M, <<"table", p, d>>)
  BY <1>1 DEF View
<1> QED
  BY <1>1, <1>2 DEF UseOf

LEMMA PageUse ==
  ASSUME NEW p \in Pids, NEW pd, NEW M, NEW l \in Logical \ Kernel
  PROVE  <<"page", p, l>> \in AllUses /\ View(p, pd, M)[<<"page", p, l>>] = M.table[l]
<1>1. <<"page", p, l>> \in AllUses
  BY UseKinds
<1>2. View(p, pd, M)[<<"page", p, l>>] = UseOf(p, pd, M, <<"page", p, l>>)
  BY <1>1 DEF View
<1> QED
  BY <1>1, <1>2 DEF UseOf

(* How changes of the directory and of one entry show.                     *)
LEMMA ViewDirectory ==
  ASSUME NEW p \in Pids, NEW pd, NEW pd2, NEW M, NEW M2, M2.dir = M.dir, M2.table = M.table
  PROVE  View(p, pd2, M2) = Put(View(p, pd, M), <<"dir", p, 0>>, pd2)
<1> SUFFICES ASSUME NEW u \in AllUses
             PROVE  UseOf(p, pd2, M2, u) = IF u = <<"dir", p, 0>> THEN pd2 ELSE UseOf(p, pd, M, u)
  BY UseKinds DEF View, Put
<1> QED
  BY UseShape DEF UseOf

(* An entry of the directory has changed.                                  *)
LEMMA ViewTable ==
  ASSUME NEW p \in Pids, NEW pd, NEW M \in Memories, NEW M2, NEW d \in Tables, NEW x,
         M2.dir = Put(M.dir, d, x), M2.table = M.table
  PROVE  View(p, pd, M2) = Put(View(p, pd, M), <<"table", p, d>>, x)
<1>1. \A e \in Tables : M2.dir[e] = IF e = d THEN x ELSE M.dir[e]
  BY Fields DEF Put
<1> SUFFICES ASSUME NEW u \in AllUses
             PROVE  UseOf(p, pd, M2, u) = IF u = <<"table", p, d>> THEN x ELSE UseOf(p, pd, M, u)
  BY UseKinds DEF View, Put
<1> QED
  BY <1>1, UseShape DEF UseOf

(* An entry of a page table has changed.                                   *)
LEMMA ViewPage ==
  ASSUME NEW p \in Pids, NEW pd, NEW M \in Memories, NEW M2, NEW l \in Logical \ Kernel, NEW x,
         M2.dir = M.dir, M2.table = Put(M.table, l, x)
  PROVE  View(p, pd, M2) = Put(View(p, pd, M), <<"page", p, l>>, x)
<1>1. \A k \in Logical : M2.table[k] = IF k = l THEN x ELSE M.table[k]
  BY Fields DEF Put
<1> SUFFICES ASSUME NEW u \in AllUses
             PROVE  UseOf(p, pd, M2, u) = IF u = <<"page", p, l>> THEN x ELSE UseOf(p, pd, M, u)
  BY UseKinds DEF View, Put
<1> QED
  BY <1>1, UseShape DEF UseOf

(* The entries for the kernel's pages are no uses.                         *)
LEMMA ViewKernel ==
  ASSUME NEW p \in Pids, NEW pd, NEW M, NEW M2, M2.dir = M.dir,
         \A l \in Logical \ Kernel : M2.table[l] = M.table[l]
  PROVE  View(p, pd, M2) = View(p, pd, M)
<1> SUFFICES ASSUME NEW u \in AllUses
             PROVE  UseOf(p, pd, M2, u) = UseOf(p, pd, M, u)
  BY DEF View
<1> QED
  BY UseShape DEF UseOf

-----------------------------------------------------------------------------
(* alloc_page and free_page.                                               *)
LEMMA Counting ==
  ASSUME NEW a \in Int, NEW b \in Int, NEW c \in Int, NEW d \in Int, a + b = c - d, d <= c
  PROVE  /\ (a + 1) + b = (c + 1) - d /\ d <= c + 1
         /\ (a + 1) + (b - 1) = c - d
         /\ (a - 1) + (b + 1) = c - d
  OBVIOUS

(* alloc_page does what it says.                                           *)
LEMMA AllocFields ==
  ASSUME NEW M \in Memories
  PROVE  /\ alloc_page(M) \in Memories /\ NextPage(M) \in Nat
         /\ alloc_page(M).dir = M.dir /\ alloc_page(M).table = M.table
         /\ alloc_page(M).npages = M.npages + 1
         /\ IF M.free = <<>>
            THEN /\ NextPage(M) = M.end /\ alloc_page(M).end = M.end + 1
                 /\ alloc_page(M).free = M.free
            ELSE /\ NextPage(M) = Head(M.free) /\ alloc_page(M).end = M.end
                 /\ alloc_page(M).free = Tail(M.free)
<1>1. M.free # <<>> => Head(M.free) \in Nat /\ Tail(M.free) \in Seq(Nat)
  BY Fields, TakenFromFront
<1>2. CASE M.free = <<>>
  <2>1. alloc_page(M) = [M EXCEPT !.end = @ + 1, !.npages = @ + 1] /\ NextPage(M) = M.end
    BY <1>2 DEF alloc_page, NextPage
  <2>2. M = [free |-> M.free, end |-> M.end, npages |-> M.npages, dir |-> M.dir, table |-> M.table]
    BY DEF Memories
  <2>3. alloc_page(M) = [free |-> M.free, end |-> M.end + 1, npages |-> M.npages + 1,
                         dir |-> M.dir, table |-> M.table]
    BY <2>1, <2>2
  <2>4. M.end + 1 \in Nat /\ M.npages + 1 \in Int
    BY Fields
  <2>5. alloc_page(M) \in Memories
    BY <2>3, <2>4, Fields DEF Memories
  <2> QED
    BY <2>1, <2>3, <2>5, <1>2, Fields
<1>3. CASE M.free # <<>>
  <2>1. alloc_page(M) = [M EXCEPT !.free = Tail(@), !.npages = @ + 1] /\ NextPage(M) = Head(M.free)
    BY <1>3 DEF alloc_page, NextPage
  <2>2. M = [free |-> M.free, end |-> M.end, npages |-> M.npages, dir |-> M.dir, table |-> M.table]
    BY DEF Memories
  <2>3. alloc_page(M) = [free |-> Tail(M.free), end |-> M.end, npages |-> M.npages + 1,
                         dir |-> M.dir, table |-> M.table]
    BY <2>1, <2>2
  <2>5. alloc_page(M) \in Memories
    BY <2>3, <1>1, <1>3, Fields DEF Memories
  <2> QED
    BY <2>1, <2>3, <2>5, <1>1, <1>3
<1> QED
  BY <1>2, <1>3

(* A page that alloc_page returned has been given to use u.                *)
LEMMA SoundAlloc ==
  ASSUME NEW p \in Pids, NEW pd, NEW M, Sound(p, pd, M), NEW pd2, NEW M2 \in Memories,
         M2.free = alloc_page(M).free, M2.end = alloc_page(M).end,
         M2.npages = alloc_page(M).npages,
         NEW u \in AllUses, View(p, pd, M)[u] = None,
         View(p, pd2, M2) = Put(View(p, pd, M), u, NextPage(M))
  PROVE  Sound(p, pd2, M2)
<1> DEFINE V == View(p, pd, M)
           W == View(p, pd2, M2)
<1>1. M \in Memories /\ First <= M.end /\ Consistent(V, M.free, M.end)
      /\ M.npages + Len(M.free) = M.end - First /\ DOMAIN V = AllUses
  BY DEF Sound, View
<1>2. First \in Nat /\ M.free \in Seq(Nat) /\ M.end \in Nat /\ M.npages \in Int /\ Len(M.free) \in Nat
  BY <1>1, Fields, FirstFacts
<1>a. V[u] = None /\ W = Put(V, u, NextPage(M))
  OBVIOUS
<1>c. M.npages \in Int /\ Len(M.free) \in Int /\ M.end \in Int /\ First \in Int
  BY <1>2
<1>d. M.npages + Len(M.free) = M.end - First /\ First <= M.end
  BY <1>1
<1>b. /\ (M.npages + 1) + Len(M.free) = (M.end + 1) - First /\ First <= M.end + 1
      /\ (M.npages + 1) + (Len(M.free) - 1) = M.end - First
  BY <1>c, <1>d, Counting
<1> HIDE DEF V, W
<1>3. CASE M.free = <<>>
  <2>1. M2.free = M.free /\ M2.end = M.end + 1 /\ M2.npages = M.npages + 1 /\ NextPage(M) = M.end
    BY <1>1, <1>3, AllocFields
  <2>a. Consistent(Put(V, u, M.end), M.free, M.end + 1)
    BY <1>a, <1>1, <1>2, <1>3, UseGiven
  <2>2. Consistent(W, M2.free, M2.end)
    BY <2>1, <2>a, <1>a
  <2>b. Len(M2.free) = Len(M.free)
    BY <2>1
  <2>3. First <= M2.end /\ M2.npages + Len(M2.free) = M2.end - First
    BY <2>1, <2>b, <1>b
  <2> QED
    BY <2>2, <2>3 DEF Sound, W
<1>4. CASE M.free # <<>>
  <2>1. /\ M2.free = Tail(M.free) /\ M2.end = M.end /\ M2.npages = M.npages + 1
        /\ NextPage(M) = Head(M.free)
    BY <1>1, <1>4, AllocFields
  <2>a. Consistent(Put(V, u, Head(M.free)), Tail(M.free), M.end)
    BY <1>a, <1>1, <1>2, <1>4, UseGiven
  <2>2. Consistent(W, M2.free, M2.end)
    BY <2>1, <2>a, <1>a
  <2>b. Len(M2.free) = Len(M.free) - 1
    BY <2>1, <1>2, <1>4, TakenFromFront
  <2>3. First <= M2.end /\ M2.npages + Len(M2.free) = M2.end - First
    BY <2>1, <2>b, <1>b, <1>1
  <2> QED
    BY <2>2, <2>3 DEF Sound, W
<1> QED
  BY <1>3, <1>4

(* The page that had use u has been freed.                                 *)
LEMMA SoundFree ==
  ASSUME NEW p \in Pids, NEW pd, NEW M, Sound(p, pd, M), NEW pd2, NEW M2 \in Memories,
         NEW u \in AllUses, NEW x, View(p, pd, M)[u] = x, x # None,
         M2.free = <<x>> \o M.free, M2.end = M.end, M2.npages = M.npages - 1,
         View(p, pd2, M2) = Put(View(p, pd, M), u, None)
  PROVE  Sound(p, pd2, M2)
<1> DEFINE V == View(p, pd, M)
           W == View(p, pd2, M2)
<1>1. M \in Memories /\ First <= M.end /\ Consistent(V, M.free, M.end)
      /\ M.npages + Len(M.free) = M.end - First /\ DOMAIN V = AllUses
  BY DEF Sound, View
<1>2. First \in Nat /\ M.free \in Seq(Nat) /\ M.end \in Nat /\ M.npages \in Int /\ Len(M.free) \in Nat
  BY <1>1, Fields, FirstFacts
<1>a. V[u] = x /\ W = Put(V, u, None)
  OBVIOUS
<1> HIDE DEF V, W
<1>b. x \in Nat /\ Consistent(Put(V, u, None), <<x>> \o M.free, M.end)
  BY <1>a, <1>1, <1>2, UseEnded
<1>3. x \in Nat /\ Consistent(W, M2.free, M2.end)
  BY <1>a, <1>b
<1>4. Len(M2.free) = Len(M.free) + 1
  BY <1>2, <1>3
<1>c. (M.npages - 1) + (Len(M.free) + 1) = M.end - First
  BY <1>1, <1>2, Counting
<1>5. First <= M2.end /\ M2.npages + Len(M2.free) = M2.end - First
  BY <1>1, <1>c, <1>4
<1> QED
  BY <1>3, <1>5 DEF Sound, W

-----------------------------------------------------------------------------
(* Changes of one entry.                                                   *)
LEMMA Words == WORD \div PAGE_SIZE \in Nat \ {0} /\ NTables \in Nat \ {0}
<1> DEFINE q == WORD \div PAGE_SIZE
<1>1. q \in Nat /\ WORD = q * PAGE_SIZE + (WORD % PAGE_SIZE)
  BY Numbers, Z3
<1>2. WORD % PAGE_SIZE = 0 /\ WORD # 0 /\ PAGE_SIZE \in Nat
  BY Numbers DEF Aligned
<1> HIDE DEF q
<1>3. q # 0
  BY <1>1, <1>2
<1>4. q - 1 \in Nat
  BY <1>1, <1>3
<1>5. (q - 1) \div TABLE_SIZE \in Nat
  BY <1>4, Numbers, DivMono
<1> QED
  BY <1>1, <1>3, <1>5 DEF NTables, q

PutPage(M, l, x)  == [M EXCEPT !.table[l] = x]
PutTable(M, d, x) == [M EXCEPT !.dir[d] = x]

(* Every logical page has an entry in the directory.                       *)
LEMMA TableOf ==
  ASSUME NEW l \in Logical
  PROVE  l \in Nat /\ l \div TABLE_SIZE \in Tables
<1> DEFINE n == WORD \div PAGE_SIZE - 1
<1>1. WORD \div PAGE_SIZE \in Nat
  BY Numbers, DivMono
<1>2. l \in Nat /\ n \in Nat /\ l <= n
  BY <1>1 DEF Logical
<1> HIDE DEF n
<1>3. l \div TABLE_SIZE \in Nat /\ n \div TABLE_SIZE \in Nat /\ l \div TABLE_SIZE <= n \div TABLE_SIZE
  BY <1>2, Numbers, DivMono
<1> QED
  BY <1>2, <1>3 DEF Tables, NTables, n

LEMMA SetPage ==
  ASSUME NEW M \in Memories, NEW l \in Logical, NEW x \in PageOrNone
  PROVE  /\ PutPage(M, l, x) \in Memories
         /\ PutPage(M, l, x) =
              [free |-> M.free, end |-> M.end, npages |-> M.npages, dir |-> M.dir,
               table |-> Put(M.table, l, x)]
<1>1. M = [free |-> M.free, end |-> M.end, npages |-> M.npages, dir |-> M.dir, table |-> M.table]
  BY DEF Memories
<1>2. PutPage(M, l, x) =
        [free |-> M.free, end |-> M.end, npages |-> M.npages, dir |-> M.dir,
         table |-> Put(M.table, l, x)]
  BY <1>1 DEF PutPage, Put
<1>3. Put(M.table, l, x) \in [Logical -> PageOrNone]
  BY Fields DEF Put
<1> QED
  BY <1>2, <1>3, Fields DEF Memories

LEMMA SetTable ==
  ASSUME NEW M \in Memories, NEW d \in Tables, NEW x \in PageOrNone
  PROVE  /\ PutTable(M, d, x) \in Memories
         /\ PutTable(M, d, x) =
              [free |-> M.free, end |-> M.end, npages |-> M.npages,
               dir |-> Put(M.dir, d, x), table |-> M.table]
<1>1. M = [free |-> M.free, end |-> M.end, npages |-> M.npages, dir |-> M.dir, table |-> M.table]
  BY DEF Memories
<1>2. PutTable(M, d, x) =
        [free |-> M.free, end |-> M.end, npages |-> M.npages,
         dir |-> Put(M.dir, d, x), table |-> M.table]
  BY <1>1 DEF PutTable, Put
<1>3. Put(M.dir, d, x) \in [Tables -> PageOrNone]
  BY Fields DEF Put
<1> QED
  BY <1>2, <1>3, Fields DEF Memories

(* M with a page table for directory entry d, as map_page makes it.        *)
WithTable(M, d) ==
  IF M.dir[d] = None THEN PutTable(alloc_page(M), d, NextPage(M)) ELSE M

(* Making a page table keeps memory sound.                                 *)
LEMMA NewTable ==
  ASSUME NEW p \in Pids, NEW pd, NEW M, Sound(p, pd, M), NEW d \in Tables
  PROVE  /\ Sound(p, pd, WithTable(M, d))
         /\ WithTable(M, d).table = M.table
         /\ WithTable(M, d).dir[d] # None
         /\ \A e \in Tables : M.dir[e] # None => WithTable(M, d).dir[e] # None
<1>1. M \in Memories
  BY DEF Sound
<1>2. CASE M.dir[d] # None
  BY <1>2 DEF WithTable
<1>3. CASE M.dir[d] = None
  <2> DEFINE A == alloc_page(M)
             x == NextPage(M)
             R == WithTable(M, d)
  <2>1. A \in Memories /\ x \in Nat /\ x \in PageOrNone /\ x # None /\ A.dir = M.dir /\ A.table = M.table
    BY <1>1, AllocFields, FirstFacts DEF PageOrNone
  <2>2. R = PutTable(A, d, x)
    BY <1>3 DEF WithTable
  <2> HIDE DEF A, x, R
  <2>3. R \in Memories /\ R.free = A.free /\ R.end = A.end /\ R.npages = A.npages
        /\ R.dir = Put(M.dir, d, x) /\ R.table = M.table
    BY <2>1, <2>2, SetTable
  <2>4. View(p, pd, R) = Put(View(p, pd, M), <<"table", p, d>>, x)
    BY <2>3, <1>1, ViewTable
  <2>5. View(p, pd, M)[<<"table", p, d>>] = None /\ <<"table", p, d>> \in AllUses
    BY <1>3, TableUse
  <2>6. Sound(p, pd, R)
    BY <2>3, <2>4, <2>5, SoundAlloc DEF A, x
  <2>7. \A e \in Tables : R.dir[e] = IF e = d THEN x ELSE M.dir[e]
    BY <2>3, <1>1, Fields DEF Put
  <2> QED
    BY <2>1, <2>3, <2>6, <2>7 DEF R
<1> QED
  BY <1>2, <1>3

(* Whether the table is made before or after the entry is written makes no *)
(* difference.                                                             *)
LEMMA MapPage ==
  ASSUME NEW M \in Memories, NEW l \in Logical, NEW x \in PageOrNone
  PROVE  map_page(M, l, x) = WithTable(PutPage(M, l, x), l \div TABLE_SIZE)
<1> DEFINE d == l \div TABLE_SIZE
           N == PutPage(M, l, x)
           A == alloc_page(M)
           B == alloc_page(N)
           y == NextPage(M)
<1>1. map_page(M, l, x) = PutPage(WithTable(M, d), l, x)
  BY DEF map_page, WithTable, PutPage, PutTable
<1>2. d \in Tables
  BY TableOf
<1>3. N \in Memories /\ N.free = M.free /\ N.end = M.end /\ N.npages = M.npages /\ N.dir = M.dir
      /\ N.table = Put(M.table, l, x)
  BY SetPage
<1>4. NextPage(N) = y
  BY <1>3 DEF NextPage
<1>5. /\ A \in Memories /\ y \in PageOrNone /\ A.dir = M.dir /\ A.table = M.table
      /\ A.npages = M.npages + 1
  BY AllocFields DEF PageOrNone
<1>6. /\ B \in Memories /\ B.dir = M.dir /\ B.table = Put(M.table, l, x)
      /\ B.npages = M.npages + 1
  BY <1>3, AllocFields
<1>7. A.free = B.free /\ A.end = B.end
  BY <1>3, AllocFields
<1> HIDE DEF d, N, A, B, y
<1>8. CASE M.dir[d] # None
  <2>1. WithTable(M, d) = M /\ WithTable(N, d) = N
    BY <1>3, <1>8 DEF WithTable
  <2> QED
    BY <1>1, <2>1 DEF N, d
<1>9. CASE M.dir[d] = None
  <2>1. WithTable(M, d) = PutTable(A, d, y) /\ WithTable(N, d) = PutTable(B, d, y)
    BY <1>3, <1>4, <1>9 DEF WithTable, A, B, y
  <2> DEFINE C == PutTable(A, d, y)
  <2>2. /\ C \in Memories
        /\ C = [free |-> A.free, end |-> A.end, npages |-> A.npages,
                dir |-> Put(A.dir, d, y), table |-> A.table]
    BY <1>2, <1>5, SetTable
  <2> HIDE DEF C
  <2>3. PutPage(C, l, x) =
          [free |-> C.free, end |-> C.end, npages |-> C.npages, dir |-> C.dir,
           table |-> Put(C.table, l, x)]
    BY <2>2, SetPage
  <2>4. PutTable(B, d, y) =
          [free |-> B.free, end |-> B.end, npages |-> B.npages,
           dir |-> Put(B.dir, d, y), table |-> B.table]
    BY <1>2, <1>5, <1>6, SetTable
  <2>5. C.free = B.free /\ C.end = B.end /\ C.npages = B.npages
        /\ C.dir = Put(B.dir, d, y) /\ Put(C.table, l, x) = B.table
    BY <2>2, <1>5, <1>6, <1>7
  <2> QED
    BY <1>1, <2>1, <2>3, <2>4, <2>5 DEF C, N, d
<1> QED
  BY <1>8, <1>9 DEF N, d

(* One entry has changed, and it has a table if it is in use.              *)
LEMMA PresentAfter ==
  ASSUME NEW M \in Memories, Present(M), NEW R, NEW l \in Logical, NEW x,
         R.table = Put(M.table, l, x),
         \A e \in Tables : M.dir[e] # None => R.dir[e] # None,
         x # None => R.dir[l \div TABLE_SIZE] # None
  PROVE  Present(R)
<1>1. \A k \in Logical : R.table[k] = IF k = l THEN x ELSE M.table[k]
  BY Fields DEF Put
<1> QED
  BY <1>1, TableOf DEF Present

(* One iteration of map_new_pages.                                         *)
LEMMA NewPage ==
  ASSUME NEW p \in Pids, NEW pd, NEW M, Sound(p, pd, M), Present(M),
         NEW l \in Logical \ Kernel, M.table[l] = None
  PROVE  /\ Sound(p, pd, map_new_page(M, l)) /\ Present(map_new_page(M, l))
         /\ \E x \in Nat : map_new_page(M, l).table = Put(M.table, l, x)
<1> DEFINE A == alloc_page(M)
           x == NextPage(M)
           d == l \div TABLE_SIZE
           N == PutPage(A, l, x)
           R == WithTable(N, d)
<1>1. M \in Memories
  BY DEF Sound
<1>2. A \in Memories /\ x \in Nat /\ x \in PageOrNone /\ A.dir = M.dir /\ A.table = M.table
  BY <1>1, AllocFields DEF PageOrNone
<1>3. N \in Memories /\ N.free = A.free /\ N.end = A.end /\ N.npages = A.npages /\ N.dir = M.dir
      /\ N.table = Put(M.table, l, x)
  BY <1>2, SetPage
<1>4. map_new_page(M, l) = R
  BY <1>2, MapPage DEF map_new_page
<1>5. d \in Tables
  BY TableOf
<1> HIDE DEF A, x, N, R, d
<1>6. View(p, pd, N) = Put(View(p, pd, M), <<"page", p, l>>, x)
  BY <1>1, <1>3, ViewPage
<1>7. View(p, pd, M)[<<"page", p, l>>] = None /\ <<"page", p, l>> \in AllUses
  BY PageUse
<1>8. Sound(p, pd, N)
  BY <1>3, <1>6, <1>7, SoundAlloc DEF A, x
<1>9. Sound(p, pd, R) /\ R.table = N.table /\ R.dir[d] # None
      /\ \A e \in Tables : M.dir[e] # None => R.dir[e] # None
  BY <1>3, <1>5, <1>8, NewTable DEF R
<1>10. Present(R)
  BY <1>1, <1>3, <1>9, PresentAfter DEF d
<1> QED
  BY <1>2, <1>3, <1>4, <1>9, <1>10

(* One iteration of identity_map.                                          *)
LEMMA IdentityPage ==
  ASSUME NEW p \in Pids, NEW pd, NEW M, Sound(p, pd, M), Present(M),
         NEW l \in Logical, l \in Kernel
  PROVE  /\ Sound(p, pd, identity_page(M, l)) /\ Present(identity_page(M, l))
         /\ identity_page(M, l).table = Put(M.table, l, l)
<1> DEFINE d == l \div TABLE_SIZE
           N == PutPage(M, l, l)
           R == WithTable(N, d)
<1>1. M \in Memories
  BY DEF Sound
<1>2. d \in Tables /\ l \in PageOrNone
  BY TableOf DEF PageOrNone
<1>3. N \in Memories /\ N.free = M.free /\ N.end = M.end /\ N.npages = M.npages /\ N.dir = M.dir
      /\ N.table = Put(M.table, l, l)
  BY <1>1, <1>2, SetPage
<1>4. identity_page(M, l) = R
  BY <1>1, <1>2, MapPage DEF identity_page
<1> HIDE DEF N, R, d
<1>5. \A k \in Logical \ Kernel : N.table[k] = M.table[k]
  BY <1>1, <1>3, Fields DEF Put
<1>6. View(p, pd, N) = View(p, pd, M)
  BY <1>3, <1>5, ViewKernel
<1>8. Sound(p, pd, N)
  BY <1>3, <1>6 DEF Sound
<1>9. Sound(p, pd, R) /\ R.table = N.table /\ R.dir[d] # None
      /\ \A e \in Tables : M.dir[e] # None => R.dir[e] # None
  BY <1>2, <1>3, <1>8, NewTable DEF R
<1>10. Present(R)
  BY <1>1, <1>3, <1>9, PresentAfter DEF d
<1> QED
  BY <1>3, <1>4, <1>9, <1>10

(* free_page does what it says.                                            *)
LEMMA FreeFields ==
  ASSUME NEW M \in Memories, NEW x \in Nat
  PROVE  free_page(M, x) = [free |-> <<x>> \o M.free, end |-> M.end, npages |-> M.npages - 1,
                            dir |-> M.dir, table |-> M.table]
         /\ free_page(M, x) \in Memories
<1>1. M = [free |-> M.free, end |-> M.end, npages |-> M.npages, dir |-> M.dir, table |-> M.table]
  BY DEF Memories
<1> DEFINE t == <<x>> \o M.free
<1>a. free_page(M, x) = [M EXCEPT !.free = t, !.npages = M.npages - 1]
  BY <1>1 DEF free_page
<1> HIDE DEF t
<1>b. free_page(M, x) = [free |-> t, end |-> M.end, npages |-> M.npages - 1,
                         dir |-> M.dir, table |-> M.table]
  BY <1>a, <1>1
<1>2. free_page(M, x) = [free |-> <<x>> \o M.free, end |-> M.end, npages |-> M.npages - 1,
                         dir |-> M.dir, table |-> M.table]
  BY <1>b DEF t
<1>3. <<x>> \o M.free \in Seq(Nat) /\ M.npages - 1 \in Int
  BY Fields, AddedInFront
<1> QED
  BY <1>2, <1>3, Fields DEF Memories

(* One iteration of the loops that unmap and free pages.                   *)
LEMMA UnmapPage ==
  ASSUME NEW p \in Pids, NEW pd, NEW M, Sound(p, pd, M), Present(M), NEW l \in Logical \ Kernel
  PROVE  /\ Sound(p, pd, unmap_and_free_page(M, l)) /\ Present(unmap_and_free_page(M, l))
         /\ unmap_and_free_page(M, l).table = Put(M.table, l, None)
<1>1. M \in Memories
  BY DEF Sound
<1>2. CASE M.table[l] = None
  <2>1. unmap_and_free_page(M, l) = M
    BY <1>2 DEF unmap_and_free_page
  <2>2. Put(M.table, l, None) = M.table
    BY <1>1, <1>2, Fields DEF Put
  <2> QED
    BY <2>1, <2>2
<1>3. CASE M.table[l] # None
  <2> DEFINE x == M.table[l]
             F == free_page(M, x)
             R == PutPage(F, l, None)
  <2>1. x \in Nat /\ None \in PageOrNone
    BY <1>1, <1>3, Fields DEF PageOrNone
  <2>2. /\ F \in Memories
        /\ F = [free |-> <<x>> \o M.free, end |-> M.end, npages |-> M.npages - 1,
                dir |-> M.dir, table |-> M.table]
    BY <2>1, <1>1, FreeFields
  <2>3. unmap_and_free_page(M, l) = R
    BY <1>3 DEF unmap_and_free_page, PutPage
  <2> HIDE DEF F
  <2>a. /\ R \in Memories
        /\ R = [free |-> F.free, end |-> F.end, npages |-> F.npages, dir |-> F.dir,
                table |-> Put(F.table, l, None)]
    BY <2>1, <2>2, SetPage
  <2> HIDE DEF R
  <2>4. /\ R.free = F.free /\ R.end = F.end /\ R.npages = F.npages /\ R.dir = F.dir
        /\ R.table = Put(F.table, l, None)
    BY <2>a
  <2> HIDE DEF x
  <2>5. /\ R.free = <<x>> \o M.free /\ R.end = M.end /\ R.npages = M.npages - 1 /\ R.dir = M.dir
        /\ R.table = Put(M.table, l, None)
    BY <2>2, <2>4
  <2>6. View(p, pd, R) = Put(View(p, pd, M), <<"page", p, l>>, None)
    BY <2>5, <1>1, ViewPage
  <2>7. View(p, pd, M)[<<"page", p, l>>] = x /\ <<"page", p, l>> \in AllUses /\ x # None
    BY <1>3, PageUse DEF x
  <2>8. Sound(p, pd, R)
    BY <2>a, <2>5, <2>6, <2>7, SoundFree
  <2>9. Present(R)
    BY <2>5, <1>1, PresentAfter
  <2> QED
    BY <2>3, <2>5, <2>8, <2>9
<1> QED
  BY <1>2, <1>3

-----------------------------------------------------------------------------
(***************************************************************************)
(* The loops of page.c. A recursive function over the numbers i .. j       *)
(* exists: the least number up to which there is none would contradict     *)
(* the function up to the number before.                                   *)
(***************************************************************************)
Step(op, M, n) ==
  CASE op = "new"      -> map_new_page(M, n)
    [] op = "identity" -> identity_page(M, n)
    [] op = "unmap"    -> unmap_and_free_page(M, n)
    [] op = "table"    -> free_table(M, n)

Computes(f, op, M, i, j) ==
  f = [n \in i .. j |-> IF n = i THEN M ELSE Step(op, f[n - 1], n - 1)]

(* The function exists.                                                    *)
LEMMA LoopExists ==
  ASSUME NEW op, NEW M, NEW i \in Nat, NEW j \in Nat, i <= j
  PROVE  \E f : Computes(f, op, M, i, j)
<1> DEFINE Fits(f, k) == f = [n \in i .. k |-> IF n = i THEN M ELSE Step(op, f[n - 1], n - 1)]
           Bad == {k \in Nat : i <= k /\ ~ \E f : Fits(f, k)}
<1>1. SUFFICES ASSUME Bad # {} PROVE FALSE
  BY DEF Bad, Computes
<1>2. PICK k \in Bad : \A y \in Bad : k <= y
  BY <1>1, LeastNat
<1>3. CASE k = i
  <2>1. Fits([n \in i .. i |-> M], i)
    OBVIOUS
  <2> QED
    BY <2>1, <1>2, <1>3
<1>4. CASE k # i
  <2>1. k \in Nat /\ i <= k - 1 /\ k - 1 \in Nat /\ ~ (k <= k - 1)
    BY <1>2, <1>4
  <2>2. PICK g : Fits(g, k - 1)
    BY <2>1, <1>2
  <2> DEFINE f == [n \in i .. k |-> IF n = k THEN Step(op, g[k - 1], k - 1) ELSE g[n]]
  <2>3. Fits(f, k)
    <3>1. ASSUME NEW n \in i .. k
          PROVE  f[n] = IF n = i THEN M ELSE Step(op, f[n - 1], n - 1)
      <4>1. n # k => n \in i .. (k - 1)
        BY <2>1
      <4>2. n # i => n - 1 \in i .. k /\ n - 1 # k /\ n - 1 \in i .. (k - 1)
        BY <2>1
      <4>3. n # i => f[n - 1] = g[n - 1]
        BY <4>2
      <4>4. n # k => g[n] = IF n = i THEN M ELSE Step(op, g[n - 1], n - 1)
        BY <4>1, <2>2
      <4> QED
        BY <4>3, <4>4, <1>4
    <3> QED
      BY <3>1
  <2> QED
    BY <2>3, <1>2
<1> QED
  BY <1>3, <1>4

(* f has the memory before and after each iteration.                       *)
Iterates(f, op, M, i, j) == f[i] = M /\ \A n \in i .. (j - 1) : f[n + 1] = Step(op, f[n], n)

LEMMA LoopIterates ==
  ASSUME NEW op, NEW M, NEW i \in Nat, NEW j \in Nat, i <= j, NEW f,
         Computes(f, op, M, i, j)
  PROVE  Iterates(f, op, M, i, j)
<1>1. i \in i .. j
  OBVIOUS
<1>2. f[i] = M
  BY <1>1 DEF Computes
<1>3. ASSUME NEW n \in i .. (j - 1)
      PROVE  f[n + 1] = Step(op, f[n], n)
  <2>1. n + 1 \in i .. j /\ n + 1 # i /\ (n + 1) - 1 = n
    OBVIOUS
  <2>2. f[n + 1] = Step(op, f[(n + 1) - 1], (n + 1) - 1)
    BY <2>1 DEF Computes
  <2> QED
    BY <2>1, <2>2
<1> QED
  BY <1>2, <1>3 DEF Iterates

(* What the four loops compute.                                            *)
LEMMA LoopOf ==
  ASSUME NEW M, NEW i \in Nat, NEW j \in Nat, i <= j
  PROVE  /\ \E f : Iterates(f, "new", M, i, j) /\ For(map_new_page, M, i, j) = f[j]
         /\ \E f : Iterates(f, "identity", M, i, j) /\ For(identity_page, M, i, j) = f[j]
         /\ \E f : Iterates(f, "unmap", M, i, j) /\ For(unmap_and_free_page, M, i, j) = f[j]
         /\ \E f : Iterates(f, "table", M, i, j) /\ For(free_table, M, i, j) = f[j]
<1>1. \E f : Iterates(f, "new", M, i, j) /\ For(map_new_page, M, i, j) = f[j]
  <2> DEFINE Fits(f) == f = [n \in i .. j |-> IF n = i THEN M ELSE map_new_page(f[n - 1], n - 1)]
             f == CHOOSE f : Fits(f)
  <2>1. For(map_new_page, M, i, j) = f[j]
    BY DEF For
  <2>2. \A N, n : Step("new", N, n) = map_new_page(N, n)
    BY DEF Step
  <2>3. PICK g : Computes(g, "new", M, i, j)
    BY LoopExists
  <2>4. Fits(g)
    BY <2>2, <2>3 DEF Computes
  <2>5. Fits(f)
    BY <2>4
  <2> HIDE DEF f
  <2>6. Computes(f, "new", M, i, j)
    BY <2>2, <2>5 DEF Computes
  <2> QED
    BY <2>1, <2>6, LoopIterates
<1>2. \E f : Iterates(f, "identity", M, i, j) /\ For(identity_page, M, i, j) = f[j]
  <2> DEFINE Fits(f) == f = [n \in i .. j |-> IF n = i THEN M ELSE identity_page(f[n - 1], n - 1)]
             f == CHOOSE f : Fits(f)
  <2>1. For(identity_page, M, i, j) = f[j]
    BY DEF For
  <2>2. \A N, n : Step("identity", N, n) = identity_page(N, n)
    BY DEF Step
  <2>3. PICK g : Computes(g, "identity", M, i, j)
    BY LoopExists
  <2>4. Fits(g)
    BY <2>2, <2>3 DEF Computes
  <2>5. Fits(f)
    BY <2>4
  <2> HIDE DEF f
  <2>6. Computes(f, "identity", M, i, j)
    BY <2>2, <2>5 DEF Computes
  <2> QED
    BY <2>1, <2>6, LoopIterates
<1>3. \E f : Iterates(f, "unmap", M, i, j) /\ For(unmap_and_free_page, M, i, j) = f[j]
  <2> DEFINE Fits(f) == f = [n \in i .. j |-> IF n = i THEN M ELSE unmap_and_free_page(f[n - 1], n - 1)]
             f == CHOOSE f : Fits(f)
  <2>1. For(unmap_and_free_page, M, i, j) = f[j]
    BY DEF For
  <2>2. \A N, n : Step("unmap", N, n) = unmap_and_free_page(N, n)
    BY DEF Step
  <2>3. PICK g : Computes(g, "unmap", M, i, j)
    BY LoopExists
  <2>4. Fits(g)
    BY <2>2, <2>3 DEF Computes
  <2>5. Fits(f)
    BY <2>4
  <2> HIDE DEF f
  <2>6. Computes(f, "unmap", M, i, j)
    BY <2>2, <2>5 DEF Computes
  <2> QED
    BY <2>1, <2>6, LoopIterates
<1>4. \E f : Iterates(f, "table", M, i, j) /\ For(free_table, M, i, j) = f[j]
  <2> DEFINE Fits(f) == f = [n \in i .. j |-> IF n = i THEN M ELSE free_table(f[n - 1], n - 1)]
             f == CHOOSE f : Fits(f)
  <2>1. For(free_table, M, i, j) = f[j]
    BY DEF For
  <2>2. \A N, n : Step("table", N, n) = free_table(N, n)
    BY DEF Step
  <2>3. PICK g : Computes(g, "table", M, i, j)
    BY LoopExists
  <2>4. Fits(g)
    BY <2>2, <2>3 DEF Computes
  <2>5. Fits(f)
    BY <2>4
  <2> HIDE DEF f
  <2>6. Computes(f, "table", M, i, j)
    BY <2>2, <2>5 DEF Computes
  <2> QED
    BY <2>1, <2>6, LoopIterates
<1> QED
  BY <1>1, <1>2, <1>3, <1>4

(* Induction from i to j, for sets.                                        *)
LEMMA Induct ==
  ASSUME NEW i \in Nat, NEW j \in Nat, i <= j, NEW G, i \in G,
         \A n \in i .. (j - 1) : n \in G => n + 1 \in G
  PROVE  j \in G
<1> DEFINE Bad == {n \in i .. j : n \notin G}
<1>1. SUFFICES ASSUME j \notin G PROVE FALSE
  OBVIOUS
<1>2. Bad \in SUBSET Nat /\ Bad # {}
  BY <1>1
<1>3. PICK k \in Bad : \A y \in Bad : k <= y
  BY <1>2, LeastNat
<1>4. k \in i .. j /\ k \notin G /\ k # i
  BY <1>3
<1>5. k - 1 \in i .. (j - 1) /\ (k - 1) + 1 = k /\ ~ (k <= k - 1) /\ k - 1 \in i .. j
  BY <1>4
<1>6. k - 1 \in G
  BY <1>3, <1>5
<1> QED
  BY <1>4, <1>5, <1>6

(* map_new_pages maps a page wherever it is told to, and changes nothing   *)
(* else.                                                                   *)
Vacant(M, S) == \A l \in S : l \in Logical \ Kernel /\ M.table[l] = None
Filled(M, R, S) ==
  \A l \in Logical : IF l \in S THEN R.table[l] # None ELSE R.table[l] = M.table[l]

LEMMA NewPages ==
  ASSUME NEW p \in Pids, NEW pd, NEW M, Sound(p, pd, M), Present(M),
         NEW i \in Nat, NEW j \in Nat, i <= j, Vacant(M, i .. (j - 1))
  PROVE  LET R == For(map_new_page, M, i, j) IN
         Sound(p, pd, R) /\ Present(R) /\ Filled(M, R, i .. (j - 1))
<1>1. PICK f : Iterates(f, "new", M, i, j) /\ For(map_new_page, M, i, j) = f[j]
  BY LoopOf
<1> DEFINE Good(n) == /\ Sound(p, pd, f[n]) /\ Present(f[n])
                      /\ \A l \in Logical : IF l \in i .. (n - 1) THEN f[n].table[l] # None
                                            ELSE f[n].table[l] = M.table[l]
           G == {n \in i .. j : Good(n)}
<1>2. f[i] = M /\ \A n \in i .. (j - 1) : f[n + 1] = map_new_page(f[n], n)
  BY <1>1 DEF Iterates, Step
<1>3. i \in G
  <2>1. \A l \in Logical : l \notin i .. (i - 1)
    OBVIOUS
  <2> QED
    BY <1>2, <2>1
<1>4. ASSUME NEW n \in i .. (j - 1), n \in G
      PROVE  n + 1 \in G
  <2>1. n \in Logical \ Kernel /\ M.table[n] = None /\ n \notin i .. (n - 1) /\ n + 1 \in i .. j
    BY DEF Vacant
  <2> DEFINE N == f[n]
             R == map_new_page(N, n)
  <2>2. Sound(p, pd, N) /\ Present(N) /\ N.table[n] = None
    BY <1>4, <2>1
  <2>3. \A l \in Logical : IF l \in i .. (n - 1) THEN N.table[l] # None ELSE N.table[l] = M.table[l]
    BY <1>4
  <2>4. f[n + 1] = R
    BY <1>2
  <2> HIDE DEF N, R
  <2>5. Sound(p, pd, R) /\ Present(R)
    BY <2>1, <2>2, NewPage DEF R
  <2>6. PICK x \in Nat : R.table = Put(N.table, n, x)
    BY <2>1, <2>2, NewPage DEF R
  <2>7. DOMAIN N.table = Logical /\ x # None
    BY <2>2, Fields, FirstFacts DEF Sound
  <2>8. \A l \in Logical : R.table[l] = IF l = n THEN x ELSE N.table[l]
    BY <2>1, <2>6, <2>7, PutAt
  <2>9. \A l \in Logical : l \in i .. (n + 1 - 1) <=> l = n \/ l \in i .. (n - 1)
    BY <2>1, TableOf
  <2>10. \A l \in Logical : IF l \in i .. (n + 1 - 1) THEN R.table[l] # None
                            ELSE R.table[l] = M.table[l]
    BY <2>3, <2>7, <2>8, <2>9
  <2> QED
    BY <2>1, <2>4, <2>5, <2>10
<1> HIDE DEF G
<1>5. j \in G
  BY <1>3, <1>4, Induct
<1> QED
  BY <1>1, <1>5 DEF G, Filled

(* identity_map maps the kernel's pages where they are.                    *)
Identical(M, R, S) == \A l \in Logical : R.table[l] = IF l \in S THEN l ELSE M.table[l]

LEMMA IdentityPages ==
  ASSUME NEW p \in Pids, NEW pd, NEW M, Sound(p, pd, M), Present(M),
         NEW i \in Nat, NEW j \in Nat, i <= j,
         i .. (j - 1) \subseteq Kernel, Kernel \subseteq Logical
  PROVE  LET R == For(identity_page, M, i, j) IN
         Sound(p, pd, R) /\ Present(R) /\ Identical(M, R, i .. (j - 1))
<1>1. PICK f : Iterates(f, "identity", M, i, j) /\ For(identity_page, M, i, j) = f[j]
  BY LoopOf
<1> DEFINE Good(n) == /\ Sound(p, pd, f[n]) /\ Present(f[n])
                      /\ \A l \in Logical : f[n].table[l] = IF l \in i .. (n - 1) THEN l
                                                            ELSE M.table[l]
           G == {n \in i .. j : Good(n)}
<1>2. f[i] = M /\ \A n \in i .. (j - 1) : f[n + 1] = identity_page(f[n], n)
  BY <1>1 DEF Iterates, Step
<1>3. i \in G
  <2>1. \A l \in Logical : l \notin i .. (i - 1)
    OBVIOUS
  <2> QED
    BY <1>2, <2>1
<1>4. ASSUME NEW n \in i .. (j - 1), n \in G
      PROVE  n + 1 \in G
  <2>1. n \in Logical /\ n \in Kernel /\ n + 1 \in i .. j
    OBVIOUS
  <2> DEFINE N == f[n]
             R == identity_page(N, n)
  <2>2. Sound(p, pd, N) /\ Present(N)
    BY <1>4
  <2>3. \A l \in Logical : N.table[l] = IF l \in i .. (n - 1) THEN l ELSE M.table[l]
    BY <1>4
  <2>4. f[n + 1] = R
    BY <1>2
  <2> HIDE DEF N, R
  <2>5. Sound(p, pd, R) /\ Present(R) /\ R.table = Put(N.table, n, n)
    BY <2>1, <2>2, IdentityPage DEF R
  <2>7. DOMAIN N.table = Logical
    BY <2>2, Fields DEF Sound
  <2>8. \A l \in Logical : R.table[l] = IF l = n THEN n ELSE N.table[l]
    BY <2>1, <2>5, <2>7, PutAt
  <2>9. \A l \in Logical : l \in i .. (n + 1 - 1) <=> l = n \/ l \in i .. (n - 1)
    BY <2>1, TableOf
  <2>10. \A l \in Logical : R.table[l] = IF l \in i .. (n + 1 - 1) THEN l ELSE M.table[l]
    BY <2>3, <2>8, <2>9
  <2> QED
    BY <2>1, <2>4, <2>5, <2>10
<1> HIDE DEF G
<1>5. j \in G
  BY <1>3, <1>4, Induct
<1> QED
  BY <1>1, <1>5 DEF G, Identical

(* The loops that unmap pages leave none there and the others alone.       *)
Emptied(M, R, S) == \A l \in Logical : R.table[l] = IF l \in S THEN None ELSE M.table[l]

LEMMA UnmapPages ==
  ASSUME NEW p \in Pids, NEW pd, NEW M, Sound(p, pd, M), Present(M),
         NEW i \in Nat, NEW j \in Nat, i <= j, i .. (j - 1) \subseteq Logical \ Kernel
  PROVE  LET R == For(unmap_and_free_page, M, i, j) IN
         Sound(p, pd, R) /\ Present(R) /\ Emptied(M, R, i .. (j - 1))
<1>1. PICK f : Iterates(f, "unmap", M, i, j) /\ For(unmap_and_free_page, M, i, j) = f[j]
  BY LoopOf
<1> DEFINE Good(n) == /\ Sound(p, pd, f[n]) /\ Present(f[n])
                      /\ \A l \in Logical : f[n].table[l] = IF l \in i .. (n - 1) THEN None
                                                            ELSE M.table[l]
           G == {n \in i .. j : Good(n)}
<1>2. f[i] = M /\ \A n \in i .. (j - 1) : f[n + 1] = unmap_and_free_page(f[n], n)
  BY <1>1 DEF Iterates, Step
<1>3. i \in G
  <2>1. \A l \in Logical : l \notin i .. (i - 1)
    OBVIOUS
  <2> QED
    BY <1>2, <2>1
<1>4. ASSUME NEW n \in i .. (j - 1), n \in G
      PROVE  n + 1 \in G
  <2>1. n \in Logical \ Kernel /\ n + 1 \in i .. j
    OBVIOUS
  <2> DEFINE N == f[n]
             R == unmap_and_free_page(N, n)
  <2>2. Sound(p, pd, N) /\ Present(N)
    BY <1>4
  <2>3. \A l \in Logical : N.table[l] = IF l \in i .. (n - 1) THEN None ELSE M.table[l]
    BY <1>4
  <2>4. f[n + 1] = R
    BY <1>2
  <2> HIDE DEF N, R
  <2>5. Sound(p, pd, R) /\ Present(R) /\ R.table = Put(N.table, n, None)
    BY <2>1, <2>2, UnmapPage DEF R
  <2>7. DOMAIN N.table = Logical
    BY <2>2, Fields DEF Sound
  <2>8. \A l \in Logical : R.table[l] = IF l = n THEN None ELSE N.table[l]
    BY <2>1, <2>5, <2>7, PutAt
  <2>9. \A l \in Logical : l \in i .. (n + 1 - 1) <=> l = n \/ l \in i .. (n - 1)
    BY <2>1, TableOf
  <2>10. \A l \in Logical : R.table[l] = IF l \in i .. (n + 1 - 1) THEN None ELSE M.table[l]
    BY <2>3, <2>8, <2>9
  <2> QED
    BY <2>1, <2>4, <2>5, <2>10
<1> HIDE DEF G
<1>5. j \in G
  BY <1>3, <1>4, Induct
<1> QED
  BY <1>1, <1>5 DEF G, Emptied

(* free_page_dir frees the page tables; N has the tables that are left.    *)
WithDir(N, D) == [N EXCEPT !.dir = D]

LEMMA SetDir ==
  ASSUME NEW N \in Memories, NEW D \in [Tables -> PageOrNone]
  PROVE  /\ WithDir(N, D) \in Memories
         /\ WithDir(N, D) = [free |-> N.free, end |-> N.end, npages |-> N.npages,
                             dir |-> D, table |-> N.table]
<1>1. N = [free |-> N.free, end |-> N.end, npages |-> N.npages, dir |-> N.dir, table |-> N.table]
  BY DEF Memories
<1>2. WithDir(N, D) = [free |-> N.free, end |-> N.end, npages |-> N.npages,
                       dir |-> D, table |-> N.table]
  BY <1>1 DEF WithDir
<1> QED
  BY <1>2, Fields DEF Memories

(* When the loop of free_page_dir has ended, memory is sound without the   *)
(* tables.                                                                 *)
LEMMA FreedTables ==
  ASSUME NEW p \in Pids, NEW pd, NEW M, Sound(p, pd, M)
  PROVE  /\ FreeTables(M) \in Memories /\ FreeTables(M).table = M.table
         /\ Sound(p, pd, WithDir(FreeTables(M), NoTables))
<1> DEFINE D(n) == [d \in Tables |-> IF d < n THEN None ELSE M.dir[d]]
<1>0. M \in Memories /\ M.dir \in [Tables -> PageOrNone] /\ None \in PageOrNone
  BY Fields DEF Sound, PageOrNone
<1>a. NTables \in Nat /\ 0 <= NTables /\ Tables = 0 .. (NTables - 1)
  BY Words DEF Tables
<1>1. PICK f : Iterates(f, "table", M, 0, NTables) /\ FreeTables(M) = f[NTables]
  <2>1. 0 \in Nat
    OBVIOUS
  <2> QED
    BY <1>a, <2>1, LoopOf DEF FreeTables
<1> DEFINE Good(n) == /\ f[n] \in Memories /\ f[n].table = M.table /\ f[n].dir = M.dir
                      /\ Sound(p, pd, WithDir(f[n], D(n)))
           G == {n \in 0 .. NTables : Good(n)}
<1>2. f[0] = M /\ \A n \in 0 .. (NTables - 1) : f[n + 1] = free_table(f[n], n)
  BY <1>1 DEF Iterates, Step
<1>b. \A n : D(n) \in [Tables -> PageOrNone]
  BY <1>0
<1>3. 0 \in G
  <2>1. \A d \in Tables : ~ (d < 0)
    BY <1>a
  <2>2. D(0) = M.dir
    BY <1>0, <2>1
  <2>3. WithDir(M, M.dir) = M
    BY <1>0, SetDir DEF Memories
  <2> QED
    BY <1>a, <1>0, <1>2, <2>2, <2>3
<1>4. ASSUME NEW n \in 0 .. (NTables - 1), n \in G
      PROVE  n + 1 \in G
  <2> DEFINE N == f[n]
             R == free_table(N, n)
             x == M.dir[n]
             C == WithDir(N, D(n))
             E == WithDir(R, D(n + 1))
  <2>1. n \in Tables /\ n + 1 \in 0 .. NTables /\ f[n + 1] = R
    BY <1>a, <1>2
  <2>2. N \in Memories /\ N.table = M.table /\ N.dir = M.dir /\ Sound(p, pd, C)
    BY <1>4
  <2>3. D(n + 1) = Put(D(n), n, None)
    <3>1. \A d \in Tables : (d < n + 1 <=> d = n \/ d < n) /\ ~ (n < n)
      BY <1>a, <2>1
    <3> QED
      BY <2>1, <3>1 DEF Put
  <2>4. D(n)[n] = x
    BY <2>1
  <2>5. C \in Memories /\ C.free = N.free /\ C.end = N.end /\ C.npages = N.npages
        /\ C.dir = D(n) /\ C.table = M.table
    BY <2>2, <1>b, SetDir
  <2>6. CASE x = None
    <3>1. R = N
      BY <2>2, <2>6 DEF free_table
    <3>2. D(n + 1) = D(n)
      BY <2>3, <2>4, <2>6, <1>b DEF Put
    <3> QED
      BY <2>1, <2>2, <3>1, <3>2
  <2>7. CASE x # None
    <3>1. x \in Nat
      BY <1>0, <2>1, <2>7 DEF PageOrNone
    <3>2. R = free_page(N, x)
      BY <2>2, <2>7 DEF free_table
    <3> HIDE DEF C, E, R, N, x, D
    <3>b. /\ R \in Memories
          /\ R = [free |-> <<x>> \o N.free, end |-> N.end, npages |-> N.npages - 1,
                  dir |-> N.dir, table |-> N.table]
      BY <2>2, <3>1, <3>2, FreeFields
    <3>3. R \in Memories /\ R.free = <<x>> \o N.free /\ R.end = N.end /\ R.npages = N.npages - 1
          /\ R.dir = M.dir /\ R.table = M.table
      BY <2>2, <3>b
    <3>a. D(n + 1) \in [Tables -> PageOrNone]
      BY <1>b
    <3>4. /\ E \in Memories
          /\ E = [free |-> R.free, end |-> R.end, npages |-> R.npages,
                  dir |-> D(n + 1), table |-> R.table]
      BY <3>3, <3>a, SetDir DEF E
    <3>5. E.free = <<x>> \o C.free /\ E.end = C.end /\ E.npages = C.npages - 1
          /\ E.dir = Put(C.dir, n, None) /\ E.table = C.table
      BY <3>3, <3>4, <2>3, <2>5
    <3>6. View(p, pd, E) = Put(View(p, pd, C), <<"table", p, n>>, None)
      BY <2>1, <2>5, <3>5, ViewTable
    <3>7. <<"table", p, n>> \in AllUses /\ View(p, pd, C)[<<"table", p, n>>] = x
      BY <2>1, <2>4, <2>5, TableUse
    <3>8. Sound(p, pd, E)
      BY <2>2, <2>7, <3>4, <3>5, <3>6, <3>7, SoundFree
    <3> QED
      BY <2>1, <3>3, <3>8 DEF E
  <2> QED
    BY <2>6, <2>7
<1> HIDE DEF G
<1>5. NTables \in G
  BY <1>a, <1>3, <1>4, Induct
<1>6. D(NTables) = NoTables
  BY <1>a DEF NoTables
<1> QED
  BY <1>1, <1>5, <1>6 DEF G
-----------------------------------------------------------------------------
(***************************************************************************)
(* Segments.                                                               *)
(***************************************************************************)
LEMMA Multiple ==
  ASSUME NEW a \in Nat, NEW c \in Nat \ {0}
  PROVE  /\ a \div c \in Nat /\ a % c \in 0 .. (c - 1) /\ a = (a \div c) * c + (a % c)
         /\ (a * c) % c = 0
  BY Z3

LEMMA NotAbove ==
  ASSUME NEW x \in Int, NEW y \in Int, NEW c \in Nat \ {0}, x * c < (y + 1) * c
  PROVE  x <= y
  BY Z3

(* Sums of page boundaries are page boundaries.                            *)
LEMMA SumAligned ==
  ASSUME NEW a \in Nat, NEW b \in Nat, Aligned(a), Aligned(b)
  PROVE  Aligned(a + b)
<1> DEFINE P == PAGE_SIZE
           x == a \div P
           y == b \div P
<1>1. P \in Nat \ {0} /\ x \in Nat /\ y \in Nat /\ a = x * P /\ b = y * P
  BY Numbers, Multiple DEF Aligned
<1> HIDE DEF x, y, P
<1>2. a + b = (x + y) * P
  BY <1>1, Z3
<1>3. ((x + y) * P) % P = 0
  <2> DEFINE z == x + y
  <2>1. z \in Nat
    BY <1>1
  <2> HIDE DEF z
  <2>2. (z * P) % P = 0
    BY <2>1, <1>1, Multiple
  <2> QED
    BY <2>2 DEF z
<1> QED
  BY <1>2, <1>3 DEF Aligned, P

(* The next page boundary.                                                 *)
LEMMA NextBoundary ==
  ASSUME NEW a \in Nat, NEW b \in Nat, a <= b, Aligned(b), ~ Aligned(a)
  PROVE  LET c == (a \div PAGE_SIZE + 1) * PAGE_SIZE IN c \in Nat /\ a <= c /\ c <= b /\ Aligned(c)
<1> DEFINE P == PAGE_SIZE
           x == a \div P
           y == b \div P
           r == a % P
<1>a. P \in Nat \ {0} /\ b % P = 0 /\ r # 0
  BY Numbers DEF Aligned
<1>b. x \in Nat /\ r \in 0 .. (P - 1) /\ a = x * P + r
  BY <1>a, Multiple
<1>c. y \in Nat /\ b = y * P + (b % P)
  BY <1>a, Multiple
<1>1. P \in Nat \ {0} /\ x \in Nat /\ y \in Nat /\ r \in 1 .. (P - 1) /\ a = x * P + r /\ b = y * P
  <2> HIDE DEF x, y, P, r
  <2>1. y * P \in Nat
    BY <1>a, <1>c
  <2> QED
    BY <1>a, <1>b, <1>c, <2>1
<1> HIDE DEF x, y, P, r
<1>2. x * P < y * P
  BY <1>1, Z3
<1>3. x < y
  BY <1>1, <1>2, Z3
<1>4. (x + 1) * P <= y * P
  BY <1>1, <1>3, Z3
<1>5. x * P + r <= (x + 1) * P /\ (x + 1) * P \in Nat
  BY <1>1, Z3
<1>6. x + 1 \in Nat
  BY <1>1
<1>7. ((x + 1) * P) % P = 0
  BY <1>1, <1>6, Multiple
<1> QED
  BY <1>1, <1>4, <1>5, <1>7 DEF Aligned, x, P

(* brk rounds up to a page boundary that is not above the limit, without   *)
(* overflow.                                                               *)
LEMMA RoundUpFacts ==
  ASSUME NEW end \in BrkEnds
  PROVE  /\ RoundUp(end) \in Nat /\ end \in Nat /\ end <= RoundUp(end)
         /\ RoundUp(end) <= DATA_BASE + DATA_MAX /\ Aligned(RoundUp(end))
<1> DEFINE c == (end \div PAGE_SIZE + 1) * PAGE_SIZE
<1>1. end \in Nat /\ end <= DATA_BASE + DATA_MAX
  BY SpaceAssumption
<1>2. DATA_BASE + DATA_MAX \in Nat /\ Aligned(DATA_BASE + DATA_MAX) /\ DATA_BASE + DATA_MAX < WORD
  BY Numbers, Order, SumAligned
<1>3. CASE Aligned(end)
  BY <1>1, <1>3 DEF RoundUp
<1>4. CASE ~ Aligned(end)
  <2>1. c \in Nat /\ end <= c /\ c <= DATA_BASE + DATA_MAX /\ Aligned(c)
    BY <1>1, <1>2, <1>4, NextBoundary
  <2> HIDE DEF c
  <2>2. c \in Nat /\ c < WORD /\ WORD \in Nat
    BY <2>1, <1>2, Numbers
  <2>3. c % WORD = c
    BY <2>2
  <2>4. RoundUp(end) = c
    BY <1>4, <2>3 DEF RoundUp, c
  <2> QED
    BY <2>1, <2>4, <1>1
<1> QED
  BY <1>3, <1>4

(* The text segment ends at a page boundary before the data segment.       *)
LEMMA TextEndFacts ==
  ASSUME NEW size \in Images
  PROVE  TextEnd(size) \in TEXT_BASE .. DATA_BASE /\ Aligned(TextEnd(size))
<1> DEFINE P == PAGE_SIZE
           m == size + P - 1
           n == m \div P
           t == TEXT_BASE \div P
           d == DATA_BASE \div P
<1>1. size \in Nat /\ TEXT_BASE + size <= DATA_BASE
  BY SpaceAssumption
<1>2. P \in Nat \ {0} /\ t \in Nat /\ d \in Nat /\ TEXT_BASE = t * P /\ DATA_BASE = d * P
  BY Numbers, Multiple DEF Aligned
<1>3. m \in Nat
  BY <1>1, <1>2
<1>4. n \in Nat /\ n * P <= m
  <2> HIDE DEF P, m
  <2>1. n \in Nat /\ m % P \in 0 .. (P - 1) /\ m = n * P + (m % P)
    BY <1>2, <1>3, Multiple
  <2> HIDE DEF n
  <2>2. n * P \in Nat /\ m % P \in Nat
    BY <2>1, <1>2
  <2> QED
    BY <2>1, <2>2
<1>5. TextEnd(size) = TEXT_BASE + n * P
  BY DEF TextEnd
<1>6. TEXT_BASE \in Nat /\ DATA_BASE \in Nat
  BY Numbers
<1> HIDE DEF P, m, n, t, d
<1>7. (t + n) * P < (d + 1) * P
  <2>1. (t + n) * P = t * P + n * P /\ (d + 1) * P = d * P + P
    BY <1>2, <1>4, Z3
  <2>2. m = size + P - 1 /\ n * P \in Nat
    BY <1>2, <1>4 DEF m
  <2> QED
    BY <2>1, <2>2, <1>1, <1>2, <1>4, <1>6
<1>8. t + n <= d
  BY <1>2, <1>4, <1>7, NotAbove
<1>9. (t + n) * P <= d * P /\ (t + n) * P = t * P + n * P /\ n * P \in Nat
  BY <1>2, <1>4, <1>8, Z3
<1>10. ((t + n) * P) % P = 0
  <2> DEFINE z == t + n
  <2>1. z \in Nat
    BY <1>2, <1>4
  <2> HIDE DEF z
  <2>2. (z * P) % P = 0
    BY <2>1, <1>2, Multiple
  <2> QED
    BY <2>2 DEF z
<1> QED
  BY <1>2, <1>5, <1>6, <1>9, <1>10 DEF Aligned, P

(* The segments are apart from each other and from the kernel.             *)
LEMMA Segments ==
  ASSUME NEW te \in TEXT_BASE .. DATA_BASE, NEW de \in DATA_BASE .. (DATA_BASE + DATA_MAX)
  PROVE  /\ Kernel \subseteq Logical
         /\ Pages(TEXT_BASE, te) \subseteq Logical \ Kernel
         /\ Pages(DATA_BASE, de) \subseteq Logical \ Kernel
         /\ Stack \subseteq Logical \ Kernel
         /\ Pages(TEXT_BASE, te) \cap Pages(DATA_BASE, de) = {}
         /\ Pages(TEXT_BASE, te) \cap Stack = {}
         /\ Pages(DATA_BASE, de) \cap Stack = {}
         /\ Kernel = 0 .. (First - 1)
<1> DEFINE P == PAGE_SIZE
           s == STACK_BASE - STACK_SIZE
<1>1. /\ te \in Nat /\ de \in Nat /\ s \in Nat
      /\ PAGE_START <= TEXT_BASE /\ TEXT_BASE <= te /\ te <= DATA_BASE /\ DATA_BASE <= de
      /\ de <= s /\ s <= STACK_BASE /\ STACK_BASE <= WORD
  BY Numbers, Order
<1>2. P \in Nat \ {0} /\ 0 \div P = 0
  BY Numbers, Z3
<1> HIDE DEF P, s
<1>3. PAGE_START \div P \in Nat /\ PAGE_START \div P <= TEXT_BASE \div P /\ TEXT_BASE \div P \in Nat
  BY <1>1, <1>2, Numbers, DivMono
<1>4. TEXT_BASE \div P <= te \div P /\ te \div P \in Nat
  BY <1>1, <1>2, Numbers, DivMono
<1>5. te \div P <= DATA_BASE \div P /\ DATA_BASE \div P \in Nat
  BY <1>1, <1>2, Numbers, DivMono
<1>6. DATA_BASE \div P <= de \div P /\ de \div P \in Nat
  BY <1>1, <1>2, Numbers, DivMono
<1>7. de \div P <= s \div P /\ s \div P \in Nat
  BY <1>1, <1>2, Numbers, DivMono
<1>8. s \div P <= STACK_BASE \div P /\ STACK_BASE \div P \in Nat
  BY <1>1, <1>2, Numbers, DivMono
<1>9. STACK_BASE \div P <= WORD \div P /\ WORD \div P \in Nat
  BY <1>1, <1>2, Numbers, DivMono
<1> DEFINE k == PAGE_START \div P
           t0 == TEXT_BASE \div P
           t1 == te \div P
           d0 == DATA_BASE \div P
           d1 == de \div P
           s0 == s \div P
           s1 == STACK_BASE \div P
           w == WORD \div P
<1>10. /\ k \in Nat /\ t0 \in Nat /\ t1 \in Nat /\ d0 \in Nat /\ d1 \in Nat /\ s0 \in Nat
       /\ s1 \in Nat /\ w \in Nat
       /\ k <= t0 /\ t0 <= t1 /\ t1 <= d0 /\ d0 <= d1 /\ d1 <= s0 /\ s0 <= s1 /\ s1 <= w
  BY <1>3, <1>4, <1>5, <1>6, <1>7, <1>8, <1>9
<1>11. /\ Kernel = 0 .. (k - 1) /\ First = k /\ Logical = 0 .. (w - 1) /\ Stack = s0 .. (s1 - 1)
       /\ Pages(TEXT_BASE, te) = t0 .. (t1 - 1) /\ Pages(DATA_BASE, de) = d0 .. (d1 - 1)
  BY <1>2 DEF Kernel, First, Logical, Stack, Pages, P, s
<1> HIDE DEF k, t0, t1, d0, d1, s0, s1, w
<1> QED
  BY <1>10, <1>11

(***************************************************************************)
(* Counting.                                                               *)
(***************************************************************************)
LEMMA ListCounted ==
  ASSUME NEW s \in Seq(Nat), IsInjective(s)
  PROVE  Cardinality(ToSet(s)) = Len(s) /\ Len(s) \in Nat
<1> DEFINE n == Len(s)
           f == [i \in 1 .. n |-> s[i]]
<1>1. n \in Nat
  BY LenProperties
<1>2. ToSet(s) = {s[i] : i \in 1 .. n} /\ \A i, j \in 1 .. n : s[i] = s[j] => i = j
  BY InList
<1> HIDE DEF n
<1>3. f \in Bijection(1 .. n, ToSet(s))
  BY <1>2 DEF Bijection, Injection, Surjection, IsInjective
<1> QED
  BY <1>1, <1>3, FS_CountingElements DEF ExistsBijection, n

(* As many pages are in use as were handed out and are not free.           *)
LEMMA UsesCounted ==
  ASSUME NEW V, NEW s \in Seq(Nat), NEW e \in Nat, First <= e, Consistent(V, s, e)
  PROVE  LET U == {u \in AllUses : V[u] # None} IN
         Cardinality(U) \in Nat /\ Cardinality(U) + Len(s) = e - First
<1> DEFINE U == {u \in AllUses : V[u] # None}
           I == First .. (e - 1)
           F == ToSet(s)
           f == [u \in U |-> V[u]]
<1>1. /\ \A v, w \in AllUses : V[v] = V[w] /\ V[v] # None => v = w
      /\ \A v \in AllUses : V[v] \notin F
      /\ IsInjective(s)
  BY DEF Consistent
<1>2. /\ \A v \in AllUses : V[v] # None => V[v] \in I
      /\ \A g \in F : g \in I
      /\ \A g \in I : g # None /\ (g \in F \/ \E v \in AllUses : V[v] = g)
  BY Covered DEF Consistent
<1>3. First \in Int /\ e - 1 \in Int /\ (First > e - 1 => e = First)
  BY FirstFacts
<1>4. IsFiniteSet(I) /\ Cardinality(I) = IF First > e - 1 THEN 0 ELSE (e - 1) - First + 1
  BY <1>3, FS_Interval
<1>5. Cardinality(I) = e - First
  BY <1>3, <1>4, FirstFacts
<1>6. Cardinality(F) = Len(s) /\ Len(s) \in Nat
  BY <1>1, ListCounted
<1> HIDE DEF I, F
<1>7. I \cap F = F
  BY <1>2
<1>a. IsFiniteSet(I \ F) /\ Cardinality(I \ F) = Cardinality(I) - Cardinality(I \cap F)
  BY <1>4, FS_Difference
<1>8. IsFiniteSet(I \ F) /\ Cardinality(I \ F) = (e - First) - Len(s)
  BY <1>a, <1>5, <1>6, <1>7
<1>9. f \in [U -> I \ F]
  BY <1>1, <1>2
<1>10. \A v, w \in U : f[v] = f[w] => v = w
  BY <1>1
<1>11. \A g \in I \ F : \E u \in U : f[u] = g
  BY <1>2
<1> HIDE DEF f, U
<1>12. f \in Injection(U, I \ F) /\ f \in Surjection(U, I \ F)
  BY <1>9, <1>10, <1>11 DEF Injection, Surjection, IsInjective
<1>13. IsFiniteSet(U) /\ Cardinality(U) = Cardinality(I \ F)
  BY <1>8, <1>12, FS_Injection
<1>14. Cardinality(U) \in Nat
  BY <1>13, FS_CardinalityType
<1>15. Cardinality(U) + Len(s) = e - First
  BY <1>6, <1>8, <1>13, <1>14, FirstFacts
<1> QED
  BY <1>14, <1>15 DEF U

(* So free_page never runs out of pages to free.                           *)
LEMMA CountNotNegative ==
  ASSUME NEW p \in Pids, NEW pd, NEW M, Sound(p, pd, M)
  PROVE  M.npages \in Nat /\ free_asserts(M)
<1> DEFINE V == View(p, pd, M)
           c == Cardinality({u \in AllUses : V[u] # None})
<1>1. M \in Memories /\ First <= M.end /\ Consistent(V, M.free, M.end)
      /\ M.npages + Len(M.free) = M.end - First
  BY DEF Sound
<1>2. M.free \in Seq(Nat) /\ M.end \in Nat /\ M.npages \in Int /\ Len(M.free) \in Nat
  BY <1>1, Fields
<1> HIDE DEF V
<1>3. c \in Nat /\ c + Len(M.free) = M.end - First
  BY <1>1, <1>2, UsesCounted
<1> HIDE DEF c
<1>4. M.npages = c
  BY <1>1, <1>2, <1>3, FirstFacts
<1> QED
  BY <1>3, <1>4 DEF free_asserts

-----------------------------------------------------------------------------
(***************************************************************************)
(* The same loops on addresses.                                            *)
(***************************************************************************)
LEMMA PagesMapped ==
  ASSUME NEW p \in Pids, NEW pd, NEW M, Sound(p, pd, M), Present(M),
         NEW a \in Nat, NEW b \in Nat, a <= b,
         Pages(a, b) \subseteq Logical \ Kernel,
         \A l \in Pages(a, b) : M.table[l] = None
  PROVE  LET R == map_new_pages(M, a, b) IN
         /\ Sound(p, pd, R) /\ Present(R)
         /\ \A l \in Logical : IF l \in Pages(a, b) THEN R.table[l] # None
                                                    ELSE R.table[l] = M.table[l]
<1> DEFINE i == a \div PAGE_SIZE
           j == b \div PAGE_SIZE
<1>1. i \in Nat /\ j \in Nat /\ i <= j
  BY Numbers, DivMono
<1>2. Pages(a, b) = i .. (j - 1) /\ map_new_pages(M, a, b) = For(map_new_page, M, i, j)
  BY DEF Pages, map_new_pages
<1> HIDE DEF i, j
<1>3. Vacant(M, i .. (j - 1))
  BY <1>2 DEF Vacant
<1> DEFINE R == For(map_new_page, M, i, j)
<1>4. Sound(p, pd, R) /\ Present(R) /\ Filled(M, R, i .. (j - 1))
  BY <1>1, <1>3, NewPages
<1> HIDE DEF R
<1> QED
  BY <1>2, <1>4 DEF R, Filled

(* identity_map on the kernel's memory.                                    *)
LEMMA KernelMapped ==
  ASSUME NEW p \in Pids, NEW pd, NEW M, Sound(p, pd, M), Present(M), Kernel \subseteq Logical
  PROVE  LET R == identity_map(M, 0, PAGE_START) IN
         /\ Sound(p, pd, R) /\ Present(R)
         /\ \A l \in Logical : R.table[l] = IF l \in Kernel THEN l ELSE M.table[l]
<1> DEFINE i == 0 \div PAGE_SIZE
           j == PAGE_START \div PAGE_SIZE
<1>1. i \in Nat /\ j \in Nat /\ i <= j
  <2>1. 0 \in Nat /\ 0 <= PAGE_START
    BY Numbers
  <2> QED
    BY <2>1, Numbers, DivMono
<1>2. Kernel = i .. (j - 1) /\ identity_map(M, 0, PAGE_START) = For(identity_page, M, i, j)
  BY DEF Kernel, Pages, identity_map
<1> HIDE DEF i, j
<1>3. i .. (j - 1) \subseteq Kernel
  BY <1>2
<1> DEFINE R == For(identity_page, M, i, j)
<1>4. Sound(p, pd, R) /\ Present(R) /\ Identical(M, R, i .. (j - 1))
  BY <1>1, <1>3, IdentityPages
<1> HIDE DEF R
<1> QED
  BY <1>2, <1>4 DEF R, Identical

(* The loops of kill_process and execve.                                   *)
LEMMA PagesUnmapped ==
  ASSUME NEW p \in Pids, NEW pd, NEW M, Sound(p, pd, M), Present(M),
         NEW a \in Nat, NEW b \in Nat, a <= b, Pages(a, b) \subseteq Logical \ Kernel
  PROVE  LET R == unmap_pages(M, a, b) IN
         /\ Sound(p, pd, R) /\ Present(R)
         /\ \A l \in Logical : R.table[l] = IF l \in Pages(a, b) THEN None ELSE M.table[l]
<1> DEFINE i == a \div PAGE_SIZE
           j == b \div PAGE_SIZE
<1>1. i \in Nat /\ j \in Nat /\ i <= j
  BY Numbers, DivMono
<1>2. Pages(a, b) = i .. (j - 1) /\ unmap_pages(M, a, b) = For(unmap_and_free_page, M, i, j)
  BY DEF Pages, unmap_pages
<1> HIDE DEF i, j
<1>3. i .. (j - 1) \subseteq Logical \ Kernel
  BY <1>2
<1> DEFINE R == For(unmap_and_free_page, M, i, j)
<1>4. Sound(p, pd, R) /\ Present(R) /\ Emptied(M, R, i .. (j - 1))
  BY <1>1, <1>3, UnmapPages
<1> HIDE DEF R
<1> QED
  BY <1>2, <1>4 DEF R, Emptied

-----------------------------------------------------------------------------

(***************************************************************************)
(* Between operations: the memory of one process and the state.            *)
(***************************************************************************)
LEMMA Layout ==
  Kernel \subseteq Logical /\ Stack \subseteq Logical \ Kernel /\ Kernel = 0 .. (First - 1)
<1>1. TEXT_BASE \in TEXT_BASE .. DATA_BASE /\ DATA_BASE \in DATA_BASE .. (DATA_BASE + DATA_MAX)
  BY Numbers, Order
<1> QED
  BY <1>1, Segments

(* What TypeOK says of one process.                                        *)
LEMMA ProcessTypes ==
  ASSUME TypeOK, NEW p \in Pids
  PROVE  /\ pdir[p] \in PageOrNone /\ dir[p] \in [Tables -> PageOrNone]
         /\ table[p] \in [Logical -> PageOrNone]
<1>1. page_end \in Nat
  BY DEF TypeOK
<1>2. Entries \subseteq PageOrNone
  BY <1>1 DEF Entries, PageOrNone
<1>3. pdir[p] \in Entries /\ dir[p] \in [Tables -> Entries] /\ table[p] \in [Logical -> Entries]
  BY DEF TypeOK
<1> QED
  BY <1>2, <1>3

(* Between operations the memory of every process is sound.                *)
LEMMA StateSound ==
  ASSUME AddressInv, NEW p \in Pids
  PROVE  /\ Sound(p, pdir[p], MemoryOf(p)) /\ Present(MemoryOf(p))
         /\ MemoryOf(p).dir = dir[p] /\ MemoryOf(p).table = table[p]
<1> DEFINE M == MemoryOf(p)
<1>1. TypeOK /\ TablesPresent /\ npages + Len(page_free) = page_end - First
      /\ Consistent([u \in AllUses |-> PageOf(u)], page_free, page_end)
  BY DEF AddressInv
<1>2. page_free \in Seq(Nat) /\ page_end \in Nat /\ npages \in Nat /\ Len(page_free) \in Nat
  BY <1>1, LenProperties DEF TypeOK
<1>3. M = [free |-> page_free, end |-> page_end, npages |-> npages, dir |-> dir[p], table |-> table[p]]
  BY DEF MemoryOf, Memory
<1>4. M \in Memories
  BY <1>1, <1>2, <1>3, ProcessTypes DEF Memories
<1>5. M.free = page_free /\ M.end = page_end /\ M.npages = npages /\ M.dir = dir[p] /\ M.table = table[p]
  BY <1>3
<1> HIDE DEF M
<1>6. View(p, pdir[p], M) = [u \in AllUses |-> PageOf(u)]
  <2> SUFFICES ASSUME NEW u \in AllUses
               PROVE  UseOf(p, pdir[p], M, u) = PageOf(u)
    BY DEF View
  <2> QED
    BY <1>5, UseShape DEF UseOf, PageOf
<1>7. First <= page_end
  BY <1>1, <1>2, FirstFacts
<1>8. Sound(p, pdir[p], M)
  BY <1>1, <1>4, <1>5, <1>6, <1>7 DEF Sound
<1>9. Present(M)
  BY <1>1, <1>5 DEF Present, TablesPresent
<1> QED
  BY <1>5, <1>8, <1>9 DEF M

(* The directories, their entries and the page tables are what V says.     *)
Shows(V, pdv, dv, tv) ==
  \A q \in Pids : /\ pdv[q] = V[<<"dir", q, 0>>]
                  /\ dv[q] \in [Tables -> PageOrNone]
                  /\ \A d \in Tables : dv[q][d] = V[<<"table", q, d>>]
                  /\ tv[q] \in [Logical -> PageOrNone]
                  /\ \A l \in Logical \ Kernel : tv[q][l] = V[<<"page", q, l>>]
                  /\ \A l \in Kernel : tv[q][l] \in {None, l}

(* What is in use is a page that was handed out.                           *)
LEMMA EntryTypes ==
  ASSUME NEW V, NEW s, NEW e \in Nat, First <= e, Consistent(V, s, e),
         NEW pdv, NEW dv, NEW tv, Shows(V, pdv, dv, tv)
  PROVE  LET E == {None} \cup (0 .. e - 1) IN
         \A q \in Pids : pdv[q] \in E /\ dv[q] \in [Tables -> E] /\ tv[q] \in [Logical -> E]
<1> DEFINE E == {None} \cup (0 .. e - 1)
<1>1. \A u \in AllUses : V[u] # None => V[u] \in First .. (e - 1)
  BY Covered DEF Consistent
<1>2. \A u \in AllUses : V[u] \in E
  BY <1>1, FirstFacts
<1>3. \A l \in Kernel : l \in E
  BY Layout, FirstFacts
<1> HIDE DEF E
<1>4. None \in E
  BY DEF E
<1> SUFFICES ASSUME NEW q \in Pids
             PROVE  pdv[q] \in E /\ dv[q] \in [Tables -> E] /\ tv[q] \in [Logical -> E]
  BY DEF E
<1>5. pdv[q] \in E
  BY <1>2, UseKinds DEF Shows
<1>6. \A d \in Tables : dv[q][d] \in E
  BY <1>2, UseKinds DEF Shows
<1>7. ASSUME NEW l \in Logical
      PROVE  tv[q][l] \in E
  <2>1. CASE l \in Kernel
    BY <2>1, <1>3, <1>4 DEF Shows
  <2>2. CASE l \notin Kernel
    <3>1. <<"page", q, l>> \in AllUses /\ l \in Logical \ Kernel
      BY <2>2, UseKinds
    <3>2. tv[q][l] = V[<<"page", q, l>>]
      BY <3>1 DEF Shows
    <3> QED
      BY <3>1, <3>2, <1>2
  <2> QED
    BY <2>1, <2>2
<1>8. dv[q] \in [Tables -> PageOrNone] /\ tv[q] \in [Logical -> PageOrNone]
  BY DEF Shows
<1> QED
  BY <1>5, <1>6, <1>7, <1>8

(* An operation has left process p with memory M and directory pd.         *)
LEMMA StateAfter ==
  ASSUME AddressInv, NEW p \in Pids, NEW pd, NEW M, Sound(p, pd, M), Present(M),
         \A l \in Kernel : M.table[l] \in {None, l},
         Store(M, p), pdir' = [pdir EXCEPT ![p] = pd]
  PROVE  /\ page_free' \in Seq(Nat) /\ page_end' \in Nat /\ npages' \in Nat
         /\ pdir' \in [Pids -> Entries'] /\ dir' \in [Pids -> [Tables -> Entries']]
         /\ table' \in [Pids -> [Logical -> Entries']]
         /\ Consistent([u \in AllUses |-> PageOf(u)'], page_free', page_end')
         /\ npages' + Len(page_free') = page_end' - First
         /\ TablesPresent'
         /\ pdir'[p] = pd /\ dir'[p] = M.dir /\ table'[p] = M.table
         /\ \A q \in Pids \ {p} : pdir'[q] = pdir[q] /\ dir'[q] = dir[q] /\ table'[q] = table[q]
<1> DEFINE V == View(p, pd, M)
<1>1. TypeOK /\ TablesPresent /\ SegmentsMapped /\ DeadHaveNothing
  BY DEF AddressInv
<1>2. DOMAIN pdir = Pids /\ DOMAIN dir = Pids /\ DOMAIN table = Pids
  BY <1>1 DEF TypeOK
<1>3. /\ DOMAIN pdir' = Pids /\ DOMAIN dir' = Pids /\ DOMAIN table' = Pids
      /\ pdir'[p] = pd /\ dir'[p] = M.dir /\ table'[p] = M.table
      /\ \A q \in Pids \ {p} : pdir'[q] = pdir[q] /\ dir'[q] = dir[q] /\ table'[q] = table[q]
  BY <1>2 DEF Store
<1>4. /\ M \in Memories /\ First <= M.end /\ Consistent(V, M.free, M.end)
      /\ M.npages + Len(M.free) = M.end - First
  BY DEF Sound
<1>5. page_free' = M.free /\ page_end' = M.end /\ npages' = M.npages
  BY DEF Store
<1>6. M.free \in Seq(Nat) /\ M.end \in Nat /\ M.npages \in Nat /\ M.dir \in [Tables -> PageOrNone]
      /\ M.table \in [Logical -> PageOrNone]
  BY <1>4, Fields, CountNotNegative
<1>7. \A u \in AllUses : PageOf(u)' = V[u]
  <2> SUFFICES ASSUME NEW u \in AllUses
               PROVE  PageOf(u)' = UseOf(p, pd, M, u)
    BY DEF View
  <2> QED
    BY <1>3, UseShape DEF UseOf, PageOf
<1>8. [u \in AllUses |-> PageOf(u)'] = V
  BY <1>7 DEF View
<1>9. /\ Consistent([u \in AllUses |-> PageOf(u)'], page_free', page_end')
      /\ npages' + Len(page_free') = page_end' - First
  BY <1>4, <1>5, <1>8
<1>10. ASSUME NEW q \in Pids
       PROVE  /\ pdir'[q] = V[<<"dir", q, 0>>]
              /\ dir'[q] \in [Tables -> PageOrNone]
              /\ \A d \in Tables : dir'[q][d] = V[<<"table", q, d>>]
              /\ table'[q] \in [Logical -> PageOrNone]
              /\ \A l \in Logical \ Kernel : table'[q][l] = V[<<"page", q, l>>]
              /\ \A l \in Kernel : table'[q][l] \in {None, l}
  <2>1. dir'[q] \in [Tables -> PageOrNone] /\ table'[q] \in [Logical -> PageOrNone]
    BY <1>1, <1>3, <1>6, ProcessTypes
  <2>2. pdir'[q] = V[<<"dir", q, 0>>]
    <3>1. V[<<"dir", q, 0>>] = PageOf(<<"dir", q, 0>>)'
      BY <1>7, UseKinds
    <3> QED
      BY <3>1 DEF PageOf
  <2>3. ASSUME NEW d \in Tables
        PROVE  dir'[q][d] = V[<<"table", q, d>>]
    <3>1. V[<<"table", q, d>>] = PageOf(<<"table", q, d>>)'
      BY <1>7, UseKinds
    <3> QED
      BY <3>1 DEF PageOf
  <2>4. ASSUME NEW l \in Logical \ Kernel
        PROVE  table'[q][l] = V[<<"page", q, l>>]
    <3>1. V[<<"page", q, l>>] = PageOf(<<"page", q, l>>)'
      BY <1>7, UseKinds
    <3> QED
      BY <3>1 DEF PageOf
  <2>5. ASSUME NEW l \in Kernel
        PROVE  table'[q][l] \in {None, l}
    <3>1. l \in Logical
      BY Layout
    <3>2. q \in live => table[q][l] = l
      BY <1>1 DEF SegmentsMapped
    <3>3. q \notin live => table[q][l] = None
      BY <1>1, <3>1 DEF DeadHaveNothing, NoPages
    <3> QED
      BY <1>3, <3>2, <3>3
  <2> QED
    BY <2>1, <2>2, <2>3, <2>4, <2>5
<1>a. Shows(V, pdir', dir', table')
  BY <1>10 DEF Shows
<1> HIDE DEF V
<1>11. \A q \in Pids : /\ pdir'[q] \in Entries'
                       /\ dir'[q] \in [Tables -> Entries']
                       /\ table'[q] \in [Logical -> Entries']
  <2>1. Entries' = {None} \cup (0 .. M.end - 1)
    BY <1>5 DEF Entries
  <2> DEFINE E == {None} \cup (0 .. M.end - 1)
             e == M.end
             s == M.free
             pdv == pdir'
             dv == dir'
             tv == table'
  <2>2. e \in Nat /\ First <= e /\ Consistent(V, s, e) /\ Shows(V, pdv, dv, tv)
    BY <1>4, <1>6, <1>a
  <2> HIDE DEF e, s, pdv, dv, tv
  <2>3. LET F == {None} \cup (0 .. e - 1) IN
        \A q \in Pids : pdv[q] \in F /\ dv[q] \in [Tables -> F] /\ tv[q] \in [Logical -> F]
    BY <2>2, EntryTypes
  <2> QED
    BY <2>1, <2>3 DEF e, pdv, dv, tv
<1>12. /\ pdir' \in [Pids -> Entries'] /\ dir' \in [Pids -> [Tables -> Entries']]
       /\ table' \in [Pids -> [Logical -> Entries']]
  <2> DEFINE E == Entries'
             T == [Tables -> E]
             L == [Logical -> E]
  <2>1. \A q \in Pids : pdir'[q] \in E /\ dir'[q] \in T /\ table'[q] \in L
    BY <1>11
  <2>2. pdir' = [q \in Pids |-> pdir'[q]] /\ dir' = [q \in Pids |-> dir'[q]]
        /\ table' = [q \in Pids |-> table'[q]]
    BY <1>2 DEF Store
  <2> HIDE DEF E, T, L
  <2>3. pdir' \in [Pids -> E] /\ dir' \in [Pids -> T] /\ table' \in [Pids -> L]
    BY <2>1, <2>2
  <2> QED
    BY <2>3 DEF E, T, L
<1>13. TablesPresent'
  BY <1>1, <1>3 DEF TablesPresent, Present
<1> QED
  BY <1>3, <1>5, <1>6, <1>9, <1>12, <1>13

-----------------------------------------------------------------------------
(***************************************************************************)
(* The operations preserve the invariant.                                  *)
(***************************************************************************)
Mapped(te, de, M) ==
  \A l \in Logical :
    /\ M.table[l] # None <=> l \in Kernel \cup Stack \cup Pages(DATA_BASE, de) \cup Pages(TEXT_BASE, te)
    /\ l \in Kernel => M.table[l] = l

(* What the invariant says of a live process.                              *)
LEMMA MappedNow ==
  ASSUME AddressInv, NEW p \in live
  PROVE  /\ p \in Pids /\ pdir[p] # None /\ Mapped(text_end[p], data_end[p], MemoryOf(p))
         /\ text_end[p] \in TEXT_BASE .. DATA_BASE /\ Aligned(text_end[p])
         /\ data_end[p] \in DATA_BASE .. (DATA_BASE + DATA_MAX) /\ Aligned(data_end[p])
<1>1. TypeOK /\ SegmentsMapped /\ SegmentBounds /\ DeadHaveNothing
  BY DEF AddressInv
<1>2. p \in Pids
  BY <1>1 DEF TypeOK
<1>3. /\ {l \in Logical : lookup_page(p, l)} = Kernel \cup Stack \cup Data(p) \cup Text(p)
      /\ \A l \in Kernel : table[p][l] = l
  BY <1>1 DEF SegmentsMapped
<1>4. MemoryOf(p).table = table[p]
  BY DEF MemoryOf, Memory
<1>5. Mapped(text_end[p], data_end[p], MemoryOf(p))
  BY <1>3, <1>4 DEF Mapped, lookup_page, Data, Text
<1> QED
  BY <1>1, <1>2, <1>5 DEF TypeOK, SegmentBounds, DeadHaveNothing

(* A step that leaves memory alone keeps the invariant.                    *)
LEMMA NothingMoved ==
  ASSUME AddressInv,
         UNCHANGED <<allocVars, pdir, dir, table, text_end, data_end, live, panic>>,
         current_process' \in live \cup {NULL}, ActiveDirectoryLive'
  PROVE  AddressInv'
<1> USE DEF allocVars
<1>1. TypeOK'
  BY DEF AddressInv, TypeOK, Entries
<1>2. SegmentBounds' /\ SegmentsMapped' /\ TablesPresent' /\ DeadHaveNothing' /\ NoPanic'
  BY DEF AddressInv, SegmentBounds, SegmentsMapped, TablesPresent, DeadHaveNothing, NoPanic,
         lookup_page, Data, Text
<1>3. Consistent([u \in AllUses |-> PageOf(u)], page_free, page_end)'
  <2>1. Consistent([u \in AllUses |-> PageOf(u)], page_free, page_end)
    BY DEF AddressInv
  <2>2. \A u : PageOf(u)' = PageOf(u)
    BY DEF PageOf
  <2>3. [u \in AllUses |-> PageOf(u)'] = [u \in AllUses |-> PageOf(u)]
    BY <2>2
  <2>4. Consistent([u \in AllUses |-> PageOf(u)'], page_free', page_end')
    BY <2>1, <2>3
  <2> QED
    BY <2>4
<1>4. (npages + Len(page_free) = page_end - First)'
  BY DEF AddressInv
<1> QED
  BY <1>1, <1>2, <1>3, <1>4 DEF AddressInv

(* So does one that leaves process p alive with memory M and these         *)
(* segments.                                                               *)
LEMMA LiveAfter ==
  ASSUME AddressInv, NEW p \in Pids, NEW pd, NEW M, Sound(p, pd, M), Present(M), pd # None,
         NEW te \in TEXT_BASE .. DATA_BASE, Aligned(te),
         NEW de \in DATA_BASE .. (DATA_BASE + DATA_MAX), Aligned(de), Mapped(te, de, M),
         Store(M, p), pdir' = [pdir EXCEPT ![p] = pd],
         text_end' = [text_end EXCEPT ![p] = te], data_end' = [data_end EXCEPT ![p] = de],
         live' = live \cup {p}, panic' = panic,
         current_process' \in live' \cup {NULL}, ActiveDirectoryLive'
  PROVE  AddressInv'
<1>1. TypeOK /\ SegmentBounds /\ SegmentsMapped /\ DeadHaveNothing /\ NoPanic
  BY DEF AddressInv
<1>2. \A l \in Kernel : M.table[l] \in {None, l}
  BY Layout DEF Mapped
<1>3. /\ page_free' \in Seq(Nat) /\ page_end' \in Nat /\ npages' \in Nat
      /\ pdir' \in [Pids -> Entries'] /\ dir' \in [Pids -> [Tables -> Entries']]
      /\ table' \in [Pids -> [Logical -> Entries']]
      /\ Consistent([u \in AllUses |-> PageOf(u)'], page_free', page_end')
      /\ npages' + Len(page_free') = page_end' - First
      /\ TablesPresent'
      /\ pdir'[p] = pd /\ dir'[p] = M.dir /\ table'[p] = M.table
      /\ \A q \in Pids \ {p} : pdir'[q] = pdir[q] /\ dir'[q] = dir[q] /\ table'[q] = table[q]
  BY <1>2, StateAfter
<1>4. SegmentBounds' /\ text_end'[p] = te /\ data_end'[p] = de
      /\ \A q \in Pids \ {p} : text_end'[q] = text_end[q] /\ data_end'[q] = data_end[q]
  BY <1>1 DEF SegmentBounds
<1>5. \A q \in Pids : Aligned(text_end'[q]) /\ Aligned(data_end'[q])
  BY <1>1, <1>4 DEF TypeOK
<1>6. live' \subseteq Pids /\ panic' \in BOOLEAN /\ NoPanic'
  BY <1>1 DEF TypeOK, NoPanic
<1>7. TypeOK'
  <2>1. (\A q \in Pids : Aligned(text_end[q]) /\ Aligned(data_end[q]))'
    BY <1>5
  <2> QED
    BY <2>1, <1>3, <1>6 DEF TypeOK
<1>8. SegmentsMapped'
  <2> SUFFICES ASSUME NEW q \in live'
               PROVE  /\ {l \in Logical : table'[q][l] # None}
                           = Kernel \cup Stack \cup Pages(DATA_BASE, data_end'[q])
                             \cup Pages(TEXT_BASE, text_end'[q])
                      /\ \A l \in Kernel : table'[q][l] = l
    BY DEF SegmentsMapped, lookup_page, Data, Text
  <2>1. CASE q = p
    <3>1. Pages(TEXT_BASE, te) \subseteq Logical /\ Pages(DATA_BASE, de) \subseteq Logical
      BY Segments
    <3> DEFINE S == Kernel \cup Stack \cup Pages(DATA_BASE, de) \cup Pages(TEXT_BASE, te)
    <3>2. S \subseteq Logical
      BY <3>1, Layout
    <3>3. \A l \in Logical : (M.table[l] # None <=> l \in S) /\ (l \in Kernel => M.table[l] = l)
      BY DEF Mapped
    <3> HIDE DEF S
    <3>4. {l \in Logical : M.table[l] # None} = S
      BY <3>2, <3>3
    <3>5. \A l \in Kernel : M.table[l] = l
      BY <3>3, Layout
    <3> QED
      BY <2>1, <3>4, <3>5, <1>3, <1>4 DEF S
  <2>2. CASE q # p
    <3>1. q \in live /\ q \in Pids \ {p}
      BY <2>2, <1>1 DEF TypeOK
    <3> QED
      BY <3>1, <1>1, <1>3, <1>4 DEF SegmentsMapped, lookup_page, Data, Text
  <2> QED
    BY <2>1, <2>2
<1>9. DeadHaveNothing'
  BY <1>1, <1>3 DEF DeadHaveNothing
<1>10. Consistent([u \in AllUses |-> PageOf(u)], page_free, page_end)'
  BY <1>3
<1> QED
  BY <1>3, <1>4, <1>6, <1>7, <1>8, <1>9, <1>10 DEF AddressInv

(* And one that leaves process p with nothing.                             *)
LEMMA DeadAfter ==
  ASSUME AddressInv, NEW p \in Pids, NEW M, Sound(p, None, M), M.dir = NoTables, M.table = NoPages,
         Store(M, p), pdir' = [pdir EXCEPT ![p] = None], UNCHANGED <<text_end, data_end>>,
         live' = live \ {p}, panic' = panic,
         current_process' \in live' \cup {NULL}, ActiveDirectoryLive'
  PROVE  AddressInv'
<1>1. TypeOK /\ SegmentBounds /\ SegmentsMapped /\ DeadHaveNothing /\ NoPanic
  BY DEF AddressInv
<1>2. (\A l \in Kernel : M.table[l] \in {None, l}) /\ Present(M)
  BY Layout DEF NoPages, Present
<1>3. /\ page_free' \in Seq(Nat) /\ page_end' \in Nat /\ npages' \in Nat
      /\ pdir' \in [Pids -> Entries'] /\ dir' \in [Pids -> [Tables -> Entries']]
      /\ table' \in [Pids -> [Logical -> Entries']]
      /\ Consistent([u \in AllUses |-> PageOf(u)'], page_free', page_end')
      /\ npages' + Len(page_free') = page_end' - First
      /\ TablesPresent'
      /\ pdir'[p] = None /\ dir'[p] = NoTables /\ table'[p] = NoPages
      /\ \A q \in Pids \ {p} : pdir'[q] = pdir[q] /\ dir'[q] = dir[q] /\ table'[q] = table[q]
  BY <1>2, StateAfter
<1>4. SegmentBounds'
  BY <1>1 DEF SegmentBounds
<1>6. live' \subseteq Pids /\ panic' \in BOOLEAN /\ NoPanic'
  BY <1>1 DEF TypeOK, NoPanic
<1>7. TypeOK'
  <2>1. (\A q \in Pids : Aligned(text_end[q]) /\ Aligned(data_end[q]))'
    BY <1>1 DEF TypeOK
  <2> QED
    BY <2>1, <1>3, <1>6 DEF TypeOK
<1>8. SegmentsMapped'
  BY <1>1, <1>3, <1>6 DEF TypeOK, SegmentsMapped, lookup_page, Data, Text
<1>9. DeadHaveNothing'
  BY <1>1, <1>3 DEF DeadHaveNothing
<1>10. Consistent([u \in AllUses |-> PageOf(u)], page_free, page_end)'
  BY <1>3
<1> QED
  BY <1>3, <1>4, <1>6, <1>7, <1>8, <1>9, <1>10 DEF AddressInv

(* context_switch.                                                         *)
LEMMA SwitchStep ==
  ASSUME AddressInv, context_switch
  PROVE  AddressInv'
<1>1. PICK p \in live \cup {NULL} :
        /\ current_process' = p
        /\ IF p = NULL THEN UNCHANGED active ELSE active' = pdir[p]
        /\ UNCHANGED <<allocVars, pdir, dir, table, text_end, data_end, live, panic>>
  BY DEF context_switch, enable_paging
<1>2. ActiveDirectoryLive
  BY DEF AddressInv
<1>3. ActiveDirectoryLive'
  BY <1>1, <1>2 DEF ActiveDirectoryLive
<1> QED
  BY <1>1, <1>3, NothingMoved

(* Ranges of pages that follow each other.                                 *)
LEMMA PagesSplit ==
  ASSUME NEW a \in Nat, NEW b \in Nat, NEW c \in Nat, a <= b, b <= c
  PROVE  Pages(a, c) = Pages(a, b) \cup Pages(b, c) /\ Pages(a, b) \cap Pages(b, c) = {}
<1> DEFINE i == a \div PAGE_SIZE
           j == b \div PAGE_SIZE
           k == c \div PAGE_SIZE
<1>1. i \in Nat /\ j \in Nat /\ i <= j
  BY Numbers, DivMono
<1>2. k \in Nat /\ j <= k
  BY Numbers, DivMono
<1>3. Pages(a, b) = i .. (j - 1) /\ Pages(b, c) = j .. (k - 1) /\ Pages(a, c) = i .. (k - 1)
  BY DEF Pages
<1> HIDE DEF i, j, k
<1> QED
  BY <1>1, <1>2, <1>3

(* brk maps the pages between the old and the new end of the data, which   *)
(* had none.                                                               *)
LEMMA BrkStep ==
  ASSUME AddressInv, syscall_brk
  PROVE  AddressInv'
<1> DEFINE p == current_process
           M == MemoryOf(p)
           old == data_end[p]
           te == text_end[p]
<1>1. PICK end \in BrkEnds :
        /\ Running /\ end > old
        /\ IF ~ Aligned(old) THEN Panic
           ELSE /\ Store(map_new_pages(M, old, RoundUp(end)), p)
                /\ data_end' = [data_end EXCEPT ![p] = RoundUp(end)]
                /\ active' = pdir[p]
                /\ UNCHANGED <<pdir, text_end, live, current_process, panic, releases>>
  BY DEF syscall_brk, enable_paging
<1> DEFINE new == RoundUp(end)
           R == map_new_pages(M, old, new)
<1>2. TypeOK /\ SegmentBounds /\ p \in live
  BY <1>1 DEF AddressInv, TypeOK, Running
<1>3. /\ p \in Pids /\ pdir[p] # None /\ Mapped(te, old, M)
      /\ te \in TEXT_BASE .. DATA_BASE /\ Aligned(te)
      /\ old \in DATA_BASE .. (DATA_BASE + DATA_MAX) /\ Aligned(old)
  BY <1>2, MappedNow
<1>4. new \in Nat /\ end \in Nat /\ end <= new /\ new <= DATA_BASE + DATA_MAX /\ Aligned(new)
  BY RoundUpFacts
<1>5. Sound(p, pdir[p], M) /\ Present(M)
  BY <1>3, StateSound
<1>6. /\ Store(R, p) /\ data_end' = [data_end EXCEPT ![p] = new] /\ active' = pdir[p]
      /\ UNCHANGED <<pdir, text_end, live, current_process, panic>>
  BY <1>1, <1>3
<1>7. end > old
  BY <1>1
<1> HIDE DEF p, M, old, te, new, R
<1>8. DATA_BASE \in Nat /\ DATA_MAX \in Nat /\ old \in Nat /\ DATA_BASE <= old /\ old <= new
      /\ new \in DATA_BASE .. (DATA_BASE + DATA_MAX)
  BY <1>3, <1>4, <1>7, Numbers
<1>9. Pages(DATA_BASE, new) = Pages(DATA_BASE, old) \cup Pages(old, new)
      /\ Pages(DATA_BASE, old) \cap Pages(old, new) = {}
  BY <1>4, <1>8, PagesSplit
<1>10. /\ Pages(TEXT_BASE, te) \subseteq Logical \ Kernel
       /\ Pages(DATA_BASE, new) \subseteq Logical \ Kernel
       /\ Stack \subseteq Logical \ Kernel
       /\ Pages(TEXT_BASE, te) \cap Pages(DATA_BASE, new) = {}
       /\ Pages(DATA_BASE, new) \cap Stack = {}
  BY <1>3, <1>8, Segments
<1>11. Pages(old, new) \subseteq Logical \ Kernel
  BY <1>9, <1>10
<1>12. \A l \in Pages(old, new) : M.table[l] = None
  BY <1>3, <1>9, <1>10, <1>11 DEF Mapped
<1>13. /\ Sound(p, pdir[p], R) /\ Present(R)
       /\ \A l \in Logical : IF l \in Pages(old, new) THEN R.table[l] # None
                                                      ELSE R.table[l] = M.table[l]
  BY <1>3, <1>4, <1>5, <1>8, <1>11, <1>12, PagesMapped DEF R
<1>14. Mapped(te, new, R)
  BY <1>3, <1>9, <1>11, <1>13 DEF Mapped
<1>15. pdir' = [pdir EXCEPT ![p] = pdir[p]] /\ text_end' = [text_end EXCEPT ![p] = te]
       /\ live' = live \cup {p}
  BY <1>2, <1>6 DEF TypeOK, SegmentBounds, te
<1>16. current_process' \in live' \cup {NULL} /\ panic' = panic
  BY <1>2, <1>6 DEF p
<1>17. ActiveDirectoryLive'
  BY <1>2, <1>6 DEF ActiveDirectoryLive, p
<1> QED
  BY <1>3, <1>6, <1>8, <1>4, <1>13, <1>14, <1>15, <1>16, <1>17, LiveAfter

(* execve frees text and data, and maps the pages of the new text.         *)
LEMMA ExecveStep ==
  ASSUME AddressInv, syscall_execve
  PROVE  AddressInv'
<1> DEFINE p == current_process
           te == text_end[p]
           de == data_end[p]
           A == MemoryOf(p)
           B == unmap_pages(A, TEXT_BASE, te)
           M == unmap_pages(B, DATA_BASE, de)
<1>1. PICK size \in Images :
        /\ Running
        /\ IF ~ free_asserts(M) THEN Panic
           ELSE /\ Store(map_new_pages(M, TEXT_BASE, TextEnd(size)), p)
                /\ text_end' = [text_end EXCEPT ![p] = TextEnd(size)]
                /\ data_end' = [data_end EXCEPT ![p] = DATA_BASE]
                /\ active' = pdir[p]
                /\ UNCHANGED <<pdir, live, current_process, panic>>
  BY DEF syscall_execve, enable_paging, Cleared, WithoutText
<1> DEFINE new == TextEnd(size)
           R == map_new_pages(M, TEXT_BASE, new)
<1>2. TypeOK /\ SegmentBounds /\ p \in live
  BY <1>1 DEF AddressInv, TypeOK, Running
<1>3. /\ p \in Pids /\ pdir[p] # None /\ Mapped(te, de, A)
      /\ te \in TEXT_BASE .. DATA_BASE
      /\ de \in DATA_BASE .. (DATA_BASE + DATA_MAX)
  BY <1>2, MappedNow
<1>4. new \in TEXT_BASE .. DATA_BASE /\ Aligned(new)
  BY TextEndFacts
<1>5. Sound(p, pdir[p], A) /\ Present(A)
  BY <1>3, StateSound
<1>6. free_asserts(M) =>
        /\ Store(R, p) /\ text_end' = [text_end EXCEPT ![p] = new]
        /\ data_end' = [data_end EXCEPT ![p] = DATA_BASE] /\ active' = pdir[p]
        /\ UNCHANGED <<pdir, live, current_process, panic>>
  BY <1>1
<1> HIDE DEF p, A, B, M, te, de, new, R
<1>7. /\ TEXT_BASE \in Nat /\ DATA_BASE \in Nat /\ te \in Nat /\ de \in Nat /\ new \in Nat
      /\ TEXT_BASE <= te /\ DATA_BASE <= de /\ TEXT_BASE <= new
      /\ DATA_BASE \in DATA_BASE .. (DATA_BASE + DATA_MAX) /\ Aligned(DATA_BASE)
  BY <1>3, <1>4, Numbers
<1>8. /\ Pages(TEXT_BASE, te) \subseteq Logical \ Kernel
      /\ Pages(DATA_BASE, de) \subseteq Logical \ Kernel
      /\ Stack \subseteq Logical \ Kernel
      /\ Pages(TEXT_BASE, te) \cap Stack = {}
      /\ Pages(DATA_BASE, de) \cap Stack = {}
  BY <1>3, Segments
<1>9. Pages(TEXT_BASE, new) \subseteq Logical \ Kernel /\ Pages(TEXT_BASE, new) \cap Stack = {}
  BY <1>4, <1>7, Segments
<1>10. Pages(DATA_BASE, DATA_BASE) = {}
  <2>1. DATA_BASE \div PAGE_SIZE \in Nat
    BY Numbers, DivMono
  <2> QED
    BY <2>1 DEF Pages
<1>11. /\ Sound(p, pdir[p], B) /\ Present(B)
       /\ \A l \in Logical : B.table[l] = IF l \in Pages(TEXT_BASE, te) THEN None ELSE A.table[l]
  BY <1>3, <1>5, <1>7, <1>8, PagesUnmapped DEF B
<1>12. /\ Sound(p, pdir[p], M) /\ Present(M)
       /\ \A l \in Logical : M.table[l] = IF l \in Pages(DATA_BASE, de) THEN None ELSE B.table[l]
  BY <1>3, <1>7, <1>8, <1>11, PagesUnmapped DEF M
<1>13. \A l \in Logical : /\ M.table[l] # None <=> l \in Kernel \cup Stack
                          /\ l \in Kernel => M.table[l] = l
  BY <1>3, <1>8, <1>11, <1>12 DEF Mapped
<1>14. \A l \in Pages(TEXT_BASE, new) : M.table[l] = None
  BY <1>9, <1>13
<1>15. /\ Sound(p, pdir[p], R) /\ Present(R)
       /\ \A l \in Logical : IF l \in Pages(TEXT_BASE, new) THEN R.table[l] # None
                                                            ELSE R.table[l] = M.table[l]
  BY <1>3, <1>7, <1>9, <1>12, <1>14, PagesMapped DEF R
<1>16. Mapped(new, DATA_BASE, R)
  BY <1>9, <1>10, <1>13, <1>15 DEF Mapped
<1>17. free_asserts(M)
  BY <1>3, <1>12, CountNotNegative
<1>18. pdir' = [pdir EXCEPT ![p] = pdir[p]] /\ live' = live \cup {p}
  BY <1>2, <1>6, <1>17 DEF TypeOK
<1>19. current_process' \in live' \cup {NULL} /\ panic' = panic
  BY <1>2, <1>6, <1>17 DEF p
<1>20. ActiveDirectoryLive'
  BY <1>2, <1>6, <1>17 DEF ActiveDirectoryLive, p
<1>21. Store(R, p) /\ text_end' = [text_end EXCEPT ![p] = new]
       /\ data_end' = [data_end EXCEPT ![p] = DATA_BASE]
  BY <1>6, <1>17
<1> QED
  BY <1>3, <1>4, <1>7, <1>15, <1>16, <1>18, <1>19, <1>20, <1>21, LiveAfter

(* What fork and start_process build: the kernel's memory and segments of  *)
(* their own, in a memory that is empty but for the directory.             *)
LEMMA Built ==
  ASSUME NEW c \in Pids, NEW pd, NEW A, Sound(c, pd, A), A.table = NoPages,
         NEW te \in TEXT_BASE .. DATA_BASE, NEW de \in DATA_BASE .. (DATA_BASE + DATA_MAX)
  PROVE  LET K == identity_map(A, 0, PAGE_START)
             T == map_new_pages(K, TEXT_BASE, te)
             D == map_new_pages(T, DATA_BASE, de)
             S == map_new_pages(D, STACK_BASE - STACK_SIZE, STACK_BASE)
         IN  Sound(c, pd, S) /\ Present(S) /\ Mapped(te, de, S)
<1> DEFINE K == identity_map(A, 0, PAGE_START)
           T == map_new_pages(K, TEXT_BASE, te)
           D == map_new_pages(T, DATA_BASE, de)
           sb == STACK_BASE - STACK_SIZE
           S == map_new_pages(D, sb, STACK_BASE)
<1>1. Present(A) /\ \A l \in Logical : A.table[l] = None
  BY DEF Present, NoPages
<1>2. /\ TEXT_BASE \in Nat /\ DATA_BASE \in Nat /\ te \in Nat /\ de \in Nat
      /\ TEXT_BASE <= te /\ DATA_BASE <= de
      /\ sb \in Nat /\ STACK_BASE \in Nat /\ sb <= STACK_BASE
  BY Numbers, Order
<1>3. /\ Kernel \subseteq Logical
      /\ Pages(TEXT_BASE, te) \subseteq Logical \ Kernel
      /\ Pages(DATA_BASE, de) \subseteq Logical \ Kernel
      /\ Stack \subseteq Logical \ Kernel
      /\ Pages(TEXT_BASE, te) \cap Pages(DATA_BASE, de) = {}
      /\ Pages(TEXT_BASE, te) \cap Stack = {}
      /\ Pages(DATA_BASE, de) \cap Stack = {}
  BY Segments
<1>4. Stack = Pages(sb, STACK_BASE)
  BY DEF Stack
<1> HIDE DEF K, T, D, S, sb
<1>5. /\ Sound(c, pd, K) /\ Present(K)
      /\ \A l \in Logical : K.table[l] = IF l \in Kernel THEN l ELSE None
  BY <1>1, <1>3, KernelMapped DEF K
<1>6. \A l \in Pages(TEXT_BASE, te) : K.table[l] = None
  BY <1>3, <1>5
<1>7. /\ Sound(c, pd, T) /\ Present(T)
      /\ \A l \in Logical : IF l \in Pages(TEXT_BASE, te) THEN T.table[l] # None
                                                          ELSE T.table[l] = K.table[l]
  BY <1>2, <1>3, <1>5, <1>6, PagesMapped DEF T
<1>8. \A l \in Pages(DATA_BASE, de) : T.table[l] = None
  BY <1>3, <1>5, <1>7
<1>9. /\ Sound(c, pd, D) /\ Present(D)
      /\ \A l \in Logical : IF l \in Pages(DATA_BASE, de) THEN D.table[l] # None
                                                          ELSE D.table[l] = T.table[l]
  BY <1>2, <1>3, <1>7, <1>8, PagesMapped DEF D
<1>10. \A l \in Pages(sb, STACK_BASE) : D.table[l] = None
  BY <1>3, <1>4, <1>5, <1>7, <1>9
<1>a. Pages(sb, STACK_BASE) \subseteq Logical \ Kernel
  BY <1>3, <1>4
<1>11. /\ Sound(c, pd, S) /\ Present(S)
       /\ \A l \in Logical : IF l \in Pages(sb, STACK_BASE) THEN S.table[l] # None
                                                            ELSE S.table[l] = D.table[l]
  BY <1>2, <1>9, <1>10, <1>a, PagesMapped DEF S
<1>b. \A l \in Kernel : l # None
  BY Layout, FirstFacts
<1>12. ASSUME NEW l \in Logical
       PROVE  /\ S.table[l] # None
                   <=> l \in Kernel \cup Stack \cup Pages(DATA_BASE, de) \cup Pages(TEXT_BASE, te)
              /\ l \in Kernel => S.table[l] = l
  BY <1>3, <1>4, <1>5, <1>7, <1>9, <1>11, <1>b
<1>13. Mapped(te, de, S)
  BY <1>12 DEF Mapped
<1> QED
  BY <1>11, <1>13 DEF K, T, D, S, sb

(* fork takes a directory for the child, and pages for the segments it     *)
(* copies.                                                                 *)
LEMMA ForkStep ==
  ASSUME AddressInv, syscall_fork
  PROVE  AddressInv'
<1> DEFINE p == current_process
           te == text_end[p]
           de == data_end[p]
           M == Memory(NoTables, NoPages)
           x == NextPage(M)
           A == alloc_page(M)
           R == map_and_copy(identity_map(A, 0, PAGE_START), p)
<1>1. PICK c \in Pids \ live :
        /\ Running
        /\ IF ~ copy_asserts(p) THEN Panic
           ELSE /\ pdir' = [pdir EXCEPT ![c] = x] /\ Store(R, c)
                /\ text_end' = [text_end EXCEPT ![c] = te]
                /\ data_end' = [data_end EXCEPT ![c] = de]
                /\ live' = live \cup {c} /\ active' = pdir[p]
                /\ UNCHANGED <<current_process, panic>>
  BY DEF syscall_fork, enable_paging
<1>2. TypeOK /\ SegmentsMapped /\ DeadHaveNothing /\ p \in live
  BY <1>1 DEF AddressInv, TypeOK, Running
<1>3. /\ p \in Pids
      /\ te \in TEXT_BASE .. DATA_BASE /\ Aligned(te)
      /\ de \in DATA_BASE .. (DATA_BASE + DATA_MAX) /\ Aligned(de)
  BY <1>2, MappedNow
<1>4. copy_asserts(p)
  <2>1. Text(p) \cup Data(p) \cup Stack \subseteq {l \in Logical : lookup_page(p, l)}
    BY <1>2 DEF SegmentsMapped
  <2> QED
    BY <2>1, <1>3 DEF copy_asserts
<1>5. pdir[c] = None /\ dir[c] = NoTables /\ table[c] = NoPages
  BY <1>2 DEF DeadHaveNothing
<1>6. M = MemoryOf(c)
  BY <1>5 DEF MemoryOf
<1>7. Sound(c, None, M) /\ M.dir = NoTables /\ M.table = NoPages
  BY <1>5, <1>6, StateSound
<1>8. /\ pdir' = [pdir EXCEPT ![c] = x] /\ Store(R, c)
      /\ text_end' = [text_end EXCEPT ![c] = te]
      /\ data_end' = [data_end EXCEPT ![c] = de]
      /\ live' = live \cup {c} /\ active' = pdir[p]
      /\ UNCHANGED <<current_process, panic>>
  BY <1>1, <1>4
<1>9. R = map_new_pages(map_new_pages(map_new_pages(identity_map(A, 0, PAGE_START), TEXT_BASE, te),
                                      DATA_BASE, de),
                        STACK_BASE - STACK_SIZE, STACK_BASE)
  BY DEF map_and_copy
<1> HIDE DEF p, te, de, M, x, A, R
<1>10. M \in Memories
  BY <1>7 DEF Sound
<1>11. A \in Memories /\ x \in Nat /\ A.dir = M.dir /\ A.table = M.table
  BY <1>10, AllocFields DEF A, x
<1>12. View(c, x, A) = Put(View(c, None, M), <<"dir", c, 0>>, x)
  BY <1>11, ViewDirectory
<1>13. <<"dir", c, 0>> \in AllUses /\ View(c, None, M)[<<"dir", c, 0>>] = None
  BY DirectoryUse
<1>14. Sound(c, x, A)
  BY <1>7, <1>11, <1>12, <1>13, SoundAlloc DEF A, x
<1>15. Sound(c, x, R) /\ Present(R) /\ Mapped(te, de, R)
  BY <1>3, <1>7, <1>9, <1>11, <1>14, Built
<1>16. x # None
  BY <1>11, FirstFacts
<1>17. current_process' \in live' \cup {NULL}
  BY <1>2, <1>8 DEF p
<1>18. ActiveDirectoryLive'
  <2>1. pdir'[p] = pdir[p] /\ p \in live' /\ current_process' = p
    BY <1>1, <1>2, <1>8 DEF TypeOK, p
  <2> QED
    BY <2>1, <1>8 DEF ActiveDirectoryLive
<1> QED
  BY <1>3, <1>8, <1>15, <1>16, <1>17, <1>18, LiveAfter

(* kill_process frees the segments, the page tables and the directory;     *)
(* what the tables say of the kernel's pages is all that is left, and no   *)
(* use.                                                                    *)
LEMMA KillStep ==
  ASSUME AddressInv, kill_process
  PROVE  AddressInv'
<1> DEFINE sb == STACK_BASE - STACK_SIZE
           S(p) == unmap_pages(MemoryOf(p), sb, STACK_BASE)
           D(p) == unmap_pages(S(p), DATA_BASE, data_end[p])
           T(p) == unmap_pages(D(p), TEXT_BASE, text_end[p])
           M(p) == free_page(FreeTables(T(p)), pdir[p])
<1>1. PICK p \in live :
        /\ Running
        /\ IF ~ free_asserts(M(p)) THEN Panic
           ELSE /\ Store([M(p) EXCEPT !.dir = NoTables, !.table = NoPages], p)
                /\ pdir' = [pdir EXCEPT ![p] = None]
                /\ live' = live \ {p}
                /\ current_process' = IF p = current_process THEN NULL ELSE current_process
                /\ active' = IF p = current_process THEN None ELSE pdir[current_process]
                /\ UNCHANGED <<text_end, data_end, panic>>
  BY DEF kill_process, free_page_dir, ActiveAfter
<1> DEFINE pd == pdir[p]
           te == text_end[p]
           de == data_end[p]
           A == MemoryOf(p)
           F == FreeTables(T(p))
           X == [free |-> <<pd>> \o F.free, end |-> F.end, npages |-> F.npages - 1,
                 dir |-> NoTables, table |-> NoPages]
           N == [free |-> F.free, end |-> F.end, npages |-> F.npages,
                 dir |-> NoTables, table |-> NoPages]
<1>2. TypeOK /\ current_process \in live /\ NULL \notin live
  <2>1. NULL \notin Pids
    BY SpaceAssumption
  <2> QED
    BY <1>1, <2>1 DEF AddressInv, TypeOK, Running
<1>3. /\ p \in Pids /\ pd # None /\ Mapped(te, de, A)
      /\ te \in TEXT_BASE .. DATA_BASE
      /\ de \in DATA_BASE .. (DATA_BASE + DATA_MAX)
  BY MappedNow
<1>4. Sound(p, pd, A) /\ Present(A) /\ pd \in Nat
  BY <1>2, <1>3, StateSound, ProcessTypes DEF PageOrNone
<1>5. /\ TEXT_BASE \in Nat /\ DATA_BASE \in Nat /\ te \in Nat /\ de \in Nat
      /\ TEXT_BASE <= te /\ DATA_BASE <= de
      /\ sb \in Nat /\ STACK_BASE \in Nat /\ sb <= STACK_BASE
  BY <1>3, Numbers, Order
<1>6. /\ Pages(TEXT_BASE, te) \subseteq Logical \ Kernel
      /\ Pages(DATA_BASE, de) \subseteq Logical \ Kernel
      /\ Pages(sb, STACK_BASE) \subseteq Logical \ Kernel /\ Stack = Pages(sb, STACK_BASE)
  BY <1>3, Segments DEF Stack
<1>7. /\ Sound(p, pd, S(p)) /\ Present(S(p))
      /\ \A l \in Logical : S(p).table[l] = IF l \in Pages(sb, STACK_BASE) THEN None ELSE A.table[l]
  <2> HIDE DEF sb, A, pd
  <2> QED
    BY <1>3, <1>4, <1>5, <1>6, PagesUnmapped DEF A
<1> HIDE DEF S
<1>8. /\ Sound(p, pd, D(p)) /\ Present(D(p))
      /\ \A l \in Logical : D(p).table[l] = IF l \in Pages(DATA_BASE, de) THEN None ELSE S(p).table[l]
  <2> HIDE DEF pd
  <2> QED
    BY <1>3, <1>5, <1>6, <1>7, PagesUnmapped
<1> HIDE DEF D
<1>9. /\ Sound(p, pd, T(p)) /\ Present(T(p))
      /\ \A l \in Logical : T(p).table[l] = IF l \in Pages(TEXT_BASE, te) THEN None ELSE D(p).table[l]
  <2> HIDE DEF pd
  <2> QED
    BY <1>3, <1>5, <1>6, <1>8, PagesUnmapped
<1> HIDE DEF T, sb, A
<1>10. \A l \in Logical \ Kernel : T(p).table[l] = None
  BY <1>3, <1>6, <1>7, <1>8, <1>9 DEF Mapped
<1> HIDE DEF pd
<1>11. F \in Memories /\ F.table = T(p).table /\ Sound(p, pd, WithDir(F, NoTables))
  BY <1>3, <1>9, FreedTables
<1>12. M(p) = [free |-> <<pd>> \o F.free, end |-> F.end, npages |-> F.npages - 1,
               dir |-> F.dir, table |-> F.table]
  <2> HIDE DEF F
  <2>1. M(p) = free_page(F, pd)
    BY DEF F, pd
  <2> QED
    BY <1>4, <1>11, <2>1, FreeFields
<1> HIDE DEF F, M
<1>13. /\ NoTables \in [Tables -> PageOrNone] /\ NoPages \in [Logical -> PageOrNone]
       /\ \A l \in Logical : NoPages[l] = None
  BY DEF NoTables, NoPages, PageOrNone
<1>14. WithDir(F, NoTables) = [free |-> F.free, end |-> F.end, npages |-> F.npages,
                               dir |-> NoTables, table |-> F.table]
  BY <1>11, <1>13, SetDir
<1>15. N \in Memories /\ X \in Memories
  <2>1. /\ F.free \in Seq(Nat) /\ F.end \in Nat /\ F.npages \in Int /\ F.npages - 1 \in Int
        /\ <<pd>> \o F.free \in Seq(Nat)
    BY <1>4, <1>11, Fields, AddedInFront
  <2> QED
    BY <2>1, <1>13 DEF Memories
<1>16. Sound(p, pd, N)
  <2> DEFINE W == WithDir(F, NoTables)
  <2>1. W.dir = NoTables /\ W.table = T(p).table /\ W.free = N.free /\ W.end = N.end
        /\ W.npages = N.npages /\ N.dir = NoTables /\ N.table = NoPages
    BY <1>11, <1>14
  <2> HIDE DEF W, N
  <2>2. View(p, pd, N) = View(p, pd, W)
    BY <2>1, <1>3, <1>10, <1>13, ViewKernel
  <2>3. Sound(p, pd, W)
    BY <1>11 DEF W
  <2> QED
    BY <2>1, <2>2, <2>3, <1>15 DEF Sound
<1>17. /\ X.free = <<pd>> \o N.free /\ X.end = N.end /\ X.npages = N.npages - 1
       /\ X.dir = N.dir /\ X.table = N.table /\ X.dir = NoTables /\ X.table = NoPages
       /\ X.npages = M(p).npages
  BY <1>12
<1>18. [M(p) EXCEPT !.dir = NoTables, !.table = NoPages] = X
  <2> DEFINE Q == M(p)
             Y == [Q EXCEPT !.dir = NoTables, !.table = NoPages]
             g == <<pd>> \o F.free
             n == F.npages - 1
  <2>1. Q = [free |-> g, end |-> F.end, npages |-> n, dir |-> F.dir, table |-> F.table]
    BY <1>12
  <2> HIDE DEF g, n, Q
  <2>2. DOMAIN Q = {"free", "end", "npages", "dir", "table"}
    BY <2>1
  <2>3. Y = [f \in {"free", "end", "npages", "dir", "table"} |->
               IF f = "table" THEN NoPages ELSE IF f = "dir" THEN NoTables ELSE Q[f]]
    BY <2>2
  <2>4. Y = [free |-> g, end |-> F.end, npages |-> n, dir |-> NoTables, table |-> NoPages]
    BY <2>1, <2>3
  <2> QED
    BY <2>4 DEF g, n, Q
<1> HIDE DEF N, X
<1>19. Sound(p, None, X)
  <2>1. View(p, None, X) = Put(View(p, pd, N), <<"dir", p, 0>>, None)
    <3>1. p \in Pids /\ X.dir = N.dir /\ X.table = N.table
      BY <1>3, <1>17
    <3> QED
      BY <3>1, ViewDirectory
  <2>2. <<"dir", p, 0>> \in AllUses /\ View(p, pd, N)[<<"dir", p, 0>>] = pd
    BY <1>3, DirectoryUse
  <2> QED
    BY <2>1, <2>2, <1>3, <1>15, <1>16, <1>17, SoundFree
<1>20. free_asserts(M(p))
  BY <1>3, <1>17, <1>19, CountNotNegative DEF free_asserts
<1>21. /\ Store(X, p) /\ pdir' = [pdir EXCEPT ![p] = None] /\ live' = live \ {p}
       /\ current_process' = IF p = current_process THEN NULL ELSE current_process
       /\ active' = IF p = current_process THEN None ELSE pdir[current_process]
       /\ UNCHANGED <<text_end, data_end>> /\ panic' = panic
  BY <1>1, <1>18, <1>20
<1>22. current_process' \in live' \cup {NULL}
  BY <1>2, <1>21
<1>23. ActiveDirectoryLive'
  <2>1. CASE p = current_process
    BY <2>1, <1>21 DEF ActiveDirectoryLive
  <2>2. CASE p # current_process
    <3>1. pdir'[current_process] = pdir[current_process] /\ current_process \in live'
      BY <2>2, <1>2, <1>21 DEF TypeOK
    <3> QED
      BY <3>1, <2>2, <1>21 DEF ActiveDirectoryLive
  <2> QED
    BY <2>1, <2>2
<1> QED
  BY <1>3, <1>17, <1>19, <1>21, <1>22, <1>23, DeadAfter

(* A loop over no pages.                                                   *)
LEMMA NoIteration ==
  ASSUME NEW M, NEW a \in Nat
  PROVE  map_new_pages(M, a, a) = M /\ Pages(a, a) = {}
<1> DEFINE i == a \div PAGE_SIZE
<1>1. i \in Nat /\ i <= i
  BY Numbers, DivMono
<1>2. map_new_pages(M, a, a) = For(map_new_page, M, i, i) /\ Pages(a, a) = i .. (i - 1)
  BY DEF map_new_pages, Pages
<1> HIDE DEF i
<1>3. PICK f : Iterates(f, "new", M, i, i) /\ For(map_new_page, M, i, i) = f[i]
  BY <1>1, LoopOf
<1> QED
  BY <1>1, <1>2, <1>3 DEF Iterates

(* start_process, from a memory where no page has been handed out.         *)
LEMMA InitCorrect ==
  ASSUME Init
  PROVE  AddressInv
<1> DEFINE B == [free |-> <<>>, end |-> First + 1, npages |-> 1, dir |-> NoTables, table |-> NoPages]
           sb == STACK_BASE - STACK_SIZE
           M == map_new_pages(identity_map(B, 0, PAGE_START), sb, STACK_BASE)
           E == [free |-> <<>>, end |-> First, npages |-> 0, dir |-> NoTables, table |-> NoPages]
<1>1. PICK p \in Pids :
        /\ page_free = M.free /\ page_end = M.end /\ npages = M.npages
        /\ pdir = [q \in Pids |-> IF q = p THEN First ELSE None]
        /\ dir = [q \in Pids |-> IF q = p THEN M.dir ELSE NoTables]
        /\ table = [q \in Pids |-> IF q = p THEN M.table ELSE NoPages]
        /\ text_end = [q \in Pids |-> TEXT_BASE]
        /\ data_end = [q \in Pids |-> DATA_BASE]
        /\ live = {p} /\ current_process = NULL /\ active = None
        /\ panic = FALSE
  BY DEF Init, First
<1> HIDE DEF M
<1>2. First \in Nat /\ None = -1
  BY FirstFacts
<1>3. /\ NoTables \in [Tables -> PageOrNone] /\ NoPages \in [Logical -> PageOrNone]
      /\ \A l \in Logical : NoPages[l] = None
      /\ \A d \in Tables : NoTables[d] = None
  BY DEF NoTables, NoPages, PageOrNone
<1>4. <<>> \in Seq(Nat) /\ Len(<<>>) = 0 /\ ToSet(<<>>) = {} /\ IsInjective(<<>>)
  <2>1. <<>> \in Seq(Nat) /\ Len(<<>>) = 0 /\ DOMAIN <<>> = {}
    OBVIOUS
  <2> QED
    BY <2>1 DEF ToSet, IsInjective
<1>5. E \in Memories /\ B \in Memories
  BY <1>2, <1>3, <1>4 DEF Memories
<1>6. /\ E.free = <<>> /\ E.end = First /\ E.npages = 0 /\ E.dir = NoTables /\ E.table = NoPages
      /\ B.free = <<>> /\ B.end = First + 1 /\ B.npages = 1 /\ B.dir = NoTables /\ B.table = NoPages
  OBVIOUS
<1> HIDE DEF E, B
<1>7. ASSUME NEW u \in AllUses
      PROVE  View(p, None, E)[u] = None
  <2>1. View(p, None, E)[u] = UseOf(p, None, E, u)
    BY DEF View
  <2>2. UseOf(p, None, E, u) = None
    BY <1>1, <1>3, <1>6, UseShape DEF UseOf, PageOf
  <2> QED
    BY <2>1, <2>2
<1>8. Sound(p, None, E)
  <2> DEFINE V == View(p, None, E)
  <2>1. \A u \in AllUses : V[u] = None
    BY <1>7
  <2> HIDE DEF V
  <2>2. First .. (First - 1) = {}
    BY <1>2
  <2>3. Consistent(V, <<>>, First)
    BY <2>1, <2>2, <1>4 DEF Consistent
  <2> QED
    BY <2>3, <1>2, <1>4, <1>5, <1>6 DEF Sound, V
<1>9. Sound(p, First, B)
  <2>1. /\ NextPage(E) = First /\ alloc_page(E).free = B.free /\ alloc_page(E).end = B.end
        /\ alloc_page(E).npages = B.npages
    BY <1>5, <1>6, AllocFields
  <2>2. View(p, First, B) = Put(View(p, None, E), <<"dir", p, 0>>, First)
    BY <1>6, ViewDirectory
  <2>3. <<"dir", p, 0>> \in AllUses /\ View(p, None, E)[<<"dir", p, 0>>] = None
    BY DirectoryUse
  <2> QED
    BY <2>1, <2>2, <2>3, <1>5, <1>8, SoundAlloc
<1>10. /\ TEXT_BASE \in TEXT_BASE .. DATA_BASE /\ DATA_BASE \in DATA_BASE .. (DATA_BASE + DATA_MAX)
       /\ TEXT_BASE \in Nat /\ DATA_BASE \in Nat
  BY Numbers, Order
<1>11. Sound(p, First, M) /\ Present(M) /\ Mapped(TEXT_BASE, DATA_BASE, M)
  <2> DEFINE K == identity_map(B, 0, PAGE_START)
  <2>1. map_new_pages(map_new_pages(K, TEXT_BASE, TEXT_BASE), DATA_BASE, DATA_BASE) = K
    BY <1>10, NoIteration
  <2>2. LET T == map_new_pages(K, TEXT_BASE, TEXT_BASE)
            D == map_new_pages(T, DATA_BASE, DATA_BASE)
            S == map_new_pages(D, STACK_BASE - STACK_SIZE, STACK_BASE)
        IN  Sound(p, First, S) /\ Present(S) /\ Mapped(TEXT_BASE, DATA_BASE, S)
    BY <1>6, <1>9, <1>10, Built
  <2> QED
    BY <2>1, <2>2 DEF M
<1>12. /\ M \in Memories /\ First <= M.end /\ Consistent(View(p, First, M), M.free, M.end)
       /\ M.npages + Len(M.free) = M.end - First
  BY <1>11 DEF Sound
<1>13. M.free \in Seq(Nat) /\ M.end \in Nat /\ M.npages \in Nat /\ M.dir \in [Tables -> PageOrNone]
       /\ M.table \in [Logical -> PageOrNone]
  BY <1>11, <1>12, Fields, CountNotNegative
<1> DEFINE V == View(p, First, M)
<1>14. \A u \in AllUses : PageOf(u) = V[u]
  <2> SUFFICES ASSUME NEW u \in AllUses
               PROVE  PageOf(u) = UseOf(p, First, M, u)
    BY DEF View
  <2> QED
    BY <1>1, UseShape DEF UseOf, PageOf
<1>15. [u \in AllUses |-> PageOf(u)] = V
  BY <1>14 DEF View
<1>16. ASSUME NEW q \in Pids
       PROVE  /\ pdir[q] = V[<<"dir", q, 0>>]
              /\ dir[q] \in [Tables -> PageOrNone]
              /\ \A d \in Tables : dir[q][d] = V[<<"table", q, d>>]
              /\ table[q] \in [Logical -> PageOrNone]
              /\ \A l \in Logical \ Kernel : table[q][l] = V[<<"page", q, l>>]
              /\ \A l \in Kernel : table[q][l] \in {None, l}
  <2>1. dir[q] \in [Tables -> PageOrNone] /\ table[q] \in [Logical -> PageOrNone]
    BY <1>1, <1>3, <1>13
  <2>2. pdir[q] = V[<<"dir", q, 0>>]
    <3>1. V[<<"dir", q, 0>>] = PageOf(<<"dir", q, 0>>)
      BY <1>14, UseKinds
    <3> QED
      BY <3>1 DEF PageOf
  <2>3. ASSUME NEW d \in Tables
        PROVE  dir[q][d] = V[<<"table", q, d>>]
    <3>1. V[<<"table", q, d>>] = PageOf(<<"table", q, d>>)
      BY <1>14, UseKinds
    <3> QED
      BY <3>1 DEF PageOf
  <2>4. ASSUME NEW l \in Logical \ Kernel
        PROVE  table[q][l] = V[<<"page", q, l>>]
    <3>1. V[<<"page", q, l>>] = PageOf(<<"page", q, l>>)
      BY <1>14, UseKinds
    <3> QED
      BY <3>1 DEF PageOf
  <2>5. ASSUME NEW l \in Kernel
        PROVE  table[q][l] \in {None, l}
    BY <1>1, <1>3, <1>11, Layout DEF Mapped
  <2> QED
    BY <2>1, <2>2, <2>3, <2>4, <2>5
<1>17. Shows(V, pdir, dir, table)
  BY <1>16 DEF Shows
<1> HIDE DEF V
<1>18. \A q \in Pids : pdir[q] \in Entries /\ dir[q] \in [Tables -> Entries]
                       /\ table[q] \in [Logical -> Entries]
  <2>1. Entries = {None} \cup (0 .. M.end - 1)
    BY <1>1 DEF Entries
  <2> QED
    BY <2>1, <1>12, <1>13, <1>17, EntryTypes DEF V
<1>19. pdir \in [Pids -> Entries] /\ dir \in [Pids -> [Tables -> Entries]]
       /\ table \in [Pids -> [Logical -> Entries]]
  <2> DEFINE T == [Tables -> Entries]
             L == [Logical -> Entries]
  <2>1. \A q \in Pids : pdir[q] \in Entries /\ dir[q] \in T /\ table[q] \in L
    BY <1>18
  <2>2. pdir = [q \in Pids |-> pdir[q]] /\ dir = [q \in Pids |-> dir[q]]
        /\ table = [q \in Pids |-> table[q]]
    BY <1>1
  <2> HIDE DEF T, L
  <2>3. pdir \in [Pids -> Entries] /\ dir \in [Pids -> T] /\ table \in [Pids -> L]
    BY <2>1, <2>2
  <2> QED
    BY <2>3 DEF T, L
<1>20. TypeOK
  <2>1. \A q \in Pids : Aligned(text_end[q]) /\ Aligned(data_end[q])
    BY <1>1, Numbers
  <2>2. live \subseteq Pids /\ current_process \in live \cup {NULL} /\ panic \in BOOLEAN
    BY <1>1
  <2> QED
    BY <2>1, <2>2, <1>1, <1>13, <1>19 DEF TypeOK
<1>21. SegmentBounds
  BY <1>1, <1>10 DEF SegmentBounds
<1>22. SegmentsMapped
  <2> DEFINE S == Kernel \cup Stack \cup Pages(DATA_BASE, DATA_BASE) \cup Pages(TEXT_BASE, TEXT_BASE)
  <2>1. S \subseteq Logical
    BY <1>10, Segments
  <2>2. \A l \in Logical : (M.table[l] # None <=> l \in S) /\ (l \in Kernel => M.table[l] = l)
    BY <1>11 DEF Mapped
  <2> HIDE DEF S
  <2>3. {l \in Logical : M.table[l] # None} = S
    BY <2>1, <2>2
  <2>4. \A l \in Kernel : M.table[l] = l
    BY <2>2, Layout
  <2>5. live = {p} /\ table[p] = M.table /\ text_end[p] = TEXT_BASE /\ data_end[p] = DATA_BASE
    BY <1>1
  <2> QED
    BY <2>3, <2>4, <2>5 DEF SegmentsMapped, lookup_page, Data, Text, S
<1>23. TablesPresent
  <2>1. \A q \in Pids : IF q = p THEN dir[q] = M.dir /\ table[q] = M.table ELSE table[q] = NoPages
    BY <1>1
  <2> QED
    BY <2>1, <1>3, <1>11 DEF TablesPresent, Present
<1>24. DeadHaveNothing
  BY <1>1, <1>2 DEF DeadHaveNothing
<1>25. ActiveDirectoryLive /\ NoPanic
  BY <1>1 DEF ActiveDirectoryLive, NoPanic
<1>26. /\ Consistent([u \in AllUses |-> PageOf(u)], page_free, page_end)
       /\ npages + Len(page_free) = page_end - First
  BY <1>1, <1>12, <1>15 DEF V
<1> QED
  BY <1>20, <1>21, <1>22, <1>23, <1>24, <1>25, <1>26 DEF AddressInv

-----------------------------------------------------------------------------
(***************************************************************************)
(* The theorems.                                                           *)
(***************************************************************************)
(* The invariant holds at all times: page.c and its users keep the         *)
(* allocator, the page tables, the segments and the directory in use       *)
(* consistent with each other.                                             *)
THEOREM AddressCorrect == Spec => []AddressInv
<1>1. Init => AddressInv
  BY InitCorrect
<1>2. AddressInv /\ [Next]_vars => AddressInv'
  <2> SUFFICES ASSUME AddressInv, [Next]_vars
               PROVE  AddressInv'
    OBVIOUS
  <2>1. CASE context_switch
    BY <2>1, SwitchStep
  <2>2. CASE syscall_fork
    BY <2>2, ForkStep
  <2>3. CASE syscall_execve
    BY <2>3, ExecveStep
  <2>4. CASE syscall_brk
    BY <2>4, BrkStep
  <2>5. CASE kill_process
    BY <2>5, KillStep
  <2>6. CASE UNCHANGED vars
    <3>1. /\ UNCHANGED <<allocVars, pdir, dir, table, text_end, data_end, live, panic>>
          /\ UNCHANGED <<current_process, active>>
      BY <2>6 DEF vars
    <3>2. current_process' \in live \cup {NULL}
      BY <3>1 DEF AddressInv, TypeOK
    <3>3. ActiveDirectoryLive'
      BY <3>1 DEF AddressInv, ActiveDirectoryLive
    <3> QED
      BY <3>1, <3>2, <3>3, NothingMoved
  <2> QED
    BY <2>1, <2>2, <2>3, <2>4, <2>5, <2>6 DEF Next
<1> QED
  BY <1>1, <1>2, PTL DEF Spec

(* The uses that live processes have are all the uses there are.           *)
LEMMA UsesOfTheLiving ==
  ASSUME AddressInv
  PROVE  InUse = {u \in AllUses : PageOf(u) # None}
<1>1. live \subseteq Pids /\ DeadHaveNothing
  BY DEF AddressInv, TypeOK
<1>2. Uses \subseteq AllUses
  BY <1>1 DEF Uses, AllUses
<1>3. ASSUME NEW u \in AllUses, PageOf(u) # None
      PROVE  u \in Uses
  <2>1. /\ u = <<u[1], u[2], u[3]>> /\ u[2] \in Pids
        /\ \/ u[1] = "dir" /\ u[3] = 0
           \/ u[1] = "table" /\ u[3] \in Tables
           \/ u[1] = "page" /\ u[3] \in Logical \ Kernel
    BY UseShape
  <2>2. u[2] \in live
    <3> SUFFICES ASSUME u[2] \notin live
                 PROVE  PageOf(u) = None
      BY <1>3
    <3>1. pdir[u[2]] = None /\ dir[u[2]] = NoTables /\ table[u[2]] = NoPages
      BY <1>1, <2>1 DEF DeadHaveNothing
    <3> QED
      BY <2>1, <3>1 DEF PageOf, NoTables, NoPages
  <2> QED
    BY <2>1, <2>2 DEF Uses
<1> QED
  BY <1>2, <1>3 DEF InUse

(* No physical page ever has two uses, none in use is on the free list,    *)
(* and none belongs to the kernel.                                         *)
THEOREM PagesStayApart == Spec => []PagesApart
<1>1. AddressInv => PagesApart
  <2> SUFFICES ASSUME AddressInv
               PROVE  PagesApart
    OBVIOUS
  <2> DEFINE V == [u \in AllUses |-> PageOf(u)]
  <2>1. Consistent(V, page_free, page_end)
    BY DEF AddressInv
  <2>2. InUse = {u \in AllUses : PageOf(u) # None} /\ \A u \in AllUses : V[u] = PageOf(u)
    BY UsesOfTheLiving
  <2> HIDE DEF V
  <2>3. \A u \in AllUses : V[u] # None => V[u] \in First .. (page_end - 1)
    BY <2>1, Covered DEF Consistent
  <2>4. \A g \in First .. (page_end - 1) : g \notin Kernel
    BY Layout, FirstFacts
  <2>5. \A u, v \in InUse : PageOf(u) = PageOf(v) => u = v
    BY <2>1, <2>2 DEF Consistent
  <2>6. \A u \in InUse : PageOf(u) \notin ToSet(page_free) /\ PageOf(u) \notin Kernel
    BY <2>1, <2>2, <2>3, <2>4 DEF Consistent
  <2> QED
    BY <2>1, <2>5, <2>6 DEF PagesApart, Consistent
<1> QED
  BY <1>1, AddressCorrect, PTL

(* Every page ever handed out is in use or on the free list, and npages    *)
(* counts the ones in use.                                                 *)
THEOREM NoPageIsLost == Spec => []NoPageLost
<1>1. AddressInv => NoPageLost
  <2> SUFFICES ASSUME AddressInv
               PROVE  NoPageLost
    OBVIOUS
  <2> DEFINE V == [u \in AllUses |-> PageOf(u)]
             U == {u \in AllUses : V[u] # None}
  <2>1. /\ Consistent(V, page_free, page_end) /\ npages + Len(page_free) = page_end - First
        /\ page_free \in Seq(Nat) /\ page_end \in Nat /\ npages \in Nat
    BY DEF AddressInv, TypeOK
  <2>2. InUse = U /\ \A u \in AllUses : V[u] = PageOf(u)
    BY UsesOfTheLiving
  <2>3. Len(page_free) \in Nat
    BY <2>1, LenProperties
  <2> HIDE DEF V
  <2>4. First <= page_end
    BY <2>1, <2>3, FirstFacts
  <2>5. Cardinality(U) \in Nat /\ Cardinality(U) + Len(page_free) = page_end - First
    BY <2>1, <2>4, UsesCounted
  <2>6. npages = Cardinality(InUse)
    BY <2>1, <2>2, <2>3, <2>5, FirstFacts
  <2>7. ({V[u] : u \in AllUses} \ {None}) \cup ToSet(page_free) = First .. (page_end - 1)
    BY <2>1 DEF Consistent
  <2>8. {PageOf(u) : u \in InUse} = {V[u] : u \in AllUses} \ {None}
    BY <2>2
  <2> QED
    BY <2>6, <2>7, <2>8 DEF NoPageLost, First
<1> QED
  BY <1>1, AddressCorrect, PTL

(* A live process has pages exactly where its segments say, and the        *)
(* kernel's memory at its own addresses.                                   *)
THEOREM SegmentsAreMapped == Spec => []SegmentsMapped
<1>1. AddressInv => SegmentsMapped
  BY DEF AddressInv
<1> QED
  BY <1>1, AddressCorrect, PTL

(* The page of the last byte below a page boundary.                        *)
LEMMA LastPage ==
  ASSUME NEW x \in Nat, NEW b \in Nat, Aligned(b), x < b
  PROVE  x \div PAGE_SIZE \in Nat /\ x \div PAGE_SIZE <= b \div PAGE_SIZE - 1
<1> DEFINE P == PAGE_SIZE
           i == x \div P
           j == b \div P
<1>1. P \in Nat \ {0} /\ b % P = 0
  BY Numbers DEF Aligned
<1>2. i \in Nat /\ x % P \in 0 .. (P - 1) /\ x = i * P + (x % P)
  BY <1>1, Multiple
<1>3. j \in Nat /\ b = j * P + (b % P)
  BY <1>1, Multiple
<1> HIDE DEF P, i, j
<1>4. i * P \in Nat /\ j * P \in Nat /\ x % P \in Nat
  BY <1>1, <1>2, <1>3
<1>5. i * P < j * P
  BY <1>1, <1>2, <1>3, <1>4
<1>6. i < j
  BY <1>1, <1>2, <1>3, <1>5, Z3
<1> QED
  BY <1>2, <1>3, <1>6 DEF P, i, j

(* A range of bytes inside a segment touches only pages of the segment.    *)
LEMMA RangeInside ==
  ASSUME NEW a \in Nat, NEW b \in Nat, Aligned(b), NEW start \in Nat, NEW end \in Nat,
         a <= start, end <= b, start < end
  PROVE  (start \div PAGE_SIZE) .. ((end - 1) \div PAGE_SIZE) \subseteq Pages(a, b)
<1>1. a \div PAGE_SIZE \in Nat /\ start \div PAGE_SIZE \in Nat
      /\ a \div PAGE_SIZE <= start \div PAGE_SIZE
  BY Numbers, DivMono
<1>2. end - 1 \in Nat /\ end - 1 < b
  OBVIOUS
<1>3. (end - 1) \div PAGE_SIZE \in Nat /\ (end - 1) \div PAGE_SIZE <= b \div PAGE_SIZE - 1
  BY <1>2, LastPage
<1>4. b \div PAGE_SIZE \in Nat
  BY Numbers, DivMono
<1> DEFINE i == a \div PAGE_SIZE
           j == b \div PAGE_SIZE
           k == start \div PAGE_SIZE
           m == (end - 1) \div PAGE_SIZE
<1> HIDE DEF i, j, k, m
<1>5. i \in Nat /\ j \in Nat /\ k \in Nat /\ m \in Nat /\ i <= k /\ m <= j - 1
  BY <1>1, <1>3, <1>4 DEF i, j, k, m
<1>6. k .. m \subseteq i .. (j - 1)
  BY <1>5
<1> QED
  BY <1>6 DEF Pages, i, j, k, m

(* The kernel can access what valid_pointer accepts: no page fault inside  *)
(* a system call comes from a pointer that was checked.                    *)
THEOREM AcceptedPointersMapped == Spec => []ValidPointersMapped
<1>1. AddressInv => ValidPointersMapped
  <2> SUFFICES ASSUME AddressInv, NEW p \in live, NEW start \in 0 .. (WORD - 1),
                      NEW size \in 1 .. (WORD - 1), valid_pointer(p, start, size),
                      NEW l \in (start \div PAGE_SIZE) .. ((start + size - 1) \div PAGE_SIZE)
               PROVE  l \in Logical /\ lookup_page(p, l)
    BY DEF ValidPointersMapped
  <2> DEFINE sb == STACK_BASE - STACK_SIZE
             te == text_end[p]
             de == data_end[p]
             end == (start + size) % WORD
  <2>1. /\ Mapped(te, de, MemoryOf(p))
        /\ te \in TEXT_BASE .. DATA_BASE /\ Aligned(te)
        /\ de \in DATA_BASE .. (DATA_BASE + DATA_MAX) /\ Aligned(de)
    BY MappedNow
  <2>2. \A k \in Logical : table[p][k] # None
          <=> k \in Kernel \cup Stack \cup Pages(DATA_BASE, de) \cup Pages(TEXT_BASE, te)
    BY <2>1 DEF Mapped, MemoryOf, Memory
  <2>3. /\ end >= start
        /\ \/ start >= sb /\ end <= STACK_BASE
           \/ start >= DATA_BASE /\ end <= de
           \/ start >= TEXT_BASE /\ end <= te
    BY Numbers DEF valid_pointer, within
  <2>4. end = start + size
    <3>1. WORD \in Nat \ {0} /\ start \in Nat /\ size \in Nat /\ start < WORD /\ size < WORD
      BY Numbers
    <3>2. start + size >= WORD => end = start + size - WORD
      BY <3>1
    <3>3. start + size < WORD => end = start + size
      BY <3>1
    <3> QED
      BY <3>1, <3>2, <3>3, <2>3
  <2> HIDE DEF end, te, de, sb
  <2>5. start \in Nat /\ end \in Nat /\ start < end
    BY <2>4, Numbers
  <2>6. /\ sb \in Nat /\ STACK_BASE \in Nat /\ DATA_BASE \in Nat /\ TEXT_BASE \in Nat
        /\ te \in Nat /\ de \in Nat /\ Aligned(STACK_BASE)
    BY <2>1, Numbers, Order DEF sb
  <2>7. l \in (start \div PAGE_SIZE) .. ((end - 1) \div PAGE_SIZE)
    BY <2>4
  <2>8. Stack = Pages(sb, STACK_BASE)
    BY DEF Stack, sb
  <2>9. /\ Stack \subseteq Logical /\ Pages(DATA_BASE, de) \subseteq Logical
        /\ Pages(TEXT_BASE, te) \subseteq Logical
    BY <2>1, Segments
  <2>10. CASE start >= sb /\ end <= STACK_BASE
    <3>1. l \in Stack
      BY <2>5, <2>6, <2>7, <2>8, <2>10, RangeInside
    <3> QED
      BY <3>1, <2>2, <2>9 DEF lookup_page
  <2>11. CASE start >= DATA_BASE /\ end <= de
    <3>1. l \in Pages(DATA_BASE, de)
      BY <2>1, <2>5, <2>6, <2>7, <2>11, RangeInside
    <3> QED
      BY <3>1, <2>2, <2>9 DEF lookup_page
  <2>12. CASE start >= TEXT_BASE /\ end <= te
    <3>1. l \in Pages(TEXT_BASE, te)
      BY <2>1, <2>5, <2>6, <2>7, <2>12, RangeInside
    <3> QED
      BY <3>1, <2>2, <2>9 DEF lookup_page
  <2> QED
    BY <2>3, <2>10, <2>11, <2>12
<1> QED
  BY <1>1, AddressCorrect, PTL

(* The processor never uses the page directory of a process that is gone,  *)
(* and runs a process in that process's own memory.                        *)
THEOREM DirectoryInUseIsLive == Spec => []ActiveDirectoryLive
<1>1. AddressInv => ActiveDirectoryLive
  BY DEF AddressInv
<1> QED
  BY <1>1, AddressCorrect, PTL

(* The asserts of free_page, map_and_copy and brk never fail.              *)
THEOREM AddressAssertsHold == Spec => []NoPanic
<1>1. AddressInv => NoPanic
  BY DEF AddressInv
<1> QED
  BY <1>1, AddressCorrect, PTL

=============================================================================
