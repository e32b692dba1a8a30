-------------------------------- MODULE Buddy --------------------------------
(***************************************************************************)
(* The buddy allocator of buddy.c behind kmalloc, kfree, malloc and free.  *)
(*                                                                         *)
(* A memory area of 2^Upper bytes is divided into blocks whose sizes are   *)
(* powers of two, at least 2^Lower; a block is named by its offset. One    *)
(* iteration of the loop that splits blocks, or of the one that merges     *)
(* them, is one step. The links that the code keeps inside unused blocks   *)
(* make each free list a sequence of blocks. The callers' side is held:    *)
(* the blocks they were given and have not freed, with the size they asked *)
(* for.                                                                    *)
(***************************************************************************)
EXTENDS Integers, Sequences, SequencesExt

CONSTANTS
  Lower,     \* log2 of the smallest block (DEFAULT_LOWER)
  Upper,     \* log2 of the size of the area
  Requests,  \* the sizes that callers ask for, in bytes
  Userland   \* whether exhaustion returns NULL (USERLAND) or fails an assert

ASSUME BuddyAssumption ==
  /\ Lower \in Nat /\ Upper \in Nat /\ 2 <= Lower /\ Lower <= Upper /\ Upper < 31
  /\ Requests \subseteq 0 .. 2^29   \* mforsize loops forever from 2^31 on
  /\ Userland \in BOOLEAN

(* The law of powers, for exponents of a machine word.                     *)
ASSUME PowersAssumption ==
  \A j, k \in 0 .. 30 : j + k <= 30 => 2^(j + k) = 2^j * 2^k /\ 2^k \in Nat \ {0}

VARIABLES
  sizem, used,   \* struct blockinfo of each granule
  freelist,      \* the free list of each block size
  pc,            \* "idle", inside buddy_alloc or buddy_free, or "panic"
  m,             \* the local m of the call in progress
  cm,            \* the local cm of buddy_alloc
  block,         \* the local block of buddy_free
  nbytes,        \* the argument of buddy_alloc
  held           \* block -> bytes asked for

vars == <<sizem, used, freelist, pc, m, cm, block, nbytes, held>>

Measures == Lower .. Upper
Blocks   == {k * 2^Lower : k \in 0 .. (2^(Upper - Lower) - 1)}

TypeOK ==
  /\ sizem \in [Blocks -> Measures \cup {0}]
  /\ used \subseteq Blocks
  /\ freelist \in [Measures -> Seq(Blocks)]
  /\ pc \in {"idle", "split", "merge", "panic"}
  /\ m \in Nat /\ cm \in Nat /\ block \in Blocks /\ nbytes \in Nat
  /\ DOMAIN held \subseteq Blocks

(* mforsize: the least k with 2^k > n, at least Lower. The loop tests      *)
(* pow2 <= nbytes, so a power of two is rounded up to the next one. The    *)
(* faulty variants test pow2 * 2 < nbytes, and forget Lower.               *)
TooSmall(n) ==
  CHOOSE k \in Lower .. 30 : 2^(k + 1) >= n /\ \A j \in Lower .. (k - 1) : 2^(j + 1) < n
Unclamped(n) ==
  CHOOSE k \in 0 .. 30 : 2^k > n /\ \A j \in 0 .. (k - 1) : 2^j <= n
mforsize(n) ==
  CHOOSE k \in Lower .. 30 : 2^k > n /\ \A j \in Lower .. (k - 1) : 2^j <= n

(* The other half of the block twice the size: bit sizem[b] of b flipped.  *)
get_buddy(b) ==
  IF (b \div 2^sizem[b]) % 2 = 1 THEN b - 2^sizem[b] ELSE b + 2^sizem[b]

(* A failed assert; nothing after it can be observed.                      *)
Panic == pc' = "panic" /\ UNCHANGED <<sizem, used, freelist, m, cm, block, nbytes, held>>

(* Lists after a block has been put in front of the list of size k, and    *)
(* after it has been taken from it.                                        *)
add_to_freelist(L, k, b)      == [L EXCEPT ![k] = <<b>> \o @]
remove_from_freelist(L, k, b) == [L EXCEPT ![k] = RemoveFirst(@, b)]

(* Their asserts.                                                          *)
add_asserts(k, b)    == b + 2^k <= 2^Upper
remove_asserts(k, b) == Contains(freelist[k], b)

(* No block is large enough: buddy_alloc returns NULL, which malloc and    *)
(* kmalloc do not accept.                                                  *)
OutOfMemory == IF Userland THEN UNCHANGED vars ELSE Panic

(* buddy_init.                                                             *)
Init ==
  /\ sizem = [b \in Blocks |-> IF b = 0 THEN Upper ELSE 0]
  /\ used = {}
  /\ freelist = [k \in Measures |-> IF k = Upper THEN <<0>> ELSE <<>>]
  /\ pc = "idle" /\ m = 0 /\ cm = 0 /\ block = 0 /\ nbytes = 0
  /\ held = <<>>

(* The sizes of block that could satisfy a request for a block of size k.  *)
Candidates(k) == {j \in Measures : j >= k /\ freelist[j] # <<>>}

(* buddy_alloc up to its loop: the smallest size, from mforsize on, that   *)
(* has an unused block; without one the request fails.                     *)
buddy_alloc(n) ==
  /\ pc = "idle"
  /\ LET k == mforsize(n) IN
     IF Candidates(k) = {}
     THEN OutOfMemory
     ELSE /\ pc' = "split" /\ m' = k /\ nbytes' = n
          /\ cm' = CHOOSE j \in Candidates(k) : \A i \in Candidates(k) : j <= i
          /\ UNCHANGED <<sizem, used, freelist, block, held>>

(* One iteration of its loop: split the first block of size cm.            *)
split_asserts(b) ==
  /\ b \notin used /\ sizem[b] = cm /\ (b + 2^(cm - 1)) \notin used
  /\ add_asserts(cm - 1, b) /\ add_asserts(cm - 1, b + 2^(cm - 1))

SplitBlock ==
  LET half1 == Head(freelist[cm])
      half2 == half1 + 2^(cm - 1)
  IN
  /\ pc = "split" /\ cm > m
  /\ IF ~ split_asserts(half1) THEN Panic
     ELSE /\ sizem' = [sizem EXCEPT ![half1] = cm - 1, ![half2] = cm - 1]
          /\ freelist' = add_to_freelist(add_to_freelist(
                            remove_from_freelist(freelist, cm, half1),
                            cm - 1, half2), cm - 1, half1)
          /\ cm' = cm - 1
          /\ UNCHANGED <<used, pc, m, block, nbytes, held>>

(* The end of buddy_alloc: hand out the first block of the right size. The *)
(* faulty variant forgets to mark it as used.                              *)
Unmarked(b) == used
Marked(b) == used \cup {b}

TakeBlock ==
  LET b == Head(freelist[m]) IN
  /\ pc = "split" /\ cm = m
  /\ IF b \in used \/ sizem[b] # m THEN Panic
     ELSE /\ used' = Marked(b)
          /\ freelist' = remove_from_freelist(freelist, m, b)
          /\ held' = [c \in DOMAIN held \cup {b} |-> IF c = b THEN nbytes ELSE held[c]]
          /\ pc' = "idle" /\ m' = 0 /\ cm' = 0 /\ nbytes' = 0
          /\ UNCHANGED <<sizem, block>>

(* buddy_free up to its loop. A NULL pointer is ignored.                   *)
buddy_free(b) ==
  /\ pc = "idle"
  /\ IF sizem[b] \notin Measures \/ b \notin used THEN Panic
     ELSE /\ used' = used \ {b}
          /\ held' = [c \in DOMAIN held \ {b} |-> held[c]]
          /\ pc' = "merge" /\ m' = sizem[b] /\ block' = b
          /\ UNCHANGED <<sizem, freelist, cm, nbytes>>

(* The loop's condition: the buddy is a whole, unused block of this size.  *)
(* The faulty variants do not compare the sizes, and stop too early.       *)
MergesUnused ==
  m < Upper /\ get_buddy(block) \notin used /\ sizem[get_buddy(block)] # 0
MergesBelow ==
  m < Upper - 1 /\ get_buddy(block) \notin used /\ sizem[get_buddy(block)] = m
Merges ==
  m < Upper /\ get_buddy(block) \notin used /\ sizem[get_buddy(block)] = m

(* One iteration of its loop.                                              *)
MergeBlock ==
  LET buddy == get_buddy(block)
      low   == IF block > buddy THEN buddy ELSE block
      high  == IF block > buddy THEN block ELSE buddy
  IN
  /\ pc = "merge" /\ Merges
  /\ IF ~ remove_asserts(m, buddy) THEN Panic
     ELSE /\ freelist' = remove_from_freelist(freelist, m, buddy)
          /\ sizem' = [sizem EXCEPT ![low] = m + 1, ![high] = 0]
          /\ block' = low
          /\ m' = m + 1
          /\ UNCHANGED <<used, pc, cm, nbytes, held>>

(* The end of buddy_free: the block goes on the free list of its size.     *)
ReleaseBlock ==
  /\ pc = "merge" /\ ~ Merges
  /\ IF ~ add_asserts(m, block) THEN Panic
     ELSE /\ freelist' = add_to_freelist(freelist, m, block)
          /\ pc' = "idle" /\ m' = 0 /\ block' = 0
          /\ UNCHANGED <<sizem, used, cm, nbytes, held>>

Next ==
  \/ \E n \in Requests : buddy_alloc(n)
  \/ SplitBlock
  \/ TakeBlock
  \/ \E b \in DOMAIN held : buddy_free(b)
  \/ MergeBlock
  \/ ReleaseBlock

Spec == Init /\ [][Next]_vars

-----------------------------------------------------------------------------
(***************************************************************************)
(* Correctness.                                                            *)
(***************************************************************************)
Bytes(b, n) == b .. (b + n - 1)

(* What callers were given lies inside the area, is large enough, and no   *)
(* byte was given out twice.                                               *)
HeldApart ==
  /\ \A b \in DOMAIN held : b + held[b] <= 2^Upper /\ held[b] <= 2^sizem[b]
  /\ \A b, c \in DOMAIN held : b # c => Bytes(b, held[b]) \cap Bytes(c, held[c]) = {}

(* The unused blocks of size k; the block that buddy_free is merging is on *)
(* no list.                                                                *)
Unused(k) == {b \in Blocks \ used : sizem[b] = k /\ ~ (pc = "merge" /\ b = block)}

(* The blocks tile the area (no byte lost, none in two blocks), and each   *)
(* unused block is exactly once on the free list of its size.              *)
BlocksTile ==
  /\ \A g \in Blocks :
       \E b \in Blocks : /\ sizem[b] # 0 /\ g \in Bytes(b, 2^sizem[b])
                         /\ \A c \in Blocks \ {b} : sizem[c] # 0 => g \notin Bytes(c, 2^sizem[c])
  /\ \A k \in Measures : ToSet(freelist[k]) = Unused(k) /\ IsInjective(freelist[k])

(* Between calls two buddies are never both unused, so memory that has     *)
(* been freed is available again in the largest possible blocks; with      *)
(* nothing held the whole area is one block.                               *)
FullyMerged ==
  pc = "idle" =>
    /\ \A b \in Blocks \ used : sizem[b] \in Measures \ {Upper} =>
         get_buddy(b) \in used \/ sizem[get_buddy(b)] # sizem[b]
    /\ DOMAIN held = {} => freelist[Upper] = <<0>>

(* No assert of the allocator fails but the one for exhausted memory.      *)
NoPanic == pc # "panic"

-----------------------------------------------------------------------------
(***************************************************************************)
(* Why it is correct: the inductive invariant.                             *)
(***************************************************************************)
Heads == {b \in Blocks : sizem[b] # 0}

(* Blocks start at multiples of their size, one ends before the next       *)
(* begins, and together they cover the area.                               *)
Layout ==
  /\ \A b \in Heads : b % 2^sizem[b] = 0 /\ b + 2^sizem[b] <= 2^Upper
  /\ \A b, c \in Heads : b < c => b + 2^sizem[b] <= c
  /\ \A g \in Blocks : \E b \in Heads : b <= g /\ g < b + 2^sizem[b]

(* What is held is in use, in a block with more bytes than were asked for. *)
Usage ==
  /\ used = DOMAIN held /\ used \subseteq Heads
  /\ \A b \in used : held[b] \in Nat /\ held[b] < 2^sizem[b]

Lists == \A k \in Measures : ToSet(freelist[k]) = Unused(k) /\ IsInjective(freelist[k])

(* The locals of a call in progress.                                       *)
Locals ==
  /\ pc = "split" => /\ cm \in Measures /\ m \in Lower .. cm /\ freelist[cm] # <<>>
                     /\ nbytes < 2^m
  /\ pc = "merge" => block \in Heads \ used /\ sizem[block] = m

(* The only buddies that can both be unused are the halves of the block    *)
(* that buddy_alloc has just split, or the block that buddy_free is about  *)
(* to merge and its buddy.                                                 *)
Mergeable(b) ==
  /\ b \in Heads \ used /\ sizem[b] < Upper
  /\ get_buddy(b) \notin used /\ sizem[get_buddy(b)] = sizem[b]
Pairs ==
  \A b \in Blocks : Mergeable(b) =>
    \/ pc = "split" /\ sizem[b] = cm /\ Head(freelist[cm]) \in {b, get_buddy(b)}
    \/ pc = "merge" /\ block \in {b, get_buddy(b)}

BuddyInv ==
  /\ TypeOK /\ Layout /\ Usage /\ Lists /\ Locals /\ Pairs
  /\ Userland => NoPanic
=============================================================================
