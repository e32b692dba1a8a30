---------------------------- MODULE AddressSpace ----------------------------
(***************************************************************************)
(* Physical pages and address spaces: the page allocator and page tables   *)
(* of page.c, and their users start_process, fork, vfork, execve, brk and  *)
(* kill_process.                                                           *)
(*                                                                         *)
(* Addresses are in bytes, of machine words that count modulo WORD. Pages  *)
(* are named by number, physical and logical. The scheduler is reduced to  *)
(* the choice of some live process, or none, and process slots to some     *)
(* free one; contents and permissions of pages are left out. Every         *)
(* operation runs with interrupts off and is one step.                     *)
(***************************************************************************)
EXTENDS Integers, Sequences, SequencesExt, FiniteSets

CONSTANTS
  Pids,                      \* process slots
  NULL,                      \* no process
  PAGE_SIZE, WORD,           \* bytes in a page; 2^32
  TABLE_SIZE,                \* entries of a page table (1024)
  PAGE_START,                \* end of the kernel's memory, start of the pages
  TEXT_BASE, DATA_BASE,      \* where these segments start
  STACK_BASE, STACK_SIZE,    \* where the stack ends, and its size
  DATA_MAX,                  \* PROCESS_DATA_MAX
  Images,                    \* the sizes of executable files
  BrkEnds,                   \* the data segment ends that programs ask for
  MaxReleases                \* bound on the operations that free pages

Aligned(a) == a % PAGE_SIZE = 0

(* Images fit between the text and the data segment, and programs ask for  *)
(* at most DATA_MAX bytes of data, which fit below the stack: the kernel   *)
(* checks neither.                                                         *)
ASSUME SpaceAssumption ==
  /\ NULL \notin Pids
  /\ PAGE_SIZE \in Nat \ {0} /\ TABLE_SIZE \in Nat \ {0}
  /\ \A a \in {WORD, PAGE_START, TEXT_BASE, DATA_BASE, STACK_BASE, STACK_SIZE, DATA_MAX} :
       a \in Nat \ {0} /\ Aligned(a)
  /\ PAGE_START <= TEXT_BASE /\ TEXT_BASE <= DATA_BASE
  /\ DATA_BASE + DATA_MAX <= STACK_BASE - STACK_SIZE /\ STACK_BASE < WORD
  /\ \A size \in Images : size \in Nat /\ TEXT_BASE + size <= DATA_BASE
  /\ \A end \in BrkEnds : end \in Nat /\ end <= DATA_BASE + DATA_MAX
  /\ MaxReleases \in Nat

VARIABLES
  page_free, page_end, npages,  \* page.c; page_end as a page number
  pdir,                 \* the page that holds a process's page directory
  dir,                  \* its entries: the pages that hold page tables
  table,                \* the entries of those: the page at a logical page
  text_end, data_end,
  live,                 \* the processes that have an address space
  current_process,
  active,               \* the page directory in use; None when paging is off
  panic,                \* an assert has failed
  releases              \* the operations that have freed pages, for the bound

allocVars == <<page_free, page_end, npages>>
vars == <<allocVars, pdir, dir, table, text_end, data_end, live, current_process, active, panic,
          releases>>

None    == -1   \* an entry that is not present
Logical == 0 .. (WORD \div PAGE_SIZE - 1)
NTables == (WORD \div PAGE_SIZE - 1) \div TABLE_SIZE + 1   \* entries of a directory (1024)
Tables  == 0 .. (NTables - 1)

(* The logical pages of the addresses from a to b.                         *)
Pages(a, b) == (a \div PAGE_SIZE) .. (b \div PAGE_SIZE - 1)

Kernel  == Pages(0, PAGE_START)
Stack   == Pages(STACK_BASE - STACK_SIZE, STACK_BASE)
Text(p) == Pages(TEXT_BASE, text_end[p])
Data(p) == Pages(DATA_BASE, data_end[p])

-----------------------------------------------------------------------------
(* The functions of page.c, on a record of the allocator and one process's *)
(* tables. A page that is freed goes to the front of the free list.        *)
NextPage(M) == IF M.free = <<>> THEN M.end ELSE Head(M.free)

alloc_page(M) ==
  IF M.free = <<>> THEN [M EXCEPT !.end = @ + 1, !.npages = @ + 1]
                   ELSE [M EXCEPT !.free = Tail(@), !.npages = @ + 1]

free_page(M, page) == [M EXCEPT !.free = <<page>> \o @, !.npages = @ - 1]

(* free_page asserts that there is a page to free; M is the memory after   *)
(* some calls of it.                                                       *)
free_asserts(M) == M.npages >= 0

(* map_page makes the page table if there is none yet.                     *)
map_page(M, l, page) ==
  LET d == l \div TABLE_SIZE
      T == IF M.dir[d] = None THEN [alloc_page(M) EXCEPT !.dir[d] = NextPage(M)] ELSE M
  IN  [T EXCEPT !.table[l] = page]

unmap_and_free_page(M, l) ==
  IF M.table[l] = None THEN M ELSE [free_page(M, M.table[l]) EXCEPT !.table[l] = None]

lookup_page(p, l) == table[p][l] # None

(* Op for each number from i to j - 1, in ascending order.                 *)
For(Op(_, _), M, i, j) ==
  LET loop[n \in i .. j] == IF n = i THEN M ELSE Op(loop[n - 1], n - 1) IN loop[j]

(* One iteration of identity_map; of map_new_pages, of map_and_copy and of *)
(* execve's loop; and of free_page_dir.                                    *)
identity_page(M, l) == map_page(M, l, l)
map_new_page(M, l)  == map_page(alloc_page(M), l, NextPage(M))
free_table(M, d)    == IF M.dir[d] = None THEN M ELSE free_page(M, M.dir[d])

(* The loops over the pages from address start to address end.             *)
identity_map(M, start, end) == For(identity_page, M, start \div PAGE_SIZE, end \div PAGE_SIZE)
map_new_pages(M, start, end) == For(map_new_page, M, start \div PAGE_SIZE, end \div PAGE_SIZE)
unmap_pages(M, start, end) == For(unmap_and_free_page, M, start \div PAGE_SIZE, end \div PAGE_SIZE)

(* free_page_dir: the page tables, then the directory. The faulty variant  *)
(* forgets the directory.                                                  *)
FreeTables(M) == For(free_table, M, 0, NTables)
free_tables_only(M, page) == FreeTables(M)
free_page_dir(M, page) == free_page(FreeTables(M), page)

Memory(d, t) == [free |-> page_free, end |-> page_end, npages |-> npages, dir |-> d, table |-> t]
MemoryOf(p)  == Memory(dir[p], table[p])
NoTables     == [d \in Tables |-> None]
NoPages      == [l \in Logical |-> None]

Store(M, p) ==
  /\ page_free' = M.free /\ page_end' = M.end /\ npages' = M.npages
  /\ dir' = [dir EXCEPT ![p] = M.dir]
  /\ table' = [table EXCEPT ![p] = M.table]

(* A failed assert; nothing after it can be observed.                      *)
Panic == panic' = TRUE /\ UNCHANGED <<allocVars, pdir, dir, table, text_end, data_end, live,
                                      current_process, active, releases>>

-----------------------------------------------------------------------------
(* start_process: the kernel's memory and a stack; paging is still off.    *)
Init ==
  \E p \in Pids :
    LET first == PAGE_START \div PAGE_SIZE
        B == [free |-> <<>>, end |-> first + 1, npages |-> 1, dir |-> NoTables, table |-> NoPages]
        M == map_new_pages(identity_map(B, 0, PAGE_START), STACK_BASE - STACK_SIZE, STACK_BASE)
    IN
    /\ page_free = M.free /\ page_end = M.end /\ npages = M.npages
    /\ pdir = [q \in Pids |-> IF q = p THEN first ELSE None]
    /\ dir = [q \in Pids |-> IF q = p THEN M.dir ELSE NoTables]
    /\ table = [q \in Pids |-> IF q = p THEN M.table ELSE NoPages]
    /\ text_end = [q \in Pids |-> TEXT_BASE]
    /\ data_end = [q \in Pids |-> DATA_BASE]
    /\ live = {p} /\ current_process = NULL /\ active = None
    /\ panic = FALSE /\ releases = 0

(* Paging with the directory of p; where the code turns paging off to work *)
(* on physical memory, it has done this again by the end of the step.      *)
enable_paging(p) == active' = pdir[p]

(* The part of context_switch that is about memory.                        *)
context_switch ==
  \E p \in live \cup {NULL} :
    /\ ~ panic
    /\ current_process' = p
    /\ IF p = NULL THEN UNCHANGED active ELSE enable_paging(p)
    /\ UNCHANGED <<allocVars, pdir, dir, table, text_end, data_end, live, panic, releases>>

Running == current_process # NULL /\ ~ panic
Release == releases < MaxReleases /\ releases' = releases + 1

(* map_and_copy asserts that its bounds are aligned and that the parent    *)
(* has a page wherever its segments say so.                                *)
copy_asserts(p) ==
  /\ Aligned(text_end[p]) /\ Aligned(data_end[p])
  /\ \A l \in Text(p) \cup Data(p) \cup Stack : lookup_page(p, l)

(* The child's pages for the segments of p. The faulty variant enters the  *)
(* parent's pages instead of copies.                                       *)
share_pages(M, p) == [M EXCEPT !.table = table[p]]
map_and_copy(M, p) ==
  map_new_pages(map_new_pages(map_new_pages(M, TEXT_BASE, text_end[p]), DATA_BASE, data_end[p]),
                STACK_BASE - STACK_SIZE, STACK_BASE)

(* fork and vfork: both copy all of the parent's memory.                   *)
syscall_fork ==
  \E child \in Pids \ live :
    LET M == Memory(NoTables, NoPages) IN
    /\ Running
    /\ IF ~ copy_asserts(current_process) THEN Panic
       ELSE /\ pdir' = [pdir EXCEPT ![child] = NextPage(M)]
            /\ Store(map_and_copy(identity_map(alloc_page(M), 0, PAGE_START), current_process), child)
            /\ text_end' = [text_end EXCEPT ![child] = text_end[current_process]]
            /\ data_end' = [data_end EXCEPT ![child] = data_end[current_process]]
            /\ live' = live \cup {child}
            /\ enable_paging(current_process)
            /\ UNCHANGED <<current_process, panic, releases>>

(* The memory of p without its text, and without its text and data. The    *)
(* first would be the faulty variant of the second.                        *)
WithoutText(p) == unmap_pages(MemoryOf(p), TEXT_BASE, text_end[p])
Cleared(p) == unmap_pages(WithoutText(p), DATA_BASE, data_end[p])

(* Where the text segment of an image of that many bytes ends: the first   *)
(* page boundary at or after its last byte.                                *)
TextEnd(size) == TEXT_BASE + ((size + PAGE_SIZE - 1) \div PAGE_SIZE) * PAGE_SIZE

(* execve of an existing file. The page tables and the stack stay.         *)
syscall_execve ==
  \E size \in Images :
    LET M == Cleared(current_process) IN
    /\ Running
    /\ IF ~ free_asserts(M) THEN Panic
       ELSE /\ Release
            /\ Store(map_new_pages(M, TEXT_BASE, TextEnd(size)), current_process)
            /\ text_end' = [text_end EXCEPT ![current_process] = TextEnd(size)]
            /\ data_end' = [data_end EXCEPT ![current_process] = DATA_BASE]
            /\ enable_paging(current_process)
            /\ UNCHANGED <<pdir, live, current_process, panic>>

(* The new end of the data segment; the faulty variant does not round.     *)
Exact(end) == end
RoundUp(end) ==
  IF Aligned(end) THEN end ELSE ((end \div PAGE_SIZE + 1) * PAGE_SIZE) % WORD

syscall_brk ==
  \E end \in BrkEnds :
    LET old == data_end[current_process]
        new == RoundUp(end)
    IN
    /\ Running /\ end > old
    /\ IF ~ Aligned(old) THEN Panic
       ELSE /\ Store(map_new_pages(MemoryOf(current_process), old, new), current_process)
            /\ data_end' = [data_end EXCEPT ![current_process] = new]
            /\ enable_paging(current_process)
            /\ UNCHANGED <<pdir, text_end, live, current_process, panic, releases>>

(* The page directory in use after a process has been killed; the faulty   *)
(* variant leaves paging on.                                               *)
StillActive(p) == active
ActiveAfter(p) == IF p = current_process THEN None ELSE pdir[current_process]

(* kill_process, from exit, kill or a page fault: the stack, the data, the *)
(* text and the tables are freed. Killing a zombie, which would free them  *)
(* a second time, is the subject of module Kernel.                         *)
kill_process ==
  \E p \in live :
    LET S == unmap_pages(MemoryOf(p), STACK_BASE - STACK_SIZE, STACK_BASE)
        M == free_page_dir(unmap_pages(unmap_pages(S, DATA_BASE, data_end[p]),
                                       TEXT_BASE, text_end[p]), pdir[p])
    IN
    /\ Running
    /\ IF ~ free_asserts(M) THEN Panic
       ELSE /\ Release
            /\ Store([M EXCEPT !.dir = NoTables, !.table = NoPages], p)
            /\ pdir' = [pdir EXCEPT ![p] = None]
            /\ live' = live \ {p}
            /\ current_process' = IF p = current_process THEN NULL ELSE current_process
            /\ active' = ActiveAfter(p)
            /\ UNCHANGED <<text_end, data_end, panic>>

Next ==
  \/ context_switch
  \/ syscall_fork
  \/ syscall_execve
  \/ syscall_brk
  \/ kill_process

Spec == Init /\ [][Next]_vars

-----------------------------------------------------------------------------
(* valid_pointer, for a pointer that p passes to a system call. The faulty *)
(* variant does not notice that start + size wraps around.                 *)
within(start, end, a, b) == start >= a /\ end <= b

valid_unless_wrapped(p, start, size) ==
  LET end == (start + size) % WORD IN
  \/ size = 0
  \/ within(start, end, STACK_BASE - STACK_SIZE, STACK_BASE)
  \/ within(start, end, DATA_BASE, data_end[p])
  \/ within(start, end, TEXT_BASE, text_end[p])

valid_pointer(p, start, size) ==
  LET end == (start + size) % WORD IN
  \/ size = 0
  \/ /\ end >= start
     /\ \/ within(start, end, STACK_BASE - STACK_SIZE, STACK_BASE)
        \/ within(start, end, DATA_BASE, data_end[p])
        \/ within(start, end, TEXT_BASE, text_end[p])

-----------------------------------------------------------------------------
(***************************************************************************)
(* Correctness.                                                            *)
(***************************************************************************)
Entries == {None} \cup (0 .. page_end - 1)

(* Every variable holds a value of its type; segments end at a page        *)
(* boundary.                                                               *)
TypeOK ==
  /\ page_free \in Seq(Nat) /\ page_end \in Nat /\ npages \in Nat
  /\ pdir \in [Pids -> Entries]
  /\ dir \in [Pids -> [Tables -> Entries]]
  /\ table \in [Pids -> [Logical -> Entries]]
  /\ \A p \in Pids : Aligned(text_end[p]) /\ Aligned(data_end[p])
  /\ live \subseteq Pids
  /\ current_process \in live \cup {NULL}
  /\ panic \in BOOLEAN

(* The uses of allocated pages: directories, tables, and pages of segments. *)
Uses ==
  {<<"dir", p, 0>> : p \in live}
    \cup {<<"table", p, d>> : p \in live, d \in Tables}
    \cup {<<"page", p, l>> : p \in live, l \in Logical \ Kernel}
PageOf(u) == CASE u[1] = "dir" -> pdir[u[2]]
               [] u[1] = "table" -> dir[u[2]][u[3]]
               [] u[1] = "page" -> table[u[2]][u[3]]
InUse == {u \in Uses : PageOf(u) # None}

(* No physical page has two uses: processes never share a page with each   *)
(* other, with the page tables or with the kernel, and none in use is on   *)
(* the free list.                                                          *)
PagesApart ==
  /\ \A u, v \in InUse : PageOf(u) = PageOf(v) => u = v
  /\ \A u \in InUse : PageOf(u) \notin ToSet(page_free) \cup Kernel
  /\ IsInjective(page_free)

(* No page is lost: each one ever taken is in use or on the free list, and *)
(* npages counts the ones in use. So memory use is bounded by what live    *)
(* processes hold, whatever came before.                                   *)
NoPageLost ==
  /\ {PageOf(u) : u \in InUse} \cup ToSet(page_free) = PAGE_START \div PAGE_SIZE .. page_end - 1
  /\ npages = Cardinality(InUse)

(* A live process has pages exactly where its segments say, and sees the   *)
(* kernel's memory at its own addresses.                                   *)
SegmentsMapped ==
  \A p \in live :
    /\ {l \in Logical : lookup_page(p, l)} = Kernel \cup Stack \cup Data(p) \cup Text(p)
    /\ \A l \in Kernel : table[p][l] = l

(* What valid_pointer accepts the kernel can access without a page fault,  *)
(* which inside a system call would halt the machine.                      *)
ValidPointersMapped ==
  \A p \in live, start \in 0 .. (WORD - 1), size \in 1 .. (WORD - 1) :
    valid_pointer(p, start, size) =>
      \A l \in (start \div PAGE_SIZE) .. ((start + size - 1) \div PAGE_SIZE) :
        l \in Logical /\ lookup_page(p, l)

(* The processor never uses the page directory of a process that is gone,  *)
(* and runs a process in that process's own memory.                        *)
ActiveDirectoryLive ==
  /\ active # None => \E p \in live : pdir[p] = active
  /\ current_process # NULL => active = pdir[current_process]

(* No assert fails.                                                        *)
NoPanic == ~ panic
-----------------------------------------------------------------------------
(***************************************************************************)
(* Why it is correct: the inductive invariant.                             *)
(***************************************************************************)
First == PAGE_START \div PAGE_SIZE   \* the first page that is handed out

(* Every use that a page can have, also by a process that has none.        *)
AllUses ==
  ({"dir"} \X Pids \X {0}) \cup ({"table"} \X Pids \X Tables)
    \cup ({"page"} \X Pids \X (Logical \ Kernel))

(* V says which page each use has. No page has two, none is on the free    *)
(* list, and uses and free list together have all pages ever handed out.   *)
Consistent(V, free, end) ==
  /\ \A u \in AllUses : V[u] # None => \A v \in AllUses : V[u] = V[v] => u = v
  /\ \A u \in AllUses : V[u] \notin ToSet(free)
  /\ IsInjective(free)
  /\ ({V[u] : u \in AllUses} \ {None}) \cup ToSet(free) = First .. (end - 1)

(* What is mapped has a page table, a live process has a directory, and a  *)
(* dead one has nothing left.                                              *)
TablesPresent ==
  \A p \in Pids : \A l \in Logical : table[p][l] # None => dir[p][l \div TABLE_SIZE] # None
DeadHaveNothing ==
  \A p \in Pids : IF p \in live THEN pdir[p] # None
                  ELSE pdir[p] = None /\ dir[p] = NoTables /\ table[p] = NoPages

(* A segment ends before the next one starts.                              *)
SegmentBounds ==
  /\ text_end \in [Pids -> TEXT_BASE .. DATA_BASE]
  /\ data_end \in [Pids -> DATA_BASE .. (DATA_BASE + DATA_MAX)]

(* The allocator's variables, the directories, tables and segments of all  *)
(* processes and the directory in use agree, between any two operations of *)
(* fork, execve, brk, kill_process and context_switch.                     *)
AddressInv ==
  /\ TypeOK /\ SegmentBounds
  /\ Consistent([u \in AllUses |-> PageOf(u)], page_free, page_end)
  /\ npages + Len(page_free) = page_end - First
  /\ SegmentsMapped /\ TablesPresent /\ DeadHaveNothing
  /\ ActiveDirectoryLive /\ NoPanic

=============================================================================
