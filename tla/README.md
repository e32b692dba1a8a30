# A verification of the RhythmOS kernel

RhythmOS is a small teaching kernel for the i386: preemptive processes, Unix
process calls, pipes, message passing, a RAM-disk file system and a buddy
allocator, with a shell on top. This directory holds TLA+ modules that model
the kernel and the programs it is used with, TLC configurations that check them on small instances,
and TLAPS proofs for instances of every size.

## 1. Inventory

All of the kernel runs on one processor. It is entered through interrupt gates
(`interrupts.c:85-88`, type `0x8E`/`0xEE`), which clear the interrupt flag, and
it never sets the flag again: **a handler runs to its end**. Concurrency is the
interleaving of processes in user mode with the timer, keyboard and fault
interrupts; atomicity problems arise *between* handlers, where a blocked system
call is suspended and later repeated from the start.

| Component | State | Operations | Hard behaviour | Correct when |
|---|---|---|---|---|
| Process table, scheduler (`process.c`, `kernel.h`) | `processes[]`, intrusive doubly linked `ready` and `suspended` lists, `current_process` | `get_free_pid`, `suspend_process`, `resume_process`, `context_switch`, `list_add`, `list_remove` | list macros rely on pointers reset elsewhere; `context_switch` repeats a blocked call, which may switch again | lists hold exactly the live processes; only live, ready ones run; every ready one eventually does |
| Lifecycle (`process.c`, `unixproc.c`) | `exists`, `exited`, `parent_pid`, `waiting_on`, exit status | `start_process`, `fork`, `vfork`, `waitpid`, `exit`, `kill`, `kill_process`, `execve`, `brk` | a process dies while it waits, is waited for, or is registered somewhere; slots (pids) are reused | a parent is woken exactly when its child dies; nobody refers to a dead or reused slot |
| System call dispatch (`syscall.c`) | `in_syscall`, `last_errno` | `syscall` and one handler per call | `-ESUSPEND`, calls repeated on resumption, `current_process` changing under the dispatcher | a call returns once or blocks; only blocking calls are repeated |
| Pipes (`pipe.c`) | `pipe_buffer`: `reading`, `writing`, `len`, `readpid` | `pipe`, read, write, destroy of either end | one registered reader; wakeups by write, key press, close or death of the last writer | no reader sleeps through data or end of file; buffers are freed exactly once |
| File descriptors (`filedesc.c`, `fscalls.c`) | `filedesc[]`, `refcount`, `pos`, `entryno` | `close`, `dup2`, `open`, `read`, `getdent`, sharing by `fork`, release by `kill_process` | counts must survive every order of these; positions are shared | count = number of descriptors; sharers get each byte once |
| Messages (`syscall.c`, tested by `mptest.c`) | `mailbox`, `mailbox_size`, `receive_blocked` | `send`, `receive` | limit of 8, blocking receive, array shifted in place, storage freed at death | a bounded FIFO per process; no message wakes nobody or the wrong process |
| Interrupts, input (`interrupts.c`, `main.c`, `keyboard.c`) | `timer_ticks`, `input_pipe`, `kbd_status` | `timer_handler`, `keyboard_handler`, `convert`, `interrupt_handler` | arrive between any two user steps, in the idle loop too; a key is several interrupts | as above; no modifier sticks |
| Screen (`main.c`) | video memory, `xpos`, `ypos` | `write_to_screen`, `scroll` | wrap, tab, backspace and scroll in one character | shows the last rows written |
| File system (`filesystem.c`, `fscalls.c`) | the image, `cwd` of each process | `stat`, `open`, `chdir`, `getcwd`, `getdent`, path lookup | paths are edited as text in a buffer of `PATH_MAX` | a path leads where walking the tree leads; a working directory exists |
| Image builder (`fstool.c`) | the growing image, the stack of directories | `-build` | locations are filled in after the recursion | the image holds what the host has |
| Shell (`dsh.c`, `sh.c`) | `input`, `pos`, `linestart` | the main loop, `process_line`, `parse_command` | lines spread over reads, fixed buffer | every line is processed once, whole, in order |
| C library (`libc.c`) | none | `memmove`, `strncmp`, `snprintf`, `atoi`, ... | truncation, padding, overlap | used by the components above |
| Buddy allocator (`buddy.c`) | block table, free lists | `buddy_init`, `buddy_alloc`, `buddy_free` and the `malloc`/`kmalloc` wrappers | splitting and merging over long histories, sizes at powers of two | memory handed out is disjoint and large enough, nothing is lost, freed blocks merge |
| Pages and address spaces (`page.c`, `unixproc.c`, `syscall.c`) | page free list, page directories and tables, segment bounds, the directory in use | `alloc_page`, `free_page`, `map_page`, `unmap_and_free_page`, `free_page_dir`; `fork`, `execve`, `brk`, `kill_process`, `valid_pointer` | pages of dead processes are reused for any purpose; bounds and tables must agree after every history | no page has two uses, none is lost, accepted pointers are mapped |
| Boot and assembly, utilities | | | see section 6 | |

The components meet in three places. *Calls*: a handler of one component calls
another's function in the same atomic step (`kill_process` closes handles, which
wakes readers, which moves list elements). *Shared tables*: `processes[]` is
indexed by pids that other structures remember (`readpid`, `parent_pid`,
`waiting_on`, a `send` or `kill` argument). *Repetition*: `context_switch` calls
`syscall` for a process that was suspended inside one.

The hazards that follow from this are listed in `PROJECT.json`, each at its
line.

## 2. Modules

| Module | Models |
|---|---|
| `KernelState` | the data structures of `kernel.h`, control state, type invariant |
| `Scheduler` | list macros, `suspend_process`, `resume_process`, `context_switch` |
| `FileDesc` | `filedesc.c` and `pipe.c`, the calls `read`, `write`, `close`, `dup2`, `pipe` |
| `Process` | `fork`, `vfork`, `waitpid`, `exit`, `kill`, `kill_process`, `send`, `receive` |
| `Kernel` | boot state, dispatcher, interrupts, specification, properties, fairness |
| `Lifecycle` | abstract specification: what the process table promises programs |
| `MCKernel` | instances of `Kernel` for TLC |
| `KernelSafety`, `KernelCorrectness` | proofs about `Kernel`, the second on top of the first |
| `Buddy`, `MCBuddy` | the buddy allocator and its instance |
| `BuddySafety` | proofs about `Buddy` |
| `AddressSpace`, `MCAddressSpace` | `page.c` and the memory side of `start_process`, `fork`, `vfork`, `execve`, `brk`, `kill_process` and `valid_pointer`, and its instance |
| `AddressSafety` | proofs about `AddressSpace` |
| `ListFacts` | lemmas about lists that hold each element once, and the least-number principle |
| `Libc` | `memmove`, `strncmp`, `vsnprintf` and `atoi` as functions of sequences |
| `Messages`, `Fifo` | `send` and `receive` with their data, on top of one-step `fork`, `kill`, `waitpid`; the abstract channels they implement |
| `MpTest`, `MCMessages` | the eight tests of `mptest.c`, one action per step of a program, and their instance |
| `MessageSafety` | proofs about `MpTest`: mailboxes are FIFO channels, no test fails, the ring has one token |
| `FileSystem` | the image, `get_directory_entry`, `relative_to_absolute` |
| `FsTool` | `fstool -build` and `-dump` |
| `Files`, `MCFiles` | the calls of `fscalls.c` and what `fork`, `vfork`, `exit` and `execve` have to do with files; an instance |
| `FilesSafety` | proofs about `FsTool` and `Files` |
| `Ascii` | the characters that keyboard, shell and screen treat specially |
| `Keyboard` | a user's keys, scan codes, `convert` |
| `Screen` | `write_to_screen`, `scroll` |
| `Shell` | the main loop of `dsh.c`, with the bytes of its pipe |
| `Terminal`, `MCTerminal` | keyboard, pipe, shell and screen composed; an instance |
| `TerminalSafety` | proofs about `Terminal`: screen, keyboard and buffers |

`KernelState`, `Scheduler`, `FileDesc`, `Process` and `Kernel` extend each other
in this order and form one specification; `Kernel` instantiates `Lifecycle`
under a refinement mapping. `Buddy` stands alone: the rest of the kernel uses it
through `kmalloc`, which never returns a failure (it stops the machine).
`AddressSpace` stands alone too: it takes from `Kernel` only that a live process,
or none, is chosen to run, which `OnlyLiveProcessesRun` proves there (for the
programs of section 5), and that
`kill_process` is called for processes that have not died.

`Libc` serves three specifications: `Messages` and `MpTest`; `FileSystem`,
`FsTool` and `Files`, in which the image is first built and then used; and
`Screen`, `Shell`, `Keyboard` and `Terminal`. Each takes from `Kernel` what is
shown there and leaves the rest of it out. `Messages` lets any ready process run
next, which includes every order the scheduler chooses. `Files` makes each call
one step (none of them blocks). In `Terminal` a read waits until there are bytes,
and the shell and the interrupts interleave at the shell's system calls.

### State and control

Variables carry the names of the C fields; a flag that is 0 or 1 per process
(`exists`, `exited`, `ready`, `receive_blocked`) is the set of processes where
it is 1. The lists are kept pointer by pointer in one record `lists` (`first`,
`last`, `next`, `prev`), because the macros leave some pointers alone and
whether that is harmless is a question the proofs answer. `filehandle` objects
are named by what they are (a reader or writer of a pipe, one of the two
screens): every pipe has one reading and at most one writing handle.

`kpc` is where the kernel's only thread of control is. `"user"`: in a process or
the idle loop, anything may happen next. `"switch"`: a handler is about to call
`context_switch`. `"restart"`: `context_switch` is about to repeat the call of
the process it chose; this is the C recursion `context_switch` → `syscall` →
`context_switch` unrolled. `"close"` and `"reap"`: inside `kill_process`, before
a descriptor and after the last one. `"panic"` and `"halt"`: a failed assert
(an endless loop with interrupts off), `halt`, or a fatal exception. Steps with
another value than `"user"` are forced, so splitting a handler adds no
interleaving. It only keeps each step readable.

Asserts are modelled as such: the operators named `..._asserts` collect the
conditions on an action's path, and if one fails the action is `Panic`. Freed
memory is tracked where control reaches it: the mailbox's storage has the states
`null`, `live` and `freed`, and `heap_fault` records a use or second release of
freed memory, or a second release of a process's page tables.

In `AddressSpace` pages are numbers and addresses are bytes of a machine word of
`WORD` values. The functions of `page.c` are operators on a record of the
allocator's variables and one process's tables; an action applies them in the
order of the code, so that the free list has the order the code gives it. A loop
is `For`, a function of the loop variable, applied to one of four operators that
are one iteration each. `dir`
and `table` are kept apart although the code stores both in pages: a table entry
means something only while its table exists, and `NoPages` and `NoTables` stand
for the zeroed page that `alloc_page` returns. Paging is off between the two ends
of an operation only; `active` is what it leaves behind.

In `MpTest` a label is the system call that a program makes next, and `local` its
variables; the label `failed` is a `try` that exits or an assert that does not
hold. In `FsTool` the recursion of `process_dir` is a stack of frames. In `Files`
an image's locations count cells (a header, an entry, a byte) instead of bytes;
paths are sequences of characters because `PATH_MAX` cuts them anywhere. A child
of `vfork` starts with an empty working directory (the copying is commented out,
`unixproc.c:266`); `relative_to_absolute` then looks at the byte before its
buffer, which is either a slash or not (`SlashBefore`).

Some variables are not in the code and only observe: `got` (what was read through
a handle), `ran` (the lines the shell processed), `typed`, `held`, `lost`,
`capitals` and `wire` (a user at a keyboard), `paper` (all rows ever written).
No guard of the program's actions reads them, except that an interrupt takes its
byte from `wire`. What a user means by a key depends on the shift keys that are
down (`held`), not on the driver's flag.

### What is abstracted

* In `Kernel`: memory contents, registers, exit and errno values, the working
  directory, the screen and page directories. There `map_and_copy` and the page
  loops of `kill_process` are atomic and change nothing else. `AddressSpace`
  leaves out permissions and the arguments of `execve`.
* Pipe contents and messages in `Kernel`: only their number. Blocking, waking and
  end of file depend on nothing else. `Messages` and `Shell` have the contents.
* The keyboard's tables are cut to keys of each kind: a letter, a key that only
  the shifted tables have, newline, backspace, tab, blank and Delete, the lock
  and the modifier keys. `0xE0` is kept as an interrupt of its own. The shift codes
  that a keyboard may send by itself around extended keys (`E0 2A`, `E0 AA`) are left
  out; the driver would take them for presses and releases of the left shift key.
* What the shell and programs print is a character and a newline; a program that
  the shell runs does not read the keyboard. So the shell's `read` neither fails nor
  ends, and leaving the loop for that reason (`dsh.c:253`, `dsh.c:291-292`) is not
  modelled: the kernel is the writer of standard input and never closes it.
* `valid_pointer`: a call with a bad buffer, or a message that is too long, is
  refused before anything changes (`InvalidArgument`). `geterrno` and unknown
  calls change nothing and behave like `getpid`.
* In `context_switch` the test `!current_process->ready` reads address 0 plus an
  offset when there is no current process. Address 0 is mapped for the kernel;
  whatever is read, `current_process` is NULL afterwards, so this is not a step
  of its own.
* `kmalloc` always succeeds. Running out of kernel memory stops the machine, and
  `MaxLen` and `Pipes` keep the instances below that point.

## 3. Runs

Programs are arbitrary: in every user step the current process may make any call
of the run's set `Calls`. `KillScope` and `SendScope` say in which condition
(`ready`, blocked in `read`, `waitpid` or `receive`, or `zombie`) a process may
be when another kills it or sends to it. They restrict programs, never the
kernel. The passing runs leave out the cases that the violation runs show to
break the kernel.

| Run | Instance | Shows |
|---|---|---|
| `pipes` | 2 processes, 3 descriptors, 2 pipes + stdin, 1 byte per pipe; about 2.3 million states | `NoPanic`, `RefcountsExact`, `NoLostWakeup`, `NoStaleWaiter`, `SchedulerInv`, `TypeOK` |
| `life` | 3 processes, mailbox of 1; 550 thousand states | `ListsExact`, `NoPanic`, `NoHeapFault`, `NoLostWakeup`, `NoStaleWaiter`, `KernelInv`, `RunsLiveProcess`, `ParentAlive`, refinement of `Lifecycle` |
| `live` | 2 processes, all three kinds of blocking call | `BlockedCallsReturn` |
| `memory` | 2 processes, 12 logical pages of 2 bytes, 2 entries in a page table; 162 thousand states | `PagesApart`, `NoPageLost`, `SegmentsMapped`, `ValidPointersMapped`, `ActiveDirectoryLive`, `NoPanic`, `AddressInv` |
| `buddy` | 8 granules of 4 bytes, sizes 0 and on both sides of each power of two | `HeldApart`, `BlocksTile`, `FullyMerged`, `NoPanic`, `BuddyInv` |
| `files` | 2 processes, 2 descriptors, 2 handles, a host tree of 7 names, `PATH_MAX` = 9; 131 thousand states | `ImageFaithful`, `PathsResolve`, `CwdIsDirectory`, `ReadsInOrder` |
| `messages` | 4 processes, mailbox of 3, two tests in any order; 69 thousand states | `TestsPass`, `EverySlaveAnswers`, `OneToken`, `MailboxIsFifo` (refinement of `Fifo`), `TestsFinish` |
| `terminal` | screen of 4 by 2, `BUFSIZE` = 2, 4 characters and 2 presses of modifiers; 4.9 million states | `LinesIntact`, `NoStuckMeta`, `ScreenShowsEnd` |

Why these bounds are enough to be interesting. In `pipes`, descriptors 1 and 2
can be closed and reused for a pipe's two ends, so handles are shared, duplicated
onto open descriptors, and inherited; a second pipe lets a buffer be freed while
another is in use; one byte is enough for both empty and non-empty, and a read
may ask for more than there is. Pipes are interchangeable, hence the symmetry
set. In `life`, three processes give grandparents, parents waiting for one child
while the other dies, pid reuse and the middle element of a list. In `buddy`
every block size from the smallest to the whole area occurs, and every pattern
of eight granules. In `memory` text, data and stack lie in different page tables,
the images are a part of a page and two whole pages, `brk` asks for an aligned
and an unaligned end, and `valid_pointer` is tried with every pointer and size.
The order of the free list tells states apart, so their number grows with every
release; `MaxReleases = 2` allows a page to be released by one process, reused by
another for another purpose, and released again. The constants obey
`SpaceAssumption`: images fit below the data segment and programs ask for at most
`PROCESS_DATA_MAX` bytes of data. The kernel checks neither (the constant is
defined in `constants.h:32` and not used), so nothing is claimed of programs that
ask for more.

In `files` the host's directories are listed in every order. One name begins
another, a directory and a special file must be left out, and the path of the
deepest directory has `PATH_MAX` - 1 characters, so that a name after it is cut
off completely and one after its parent is not. Two processes share handles
through `dup2`, `fork` and `vfork`; a read asks for two of three bytes, so that
the second is short. `PathsResolve` tries every path from every working directory
that is reached. It leaves out paths that do not fit, and `..` in a relative path
of a `vfork` child that has not changed directory: there the text has no slash to
go back to. `CwdIsDirectory` holds for them all, because `chdir` looks up the text
as it was cut before it stores it. The mode that `stat` gives for the root is
whatever `fstool` had on its stack, and its size is 0: both are written to the
image before they are set.

In `messages` pids have one and two digits, so that the texts of the broadcast
test have different lengths. There are as many slaves as messages fit a mailbox
(the code has 6 and 8), so it gets full; the ring's token goes round twice. Two
rounds let a test meet what an earlier one left in mailboxes and reused slots. Four
slots are just enough for the main process and the children of the largest test, so
one that is not released makes the next `fork` fail, and `try` exits (`failed`).
`MAX_SENDS` stands for the 10000 sends after which `test_nb_multiple_messages` gives
up; it is above the size of a mailbox, as in the code.

In `terminal` a line of one character fits, one of two fills the buffer, and
longer ones do not fit; the pipe grows from 2 to 4 bytes while it is read. Left
and right shift, caps lock, an extended control key and alt are pressed, repeated
and released around the characters; rows wrap and scroll. The user may stop
typing, so a state without successor is no error.

Two things that the code does are outside what `terminal` claims. They disagree
with comments of the source, and the properties are stated so that they neither
hide nor depend on them:

* *A backspace at the left edge.* The comment in `write_to_screen` says that a
  backspace moves the cursor back "untill the cursor is against the edge"
  (`main.c:71-72`). With `xpos` 0 the condition of that branch fails (`main.c:70`),
  and the character 0x08 is drawn like any other and the cursor moves on
  (`main.c:77-80`). The typewriter does neither. Its paper ends there (`NoPaper`),
  and from then on `ScreenShowsEnd` only says that the cursor stays inside video
  memory. The run reaches this case.
* *One of two shift keys comes up.* `KBD_META_SHIFT` is commented "Shift is pressed"
  (`keyboard.h:33`), but the release of either shift key clears it (`keyboard.c:155`),
  also when the other is still down; the same goes for the two control and the two
  alt keys. `lost` has the flags of which that is so. `NoStuckMeta` says that the
  flags are exactly those of the keys held, apart from `lost`, and `TypeScope` lets
  the user type only characters that do not depend on shift until a shift key goes
  down or repeats.

Four runs end in a violation. Each contradicts a sentence or an assert of the
source; the quotations are under `findings` in `PROJECT.json`.

| Run | What happens |
|---|---|
| `kill_reader` | a process is killed while blocked in a read; its pid stays in `readpid`; the next key press calls `resume_process` on a free or reused slot and an assert fails |
| `orphan` | a parent dies before it waits for an exited child; the child's slot is lost |
| `starve` | with four processes, three that keep waking each other keep a ready one from the processor for ever, because `list_add` adds at the front |
| `long_line` | the shell drops the part of a long line that filled its buffer and runs the rest of it as a command |

Two more cases are kept out of the runs by `KillScope` and `SendScope`, and no
property covers them. A zombie
still `exists`, so `kill` accepts it (`syscall.c:229`): its handles are closed and
its memory is freed a second time. `receive_blocked` outlives a process
(`syscall.c:287`): a message to one that was killed while blocked puts the dead
process on the ready list. A third one is in the runs and harmless to their
properties: a woken reader can find its pipe empty again, because another process
that shares the handle ran first, although the comment on `pipe_reader_read` says
that it cannot (`pipe.c:220`). It then blocks again or gets `EBADF`.

`mforsize` rounds an exact power of two up to the next one, although the comment
on `buddy_alloc` speaks of "the nearest power of two": a block is up to twice as
large as needed. Nothing depends on it; `Buddy` models the code.

## 4. Fairness

`FairSpec` adds to `Spec`:

* weak fairness of the kernel's own steps (`SwitchAway`, `RestartCall`,
  `KillClose`, `KillReap`): code that runs with interrupts off goes on;
* strong fairness of `timer_handler`: the timer fires 50 times a second and the
  interrupt controller holds a request that arrives while interrupts are off,
  so if the processor is in user mode again and again, the interrupt is taken
  sooner or later. It does not help that system calls are short: weak fairness
  would allow a program that is always inside one when the timer fires.

In `messages`, `FairSpec` is weak fairness of `Next`: as long as somebody is
ready, somebody runs, because the scheduler is idle only with an empty ready list
and no program of `mptest.c` computes for ever between two calls. It says nothing
about who runs. `TestsFinish` therefore does not rest on the scheduler being fair,
which `starve` shows it is not. It holds of the six tests that do not wait for
keys; the child of the first test polls for ever while nobody types.

Nothing is assumed of programs or of the keyboard. A machine that has halted
satisfies the liveness properties only if nothing was pending; `halt`, faults
and asserts are therefore absent from the liveness runs. `live` has two processes;
with four, `starve` shows that a ready process need not run, so
`BlockedCallsReturn` is not claimed for every number of processes.

## 5. Proofs

All theorems hold for every value of the constants that satisfies the named
assumptions; the runs of section 3 are instances of them.

### The kernel

| Module | Theorem | States |
|---|---|---|
| `KernelSafety` | `TypeCorrect`, `SchedulerCorrect`, `ListsStayExact`, `OnlyLiveProcessesRun`, `ParentsStayAlive` | `[]TypeOK`, `[]SchedulerInv`, `[]ListsExact`, `[]RunsLiveProcess`, `[]ParentAlive` |
| `KernelCorrectness` | `RefcountsCorrect`, `NoUseAfterFree` | `[]RefcountsExact`, `[]NoHeapFault` |
| `KernelCorrectness` | `KernelCorrect`, `WakeupsAreNotLost`, `WakeupsDoNotGoAstray`, `AssertsHold` | `[]KernelInv`, `[]NoLostWakeup`, `[]NoStaleWaiter`, `[]NoPanic` |
| `KernelCorrectness` | `LifecycleImplemented` | `Spec => ImplementsLifecycle` |

The assumptions on constants are `KernelAssumption` and `ScopeAssumption`: at
least one slot, three descriptors, a mailbox that holds a message, and calls that
are well-formed. `TypeCorrect` assumes nothing of programs. The other theorems
assume `DisciplinedPrograms`: programs do not kill a process blocked in a read or
a zombie, and do not send to a zombie. `kill_reader` shows that the first part is
needed; section 3 describes why the other two are.

`TypeOK` is not inductive by itself; `TypeInv` adds that somebody is being killed
inside `kill_process`, that its loop index is a descriptor, and that there is a
process when a call is repeated. The rest is one circle of dependencies:
`RunsLiveProcess` depends on the lists (`context_switch` follows `next`), the
lists depend on `resume_process` only being called for suspended processes, that
depends on who is registered to be woken, which changes when a handle's count
reaches zero. `KernelInv` closes the circle. Its parts, and the order in which the
modules build it up:

* `SchedulerInv` (`KernelSafety`). `ListsInv`: seen from each element, the two
  lists are linked correctly, a process on neither has NULL pointers (which makes
  `list_add` right although it does not reset them), and following `next` leaves
  every set of processes (`NoCircle`). The last is needed because a circle beside
  the list would be linked correctly everywhere, and no walk from `first` would
  find it. With it the walk of `ListsExact` ends (longer than there are processes,
  it would come to one twice, and what lies between is a circle) and misses
  nobody (from one that it misses, `next` leads to `last`, which the walk meets).
  That the walk, a recursive function, is what its definition says comes from the
  least-number principle, since a least length without a walk extends the walk one
  shorter. `WaitersInv`: a
  registered reader or receiver is live, suspended and in the matching call, and
  registered with one pipe only. `CallsInv`: a live process that is in a call is
  in one that blocks; `VictimInv`: `kill_process` runs for a process that has not
  died yet; `ParentsInv`: parents are alive and nobody is its own. The list lemmas
  (`RemoveOwn`, `AddOther`, ...) say what each macro does to its own list, to the
  other, and to processes on neither.
* `RefcountsExact` and `ResourcesInv` (`KernelCorrectness`). The references to a
  handle are a finite set, and each action adds pairs to it, takes one away, or
  moves a row of the descriptor table; the lemmas on `References` say what this
  does to its cardinality. `fork` adds as many as its parent has descriptors for
  the handle, which is why `FdCount` has to count them. `ResourcesInv` adds that
  the loop of `kill_process` has seen every descriptor before it goes on, that
  nobody holds the keyboard's end of standard input, and that a mailbox is not
  freed before its owner dies.
* `NoLostWakeup`, `NoStaleWaiter`, `ResumedInv` and `NoPanic` (`KernelCorrectness`).
  With exact counts, a writer that is open has a holder and a pipe whose last
  writer is closed wakes its reader; with `ResumedInv`, a process that was resumed
  inside `waitpid` waits for nobody any more, so that a second death does not
  resume it twice. No part of `KernelInv` that mentions waiting is inductive
  without the others.

`LifecycleImplemented` then shows the refinement. The initial states map to
initial states, and there is one lemma for each thing an action can do to a
process: `fork` is a `Create`, suspension a `Block`, `resume_process` a `Wake`
(also from a close, a key or a message), the last step of `kill_process` a `Die`
with the waking of the parent included, a `waitpid` that finds its child dead a
`Reap`; everything else is a stutter.

### Message passing

`MessageSafety` proves three theorems about the specification of `MpTest`.

**`MailboxesAreFifo`**: `Spec => MailboxIsFifo`, with any set of pids and any
mailbox size (`MessagesAssumption`: a limit of at least one message, room for it, a
range of pids that is not empty). The invariant is `MailboxesInv`: a mailbox has
`MAILBOX_ALLOC` cells from its first message on and none before, and never counts
more. Three lemmas about the queue that a mailbox represents say that `Delivered`
appends to it, that `Shifted` removes its head, and that other mailboxes keep
theirs; each step of a program is then a put, a get, the beginning or end of a process
or a stutter of `Fifo`, whose `live` is `exists`: a message is put by a process that
exists, under its own name, and only a process that did not exist begins, with an
empty channel. What a program does with a message never matters to this
proof.

**`TestsNeverFail`** (`[]TestsPass`) and **`TokenIsUnique`** (`[]OneToken`), for any
numbers of slaves, pings, ring processes, passes, keys and test rounds. To
`MessagesAssumption` they add `MpTestAssumption`: the answers of all slaves fit into
a mailbox and so do two messages, an `int` fits into a message, the pid 99 that
`test_error_handling` takes for unused is not the first process's, a mailbox holds
fewer than `MAX_SENDS` messages, and **the process table has a slot for the main
process and for each child of any one test**. Without the last, `fork` fails
(`ForkFails`, the `EAGAIN` of `unixproc.c:80-82`) and `try` exits.

The tests check what they receive, so whether one fails depends on every message
that anybody still has in a mailbox and on where each program is. `TestsInv`
says this stage by stage: `Phases` is a disjunction with one disjunct for each stage
of a test (alone between tests, each of the two-process tests, the broadcast while
slaves are made and while they answer, the ring while it is forked, while it is told
its neighbours, while the token runs and while it is taken down). Each disjunct
names the processes there are and, as far as somebody's next step depends on it, the
place of each, its locals, and what its mailbox holds. Two show what the difficulty is:

* In the broadcast, the answers that main has heard and those in its mailbox are at
  most as many as there are slaves at `exit`, because the answer is a slave's last
  call. So no answer finds the mailbox full, and when main has heard `NSLAVES`, all
  slaves are at `exit` and it may wait for them.
* In the ring, the pid of a neighbour is ahead of everything else in each mailbox,
  so no process takes the token for its neighbour, even one that the token reaches
  before it has run at all. `RingInv` then says that exactly one process has it, in its
  mailbox or in hand, and each step passes that on.

For each stage there is one lemma for each action of a program, which shows that it
leads to a state of the same stage or of the next; the actions of other stages are
excluded by the places. `NobodyFailed` and `TokenCount` read the two properties off.
No test looks at a text it receives, so nothing about `vsnprintf` is needed. That no
`fork` fails is a count: each stage names its processes, main and at most as many
children as have been forked, so there is a free slot (`SlotFree`, `AloneSlots`).
That every test releases its children's slots before the next begins is part of the
stage `alone between tests`.

### The terminal

`TerminalSafety`, for every size of screen and buffer, all tab stops and all sets of
keys (`ScreenAssumption`, `ShellAssumption`, `KeyboardAssumption`; the last says only
that character keys are keys of the character tables, and that meta keys are make
codes, below 0x80, that those tables do not have):

* **`ScreenCorrect`** (`[]ScreenShowsEnd`). `ShowsEnd` relates the record of video
  memory and cursor inside `write_to_screen` to the typewriter's paper, and one
  character keeps it (`Shown` against `Typewritten`, a lemma for each kind of
  character and one for `scroll`). The two loops are recursive functions; that they
  exist and that each iteration keeps the relation is shown through the least
  iteration where it fails, with the least-number principle of `ListFacts`. `Agree`
  is the relation with the paper possibly gone; that the cursor stays inside
  (`ShownInside`) does not depend on the paper.
* **`MetaNeverStuck`** (`[]NoStuckMeta`). A flag may be set with no key down while
  the release is on its way, so `KeyInv` says: a flag that is set belongs to a key
  that is held, or only releases are on the wire and the last is its own; and every
  make code on the wire is of a key that is held or has no flag. This gives the part
  about the reboot. That the flags are exactly those of the keys held, apart from
  `lost`, is `FlagsRight`, which `LinesInv` (below) has of the flags after the bytes on
  the wire.
* **`LinesStayIntact`** (`[]LinesIntact`). `ShellInv` has the bounds of `pos`,
  `linestart` and `end` at each place of the loop: a read begins in the lower half
  of `input` because the last branch of the loop resets `pos` when a line is too
  long. `LinesInv` follows the bytes from the keys to the lines. What was typed is,
  in this order, what the shell is done with, the bytes of `input` from `linestart`
  on, the bytes in the pipe, and at most one character that is still on the wire
  (`Streams`). That character arrives as it was meant because it is in `TypeScope` and
  the flags are right
  for it, or will be when the meta code before it has been handled (`WireBrings`,
  `FlagsRight`). `RanIs` says which lines the shell has run: there is a newline
  among what it is done with for each of them, and each line is what lies between
  its newline and the one before, or only the end of that when it has `BUFSIZE`
  bytes or more.

### The file system

`FilesSafety` proves **`AlwaysInADirectory`** (`[]CwdIsDirectory`),
**`ImagesAreFaithful`** (`[]ImageFaithful`) and **`HandlesReadInOrder`**
(`[]ReadsInOrder`) for every host tree, every order of listing, every `PATH_MAX` and
all calls. `HostAssumption` says that the host has finitely many files, that a file
has the size of its bytes, that a path's parent is a directory and that a name is
not empty and has no slash; `FilesAssumption`, that paths are sequences and counts
are numbers.

`CwdIsDirectory` depends on the image not changing under a process, and on the root:
a process starts in `/`, and a child of `vfork` in the empty path, before anything
has been looked up. `BuildInv` therefore describes the image during the build
(`ImageOk`: it begins with the root's entry, a directory; `FramesOk`: what each
activation of `process_dir` writes back lies behind it), so that no write of `FillIn`
reaches the root. `FilesInv` adds that before the image is complete
only the first process exists, in the root. `chdir` stores the path that it has
looked up, cut or not, so nothing about what the cut does is needed.

`ImageFaithful` needs the whole image and the search in it, and `ReadsInOrder` the
reference counts too. `ReadsInv` adds these to `FilesInv`:

* `LaidOut`. There is a set of places, pairs of a host directory and a location, in
  which the root is and at each of which the image has a header and an entry for
  every listed name (`NamesAt`). An entry's location is right (`Right`: the bytes of
  its file are there, or it is a place further behind) when no activation of `process_dir` is at
  work on its directory, and in an activation's own list from the moment it has
  passed it (`Active`). Appending keeps all of this (`Extended`), and `FillIn`
  overwrites entries by entries of the same names (`LayoutFilled`); no two host
  directories have the same place, so it disturbs no other. A finished image has a
  place for everything, and no header that is not at a place (`Tree`).
* `EntryLeads`: in a `Tree`, whatever path `get_directory_entry` finds an entry for,
  the entry is that of the host's file with these names. The walk is a recursive
  function; that one exists, and what is true of each of its steps, is shown with a
  least step that fails. So is that paths and their names stay sequences under
  `relative_to_absolute`, whatever is cut (`AbsoluteIsText`).
* `NamePrinted`: `getdent` passes a name to `snprintf` as the format
  (`fscalls.c:143`), and what is printed is the name only if it has no `%` and fits.
  `NamesAssumption` says so of the host's names, and is needed.
* `HandlesOk`: a handle's reference count is the number of descriptors, of all
  processes, that refer to it (`Count`), and what has been read through a handle in
  use is the beginning of what there is to read, up to its position. `RecountKeeps`
  covers `close`, `dup2`, `fork`, `vfork` and `exit`: a handle that has a reference
  afterwards had one before, so no handle is reused while it is referred to.
* processes that do not exist have no descriptors, so that `fork` drops none when it
  fills a slot.

From a `Tree` follow the two halves of `ImageFaithful`. `DumpLists`: the recursion of
`dump_dir` has a solution, which gives each header the lines of what the host has
below that directory (`LinesOfEntries`), and no other, because every directory lies
behind the one that it is in, so the last header with other lines would have entries
whose lines are right. `HostFileFound`: the path of a host file has its names as
components (`ComponentsOfPath`, which follows the slashes from the last to the
first), `lookup` finds each of them, and no name but the last is that of a file.

### The buddy allocator

`BuddySafety` proves **`BuddyCorrect`** (`[]BuddyInv`) and from it
**`HeldStaysApart`** (`[]HeldApart`), **`NoMemoryLost`** (`[]BlocksTile`),
**`BuddiesMerge`** (`[]FullyMerged`), **`BuddyAssertsHold`** (`[]NoPanic` where
exhaustion returns NULL) and **`OnlyExhaustionPanics`**: in the kernel too, the
only assert that can fail is the one in `kmalloc`, between calls and with no block
large enough. `BuddyAssumption` bounds the area and the requests by the width of a
machine word. `PowersAssumption` states the law of powers for exponents up to 30;
the provers know nothing of exponents that are not numbers, and TLC evaluates the
assumption completely.

The argument. `HeldApart` and `BlocksTile` speak about pairs of blocks, and
splitting or merging changes two entries of the table at once. `BuddyInv` has:

* `Layout`: blocks start at multiples of their size, the next begins where one
  ends or later, and all together cover the area. From `b % 2^k = 0` follows where
  the buddy is and that its buddy is `b` again, and that a buddy of the same size
  is the neighbour; so a split or a merge is a change inside one interval.
* `Usage` and `Lists`: what is held is in use in a block that is larger, and each
  list holds the unused blocks of its size once. The block that `buddy_free` is
  merging is the exception.
* `Locals`: the sizes in a split or merge in progress. They give the asserts.
* `Pairs`: the only unused buddies of equal size are those that the loop in
  progress is about to use: the halves that `buddy_alloc` has just made, or the
  block that `buddy_free` is about to merge. `FullyMerged` is what is left of it
  between calls. When nothing is held, the least block must be the whole area:
  a smaller one would have a buddy that is covered by blocks of its own size or by
  smaller ones. The step that takes a least size rests on the library's theorem on
  well-founded relations, applied to sets (`LeastNat`); no induction over an
  operator is needed.

### Address spaces

`AddressSafety` proves **`AddressCorrect`** (`[]AddressInv`) and from it
**`PagesStayApart`** (`[]PagesApart`), **`NoPageIsLost`** (`[]NoPageLost`),
**`SegmentsAreMapped`** (`[]SegmentsMapped`), **`AcceptedPointersMapped`**
(`[]ValidPointersMapped`), **`DirectoryInUseIsLive`** (`[]ActiveDirectoryLive`) and
**`AddressAssertsHold`** (`[]NoPanic`), for every page size, word size, table size,
layout and number of processes that satisfy `SpaceAssumption`.

The argument:

* A page has a *use*: a directory, a table, or a logical page outside the kernel's
  memory. `Consistent` says of a function from uses to pages that no page has two,
  that none is on the free list, and that the two together have exactly the pages
  ever handed out. Nothing in it is about processes that live or die, which is why
  it survives the middle of an operation: giving a page to a use that has none
  (`UseGiven`) and ending a use (`UseEnded`) are all that `alloc_page` and
  `free_page` ever do to it.
* `Sound(p, pd, M)` is the same with one process's tables in the record M, where an
  operation works; `Present` adds that what is mapped has a table. One iteration of
  each loop keeps both (`NewPage`, `IdentityPage`, `UnmapPage`), and so do the
  loops (`NewPages`, `IdentityPages`, `UnmapPages`, `FreedTables`), which also say
  what is mapped when they end. The loops are recursive functions. That there is
  such a function, and that each iteration keeps what the last one had, is shown
  through the least number where it fails (`LoopExists`, `Induct`).
* The count. `npages` is the number of pages handed out less those on the free list
  by arithmetic; `UsesCounted` finds a bijection between what that leaves and the
  uses, so it is never negative, which is what `free_page` asserts.
* The segments are apart because their ends are page boundaries in the order of
  `SpaceAssumption` (`RoundUpFacts`, `TextEndFacts`, `Segments`); so `brk`, `fork`
  and `execve` map pages where there were none.
* `valid_pointer`: a range that is accepted has not wrapped around, and lies between
  two page boundaries of one segment (`RangeInside`).

`AddressInv` adds to `Consistent` that a dead process has nothing left and a live
one has a directory, that segments end in their limits, and the properties
themselves. `SegmentsMapped` is needed for `NoPageLost` and the other way round:
`brk` would overwrite an entry that is in use, and lose its page, if there were
pages beyond the segment's end.

TLC checks `KernelInv` in `life` (and `SchedulerInv` in `pipes`), `BuddyInv` in
`buddy` and `AddressInv` in `memory`. `TestsInv` and `LinesInv` were checked with the
constants of `messages` and `terminal` before they were proved; they are defined
beside their proofs.

## 6. Model-checked only, and not modelled

Only model-checked:

* liveness (`BlockedCallsReturn`, `TestsFinish`), which the prover does not do;
* `EverySlaveAnswers`, which reads the slaves' numbers out of texts that `vsnprintf`
  made and `atoi` reads (`Libc` defines both by recursion over sequences);
* `PathsResolve`, which says of every path in scope where it leads: that needs the
  text that `relative_to_absolute` has after each component, an induction over
  characters. `EntryLeads` and `HostFileFound` (section 5) prove the part of it that is
  about the search: a path leads to the host's file of its names if there is one.

Not modelled:

* exit status values and the pointer that `waitpid` writes them through; page
  contents and permissions; the end of physical memory, for which `alloc_page`
  does not test; the arguments that `execve` copies to the new stack;
* what a backspace at the left edge does to the text on the screen, shift-dependent
  characters typed after one of two shift keys came up, and shift codes that a keyboard
  sends by itself (section 3);
* programs that kill a zombie or send to one (section 3); that a path that does not
  fit `PATH_MAX` is silently cut and then names another file (`filesystem.c:169`), which
  the model does as the code does and no property forbids;
* descriptor tables, mode switches, the programming of the interrupt controller
  and timer and the assembly entry code, which only set up hardware;
* `sh.c`'s treatment of backspaces, which reads outside its line (two in a row
  make it start again from three characters before, for ever; `sh.c:77-88`); its
  main loop is that of `dsh.c`. `dsh` means to remove backspaces and removes none,
  because it compares characters with the address of a string (`dsh.c:77`), and it
  does not free what it allocates for a line that runs a program (`dsh.c:221`);
* `fstool -get` and `-shell`, which print what the operators of
  `FileSystem` return; names of `MAX_FILENAME_LEN` characters, which `strncpy`
  leaves without an end (`fstool.c:127`); host files that change while the image
  is built;
* the rest of `libc.c`, `list.c` and the utilities (`cat`, `ls`, `find`, `kill`,
  `daemon`, `testbuddy`): sequential code whose calls are included in the
  arbitrary ones of the runs.

## 7. Plan

Done: the modules of section 2 and their runs; every safety property of `Kernel`
and its refinement of `Lifecycle`; the FIFO mailboxes, `TestsPass` and `OneToken`;
every property of `Buddy` and of `AddressSpace`; the screen, the keyboard's flags,
the shell's lines, the image, the working directories and what is read through
handles.

The reasons why the properties of section 6 stay with TLC are given there.
