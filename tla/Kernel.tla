------------------------------- MODULE Kernel -------------------------------
(***************************************************************************)
(* The whole kernel: the state kmain boots into, the system call           *)
(* dispatcher, the timer, keyboard and page fault interrupts, and what     *)
(* must hold of them together.                                             *)
(***************************************************************************)
EXTENDS Process

CONSTANTS
  KillScope,  \* in which conditions programs kill a process
  SendScope,  \* in which conditions programs send a process a message
  Faults      \* the exceptions programs may raise: page faults, others

(* The condition of a process as another process may find it.              *)
Conditions == {"ready", "read", "receive", "waitpid", "zombie"}

ASSUME ScopeAssumption ==
  /\ KillScope \subseteq Conditions
  /\ SendScope \subseteq Conditions
  /\ Faults \subseteq {"page", "other"}

Condition(p) == IF p \notin exists THEN "none"
                ELSE IF p \in exited THEN "zombie"
                ELSE IF p \in ready THEN "ready"
                ELSE in_syscall[p][1]

(* What the programs of a run do. It restricts their calls only, never the *)
(* kernel: with both scopes equal to Conditions they may do anything.      *)
Workload(c) ==
  /\ c[1] = "kill" => Condition(c[2]) \in KillScope \cup {"none"}
  /\ c[1] = "send" => Condition(c[2]) \in SendScope \cup {"none"}

(* What start_process gives a process to start with: standard input is the *)
(* reader of the keyboard's pipe, which has no writing handle; standard    *)
(* output and error are two screen handles.                                *)
StdHandle(fd) ==
  IF fd > 2 THEN NullHandle ELSE IF fd = 0 THEN ReaderOf(StdinPipe) ELSE Screen(fd)

(* kmain has started process 1, which is on the ready list. No process is  *)
(* current until the first timer interrupt.                                *)
Init ==
  /\ exists = {1} /\ exited = {} /\ ready = {1}
  /\ parent_pid = [p \in Pids |-> IF p = 1 THEN NONE ELSE 0]
  /\ waiting_on = [p \in Pids |-> IF p = 1 THEN NONE ELSE 0]
  /\ in_syscall = [p \in Pids |-> NoCall]
  /\ filedesc = [p \in Pids |-> [fd \in FDs |->
                   IF p = 1 THEN StdHandle(fd) ELSE NullHandle]]
  /\ mailbox = [p \in Pids |-> "null"]
  /\ mailbox_size = [p \in Pids |-> 0]
  /\ receive_blocked = {}
  /\ lists = [first |-> [ll \in ListNames |-> IF ll = "ready" THEN 1 ELSE NULL],
              last  |-> [ll \in ListNames |-> IF ll = "ready" THEN 1 ELSE NULL],
              next  |-> [p \in Pids |-> NULL],
              prev  |-> [p \in Pids |-> NULL]]
  /\ current_process = NULL
  /\ refcount = [h \in Handles |->
                   IF h \in {ReaderOf(StdinPipe), Screen(1), Screen(2)} THEN 1 ELSE 0]
  /\ reading = {StdinPipe} /\ writing = {StdinPipe}
  /\ len = [b \in AllPipes |-> 0]
  /\ readpid = [b \in AllPipes |-> NONE]
  /\ kpc = "user" /\ victim = NULL /\ kfd = 0 /\ heap_fault = FALSE

-----------------------------------------------------------------------------
(* The timer interrupt, in a process or in the idle loop.                  *)
timer_handler == kpc = "user" /\ context_switch

(* A key that convert maps to a character: one byte for standard input,    *)
(* then a context switch. A key without one only switches context, which   *)
(* is the step that timer_handler takes.                                   *)
keyboard_handler ==
  /\ kpc = "user"
  /\ len[StdinPipe] + 1 <= MaxLen
  /\ IF wake_asserts(StdinPipe)
     THEN /\ write_to_pipe(StdinPipe, 1)
          /\ kpc' = "switch"
          /\ UNCHANGED <<procVars, current_process, fdVars, mailVars, killVars, in_syscall>>
     ELSE Panic

(* A page fault in user mode kills the process.                            *)
page_fault ==
  /\ "page" \in Faults
  /\ kpc = "user" /\ current_process # NULL
  /\ KillBegin(current_process)
  /\ UNCHANGED <<procVars, ready, fdVars, pipeVars, mailVars, in_syscall>>

(* Any other processor exception halts the machine.                        *)
other_exception ==
  /\ "other" \in Faults
  /\ kpc = "user" /\ current_process # NULL
  /\ kpc' = "halt"
  /\ UNCHANGED <<procVars, schedVars, fdVars, pipeVars, mailVars, killVars, in_syscall>>

(* The context switch at the end of a system call, fault or key press.     *)
SwitchAway == kpc = "switch" /\ context_switch

(* halt stops the processor with interrupts off, and so does a panic.      *)
syscall_halt(c) ==
  /\ c[1] = "halt" /\ Entering(c)
  /\ kpc' = "halt"
  /\ UNCHANGED <<procVars, schedVars, fdVars, pipeVars, mailVars, killVars, in_syscall>>

(* A buffer outside the caller's segments, or a message that is too long,  *)
(* is refused before anything changes. The segments of a blocked process   *)
(* do not change, so a call that is repeated is not refused.               *)
InvalidArgument(c) ==
  /\ c[1] \in {"write", "read", "send", "receive", "pipe"}
  /\ kpc = "user" /\ Entering(c)
  /\ ReturnOnly

Stopped == kpc \in {"halt", "panic"} /\ UNCHANGED vars

syscall(c) ==
  \/ syscall_getpid(c)
  \/ syscall_exit(c)
  \/ syscall_write(c)
  \/ syscall_read(c)
  \/ syscall_send(c)
  \/ syscall_receive(c)
  \/ syscall_close(c)
  \/ syscall_pipe(c)
  \/ syscall_dup2(c)
  \/ syscall_fork(c)
  \/ syscall_waitpid(c)
  \/ syscall_kill(c)
  \/ syscall_halt(c)
  \/ InvalidArgument(c)

(* A trap from user mode, and the repetition of a call by context_switch.  *)
UserCall    == kpc = "user" /\ \E c \in Calls : Workload(c) /\ syscall(c)
RestartCall == kpc = "restart" /\ \E c \in Calls : syscall(c)

Next ==
  \/ timer_handler
  \/ keyboard_handler
  \/ page_fault
  \/ other_exception
  \/ UserCall
  \/ RestartCall
  \/ SwitchAway
  \/ KillClose
  \/ KillReap
  \/ Stopped

Spec == Init /\ [][Next]_vars

-----------------------------------------------------------------------------
(***************************************************************************)
(* Correctness.                                                            *)
(***************************************************************************)

(* The k-th process of a list, following next from first; NULL at the end. *)
Nth(ll) ==
  LET f[k \in 0 .. MAX_PROCESSES] ==
        IF k = 0 THEN lists.first[ll]
        ELSE IF f[k - 1] = NULL THEN NULL ELSE lists.next[f[k - 1]]
  IN f

Members(ll) == {Nth(ll)[k] : k \in 0 .. MAX_PROCESSES} \ {NULL}

(* Walking the ready list from its first element meets exactly the live    *)
(* processes that are ready, walking the suspended list exactly the live   *)
(* ones that are not, both walks end, and prev retraces them from last.    *)
ListsExact ==
  /\ Members("ready") = Live \cap ready
  /\ Members("suspended") = Live \ ready
  /\ \A ll \in ListNames :
       /\ Nth(ll)[MAX_PROCESSES] = NULL
       /\ \A p \in Members(ll) :
            /\ lists.prev[p] = NULL <=> lists.first[ll] = p
            /\ lists.next[p] = NULL <=> lists.last[ll] = p
            /\ lists.next[p] # NULL => lists.prev[lists.next[p]] = p
       /\ Members(ll) = {} <=> lists.last[ll] = NULL

(* No sequence of calls and interrupts makes a kernel assert fail.         *)
NoPanic == kpc # "panic"

(* Kernel memory is never used or freed after it was freed.                *)
NoHeapFault == ~ heap_fault

(* Who refers to a handle: descriptors of live processes and those that    *)
(* the kill_process in progress has not closed yet.                        *)
References(h) ==
  {pf \in Live \X FDs : filedesc[pf[1]][pf[2]] = h}
    \cup {pf \in {victim} \X (kfd .. MAX_FDS - 1) :
            victim # NULL /\ filedesc[pf[1]][pf[2]] = h}

(* A handle's reference count is the number of descriptors that refer to   *)
(* it, across dup2, fork, close and death; a pipe is open for reading or   *)
(* writing exactly as long as someone holds that end (the keyboard holds   *)
(* the writing end of standard input).                                     *)
RefcountsExact ==
  /\ \A h \in Handles : refcount[h] = Cardinality(References(h))
  /\ \A b \in AllPipes : b \in reading <=> refcount[ReaderOf(b)] > 0
  /\ \A b \in Pipes : b \in writing <=> refcount[WriterOf(b)] > 0

(* What the suspended process p waits for has not happened, and whoever    *)
(* makes it happen will find p: the pipe it reads names it as its reader   *)
(* and is empty but open; or it is marked blocked with an empty mailbox;   *)
(* or it waits on a child of its own that is still alive.                  *)
WaitsForData(p) ==
  /\ in_syscall[p][1] = "read"
  /\ LET h == filedesc[p][in_syscall[p][2]] IN
     h.type = "reader" /\ readpid[h.p] = p /\ len[h.p] = 0 /\ h.p \in writing
WaitsForMessage(p) ==
  in_syscall[p][1] = "receive" /\ p \in receive_blocked /\ mailbox_size[p] = 0
WaitsForChild(p) ==
  /\ in_syscall[p][1] = "waitpid"
  /\ waiting_on[p] = in_syscall[p][2]
  /\ waiting_on[p] \in exists \ exited
  /\ parent_pid[waiting_on[p]] = p

(* No wakeup is lost: a suspended process is still waiting for something   *)
(* that can happen.                                                        *)
NoLostWakeup ==
  \A p \in Live \ ready : WaitsForData(p) \/ WaitsForMessage(p) \/ WaitsForChild(p)

(* No wakeup goes astray: whoever is registered to be resumed is suspended *)
(* in the call that registered it.                                         *)
NoStaleWaiter ==
  /\ \A b \in AllPipes : readpid[b] # NONE =>
       readpid[b] \in Live \ ready /\ WaitsForData(readpid[b])
  /\ \A p \in Live \cap receive_blocked : p \notin ready /\ WaitsForMessage(p)

(* The scheduler only ever runs a live process that is on the ready list.  *)
RunsLiveProcess ==
  current_process # NULL => current_process \in Live /\ (kpc # "switch" => current_process \in ready)

(* A live process's parent is alive, so there is someone to wait for it    *)
(* and kill_process never looks at the slot of another process.            *)
ParentAlive ==
  \A p \in Live : parent_pid[p] \in Live \cup {NONE} \/ parent_pid[p] = victim

-----------------------------------------------------------------------------
(* The inductive invariant behind RunsLiveProcess and ParentAlive, for     *)
(* programs that do not kill a process blocked in a read or a zombie and   *)
(* do not send to a zombie.                                                *)

DisciplinedPrograms ==
  KillScope \cap {"read", "zombie"} = {} /\ "zombie" \notin SendScope

(* M is linked as a list should be, seen from each element: neighbours     *)
(* point at each other and only the ends have a NULL pointer.              *)
Linked(L, ll, M) ==
  /\ L.first[ll] \in M \cup {NULL} /\ L.last[ll] \in M \cup {NULL}
  /\ L.first[ll] = NULL <=> L.last[ll] = NULL
  /\ \A p \in M :
       /\ L.next[p] \in M \cup {NULL} /\ L.prev[p] \in M \cup {NULL}
       /\ L.prev[p] = NULL <=> L.first[ll] = p
       /\ L.next[p] = NULL <=> L.last[ll] = p
       /\ L.next[p] # NULL => L.prev[L.next[p]] = p
       /\ L.prev[p] # NULL => L.next[L.prev[p]] = p

(* No list runs in a circle: following next leaves every set of processes. *)
NoCircle(L) == \A U \in SUBSET Pids : U # {} => \E p \in U : L.next[p] \notin U

(* R and S are the two lists and nobody else has list pointers.            *)
TwoLists(L, R, S) ==
  /\ NoCircle(L)
  /\ Linked(L, "ready", R)
  /\ Linked(L, "suspended", S)
  /\ \A p \in Pids \ (R \cup S) : L.next[p] = NULL /\ L.prev[p] = NULL

ListsInv == TwoLists(lists, Live \cap ready, Live \ ready)

(* Whoever is registered to be woken is suspended in the matching call,    *)
(* and registered with one pipe only.                                      *)
WaitersInv ==
  /\ \A x \in AllPipes : readpid[x] # NONE =>
       readpid[x] \in Live \ ready /\ in_syscall[readpid[x]][1] = "read"
  /\ \A x, y \in AllPipes : readpid[x] = readpid[y] /\ readpid[x] # NONE => x = y
  /\ \A p \in Live \cap receive_blocked : p \notin ready /\ in_syscall[p][1] = "receive"

VictimInv ==
  /\ kpc \in {"user", "switch", "restart", "halt"} => victim = NULL
  /\ kpc \in {"close", "reap"} => victim \in exists \ exited

ParentsInv ==
  \A p \in exists \ exited : parent_pid[p] \in ((exists \ exited) \ {p}) \cup {NONE}

(* A live process is in no call or in one that blocks; only the one whose  *)
(* call to kill is in progress is in another. So context_switch repeats    *)
(* only calls that block.                                                  *)
BlockingCalls == {"read", "receive", "waitpid"}
CallsInv ==
  \A p \in Live :
    \/ in_syscall[p][1] \in BlockingCalls \cup {"none"}
    \/ p = current_process /\ kpc \in {"close", "reap", "panic"}

(* Whatever programs within that discipline do, the lists stay linked, the *)
(* scheduler runs a live process, and whoever is to be woken can be.       *)
SchedulerInv ==
  ListsInv /\ RunsLiveProcess /\ WaitersInv /\ VictimInv /\ ParentsInv /\ CallsInv

(* What the counts rest on: kill_process has seen every descriptor before  *)
(* it goes on, nobody holds the keyboard's end of standard input, and the  *)
(* mailbox of a process that has not died has not been freed.              *)
ResourcesInv ==
  /\ kpc = "reap" => kfd = MAX_FDS
  /\ StdinPipe \in writing /\ refcount[WriterOf(StdinPipe)] = 0
  /\ \A p \in exists \ exited : mailbox[p] # "freed"

(* What the wakeups rest on: a process suspended in a read names one of    *)
(* its descriptors, and one that was resumed inside waitpid no longer      *)
(* waits for anybody, so the death of the child cannot resume it twice.    *)
ResumedInv ==
  /\ \A p \in Live \ ready : in_syscall[p][1] = "read" => in_syscall[p][2] \in FDs
  /\ \A p \in Live \cap ready : in_syscall[p][1] = "waitpid" => waiting_on[p] = NONE

(* Counts, wakeups, lists and parents hold each other up: this conjunction *)
(* is preserved by every step, and hardly any of its parts is by itself.   *)
KernelInv ==
  /\ SchedulerInv
  /\ RefcountsExact /\ ResourcesInv
  /\ NoLostWakeup /\ NoStaleWaiter /\ ResumedInv
  /\ NoPanic /\ NoHeapFault

-----------------------------------------------------------------------------
(* What comments of the source promise and the kernel does not keep; each  *)
(* is checked by a run that refutes it.                                    *)

(* A dead process keeps its slot only while a parent can wait for it       *)
(* (kill_process: children's parent_pid becomes -1 "so they won't stick    *)
(* around").                                                               *)
ZombieHasParent == \A p \in exists \cap exited : parent_pid[p] # NONE

-----------------------------------------------------------------------------
(* The kernel implements Lifecycle. A process that kill_process is taking  *)
(* apart is dead once kill_process is done with it.                        *)
StatusOf(p) == IF p \notin exists THEN "free"
               ELSE IF p \in exited THEN "zombie"
               ELSE IF p \in ready THEN "ready" ELSE "blocked"

Abstract == INSTANCE Lifecycle WITH
  status <- [p \in Pids |-> StatusOf(p)],
  parent <- [p \in Pids |-> IF p \in exists THEN parent_pid[p] ELSE NONE]

ImplementsLifecycle == Abstract!LSpec

-----------------------------------------------------------------------------
(* Fairness. The kernel finishes what it started; a timer interrupt that   *)
(* arrives while the kernel runs is held by the interrupt controller until *)
(* the processor is back in user mode, hence strong fairness. Programs may *)
(* compute forever and nobody need press a key.                            *)
Fairness ==
  /\ SF_vars(timer_handler)
  /\ WF_vars(RestartCall) /\ WF_vars(SwitchAway)
  /\ WF_vars(KillClose) /\ WF_vars(KillReap)

FairSpec == Spec /\ Fairness

(* The event that the call of p waits for has happened: the child has      *)
(* exited, there is a message, or the pipe has reached its end of file.    *)
EventHappened(p) ==
  /\ p \in Live
  /\ \/ in_syscall[p][1] = "waitpid" /\ in_syscall[p][2] \in exited
     \/ in_syscall[p][1] = "receive" /\ mailbox_size[p] > 0
     \/ /\ in_syscall[p][1] = "read"
        /\ LET h == filedesc[p][in_syscall[p][2]] IN
           h.type = "reader" /\ h.p \notin writing

(* A blocking call returns once the event it waits for has happened.       *)
BlockedCallsReturn ==
  \A p \in Pids : EventHappened(p) ~> (in_syscall[p] = NoCall \/ p \notin Live)

(* Every ready process gets the processor (process.c: a process "will get  *)
(* its first time slice very shortly"); refuted with four processes.       *)
EveryReadyProcessRuns ==
  \A p \in Pids : (p \in Live \cap ready) ~> (current_process = p \/ p \notin Live \cap ready)
=============================================================================
