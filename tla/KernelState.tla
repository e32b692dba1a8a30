---------------------------- MODULE KernelState ----------------------------
(***************************************************************************)
(* The data structures of include/kernel.h that every part of the kernel   *)
(* shares: the process table, the ready and suspended lists, file handles, *)
(* pipe buffers and mailboxes, and where the kernel's thread of control is.*)
(*                                                                         *)
(* The kernel is entered through interrupt gates and never enables         *)
(* interrupts, so exactly one handler runs at a time and it runs to its    *)
(* end. kpc says which part of a handler is next; it is "user" when the    *)
(* processor is executing a process or the idle loop. Every step with      *)
(* kpc other than "user" is forced: nothing can interleave with it.        *)
(***************************************************************************)
EXTENDS Integers, FiniteSets

CONSTANTS
  MAX_PROCESSES,  \* slots of the process table; slot 0 is never used
  MAX_FDS,        \* file descriptors of a process
  MAILBOX_ALLOC,  \* messages a mailbox can hold (8 in syscall_send)
  Pipes,          \* identities of the pipes that system calls can create
  StdinPipe,      \* the pipe created by start_process, fed by the keyboard
  MaxLen,         \* bound on the bytes buffered in a pipe
  Calls           \* the system calls, with arguments, that programs make

CallNames == {"getpid", "exit", "write", "read", "send", "receive", "close", "pipe",
              "dup2", "fork", "vfork", "waitpid", "kill", "halt"}

(* A call is <<name, first argument, second argument>>: what the kernel    *)
(* finds in EAX and on the user stack. The first argument is a file        *)
(* descriptor or a pid; the second is a byte count (read, write), the new  *)
(* descriptor (dup2) or the block flag (receive).                          *)
NoCall == <<"none", 0, 0>>

Pids == 1 .. (MAX_PROCESSES - 1)
FDs  == 0 .. (MAX_FDS - 1)
NULL == 0     \* a null process pointer
NONE == -1    \* a pid_t field that names no process

AllPipes == Pipes \cup {StdinPipe}

ASSUME KernelAssumption ==
  /\ MAX_PROCESSES \in Nat /\ MAX_PROCESSES >= 2
  /\ MAX_FDS \in Nat /\ MAX_FDS >= 3
  /\ MAILBOX_ALLOC \in Nat /\ MAILBOX_ALLOC >= 1
  /\ MaxLen \in Nat
  /\ StdinPipe \notin Pipes
  /\ Calls \subseteq (CallNames \X Int \X Nat)

(* struct filehandle: its type and, for the ends of a pipe, the pipe. For  *)
(* each pipe there is one reading and at most one writing handle, and      *)
(* start_process makes two screen handles, so a handle is named by its     *)
(* contents.                                                               *)
ReaderOf(b) == [type |-> "reader", p |-> b]
WriterOf(b) == [type |-> "writer", p |-> b]
Screen(i)   == [type |-> "screen", p |-> i]

PipeHandles   == [type : {"reader", "writer"}, p : AllPipes]
ScreenHandles == [type : {"screen"}, p : {1, 2}]
Handles       == PipeHandles \cup ScreenHandles
NullHandle    == [type |-> "null", p |-> 0]

VARIABLES
  \* typedef struct process
  exists,           \* the slots in use
  exited,           \* the slots whose exited flag is set
  ready,            \* the slots whose ready flag is set
  parent_pid,
  waiting_on,
  in_syscall,       \* the call a process is in, with the saved arguments
  filedesc,
  mailbox,          \* the mailbox pointer: "null", "live" or "freed" storage
  mailbox_size,
  receive_blocked,  \* the slots whose receive_blocked flag is set
  \* process.c
  lists,            \* ready.first/last, suspended.first/last and next/prev
  current_process,
  \* filehandle and pipe_buffer objects
  refcount,
  reading, writing, \* the pipes whose flag is set; one with neither is freed
  len,
  readpid,
  \* control
  kpc,              \* where the kernel is
  victim,           \* the argument of the kill_process in progress
  kfd,              \* its loop index over file descriptors
  heap_fault        \* freed kernel memory has been used or freed again

procVars == <<exists, exited, parent_pid, waiting_on>>
schedVars == <<ready, lists, current_process>>
fdVars   == <<filedesc, refcount>>
pipeVars == <<reading, writing, len, readpid>>
mailVars == <<mailbox, mailbox_size, receive_blocked>>
killVars == <<victim, kfd, heap_fault>>
vars == <<procVars, schedVars, fdVars, pipeVars, mailVars, killVars, in_syscall, kpc>>

ListNames == {"ready", "suspended"}

Lists == [first : [ListNames -> Pids \cup {NULL}],
          last  : [ListNames -> Pids \cup {NULL}],
          next  : [Pids -> Pids \cup {NULL}],
          prev  : [Pids -> Pids \cup {NULL}]]

KernelStates == {"user", "switch", "restart", "close", "reap", "panic", "halt"}

(* Every variable holds a value of its C type (with the bounds above).     *)
TypeOK ==
  /\ exists \subseteq Pids /\ exited \subseteq Pids /\ ready \subseteq Pids
  /\ parent_pid \in [Pids -> Pids \cup {NONE, NULL}]
  /\ waiting_on \in [Pids -> Pids \cup {NONE, NULL}]
  /\ in_syscall \in [Pids -> Calls \cup {NoCall}]
  /\ filedesc \in [Pids -> [FDs -> Handles \cup {NullHandle}]]
  /\ mailbox \in [Pids -> {"null", "live", "freed"}]
  /\ mailbox_size \in [Pids -> 0 .. MAILBOX_ALLOC]
  /\ receive_blocked \subseteq Pids
  /\ lists \in Lists
  /\ current_process \in Pids \cup {NULL}
  /\ refcount \in [Handles -> Nat]
  /\ reading \subseteq AllPipes /\ writing \subseteq AllPipes
  /\ len \in [AllPipes -> 0 .. MaxLen]
  /\ readpid \in [AllPipes -> Pids \cup {NONE}]
  /\ kpc \in KernelStates
  /\ victim \in Pids \cup {NULL}
  /\ kfd \in 0 .. MAX_FDS
  /\ heap_fault \in BOOLEAN

(* A process that is running or can run again: its slot is in use and it   *)
(* has not exited; the process being killed is no longer one.              *)
Live == (exists \ exited) \ {victim}

-----------------------------------------------------------------------------
(* A failed assert: __assert prints and loops forever with interrupts off. *)
(* What the handler assigned before it can no longer be observed.          *)
Panic == kpc' = "panic" /\ UNCHANGED <<procVars, schedVars, fdVars, pipeVars, mailVars,
                                       killVars, in_syscall>>

(* A process in user mode, or one that context_switch resumes inside a     *)
(* call, enters the dispatcher with call c.                                *)
Entering(c) ==
  \/ kpc = "user" /\ current_process # NULL /\ c \in Calls
  \/ kpc = "restart" /\ c = in_syscall[current_process]

(* The call is complete: in_syscall is cleared and the caller runs on.     *)
Return ==
  /\ in_syscall' = [in_syscall EXCEPT ![current_process] = NoCall]
  /\ kpc' = "user"
=============================================================================
