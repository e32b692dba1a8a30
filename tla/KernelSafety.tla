---------------------------- MODULE KernelSafety ----------------------------
(***************************************************************************)
(* Proof that, for any number of processes, pipes and descriptors, every   *)
(* variable of the kernel keeps its type, the scheduler's lists stay well  *)
(* linked, the processor is only given to a live process, wakeups only     *)
(* reach processes that are suspended, and no live process has a dead      *)
(* parent: TypeOK and SchedulerInv of module Kernel, the second for        *)
(* programs that do not kill a process blocked in a read or a zombie and   *)
(* do not send to a zombie.                                                *)
(***************************************************************************)
EXTENDS Kernel, ListFacts, FiniteSetTheorems, TLAPS

(* The type invariant needs to know a little about control: a process is   *)
(* being killed in the steps of kill_process, and there is a current       *)
(* process to restart.                                                     *)
ControlOK ==
  /\ kpc \in {"close", "reap"} => victim \in Pids
  /\ kpc = "close" => kfd \in FDs
  /\ kpc = "restart" => current_process # NULL

TypeInv == TypeOK /\ ControlOK

-----------------------------------------------------------------------------
(* Facts about the constants.                                              *)

(* Slot 1 exists, 0 (NULL) and -1 (NONE) are no slots, and descriptors 0   *)
(* to 2 exist.                                                             *)
LEMMA ConstantFacts ==
  /\ 1 \in Pids /\ NULL \notin Pids /\ NONE \notin Pids /\ NULL # NONE
  /\ Pids \subseteq Nat /\ FDs \subseteq Nat
  /\ {0, 1, 2} \subseteq FDs
  /\ IsFiniteSet(FDs)
<1>1. IsFiniteSet(FDs)
  BY FS_Interval, KernelAssumption DEF FDs
<1> QED
  BY <1>1, KernelAssumption DEF Pids, FDs, NULL, NONE

(* A system call's second argument is a number, its first an integer.      *)
LEMMA CallFacts ==
  ASSUME NEW c \in Calls
  PROVE  c[1] \in CallNames /\ c[2] \in Int /\ c[3] \in Nat
BY KernelAssumption

(* The ends of a pipe name a pipe.                                         *)
LEMMA HandleFacts ==
  ASSUME NEW h \in Handles, h.type \in {"reader", "writer"}
  PROVE  h.p \in AllPipes
BY DEF Handles, PipeHandles, ScreenHandles

LEMMA EndsAreHandles ==
  ASSUME NEW b \in AllPipes
  PROVE  ReaderOf(b) \in Handles /\ WriterOf(b) \in Handles
BY DEF ReaderOf, WriterOf, Handles, PipeHandles

-----------------------------------------------------------------------------
(* The list macros keep the list pointers' types.                          *)

LEMMA ListAddType ==
  ASSUME NEW L \in Lists, NEW ll \in ListNames, NEW p \in Pids
  PROVE  list_add(L, ll, p) \in Lists
BY DEF Lists, list_add

LEMMA ListRemoveType ==
  ASSUME NEW L \in Lists, NEW ll \in ListNames, NEW p \in Pids
  PROVE  list_remove(L, ll, p) \in Lists
BY DEF Lists, list_remove

LEMMA ResumeType ==
  ASSUME TypeOK, NEW p \in Pids, resume_process(p)
  PROVE  ready' \subseteq Pids /\ lists' \in Lists
BY ListAddType, ListRemoveType DEF TypeOK, resume_process, ListNames

LEMMA SuspendType ==
  ASSUME TypeOK, current_process \in Pids, NEW c \in Calls, SuspendIn(c)
  PROVE  /\ ready' \subseteq Pids /\ lists' \in Lists
         /\ in_syscall' \in [Pids -> Calls \cup {NoCall}]
         /\ kpc' = "switch"
BY ListAddType, ListRemoveType DEF TypeOK, SuspendIn, suspend_process, ListNames

LEMMA WakeType ==
  ASSUME TypeOK, NEW b \in AllPipes, wake_up_reader(b)
  PROVE  /\ ready' \subseteq Pids /\ lists' \in Lists
         /\ readpid' \in [AllPipes -> Pids \cup {NONE}]
<1>1. CASE readpid[b] = NONE
  BY <1>1 DEF TypeOK, wake_up_reader
<1>2. CASE readpid[b] # NONE
  <2>1. readpid[b] \in Pids
    BY <1>2 DEF TypeOK
  <2> QED
    BY <1>2, <2>1, ResumeType DEF TypeOK, wake_up_reader
<1> QED
  BY <1>1, <1>2

LEMMA CloseType ==
  ASSUME TypeOK, NEW h \in Handles, close_asserts(h), close_filehandle(h)
  PROVE  /\ ready' \subseteq Pids /\ lists' \in Lists
         /\ readpid' \in [AllPipes -> Pids \cup {NONE}]
         /\ reading' \subseteq AllPipes /\ writing' \subseteq AllPipes
         /\ len' \in [AllPipes -> 0 .. MaxLen]
         /\ Dropped(h) \in [Handles -> Nat]
<1>1. Dropped(h) \in [Handles -> Nat]
  BY DEF TypeOK, close_asserts, Dropped
<1>2. /\ reading' \subseteq AllPipes /\ writing' \subseteq AllPipes
      /\ len' \in [AllPipes -> 0 .. MaxLen]
  BY DEF TypeOK, close_filehandle
<1>3. CASE refcount[h] = 1 /\ h.type = "writer"
  BY <1>1, <1>2, <1>3, HandleFacts, WakeType DEF close_filehandle
<1>4. CASE ~ (refcount[h] = 1 /\ h.type = "writer")
  BY <1>1, <1>2, <1>4 DEF close_filehandle, TypeOK
<1> QED
  BY <1>3, <1>4

-----------------------------------------------------------------------------
(* A call is entered by a process.                                         *)
LEMMA EnteringType ==
  ASSUME TypeInv, NEW c, Entering(c)
  PROVE  current_process \in Pids
BY DEF TypeInv, TypeOK, ControlOK, Entering

(* The handle a call names is NullHandle or a handle.                      *)
LEMMA HandleAtType ==
  ASSUME TypeOK, current_process \in Pids, NEW fd, HandleAt(fd) # NullHandle
  PROVE  fd \in FDs /\ HandleAt(fd) \in Handles
BY DEF TypeOK, HandleAt

LEMMA PipeEndType ==
  ASSUME TypeOK, current_process \in Pids, NEW fd,
         HandleAt(fd).type \in {"reader", "writer"}
  PROVE  HandleAt(fd).p \in AllPipes
<1>1. NullHandle.type = "null"
  BY DEF NullHandle
<1> QED
  BY <1>1, HandleAtType, HandleFacts

LEMMA PanicType == ASSUME TypeInv, Panic PROVE TypeInv'
BY DEF TypeInv, TypeOK, ControlOK, Panic, KernelStates, procVars, schedVars, fdVars, pipeVars,
       mailVars, killVars

LEMMA ReturnType ==
  ASSUME TypeOK, Return
  PROVE  in_syscall' \in [Pids -> Calls \cup {NoCall}] /\ kpc' = "user"
BY DEF TypeOK, Return

LEMMA ReturnOnlyType == ASSUME TypeInv, ReturnOnly PROVE TypeInv'
BY ReturnType DEF TypeInv, TypeOK, ControlOK, ReturnOnly, KernelStates, procVars, schedVars,
       fdVars, pipeVars, mailVars, killVars

-----------------------------------------------------------------------------
(* File descriptors and pipes.                                             *)

LEMMA WriteToPipeType ==
  ASSUME TypeOK, NEW b \in AllPipes, NEW n \in Nat, len[b] + n <= MaxLen, write_to_pipe(b, n)
  PROVE  /\ ready' \subseteq Pids /\ lists' \in Lists
         /\ readpid' \in [AllPipes -> Pids \cup {NONE}]
         /\ reading' \subseteq AllPipes /\ writing' \subseteq AllPipes
         /\ len' \in [AllPipes -> 0 .. MaxLen]
<1>1. len[b] \in 0 .. MaxLen /\ len[b] + n \in 0 .. MaxLen
  BY KernelAssumption DEF TypeOK
<1>2. len' \in [AllPipes -> 0 .. MaxLen]
  BY <1>1 DEF TypeOK, write_to_pipe
<1>3. reading' \subseteq AllPipes /\ writing' \subseteq AllPipes
  BY DEF TypeOK, write_to_pipe
<1> QED
  BY <1>2, <1>3, WakeType DEF write_to_pipe

LEMMA WriteType ==
  ASSUME TypeInv, NEW c \in Calls, syscall_write(c)
  PROVE  TypeInv'
<1> DEFINE h == HandleAt(c[2])
<1>1. CASE h.type # "writer"
  BY <1>1, ReturnOnlyType DEF syscall_write
<1>2. CASE h.type = "writer" /\ ~ wake_asserts(h.p)
  BY <1>2, PanicType DEF syscall_write
<1>3. CASE h.type = "writer" /\ wake_asserts(h.p)
  <2>1. h.p \in AllPipes
    BY <1>3, EnteringType, PipeEndType DEF TypeInv, syscall_write
  <2>2. c[3] \in Nat
    BY CallFacts
  <2>3. /\ len[h.p] + c[3] <= MaxLen /\ write_to_pipe(h.p, c[3]) /\ Return
        /\ UNCHANGED <<procVars, current_process, fdVars, mailVars, killVars>>
    BY <1>3 DEF syscall_write
  <2> QED
    BY <2>1, <2>2, <2>3, WriteToPipeType, ReturnType
    DEF TypeInv, TypeOK, ControlOK, KernelStates, procVars, fdVars, mailVars, killVars
<1> QED
  BY <1>1, <1>2, <1>3

LEMMA ReadType ==
  ASSUME TypeInv, NEW c \in Calls, syscall_read(c)
  PROVE  TypeInv'
<1> DEFINE h == HandleAt(c[2])
           b == h.p
<1>1. CASE h.type # "reader"
  BY <1>1, ReturnOnlyType DEF syscall_read
<1>2. CASE h.type = "reader"
  <2>1. current_process \in Pids /\ b \in AllPipes /\ c[3] \in Nat
    BY <1>2, EnteringType, PipeEndType, CallFacts DEF TypeInv, syscall_read
  <2>2. pipe_reader_read(c, b)
    BY <1>2 DEF syscall_read
  <2>3. CASE ReturnOnly
    BY <2>3, ReturnOnlyType
  <2>4. CASE Panic
    BY <2>4, PanicType
  <2>5. CASE /\ len' = [len EXCEPT ![b] = @ - CopySize(c[3], b)]
             /\ Return
             /\ UNCHANGED <<procVars, schedVars, fdVars, reading, writing, readpid, mailVars,
                            killVars>>
    <3>1. len' \in [AllPipes -> 0 .. MaxLen]
      <4>1. len[b] \in 0 .. MaxLen
        BY <2>1 DEF TypeInv, TypeOK
      <4>2. len[b] - CopySize(c[3], b) \in 0 .. MaxLen
        BY <2>1, <4>1, KernelAssumption DEF CopySize
      <4> QED
        BY <2>5, <4>2 DEF TypeInv, TypeOK
    <3> QED
      BY <2>5, <3>1, ReturnType
      DEF TypeInv, TypeOK, ControlOK, KernelStates, procVars, schedVars, fdVars, mailVars, killVars
  <2>6. CASE /\ readpid' = [readpid EXCEPT ![b] = current_process]
             /\ SuspendIn(c)
             /\ UNCHANGED <<procVars, current_process, fdVars, reading, writing, len, mailVars,
                            killVars>>
    BY <2>1, <2>6, SuspendType
    DEF TypeInv, TypeOK, ControlOK, KernelStates, procVars, fdVars, mailVars, killVars
  <2> QED
    BY <2>2, <2>3, <2>4, <2>5, <2>6 DEF pipe_reader_read
<1> QED
  BY <1>1, <1>2

LEMMA CloseCallType ==
  ASSUME TypeInv, NEW c \in Calls, syscall_close(c)
  PROVE  TypeInv'
<1> DEFINE h == HandleAt(c[2])
<1>1. CASE h = NullHandle
  BY <1>1, ReturnOnlyType DEF syscall_close
<1>2. CASE h # NullHandle /\ ~ close_asserts(h)
  BY <1>2, PanicType DEF syscall_close
<1>3. CASE h # NullHandle /\ close_asserts(h)
  <2>1. current_process \in Pids /\ c[2] \in FDs /\ h \in Handles
    BY <1>3, EnteringType, HandleAtType DEF TypeInv, syscall_close
  <2>2. /\ close_filehandle(h)
        /\ refcount' = Dropped(h)
        /\ filedesc' = [filedesc EXCEPT ![current_process][c[2]] = NullHandle]
        /\ Return
        /\ UNCHANGED <<procVars, current_process, mailVars, killVars>>
    BY <1>3 DEF syscall_close
  <2>3. filedesc' \in [Pids -> [FDs -> Handles \cup {NullHandle}]]
    BY <2>1, <2>2 DEF TypeInv, TypeOK
  <2> QED
    BY <1>3, <2>1, <2>2, <2>3, CloseType, ReturnType
    DEF TypeInv, TypeOK, ControlOK, KernelStates, procVars, mailVars, killVars
<1> QED
  BY <1>1, <1>2, <1>3

LEMMA Dup2Type ==
  ASSUME TypeInv, NEW c \in Calls, syscall_dup2(c)
  PROVE  TypeInv'
<1> DEFINE h == HandleAt(c[2])
           old == HandleAt(c[3])
<1>1. CASE c[3] \notin FDs \/ h = NullHandle \/ c[2] = c[3]
  BY <1>1, ReturnOnlyType DEF syscall_dup2
<1>2. CASE ~ (c[3] \notin FDs \/ h = NullHandle \/ c[2] = c[3])
  <2>1. current_process \in Pids /\ c[3] \in FDs /\ h \in Handles
    BY <1>2, EnteringType, HandleAtType DEF TypeInv, syscall_dup2
  <2>2. ASSUME filedesc' = [filedesc EXCEPT ![current_process][c[3]] = h]
        PROVE  filedesc' \in [Pids -> [FDs -> Handles \cup {NullHandle}]]
    BY <2>1, <2>2 DEF TypeInv, TypeOK
  <2>3. CASE old = NullHandle
    <3>1. /\ refcount' = [refcount EXCEPT ![h] = @ + 1]
          /\ filedesc' = [filedesc EXCEPT ![current_process][c[3]] = h]
          /\ Return
          /\ UNCHANGED <<procVars, schedVars, pipeVars, mailVars, killVars>>
      BY <1>2, <2>3 DEF syscall_dup2
    <3> QED
      BY <2>1, <2>2, <3>1, ReturnType
      DEF TypeInv, TypeOK, ControlOK, KernelStates, procVars, schedVars, pipeVars, mailVars, killVars
  <2>4. CASE old # NullHandle /\ close_asserts(old)
    <3>1. /\ close_filehandle(old)
          /\ refcount' = [Dropped(old) EXCEPT ![h] = @ + 1]
          /\ filedesc' = [filedesc EXCEPT ![current_process][c[3]] = h]
          /\ Return
          /\ UNCHANGED <<procVars, current_process, mailVars, killVars>>
      BY <1>2, <2>4 DEF syscall_dup2
    <3>2. old \in Handles
      BY <2>1, <2>4, HandleAtType DEF TypeInv
    <3>3. /\ ready' \subseteq Pids /\ lists' \in Lists
          /\ readpid' \in [AllPipes -> Pids \cup {NONE}]
          /\ reading' \subseteq AllPipes /\ writing' \subseteq AllPipes
          /\ len' \in [AllPipes -> 0 .. MaxLen]
          /\ Dropped(old) \in [Handles -> Nat]
      BY <2>4, <3>1, <3>2, CloseType DEF TypeInv
    <3>4. refcount' \in [Handles -> Nat]
      BY <2>1, <3>1, <3>3
    <3> QED
      BY <2>2, <3>1, <3>3, <3>4, ReturnType
      DEF TypeInv, TypeOK, ControlOK, KernelStates, procVars, mailVars, killVars
  <2>5. CASE old # NullHandle /\ ~ close_asserts(old)
    BY <1>2, <2>5, PanicType DEF syscall_dup2
  <2> QED
    BY <2>3, <2>4, <2>5
<1> QED
  BY <1>1, <1>2

LEMMA PipeType ==
  ASSUME TypeInv, NEW c \in Calls, syscall_pipe(c)
  PROVE  TypeInv'
<1>1. current_process \in Pids
  BY EnteringType DEF syscall_pipe
<1>2. CASE ReturnOnly
  BY <1>2, ReturnOnlyType
<1>3. CASE ~ ReturnOnly
  <2>1. PICK r \in FDs, w \in FDs, b \in Pipes \ (reading \cup writing) :
          new_pipe(b, r, w) /\ Return /\ UNCHANGED <<procVars, schedVars, mailVars, killVars>>
    BY <1>3 DEF syscall_pipe
  <2>2. b \in AllPipes /\ ReaderOf(b) \in Handles /\ WriterOf(b) \in Handles
    BY EndsAreHandles DEF AllPipes
  <2>3. filedesc' \in [Pids -> [FDs -> Handles \cup {NullHandle}]]
    BY <1>1, <2>1, <2>2 DEF TypeInv, TypeOK, new_pipe
  <2>4. refcount' \in [Handles -> Nat]
    BY <2>1, <2>2 DEF TypeInv, TypeOK, new_pipe
  <2>5. len' \in [AllPipes -> 0 .. MaxLen]
    BY <2>1, <2>2, KernelAssumption DEF TypeInv, TypeOK, new_pipe
  <2> QED
    BY <2>1, <2>2, <2>3, <2>4, <2>5, ReturnType
    DEF TypeInv, TypeOK, ControlOK, KernelStates, new_pipe, procVars, schedVars, mailVars, killVars
<1> QED
  BY <1>2, <1>3

-----------------------------------------------------------------------------
(* Processes and messages.                                                 *)

LEMMA ForkType ==
  ASSUME TypeInv, NEW c \in Calls, syscall_fork(c)
  PROVE  TypeInv'
<1>1. current_process \in Pids
  BY EnteringType DEF syscall_fork
<1>2. CASE ReturnOnly
  BY <1>2, ReturnOnlyType
<1>3. CASE ~ ReturnOnly
  <2>1. PICK child \in Pids :
          /\ fork_child(c, child) /\ kpc' = "user"
          /\ UNCHANGED <<current_process, pipeVars, killVars>>
    BY <1>3 DEF syscall_fork
  <2>2. ASSUME NEW h \in Handles PROVE FdCount(current_process, h) \in Nat
    <3>1. IsFiniteSet({fd \in FDs : filedesc[current_process][fd] = h})
      BY ConstantFacts, FS_Subset
    <3> QED
      BY <3>1, FS_CardinalityType DEF FdCount
  <2>3. refcount' \in [Handles -> Nat]
    BY <2>1, <2>2 DEF TypeInv, TypeOK, fork_child
  <2>4. lists' \in Lists
    <3> DEFINE L == [lists EXCEPT !.next[child] = NULL, !.prev[child] = NULL]
    <3>1. L \in Lists
      BY DEF TypeInv, TypeOK, Lists
    <3> QED
      BY <2>1, <3>1, ListAddType DEF fork_child, ListNames
  <2>5. filedesc' \in [Pids -> [FDs -> Handles \cup {NullHandle}]]
    BY <1>1, <2>1 DEF TypeInv, TypeOK, fork_child
  <2>6. waiting_on' \in [Pids -> Pids \cup {NONE, NULL}]
    BY <2>1 DEF TypeInv, TypeOK, fork_child, NULL
  <2>7. mailbox_size' \in [Pids -> 0 .. MAILBOX_ALLOC]
    BY <2>1, KernelAssumption DEF TypeInv, TypeOK, fork_child
  <2>8. /\ exists' \subseteq Pids /\ exited' \subseteq Pids /\ ready' \subseteq Pids
        /\ receive_blocked' \subseteq Pids
        /\ parent_pid' \in [Pids -> Pids \cup {NONE, NULL}]
        /\ in_syscall' \in [Pids -> Calls \cup {NoCall}]
        /\ mailbox' \in [Pids -> {"null", "live", "freed"}]
    BY <1>1, <2>1 DEF TypeInv, TypeOK, fork_child
  <2> QED
    BY <2>1, <2>3, <2>4, <2>5, <2>6, <2>7, <2>8
    DEF TypeInv, TypeOK, ControlOK, KernelStates, pipeVars, killVars
<1> QED
  BY <1>2, <1>3

LEMMA WaitpidType ==
  ASSUME TypeInv, NEW c \in Calls, syscall_waitpid(c)
  PROVE  TypeInv'
<1> DEFINE pid == c[2]
<1>1. current_process \in Pids
  BY EnteringType DEF syscall_waitpid
<1>2. CASE ReturnOnly
  BY <1>2, ReturnOnlyType
<1>3. CASE Panic
  BY <1>3, PanicType
<1>4. CASE /\ exists' \subseteq exists
           /\ waiting_on' = [waiting_on EXCEPT ![current_process] = NONE]
           /\ Return
           /\ UNCHANGED <<exited, parent_pid, schedVars, fdVars, pipeVars, mailVars, killVars>>
  BY <1>4, ReturnType
  DEF TypeInv, TypeOK, ControlOK, KernelStates, schedVars, fdVars, pipeVars, mailVars, killVars
<1>5. CASE /\ OwnChild(pid)
           /\ waiting_on' = [waiting_on EXCEPT ![current_process] = pid]
           /\ SuspendIn(c)
           /\ UNCHANGED <<exists, exited, parent_pid, current_process, fdVars, pipeVars, mailVars,
                          killVars>>
  <2>1. pid \in Pids
    BY <1>5 DEF OwnChild, TypeInv, TypeOK
  <2> QED
    BY <1>1, <1>5, <2>1, SuspendType
    DEF TypeInv, TypeOK, ControlOK, KernelStates, fdVars, pipeVars, mailVars, killVars
<1> QED
  BY <1>2, <1>3, <1>4, <1>5 DEF syscall_waitpid

LEMMA KillBeginType ==
  ASSUME TypeInv, NEW p \in Pids, KillBegin(p)
  PROVE  /\ current_process' \in Pids \cup {NULL}
         /\ lists' \in Lists
         /\ victim' = p /\ kfd' = 0 /\ heap_fault' \in BOOLEAN /\ kpc' = "close"
BY ListRemoveType DEF TypeInv, TypeOK, KillBegin, ListNames

LEMMA ExitType ==
  ASSUME TypeInv, NEW c \in Calls, syscall_exit(c)
  PROVE  TypeInv'
<1>1. current_process \in Pids
  BY EnteringType DEF syscall_exit
<1> QED
  BY <1>1, KillBeginType, ConstantFacts, KernelAssumption
  DEF syscall_exit, TypeInv, TypeOK, ControlOK, KernelStates, procVars, fdVars, pipeVars, mailVars

LEMMA KillType ==
  ASSUME TypeInv, NEW c \in Calls, syscall_kill(c)
  PROVE  TypeInv'
<1>1. current_process \in Pids
  BY EnteringType DEF syscall_kill
<1>2. CASE c[2] \notin exists
  BY <1>2, ReturnOnlyType DEF syscall_kill
<1>3. CASE c[2] \in exists
  <2>1. c[2] \in Pids
    BY <1>3 DEF TypeInv, TypeOK
  <2>2. /\ KillBegin(c[2])
        /\ in_syscall' = [in_syscall EXCEPT ![current_process] = c]
        /\ UNCHANGED <<procVars, ready, fdVars, pipeVars, mailVars>>
    BY <1>3 DEF syscall_kill
  <2> QED
    BY <1>1, <2>1, <2>2, KillBeginType, ConstantFacts, KernelAssumption
    DEF TypeInv, TypeOK, ControlOK, KernelStates, procVars, fdVars, pipeVars, mailVars
<1> QED
  BY <1>2, <1>3

LEMMA SendType ==
  ASSUME TypeInv, NEW c \in Calls, syscall_send(c)
  PROVE  TypeInv'
<1> DEFINE dest == c[2]
           full == mailbox[dest] # "null" /\ mailbox_size[dest] >= MAILBOX_ALLOC
           wake == dest \in receive_blocked
<1>1. CASE dest \notin exists \/ full
  BY <1>1, ReturnOnlyType DEF syscall_send
<1>2. CASE ~ (dest \notin exists \/ full) /\ wake /\ ~ resume_asserts(dest)
  BY <1>2, PanicType DEF syscall_send
<1>3. CASE ~ (dest \notin exists \/ full) /\ ~ (wake /\ ~ resume_asserts(dest))
  <2>1. dest \in Pids
    BY <1>3 DEF TypeInv, TypeOK
  <2>2. /\ mailbox' = [mailbox EXCEPT ![dest] = IF @ = "null" THEN "live" ELSE @]
        /\ mailbox_size' = [mailbox_size EXCEPT ![dest] =
                              IF mailbox[dest] = "null" THEN 1 ELSE @ + 1]
        /\ heap_fault' = (heap_fault \/ mailbox[dest] = "freed")
        /\ IF wake THEN resume_process(dest) ELSE UNCHANGED <<ready, lists>>
        /\ receive_blocked' = BlockedAfter(dest)
        /\ Return
        /\ UNCHANGED <<procVars, current_process, fdVars, pipeVars, victim, kfd>>
    BY <1>3 DEF syscall_send
  <2>3. mailbox_size' \in [Pids -> 0 .. MAILBOX_ALLOC]
    BY <1>3, <2>1, <2>2, KernelAssumption DEF TypeInv, TypeOK
  <2>4. ready' \subseteq Pids /\ lists' \in Lists
    BY <2>1, <2>2, ResumeType DEF TypeInv, TypeOK
  <2>5. heap_fault' \in BOOLEAN
    BY <2>2
  <2>6. mailbox' \in [Pids -> {"null", "live", "freed"}]
    BY <2>1, <2>2 DEF TypeInv, TypeOK
  <2> QED
    BY <2>2, <2>3, <2>4, <2>5, <2>6, ReturnType
    DEF TypeInv, TypeOK, ControlOK, KernelStates, procVars, fdVars, pipeVars, BlockedAfter
<1> QED
  BY <1>1, <1>2, <1>3

LEMMA ReceiveType ==
  ASSUME TypeInv, NEW c \in Calls, syscall_receive(c)
  PROVE  TypeInv'
<1>1. current_process \in Pids
  BY EnteringType DEF syscall_receive
<1>2. CASE ReturnOnly
  BY <1>2, ReturnOnlyType
<1>3. CASE Panic
  BY <1>3, PanicType
<1>4. CASE /\ mailbox_size[current_process] > 0
           /\ mailbox_size' = [mailbox_size EXCEPT ![current_process] = @ - 1]
           /\ heap_fault' = (heap_fault \/ mailbox[current_process] = "freed")
           /\ Return
           /\ UNCHANGED <<procVars, schedVars, fdVars, pipeVars, mailbox, receive_blocked,
                          victim, kfd>>
  <2>1. mailbox_size' \in [Pids -> 0 .. MAILBOX_ALLOC]
    BY <1>1, <1>4, KernelAssumption DEF TypeInv, TypeOK
  <2>2. heap_fault' \in BOOLEAN
    BY <1>4
  <2> QED
    BY <1>4, <2>1, <2>2, ReturnType
    DEF TypeInv, TypeOK, ControlOK, KernelStates, procVars, schedVars, fdVars, pipeVars
<1>5. CASE /\ receive_blocked' = receive_blocked \cup {current_process}
           /\ SuspendIn(c)
           /\ UNCHANGED <<procVars, current_process, fdVars, pipeVars, mailbox, mailbox_size,
                          killVars>>
  BY <1>1, <1>5, SuspendType
  DEF TypeInv, TypeOK, ControlOK, KernelStates, procVars, fdVars, pipeVars, killVars
<1> QED
  BY <1>2, <1>3, <1>4, <1>5 DEF syscall_receive

LEMMA KillCloseType ==
  ASSUME TypeInv, KillClose
  PROVE  TypeInv'
<1> DEFINE h == filedesc[victim][kfd]
<1>1. victim \in Pids /\ kfd \in FDs /\ h \in Handles \cup {NullHandle}
  BY DEF KillClose, TypeInv, TypeOK, ControlOK
<1>2. CASE h # NullHandle /\ ~ close_asserts(h)
  BY <1>2, PanicType DEF KillClose
<1>3. CASE ~ (h # NullHandle /\ ~ close_asserts(h))
  <2>1. /\ IF h = NullHandle
            THEN UNCHANGED <<ready, lists, refcount, pipeVars>>
            ELSE close_filehandle(h) /\ refcount' = Dropped(h)
        /\ kfd' = kfd + 1
        /\ kpc' = IF kfd + 1 = MAX_FDS THEN "reap" ELSE "close"
        /\ UNCHANGED <<procVars, current_process, filedesc, mailVars, in_syscall, victim,
                       heap_fault>>
    BY <1>3 DEF KillClose
  <2>2. kfd' \in 0 .. MAX_FDS /\ (kfd + 1 # MAX_FDS => kfd' \in FDs)
    BY <1>1, <2>1, KernelAssumption DEF FDs
  <2>3. /\ ready' \subseteq Pids /\ lists' \in Lists
        /\ readpid' \in [AllPipes -> Pids \cup {NONE}]
        /\ reading' \subseteq AllPipes /\ writing' \subseteq AllPipes
        /\ len' \in [AllPipes -> 0 .. MaxLen]
        /\ refcount' \in [Handles -> Nat]
    <3>1. CASE h = NullHandle
      BY <2>1, <3>1 DEF TypeInv, TypeOK, pipeVars
    <3>2. CASE h # NullHandle
      BY <1>1, <1>3, <2>1, <3>2, CloseType DEF TypeInv
    <3> QED
      BY <3>1, <3>2
  <2> QED
    BY <1>1, <2>1, <2>2, <2>3 DEF TypeInv, TypeOK, ControlOK, KernelStates, procVars, mailVars
<1> QED
  BY <1>2, <1>3

LEMMA KillReapType ==
  ASSUME TypeInv, KillReap
  PROVE  TypeInv'
<1> DEFINE parent == parent_pid[victim]
<1>1. victim \in Pids
  BY DEF KillReap, TypeInv, ControlOK
<1>2. CASE ParentWaits /\ ~ resume_asserts(parent)
  BY <1>2, PanicType DEF KillReap
<1>3. CASE ~ (ParentWaits /\ ~ resume_asserts(parent))
  <2>1. /\ heap_fault' = (heap_fault \/ mailbox[victim] = "freed")
        /\ mailbox' = [mailbox EXCEPT ![victim] = IF @ = "null" THEN "null" ELSE "freed"]
        /\ parent_pid' = ParentsAfter
        /\ exists' = IF parent = NONE THEN exists \ {victim} ELSE exists
        /\ IF ParentWaits
           THEN resume_process(parent) /\ waiting_on' = [waiting_on EXCEPT ![parent] = NONE]
           ELSE UNCHANGED <<ready, lists, waiting_on>>
        /\ exited' = exited \cup {victim}
        /\ victim' = NULL
        /\ kfd' = 0
        /\ IF current_process = NULL THEN kpc' = "switch" /\ UNCHANGED in_syscall ELSE Return
        /\ UNCHANGED <<current_process, fdVars, pipeVars, mailbox_size, receive_blocked>>
    BY <1>3 DEF KillReap
  <2>2. /\ ready' \subseteq Pids /\ lists' \in Lists
        /\ waiting_on' \in [Pids -> Pids \cup {NONE, NULL}]
    <3>1. CASE ParentWaits
      <4>1. parent \in Pids
        BY <1>3, <3>1 DEF resume_asserts, TypeInv, TypeOK
      <4> QED
        BY <2>1, <3>1, <4>1, ResumeType DEF TypeInv, TypeOK
    <3>2. CASE ~ ParentWaits
      BY <2>1, <3>2 DEF TypeInv, TypeOK
    <3> QED
      BY <3>1, <3>2
  <2>3. parent_pid' \in [Pids -> Pids \cup {NONE, NULL}]
    BY <2>1 DEF ParentsAfter, TypeInv, TypeOK
  <2>4. kpc' \in {"switch", "user"} /\ in_syscall' \in [Pids -> Calls \cup {NoCall}]
    BY <2>1, ReturnType DEF TypeInv, TypeOK
  <2>5. heap_fault' \in BOOLEAN
    BY <2>1
  <2>6. mailbox' \in [Pids -> {"null", "live", "freed"}]
    BY <1>1, <2>1 DEF TypeInv, TypeOK
  <2>7. exists' \subseteq Pids /\ exited' \subseteq Pids
    BY <1>1, <2>1 DEF TypeInv, TypeOK
  <2>8. kfd' \in 0 .. MAX_FDS
    BY <2>1, KernelAssumption
  <2> QED
    BY <2>1, <2>2, <2>3, <2>4, <2>5, <2>6, <2>7, <2>8
    DEF TypeInv, TypeOK, ControlOK, KernelStates, fdVars, pipeVars
<1> QED
  BY <1>2, <1>3

-----------------------------------------------------------------------------
(* Interrupts.                                                             *)

LEMMA SwitchType ==
  ASSUME TypeInv, context_switch
  PROVE  TypeInv'
<1>1. NextProcess \in Pids \cup {NULL}
  BY DEF NextProcess, TypeInv, TypeOK, Lists, ListNames
<1> QED
  BY <1>1
  DEF context_switch, TypeInv, TypeOK, ControlOK, KernelStates, procVars, fdVars, pipeVars,
      mailVars, killVars

LEMMA KeyboardType ==
  ASSUME TypeInv, keyboard_handler
  PROVE  TypeInv'
<1>1. CASE ~ wake_asserts(StdinPipe)
  BY <1>1, PanicType DEF keyboard_handler
<1>2. CASE wake_asserts(StdinPipe)
  <2>1. StdinPipe \in AllPipes
    BY DEF AllPipes
  <2> QED
    BY <1>2, <2>1, WriteToPipeType
    DEF keyboard_handler, TypeInv, TypeOK, ControlOK, KernelStates, procVars, fdVars, mailVars,
        killVars
<1> QED
  BY <1>1, <1>2

LEMMA FaultType ==
  ASSUME TypeInv, page_fault
  PROVE  TypeInv'
<1>1. current_process \in Pids
  BY DEF page_fault, TypeInv, TypeOK
<1> QED
  BY <1>1, KillBeginType, ConstantFacts, KernelAssumption
  DEF page_fault, TypeInv, TypeOK, ControlOK, KernelStates, procVars, fdVars, pipeVars, mailVars

LEMMA HaltType ==
  ASSUME TypeInv,
         kpc' = "halt",
         UNCHANGED <<procVars, schedVars, fdVars, pipeVars, mailVars, killVars, in_syscall>>
  PROVE  TypeInv'
BY DEF TypeInv, TypeOK, ControlOK, KernelStates, procVars, schedVars, fdVars, pipeVars,
       mailVars, killVars

LEMMA SyscallType ==
  ASSUME TypeInv, NEW c \in Calls, syscall(c)
  PROVE  TypeInv'
<1>1. CASE syscall_getpid(c) \/ InvalidArgument(c)
  BY <1>1, ReturnOnlyType DEF syscall_getpid, InvalidArgument
<1>2. CASE syscall_halt(c)
  BY <1>2, HaltType DEF syscall_halt
<1> QED
  BY <1>1, <1>2, ExitType, WriteType, ReadType, SendType, ReceiveType, CloseCallType, PipeType,
     Dup2Type, ForkType, WaitpidType, KillType DEF syscall

-----------------------------------------------------------------------------
(* The kernel starts in a well-typed state.                                *)
LEMMA InitType == Init => TypeInv
<1> SUFFICES ASSUME Init PROVE TypeInv
  OBVIOUS
<1>1. filedesc \in [Pids -> [FDs -> Handles \cup {NullHandle}]]
  <2>1. ASSUME NEW fd \in FDs, ~ (fd > 2), fd # 0
        PROVE  Screen(fd) \in Handles
    BY <2>1, ConstantFacts DEF Screen, Handles, ScreenHandles
  <2>2. ReaderOf(StdinPipe) \in Handles
    BY EndsAreHandles DEF AllPipes
  <2> QED
    BY <2>1, <2>2 DEF Init, StdHandle
<1>2. lists \in Lists
  BY ConstantFacts DEF Init, Lists
<1>3. refcount \in [Handles -> Nat]
  BY DEF Init
<1>4. mailbox_size \in [Pids -> 0 .. MAILBOX_ALLOC] /\ len \in [AllPipes -> 0 .. MaxLen]
      /\ kfd \in 0 .. MAX_FDS
  BY KernelAssumption DEF Init
<1>5. parent_pid \in [Pids -> Pids \cup {NONE, NULL}] /\ waiting_on \in [Pids -> Pids \cup {NONE, NULL}]
  BY DEF Init, NULL
<1>6. reading \subseteq AllPipes /\ writing \subseteq AllPipes
  BY DEF Init, AllPipes
<1> QED
  BY <1>1, <1>2, <1>3, <1>4, <1>5, <1>6, ConstantFacts
  DEF Init, TypeInv, TypeOK, ControlOK, KernelStates

(* Every step of the kernel preserves types.                               *)
LEMMA NextType == TypeInv /\ [Next]_vars => TypeInv'
<1> SUFFICES ASSUME TypeInv, [Next]_vars PROVE TypeInv'
  OBVIOUS
<1>1. CASE timer_handler \/ SwitchAway
  BY <1>1, SwitchType DEF timer_handler, SwitchAway
<1>2. CASE UserCall \/ RestartCall
  BY <1>2, SyscallType DEF UserCall, RestartCall
<1>3. CASE other_exception
  BY <1>3, HaltType DEF other_exception
<1>4. CASE UNCHANGED vars
  BY <1>4
  DEF vars, TypeInv, TypeOK, ControlOK, procVars, schedVars, fdVars, pipeVars, mailVars, killVars
<1> QED
  BY <1>1, <1>2, <1>3, <1>4, KeyboardType, FaultType, KillCloseType, KillReapType
  DEF Next, Stopped

(* Every field of the process table, every list pointer, reference count,  *)
(* pipe and mailbox counter of the kernel stays within its range: no count *)
(* goes negative, no mailbox or descriptor index leaves its array.         *)
THEOREM TypeCorrect == Spec => []TypeOK
<1>1. TypeInv => TypeOK
  BY DEF TypeInv
<1> QED
  BY <1>1, InitType, NextType, PTL DEF Spec

-----------------------------------------------------------------------------
(* The list macros on one list M, on the other list N, and on processes    *)
(* that are on neither.                                                    *)

LEMMA RemoveOwn ==
  ASSUME NEW L \in Lists, NEW ll \in ListNames, NEW M \in SUBSET Pids, NEW p \in M,
         Linked(L, ll, M)
  PROVE  Linked(list_remove(L, ll, p), ll, M \ {p})
<1> DEFINE K == list_remove(L, ll, p)
<1>0. NULL \notin M /\ p \in Pids
  BY ConstantFacts
<1>1. /\ K.first[ll] = IF L.first[ll] = p THEN L.next[p] ELSE L.first[ll]
      /\ K.last[ll] = IF L.last[ll] = p THEN L.prev[p] ELSE L.last[ll]
      /\ \A q \in Pids : /\ K.next[q] = IF q = p THEN NULL
                                        ELSE IF q = L.prev[p] THEN L.next[p] ELSE L.next[q]
                         /\ K.prev[q] = IF q = p THEN NULL
                                        ELSE IF q = L.next[p] THEN L.prev[p] ELSE L.prev[q]
  BY DEF list_remove, Lists
<1> HIDE DEF K
<1>2. /\ K.first[ll] \in (M \ {p}) \cup {NULL} /\ K.last[ll] \in (M \ {p}) \cup {NULL}
      /\ K.first[ll] = NULL <=> K.last[ll] = NULL
  BY <1>0, <1>1 DEF Linked
<1>3. ASSUME NEW q \in M \ {p}
      PROVE  /\ K.next[q] \in (M \ {p}) \cup {NULL} /\ K.prev[q] \in (M \ {p}) \cup {NULL}
             /\ K.prev[q] = NULL <=> K.first[ll] = q
             /\ K.next[q] = NULL <=> K.last[ll] = q
             /\ K.next[q] # NULL => K.prev[K.next[q]] = q
             /\ K.prev[q] # NULL => K.next[K.prev[q]] = q
  BY <1>0, <1>1 DEF Linked
<1> QED
  BY <1>2, <1>3 DEF Linked, K

LEMMA RemoveOther ==
  ASSUME NEW L \in Lists, NEW ll \in ListNames, NEW kk \in ListNames, ll # kk,
         NEW M \in SUBSET Pids, NEW N \in SUBSET Pids, M \cap N = {}, NEW p \in M,
         Linked(L, ll, M), Linked(L, kk, N)
  PROVE  Linked(list_remove(L, ll, p), kk, N)
<1> DEFINE K == list_remove(L, ll, p)
<1>a. L.next[p] \in M \cup {NULL} /\ L.prev[p] \in M \cup {NULL}
  BY DEF Linked
<1>0. NULL \notin N /\ p \in Pids /\ L.next[p] \notin N /\ L.prev[p] \notin N /\ p \notin N
  BY <1>a, ConstantFacts
<1>1. /\ K.first[kk] = L.first[kk] /\ K.last[kk] = L.last[kk]
      /\ \A q \in N : K.next[q] = L.next[q] /\ K.prev[q] = L.prev[q]
  BY <1>0 DEF list_remove, Lists
<1> HIDE DEF K
<1>2. Linked(K, kk, N)
  BY <1>0, <1>1 DEF Linked
<1> QED
  BY <1>2 DEF K

LEMMA RemoveOff ==
  ASSUME NEW L \in Lists, NEW ll \in ListNames, NEW M \in SUBSET Pids, NEW p \in M,
         Linked(L, ll, M), NEW q \in Pids,
         q = p \/ (q \notin M /\ L.next[q] = NULL /\ L.prev[q] = NULL)
  PROVE  list_remove(L, ll, p).next[q] = NULL /\ list_remove(L, ll, p).prev[q] = NULL
<1>1. NULL # q /\ (q # p => L.prev[p] # q /\ L.next[p] # q)
  BY ConstantFacts DEF Linked
<1> QED
  BY <1>1 DEF list_remove

LEMMA AddOwn ==
  ASSUME NEW L \in Lists, NEW ll \in ListNames, NEW M \in SUBSET Pids, NEW p \in Pids \ M,
         L.next[p] = NULL, L.prev[p] = NULL, Linked(L, ll, M)
  PROVE  Linked(list_add(L, ll, p), ll, M \cup {p})
<1> DEFINE K == list_add(L, ll, p)
           f == L.first[ll]
<1>0. NULL \notin M /\ p # NULL /\ f \in M \cup {NULL} /\ (f # NULL => f \in Pids)
  BY ConstantFacts DEF Linked
<1>1. CASE f # NULL
  <2>1. /\ K.first[ll] = p /\ K.last[ll] = L.last[ll]
        /\ \A q \in Pids : /\ K.next[q] = IF q = p THEN f ELSE L.next[q]
                           /\ K.prev[q] = IF q = f THEN p ELSE L.prev[q]
    BY <1>0, <1>1 DEF list_add, Lists
  <2> HIDE DEF K
  <2>2. ASSUME NEW q \in M \cup {p}
        PROVE  /\ K.next[q] \in (M \cup {p}) \cup {NULL} /\ K.prev[q] \in (M \cup {p}) \cup {NULL}
               /\ K.prev[q] = NULL <=> K.first[ll] = q
               /\ K.next[q] = NULL <=> K.last[ll] = q
               /\ K.next[q] # NULL => K.prev[K.next[q]] = q
               /\ K.prev[q] # NULL => K.next[K.prev[q]] = q
    BY <1>0, <1>1, <2>1 DEF Linked
  <2>3. /\ K.first[ll] \in (M \cup {p}) \cup {NULL} /\ K.last[ll] \in (M \cup {p}) \cup {NULL}
        /\ K.first[ll] = NULL <=> K.last[ll] = NULL
    BY <1>0, <1>1, <2>1 DEF Linked
  <2> QED
    BY <2>2, <2>3 DEF Linked, K
<1>2. CASE f = NULL
  <2>1. /\ K.first[ll] = p /\ K.last[ll] = p
        /\ \A q \in Pids : K.next[q] = L.next[q] /\ K.prev[q] = L.prev[q]
    BY <1>0, <1>2 DEF list_add, Lists
  <2> HIDE DEF K
  <2>2. Linked(K, ll, M \cup {p})
    BY <1>0, <1>2, <2>1 DEF Linked
  <2> QED
    BY <2>2 DEF K
<1> QED
  BY <1>1, <1>2

LEMMA AddOther ==
  ASSUME NEW L \in Lists, NEW ll \in ListNames, NEW kk \in ListNames, ll # kk,
         NEW M \in SUBSET Pids, NEW N \in SUBSET Pids, M \cap N = {},
         NEW p \in Pids \ N, Linked(L, ll, M), Linked(L, kk, N)
  PROVE  Linked(list_add(L, ll, p), kk, N)
<1> DEFINE K == list_add(L, ll, p)
<1>a. L.first[ll] \in M \cup {NULL}
  BY DEF Linked
<1>0. NULL \notin N /\ L.first[ll] \notin N
  BY <1>a, ConstantFacts
<1>1. /\ K.first[kk] = L.first[kk] /\ K.last[kk] = L.last[kk]
      /\ \A q \in N : K.next[q] = L.next[q] /\ K.prev[q] = L.prev[q]
  BY <1>0 DEF list_add, Lists
<1> HIDE DEF K
<1>2. Linked(K, kk, N)
  BY <1>0, <1>1 DEF Linked
<1> QED
  BY <1>2 DEF K

LEMMA AddOff ==
  ASSUME NEW L \in Lists, NEW ll \in ListNames, NEW M \in SUBSET Pids, NEW p \in Pids,
         Linked(L, ll, M), NEW q \in Pids \ M, q # p, L.next[q] = NULL, L.prev[q] = NULL
  PROVE  list_add(L, ll, p).next[q] = NULL /\ list_add(L, ll, p).prev[q] = NULL
<1>1. L.first[ll] # q
  BY ConstantFacts DEF Linked
<1> QED
  BY <1>1 DEF list_add, Lists

-----------------------------------------------------------------------------
(* The list macros make no circle.                                         *)

(* Whoever pointed at p now points at what p pointed at: a set that this   *)
(* closes would be closed before, alone or with p.                         *)
LEMMA RemoveNoCircle ==
  ASSUME NEW L \in Lists, NEW ll \in ListNames, NEW M \in SUBSET Pids, NEW p \in M,
         Linked(L, ll, M), NoCircle(L),
         \A q \in Pids : L.next[q] = p => q = L.prev[p]
  PROVE  NoCircle(list_remove(L, ll, p))
<1> DEFINE K == list_remove(L, ll, p)
<1>0. NULL \notin Pids /\ p \in Pids
  BY ConstantFacts
<1>1. \A q \in Pids : K.next[q] = IF q = p THEN NULL
                                  ELSE IF q = L.prev[p] THEN L.next[p] ELSE L.next[q]
  BY DEF list_remove, Lists
<1> HIDE DEF K
<1>2. SUFFICES ASSUME NEW U \in SUBSET Pids, U # {}
               PROVE  \E q \in U : K.next[q] \notin U
  BY DEF NoCircle, K
<1>3. CASE p \in U
  BY <1>0, <1>1, <1>3
<1>4. CASE p \notin U
  <2>1. PICK x \in U : L.next[x] \notin U
    BY <1>2 DEF NoCircle
  <2>2. CASE L.next[x] # p \/ x # L.prev[p]
    <3>1. x # L.prev[p]
      BY <1>0, <2>2 DEF Linked
    <3> QED
      BY <1>1, <1>4, <2>1, <3>1
  <2>3. CASE L.next[x] = p /\ x = L.prev[p]
    <3>1. U \cup {p} \in SUBSET Pids /\ U \cup {p} # {}
      BY <1>0
    <3>2. PICK y \in U \cup {p} : L.next[y] \notin U \cup {p}
      BY <3>1 DEF NoCircle
    <3>3. CASE y = p
      BY <1>1, <1>4, <2>3, <3>2, <3>3
    <3>4. CASE y # p
      BY <1>1, <1>4, <2>3, <3>2, <3>4
    <3> QED
      BY <3>3, <3>4
  <2> QED
    BY <2>2, <2>3
<1> QED
  BY <1>3, <1>4

(* Nobody points at a process that is being added.                         *)
LEMMA AddNoCircle ==
  ASSUME NEW L \in Lists, NEW ll \in ListNames, NEW p \in Pids, NoCircle(L),
         L.first[ll] # p, \A q \in Pids : L.next[q] # p
  PROVE  NoCircle(list_add(L, ll, p))
<1> DEFINE K == list_add(L, ll, p)
<1>1. \A q \in Pids : q # p => K.next[q] = L.next[q]
  BY DEF list_add, Lists
<1>2. K.next[p] # p
  BY DEF list_add, Lists
<1> HIDE DEF K
<1>3. SUFFICES ASSUME NEW U \in SUBSET Pids, U # {}
               PROVE  \E q \in U : K.next[q] \notin U
  BY DEF NoCircle, K
<1>4. CASE U = {p}
  BY <1>2, <1>4
<1>5. CASE U # {p}
  <2>1. U \ {p} \in SUBSET Pids /\ U \ {p} # {}
    BY <1>3, <1>5
  <2>2. PICK x \in U \ {p} : L.next[x] \notin U \ {p}
    BY <2>1 DEF NoCircle
  <2> QED
    BY <1>1, <2>2
<1> QED
  BY <1>4, <1>5

(* Only a process of p's list points at p, and nobody at one that is on    *)
(* neither list.                                                           *)
LEMMA PointersAt ==
  ASSUME NEW L \in Lists, NEW R \in SUBSET Pids, NEW S \in SUBSET Pids, R \cap S = {},
         TwoLists(L, R, S), NEW p \in Pids, NEW q \in Pids, L.next[q] = p
  PROVE  q = L.prev[p] /\ p \in R \cup S
<1>1. NULL # p
  BY ConstantFacts
<1>2. q \in R \cup S
  BY <1>1 DEF TwoLists
<1>3. CASE q \in R
  BY <1>1, <1>3 DEF TwoLists, Linked
<1>4. CASE q \in S
  BY <1>1, <1>4 DEF TwoLists, Linked
<1> QED
  BY <1>2, <1>3, <1>4

-----------------------------------------------------------------------------
(* The same for the pair of lists.                                         *)

LEMMA LinkedSame ==
  ASSUME NEW L, NEW K, NEW ll, NEW M \in SUBSET Pids,
         K.first = L.first, K.last = L.last,
         \A q \in M : K.next[q] = L.next[q] /\ K.prev[q] = L.prev[q],
         Linked(L, ll, M)
  PROVE  Linked(K, ll, M)
<1>1. NULL \notin M
  BY ConstantFacts
<1> QED
  BY <1>1 DEF Linked

LEMMA RemoveReady ==
  ASSUME NEW L \in Lists, NEW R \in SUBSET Pids, NEW S \in SUBSET Pids, R \cap S = {},
         TwoLists(L, R, S), NEW p \in R
  PROVE  TwoLists(list_remove(L, "ready", p), R \ {p}, S)
<1>1. "ready" \in ListNames /\ "suspended" \in ListNames
  BY DEF ListNames
<1>2. NoCircle(list_remove(L, "ready", p))
  BY <1>1, RemoveNoCircle, PointersAt DEF TwoLists
<1> QED
  BY <1>1, <1>2, RemoveOwn, RemoveOther, RemoveOff DEF TwoLists

LEMMA RemoveSuspended ==
  ASSUME NEW L \in Lists, NEW R \in SUBSET Pids, NEW S \in SUBSET Pids, R \cap S = {},
         TwoLists(L, R, S), NEW p \in S
  PROVE  TwoLists(list_remove(L, "suspended", p), R, S \ {p})
<1>1. "ready" \in ListNames /\ "suspended" \in ListNames
  BY DEF ListNames
<1>2. NoCircle(list_remove(L, "suspended", p))
  BY <1>1, RemoveNoCircle, PointersAt DEF TwoLists
<1> QED
  BY <1>1, <1>2, RemoveOwn, RemoveOther, RemoveOff DEF TwoLists

LEMMA AddReady ==
  ASSUME NEW L \in Lists, NEW R \in SUBSET Pids, NEW S \in SUBSET Pids, R \cap S = {},
         TwoLists(L, R, S), NEW p \in Pids \ (R \cup S)
  PROVE  TwoLists(list_add(L, "ready", p), R \cup {p}, S)
<1>1. "ready" \in ListNames /\ "suspended" \in ListNames
  BY DEF ListNames
<1>2. L.first["ready"] # p /\ \A q \in Pids : L.next[q] # p
  BY PointersAt, ConstantFacts DEF TwoLists, Linked
<1>3. NoCircle(list_add(L, "ready", p))
  BY <1>1, <1>2, AddNoCircle DEF TwoLists
<1> QED
  BY <1>1, <1>3, AddOwn, AddOther, AddOff DEF TwoLists

LEMMA AddSuspended ==
  ASSUME NEW L \in Lists, NEW R \in SUBSET Pids, NEW S \in SUBSET Pids, R \cap S = {},
         TwoLists(L, R, S), NEW p \in Pids \ (R \cup S)
  PROVE  TwoLists(list_add(L, "suspended", p), R, S \cup {p})
<1>1. "ready" \in ListNames /\ "suspended" \in ListNames
  BY DEF ListNames
<1>2. L.first["suspended"] # p /\ \A q \in Pids : L.next[q] # p
  BY PointersAt, ConstantFacts DEF TwoLists, Linked
<1>3. NoCircle(list_add(L, "suspended", p))
  BY <1>1, <1>2, AddNoCircle DEF TwoLists
<1> QED
  BY <1>1, <1>3, AddOwn, AddOther, AddOff DEF TwoLists

-----------------------------------------------------------------------------
(* Suspending and resuming a process moves it from one list to the other.  *)

Inv == TypeInv /\ SchedulerInv

LEMMA LiveFacts ==
  ASSUME Inv
  PROVE  /\ Live \subseteq Pids /\ lists \in Lists
         /\ Live \cap ready \in SUBSET Pids /\ Live \ ready \in SUBSET Pids
         /\ (Live \cap ready) \cap (Live \ ready) = {}
         /\ TwoLists(lists, Live \cap ready, Live \ ready)
BY DEF Inv, TypeInv, TypeOK, SchedulerInv, ListsInv, Live

LEMMA ResumeLists ==
  ASSUME Inv, NEW p \in Live \ ready, resume_process(p), Live' = Live
  PROVE  ListsInv'
<1> DEFINE R == Live \cap ready
           S == Live \ ready
           K == list_remove(lists, "suspended", p)
<1>1. R \in SUBSET Pids /\ S \in SUBSET Pids /\ R \cap S = {} /\ p \in S /\ p \in Pids
  BY LiveFacts
<1>2. TwoLists(K, R, S \ {p}) /\ K \in Lists
  BY <1>1, LiveFacts, RemoveSuspended, ListRemoveType DEF ListNames
<1>3. S \ {p} \in SUBSET Pids /\ R \cap (S \ {p}) = {} /\ p \in Pids \ (R \cup (S \ {p}))
  BY <1>1
<1>4. TwoLists(list_add(K, "ready", p), R \cup {p}, S \ {p})
  BY <1>1, <1>2, <1>3, AddReady
<1>5. Live' \cap ready' = R \cup {p} /\ Live' \ ready' = S \ {p}
  BY DEF resume_process
<1> QED
  BY <1>4, <1>5 DEF ListsInv, resume_process

LEMMA SuspendLists ==
  ASSUME Inv, NEW p \in Live \cap ready, suspend_process(p), Live' = Live
  PROVE  ListsInv'
<1> DEFINE R == Live \cap ready
           S == Live \ ready
           K == list_remove(lists, "ready", p)
<1>1. R \in SUBSET Pids /\ S \in SUBSET Pids /\ R \cap S = {} /\ p \in R /\ p \in Pids
  BY LiveFacts
<1>2. TwoLists(K, R \ {p}, S) /\ K \in Lists
  BY <1>1, LiveFacts, RemoveReady, ListRemoveType DEF ListNames
<1>3. R \ {p} \in SUBSET Pids /\ (R \ {p}) \cap S = {} /\ p \in Pids \ ((R \ {p}) \cup S)
  BY <1>1
<1>4. TwoLists(list_add(K, "suspended", p), R \ {p}, S \cup {p})
  BY <1>1, <1>2, <1>3, AddSuspended
<1>5. Live' \cap ready' = R \ {p} /\ Live' \ ready' = S \cup {p}
  BY DEF suspend_process
<1> QED
  BY <1>4, <1>5 DEF ListsInv, suspend_process

(* What a wakeup leaves true: those still registered are still suspended.  *)
Woken ==
  /\ ListsInv'
  /\ ready \subseteq ready'
  /\ \A x \in AllPipes : /\ readpid'[x] \in {NONE, readpid[x]}
                         /\ readpid'[x] # NONE => readpid[x] \notin ready'
  /\ \A p \in Live \cap receive_blocked : p \notin ready'

LEMMA WakeWoken ==
  ASSUME Inv, NEW b \in AllPipes, wake_up_reader(b), Live' = Live
  PROVE  Woken
<1>1. CASE readpid[b] = NONE
  BY <1>1 DEF wake_up_reader, Woken, Inv, SchedulerInv, ListsInv, WaitersInv
<1>2. CASE readpid[b] # NONE
  <2>1. /\ readpid[b] \in Live \ ready /\ in_syscall[readpid[b]][1] = "read"
        /\ resume_process(readpid[b]) /\ readpid' = [readpid EXCEPT ![b] = NONE]
    BY <1>2 DEF wake_up_reader, Inv, SchedulerInv, WaitersInv
  <2>2. ListsInv'
    BY <2>1, ResumeLists
  <2>3. ready' = ready \cup {readpid[b]}
    BY <2>1 DEF resume_process
  <2>4. ASSUME NEW x \in AllPipes
        PROVE  /\ readpid'[x] \in {NONE, readpid[x]}
               /\ readpid'[x] # NONE => readpid[x] \notin ready'
    BY <1>2, <2>1, <2>3 DEF Inv, SchedulerInv, WaitersInv, TypeInv, TypeOK
  <2>5. \A p \in Live \cap receive_blocked : p \notin ready'
    BY <2>1, <2>3 DEF Inv, SchedulerInv, WaitersInv
  <2> QED
    BY <2>2, <2>3, <2>4, <2>5 DEF Woken
<1> QED
  BY <1>1, <1>2

LEMMA CloseWoken ==
  ASSUME Inv, NEW h \in Handles, close_filehandle(h), Live' = Live
  PROVE  Woken
<1>1. CASE refcount[h] = 1 /\ h.type = "writer"
  BY <1>1, HandleFacts, WakeWoken DEF close_filehandle
<1>2. CASE ~ (refcount[h] = 1 /\ h.type = "writer")
  <2>1. UNCHANGED <<ready, lists, readpid>>
    BY <1>2 DEF close_filehandle
  <2> QED
    BY <2>1 DEF Woken, Inv, SchedulerInv, ListsInv, WaitersInv
<1> QED
  BY <1>1, <1>2

-----------------------------------------------------------------------------
(* The ways a call or an interrupt can leave the kernel.                   *)

(* A process that enters a call is live and ready, and nobody is being     *)
(* killed; a call that is entered again is one that blocks.                *)
LEMMA EnteringInv ==
  ASSUME Inv, NEW c \in Calls, Entering(c)
  PROVE  /\ current_process \in Live \cap ready /\ current_process \in Pids
         /\ victim = NULL /\ Live = exists \ exited
         /\ kpc = "restart" => c[1] \in BlockingCalls
<1>1. current_process \in Pids
  BY EnteringType DEF Inv
<1>2. kpc \in {"user", "restart"}
  BY DEF Entering
<1>3. current_process \in Live \cap ready /\ victim = NULL
  BY <1>1, <1>2, ConstantFacts DEF Inv, SchedulerInv, RunsLiveProcess, VictimInv
<1>4. Live = exists \ exited
  BY <1>3, ConstantFacts DEF Live, Inv, TypeInv, TypeOK
<1>5. ASSUME kpc = "restart" PROVE c[1] \in BlockingCalls
  <2>1. c = in_syscall[current_process]
    BY <1>5 DEF Entering
  <2>2. c[1] \in CallNames
    BY CallFacts
  <2> QED
    BY <1>3, <1>5, <2>1, <2>2 DEF Inv, SchedulerInv, CallsInv, CallNames
<1> QED
  BY <1>1, <1>3, <1>4, <1>5

(* A call that returns, having woken at most those who were suspended.     *)
LEMMA ReturnInv ==
  ASSUME Inv, NEW c \in Calls, Entering(c), Woken, Return,
         (exists \ exited)' = exists \ exited,
         UNCHANGED <<parent_pid, current_process, receive_blocked, victim>>
  PROVE  SchedulerInv'
<1> USE EnteringInv DEF Return
<1>1. current_process \in Live \cap ready /\ current_process \in Pids /\ victim' = NULL
      /\ Live' = Live /\ Live = exists \ exited
  BY DEF Live
<1>2. RunsLiveProcess'
  BY <1>1 DEF Woken, RunsLiveProcess
<1>3. \A p \in Pids : p # current_process => in_syscall'[p] = in_syscall[p]
  BY DEF Inv, TypeInv, TypeOK
<1>4. WaitersInv'
  BY <1>1, <1>3, ConstantFacts DEF Woken, WaitersInv, Inv, SchedulerInv, TypeInv, TypeOK
<1>5. VictimInv'
  BY <1>1 DEF VictimInv
<1>6. ParentsInv'
  BY DEF ParentsInv, Inv, SchedulerInv
<1>7. CallsInv'
  <2>1. in_syscall'[current_process][1] = "none"
    BY <1>1 DEF NoCall, Inv, TypeInv, TypeOK
  <2>2. kpc \in {"user", "restart"}
    BY DEF Entering
  <2> QED
    BY <1>1, <1>3, <2>1, <2>2, LiveFacts DEF CallsInv, Inv, SchedulerInv
<1> QED
  BY <1>2, <1>4, <1>5, <1>6, <1>7 DEF Woken, SchedulerInv

LEMMA UnchangedWoken ==
  ASSUME Inv, UNCHANGED <<ready, lists, readpid>>, Live' = Live
  PROVE  Woken
BY DEF Woken, Inv, SchedulerInv, ListsInv, WaitersInv

LEMMA ReturnOnlyInv ==
  ASSUME Inv, NEW c \in Calls, Entering(c), ReturnOnly
  PROVE  SchedulerInv'
<1>1. /\ Return
      /\ UNCHANGED <<exists, exited, parent_pid, ready, lists, readpid, current_process,
                     receive_blocked, victim>>
  BY DEF ReturnOnly, procVars, schedVars, pipeVars, mailVars, killVars
<1>2. Live' = Live /\ (exists \ exited)' = exists \ exited
  BY <1>1 DEF Live
<1> QED
  BY <1>1, <1>2, UnchangedWoken, ReturnInv

LEMMA StopInv ==
  ASSUME Inv, kpc # "switch", kpc' \in {"panic", "halt"}, kpc' = "halt" => kpc = "user",
         UNCHANGED <<procVars, schedVars, fdVars, pipeVars, mailVars, killVars, in_syscall>>
  PROVE  SchedulerInv'
<1>1. UNCHANGED <<exists, exited, parent_pid, ready, lists, readpid, current_process,
                  receive_blocked, victim, in_syscall>>
  BY DEF procVars, schedVars, pipeVars, mailVars, killVars
<1>2. Live' = Live
  BY <1>1 DEF Live
<1> QED
  BY <1>1, <1>2 DEF Inv, SchedulerInv, ListsInv, RunsLiveProcess, WaitersInv, VictimInv,
                    ParentsInv, CallsInv

LEMMA PanicInv ==
  ASSUME Inv, NEW c \in Calls, Entering(c), Panic
  PROVE  SchedulerInv'
<1>1. kpc # "switch"
  BY DEF Entering
<1> QED
  BY <1>1, StopInv DEF Panic

(* A call that suspends its caller. The caller may register as one pipe's  *)
(* reader, or as blocked in receive.                                       *)
LEMMA SuspendInv ==
  ASSUME Inv, NEW c \in Calls, Entering(c), SuspendIn(c), c[1] \in BlockingCalls,
         UNCHANGED <<exists, exited, parent_pid, current_process, victim>>,
         \/ UNCHANGED <<readpid, receive_blocked>>
         \/ /\ c[1] = "read" /\ UNCHANGED receive_blocked
            /\ \E b \in AllPipes : readpid' = [readpid EXCEPT ![b] = current_process]
         \/ /\ c[1] = "receive" /\ UNCHANGED readpid
            /\ receive_blocked' = receive_blocked \cup {current_process}
  PROVE  SchedulerInv'
<1> DEFINE p == current_process
<1>1. p \in Live \cap ready /\ p \in Pids /\ victim' = NULL /\ kpc' = "switch"
      /\ Live' = Live /\ Live \subseteq Pids /\ ready' = ready \ {p}
  BY EnteringInv, LiveFacts DEF Live, SuspendIn, suspend_process
<1>2. ListsInv'
  BY <1>1, SuspendLists DEF SuspendIn
<1>3. RunsLiveProcess'
  BY <1>1 DEF RunsLiveProcess
<1>4. \A q \in Pids : in_syscall'[q] = IF q = p THEN c ELSE in_syscall[q]
  BY DEF Inv, TypeInv, TypeOK, SuspendIn
<1>5. WaitersInv'
  <2>1. ASSUME NEW x \in AllPipes, readpid'[x] # NONE
        PROVE  readpid'[x] \in Live' \ ready' /\ in_syscall'[readpid'[x]][1] = "read"
    BY <1>1, <1>4, <2>1 DEF WaitersInv, Inv, SchedulerInv, TypeInv, TypeOK
  <2>2. ASSUME NEW x \in AllPipes, NEW y \in AllPipes,
               readpid'[x] = readpid'[y], readpid'[x] # NONE
        PROVE  x = y
    BY <1>1, <2>2 DEF WaitersInv, Inv, SchedulerInv, TypeInv, TypeOK
  <2>3. ASSUME NEW q \in Live' \cap receive_blocked'
        PROVE  q \notin ready' /\ in_syscall'[q][1] = "receive"
    BY <1>1, <1>4, <2>3 DEF WaitersInv, Inv, SchedulerInv, TypeInv, TypeOK
  <2> QED
    BY <2>1, <2>2, <2>3 DEF WaitersInv
<1>6. VictimInv'
  BY <1>1 DEF VictimInv
<1>7. ParentsInv'
  BY DEF ParentsInv, Inv, SchedulerInv
<1>8. CallsInv'
  BY <1>1, <1>4 DEF CallsInv, Inv, SchedulerInv, Entering
<1> QED
  BY <1>2, <1>3, <1>5, <1>6, <1>7, <1>8 DEF SchedulerInv

-----------------------------------------------------------------------------
(* The system calls.                                                       *)

LEMMA WriteInv ==
  ASSUME Inv, NEW c \in Calls, syscall_write(c)
  PROVE  SchedulerInv'
<1> DEFINE h == HandleAt(c[2])
<1>0. Entering(c)
  BY DEF syscall_write
<1>1. CASE h.type # "writer"
  BY <1>0, <1>1, ReturnOnlyInv DEF syscall_write
<1>2. CASE h.type = "writer" /\ ~ wake_asserts(h.p)
  BY <1>0, <1>2, PanicInv DEF syscall_write
<1>3. CASE h.type = "writer" /\ wake_asserts(h.p)
  <2>1. h.p \in AllPipes
    BY <1>0, <1>3, EnteringType, PipeEndType DEF Inv, TypeInv
  <2>2. /\ wake_up_reader(h.p) /\ Return
        /\ UNCHANGED <<exists, exited, parent_pid, current_process, receive_blocked, victim>>
    BY <1>3 DEF syscall_write, write_to_pipe, procVars, mailVars, killVars
  <2>3. Live' = Live /\ (exists \ exited)' = exists \ exited
    BY <2>2 DEF Live
  <2> QED
    BY <1>0, <2>1, <2>2, <2>3, WakeWoken, ReturnInv
<1> QED
  BY <1>1, <1>2, <1>3

LEMMA ReadInv ==
  ASSUME Inv, NEW c \in Calls, syscall_read(c)
  PROVE  SchedulerInv'
<1> DEFINE h == HandleAt(c[2])
<1>0. Entering(c) /\ c[1] = "read"
  BY DEF syscall_read
<1>1. CASE ReturnOnly
  BY <1>0, <1>1, ReturnOnlyInv
<1>2. CASE Panic
  BY <1>0, <1>2, PanicInv
<1>3. CASE ~ ReturnOnly /\ ~ Panic
  <2>1. h.type = "reader" /\ pipe_reader_read(c, h.p)
    BY <1>3 DEF syscall_read
  <2>2. h.p \in AllPipes
    BY <1>0, <2>1, EnteringType, PipeEndType DEF Inv, TypeInv
  <2>3. CASE Return /\ UNCHANGED <<procVars, schedVars, fdVars, reading, writing, readpid, mailVars,
                                   killVars>>
    <3>1. UNCHANGED <<exists, exited, parent_pid, ready, lists, readpid, current_process,
                      receive_blocked, victim>>
      BY <2>3 DEF procVars, schedVars, mailVars, killVars
    <3>2. Live' = Live /\ (exists \ exited)' = exists \ exited
      BY <3>1 DEF Live
    <3> QED
      BY <1>0, <2>3, <3>1, <3>2, UnchangedWoken, ReturnInv
  <2>4. CASE /\ readpid' = [readpid EXCEPT ![h.p] = current_process]
             /\ SuspendIn(c)
             /\ UNCHANGED <<procVars, current_process, fdVars, reading, writing, len, mailVars,
                            killVars>>
    <3>1. UNCHANGED <<exists, exited, parent_pid, current_process, victim, receive_blocked>>
      BY <2>4 DEF procVars, mailVars, killVars
    <3> QED
      BY <1>0, <2>2, <2>4, <3>1, SuspendInv DEF BlockingCalls
  <2> QED
    BY <1>3, <2>1, <2>3, <2>4 DEF pipe_reader_read
<1> QED
  BY <1>1, <1>2, <1>3

LEMMA CloseCallInv ==
  ASSUME Inv, NEW c \in Calls, syscall_close(c)
  PROVE  SchedulerInv'
<1> DEFINE h == HandleAt(c[2])
<1>0. Entering(c)
  BY DEF syscall_close
<1>1. CASE h = NullHandle
  BY <1>0, <1>1, ReturnOnlyInv DEF syscall_close
<1>2. CASE h # NullHandle /\ ~ close_asserts(h)
  BY <1>0, <1>2, PanicInv DEF syscall_close
<1>3. CASE h # NullHandle /\ close_asserts(h)
  <2>1. h \in Handles
    BY <1>0, <1>3, EnteringType, HandleAtType DEF Inv, TypeInv
  <2>2. /\ close_filehandle(h) /\ Return
        /\ UNCHANGED <<exists, exited, parent_pid, current_process, receive_blocked, victim>>
    BY <1>3 DEF syscall_close, procVars, mailVars, killVars
  <2>3. Live' = Live /\ (exists \ exited)' = exists \ exited
    BY <2>2 DEF Live
  <2> QED
    BY <1>0, <2>1, <2>2, <2>3, CloseWoken, ReturnInv
<1> QED
  BY <1>1, <1>2, <1>3

LEMMA Dup2Inv ==
  ASSUME Inv, NEW c \in Calls, syscall_dup2(c)
  PROVE  SchedulerInv'
<1> DEFINE h == HandleAt(c[2])
           old == HandleAt(c[3])
<1>0. Entering(c)
  BY DEF syscall_dup2
<1>1. CASE ReturnOnly
  BY <1>0, <1>1, ReturnOnlyInv
<1>2. CASE Panic
  BY <1>0, <1>2, PanicInv
<1>3. CASE ~ ReturnOnly /\ ~ Panic
  <2>1. /\ Return
        /\ UNCHANGED <<exists, exited, parent_pid, current_process, receive_blocked, victim>>
        /\ \/ UNCHANGED <<ready, lists, readpid>>
           \/ old # NullHandle /\ close_filehandle(old)
    BY <1>3 DEF syscall_dup2, procVars, schedVars, pipeVars, mailVars, killVars
  <2>2. Live' = Live /\ (exists \ exited)' = exists \ exited
    BY <2>1 DEF Live
  <2>3. old # NullHandle => old \in Handles
    BY <1>0, EnteringType, HandleAtType DEF Inv, TypeInv
  <2>4. Woken
    BY <2>1, <2>2, <2>3, UnchangedWoken, CloseWoken
  <2> QED
    BY <1>0, <2>1, <2>2, <2>4, ReturnInv
<1> QED
  BY <1>1, <1>2, <1>3

LEMMA PipeInv ==
  ASSUME Inv, NEW c \in Calls, syscall_pipe(c)
  PROVE  SchedulerInv'
<1>0. Entering(c)
  BY DEF syscall_pipe
<1>1. CASE ReturnOnly
  BY <1>0, <1>1, ReturnOnlyInv
<1>2. CASE ~ ReturnOnly
  <2>1. PICK b \in AllPipes :
          /\ Return /\ readpid' = [readpid EXCEPT ![b] = NONE]
          /\ UNCHANGED <<procVars, schedVars, mailVars, killVars>>
    BY <1>2 DEF syscall_pipe, new_pipe, AllPipes
  <2>2. UNCHANGED <<exists, exited, parent_pid, ready, lists, current_process, receive_blocked,
                    victim>>
    BY <2>1 DEF procVars, schedVars, mailVars, killVars
  <2>3. Live' = Live /\ (exists \ exited)' = exists \ exited
    BY <2>2 DEF Live
  <2>4. Woken
    BY <2>1, <2>2, <2>3
    DEF Woken, Inv, SchedulerInv, ListsInv, WaitersInv, TypeInv, TypeOK
  <2> QED
    BY <1>0, <2>1, <2>2, <2>3, <2>4, ReturnInv
<1> QED
  BY <1>1, <1>2

LEMMA WaitpidInv ==
  ASSUME Inv, NEW c \in Calls, syscall_waitpid(c)
  PROVE  SchedulerInv'
<1>0. Entering(c) /\ c[1] = "waitpid"
  BY DEF syscall_waitpid
<1>1. CASE ReturnOnly
  BY <1>0, <1>1, ReturnOnlyInv
<1>2. CASE Panic
  BY <1>0, <1>2, PanicInv
<1>3. CASE /\ exists' = exists \/ \E p \in exited : exists' = exists \ {p}
           /\ Return
           /\ UNCHANGED <<exited, parent_pid, schedVars, fdVars, pipeVars, mailVars, killVars>>
  <2>1. UNCHANGED <<exited, parent_pid, ready, lists, readpid, current_process, receive_blocked,
                    victim>>
    BY <1>3 DEF schedVars, pipeVars, mailVars, killVars
  <2>2. (exists \ exited)' = exists \ exited
    BY <1>3, <2>1
  <2>3. Live' = Live
    BY <2>1, <2>2 DEF Live
  <2> QED
    BY <1>0, <1>3, <2>1, <2>2, <2>3, UnchangedWoken, ReturnInv
<1>4. CASE /\ SuspendIn(c)
           /\ UNCHANGED <<exists, exited, parent_pid, current_process, fdVars, pipeVars, mailVars,
                          killVars>>
  <2>1. UNCHANGED <<exists, exited, parent_pid, current_process, victim, readpid, receive_blocked>>
    BY <1>4 DEF pipeVars, mailVars, killVars
  <2> QED
    BY <1>0, <1>4, <2>1, SuspendInv DEF BlockingCalls
<1> QED
  BY <1>1, <1>2, <1>3, <1>4 DEF syscall_waitpid

(* The new child's slot was unused, so it was on no list and nobody was    *)
(* registered under its pid.                                               *)
LEMMA ForkInv ==
  ASSUME Inv, NEW c \in Calls, syscall_fork(c)
  PROVE  SchedulerInv'
<1>0. Entering(c)
  BY DEF syscall_fork
<1>1. CASE ReturnOnly
  BY <1>0, <1>1, ReturnOnlyInv
<1>2. CASE ~ ReturnOnly
  <2> DEFINE p == current_process
  <2>1. PICK child \in Pids :
          /\ child \notin exists /\ fork_child(c, child) /\ kpc' = "user"
          /\ UNCHANGED <<current_process, readpid, victim>>
    BY <1>2 DEF syscall_fork, IsFreePid, pipeVars, killVars
  <2>2. /\ p \in Live \cap ready /\ p \in Pids /\ victim = NULL /\ Live = exists \ exited
        /\ kpc \in {"user", "restart"}
    BY <1>0, EnteringInv DEF Entering
  <2>3. /\ exists' = exists \cup {child} /\ exited' = exited \ {child}
        /\ ready' = ready \cup {child}
        /\ receive_blocked' = receive_blocked \ {child}
    BY <2>1 DEF fork_child
  <2>4. (exists \ exited)' = Live \cup {child} /\ Live' = Live \cup {child} /\ child \notin Live
    BY <2>1, <2>2, <2>3, ConstantFacts DEF Live
  <2>5. ListsInv'
    <3> DEFINE L == [lists EXCEPT !.next[child] = NULL, !.prev[child] = NULL]
               R == Live \cap ready
               S == Live \ ready
    <3>1. /\ L \in Lists /\ L.first = lists.first /\ L.last = lists.last
          /\ \A q \in Pids : /\ L.next[q] = IF q = child THEN NULL ELSE lists.next[q]
                             /\ L.prev[q] = IF q = child THEN NULL ELSE lists.prev[q]
      BY LiveFacts DEF Lists
    <3>2. R \in SUBSET Pids /\ S \in SUBSET Pids /\ R \cap S = {} /\ child \in Pids \ (R \cup S)
      BY <2>4, LiveFacts
    <3>3. lists' = list_add(L, "ready", child)
      BY <2>1 DEF fork_child
    <3>4. TwoLists(lists, R, S)
      BY LiveFacts
    <3> HIDE DEF L, R, S
    <3>5. TwoLists(L, R, S)
      <4>1. Linked(L, "ready", R)
        BY <3>1, <3>2, <3>4, LinkedSame DEF TwoLists
      <4>2. Linked(L, "suspended", S)
        BY <3>1, <3>2, <3>4, LinkedSame DEF TwoLists
      <4>3. NoCircle(L)
        <5> SUFFICES ASSUME NEW U \in SUBSET Pids, U # {}
                     PROVE  \E q \in U : L.next[q] \notin U
          BY DEF NoCircle
        <5>1. PICK q \in U : lists.next[q] \notin U
          BY <3>4 DEF TwoLists, NoCircle
        <5> QED
          BY <3>1, <5>1, ConstantFacts
      <4> QED
        BY <3>1, <3>4, <4>1, <4>2, <4>3 DEF TwoLists
    <3>6. TwoLists(list_add(L, "ready", child), R \cup {child}, S)
      BY <3>1, <3>2, <3>5, AddReady
    <3>7. Live' \cap ready' = R \cup {child} /\ Live' \ ready' = S
      BY <2>3, <2>4 DEF R, S
    <3> QED
      BY <3>3, <3>6, <3>7 DEF ListsInv
  <2>6. RunsLiveProcess'
    BY <2>1, <2>2, <2>3, <2>4 DEF RunsLiveProcess
  <2>7. \A q \in Pids : in_syscall'[q] = IF q \in {child, p} THEN NoCall ELSE in_syscall[q]
    BY <2>1 DEF fork_child, Inv, TypeInv, TypeOK
  <2>8. WaitersInv'
    <3>1. ASSUME NEW x \in AllPipes, readpid[x] # NONE
          PROVE  readpid[x] \in Live' \ ready' /\ in_syscall'[readpid[x]][1] = "read"
      <4>1. readpid[x] \in Live \ ready /\ in_syscall[readpid[x]][1] = "read"
        BY <3>1 DEF WaitersInv, Inv, SchedulerInv
      <4> QED
        BY <2>2, <2>3, <2>4, <2>7, <4>1, LiveFacts
    <3>2. ASSUME NEW q \in Live' \cap receive_blocked'
          PROVE  q \notin ready' /\ in_syscall'[q][1] = "receive"
      <4>1. q \in Live /\ q # child /\ q \notin ready /\ in_syscall[q][1] = "receive"
        BY <2>3, <2>4 DEF WaitersInv, Inv, SchedulerInv
      <4> QED
        BY <2>2, <2>3, <2>7, <4>1, LiveFacts
    <3> QED
      BY <2>1, <3>1, <3>2 DEF WaitersInv, Inv, SchedulerInv
  <2>9. VictimInv'
    BY <2>1, <2>2 DEF VictimInv
  <2>10. ParentsInv'
    <3>1. \A q \in Pids : parent_pid'[q] = IF q = child THEN p ELSE parent_pid[q]
      BY <2>1 DEF fork_child, Inv, TypeInv, TypeOK
    <3> QED
      BY <2>2, <2>4, <3>1, LiveFacts DEF ParentsInv, Inv, SchedulerInv
  <2>11. CallsInv'
    <3>1. NoCall[1] = "none"
      BY DEF NoCall
    <3> QED
      BY <2>2, <2>4, <2>7, <3>1, LiveFacts DEF CallsInv, Inv, SchedulerInv
  <2> QED
    BY <2>5, <2>6, <2>8, <2>9, <2>10, <2>11 DEF SchedulerInv
<1> QED
  BY <1>1, <1>2

(* Taking a process apart: it was live and not blocked in a read, so no    *)
(* pipe is left naming it as its reader.                                   *)
LEMMA KillBeginInv ==
  ASSUME Inv, NEW p \in Live, KillBegin(p), kpc \in {"user", "restart"},
         p \in ready \/ in_syscall[p][1] # "read",
         \A q \in Pids : q # current_process => in_syscall'[q] = in_syscall[q],
         UNCHANGED <<exists, exited, parent_pid, ready, readpid, receive_blocked>>
  PROVE  SchedulerInv'
<1>0. victim = NULL /\ (current_process # NULL => current_process \in Live \cap ready)
  BY DEF Inv, SchedulerInv, VictimInv, RunsLiveProcess
<1>a. Live = exists \ exited
  BY <1>0, ConstantFacts DEF Live, Inv, TypeInv, TypeOK
<1>b. victim' = p /\ Live' = Live \ {p}
  BY <1>a DEF KillBegin, Live
<1>1. /\ Live = exists \ exited /\ p \in Pids /\ Live \subseteq Pids
      /\ victim' = p /\ Live' = Live \ {p} /\ kpc' = "close"
      /\ current_process' = IF current_process = p THEN NULL ELSE current_process
      /\ current_process # NULL => current_process \in Live \cap ready
  BY <1>0, <1>a, <1>b, LiveFacts DEF KillBegin
<1>2. ListsInv'
  <2> DEFINE R == Live \cap ready
             S == Live \ ready
  <2>1. R \in SUBSET Pids /\ S \in SUBSET Pids /\ R \cap S = {} /\ TwoLists(lists, R, S)
    BY LiveFacts
  <2>2. CASE p \in ready
    <3>1. TwoLists(lists', R \ {p}, S)
      BY <2>1, <2>2, LiveFacts, RemoveReady DEF KillBegin
    <3>2. Live' \cap ready' = R \ {p} /\ Live' \ ready' = S
      BY <1>1, <2>2
    <3> QED
      BY <3>1, <3>2 DEF ListsInv
  <2>3. CASE p \notin ready
    <3>1. TwoLists(lists', R, S \ {p})
      BY <2>1, <2>3, LiveFacts, RemoveSuspended DEF KillBegin
    <3>2. Live' \cap ready' = R /\ Live' \ ready' = S \ {p}
      BY <1>1, <2>3
    <3> QED
      BY <3>1, <3>2 DEF ListsInv
  <2> QED
    BY <2>2, <2>3
<1>3. RunsLiveProcess'
  BY <1>1 DEF RunsLiveProcess
<1>4. WaitersInv'
  BY <1>1, ConstantFacts DEF WaitersInv, Inv, SchedulerInv
<1>5. VictimInv'
  BY <1>1 DEF VictimInv
<1>6. ParentsInv'
  BY DEF ParentsInv, Inv, SchedulerInv
<1>7. CallsInv'
  BY <1>1, ConstantFacts DEF CallsInv, Inv, SchedulerInv
<1> QED
  BY <1>2, <1>3, <1>4, <1>5, <1>6, <1>7 DEF SchedulerInv

LEMMA ExitInv ==
  ASSUME Inv, NEW c \in Calls, syscall_exit(c)
  PROVE  SchedulerInv'
<1>1. current_process \in Live \cap ready /\ kpc \in {"user", "restart"}
  BY EnteringInv DEF syscall_exit, Entering
<1>2. /\ KillBegin(current_process)
      /\ \A q \in Pids : q # current_process => in_syscall'[q] = in_syscall[q]
      /\ UNCHANGED <<exists, exited, parent_pid, ready, readpid, receive_blocked>>
  BY DEF syscall_exit, procVars, pipeVars, mailVars, Inv, TypeInv, TypeOK
<1> QED
  BY <1>1, <1>2, KillBeginInv

LEMMA FaultInv ==
  ASSUME Inv, page_fault
  PROVE  SchedulerInv'
<1>1. current_process \in Live \cap ready /\ kpc \in {"user", "restart"}
  BY DEF page_fault, Inv, SchedulerInv, RunsLiveProcess
<1>2. /\ KillBegin(current_process)
      /\ \A q \in Pids : q # current_process => in_syscall'[q] = in_syscall[q]
      /\ UNCHANGED <<exists, exited, parent_pid, ready, readpid, receive_blocked>>
  BY DEF page_fault, procVars, pipeVars, mailVars
<1> QED
  BY <1>1, <1>2, KillBeginInv

LEMMA KillInv ==
  ASSUME DisciplinedPrograms, Inv, NEW c \in Calls, syscall_kill(c),
         kpc = "user" => Workload(c)
  PROVE  SchedulerInv'
<1>0. Entering(c) /\ c[1] = "kill"
  BY DEF syscall_kill
<1>1. CASE c[2] \notin exists
  BY <1>0, <1>1, ReturnOnlyInv DEF syscall_kill
<1>2. CASE c[2] \in exists
  <2>1. /\ kpc = "user" /\ Workload(c) /\ Live = exists \ exited
        /\ current_process \in Live \cap ready
    BY <1>0, EnteringInv DEF BlockingCalls, Entering
  <2>2. Condition(c[2]) \in KillScope \cup {"none"}
    BY <1>0, <2>1 DEF Workload
  <2>3. Condition(c[2]) \notin {"read", "zombie"}
    BY <2>2 DEF DisciplinedPrograms
  <2>4. c[2] \in Live /\ (c[2] \in ready \/ in_syscall[c[2]][1] # "read")
    BY <1>2, <2>1, <2>3 DEF Condition
  <2>5. /\ KillBegin(c[2])
        /\ \A q \in Pids : q # current_process => in_syscall'[q] = in_syscall[q]
        /\ UNCHANGED <<exists, exited, parent_pid, ready, readpid, receive_blocked>>
    BY <1>2 DEF syscall_kill, procVars, pipeVars, mailVars, Inv, TypeInv, TypeOK
  <2> QED
    BY <2>1, <2>4, <2>5, KillBeginInv
<1> QED
  BY <1>1, <1>2

(* The destination of a message is live, so if it is marked blocked it is  *)
(* suspended in receive and no pipe knows it.                              *)
LEMMA SendInv ==
  ASSUME DisciplinedPrograms, Inv, NEW c \in Calls, syscall_send(c),
         kpc = "user" => Workload(c)
  PROVE  SchedulerInv'
<1> DEFINE dest == c[2]
           wake == dest \in receive_blocked
<1>0. Entering(c) /\ c[1] = "send"
  BY DEF syscall_send
<1>1. CASE ReturnOnly
  BY <1>0, <1>1, ReturnOnlyInv
<1>2. CASE Panic
  BY <1>0, <1>2, PanicInv
<1>3. CASE ~ ReturnOnly /\ ~ Panic
  <2>1. /\ dest \in exists
        /\ IF wake THEN resume_process(dest) ELSE UNCHANGED <<ready, lists>>
        /\ receive_blocked' = receive_blocked \ {dest}
        /\ Return
        /\ UNCHANGED <<exists, exited, parent_pid, current_process, readpid, victim>>
    BY <1>3 DEF syscall_send, BlockedAfter, procVars, pipeVars
  <2>2. /\ kpc = "user" /\ Workload(c) /\ Live = exists \ exited /\ victim = NULL
        /\ current_process \in Live \cap ready /\ current_process \in Pids
    BY <1>0, EnteringInv DEF BlockingCalls, Entering
  <2>3. Condition(dest) # "zombie"
    BY <1>0, <2>2 DEF Workload, DisciplinedPrograms
  <2>4. dest \in Live /\ Live' = Live
    BY <2>1, <2>2, <2>3 DEF Condition, Live
  <2>5. wake => dest \in Live \ ready /\ in_syscall[dest][1] = "receive"
    BY <2>4 DEF Inv, SchedulerInv, WaitersInv
  <2>6. ListsInv'
    <3>1. CASE wake
      BY <2>1, <2>4, <2>5, <3>1, ResumeLists
    <3>2. CASE ~ wake
      BY <2>1, <2>4, <3>2 DEF ListsInv, Inv, SchedulerInv
    <3> QED
      BY <3>1, <3>2
  <2>7. ready' = IF wake THEN ready \cup {dest} ELSE ready
    BY <2>1 DEF resume_process
  <2>8. \A q \in Pids : in_syscall'[q] = IF q = current_process THEN NoCall ELSE in_syscall[q]
    BY <2>1 DEF Return, Inv, TypeInv, TypeOK
  <2>9. RunsLiveProcess'
    BY <2>1, <2>2, <2>4, <2>7 DEF RunsLiveProcess
  <2>10. WaitersInv'
    <3>1. ASSUME NEW x \in AllPipes, readpid[x] # NONE
          PROVE  readpid[x] \in Live' \ ready' /\ in_syscall'[readpid[x]][1] = "read"
      <4>1. readpid[x] \in Live \ ready /\ in_syscall[readpid[x]][1] = "read"
        BY <3>1 DEF WaitersInv, Inv, SchedulerInv
      <4> QED
        BY <2>2, <2>4, <2>5, <2>7, <2>8, <4>1, LiveFacts
    <3>2. ASSUME NEW q \in Live' \cap receive_blocked'
          PROVE  q \notin ready' /\ in_syscall'[q][1] = "receive"
      <4>1. q \in Live /\ q # dest /\ q \notin ready /\ in_syscall[q][1] = "receive"
        BY <2>1, <2>4 DEF WaitersInv, Inv, SchedulerInv
      <4> QED
        BY <2>2, <2>7, <2>8, <4>1, LiveFacts
    <3> QED
      BY <2>1, <3>1, <3>2 DEF WaitersInv, Inv, SchedulerInv
  <2>11. VictimInv' /\ ParentsInv'
    BY <2>1, <2>2 DEF VictimInv, ParentsInv, Inv, SchedulerInv, Return
  <2>12. CallsInv'
    <3>1. NoCall[1] = "none"
      BY DEF NoCall
    <3> QED
      BY <2>2, <2>4, <2>8, <3>1, LiveFacts DEF CallsInv, Inv, SchedulerInv
  <2> QED
    BY <2>6, <2>9, <2>10, <2>11, <2>12 DEF SchedulerInv
<1> QED
  BY <1>1, <1>2, <1>3

LEMMA ReceiveInv ==
  ASSUME Inv, NEW c \in Calls, syscall_receive(c)
  PROVE  SchedulerInv'
<1>0. Entering(c) /\ c[1] = "receive"
  BY DEF syscall_receive
<1>1. CASE ReturnOnly
  BY <1>0, <1>1, ReturnOnlyInv
<1>2. CASE Panic
  BY <1>0, <1>2, PanicInv
<1>3. CASE /\ Return
           /\ UNCHANGED <<procVars, schedVars, fdVars, pipeVars, mailbox, receive_blocked,
                          victim, kfd>>
  <2>1. UNCHANGED <<exists, exited, parent_pid, ready, lists, readpid, current_process,
                    receive_blocked, victim>>
    BY <1>3 DEF procVars, schedVars, pipeVars
  <2>2. Live' = Live /\ (exists \ exited)' = exists \ exited
    BY <2>1 DEF Live
  <2> QED
    BY <1>0, <1>3, <2>1, <2>2, UnchangedWoken, ReturnInv
<1>4. CASE /\ receive_blocked' = receive_blocked \cup {current_process}
           /\ SuspendIn(c)
           /\ UNCHANGED <<procVars, current_process, fdVars, pipeVars, mailbox, mailbox_size,
                          killVars>>
  <2>1. UNCHANGED <<exists, exited, parent_pid, current_process, victim, readpid>>
    BY <1>4 DEF procVars, pipeVars, killVars
  <2> QED
    BY <1>0, <1>4, <2>1, SuspendInv DEF BlockingCalls
<1> QED
  BY <1>1, <1>2, <1>3, <1>4 DEF syscall_receive

-----------------------------------------------------------------------------
(* The rest of kill_process, and the interrupts.                           *)

LEMMA KillCloseInv ==
  ASSUME Inv, KillClose
  PROVE  SchedulerInv'
<1> DEFINE h == filedesc[victim][kfd]
<1>0. kpc = "close" /\ h \in Handles \cup {NullHandle}
  BY DEF KillClose, Inv, TypeInv, TypeOK, ControlOK
<1>1. CASE Panic
  BY <1>0, <1>1, StopInv DEF Panic
<1>2. CASE ~ Panic
  <2>1. /\ IF h = NullHandle THEN UNCHANGED <<ready, lists, readpid>> ELSE close_filehandle(h)
        /\ kpc' \in {"close", "reap"}
        /\ UNCHANGED <<exists, exited, parent_pid, current_process, in_syscall, victim,
                       receive_blocked>>
    BY <1>2 DEF KillClose, procVars, pipeVars, mailVars
  <2>2. Live' = Live
    BY <2>1 DEF Live
  <2>3. Woken
    BY <1>0, <2>1, <2>2, UnchangedWoken, CloseWoken
  <2>4. RunsLiveProcess'
    BY <1>0, <2>1, <2>2, <2>3 DEF Woken, RunsLiveProcess, Inv, SchedulerInv
  <2>5. WaitersInv'
    BY <2>1, <2>2, <2>3 DEF Woken, WaitersInv, Inv, SchedulerInv
  <2>6. VictimInv' /\ ParentsInv' /\ CallsInv'
    BY <1>0, <2>1, <2>2 DEF VictimInv, ParentsInv, CallsInv, Inv, SchedulerInv
  <2> QED
    BY <2>3, <2>4, <2>5, <2>6 DEF Woken, SchedulerInv
<1> QED
  BY <1>1, <1>2

(* The parent that is resumed is live and suspended in waitpid; the        *)
(* victim's children are left without a parent.                            *)
LEMMA KillReapInv ==
  ASSUME Inv, KillReap
  PROVE  SchedulerInv'
<1> DEFINE parent == parent_pid[victim]
<1>0. /\ kpc = "reap" /\ victim \in exists \ exited /\ victim \in Pids
      /\ current_process # NULL => current_process \in Live \cap ready
  BY DEF KillReap, Inv, SchedulerInv, VictimInv, RunsLiveProcess, TypeInv, TypeOK
<1>1. CASE Panic
  BY <1>0, <1>1, StopInv DEF Panic
<1>2. CASE ~ Panic
  <2>1. /\ ParentWaits => resume_asserts(parent) /\ resume_process(parent)
        /\ ~ ParentWaits => UNCHANGED <<ready, lists>>
        /\ parent_pid' = ParentsAfter
        /\ exists' = IF parent = NONE THEN exists \ {victim} ELSE exists
        /\ exited' = exited \cup {victim} /\ victim' = NULL
        /\ IF current_process = NULL THEN kpc' = "switch" /\ UNCHANGED in_syscall ELSE Return
        /\ UNCHANGED <<current_process, readpid, receive_blocked>>
    BY <1>2 DEF KillReap, pipeVars
  <2>2. Live' = Live /\ (exists \ exited)' = Live
    <3>1. (exists \ exited)' = Live
      BY <2>1 DEF Live
    <3>2. NULL \notin Live
      BY LiveFacts, ConstantFacts
    <3>3. Live' = (exists \ exited)' \ {NULL}
      BY <2>1 DEF Live
    <3> QED
      BY <3>1, <3>2, <3>3
  <2>3. ParentWaits => parent \in Live \ ready /\ in_syscall[parent][1] = "waitpid"
    <3>1. parent \in ((exists \ exited) \ {victim}) \cup {NONE}
      BY <1>0 DEF ParentsInv, Inv, SchedulerInv
    <3> QED
      BY <2>1, <3>1 DEF ParentWaits, resume_asserts, Live
  <2>4. ready' = IF ParentWaits THEN ready \cup {parent} ELSE ready
    BY <2>1 DEF resume_process
  <2>5. ListsInv'
    <3>1. CASE ParentWaits
      BY <2>1, <2>2, <2>3, <3>1, ResumeLists
    <3>2. CASE ~ ParentWaits
      BY <2>1, <2>2, <3>2 DEF ListsInv, Inv, SchedulerInv
    <3> QED
      BY <3>1, <3>2
  <2>6. RunsLiveProcess'
    BY <1>0, <2>1, <2>2, <2>4 DEF RunsLiveProcess
  <2>7. \A q \in Pids : in_syscall'[q] = IF q = current_process THEN NoCall ELSE in_syscall[q]
    BY <2>1, ConstantFacts DEF Return, Inv, TypeInv, TypeOK
  <2>8. WaitersInv'
    <3>1. ASSUME NEW x \in AllPipes, readpid[x] # NONE
          PROVE  readpid[x] \in Live' \ ready' /\ in_syscall'[readpid[x]][1] = "read"
      <4>1. readpid[x] \in Live \ ready /\ in_syscall[readpid[x]][1] = "read"
        BY <3>1 DEF WaitersInv, Inv, SchedulerInv
      <4> QED
        BY <1>0, <2>2, <2>3, <2>4, <2>7, <4>1, LiveFacts, ConstantFacts
    <3>2. ASSUME NEW q \in Live' \cap receive_blocked'
          PROVE  q \notin ready' /\ in_syscall'[q][1] = "receive"
      <4>1. q \in Live /\ q \notin ready /\ in_syscall[q][1] = "receive"
        BY <2>1, <2>2 DEF WaitersInv, Inv, SchedulerInv
      <4> QED
        BY <1>0, <2>3, <2>4, <2>7, <4>1, LiveFacts, ConstantFacts
    <3> QED
      BY <2>1, <3>1, <3>2 DEF WaitersInv, Inv, SchedulerInv
  <2>9. VictimInv' /\ kpc' \in {"switch", "user"}
    BY <2>1 DEF VictimInv, Return
  <2>10. ParentsInv'
    <3>1. ASSUME NEW q \in Live
          PROVE  parent_pid'[q] \in (Live \ {q}) \cup {NONE}
      <4>1. parent_pid[q] \in ((exists \ exited) \ {q}) \cup {NONE} /\ q \in Pids
        BY LiveFacts DEF ParentsInv, Inv, SchedulerInv, Live
      <4> QED
        BY <2>1, <4>1 DEF ParentsAfter, Live
    <3> QED
      BY <2>2, <3>1 DEF ParentsInv
  <2>11. CallsInv'
    <3>1. NoCall[1] = "none"
      BY DEF NoCall
    <3> QED
      BY <2>2, <2>7, <3>1, LiveFacts DEF CallsInv, Inv, SchedulerInv
  <2> QED
    BY <2>5, <2>6, <2>8, <2>9, <2>10, <2>11 DEF SchedulerInv
<1> QED
  BY <1>1, <1>2

(* The scheduler's choice is on the ready list, which holds live processes.*)
LEMMA SwitchInv ==
  ASSUME Inv, context_switch, kpc \in {"user", "switch"}
  PROVE  SchedulerInv'
<1>1. NextProcess \in (Live \cap ready) \cup {NULL}
  BY DEF NextProcess, Inv, SchedulerInv, RunsLiveProcess, ListsInv, TwoLists, Linked
<1>2. /\ current_process' = NextProcess /\ kpc' \in {"restart", "user"}
      /\ UNCHANGED <<exists, exited, parent_pid, ready, lists, readpid, receive_blocked, victim,
                     in_syscall>>
  BY DEF context_switch, procVars, pipeVars, mailVars, killVars
<1>3. Live' = Live
  BY <1>2 DEF Live
<1> QED
  BY <1>1, <1>2, <1>3 DEF Inv, SchedulerInv, ListsInv, RunsLiveProcess, WaitersInv, VictimInv,
                          ParentsInv, CallsInv

LEMMA KeyboardInv ==
  ASSUME Inv, keyboard_handler
  PROVE  SchedulerInv'
<1>0. kpc = "user"
  BY DEF keyboard_handler
<1>1. CASE Panic
  BY <1>0, <1>1, StopInv DEF Panic
<1>2. CASE ~ Panic
  <2>1. /\ wake_up_reader(StdinPipe) /\ kpc' = "switch" /\ StdinPipe \in AllPipes
        /\ UNCHANGED <<exists, exited, parent_pid, current_process, in_syscall, victim,
                       receive_blocked>>
    BY <1>2 DEF keyboard_handler, write_to_pipe, procVars, mailVars, killVars, AllPipes
  <2>2. Live' = Live
    BY <2>1 DEF Live
  <2>3. Woken
    BY <2>1, <2>2, WakeWoken
  <2>4. RunsLiveProcess'
    BY <1>0, <2>1, <2>2, <2>3 DEF Woken, RunsLiveProcess, Inv, SchedulerInv
  <2>5. WaitersInv'
    BY <2>1, <2>2, <2>3 DEF Woken, WaitersInv, Inv, SchedulerInv
  <2>6. VictimInv' /\ ParentsInv' /\ CallsInv'
    BY <1>0, <2>1, <2>2 DEF VictimInv, ParentsInv, CallsInv, Inv, SchedulerInv
  <2> QED
    BY <2>3, <2>4, <2>5, <2>6 DEF Woken, SchedulerInv
<1> QED
  BY <1>1, <1>2

LEMMA SyscallInv ==
  ASSUME DisciplinedPrograms, Inv, NEW c \in Calls, syscall(c), kpc = "user" => Workload(c)
  PROVE  SchedulerInv'
<1>1. CASE syscall_getpid(c) \/ InvalidArgument(c)
  BY <1>1, ReturnOnlyInv DEF syscall_getpid, InvalidArgument
<1>2. CASE syscall_halt(c)
  <2>1. kpc = "user"
    BY <1>2, EnteringInv DEF syscall_halt, Entering, BlockingCalls
  <2> QED
    BY <1>2, <2>1, StopInv DEF syscall_halt
<1> QED
  BY <1>1, <1>2, ExitInv, WriteInv, ReadInv, SendInv, ReceiveInv, CloseCallInv, PipeInv, Dup2Inv,
     ForkInv, WaitpidInv, KillInv DEF syscall

-----------------------------------------------------------------------------
LEMMA InitInv == Init => SchedulerInv
<1> SUFFICES ASSUME Init PROVE SchedulerInv
  OBVIOUS
<1>1. Live = {1} /\ Live \cap ready = {1} /\ Live \ ready = {}
  BY DEF Init, Live, NULL
<1>2. /\ \A p \in Pids : lists.next[p] = NULL /\ lists.prev[p] = NULL
      /\ lists.first["ready"] = 1 /\ lists.last["ready"] = 1
      /\ lists.first["suspended"] = NULL /\ lists.last["suspended"] = NULL
  BY DEF Init, ListNames
<1>3. ListsInv
  <2>1. NoCircle(lists)
    BY <1>2, ConstantFacts DEF NoCircle
  <2> QED
    BY <1>1, <1>2, <2>1, ConstantFacts DEF ListsInv, TwoLists, Linked, NULL
<1>4. CallsInv
  BY <1>1, ConstantFacts DEF Init, CallsInv, NoCall
<1>5. ParentsInv
  BY ConstantFacts DEF Init, ParentsInv
<1> QED
  BY <1>1, <1>3, <1>4, <1>5 DEF Init, SchedulerInv, RunsLiveProcess, WaitersInv, VictimInv

LEMMA NextInv ==
  ASSUME DisciplinedPrograms, Inv, [Next]_vars
  PROVE  SchedulerInv'
<1>1. CASE timer_handler \/ SwitchAway
  BY <1>1, SwitchInv DEF timer_handler, SwitchAway
<1>2. CASE UserCall \/ RestartCall
  BY <1>2, SyscallInv DEF UserCall, RestartCall
<1>3. CASE other_exception
  BY <1>3, StopInv DEF other_exception
<1>4. CASE UNCHANGED vars
  BY <1>4
  DEF vars, procVars, schedVars, fdVars, pipeVars, mailVars, killVars, Inv, SchedulerInv, Live,
      ListsInv, RunsLiveProcess, WaitersInv, VictimInv, ParentsInv, CallsInv
<1> QED
  BY <1>1, <1>2, <1>3, <1>4, KeyboardInv, FaultInv, KillCloseInv, KillReapInv DEF Next, Stopped

(* The lists, the wakeup registrations and the parent pointers of the      *)
(* process table stay consistent through every interleaving of system      *)
(* calls, timer, keyboard and fault, with any number of processes.         *)
THEOREM SchedulerCorrect ==
  ASSUME DisciplinedPrograms
  PROVE  Spec => []SchedulerInv
<1>1. Init => Inv
  BY InitType, InitInv DEF Inv
<1>2. Inv /\ [Next]_vars => Inv'
  BY NextType, NextInv DEF Inv
<1>3. Inv => SchedulerInv
  BY DEF Inv
<1> QED
  BY <1>1, <1>2, <1>3, PTL DEF Spec

(* context_switch never hands the processor to a process that is dead,     *)
(* being killed, or suspended.                                             *)
THEOREM OnlyLiveProcessesRun ==
  ASSUME DisciplinedPrograms
  PROVE  Spec => []RunsLiveProcess
<1>1. SchedulerInv => RunsLiveProcess
  BY DEF SchedulerInv
<1> QED
  BY <1>1, SchedulerCorrect, PTL

(* kill_process and waitpid never follow a parent_pid to a slot that has   *)
(* been freed or given to another process.                                 *)
THEOREM ParentsStayAlive ==
  ASSUME DisciplinedPrograms
  PROVE  Spec => []ParentAlive
<1>1. SchedulerInv => ParentAlive
  BY DEF SchedulerInv, ParentsInv, ParentAlive, Live
<1> QED
  BY <1>1, SchedulerCorrect, PTL

-----------------------------------------------------------------------------
(* The walk along a list: what Nth, a recursive function, computes.        *)

Walk(f, a, nx, n) ==
  f = [k \in 0 .. n |-> IF k = 0 THEN a ELSE IF f[k - 1] = NULL THEN NULL ELSE nx[f[k - 1]]]

(* A walk of any length exists: a longer one extends a shorter one.        *)
LEMMA WalkExists ==
  ASSUME NEW a, NEW nx, NEW n \in Nat
  PROVE  \E f : Walk(f, a, nx, n)
<1> DEFINE Bad == {m \in Nat : ~ \E f : Walk(f, a, nx, m)}
<1>1. SUFFICES ASSUME Bad # {} PROVE FALSE
  OBVIOUS
<1>2. PICK m \in Bad : \A y \in Bad : m <= y
  BY <1>1, LeastNat
<1>3. m # 0
  <2> DEFINE g == [k \in 0 .. 0 |-> a]
  <2>1. Walk(g, a, nx, 0)
    BY DEF Walk
  <2> QED
    BY <2>1
<1>4. m - 1 \in Nat /\ m - 1 \notin Bad
  BY <1>2, <1>3
<1>5. PICK f : Walk(f, a, nx, m - 1)
  BY <1>4
<1> DEFINE v == IF f[m - 1] = NULL THEN NULL ELSE nx[f[m - 1]]
           g == [k \in 0 .. m |-> IF k = m THEN v ELSE f[k]]
<1>6. \A k \in 0 .. (m - 1) :
        f[k] = IF k = 0 THEN a ELSE IF f[k - 1] = NULL THEN NULL ELSE nx[f[k - 1]]
  BY <1>5, Zenon DEF Walk
<1>7. \A k \in 0 .. (m - 1) : g[k] = f[k]
  BY <1>4
<1>8. \A k \in 0 .. m :
        g[k] = IF k = 0 THEN a ELSE IF g[k - 1] = NULL THEN NULL ELSE nx[g[k - 1]]
  <2> TAKE k \in 0 .. m
  <2>1. CASE k = m
    <3>1. k - 1 \in 0 .. (m - 1) /\ g[k] = v /\ k # 0
      BY <1>3, <1>4, <2>1
    <3> QED
      BY <1>7, <2>1, <3>1
  <2>2. CASE k # m
    <3>1. k \in 0 .. (m - 1) /\ (k # 0 => k - 1 \in 0 .. (m - 1))
      BY <1>4, <2>2
    <3> HIDE DEF g
    <3> QED
      BY <1>6, <1>7, <3>1
  <2> QED
    BY <2>1, <2>2
<1>9. Walk(g, a, nx, m)
  BY <1>8 DEF Walk
<1> QED
  BY <1>2, <1>9

LEMMA NthIs ==
  ASSUME NEW ll
  PROVE  /\ Nth(ll)[0] = lists.first[ll]
         /\ \A k \in 0 .. (MAX_PROCESSES - 1) :
              Nth(ll)[k + 1] = IF Nth(ll)[k] = NULL THEN NULL ELSE lists.next[Nth(ll)[k]]
<1>0. MAX_PROCESSES \in Nat /\ MAX_PROCESSES >= 2
  BY KernelAssumption
<1> DEFINE W(f) == Walk(f, lists.first[ll], lists.next, MAX_PROCESSES)
<1>1. \E f : W(f)
  BY <1>0, WalkExists
<1>2. Nth(ll) = CHOOSE f : W(f)
  BY DEF Nth, Walk
<1>3. W(Nth(ll))
  BY <1>1, <1>2, Zenon
<1>4. \A k \in 0 .. MAX_PROCESSES :
        Nth(ll)[k] = IF k = 0 THEN lists.first[ll]
                     ELSE IF Nth(ll)[k - 1] = NULL THEN NULL ELSE lists.next[Nth(ll)[k - 1]]
  BY <1>3, Zenon DEF Walk
<1> QED
  BY <1>0, <1>4

(* The walk along a well linked list stays on it, goes back by prev, and   *)
(* does not go on after its end.                                           *)
LEMMA WalkSteps ==
  ASSUME NEW ll, NEW M \in SUBSET Pids, Linked(lists, ll, M)
  PROVE  /\ \A k \in 0 .. MAX_PROCESSES : Nth(ll)[k] \in M \cup {NULL}
         /\ \A k \in 0 .. (MAX_PROCESSES - 1) : Nth(ll)[k + 1] # NULL =>
              /\ Nth(ll)[k] \in M /\ lists.next[Nth(ll)[k]] = Nth(ll)[k + 1]
              /\ lists.prev[Nth(ll)[k + 1]] = Nth(ll)[k]
<1> DEFINE N == Nth(ll)
           X == MAX_PROCESSES
<1>0. X \in Nat /\ NULL \notin M
  BY KernelAssumption, ConstantFacts
<1>1. N[0] = lists.first[ll]
  BY NthIs
<1>2. ASSUME NEW k \in 0 .. (X - 1)
      PROVE  N[k + 1] = IF N[k] = NULL THEN NULL ELSE lists.next[N[k]]
  BY NthIs
<1> HIDE DEF N, X
<1>3. \A k \in 0 .. X : N[k] \in M \cup {NULL}
  <2> DEFINE Bad == {k \in 0 .. X : N[k] \notin M \cup {NULL}}
  <2>1. SUFFICES ASSUME Bad # {} PROVE FALSE
    OBVIOUS
  <2>a. Bad \in SUBSET Nat
    BY <1>0
  <2>2. PICK k \in Bad : \A y \in Bad : k <= y
    <3> HIDE DEF Bad
    <3> QED
      BY <2>1, <2>a, LeastNat
  <2>3. k # 0
    BY <1>0, <1>1, <2>2 DEF Linked
  <2>4. k - 1 \in 0 .. (X - 1) /\ k - 1 \notin Bad /\ (k - 1) + 1 = k
    BY <1>0, <2>2, <2>3
  <2>5. N[k - 1] \in M \cup {NULL}
    BY <1>0, <2>4
  <2>6. N[k] = IF N[k - 1] = NULL THEN NULL ELSE lists.next[N[k - 1]]
    BY <1>2, <2>4
  <2> QED
    BY <2>2, <2>5, <2>6 DEF Linked
<1>4. ASSUME NEW k \in 0 .. (X - 1), N[k + 1] # NULL
      PROVE  N[k] \in M /\ lists.next[N[k]] = N[k + 1] /\ lists.prev[N[k + 1]] = N[k]
  <2>1. N[k] # NULL /\ N[k + 1] = lists.next[N[k]]
    BY <1>2, <1>4
  <2>2. N[k] \in M
    BY <1>0, <1>3, <2>1
  <2> QED
    BY <1>4, <2>1, <2>2 DEF Linked
<1> QED
  BY <1>3, <1>4 DEF N, X

(* A walk longer than there are processes would come to one twice, and     *)
(* what lies between would be a circle.                                    *)
LEMMA WalkEnds ==
  ASSUME NEW ll, NEW M \in SUBSET Pids, Linked(lists, ll, M), NoCircle(lists)
  PROVE  Nth(ll)[MAX_PROCESSES] = NULL
<1> DEFINE N == Nth(ll)
           X == MAX_PROCESSES
<1>0. X \in Nat /\ X >= 2 /\ NULL \notin M
  BY KernelAssumption, ConstantFacts
<1>1. /\ \A k \in 0 .. X : N[k] \in M \cup {NULL}
      /\ \A k \in 0 .. (X - 1) : N[k + 1] # NULL =>
           N[k] \in M /\ lists.next[N[k]] = N[k + 1]
  BY WalkSteps
<1>a. Pids = 1 .. (X - 1)
  BY DEF Pids
<1> HIDE DEF N, X
<1>2. SUFFICES ASSUME N[X] # NULL PROVE FALSE
  BY DEF N, X
<1>3. \A k \in 0 .. X : N[k] \in M
  <2> DEFINE Bad == {d \in 0 .. X : N[X - d] = NULL}
  <2>1. CASE Bad = {}
    <3>1. ASSUME NEW k \in 0 .. X PROVE N[k] \in M
      <4>1. X - k \in 0 .. X /\ X - (X - k) = k
        BY <1>0
      <4>2. N[k] # NULL
        BY <2>1, <4>1
      <4> QED
        BY <1>1, <4>2
    <3> QED
      BY <3>1
  <2>2. CASE Bad # {}
    <3>a. Bad \in SUBSET Nat
      BY <1>0
    <3>1. PICK d \in Bad : \A y \in Bad : d <= y
      <4> HIDE DEF Bad
      <4> QED
        BY <2>2, <3>a, LeastNat
    <3>2. d # 0
      BY <1>0, <1>2, <3>1
    <3>3. /\ d - 1 \in 0 .. X /\ d - 1 \notin Bad
          /\ X - d \in 0 .. (X - 1) /\ X - (d - 1) = (X - d) + 1
      BY <1>0, <3>1, <3>2
    <3>4. N[(X - d) + 1] # NULL
      BY <3>3
    <3>5. N[X - d] \in M
      BY <1>1, <3>3, <3>4
    <3> QED
      BY <1>0, <3>1, <3>5
  <2> QED
    BY <2>1, <2>2
<1>4. ASSUME NEW x \in 0 .. X, NEW y \in 0 .. X, x < y, N[x] = N[y]
      PROVE  FALSE
  <2> DEFINE C == {N[k] : k \in x .. (y - 1)}
  <2>1. C \in SUBSET Pids /\ N[x] \in C
    BY <1>0, <1>3, <1>4
  <2>2. ASSUME NEW q \in C PROVE lists.next[q] \in C
    <3>1. PICK k \in x .. (y - 1) : q = N[k]
      OBVIOUS
    <3>2. k \in 0 .. (X - 1) /\ k + 1 \in 0 .. X
      BY <1>0, <3>1
    <3>3. N[k + 1] # NULL
      BY <1>0, <1>3, <3>2
    <3>4. lists.next[q] = N[k + 1]
      BY <1>1, <3>1, <3>2, <3>3
    <3>5. CASE k + 1 = y
      BY <1>4, <2>1, <3>4, <3>5
    <3>6. CASE k + 1 # y
      <4>1. k + 1 \in x .. (y - 1)
        BY <3>6
      <4> QED
        BY <3>4, <4>1
    <3> QED
      BY <3>5, <3>6
  <2> QED
    BY <2>1, <2>2 DEF NoCircle
<1>5. \E x, y \in 0 .. X : x # y /\ N[x] = N[y]
  <2> DEFINE f == [k \in 0 .. X |-> N[k]]
  <2>1. IsFiniteSet(0 .. X) /\ IsFiniteSet(Pids)
    BY <1>0, <1>a, FS_Interval
  <2>2. Cardinality(0 .. X) = X + 1 /\ Cardinality(Pids) = X - 1
    BY <1>0, <1>a, FS_Interval
  <2>3. Cardinality(Pids) < Cardinality(0 .. X)
    BY <1>0, <2>2
  <2>4. f \in [0 .. X -> Pids]
    BY <1>3
  <2>5. PICK x, y \in 0 .. X : x # y /\ f[x] = f[y]
    <3> HIDE DEF f
    <3> QED
      BY <2>1, <2>3, <2>4, FS_PigeonHole, Zenon
  <2> QED
    BY <2>5
<1>6. PICK x, y \in 0 .. X : x # y /\ N[x] = N[y]
  BY <1>5
<1>7. x < y \/ y < x
  BY <1>0, <1>6
<1> QED
  BY <1>4, <1>6, <1>7

(* The walk meets every member. From one that it misses, following next    *)
(* leads to last, and so does the walk, which meets last.                  *)
LEMMA WalkMeets ==
  ASSUME NEW ll, NEW M \in SUBSET Pids, Linked(lists, ll, M), NoCircle(lists)
  PROVE  Members(ll) = M
<1> DEFINE N == Nth(ll)
           X == MAX_PROCESSES
           W == Members(ll)
<1>0. X \in Nat /\ X >= 2 /\ NULL \notin M
  BY KernelAssumption, ConstantFacts
<1>1. N[0] = lists.first[ll]
  BY NthIs
<1>2. \A k \in 0 .. (X - 1) : N[k + 1] = IF N[k] = NULL THEN NULL ELSE lists.next[N[k]]
  BY NthIs
<1>3. \A k \in 0 .. X : N[k] \in M \cup {NULL}
  BY WalkSteps
<1>4. \A k \in 0 .. (X - 1) : N[k + 1] # NULL => lists.prev[N[k + 1]] = N[k]
  BY WalkSteps
<1>5. N[X] = NULL
  BY WalkEnds
<1>6. W = {N[k] : k \in 0 .. X} \ {NULL}
  BY DEF Members
<1> HIDE DEF N, X, W
<1>7. W \subseteq M
  BY <1>3, <1>6
<1>8. ASSUME NEW w \in W, lists.next[w] # NULL
      PROVE  lists.next[w] \in W
  <2>1. PICK k \in 0 .. X : w = N[k] /\ w # NULL
    BY <1>6
  <2>2. k \in 0 .. (X - 1)
    BY <1>0, <1>5, <2>1
  <2>3. N[k + 1] = lists.next[w] /\ k + 1 \in 0 .. X
    BY <1>0, <1>2, <2>1, <2>2
  <2> QED
    BY <1>6, <1>8, <2>3
<1>9. ASSUME NEW w \in W, w # lists.first[ll]
      PROVE  lists.prev[w] \in W
  <2>1. PICK k \in 0 .. X : w = N[k] /\ w # NULL
    BY <1>6
  <2>2. k # 0
    BY <1>1, <1>9, <2>1
  <2>3. k - 1 \in 0 .. (X - 1) /\ k - 1 \in 0 .. X /\ (k - 1) + 1 = k
    BY <1>0, <2>2
  <2>4. lists.prev[w] = N[k - 1]
    BY <1>4, <2>1, <2>3
  <2>5. N[k - 1] # NULL
    BY <1>2, <2>1, <2>3
  <2> QED
    BY <1>6, <2>3, <2>4, <2>5
<1>10. ASSUME NEW p \in M, p \notin W PROVE FALSE
  <2> DEFINE U == M \ W
  <2>1. PICK q \in U : lists.next[q] \notin U
    BY <1>10 DEF NoCircle
  <2>2. lists.next[q] = NULL
    <3>1. SUFFICES ASSUME lists.next[q] # NULL PROVE FALSE
      OBVIOUS
    <3>2. lists.next[q] \in W /\ lists.prev[lists.next[q]] = q
      BY <2>1, <3>1 DEF Linked
    <3>3. lists.next[q] # lists.first[ll]
      BY <1>0, <1>7, <2>1, <3>2 DEF Linked
    <3> QED
      BY <1>9, <2>1, <3>2, <3>3
  <2>3. lists.last[ll] = q /\ lists.first[ll] # NULL
    BY <1>0, <2>1, <2>2 DEF Linked
  <2>4. lists.first[ll] \in W
    BY <1>0, <1>1, <1>6, <2>3
  <2>5. PICK w \in W : lists.next[w] \notin W
    BY <1>7, <2>4 DEF NoCircle
  <2>6. lists.next[w] = NULL
    BY <1>8, <2>5
  <2>7. lists.last[ll] = w
    BY <1>7, <2>5, <2>6 DEF Linked
  <2> QED
    BY <2>1, <2>3, <2>5, <2>7
<1> QED
  BY <1>7, <1>10 DEF W

(* Walking a list from its first element meets exactly the processes that  *)
(* the process table says are on it, and ends: no ready process is skipped *)
(* by the scheduler for ever because the pointers lost it, whatever order  *)
(* fork, suspend_process, resume_process and kill_process come in.         *)
THEOREM ListsStayExact ==
  ASSUME DisciplinedPrograms
  PROVE  Spec => []ListsExact
<1>1. ASSUME Inv PROVE ListsExact
  <2> DEFINE R == Live \cap ready
             S == Live \ ready
  <2>1. /\ R \in SUBSET Pids /\ S \in SUBSET Pids /\ NoCircle(lists)
        /\ Linked(lists, "ready", R) /\ Linked(lists, "suspended", S)
    BY <1>1, LiveFacts DEF TwoLists
  <2> HIDE DEF R, S
  <2>2. Members("ready") = R /\ Members("suspended") = S
    BY <2>1, WalkMeets
  <2> DEFINE OK(ll) == /\ Nth(ll)[MAX_PROCESSES] = NULL
                       /\ \A p \in Members(ll) :
                            /\ lists.prev[p] = NULL <=> lists.first[ll] = p
                            /\ lists.next[p] = NULL <=> lists.last[ll] = p
                            /\ lists.next[p] # NULL => lists.prev[lists.next[p]] = p
                       /\ Members(ll) = {} <=> lists.last[ll] = NULL
  <2>3. ASSUME NEW ll \in ListNames, NEW M \in SUBSET Pids, Linked(lists, ll, M), Members(ll) = M
        PROVE  OK(ll)
    <3>1. Nth(ll)[MAX_PROCESSES] = NULL
      BY <2>1, <2>3, WalkEnds
    <3>2. NULL \notin M
      BY ConstantFacts
    <3>3. ASSUME M # {} PROVE lists.last[ll] # NULL
      <4>1. PICK p \in M : lists.next[p] \notin M
        BY <2>1, <3>3 DEF NoCircle
      <4> QED
        BY <2>3, <3>2, <4>1 DEF Linked
    <3>4. ASSUME M = {} PROVE lists.last[ll] = NULL
      BY <2>3, <3>4 DEF Linked
    <3> QED
      BY <2>3, <3>1, <3>3, <3>4 DEF Linked
  <2>4. \A ll \in ListNames : ll = "ready" \/ ll = "suspended"
    BY DEF ListNames
  <2>5. /\ Members("ready") = Live \cap ready
        /\ Members("suspended") = Live \ ready
    BY <2>2 DEF R, S
  <2>6. OK("ready") /\ OK("suspended")
    BY <2>1, <2>2, <2>3 DEF ListNames
  <2>7. \A ll \in ListNames : OK(ll)
    <3> HIDE DEF OK
    <3> QED
      BY <2>4, <2>6
  <2> QED
    BY <2>5, <2>7 DEF ListsExact
<1>2. Init => Inv
  BY InitType, InitInv DEF Inv
<1>3. Inv /\ [Next]_vars => Inv'
  BY NextType, NextInv DEF Inv
<1> QED
  BY <1>1, <1>2, <1>3, PTL DEF Spec
=============================================================================
