------------------------------ MODULE Process ------------------------------
(***************************************************************************)
(* Process lifecycle: creation (start_process, fork, vfork), termination   *)
(* (kill_process and the calls and faults that reach it), waitpid, and the *)
(* messages of syscall_send and syscall_receive.                           *)
(*                                                                         *)
(* Memory, registers, exit codes and errno values are abstracted away; a   *)
(* mailbox is abstracted to how many messages it holds and whether its     *)
(* storage is allocated.                                                   *)
(***************************************************************************)
EXTENDS FileDesc

(* get_free_pid finds the lowest unused slot, or none.                     *)
IsFreePid(p) == p \in Pids \ exists /\ \A q \in 1 .. (p - 1) : q \in exists

(* Faulty variant: a handle is counted once however often it is open.      *)
FdUsed(p, h) == IF \E fd \in FDs : filedesc[p][fd] = h THEN 1 ELSE 0

(* References a process's descriptors hold to a handle.                    *)
FdCount(p, h) == Cardinality({fd \in FDs : filedesc[p][fd] = h})

(* The child's slot is zeroed (so its waiting_on is 0 and its list         *)
(* pointers NULL), every descriptor is shared, and the child goes to the   *)
(* front of the ready list; vfork also resets the parent's waiting_on.     *)
fork_child(c, child) ==
  /\ exists' = exists \cup {child}
  /\ exited' = exited \ {child}
  /\ ready' = ready \cup {child}
  /\ parent_pid' = [parent_pid EXCEPT ![child] = current_process]
  /\ waiting_on' = [q \in Pids |-> IF q = child THEN 0
                                   ELSE IF q = current_process /\ c[1] = "vfork" THEN NONE
                                   ELSE waiting_on[q]]
  /\ in_syscall' = [in_syscall EXCEPT ![current_process] = NoCall, ![child] = NoCall]
  /\ filedesc' = [filedesc EXCEPT ![child] = filedesc[current_process]]
  /\ refcount' = [h \in Handles |-> refcount[h] + FdCount(current_process, h)]
  /\ mailbox' = [mailbox EXCEPT ![child] = "null"]
  /\ mailbox_size' = [mailbox_size EXCEPT ![child] = 0]
  /\ receive_blocked' = receive_blocked \ {child}
  /\ lists' = list_add([lists EXCEPT !.next[child] = NULL, !.prev[child] = NULL],
                       "ready", child)

syscall_fork(c) ==
  /\ c[1] \in {"fork", "vfork"} /\ Entering(c)
  /\ \/ Pids \subseteq exists /\ ReturnOnly
     \/ \E child \in Pids :
          /\ IsFreePid(child)
          /\ fork_child(c, child)
          /\ kpc' = "user"
          /\ UNCHANGED <<current_process, pipeVars, killVars>>

(* Faulty variant: any process will do.                                    *)
AnyProcess(pid) == pid \in exists

(* waitpid only accepts a child of the caller.                             *)
OwnChild(pid) == pid \in exists /\ parent_pid[pid] = current_process

(* waitpid: reap an exited child, wait for a running one.                  *)
syscall_waitpid(c) ==
  LET pid == c[2]
      own == OwnChild(pid)
  IN
  /\ c[1] = "waitpid" /\ Entering(c)
  /\ \/ /\ pid \notin Pids \cup {0}
        /\ ReturnOnly
     \/ /\ pid \in Pids \cup {0} /\ ~ (own /\ pid \notin exited)
        /\ exists' = IF own THEN exists \ {pid} ELSE exists
        /\ waiting_on' = [waiting_on EXCEPT ![current_process] = NONE]
        /\ Return
        /\ UNCHANGED <<exited, parent_pid, schedVars, fdVars, pipeVars, mailVars, killVars>>
     \/ /\ own /\ pid \notin exited
        /\ IF suspend_asserts(current_process)
           THEN /\ waiting_on' = [waiting_on EXCEPT ![current_process] = pid]
                /\ SuspendIn(c)
                /\ UNCHANGED <<exists, exited, parent_pid, current_process, fdVars, pipeVars,
                               mailVars, killVars>>
           ELSE Panic

-----------------------------------------------------------------------------
(* Faulty variant: a process that kills itself stays current.              *)
KillBeginCurrent(p) ==
  /\ lists' = list_remove(lists, IF p \in ready THEN "ready" ELSE "suspended", p)
  /\ victim' = p
  /\ kfd' = 0
  /\ heap_fault' = (heap_fault \/ p \in exited)
  /\ kpc' = "close"
  /\ UNCHANGED current_process

(* kill_process(p) up to its loop over the file descriptors. For a process *)
(* that has exited already this starts a second release of its page        *)
(* tables and pages, which are freed memory by then.                       *)
KillBegin(p) ==
  /\ current_process' = IF current_process = p THEN NULL ELSE current_process
  /\ lists' = list_remove(lists, IF p \in ready THEN "ready" ELSE "suspended", p)
  /\ victim' = p
  /\ kfd' = 0
  /\ heap_fault' = (heap_fault \/ p \in exited)
  /\ kpc' = "close"

(* One iteration of the loop. The descriptor itself is not cleared.        *)
KillClose ==
  LET h == filedesc[victim][kfd] IN
  /\ kpc = "close"
  /\ IF h # NullHandle /\ ~ close_asserts(h) THEN Panic
     ELSE /\ IF h = NullHandle
             THEN UNCHANGED <<ready, lists, refcount, pipeVars>>
             ELSE close_filehandle(h) /\ refcount' = Dropped(h)
          /\ kfd' = kfd + 1
          /\ kpc' = IF kfd + 1 = MAX_FDS THEN "reap" ELSE "close"
          /\ UNCHANGED <<procVars, current_process, filedesc, mailVars, in_syscall, victim,
                         heap_fault>>

(* Faulty variants: one does not ask which child the parent waits for, one *)
(* looks at the wrong process's waiting_on.                                *)
ParentWaitsForAny ==
  parent_pid[victim] # NONE /\ in_syscall[parent_pid[victim]][1] = "waitpid"

ParentWaitsSwapped == parent_pid[victim] # NONE /\ waiting_on[victim] = parent_pid[victim]

(* The parent is blocked in waitpid for the victim.                        *)
ParentWaits ==
  LET parent == parent_pid[victim] IN
  parent # NONE /\ in_syscall[parent][1] = "waitpid" /\ waiting_on[parent] = victim

(* The parents once the victim's children have lost theirs; the faulty     *)
(* variant forgets the children.                                           *)
ParentsKept == parent_pid
ParentsAfter == [q \in Pids |-> IF parent_pid[q] = victim THEN NONE ELSE parent_pid[q]]

(* The rest of kill_process: the mailbox is freed, children lose their     *)
(* parent, and the slot is released when there is no parent; otherwise a   *)
(* parent waiting for this process is resumed. Then the dispatcher goes    *)
(* on: a process that killed itself (or faulted) is switched away from, a  *)
(* process that killed another returns from its call.                      *)
KillReap ==
  LET parent == parent_pid[victim] IN
  /\ kpc = "reap"
  /\ IF ParentWaits /\ ~ resume_asserts(parent) THEN Panic
     ELSE
     /\ heap_fault' = (heap_fault \/ mailbox[victim] = "freed")
     /\ mailbox' = [mailbox EXCEPT ![victim] = IF @ = "null" THEN "null" ELSE "freed"]
     /\ parent_pid' = ParentsAfter
     /\ exists' = IF parent = NONE THEN exists \ {victim} ELSE exists
     /\ IF ParentWaits
        THEN resume_process(parent) /\ waiting_on' = [waiting_on EXCEPT ![parent] = NONE]
        ELSE UNCHANGED <<ready, lists, waiting_on>>
     /\ exited' = exited \cup {victim}
     /\ victim' = NULL
     /\ kfd' = 0
     /\ IF current_process = NULL
        THEN kpc' = "switch" /\ UNCHANGED in_syscall
        ELSE Return
     /\ UNCHANGED <<current_process, fdVars, pipeVars, mailbox_size, receive_blocked>>

syscall_exit(c) ==
  /\ c[1] = "exit" /\ Entering(c)
  /\ KillBegin(current_process)
  /\ in_syscall' = [in_syscall EXCEPT ![current_process] = c]
  /\ UNCHANGED <<procVars, ready, fdVars, pipeVars, mailVars>>

(* kill only asks whether the slot is in use.                              *)
syscall_kill(c) ==
  /\ c[1] = "kill" /\ Entering(c)
  /\ IF c[2] \notin exists THEN ReturnOnly
     ELSE /\ KillBegin(c[2])
          /\ in_syscall' = [in_syscall EXCEPT ![current_process] = c]
          /\ UNCHANGED <<procVars, ready, fdVars, pipeVars, mailVars>>

-----------------------------------------------------------------------------
(* The processes still marked as blocked in receive after a message to     *)
(* dest; the faulty variant leaves dest marked.                            *)
StillBlocked(dest) == receive_blocked
BlockedAfter(dest) == receive_blocked \ {dest}

(* send: allocate the mailbox or use its next entry, and resume the        *)
(* destination if it is blocked in receive. It only asks whether the       *)
(* destination's slot is in use, so the mailbox may be freed storage.      *)
syscall_send(c) ==
  LET dest == c[2]
      wake == dest \in receive_blocked
  IN
  /\ c[1] = "send" /\ Entering(c)
  /\ IF dest \notin exists \/ (mailbox[dest] # "null" /\ mailbox_size[dest] >= MAILBOX_ALLOC)
     THEN ReturnOnly
     ELSE IF wake /\ ~ resume_asserts(dest) THEN Panic
     ELSE /\ mailbox' = [mailbox EXCEPT ![dest] = IF @ = "null" THEN "live" ELSE @]
          /\ mailbox_size' = [mailbox_size EXCEPT ![dest] =
                                IF mailbox[dest] = "null" THEN 1 ELSE @ + 1]
          /\ heap_fault' = (heap_fault \/ mailbox[dest] = "freed")
          /\ IF wake THEN resume_process(dest) ELSE UNCHANGED <<ready, lists>>
          /\ receive_blocked' = BlockedAfter(dest)
          /\ Return
          /\ UNCHANGED <<procVars, current_process, fdVars, pipeVars, victim, kfd>>

(* receive: take the first message, or block (c[3] = 1), or fail.          *)
syscall_receive(c) ==
  LET waiting == mailbox_size[current_process] IN
  /\ c[1] = "receive" /\ Entering(c)
  /\ \/ /\ waiting > 0
        /\ mailbox_size' = [mailbox_size EXCEPT ![current_process] = @ - 1]
        /\ heap_fault' = (heap_fault \/ mailbox[current_process] = "freed")
        /\ Return
        /\ UNCHANGED <<procVars, schedVars, fdVars, pipeVars, mailbox, receive_blocked,
                       victim, kfd>>
     \/ /\ waiting = 0 /\ c[3] = 1
        /\ IF suspend_asserts(current_process)
           THEN /\ receive_blocked' = receive_blocked \cup {current_process}
                /\ SuspendIn(c)
                /\ UNCHANGED <<procVars, current_process, fdVars, pipeVars, mailbox,
                               mailbox_size, killVars>>
           ELSE Panic
     \/ /\ waiting = 0 /\ c[3] = 0
        /\ ReturnOnly
=============================================================================
