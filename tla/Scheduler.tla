----------------------------- MODULE Scheduler -----------------------------
(***************************************************************************)
(* The list macros of kernel.h and the scheduler of process.c.             *)
(***************************************************************************)
EXTENDS KernelState

(* list_add puts p at the FRONT of a list. It leaves p->prev as it is, and *)
(* p->next too when the list is empty.                                     *)
list_add(L, ll, p) ==
  LET f == L.first[ll] IN
  IF f # NULL
  THEN [first |-> [L.first EXCEPT ![ll] = p],
        last  |-> L.last,
        next  |-> [L.next EXCEPT ![p] = f],
        prev  |-> [L.prev EXCEPT ![f] = p]]
  ELSE [first |-> [L.first EXCEPT ![ll] = p],
        last  |-> [L.last EXCEPT ![ll] = p],
        next  |-> L.next,
        prev  |-> L.prev]

(* Faulty variant: the removed process keeps its next pointer.             *)
list_remove_keeps_next(L, ll, p) ==
  LET n == L.next[p]
      m == L.prev[p]
  IN  [first |-> [L.first EXCEPT ![ll] = IF @ = p THEN n ELSE @],
       last  |-> [L.last EXCEPT ![ll] = IF @ = p THEN m ELSE @],
       next  |-> [q \in Pids |-> IF q = m THEN n ELSE L.next[q]],
       prev  |-> [q \in Pids |-> IF q = p THEN NULL ELSE IF q = n THEN m ELSE L.prev[q]]]

list_remove(L, ll, p) ==
  LET n == L.next[p]
      m == L.prev[p]
  IN  [first |-> [L.first EXCEPT ![ll] = IF @ = p THEN n ELSE @],
       last  |-> [L.last EXCEPT ![ll] = IF @ = p THEN m ELSE @],
       next  |-> [q \in Pids |-> IF q = p THEN NULL ELSE IF q = m THEN n ELSE L.next[q]],
       prev  |-> [q \in Pids |-> IF q = p THEN NULL ELSE IF q = n THEN m ELSE L.prev[q]]]

(* suspend_process and resume_process, with the asserts they start with.   *)
suspend_asserts(p) == p \in exists /\ p \in ready

suspend_process(p) ==
  /\ ready' = ready \ {p}
  /\ lists' = list_add(list_remove(lists, "ready", p), "suspended", p)

resume_asserts(p) == p \in exists /\ p \notin ready

resume_process(p) ==
  /\ ready' = ready \cup {p}
  /\ lists' = list_add(list_remove(lists, "suspended", p), "ready", p)

(* The caller of c is suspended inside c: the handler returns -ESUSPEND    *)
(* and the dispatcher switches to another process.                         *)
SuspendIn(c) ==
  /\ suspend_process(current_process)
  /\ in_syscall' = [in_syscall EXCEPT ![current_process] = c]
  /\ kpc' = "switch"

(* Faulty variant of the scheduler's choice: it follows the list even if   *)
(* the current process has just been moved to the suspended list.          *)
NextAfterSuspended ==
  IF current_process # NULL /\ lists.next[current_process] # NULL
  THEN lists.next[current_process] ELSE lists.first["ready"]

(* The next process of the ready list after the current one, or the first  *)
(* of the list when there is no current process, it has just been          *)
(* suspended, or it is the last.                                           *)
NextProcess ==
  IF /\ current_process # NULL
     /\ current_process \in ready
     /\ lists.next[current_process] # NULL
  THEN lists.next[current_process] ELSE lists.first["ready"]

(* context_switch: a process that was suspended inside a system call makes *)
(* that call again; with no process ready the processor idles in user mode.*)
context_switch ==
  /\ current_process' = NextProcess
  /\ kpc' = IF NextProcess # NULL /\ in_syscall[NextProcess] # NoCall
            THEN "restart" ELSE "user"
  /\ UNCHANGED <<procVars, ready, lists, fdVars, pipeVars, mailVars, killVars, in_syscall>>
=============================================================================
