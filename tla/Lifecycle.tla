----------------------------- MODULE Lifecycle -----------------------------
(***************************************************************************)
(* What the process table promises programs, without lists, descriptors,   *)
(* pipes or mailboxes: the states a process goes through, who may create   *)
(* and release it, and whose child it is.                                  *)
(***************************************************************************)
EXTENDS Integers

CONSTANTS Pids

VARIABLES
  status,  \* of each slot: "free", "ready", "blocked" or "zombie"
  parent   \* the process that may wait for it, or -1

lvars == <<status, parent>>

Alive(p) == status[p] \in {"ready", "blocked"}

LInit ==
  /\ status = [p \in Pids |-> IF p = 1 THEN "ready" ELSE "free"]
  /\ parent = [p \in Pids |-> -1]

(* A ready process makes a child in a free slot.                           *)
Create(p, c) ==
  /\ status[p] = "ready" /\ status[c] = "free"
  /\ status' = [status EXCEPT ![c] = "ready"]
  /\ parent' = [parent EXCEPT ![c] = p]

(* A process blocks, and is woken by some event.                           *)
Block(p) ==
  /\ status[p] = "ready"
  /\ status' = [status EXCEPT ![p] = "blocked"]
  /\ UNCHANGED parent

Wake(p) ==
  /\ status[p] = "blocked"
  /\ status' = [status EXCEPT ![p] = "ready"]
  /\ UNCHANGED parent

(* A process dies once, alive. Its slot is released if nobody can wait for *)
(* it; otherwise it becomes a zombie, and its parent, if blocked, may be   *)
(* woken. Its children lose their parent.                                  *)
Die(p) ==
  /\ Alive(p)
  /\ parent' = [q \in Pids |-> IF parent[q] = p \/ (q = p /\ parent[p] = -1)
                               THEN -1 ELSE parent[q]]
  /\ \/ parent[p] = -1 /\ status' = [status EXCEPT ![p] = "free"]
     \/ parent[p] # -1 /\ status' = [status EXCEPT ![p] = "zombie"]
     \/ /\ parent[p] # -1 /\ status[parent[p]] = "blocked"
        /\ status' = [status EXCEPT ![p] = "zombie", ![parent[p]] = "ready"]

(* Only its parent, while ready, releases a zombie.                        *)
Reap(p, c) ==
  /\ status[p] = "ready" /\ status[c] = "zombie" /\ parent[c] = p
  /\ status' = [status EXCEPT ![c] = "free"]
  /\ parent' = [parent EXCEPT ![c] = -1]

LNext ==
  \E p \in Pids :
    \/ Block(p) \/ Wake(p) \/ Die(p)
    \/ \E c \in Pids : Create(p, c) \/ Reap(p, c)

LSpec == LInit /\ [][LNext]_lvars
=============================================================================
