------------------------------ MODULE Messages ------------------------------
(***************************************************************************)
(* Message passing with its data: the mailbox of syscall_send and          *)
(* syscall_receive is an array that is shifted down by memmove, and a      *)
(* message carries its sender, tag, size and contents.                     *)
(*                                                                         *)
(* Of the rest of the kernel this module keeps what programs that talk by  *)
(* messages need: fork, exit, kill and waitpid. Module Kernel models these *)
(* with the scheduler's lists and the steps of kill_process; here each is  *)
(* one step, and any ready process may run next, which includes every      *)
(* order the round robin scheduler chooses.                                *)
(***************************************************************************)
EXTENDS Libc

CONSTANTS FirstPid,           \* the slots the programs live in
          LastPid,
          MAILBOX_ALLOC,      \* messages a mailbox holds, 8 in the code
          MAX_MESSAGE_SIZE

ASSUME MessagesAssumption ==
  /\ FirstPid \in Nat /\ LastPid \in Nat /\ FirstPid <= LastPid
  /\ MAILBOX_ALLOC \in Nat \ {0}
  /\ MAX_MESSAGE_SIZE \in Nat

Pids == FirstPid .. LastPid
Slots == 0 .. (MAILBOX_ALLOC - 1)
NoPid == -1

VARIABLES
  exists, exited,    \* slots in use; those of them whose process is dead
  ready,             \* processes that may run
  parent_pid, waiting_on,
  mailbox,           \* [Pids -> NULL or an array of messages]
  mailbox_size,
  receive_blocked,
  msg                \* [Pids -> the message struct of the program]

procVars == <<exists, exited, ready, parent_pid, waiting_on>>
mailVars == <<mailbox, mailbox_size, receive_blocked, msg>>
kernelVars == <<procVars, mailVars>>

Message(from, tag, size, data) == [from |-> from, tag |-> tag, size |-> size, data |-> data]

(* Contents: a number, or the characters of a text.                        *)
Number(n) == <<n>>

(* What an entry of freshly allocated storage holds.                       *)
Garbage == Message(NoPid, "NONE", 0, <<>>)
NoMailbox == <<>>

Running(p) == p \in (exists \ exited) \cap ready

KernelInit ==
  /\ exists = {FirstPid} /\ exited = {} /\ ready = {FirstPid}
  /\ parent_pid = [p \in Pids |-> NoPid]
  /\ waiting_on = [p \in Pids |-> NoPid]
  /\ mailbox = [p \in Pids |-> NoMailbox]
  /\ mailbox_size = [p \in Pids |-> 0]
  /\ receive_blocked = {}
  /\ msg = [p \in Pids |-> Garbage]

-----------------------------------------------------------------------------
(* What send returns.                                                      *)
SendResult(to, size) ==
  IF to \notin exists THEN "ESRCH"
  ELSE IF size > MAX_MESSAGE_SIZE THEN "EINVAL"
  ELSE IF mailbox[to] # NoMailbox /\ mailbox_size[to] >= MAILBOX_ALLOC THEN "ENOMEM"
  ELSE "0"

(* The storage for one more message to a process: allocated with the first *)
(* one, and filled at the end.                                             *)
Delivered(to, m) ==
  IF mailbox[to] = NoMailbox
  THEN [k \in Slots |-> IF k = 0 THEN m ELSE Garbage]
  ELSE [mailbox[to] EXCEPT ![mailbox_size[to]] = m]

(* send by process p. It resumes the destination if that is blocked in     *)
(* receive; the destination then repeats its call.                         *)
syscall_send(p, to, tag, size, data) ==
  IF SendResult(to, size) # "0" THEN UNCHANGED kernelVars
  ELSE /\ mailbox' = [mailbox EXCEPT ![to] = Delivered(to, Message(p, tag, size, data))]
       /\ mailbox_size' = [mailbox_size EXCEPT ![to] = @ + 1]
       /\ ready' = IF to \in receive_blocked THEN ready \cup {to} ELSE ready
       /\ receive_blocked' = receive_blocked \ {to}
       /\ UNCHANGED <<exists, exited, parent_pid, waiting_on, msg>>

(* What is left in the array once its first message is gone. The faulty    *)
(* variant shifts it the other way.                                        *)
ShiftedUp(p) == memmove(mailbox[p], 1, 0, mailbox_size[p] - 1)
Shifted(p) == memmove(mailbox[p], 0, 1, mailbox_size[p] - 1)

(* receive with a message in the mailbox.                                  *)
ReceiveFirst(p) ==
  /\ mailbox_size[p] > 0
  /\ msg' = [msg EXCEPT ![p] = mailbox[p][0]]
  /\ mailbox' = [mailbox EXCEPT ![p] = Shifted(p)]
  /\ mailbox_size' = [mailbox_size EXCEPT ![p] = @ - 1]
  /\ UNCHANGED <<procVars, receive_blocked>>

(* A blocking receive without one; the caller repeats it when resumed.     *)
ReceiveBlocks(p) ==
  /\ mailbox_size[p] = 0
  /\ receive_blocked' = receive_blocked \cup {p}
  /\ ready' = ready \ {p}
  /\ UNCHANGED <<exists, exited, parent_pid, waiting_on, mailbox, mailbox_size, msg>>

(* A non-blocking receive without one: EAGAIN.                             *)
ReceiveFails(p) == mailbox_size[p] = 0 /\ UNCHANGED kernelVars

-----------------------------------------------------------------------------
(* fork. The child of p is a copy of it, with an empty mailbox, in the     *)
(* lowest free slot; without one the call returns EAGAIN.                  *)
ForkFails == Pids \subseteq exists /\ UNCHANGED kernelVars

syscall_fork(p, child) ==
  /\ child \in Pids \ exists /\ \A q \in FirstPid .. (child - 1) : q \in exists
  /\ exists' = exists \cup {child}
  /\ exited' = exited \ {child}
  /\ ready' = ready \cup {child}
  /\ parent_pid' = [parent_pid EXCEPT ![child] = p]
  /\ waiting_on' = [waiting_on EXCEPT ![child] = 0]
  /\ mailbox' = [mailbox EXCEPT ![child] = NoMailbox]
  /\ mailbox_size' = [mailbox_size EXCEPT ![child] = 0]
  /\ receive_blocked' = receive_blocked \ {child}
  /\ msg' = [msg EXCEPT ![child] = msg[p]]

(* kill_process: children lose their parent, a parent that waits for the   *)
(* process is resumed, and the slot is kept for waitpid if there is one.   *)
kill_process(p) ==
  LET parent == parent_pid[p]
      waits  == parent # NoPid /\ waiting_on[parent] = p
  IN
  /\ parent_pid' = [q \in Pids |-> IF parent_pid[q] = p THEN NoPid ELSE parent_pid[q]]
  /\ exists' = IF parent = NoPid THEN exists \ {p} ELSE exists
  /\ exited' = exited \cup {p}
  /\ ready' = (ready \ {p}) \cup (IF waits THEN {parent} ELSE {})
  /\ waiting_on' = IF waits THEN [waiting_on EXCEPT ![parent] = NoPid] ELSE waiting_on
  /\ UNCHANGED mailVars

OwnChild(p, child) == child \in exists /\ parent_pid[child] = p

(* waitpid for a child that has exited, and for one that has not.          *)
Reap(p, child) ==
  /\ OwnChild(p, child) /\ child \in exited
  /\ exists' = exists \ {child}
  /\ waiting_on' = [waiting_on EXCEPT ![p] = NoPid]
  /\ UNCHANGED <<exited, ready, parent_pid, mailVars>>

WaitForChild(p, child) ==
  /\ OwnChild(p, child) /\ child \notin exited
  /\ waiting_on' = [waiting_on EXCEPT ![p] = child]
  /\ ready' = ready \ {p}
  /\ UNCHANGED <<exists, exited, parent_pid, mailVars>>

(* waitpid for a process that is not a child: ECHILD.                      *)
WaitFails(p, child) ==
  /\ ~ OwnChild(p, child)
  /\ waiting_on' = [waiting_on EXCEPT ![p] = NoPid]
  /\ UNCHANGED <<exists, exited, ready, parent_pid, mailVars>>

-----------------------------------------------------------------------------
(* The mailboxes implement the channels of Fifo.                           *)
Channel(p) == [k \in 1 .. mailbox_size[p] |-> mailbox[p][k - 1]]

Channels == INSTANCE Fifo WITH
  Users <- Pids, Capacity <- MAILBOX_ALLOC,
  live <- exists, chan <- [p \in Pids |-> Channel(p)], taken <- msg

MailboxIsFifo == Channels!FifoSpec

(* Why they do. A mailbox has room for MAILBOX_ALLOC messages from its     *)
(* first one on, and none before.                                          *)
MailboxesInv ==
  /\ exists \subseteq Pids
  /\ mailbox = [p \in Pids |-> mailbox[p]] /\ msg = [p \in Pids |-> msg[p]]
  /\ mailbox_size \in [Pids -> 0 .. MAILBOX_ALLOC]
  /\ \A p \in Pids :
       IF mailbox[p] = NoMailbox THEN mailbox_size[p] = 0
       ELSE mailbox[p] = [k \in Slots |-> mailbox[p][k]]
=============================================================================
