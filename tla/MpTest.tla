------------------------------- MODULE MpTest -------------------------------
(***************************************************************************)
(* The message passing tests of mptest.c, run by the calls of Messages. A  *)
(* step of a process is one system call and what follows it up to the next *)
(* one; a label names the call that comes next. The text that is printed   *)
(* is left out, but for what the broadcast test prints of its answers.     *)
(*                                                                         *)
(* A call inside try that returns an error, a failed assert and a result   *)
(* that differs from what the test prints as "should be" all lead to the   *)
(* label "failed", which has no successor.                                 *)
(***************************************************************************)
EXTENDS Messages

CONSTANTS PINGS,            \* 100 in the code
          NSLAVES,          \* 6
          RING_SIZE,        \* 4
          RING_MAX_PASSES,  \* 100
          MAX_SENDS,        \* 10000, in test_nb_multiple_messages
          Rounds,           \* bound: tests run one after the other
          Keys              \* bound: keys pressed in an interactive test

ASSUME MpTestAssumption ==
  /\ {PINGS, NSLAVES, RING_SIZE, RING_MAX_PASSES} \subseteq Nat \ {0}
  /\ NSLAVES <= MAILBOX_ALLOC /\ MAILBOX_ALLOC >= 2
  /\ MAX_SENDS \in Nat /\ MAILBOX_ALLOC < MAX_SENDS
     \* slots for main and the children of the largest test
  /\ \A n \in {2, NSLAVES, RING_SIZE} : n <= LastPid - FirstPid
  /\ 4 <= MAX_MESSAGE_SIZE  \* an int fits into a message
  /\ FirstPid # 99          \* the pid that test_error_handling takes for unused
  /\ {Rounds, Keys} \subseteq Nat

VARIABLES pc, local, rounds

vars == <<kernelVars, pc, local, rounds>>

main == FirstPid
IntSize == 4
TextSize == 100

(* A program's variables: a loop counter, the pids of its children, the    *)
(* next process of the ring, the token, and what broadcast has printed.    *)
NoLocals == [i |-> 0, pids |-> <<>>, next |-> 0, token |-> 0, said |-> <<>>]

Init ==
  /\ KernelInit
  /\ pc = [p \in Pids |-> "menu"]
  /\ local = [p \in Pids |-> NoLocals]
  /\ rounds = Rounds

At(p, label) == Running(p) /\ pc[p] = label

(* p goes on at a label with its variables as in l.                        *)
Continue(p, label, l) ==
  /\ pc' = [pc EXCEPT ![p] = label]
  /\ local' = [local EXCEPT ![p] = l]
  /\ UNCHANGED rounds
Goto(p, label) == Continue(p, label, local[p])
Stay == UNCHANGED <<pc, local, rounds>>

Count(p) == [local[p] EXCEPT !.i = @ + 1]
Reset(p) == [local[p] EXCEPT !.i = 0]

(* try(fork()): the child has a copy of p's variables and goes on          *)
(* elsewhere.                                                              *)
Fork(p, parentLabel, childLabel, after(_)) ==
  \/ ForkFails /\ Goto(p, "failed")
  \/ \E child \in Pids :
       /\ syscall_fork(p, child)
       /\ pc' = [pc EXCEPT ![p] = parentLabel, ![child] = childLabel]
       /\ local' = [local EXCEPT ![p] = after(child), ![child] = local[p]]
       /\ UNCHANGED rounds

Forked(p, child) == [local[p] EXCEPT !.pids = Append(@, child)]

(* try(send(...)), and send(...) whose result nobody looks at.             *)
TrySend(p, to, tag, size, data, label, l) ==
  /\ syscall_send(p, to, tag, size, data)
  /\ Continue(p, IF SendResult(to, size) = "0" THEN label ELSE "failed", l)
Send(p, to, tag, size, data, label, l) ==
  syscall_send(p, to, tag, size, data) /\ Continue(p, label, l)

(* try(receive(&msg, 1)) followed by asserts about the message.            *)
TryReceive(p, ok(_), label, l(_)) ==
  \/ ReceiveBlocks(p) /\ Stay
  \/ /\ ReceiveFirst(p)
     /\ Continue(p, IF ok(mailbox[p][0]) THEN label ELSE "failed", l(mailbox[p][0]))

TryWaitpid(p, child, label, l) ==
  \/ WaitForChild(p, child) /\ Stay
  \/ Reap(p, child) /\ Continue(p, label, l)
  \/ WaitFails(p, child) /\ Goto(p, "failed")

TryKill(p, victim, label) ==
  IF victim \in exists THEN kill_process(victim) /\ Goto(p, label)
                       ELSE UNCHANGED kernelVars /\ Goto(p, "failed")

Exit(p) == At(p, "exit") /\ kill_process(p) /\ Stay

Any(m) == TRUE

-----------------------------------------------------------------------------
(* main: the menu reads the number of a test; q leaves the program.        *)
FirstCall == [nb_simple |-> "nb_fork", nb_advanced |-> "adv_empty",
              nb_multiple |-> "multi_send", b_simple |-> "b_fork",
              ping_pong |-> "pong_fork", broadcast |-> "bc_fork",
              ring |-> "ring_fork", errors |-> "errors"]

Menu ==
  /\ At(main, "menu") /\ UNCHANGED kernelVars
  /\ \/ /\ rounds > 0 /\ rounds' = rounds - 1
        /\ \E test \in DOMAIN FirstCall :
             pc' = [pc EXCEPT ![main] = FirstCall[test]]
        /\ local' = [local EXCEPT ![main] = NoLocals]
     \/ Goto(main, "exit")

(* test_nb_receive_simple and test_b_receive_simple: the parent sends      *)
(* every key to a child that receives in a loop, and kills it at the end.  *)
SimpleParent ==
  \/ At(main, "nb_fork")
       /\ Fork(main, "simple_key", "nb_child", LAMBDA child : Forked(main, child))
  \/ At(main, "b_fork")
       /\ Fork(main, "simple_key", "b_child", LAMBDA child : Forked(main, child))
  \/ /\ At(main, "simple_key") /\ UNCHANGED kernelVars
     /\ \/ local[main].i < Keys /\ Continue(main, "simple_send", Count(main))
        \/ Goto(main, "simple_kill")
  \/ At(main, "simple_send")
       /\ Send(main, local[main].pids[1], "TEST", 1, Number(local[main].i), "simple_key", local[main])
  \/ At(main, "simple_kill") /\ TryKill(main, local[main].pids[1], "simple_wait")
  \/ At(main, "simple_wait") /\ TryWaitpid(main, local[main].pids[1], "menu", local[main])

SimpleChild(p) ==
  \/ At(p, "nb_child") /\ (ReceiveFirst(p) \/ ReceiveFails(p)) /\ Stay
  \/ At(p, "b_child") /\ TryReceive(p, Any, "b_child", LAMBDA m : local[p])

(* test_nb_receive_advanced: nothing to receive, then one's own message.   *)
Advanced ==
  \/ /\ At(main, "adv_empty")
     /\ \/ ReceiveFails(main) /\ Goto(main, "adv_send")
        \/ ReceiveFirst(main) /\ Goto(main, "failed")
  \/ At(main, "adv_send")
       /\ TrySend(main, main, "TEST", IntSize, Number(1234), "adv_receive", local[main])
  \/ /\ At(main, "adv_receive")
     /\ \/ ReceiveFails(main) /\ Goto(main, "failed")
        \/ /\ ReceiveFirst(main)
           /\ Goto(main, IF mailbox[main][0] = Message(main, "TEST", IntSize, Number(1234))
                         THEN "menu" ELSE "failed")

(* test_nb_multiple_messages: send until there is no room, then receive    *)
(* all, in order. token holds nsent. If the loop ended at its bound, errno *)
(* would not be the ENOMEM that it should be.                              *)
Multiple ==
  LET i == local[main].i
      n == local[main].token
  IN
  \/ /\ At(main, "multi_send")
     /\ IF i >= MAX_SENDS THEN UNCHANGED kernelVars /\ Goto(main, "failed")
        ELSE /\ syscall_send(main, main, "TEST", IntSize, Number(i))
             /\ CASE SendResult(main, IntSize) = "0" ->
                       Continue(main, "multi_send", Count(main))
                  [] SendResult(main, IntSize) = "ENOMEM" ->
                       Continue(main, "multi_receive", [Reset(main) EXCEPT !.token = i])
                  [] OTHER -> Goto(main, "failed")
  \/ /\ At(main, "multi_receive") /\ i < n
     /\ \/ ReceiveFails(main) /\ Goto(main, "failed")
        \/ /\ ReceiveFirst(main)
           /\ Continue(main, IF mailbox[main][0].tag = "TEST" /\ mailbox[main][0].size = IntSize
                                  /\ mailbox[main][0].data = Number(i)
                             THEN "multi_receive" ELSE "failed", Count(main))
  \/ /\ At(main, "multi_receive") /\ i >= n
     /\ \/ ReceiveFails(main) /\ Goto(main, "menu")
        \/ ReceiveFirst(main) /\ Goto(main, "failed")

-----------------------------------------------------------------------------
(* ping and pong, the two children of test_ping_pong.                      *)
Ping(p) ==
  \/ /\ At(p, "ping") /\ local[p].i < PINGS
     /\ TrySend(p, local[p].pids[1], "PING", 0, <<>>, "ping_receive", local[p])
  \/ At(p, "ping_receive") /\ TryReceive(p, Any, "ping", LAMBDA m : Count(p))
  \/ At(p, "ping") /\ local[p].i >= PINGS /\ UNCHANGED kernelVars /\ Goto(p, "exit")

Pong(p) ==
  \/ /\ At(p, "pong") /\ local[p].i < PINGS
     /\ TryReceive(p, Any, "pong_send", LAMBDA m : local[p])
  \/ At(p, "pong_send") /\ TrySend(p, msg[p].from, "PONG", 0, <<>>, "pong", Count(p))
  \/ At(p, "pong") /\ local[p].i >= PINGS /\ UNCHANGED kernelVars /\ Goto(p, "exit")

test_ping_pong ==
  \/ At(main, "pong_fork")
       /\ Fork(main, "ping_fork", "pong", LAMBDA child : Forked(main, child))
  \/ At(main, "ping_fork")
       /\ Fork(main, "pong_wait", "ping", LAMBDA child : Forked(main, child))
  \/ At(main, "pong_wait") /\ TryWaitpid(main, local[main].pids[1], "ping_wait", local[main])
  \/ At(main, "ping_wait") /\ TryWaitpid(main, local[main].pids[2], "menu", local[main])

-----------------------------------------------------------------------------
(* The loop of a test over its children: the body while i < n, and then    *)
(* on to the next label with i = 0.                                        *)
EndOfLoop(label, n, next) ==
  /\ At(main, label) /\ local[main].i >= n
  /\ UNCHANGED kernelVars /\ Continue(main, next, Reset(main))
InLoop(label, n) == At(main, label) /\ local[main].i < n

ChildAt(k) == local[main].pids[k + 1]

(* The texts of test_broadcast and slave, with shorter wording.            *)
Command(pid) == snprintf(TextSize, <<"Y", " ", "%", "d">>, <<pid>>)
Response(pid, text) == snprintf(TextSize, <<"I", " ", "%", "d", ":", "%", "s">>, <<pid, text>>)

slave(p) ==
  \/ At(p, "slave") /\ TryReceive(p, Any, "slave_send", LAMBDA m : local[p])
  \/ LET str == Response(p, msg[p].data) IN
     At(p, "slave_send")
       /\ Send(p, msg[p].from, "RESPONSE", Len(str) + 1, str, "exit", local[p])

test_broadcast ==
  LET i   == local[main].i
      Heard(m) == [Count(main) EXCEPT !.said = Append(@, m)]
  IN
  \/ InLoop("bc_fork", NSLAVES) /\ Fork(main, "bc_fork", "slave",
       LAMBDA child : [Forked(main, child) EXCEPT !.i = @ + 1])
  \/ EndOfLoop("bc_fork", NSLAVES, "bc_send")
  \/ LET str == Command(ChildAt(i)) IN
     InLoop("bc_send", NSLAVES)
       /\ Send(main, ChildAt(i), "COMMAND", Len(str) + 1, str, "bc_send", Count(main))
  \/ EndOfLoop("bc_send", NSLAVES, "bc_receive")
  \/ InLoop("bc_receive", NSLAVES) /\ TryReceive(main, Any, "bc_receive", Heard)
  \/ EndOfLoop("bc_receive", NSLAVES, "bc_wait")
  \/ InLoop("bc_wait", NSLAVES) /\ TryWaitpid(main, ChildAt(i), "bc_wait", Count(main))
  \/ EndOfLoop("bc_wait", NSLAVES, "menu")

-----------------------------------------------------------------------------
IsNeighbour(m) == m.tag = "NEIGHBOUR" /\ m.size = IntSize
IsToken(m) == m.tag = "TOKEN" /\ m.size = IntSize

(* Faulty variant: a process that has finished the token's passes hands it *)
(* on to its neighbour as well.                                            *)
RingPassBoth(p) ==
  LET token == local[p].token IN
  /\ At(p, "ring_pass")
  /\ IF token < RING_MAX_PASSES
     THEN TrySend(p, local[p].next, "TOKEN", IntSize, Number(token), "ring_pass",
                  [local[p] EXCEPT !.token = RING_MAX_PASSES])
     ELSE Send(p, main, "TOKEN", IntSize, Number(token), "ring_loop", local[p])

(* A process of the ring passes the token on, or back to main.             *)
RingPass(p) ==
  LET token == local[p].token IN
  /\ At(p, "ring_pass")
  /\ IF token < RING_MAX_PASSES
     THEN TrySend(p, local[p].next, "TOKEN", IntSize, Number(token), "ring_loop", local[p])
     ELSE Send(p, main, "TOKEN", IntSize, Number(token), "ring_loop", local[p])

(* The token that a process passes on; the faulty variant forgets to count *)
(* the pass.                                                               *)
TokenKept(m) == m.data[1]
TokenAfter(m) == m.data[1] + 1

(* ring: the first message names the neighbour, all others are the token.  *)
Ring(p) ==
  \/ At(p, "ring_first") /\ TryReceive(p, IsNeighbour, "ring_loop",
       LAMBDA m : [local[p] EXCEPT !.next = m.data[1]])
  \/ At(p, "ring_loop") /\ TryReceive(p, IsToken, "ring_pass",
       LAMBDA m : [local[p] EXCEPT !.token = TokenAfter(m)])
  \/ RingPass(p)

test_ring ==
  LET i == local[main].i IN
  \/ InLoop("ring_fork", RING_SIZE) /\ Fork(main, "ring_fork", "ring_first",
       LAMBDA child : [Forked(main, child) EXCEPT !.i = @ + 1])
  \/ EndOfLoop("ring_fork", RING_SIZE, "ring_send")
  \/ InLoop("ring_send", RING_SIZE)
       /\ Send(main, ChildAt(i), "NEIGHBOUR", IntSize, Number(ChildAt((i + 1) % RING_SIZE)),
               "ring_send", Count(main))
  \/ EndOfLoop("ring_send", RING_SIZE, "ring_start")
  \/ At(main, "ring_start")
       /\ Send(main, ChildAt(0), "TOKEN", IntSize, Number(0), "ring_receive", local[main])
  \/ At(main, "ring_receive") /\ TryReceive(main, IsToken, "ring_kill",
       LAMBDA m : [local[main] EXCEPT !.token = m.data[1]])
  \/ InLoop("ring_kill", RING_SIZE) /\ TryKill(main, ChildAt(i), "ring_wait")
  \/ At(main, "ring_wait") /\ TryWaitpid(main, ChildAt(i), "ring_kill", Count(main))
  \/ EndOfLoop("ring_kill", RING_SIZE, "menu")

(* test_error_handling: a message that is too long, and one to a slot that *)
(* is not in use. The two with bad pointers are refused before anything    *)
(* else is looked at.                                                      *)
test_error_handling ==
  /\ At(main, "errors") /\ UNCHANGED kernelVars
  /\ Goto(main, IF /\ SendResult(main, MAX_MESSAGE_SIZE + 1) = "EINVAL"
                   /\ SendResult(99, 1) = "ESRCH"
                THEN "menu" ELSE "failed")

(* Nothing is left to do once the program has been left.                   *)
Finished == main \notin exists /\ UNCHANGED vars

Next ==
  \/ Menu \/ SimpleParent \/ Advanced \/ Multiple \/ test_ping_pong
  \/ test_broadcast \/ test_ring \/ test_error_handling
  \/ \E p \in Pids : SimpleChild(p) \/ Ping(p) \/ Pong(p) \/ slave(p) \/ Ring(p) \/ Exit(p)
  \/ Finished

Spec == Init /\ [][Next]_vars

-----------------------------------------------------------------------------
(* No try of mptest.c exits, no assert fails, and every result is what the *)
(* tests print that it should be, whatever the order the processes run in  *)
(* and whichever tests ran before.                                         *)
TestsPass == \A p \in exists : pc[p] # "failed"

(* test_broadcast hears every slave once, and what it prints for a slave   *)
(* is that slave's answer to the message for it: the numbers in the text   *)
(* read back as the pid of the sender.                                     *)
EverySlaveAnswers ==
  LET said == local[main].said IN
  /\ \A k \in 1 .. Len(said) :
       LET text  == said[k].data
           colon == CHOOSE n \in 1 .. Len(text) : text[n] = ":"
       IN /\ atoi(SubSeq(text, 2, Len(text))) = said[k].from
          /\ atoi(SubSeq(text, colon + 2, Len(text))) = said[k].from
          /\ \A j \in 1 .. (k - 1) : said[j].from # said[k].from
  /\ pc[main] = "bc_wait" => Len(said) = NSLAVES

(* There is one token while test_ring waits for it to come back, either in *)
(* a mailbox or with the process that passes it on.                        *)
OneToken ==
  LET InMailboxes == {e \in Pids \X Slots :
                        e[2] < mailbox_size[e[1]] /\ mailbox[e[1]][e[2]].tag = "TOKEN"}
      Held == {p \in Pids : pc[p] = "ring_pass"}
  IN pc[main] = "ring_receive" /\ main \in exists =>
       Cardinality(InMailboxes) + Cardinality(Held) = 1

-----------------------------------------------------------------------------
(* Fairness: somebody who can run does. The scheduler is never idle while  *)
(* there is a ready process, and no program computes forever between two   *)
(* calls. Nobody need press a key.                                         *)
Interactive == {"menu", "exit", "simple_key", "simple_send", "simple_kill", "simple_wait",
                "nb_fork", "b_fork"}
FairSpec == Spec /\ WF_vars(Next)

(* Every test that does not wait for keys comes back to the menu.          *)
TestsFinish ==
  (pc[main] \notin Interactive) ~> (pc[main] = "menu")
=============================================================================
