---------------------------- MODULE MessageSafety ----------------------------
(***************************************************************************)
(* Proofs about message passing, for any number of processes, any mailbox  *)
(* capacity and any sizes of the tests.                                    *)
(*                                                                         *)
(* First, the mailboxes of syscall_send and syscall_receive implement      *)
(* first-in first-out channels. Then, no test of mptest.c fails, and its   *)
(* ring has one token. The inductive invariant of the second part, Phases, *)
(* has one disjunct for every stage of a test; each says which processes   *)
(* there are, at which call each of them can be and what its mailbox can   *)
(* hold. A step of the program stays in a stage or enters the next one.    *)
(***************************************************************************)
EXTENDS MpTest, SequenceTheorems, FiniteSetTheorems, TLAPS

(* The messages in an array of which the first n entries are in use.       *)
Queue(box, n) == [k \in 1 .. n |-> box[k - 1]]

(* A queue is a sequence of n messages.                                    *)
LEMMA QueueIsSeq ==
  ASSUME NEW box, NEW n \in Nat
  PROVE  /\ Queue(box, n) \in Seq({box[k] : k \in 0 .. (n - 1)})
         /\ Len(Queue(box, n)) = n
         /\ DOMAIN Queue(box, n) = 1 .. n
         /\ \A k \in 1 .. n : Queue(box, n)[k] = box[k - 1]
<1> DEFINE S == {box[k] : k \in 0 .. (n - 1)}
<1>1. \A k \in 1 .. n : box[k - 1] \in S
  OBVIOUS
<1>2. Queue(box, n) \in [1 .. n -> S]
  BY <1>1 DEF Queue
<1>3. Queue(box, n) \in Seq(S)
  BY <1>2, SeqDef
<1>4. DOMAIN Queue(box, n) = 1 .. n
  BY <1>2
<1>5. Len(Queue(box, n)) = n
  BY <1>3, <1>4, LenProperties
<1> QED
  BY <1>3, <1>4, <1>5 DEF Queue

(* An array that keeps its first n entries, with one more in use, is the   *)
(* queue with one more message at its end.                                 *)
LEMMA QueuePut ==
  ASSUME NEW box, NEW box2, NEW n \in Nat,
         \A k \in 0 .. (n - 1) : box2[k] = box[k]
  PROVE  SubSeq(Queue(box2, n + 1), 1, n) = Queue(box, n)
<1> DEFINE m == n + 1
           S == {box2[k] : k \in 0 .. (m - 1)}
           R == Queue(box2, m)
<1>m. m \in Nat /\ m = n + 1
  OBVIOUS
<1> HIDE DEF m
<1>1. R \in Seq(S) /\ Len(R) = m /\ \A k \in 1 .. m : R[k] = box2[k - 1]
  BY <1>m, QueueIsSeq
<1>2. SubSeq(R, 1, n) = [k \in 1 .. n |-> R[k]]
  BY <1>1, <1>m
<1>3. \A k \in 1 .. n : R[k] = box[k - 1]
  BY <1>1, <1>m
<1> QED
  BY <1>2, <1>3, <1>m DEF Queue

(* An array whose first entries have moved down by one is the queue        *)
(* without its head.                                                       *)
LEMMA QueueGet ==
  ASSUME NEW box, NEW box2, NEW n \in Nat \ {0},
         \A k \in 0 .. (n - 2) : box2[k] = box[k + 1]
  PROVE  /\ Queue(box, n) # <<>>
         /\ Head(Queue(box, n)) = box[0]
         /\ Tail(Queue(box, n)) = Queue(box2, n - 1)
<1> DEFINE S == {box[k] : k \in 0 .. (n - 1)}
           Q == Queue(box, n)
           R == Queue(box2, n - 1)
<1>1. Q \in Seq(S) /\ Len(Q) = n /\ \A k \in 1 .. n : Q[k] = box[k - 1]
  BY QueueIsSeq
<1>2. Q # <<>> /\ Head(Q) = box[0]
  <2>1. 1 \in 1 .. n /\ 1 - 1 = 0 /\ n # 0
    OBVIOUS
  <2> HIDE DEF Q
  <2>2. Q # <<>>
    BY <2>1, <1>1, EmptySeq
  <2>3. Head(Q) = Q[1]
    BY <2>2, <1>1
  <2> QED
    BY <2>1, <2>2, <2>3, <1>1
<1>3. Tail(Q) = [k \in 1 .. (n - 1) |-> Q[k + 1]]
  <2>1. Tail(Q) \in Seq(S) /\ Len(Tail(Q)) = n - 1
        /\ \A k \in 1 .. (n - 1) : Tail(Q)[k] = Q[k + 1]
    BY <1>1, <1>2, HeadTailProperties
  <2>2. Tail(Q) \in [1 .. (n - 1) -> S]
    BY <2>1, LenProperties
  <2> QED  BY <2>1, <2>2
<1>4. \A k \in 1 .. (n - 1) : Q[k + 1] = box2[k - 1]
  <2> SUFFICES ASSUME NEW k \in 1 .. (n - 1) PROVE Q[k + 1] = box2[k - 1]
    OBVIOUS
  <2>1. Q[k + 1] = box[k + 1 - 1]
    BY <1>1
  <2>2. k - 1 \in 0 .. (n - 2) /\ k + 1 - 1 = k - 1 + 1
    OBVIOUS
  <2> QED  BY <2>1, <2>2
<1> QED
  BY <1>2, <1>3, <1>4 DEF Queue

-----------------------------------------------------------------------------
(* What a step may do to the mailboxes: a step of Fifo, or nothing; and it *)
(* keeps them in order.                                                    *)
MailStep == MailboxesInv' /\ (Channels!FifoNext \/ UNCHANGED Channels!fifoVars)

(* A step that leaves the mailboxes alone; a process may end.              *)
LEMMA MailUnchanged ==
  ASSUME MailboxesInv, UNCHANGED <<mailbox, mailbox_size, msg>>, NEW q,
         exists' \in {exists, exists \ {q}}
  PROVE  MailStep
<1>1. MailboxesInv'
  BY DEF MailboxesInv
<1>2. UNCHANGED <<[p \in Pids |-> Channel(p)], msg>>
  BY DEF Channel
<1>3. CASE exists' = exists
  BY <1>1, <1>2, <1>3 DEF Channels!fifoVars, MailStep
<1>4. CASE exists' # exists
  <2>1. q \in exists /\ q \in Pids /\ exists' = exists \ {q}
    BY <1>4 DEF MailboxesInv
  <2>2. Channels!End(q)
    BY <1>2, <2>1 DEF Channels!End
  <2> QED
    BY <1>1, <2>1, <2>2 DEF MailStep, Channels!FifoNext
<1> QED
  BY <1>3, <1>4

(* send adds its message at the end of one channel, or does nothing.       *)
LEMMA SendStep ==
  ASSUME MailboxesInv, NEW p \in exists, NEW to, NEW tag, NEW size, NEW data,
         syscall_send(p, to, tag, size, data)
  PROVE  MailStep
<1>1. CASE SendResult(to, size) # "0"
  <2>1. UNCHANGED kernelVars
    BY <1>1 DEF syscall_send
  <2> QED
    BY <2>1, MailUnchanged DEF kernelVars, procVars, mailVars, MailboxesInv
<1>2. CASE SendResult(to, size) = "0"
  <2> DEFINE m == Message(p, tag, size, data)
             n == mailbox_size[to]
             box == Delivered(to, m)
  <2>1. /\ mailbox' = [mailbox EXCEPT ![to] = box]
        /\ mailbox_size' = [mailbox_size EXCEPT ![to] = @ + 1]
        /\ UNCHANGED <<exists, msg>>
    BY <1>2 DEF syscall_send
  <2>2. to \in exists /\ to \in Pids /\ n < MAILBOX_ALLOC /\ n \in Nat
    <3>1. to \in exists /\ to \in Pids /\ n \in 0 .. MAILBOX_ALLOC
      BY <1>2 DEF SendResult, MailboxesInv
    <3>2. mailbox[to] = NoMailbox => n = 0
      BY <3>1 DEF MailboxesInv
    <3>3. mailbox[to] # NoMailbox => ~ (n >= MAILBOX_ALLOC)
      BY <1>2 DEF SendResult
    <3> QED
      BY <3>1, <3>2, <3>3, MessagesAssumption
  <2>3. /\ box = [k \in Slots |-> box[k]] /\ \A k \in 0 .. (n - 1) : box[k] = mailbox[to][k]
        /\ box[n] = m
    <3>0. n \in Slots
      BY <2>2, MessagesAssumption DEF Slots
    <3>1. CASE mailbox[to] = NoMailbox
      <4>1. n = 0
        BY <3>1, <2>2 DEF MailboxesInv
      <4>2. 0 \in Slots /\ box = [k \in Slots |-> IF k = 0 THEN m ELSE Garbage]
        BY <3>0, <3>1, <4>1 DEF Delivered
      <4> HIDE DEF m, box
      <4> QED
        BY <4>1, <4>2
    <3>2. CASE mailbox[to] # NoMailbox
      <4>1. mailbox[to] = [k \in Slots |-> mailbox[to][k]]
        BY <3>2, <2>2 DEF MailboxesInv
      <4>2. box = [mailbox[to] EXCEPT ![n] = m]
        BY <3>2 DEF Delivered
      <4>3. box = [k \in Slots |-> IF k = n THEN m ELSE mailbox[to][k]]
        BY <4>1, <4>2
      <4>4. \A k \in 0 .. (n - 1) : k \in Slots /\ k # n
        BY <2>2, MessagesAssumption DEF Slots
      <4> QED
        BY <3>0, <4>3, <4>4
    <3> QED
      BY <3>1, <3>2
  <2>7. m.from = p
    BY DEF Message
  <2>4. box # NoMailbox
    <3>1. DOMAIN box = Slots /\ 0 \in Slots
      BY <2>3, MessagesAssumption DEF Slots
    <3> QED
      BY <3>1 DEF NoMailbox
  <2> HIDE DEF box, n, m
  <2>5. MailboxesInv'
    <3>1. mailbox' = [q \in Pids |-> IF q = to THEN box ELSE mailbox[q]]
      BY <2>1, <2>2 DEF MailboxesInv
    <3>2. mailbox_size' = [q \in Pids |-> IF q = to THEN n + 1 ELSE mailbox_size[q]]
      BY <2>1, <2>2 DEF MailboxesInv, n
    <3>3. mailbox_size' \in [Pids -> 0 .. MAILBOX_ALLOC]
      BY <2>2, <3>2, MessagesAssumption DEF MailboxesInv
    <3>4. \A q \in Pids :
            IF mailbox'[q] = NoMailbox THEN mailbox_size'[q] = 0
            ELSE mailbox'[q] = [k \in Slots |-> mailbox'[q][k]]
      <4> SUFFICES ASSUME NEW q \in Pids
                   PROVE IF mailbox'[q] = NoMailbox THEN mailbox_size'[q] = 0
                         ELSE mailbox'[q] = [k \in Slots |-> mailbox'[q][k]]
        OBVIOUS
      <4>1. CASE q = to
        BY <4>1, <3>1, <2>3, <2>4
      <4>2. CASE q # to
        BY <4>2, <3>1, <3>2 DEF MailboxesInv
      <4> QED  BY <4>1, <4>2
    <3>5. exists' \subseteq Pids /\ msg' = [q \in Pids |-> msg'[q]]
      BY <2>1 DEF MailboxesInv
    <3>6. mailbox' = [q \in Pids |-> mailbox'[q]]
      BY <3>1
    <3> QED
      BY <3>3, <3>4, <3>5, <3>6 DEF MailboxesInv
  <2>6. Channels!Put(to)
    <3>1. Channel(to) = Queue(mailbox[to], n) /\ Channel(to)' = Queue(box, n + 1)
      BY <2>1, <2>2 DEF Channel, Queue, MailboxesInv, n
    <3>2. Len(Channel(to)) = n /\ Len(Channel(to)') = n + 1
          /\ SubSeq(Channel(to)', 1, n) = Channel(to)
      <4> DEFINE old == mailbox[to]
                 m2 == n + 1
      <4>1. \A k \in 0 .. (n - 1) : box[k] = old[k]
        BY <2>3
      <4>2. m2 \in Nat /\ m2 = n + 1
        BY <2>2
      <4> HIDE DEF old, m2
      <4>3. SubSeq(Queue(box, n + 1), 1, n) = Queue(old, n)
        BY <2>2, <4>1, QueuePut
      <4>4. Len(Queue(old, n)) = n /\ Len(Queue(box, m2)) = m2
        BY <2>2, <4>2, QueueIsSeq
      <4> QED
        BY <3>1, <4>2, <4>3, <4>4 DEF old
    <3>3. \A v \in Pids \ {to} : Channel(v)' = Channel(v)
      BY <2>1 DEF Channel, MailboxesInv
    <3>4. Channel(to)'[n + 1].from \in exists
      <4> DEFINE m2 == n + 1
      <4>1. m2 \in Nat /\ m2 \in 1 .. m2 /\ m2 - 1 = n
        BY <2>2
      <4>2. Channel(to)' = Queue(box, m2)
        BY <3>1
      <4> HIDE DEF m2
      <4>3. Queue(box, m2)[m2] = box[m2 - 1]
        BY <4>1, QueueIsSeq
      <4>4. Channel(to)'[m2] = m
        BY <4>1, <4>2, <4>3, <2>3
      <4> QED
        BY <4>4, <2>7 DEF m2
    <3> QED
      BY <3>2, <3>3, <3>4, <2>1, <2>2 DEF Channels!Put
  <2> QED
    BY <2>2, <2>5, <2>6 DEF MailStep, Channels!FifoNext
<1> QED
  BY <1>1, <1>2

(* receive takes exactly the first message of the caller's channel.        *)
LEMMA ReceiveStep ==
  ASSUME MailboxesInv, NEW p \in exists, ReceiveFirst(p)
  PROVE  MailStep
<1>p. p \in Pids
  BY DEF MailboxesInv
<1> DEFINE n == mailbox_size[p]
           box == Shifted(p)
<1>1. /\ mailbox' = [mailbox EXCEPT ![p] = box]
      /\ mailbox_size' = [mailbox_size EXCEPT ![p] = @ - 1]
      /\ msg' = [msg EXCEPT ![p] = mailbox[p][0]]
      /\ UNCHANGED exists
  BY DEF ReceiveFirst, procVars
<1>2. n \in Nat \ {0} /\ n <= MAILBOX_ALLOC
  BY MessagesAssumption DEF ReceiveFirst, MailboxesInv
<1>3. mailbox[p] = [k \in Slots |-> mailbox[p][k]]
  BY <1>2 DEF MailboxesInv
<1>4. box = [k \in Slots |-> box[k]] /\ \A k \in 0 .. (n - 2) : box[k] = mailbox[p][k + 1]
  <2>1. box = [k \in DOMAIN mailbox[p] |->
                 IF k < 0 \/ k >= 0 + (n - 1) THEN mailbox[p][k]
                 ELSE IF 1 < 0 THEN mailbox[p][1 + ((k - 0) % (0 - 1))]
                 ELSE mailbox[p][1 + (k - 0)]]
    BY DEF Shifted, memmove
  <2>2. DOMAIN mailbox[p] = Slots
    BY <1>3
  <2>3. \A k \in 0 .. (n - 2) : /\ k \in Slots /\ 1 + (k - 0) = k + 1
                                /\ ~ (k < 0 \/ k >= 0 + (n - 1))
    BY <1>2, MessagesAssumption DEF Slots
  <2>4. ~ (1 < 0)
    OBVIOUS
  <2> HIDE DEF box, n
  <2>5. \A k \in 0 .. (n - 2) : box[k] = mailbox[p][k + 1]
    BY <2>1, <2>2, <2>3, <2>4
  <2> QED
    BY <2>1, <2>2, <2>5
<1>5. box # NoMailbox
  <2>1. DOMAIN box = Slots /\ 0 \in Slots
    BY <1>4, MessagesAssumption DEF Slots
  <2> QED
    BY <2>1 DEF NoMailbox
<1> HIDE DEF box, n
<1>6. MailboxesInv'
  <2>1. mailbox' = [q \in Pids |-> IF q = p THEN box ELSE mailbox[q]]
    BY <1>1 DEF MailboxesInv
  <2>2. mailbox_size' = [q \in Pids |-> IF q = p THEN n - 1 ELSE mailbox_size[q]]
    BY <1>1 DEF MailboxesInv, n
  <2>3. mailbox_size' \in [Pids -> 0 .. MAILBOX_ALLOC]
    BY <1>2, <2>2, MessagesAssumption DEF MailboxesInv
  <2>4. \A q \in Pids :
          IF mailbox'[q] = NoMailbox THEN mailbox_size'[q] = 0
          ELSE mailbox'[q] = [k \in Slots |-> mailbox'[q][k]]
    <3> SUFFICES ASSUME NEW q \in Pids
                 PROVE IF mailbox'[q] = NoMailbox THEN mailbox_size'[q] = 0
                       ELSE mailbox'[q] = [k \in Slots |-> mailbox'[q][k]]
      OBVIOUS
    <3>1. CASE q = p
      BY <3>1, <2>1, <1>4, <1>5
    <3>2. CASE q # p
      BY <3>2, <2>1, <2>2 DEF MailboxesInv
    <3> QED  BY <3>1, <3>2
  <2>5. exists' \subseteq Pids /\ msg' = [q \in Pids |-> msg'[q]]
    BY <1>1 DEF MailboxesInv
  <2>6. mailbox' = [q \in Pids |-> mailbox'[q]]
    BY <2>1
  <2> QED
    BY <2>3, <2>4, <2>5, <2>6 DEF MailboxesInv
<1>7. Channels!Get(p)
  <2>1. Channel(p) = Queue(mailbox[p], n) /\ Channel(p)' = Queue(box, n - 1)
    BY <1>1, <1>2 DEF Channel, Queue, MailboxesInv, n
  <2>2. /\ Channel(p) # <<>>
        /\ Head(Channel(p)) = mailbox[p][0]
        /\ Tail(Channel(p)) = Channel(p)'
    <3> DEFINE old == mailbox[p]
    <3>1. \A k \in 0 .. (n - 2) : box[k] = old[k + 1]
      BY <1>4
    <3> HIDE DEF old
    <3>2. /\ Queue(old, n) # <<>>
          /\ Head(Queue(old, n)) = old[0]
          /\ Tail(Queue(old, n)) = Queue(box, n - 1)
      BY <1>2, <3>1, QueueGet
    <3> QED
      BY <2>1, <3>2 DEF old
  <2>3. \A v \in Pids \ {p} : Channel(v)' = Channel(v)
    BY <1>1 DEF Channel, MailboxesInv
  <2>4. [q \in Pids |-> Channel(q)'] = [[q \in Pids |-> Channel(q)] EXCEPT ![p] = Tail(@)]
    BY <2>2, <2>3
  <2> QED
    BY <1>p, <2>2, <2>4, <1>1 DEF Channels!Get
<1> QED
  BY <1>p, <1>6, <1>7 DEF MailStep, Channels!FifoNext

(* A child begins with an empty channel.                                   *)
LEMMA ForkStep ==
  ASSUME MailboxesInv, NEW p \in exists, NEW child, syscall_fork(p, child)
  PROVE  MailStep
<1>p. p \in Pids
  BY DEF MailboxesInv
<1>1. /\ child \in Pids \ exists
      /\ exists' = exists \cup {child}
      /\ mailbox' = [mailbox EXCEPT ![child] = NoMailbox]
      /\ mailbox_size' = [mailbox_size EXCEPT ![child] = 0]
      /\ msg' = [msg EXCEPT ![child] = msg[p]]
  BY DEF syscall_fork
<1>2. MailboxesInv'
  <2>1. mailbox' = [q \in Pids |-> IF q = child THEN NoMailbox ELSE mailbox[q]]
    BY <1>1 DEF MailboxesInv
  <2>2. mailbox_size' = [q \in Pids |-> IF q = child THEN 0 ELSE mailbox_size[q]]
    BY <1>1 DEF MailboxesInv
  <2>3. mailbox_size' \in [Pids -> 0 .. MAILBOX_ALLOC]
    BY <2>2, MessagesAssumption DEF MailboxesInv
  <2>4. \A q \in Pids :
          IF mailbox'[q] = NoMailbox THEN mailbox_size'[q] = 0
          ELSE mailbox'[q] = [k \in Slots |-> mailbox'[q][k]]
    BY <2>1, <2>2 DEF MailboxesInv
  <2>5. exists' \subseteq Pids /\ msg' = [q \in Pids |-> msg'[q]]
    BY <1>1 DEF MailboxesInv
  <2>6. mailbox' = [q \in Pids |-> mailbox'[q]]
    BY <2>1
  <2> QED
    BY <2>3, <2>4, <2>5, <2>6 DEF MailboxesInv
<1>3. Channels!Begin(child, p)
  <2>1. Channel(child)' = <<>>
    BY <1>1 DEF Channel, MailboxesInv
  <2>2. \A v \in Pids \ {child} : Channel(v)' = Channel(v) /\ msg'[v] = msg[v]
    BY <1>1 DEF Channel, MailboxesInv
  <2>3. [q \in Pids |-> Channel(q)'] = [[q \in Pids |-> Channel(q)] EXCEPT ![child] = <<>>]
    BY <2>1, <2>2
  <2> QED
    BY <1>1, <2>3 DEF Channels!Begin
<1> QED
  BY <1>p, <1>1, <1>2, <1>3 DEF MailStep, Channels!FifoNext

(* The other calls do not touch the mailboxes.                             *)
LEMMA OtherCalls ==
  ASSUME MailboxesInv, NEW p, NEW child,
         \/ UNCHANGED kernelVars \/ ReceiveBlocks(p) \/ ReceiveFails(p) \/ kill_process(p)
         \/ Reap(p, child) \/ WaitForChild(p, child) \/ WaitFails(p, child)
  PROVE  MailStep
<1>1. UNCHANGED <<mailbox, mailbox_size, msg>>
  BY DEF kernelVars, procVars, mailVars, ReceiveBlocks, ReceiveFails, kill_process, Reap,
         WaitForChild, WaitFails
<1>2. exists' \in {exists, exists \ {p}} \/ exists' \in {exists, exists \ {child}}
  BY DEF kernelVars, procVars, mailVars, ReceiveBlocks, ReceiveFails, kill_process, Reap,
         WaitForChild, WaitFails
<1> QED
  BY <1>1, <1>2, MailUnchanged

-----------------------------------------------------------------------------
(* The programs reach the mailboxes only by these calls.                   *)
LEMMA TriedCalls ==
  ASSUME MailboxesInv, NEW p \in exists, NEW q, NEW r, NEW s, NEW t, NEW u, NEW v, NEW w,
         \/ TrySend(p, q, r, s, t, u, v) \/ Send(p, q, r, s, t, u, v)
         \/ TryWaitpid(p, q, r, s) \/ TryKill(p, q, r)
  PROVE  MailStep
  BY SendStep, OtherCalls DEF TrySend, Send, TryWaitpid, TryKill

(* The steps of main: its menu and the tests.                              *)
LEMMA MainSteps ==
  ASSUME MailboxesInv,
         \/ Menu \/ SimpleParent \/ Advanced \/ Multiple \/ test_ping_pong
         \/ test_broadcast \/ test_ring \/ test_error_handling
  PROVE  MailStep
<1>m. main \in exists
  BY DEF Menu, SimpleParent, Advanced, Multiple, test_ping_pong, test_broadcast, test_ring,
         test_error_handling, InLoop, EndOfLoop, At, Running
<1>1. CASE Menu
  BY <1>1, OtherCalls DEF Menu
<1>2. CASE SimpleParent
  BY <1>2, <1>m, TriedCalls, ForkStep, OtherCalls DEF SimpleParent, Fork, ForkFails
<1>3. CASE Advanced
  BY <1>3, <1>m, TriedCalls, ReceiveStep, OtherCalls DEF Advanced
<1>4. CASE Multiple
  BY <1>4, <1>m, SendStep, ReceiveStep, OtherCalls DEF Multiple
<1>5. CASE test_ping_pong
  BY <1>5, <1>m, TriedCalls, ForkStep, OtherCalls DEF test_ping_pong, Fork, ForkFails
<1>6. CASE test_broadcast
  BY <1>6, <1>m, TriedCalls, ForkStep, ReceiveStep, OtherCalls
     DEF test_broadcast, Fork, ForkFails, TryReceive, EndOfLoop
<1>7. CASE test_ring
  BY <1>7, <1>m, TriedCalls, ForkStep, ReceiveStep, OtherCalls
     DEF test_ring, Fork, ForkFails, TryReceive, EndOfLoop
<1>8. CASE test_error_handling
  BY <1>8, OtherCalls DEF test_error_handling
<1> QED
  BY <1>1, <1>2, <1>3, <1>4, <1>5, <1>6, <1>7, <1>8

(* The steps of the children.                                              *)
LEMMA ChildSteps ==
  ASSUME MailboxesInv, NEW p \in Pids,
         SimpleChild(p) \/ Ping(p) \/ Pong(p) \/ slave(p) \/ Ring(p) \/ Exit(p)
  PROVE  MailStep
<1>p. p \in exists
  BY DEF SimpleChild, Ping, Pong, slave, Ring, RingPass, Exit, At, Running
<1>1. CASE SimpleChild(p)
  BY <1>1, <1>p, ReceiveStep, OtherCalls DEF SimpleChild, TryReceive
<1>2. CASE Ping(p)
  BY <1>2, <1>p, TriedCalls, ReceiveStep, OtherCalls DEF Ping, TryReceive
<1>3. CASE Pong(p)
  BY <1>3, <1>p, TriedCalls, ReceiveStep, OtherCalls DEF Pong, TryReceive
<1>4. CASE slave(p)
  BY <1>4, <1>p, TriedCalls, ReceiveStep, OtherCalls DEF slave, TryReceive
<1>5. CASE Ring(p)
  BY <1>5, <1>p, TriedCalls, ReceiveStep, OtherCalls DEF Ring, RingPass, TryReceive
<1>6. CASE Exit(p)
  BY <1>6, OtherCalls DEF Exit
<1> QED
  BY <1>1, <1>2, <1>3, <1>4, <1>5, <1>6

LEMMA MailInit ==
  ASSUME Init
  PROVE  MailboxesInv /\ Channels!FifoInit
<1>1. MailboxesInv
  BY MessagesAssumption DEF Init, KernelInit, MailboxesInv, Pids
<1>2. \A p \in Pids : Channel(p) = <<>>
  BY DEF Init, KernelInit, Channel
<1> QED
  BY <1>1, <1>2 DEF Channels!FifoInit, MailboxesInv

LEMMA MailNext ==
  ASSUME MailboxesInv, [Next]_vars
  PROVE  MailStep
<1>1. CASE UNCHANGED vars
  BY <1>1, OtherCalls DEF vars
<1>2. CASE Next
  BY <1>2, MainSteps, ChildSteps, OtherCalls DEF Next, Finished, vars
<1> QED
  BY <1>1, <1>2

(* The mailbox of every process is a bounded first-in first-out channel:   *)
(* whatever the processes of mptest.c do and in whatever order they run,   *)
(* send adds a message whole behind those that are there, receive takes    *)
(* exactly the first, and no step loses, repeats or reorders one, although *)
(* the array is shifted by an overlapping memmove.                         *)
THEOREM MailboxesAreFifo == Spec => MailboxIsFifo
<1>1. Init => MailboxesInv /\ Channels!FifoInit
  BY MailInit
<1>2. MailboxesInv /\ [Next]_vars => MailboxesInv' /\ [Channels!FifoNext]_Channels!fifoVars
  BY MailNext DEF MailStep
<1> QED
  BY <1>1, <1>2, PTL DEF Spec, MailboxIsFifo, Channels!FifoSpec

-----------------------------------------------------------------------------
(***************************************************************************)
(* The tests of mptest.c: the inductive invariant.                         *)
(***************************************************************************)
(* The message that test_nb_multiple_messages sends as its n-th.           *)
IsNumber(m, n) == m.tag = "TEST" /\ m.size = IntSize /\ m.data = Number(n)

(* Neither the mailbox nor the program of a slot has the token.            *)
Clean(p) ==
  pc[p] # "ring_pass" /\ \A k \in 0 .. (mailbox_size[p] - 1) : mailbox[p][k].tag # "TOKEN"

(* The variables of a program are a record of this shape.                  *)
IsLocals(l) ==
  /\ l = [i |-> l.i, pids |-> l.pids, next |-> l.next, token |-> l.token, said |-> l.said]
  /\ l.i \in Nat /\ l.pids \in Seq(Pids)

(* Every slot has a label and variables, and a parent entry.               *)
ProgramsInv ==
  /\ pc = [p \in Pids |-> pc[p]] /\ local = [p \in Pids |-> local[p]]
  /\ \A p \in Pids : IsLocals(local[p])
ParentsInv == parent_pid = [p \in Pids |-> parent_pid[p]]
TypeInv == MailboxesInv /\ ProgramsInv /\ ParentsInv

(* main's variables, and its children: different processes.                *)
I == local[main].i
Kid(k) == local[main].pids[k]
NKids == Len(local[main].pids)
KidsFrom(j) == {Kid(k) : k \in j .. NKids}
KidsApart ==
  /\ \A j, k \in 1 .. NKids : j # k => Kid(j) # Kid(k)
  /\ \A k \in 1 .. NKids : Kid(k) # main

(* main runs, nobody's child, and S are the other processes: its children. *)
Family(S) ==
  /\ exists = {main} \cup S
  /\ main \notin exited /\ parent_pid[main] = NoPid
  /\ \A c \in S : parent_pid[c] = main
(* The token is in no mailbox and with no process.                         *)
NoTokens == \A p \in Pids : Clean(p)

-----------------------------------------------------------------------------
(* main by itself, at the menu, leaving, in a test without children, or    *)
(* before its first fork. Nothing is left over from the test before: no    *)
(* child, no message, no token.                                            *)
AloneLabels == {"menu", "exit", "nb_fork", "b_fork", "pong_fork", "adv_empty", "adv_send", "errors"}

Alone ==
  /\ pc[main] \in AloneLabels
  /\ pc[main] \in {"nb_fork", "b_fork", "pong_fork"} => NKids = 0 /\ I = 0
  /\ Family({}) /\ NoTokens /\ mailbox_size[main] = 0

(* test_nb_receive_advanced has sent itself its message.                   *)
AdvancedInv ==
  /\ pc[main] = "adv_receive"
  /\ Family({}) /\ NoTokens /\ mailbox_size[main] = 1
  /\ mailbox[main][0] = Message(main, "TEST", IntSize, Number(1234))

(* test_nb_multiple_messages: the mailbox holds the messages sent and not  *)
(* yet received, in order.                                                 *)
MultipleInv ==
  /\ pc[main] \in {"multi_send", "multi_receive"}
  /\ Family({}) /\ NoTokens
  /\ pc[main] = "multi_send" =>
       /\ mailbox_size[main] = I
       /\ \A k \in 0 .. (I - 1) : IsNumber(mailbox[main][k], k)
  /\ pc[main] = "multi_receive" =>
       /\ local[main].token \in Nat /\ I <= local[main].token
       /\ mailbox_size[main] = local[main].token - I
       /\ \A k \in 0 .. (local[main].token - I - 1) : IsNumber(mailbox[main][k], I + k)

(* The two tests in which a child receives keys in a loop.                 *)
SimpleInv ==
  /\ pc[main] \in {"simple_key", "simple_send", "simple_kill", "simple_wait"}
  /\ NKids = 1 /\ KidsApart /\ Family({Kid(1)}) /\ NoTokens /\ mailbox_size[main] = 0
  /\ pc[Kid(1)] \in {"nb_child", "b_child"}

(* test_ping_pong between its two forks: pong waits for the first message. *)
PongInv ==
  /\ pc[main] = "ping_fork" /\ I = 0
  /\ NKids = 1 /\ KidsApart /\ Family({Kid(1)}) /\ NoTokens /\ mailbox_size[main] = 0
  /\ pc[Kid(1)] = "pong" /\ local[Kid(1)].i = 0 /\ mailbox_size[Kid(1)] = 0
  /\ Kid(1) \notin exited

(* The conversation of pong, c, and ping, d: a message is on its way, is   *)
(* being answered, or its answer is on its way, and the counts agree.      *)
Chat(c, d) ==
  LET a == local[d].i
      b == local[c].i
      Boxes(m, n) == mailbox_size[c] = m /\ mailbox_size[d] = n
  IN
  \/ pc[d] = "ping" /\ pc[c] = "pong" /\ a = b /\ Boxes(0, 0)
  \/ /\ pc[d] = "ping_receive" /\ pc[c] = "pong" /\ a = b /\ b < PINGS /\ Boxes(1, 0)
     /\ mailbox[c][0].from = d
  \/ pc[d] = "ping_receive" /\ pc[c] = "pong_send" /\ a = b /\ Boxes(0, 0) /\ msg[c].from = d
  \/ /\ pc[d] = "ping_receive" /\ pc[c] \in {"pong", "exit"} /\ b = a + 1 /\ Boxes(0, 1)
     /\ pc[c] = "exit" => b >= PINGS
  \/ pc[d] \in {"ping", "exit"} /\ pc[c] \in {"pong", "exit"} /\ a = b /\ a >= PINGS /\ Boxes(0, 0)

(* main waits for pong, and then for ping.                                 *)
PingPongInv ==
  /\ pc[main] \in {"pong_wait", "ping_wait"}
  /\ NKids = 2 /\ KidsApart /\ NoTokens /\ mailbox_size[main] = 0
  /\ Chat(Kid(1), Kid(2)) /\ Len(local[Kid(2)].pids) = 1 /\ local[Kid(2)].pids[1] = Kid(1)
  /\ Family(IF pc[main] = "pong_wait" THEN {Kid(1), Kid(2)} ELSE {Kid(2)})
  /\ \A c \in {Kid(1), Kid(2)} : c \in exited => pc[c] = "exit"
  /\ pc[main] = "ping_wait" => pc[Kid(1)] = "exit"

-----------------------------------------------------------------------------
(* test_broadcast: a slave answers once, with its last call, so there are  *)
(* at most as many answers, heard and not yet heard, as slaves at exit.    *)
(* When main has heard one for every slave, all are.                       *)
Answered == {c \in KidsFrom(1) : pc[c] = "exit"}

SlaveOk(c) ==
  /\ pc[c] \in {"slave", "slave_send", "exit"}
  /\ pc[c] = "slave_send" => msg[c].from = main
  /\ \A k \in 0 .. (mailbox_size[c] - 1) : mailbox[c][k].from = main

(* Until main has heard all slaves, whatever each has been sent.           *)
BroadcastInv ==
  /\ pc[main] \in {"bc_fork", "bc_send", "bc_receive"}
  /\ KidsApart /\ Family(KidsFrom(1)) /\ NoTokens
  /\ I <= NSLAVES /\ (IF pc[main] = "bc_fork" THEN NKids = I ELSE NKids = NSLAVES)
  /\ \A c \in KidsFrom(1) : SlaveOk(c)
  /\ mailbox_size[main] + (IF pc[main] = "bc_receive" THEN I ELSE 0) <= Cardinality(Answered)

(* main waits for its slaves, all of which are at exit.                    *)
BroadcastEndInv ==
  /\ pc[main] = "bc_wait"
  /\ KidsApart /\ NKids = NSLAVES /\ I <= NSLAVES /\ Family(KidsFrom(I + 1)) /\ NoTokens
  /\ mailbox_size[main] = 0
  /\ \A c \in KidsFrom(I + 1) : pc[c] = "exit"

-----------------------------------------------------------------------------
(* A process of the ring that has been told its neighbour: the neighbour   *)
(* comes first, and of the token there is at most one message.             *)
NodeOk(c) ==
  \/ /\ pc[c] = "ring_first" /\ mailbox_size[c] \in {1, 2}
     /\ IsNeighbour(mailbox[c][0]) /\ mailbox[c][0].data[1] \in KidsFrom(1)
     /\ mailbox_size[c] = 2 => IsToken(mailbox[c][1])
  \/ /\ pc[c] = "ring_loop" /\ local[c].next \in KidsFrom(1) /\ mailbox_size[c] \in {0, 1}
     /\ mailbox_size[c] = 1 => IsToken(mailbox[c][0])
  \/ pc[c] = "ring_pass" /\ local[c].next \in KidsFrom(1) /\ mailbox_size[c] = 0

(* The token is in the mailbox of c, or c is about to pass it on.          *)
HasToken(c) ==
  \/ c = main /\ mailbox_size[c] = 1
  \/ pc[c] = "ring_first" /\ mailbox_size[c] = 2
  \/ pc[c] = "ring_loop" /\ mailbox_size[c] = 1
  \/ pc[c] = "ring_pass"

(* test_ring forks its processes, which wait for their neighbours.         *)
RingForkInv ==
  /\ pc[main] = "ring_fork"
  /\ KidsApart /\ Family(KidsFrom(1)) /\ NoTokens /\ mailbox_size[main] = 0
  /\ I <= RING_SIZE /\ NKids = I
  /\ \A c \in KidsFrom(1) : pc[c] = "ring_first" /\ mailbox_size[c] = 0

(* How many processes of the ring know their neighbours.                   *)
Told == IF pc[main] = "ring_send" THEN I ELSE RING_SIZE

(* main tells the processes their neighbours, one after the other.         *)
RingSendInv ==
  /\ pc[main] \in {"ring_send", "ring_start"}
  /\ KidsApart /\ Family(KidsFrom(1)) /\ NoTokens /\ mailbox_size[main] = 0
  /\ I <= RING_SIZE /\ NKids = RING_SIZE
  /\ \A k \in 1 .. Told : NodeOk(Kid(k)) /\ ~ HasToken(Kid(k))
  /\ \A k \in (Told + 1) .. NKids : pc[Kid(k)] = "ring_first" /\ mailbox_size[Kid(k)] = 0
  /\ pc[main] = "ring_start" => I = 0

(* One process has the token: main, when it has come back, or one of the   *)
(* ring. The others have none.                                             *)
RingInv ==
  /\ pc[main] = "ring_receive"
  /\ KidsApart /\ Family(KidsFrom(1)) /\ NKids = RING_SIZE /\ I = 0
  /\ \A p \in Pids \ exists : Clean(p)
  /\ \A c \in KidsFrom(1) : NodeOk(c)
  /\ mailbox_size[main] \in {0, 1} /\ (mailbox_size[main] = 1 => IsToken(mailbox[main][0]))
  /\ \E h \in exists : \A c \in exists : HasToken(c) <=> c = h

(* main has the token; it kills the processes and waits for them.          *)
RingEndInv ==
  /\ pc[main] \in {"ring_kill", "ring_wait"}
  /\ KidsApart /\ NKids = RING_SIZE /\ I <= RING_SIZE /\ Family(KidsFrom(I + 1)) /\ NoTokens
  /\ mailbox_size[main] = 0
  /\ pc[main] = "ring_wait" => I < RING_SIZE
  /\ \A c \in KidsFrom(I + 1) : NodeOk(c) /\ ~ HasToken(c)

(* The program has been left, or main and its children are at a stage of   *)
(* a test.                                                                 *)
Phases ==
  \/ exists = {}
  \/ Alone \/ AdvancedInv \/ MultipleInv \/ SimpleInv \/ PongInv \/ PingPongInv
  \/ BroadcastInv \/ BroadcastEndInv
  \/ RingForkInv \/ RingSendInv \/ RingInv \/ RingEndInv

TestsInv == TypeInv /\ Phases

-----------------------------------------------------------------------------
(***************************************************************************)
(* What the calls do, process by process.                                  *)
(***************************************************************************)
(* What a call does, process by process: nothing that matters here, a      *)
(* message m delivered to a process, the first message taken by one, a     *)
(* child c begun by p; and where the programs go on.                       *)
Quiet == UNCHANGED <<exists, exited, parent_pid, mailbox, mailbox_size, msg>>

SameBox(q) == mailbox'[q] = mailbox[q] /\ mailbox_size'[q] = mailbox_size[q]

Delivers(to, m) ==
  /\ UNCHANGED <<exists, exited, parent_pid, msg>>
  /\ to \in exists /\ to \in Pids
  /\ mailbox_size'[to] = mailbox_size[to] + 1
  /\ mailbox'[to][mailbox_size[to]] = m
  /\ \A k \in 0 .. (mailbox_size[to] - 1) : mailbox'[to][k] = mailbox[to][k]
  /\ \A q \in Pids : q # to => SameBox(q)

Takes(p) ==
  /\ UNCHANGED <<exists, exited, parent_pid>>
  /\ mailbox_size[p] > 0 /\ mailbox_size'[p] = mailbox_size[p] - 1
  /\ msg'[p] = mailbox[p][0]
  /\ \A k \in 0 .. (mailbox_size[p] - 2) : mailbox'[p][k] = mailbox[p][k + 1]
  /\ \A q \in Pids : q # p => SameBox(q) /\ msg'[q] = msg[q]

Begins(p, c) ==
  /\ c \in Pids /\ c \notin exists /\ exists' = exists \cup {c} /\ exited' = exited \ {c}
  /\ parent_pid' = [q \in Pids |-> IF q = c THEN p ELSE parent_pid[q]]
  /\ mailbox_size'[c] = 0
  /\ \A q \in Pids : q # c => SameBox(q) /\ msg'[q] = msg[q]

SameProgram(q) == pc'[q] = pc[q] /\ local'[q] = local[q]

Moves(p, label, l) ==
  /\ pc'[p] = label /\ local'[p] = l
  /\ \A q \in Pids : q # p => SameProgram(q)

LEMMA MainIsPid == main \in Pids
BY MessagesAssumption DEF main, Pids

LEMMA Bounds ==
  /\ MAILBOX_ALLOC \in Nat /\ MAILBOX_ALLOC >= 2 /\ MAX_MESSAGE_SIZE \in Nat
  /\ IntSize <= MAX_MESSAGE_SIZE /\ IntSize \in Nat
  /\ PINGS \in Nat /\ PINGS >= 1 /\ NSLAVES \in Nat /\ NSLAVES >= 1
  /\ RING_SIZE \in Nat /\ RING_SIZE >= 1 /\ main # 99
  /\ MAX_SENDS \in Nat /\ MAILBOX_ALLOC < MAX_SENDS
BY MessagesAssumption, MpTestAssumption DEF main, IntSize

LEMMA SizeType ==
  ASSUME TypeInv, NEW p \in Pids
  PROVE  mailbox_size[p] \in Nat /\ mailbox_size[p] <= MAILBOX_ALLOC
BY Bounds DEF TypeInv, MailboxesInv

LEMMA SendEffect ==
  ASSUME TypeInv, NEW p, NEW to, NEW tag, NEW size, NEW data,
         syscall_send(p, to, tag, size, data)
  PROVE  \/ SendResult(to, size) = "0" /\ Delivers(to, Message(p, tag, size, data))
         \/ SendResult(to, size) # "0" /\ Quiet
<1> DEFINE m == Message(p, tag, size, data)
<1>1. CASE SendResult(to, size) # "0"
  BY <1>1 DEF syscall_send, kernelVars, procVars, mailVars, Quiet
<1>2. CASE SendResult(to, size) = "0"
  <2> DEFINE n == mailbox_size[to]
             box == Delivered(to, m)
  <2>1. /\ mailbox' = [mailbox EXCEPT ![to] = box]
        /\ mailbox_size' = [mailbox_size EXCEPT ![to] = @ + 1]
        /\ UNCHANGED <<exists, exited, parent_pid, msg>>
    BY <1>2 DEF syscall_send
  <2>2. to \in exists /\ (mailbox[to] # NoMailbox => ~ (mailbox_size[to] >= MAILBOX_ALLOC))
    BY <1>2 DEF SendResult
  <2>3. to \in Pids /\ mailbox = [q \in Pids |-> mailbox[q]] /\ mailbox_size \in [Pids -> 0 .. MAILBOX_ALLOC]
    BY <2>2 DEF TypeInv, MailboxesInv
  <2>4. mailbox_size[to] \in Nat /\ (mailbox[to] = NoMailbox => mailbox_size[to] = 0)
    BY <2>3, SizeType DEF TypeInv, MailboxesInv
  <2>5. mailbox_size[to] \in Slots
    BY <2>2, <2>4, Bounds DEF Slots
  <2>6. box[n] = m /\ \A k \in 0 .. (n - 1) : box[k] = mailbox[to][k]
    <3>1. CASE mailbox[to] = NoMailbox
      <4>1. box = [k \in Slots |-> IF k = 0 THEN m ELSE Garbage] /\ n = 0 /\ 0 \in Slots
        BY <3>1, <2>4, <2>5 DEF Delivered
      <4> HIDE DEF box, n, m
      <4> QED
        BY <4>1
    <3>2. CASE mailbox[to] # NoMailbox
      <4>1. mailbox[to] = [k \in Slots |-> mailbox[to][k]]
        BY <2>3, <3>2 DEF TypeInv, MailboxesInv
      <4>2. box = [mailbox[to] EXCEPT ![n] = m]
        BY <3>2 DEF Delivered
      <4>3. n \in Slots /\ \A k \in 0 .. (n - 1) : k \in Slots /\ k # n
        BY <2>4, <2>5, Bounds DEF Slots
      <4>4. DOMAIN mailbox[to] = Slots
        BY <4>1, Zenon
      <4> HIDE DEF box, n, m
      <4> QED
        BY <4>2, <4>3, <4>4
    <3> QED
      BY <3>1, <3>2
  <2> HIDE DEF box
  <2>7. mailbox'[to] = box /\ \A q \in Pids : q # to => mailbox'[q] = mailbox[q]
    BY <2>1, <2>3
  <2>8. mailbox_size'[to] = n + 1 /\ \A q \in Pids : q # to => mailbox_size'[q] = mailbox_size[q]
    BY <2>1, <2>3
  <2>9. mailbox'[to][n] = m /\ \A k \in 0 .. (n - 1) : mailbox'[to][k] = mailbox[to][k]
    BY <2>6, <2>7
  <2> QED
    BY <1>2, <2>1, <2>2, <2>3, <2>7, <2>8, <2>9 DEF Delivers, SameBox
<1> QED
  BY <1>1, <1>2

LEMMA ReceiveEffect ==
  ASSUME TypeInv, NEW p \in Pids, ReceiveFirst(p)
  PROVE  Takes(p)
<1> DEFINE n == mailbox_size[p]
           box == Shifted(p)
<1>1. /\ n > 0 /\ mailbox' = [mailbox EXCEPT ![p] = box]
      /\ mailbox_size' = [mailbox_size EXCEPT ![p] = @ - 1]
      /\ msg' = [msg EXCEPT ![p] = mailbox[p][0]]
      /\ UNCHANGED <<exists, exited, parent_pid>>
  BY DEF ReceiveFirst, procVars
<1>2. n \in Nat /\ n <= MAILBOX_ALLOC
  BY SizeType
<1>3. /\ mailbox = [q \in Pids |-> mailbox[q]] /\ msg = [q \in Pids |-> msg[q]]
      /\ mailbox_size \in [Pids -> 0 .. MAILBOX_ALLOC]
      /\ (mailbox[p] = NoMailbox => n = 0)
      /\ (mailbox[p] # NoMailbox => mailbox[p] = [k \in Slots |-> mailbox[p][k]])
  BY DEF TypeInv, MailboxesInv
<1>4. DOMAIN mailbox[p] = Slots
  <2>1. mailbox[p] # NoMailbox
    BY <1>1, <1>2, <1>3
  <2>2. mailbox[p] = [k \in Slots |-> mailbox[p][k]]
    BY <2>1, <1>3
  <2> QED
    BY <2>2, Zenon
<1>5. \A k \in 0 .. (n - 2) : box[k] = mailbox[p][k + 1]
  <2> TAKE k \in 0 .. (n - 2)
  <2>1. k \in Slots
    BY <1>2, Bounds DEF Slots
  <2>2. ~ (k < 0 \/ k >= 0 + (n - 1)) /\ ~ (1 < 0) /\ 1 + (k - 0) = k + 1
    BY <1>2
  <2>3. box = [j \in DOMAIN mailbox[p] |->
                 IF j < 0 \/ j >= 0 + (n - 1) THEN mailbox[p][j]
                 ELSE IF 1 < 0 THEN mailbox[p][1 + ((j - 0) % (0 - 1))]
                 ELSE mailbox[p][1 + (j - 0)]]
    BY DEF Shifted, memmove
  <2> HIDE DEF box
  <2>4. box[k] = mailbox[p][1 + (k - 0)]
    BY <1>4, <2>1, <2>2, <2>3
  <2> QED
    BY <2>2, <2>4
<1> HIDE DEF box
<1>6. mailbox'[p] = box /\ \A q \in Pids : q # p => mailbox'[q] = mailbox[q]
  BY <1>1, <1>3
<1>7. mailbox_size'[p] = n - 1 /\ \A q \in Pids : q # p => mailbox_size'[q] = mailbox_size[q]
  BY <1>1, <1>3
<1>8. msg'[p] = mailbox[p][0] /\ \A q \in Pids : q # p => msg'[q] = msg[q]
  BY <1>1, <1>3
<1> QED
  BY <1>1, <1>5, <1>6, <1>7, <1>8 DEF Takes, SameBox

(* The calls that leave all mailboxes and processes as they are.           *)
LEMMA QuietEffect ==
  ASSUME NEW p, NEW c,
         \/ UNCHANGED kernelVars \/ ReceiveBlocks(p) \/ ReceiveFails(p)
         \/ WaitForChild(p, c) \/ WaitFails(p, c)
  PROVE  Quiet
BY DEF Quiet, kernelVars, procVars, mailVars, ReceiveBlocks, ReceiveFails, WaitForChild, WaitFails

LEMMA ReapEffect ==
  ASSUME NEW p, NEW c, Reap(p, c)
  PROVE  /\ c \in exists /\ c \in exited /\ parent_pid[c] = p /\ exists' = exists \ {c}
         /\ UNCHANGED <<exited, parent_pid, mailbox, mailbox_size, msg>>
BY DEF Reap, OwnChild, mailVars

LEMMA KillEffect ==
  ASSUME TypeInv, NEW p \in Pids, kill_process(p)
  PROVE  /\ exists' = (IF parent_pid[p] = NoPid THEN exists \ {p} ELSE exists)
         /\ exited' = exited \cup {p}
         /\ parent_pid' = [q \in Pids |-> IF parent_pid[q] = p THEN NoPid ELSE parent_pid[q]]
         /\ UNCHANGED <<mailbox, mailbox_size, msg>>
BY DEF kill_process, mailVars

LEMMA ForkEffect ==
  ASSUME TypeInv, NEW p \in Pids, NEW c, syscall_fork(p, c)
  PROVE  Begins(p, c)
<1>1. /\ c \in Pids /\ c \notin exists /\ exists' = exists \cup {c} /\ exited' = exited \ {c}
      /\ parent_pid' = [parent_pid EXCEPT ![c] = p]
      /\ mailbox' = [mailbox EXCEPT ![c] = NoMailbox]
      /\ mailbox_size' = [mailbox_size EXCEPT ![c] = 0]
      /\ msg' = [msg EXCEPT ![c] = msg[p]]
  BY DEF syscall_fork
<1>2. /\ parent_pid = [q \in Pids |-> parent_pid[q]] /\ mailbox = [q \in Pids |-> mailbox[q]]
      /\ msg = [q \in Pids |-> msg[q]] /\ mailbox_size \in [Pids -> 0 .. MAILBOX_ALLOC]
  BY DEF TypeInv, MailboxesInv, ParentsInv
<1> QED
  BY <1>1, <1>2 DEF Begins, SameBox

(* There is room for a message.                                            *)
LEMMA Room ==
  ASSUME TypeInv, NEW to \in exists, NEW size, size <= MAX_MESSAGE_SIZE, size \in Nat,
         mailbox_size[to] < MAILBOX_ALLOC
  PROVE  SendResult(to, size) = "0"
<1>1. to \in Pids /\ mailbox_size[to] \in Nat
  BY SizeType DEF TypeInv, MailboxesInv
<1>2. ~ (size > MAX_MESSAGE_SIZE) /\ ~ (mailbox_size[to] >= MAILBOX_ALLOC)
  BY <1>1, Bounds
<1> QED
  BY <1>2 DEF SendResult

-----------------------------------------------------------------------------
(***************************************************************************)
(* Where the programs go on.                                               *)
(***************************************************************************)
LEMMA ContinueIs ==
  ASSUME ProgramsInv, NEW p \in Pids, NEW label, NEW l, IsLocals(l), Continue(p, label, l)
  PROVE  Moves(p, label, l) /\ ProgramsInv'
<1>1. pc' = [q \in Pids |-> IF q = p THEN label ELSE pc[q]]
  BY DEF ProgramsInv, Continue
<1>2. local' = [q \in Pids |-> IF q = p THEN l ELSE local[q]]
  BY DEF ProgramsInv, Continue
<1>3. Moves(p, label, l)
  BY <1>1, <1>2 DEF Moves, SameProgram
<1>4. pc' = [q \in Pids |-> pc'[q]] /\ local' = [q \in Pids |-> local'[q]]
  BY <1>1, <1>2
<1>5. \A q \in Pids : IsLocals(local'[q])
  BY <1>2 DEF ProgramsInv
<1> QED
  BY <1>3, <1>4, <1>5 DEF ProgramsInv, IsLocals

LEMMA GotoIs ==
  ASSUME ProgramsInv, NEW p \in Pids, NEW label, Goto(p, label)
  PROVE  Moves(p, label, local[p]) /\ ProgramsInv'
BY ContinueIs DEF Goto, ProgramsInv

LEMMA StayIs ==
  ASSUME ProgramsInv, Stay
  PROVE  /\ ProgramsInv' /\ \A q \in Pids : SameProgram(q)
         /\ \A p \in Pids : Moves(p, pc[p], local[p])
BY DEF Stay, ProgramsInv, SameProgram, Moves, IsLocals

LEMMA SetI ==
  ASSUME NEW l, IsLocals(l), NEW v \in Nat
  PROVE  LET r == [l EXCEPT !.i = v] IN
         IsLocals(r) /\ r.i = v /\ r.pids = l.pids /\ r.next = l.next /\ r.token = l.token
BY DEF IsLocals

LEMMA SetPids ==
  ASSUME NEW l, IsLocals(l), NEW v \in Seq(Pids)
  PROVE  LET r == [l EXCEPT !.pids = v] IN IsLocals(r) /\ r.i = l.i /\ r.pids = v
BY DEF IsLocals

LEMMA CountIs ==
  ASSUME ProgramsInv, NEW p \in Pids
  PROVE  /\ IsLocals(Count(p)) /\ Count(p).i = local[p].i + 1 /\ Count(p).pids = local[p].pids
         /\ Count(p).next = local[p].next /\ Count(p).token = local[p].token
<1> DEFINE l == local[p]
           n == local[p].i + 1
<1>1. IsLocals(l) /\ n \in Nat /\ Count(p) = [l EXCEPT !.i = n]
  BY DEF ProgramsInv, IsLocals, Count
<1> HIDE DEF l, n
<1>2. /\ IsLocals(Count(p)) /\ Count(p).i = n /\ Count(p).pids = l.pids
      /\ Count(p).next = l.next /\ Count(p).token = l.token
  BY <1>1, SetI
<1> QED
  BY <1>2 DEF l, n

LEMMA ResetIs ==
  ASSUME ProgramsInv, NEW p \in Pids
  PROVE  IsLocals(Reset(p)) /\ Reset(p).i = 0 /\ Reset(p).pids = local[p].pids
BY DEF ProgramsInv, IsLocals, Reset

LEMMA NoLocalsIs == IsLocals(NoLocals) /\ NoLocals.i = 0 /\ NoLocals.pids = << >>
BY DEF IsLocals, NoLocals

LEMMA ForkedIs ==
  ASSUME ProgramsInv, NEW p \in Pids, NEW c \in Pids
  PROVE  /\ IsLocals(Forked(p, c)) /\ Forked(p, c).i = local[p].i
         /\ Forked(p, c).pids = Append(local[p].pids, c)
<1> DEFINE l == local[p]
           v == Append(local[p].pids, c)
<1>1. IsLocals(l) /\ v \in Seq(Pids) /\ Forked(p, c) = [l EXCEPT !.pids = v]
  BY DEF ProgramsInv, IsLocals, Forked
<1> HIDE DEF l, v
<1>2. IsLocals(Forked(p, c)) /\ Forked(p, c).i = l.i /\ Forked(p, c).pids = v
  BY <1>1, SetPids
<1> QED
  BY <1>2 DEF l, v

ForkCount(p, c) == [Forked(p, c) EXCEPT !.i = @ + 1]
LEMMA ForkCountIs ==
  ASSUME ProgramsInv, NEW p \in Pids, NEW c \in Pids
  PROVE  /\ IsLocals(ForkCount(p, c)) /\ ForkCount(p, c).i = local[p].i + 1
         /\ ForkCount(p, c).pids = Append(local[p].pids, c)
<1> DEFINE l == Forked(p, c)
<1>1. IsLocals(l) /\ l.i = local[p].i /\ l.pids = Append(local[p].pids, c)
  BY ForkedIs
<1>2. ForkCount(p, c) = [l EXCEPT !.i = l.i + 1]
  BY DEF ForkCount
<1>3. l.i + 1 \in Nat
  BY <1>1 DEF IsLocals
<1> HIDE DEF l
<1>4. ForkCount(p, c).i = l.i + 1 /\ ForkCount(p, c).pids = l.pids /\ IsLocals(ForkCount(p, c))
  BY <1>1, <1>2, <1>3, SetI
<1> QED
  BY <1>1, <1>4

(* Other variables than i and pids.                                        *)
LEMMA SetToken ==
  ASSUME NEW l, IsLocals(l), NEW v
  PROVE  LET r == [l EXCEPT !.token = v] IN
         IsLocals(r) /\ r.i = l.i /\ r.pids = l.pids /\ r.next = l.next /\ r.token = v
BY DEF IsLocals

LEMMA SetNext ==
  ASSUME NEW l, IsLocals(l), NEW v
  PROVE  LET r == [l EXCEPT !.next = v] IN
         IsLocals(r) /\ r.i = l.i /\ r.pids = l.pids /\ r.next = v
BY DEF IsLocals

LEMMA SetSaid ==
  ASSUME NEW l, IsLocals(l), NEW v
  PROVE  LET r == [l EXCEPT !.said = v] IN
         IsLocals(r) /\ r.i = l.i /\ r.pids = l.pids
BY DEF IsLocals

(* A fork by p: both go on, p with the variables in l.                     *)
ForksTo(p, c, parentLabel, childLabel, l) ==
  /\ Begins(p, c)
  /\ pc'[p] = parentLabel /\ pc'[c] = childLabel /\ local'[p] = l /\ local'[c] = local[p]
  /\ \A q \in Pids : q # p /\ q # c => SameProgram(q)

LEMMA ForkIs ==
  ASSUME TypeInv, NEW p \in Pids, p \in exists, NEW c \in Pids, NEW label, NEW childLabel, NEW l,
         syscall_fork(p, c), IsLocals(l),
         pc' = [pc EXCEPT ![p] = label, ![c] = childLabel],
         local' = [local EXCEPT ![p] = l, ![c] = local[p]]
  PROVE  ForksTo(p, c, label, childLabel, l) /\ ProgramsInv' /\ ParentsInv'
<1>1. Begins(p, c)
  BY ForkEffect
<1>2. p # c
  BY <1>1 DEF Begins
<1>3. pc' = [q \in Pids |-> IF q = c THEN childLabel ELSE IF q = p THEN label ELSE pc[q]]
  BY DEF TypeInv, ProgramsInv
<1>4. local' = [q \in Pids |-> IF q = c THEN local[p] ELSE IF q = p THEN l ELSE local[q]]
  BY DEF TypeInv, ProgramsInv
<1>5. ForksTo(p, c, label, childLabel, l)
  BY <1>1, <1>2, <1>3, <1>4 DEF ForksTo, SameProgram
<1>6. pc' = [q \in Pids |-> pc'[q]] /\ local' = [q \in Pids |-> local'[q]]
  BY <1>3, <1>4
<1>7. \A q \in Pids : IsLocals(local'[q])
  BY <1>4 DEF TypeInv, ProgramsInv
<1>8. ParentsInv'
  BY <1>1 DEF Begins, ParentsInv
<1> QED
  BY <1>5, <1>6, <1>7, <1>8 DEF ProgramsInv, IsLocals

-----------------------------------------------------------------------------
(***************************************************************************)
(* The calls of a program, with where it goes on.                          *)
(***************************************************************************)
Kept == ProgramsInv' /\ ParentsInv'

LEMMA TrySendIs ==
  ASSUME TypeInv, NEW p \in Pids, NEW to, NEW tag, NEW size, NEW data, NEW label, NEW l,
         IsLocals(l), TrySend(p, to, tag, size, data, label, l)
  PROVE  /\ Kept
         /\ \/ /\ SendResult(to, size) = "0" /\ Delivers(to, Message(p, tag, size, data))
               /\ Moves(p, label, l)
            \/ SendResult(to, size) # "0" /\ Quiet /\ Moves(p, "failed", l)
<1>1. \/ SendResult(to, size) = "0" /\ Delivers(to, Message(p, tag, size, data))
      \/ SendResult(to, size) # "0" /\ Quiet
  BY SendEffect DEF TrySend
<1>2. ParentsInv'
  BY <1>1 DEF TypeInv, ParentsInv, Delivers, Quiet
<1> DEFINE where == IF SendResult(to, size) = "0" THEN label ELSE "failed"
<1>3. Continue(p, where, l)
  BY DEF TrySend
<1> HIDE DEF where
<1>4. Moves(p, where, l) /\ ProgramsInv'
  BY <1>3, ContinueIs DEF TypeInv
<1> QED
  BY <1>1, <1>2, <1>4 DEF Kept, where

LEMMA SendIs ==
  ASSUME TypeInv, NEW p \in Pids, NEW to, NEW tag, NEW size, NEW data, NEW label, NEW l,
         IsLocals(l), Send(p, to, tag, size, data, label, l)
  PROVE  /\ Kept /\ Moves(p, label, l)
         /\ \/ SendResult(to, size) = "0" /\ Delivers(to, Message(p, tag, size, data))
            \/ SendResult(to, size) # "0" /\ Quiet
<1>1. \/ SendResult(to, size) = "0" /\ Delivers(to, Message(p, tag, size, data))
      \/ SendResult(to, size) # "0" /\ Quiet
  BY SendEffect DEF Send
<1>2. ParentsInv'
  BY <1>1 DEF TypeInv, ParentsInv, Delivers, Quiet
<1>3. Moves(p, label, l) /\ ProgramsInv'
  BY ContinueIs DEF TypeInv, Send
<1> QED
  BY <1>1, <1>2, <1>3 DEF Kept

LEMMA ReceiveIs ==
  ASSUME TypeInv, NEW p \in Pids, NEW label, NEW l, IsLocals(l),
         ReceiveFirst(p), Continue(p, label, l)
  PROVE  Kept /\ Takes(p) /\ Moves(p, label, l)
<1>1. Takes(p)
  BY ReceiveEffect
<1>2. Moves(p, label, l) /\ ProgramsInv'
  BY ContinueIs DEF TypeInv
<1> QED
  BY <1>1, <1>2 DEF Kept, Takes, TypeInv, ParentsInv

(* Calls that change nothing that matters here.                            *)
QuietCall(p, c) ==
  \/ UNCHANGED kernelVars \/ ReceiveBlocks(p) \/ ReceiveFails(p)
  \/ WaitForChild(p, c) \/ WaitFails(p, c)

LEMMA QuietIs ==
  ASSUME TypeInv, NEW p \in Pids, NEW c, NEW label, NEW l, IsLocals(l),
         QuietCall(p, c), Continue(p, label, l)
  PROVE  Kept /\ Quiet /\ Moves(p, label, l)
<1>1. Quiet
  BY QuietEffect DEF QuietCall
<1>2. Moves(p, label, l) /\ ProgramsInv'
  BY ContinueIs DEF TypeInv
<1> QED
  BY <1>1, <1>2 DEF Kept, Quiet, TypeInv, ParentsInv

LEMMA BlocksIs ==
  ASSUME TypeInv, NEW p \in Pids, NEW c, QuietCall(p, c), Stay
  PROVE  Kept /\ Quiet /\ \A q \in Pids : SameProgram(q)
<1>1. Quiet
  BY QuietEffect DEF QuietCall
<1> QED
  BY <1>1, StayIs DEF Kept, Quiet, TypeInv, ParentsInv

(* waitpid for a child.                                                    *)
LEMMA WaitpidIs ==
  ASSUME TypeInv, NEW p \in Pids, NEW c \in exists, NEW label, NEW l, IsLocals(l),
         parent_pid[c] = p, TryWaitpid(p, c, label, l)
  PROVE  /\ Kept /\ UNCHANGED <<exited, parent_pid, mailbox, mailbox_size, msg>>
         /\ \/ Quiet /\ \A q \in Pids : SameProgram(q)
            \/ exists' = exists \ {c} /\ c \in exited /\ Moves(p, label, l)
<1>1. CASE WaitForChild(p, c) /\ Stay
  <2>1. Kept /\ Quiet /\ \A q \in Pids : SameProgram(q)
    BY <1>1, BlocksIs DEF QuietCall
  <2> QED
    BY <2>1 DEF Quiet
<1>2. CASE Reap(p, c) /\ Continue(p, label, l)
  <2>1. Moves(p, label, l) /\ ProgramsInv'
    BY <1>2, ContinueIs DEF TypeInv
  <2> QED
    BY <1>2, <2>1, ReapEffect DEF Kept, TypeInv, ParentsInv
<1>3. ~ WaitFails(p, c)
  BY DEF WaitFails, OwnChild
<1> QED
  BY <1>1, <1>2, <1>3 DEF TryWaitpid

-----------------------------------------------------------------------------
(***************************************************************************)
(* main's children and the token.                                          *)
(***************************************************************************)
LEMMA KidsSame ==
  ASSUME local'[main].pids = local[main].pids
  PROVE  /\ NKids' = NKids /\ (KidsApart => KidsApart')
         /\ \A k : Kid(k)' = Kid(k)
         /\ \A j : KidsFrom(j)' = KidsFrom(j)
<1>1. NKids' = NKids /\ \A k : Kid(k)' = Kid(k)
  BY DEF NKids, Kid
<1> QED
  BY <1>1 DEF KidsApart, KidsFrom

LEMMA KidType ==
  ASSUME TypeInv
  PROVE  /\ NKids \in Nat /\ (\A k \in 1 .. NKids : Kid(k) \in Pids) /\ I \in Nat
         /\ KidsFrom(1) \subseteq Pids /\ local[main].pids \in Seq(Pids)
<1>1. local[main].pids \in Seq(Pids) /\ I \in Nat
  BY MainIsPid DEF TypeInv, ProgramsInv, IsLocals, I
<1>2. NKids \in Nat /\ \A k \in 1 .. NKids : Kid(k) \in Pids
  BY <1>1 DEF NKids, Kid
<1> QED
  BY <1>1, <1>2 DEF KidsFrom

FamilyNext(S) ==
  /\ exists' = {main} \cup S
  /\ main \notin exited' /\ parent_pid'[main] = NoPid
  /\ \A c \in S : parent_pid'[c] = main

LEMMA FamilyKept ==
  ASSUME NEW S, Family(S), UNCHANGED <<exists, exited, parent_pid>>
  PROVE  FamilyNext(S)
BY DEF Family, FamilyNext

LEMMA FamilyKill ==
  ASSUME TypeInv, NEW S, Family(S), NEW c \in S, S \subseteq Pids, main \notin S, kill_process(c)
  PROVE  /\ FamilyNext(S) /\ exited' = exited \cup {c} /\ UNCHANGED <<mailbox, mailbox_size, msg>>
         /\ ParentsInv' /\ exists' = exists
<1>1. NoPid \notin Pids /\ main \in Pids
  BY MainIsPid, MessagesAssumption DEF NoPid, Pids
<1>2. /\ exists' = (IF parent_pid[c] = NoPid THEN exists \ {c} ELSE exists)
      /\ exited' = exited \cup {c}
      /\ parent_pid' = [q \in Pids |-> IF parent_pid[q] = c THEN NoPid ELSE parent_pid[q]]
      /\ UNCHANGED <<mailbox, mailbox_size, msg>>
  BY KillEffect
<1>3. exists' = exists
  BY <1>1, <1>2 DEF Family
<1>4. FamilyNext(S)
  BY <1>1, <1>2, <1>3 DEF Family, FamilyNext
<1> QED
  BY <1>2, <1>3, <1>4 DEF ParentsInv

LEMMA FamilyReap ==
  ASSUME NEW S, Family(S), NEW c, c # main, exists' = exists \ {c},
         UNCHANGED <<exited, parent_pid>>
  PROVE  FamilyNext(S \ {c})
BY DEF Family, FamilyNext

LEMMA FamilyFork ==
  ASSUME NEW S, S \subseteq Pids, Family(S), NEW c, Begins(main, c)
  PROVE  FamilyNext(S \cup {c}) /\ c \notin S /\ c # main
BY MainIsPid DEF Family, FamilyNext, Begins

LEMMA CleanSame ==
  ASSUME NEW q \in Pids, Clean(q), SameBox(q), pc'[q] # "ring_pass"
  PROVE  Clean(q)'
BY DEF Clean, SameBox

LEMMA CleanSend ==
  ASSUME TypeInv, NEW q \in Pids, Clean(q), NEW to, NEW m, Delivers(to, m), m.tag # "TOKEN",
         pc'[q] # "ring_pass"
  PROVE  Clean(q)'
<1>1. CASE q # to
  BY <1>1, CleanSame DEF Delivers
<1>2. CASE q = to
  <2>1. mailbox_size[q] \in Nat
    BY SizeType
  <2>2. /\ mailbox_size'[q] = mailbox_size[q] + 1 /\ mailbox'[q][mailbox_size[q]] = m
        /\ \A k \in 0 .. (mailbox_size[q] - 1) : mailbox'[q][k] = mailbox[q][k]
    BY <1>2 DEF Delivers
  <2>3. \A k \in 0 .. (mailbox_size'[q] - 1) :
          k = mailbox_size[q] \/ k \in 0 .. (mailbox_size[q] - 1)
    BY <2>1, <2>2
  <2>4. \A k \in 0 .. (mailbox_size'[q] - 1) : mailbox'[q][k].tag # "TOKEN"
    BY <2>2, <2>3 DEF Clean
  <2> QED
    BY <2>4 DEF Clean
<1> QED
  BY <1>1, <1>2

LEMMA CleanTake ==
  ASSUME TypeInv, NEW q \in Pids, Clean(q), NEW p, Takes(p), pc'[q] # "ring_pass"
  PROVE  Clean(q)'
<1>1. CASE q # p
  BY <1>1, CleanSame DEF Takes
<1>2. CASE q = p
  <2>1. mailbox_size[q] \in Nat
    BY SizeType
  <2>2. /\ mailbox_size'[q] = mailbox_size[q] - 1
        /\ \A k \in 0 .. (mailbox_size[q] - 2) : mailbox'[q][k] = mailbox[q][k + 1]
    BY <1>2 DEF Takes
  <2>3. \A k \in 0 .. (mailbox_size'[q] - 1) :
          k \in 0 .. (mailbox_size[q] - 2) /\ k + 1 \in 0 .. (mailbox_size[q] - 1)
    BY <2>1, <2>2
  <2>4. \A k \in 0 .. (mailbox_size'[q] - 1) : mailbox'[q][k].tag # "TOKEN"
    BY <2>2, <2>3 DEF Clean
  <2> QED
    BY <2>4 DEF Clean
<1> QED
  BY <1>1, <1>2

LEMMA CleanFork ==
  ASSUME NEW q \in Pids, Clean(q), NEW p, NEW c, Begins(p, c), pc'[q] # "ring_pass"
  PROVE  Clean(q)'
<1>1. CASE q # c
  BY <1>1, CleanSame DEF Begins
<1>2. CASE q = c
  <2>1. mailbox_size'[q] = 0
    BY <1>2 DEF Begins
  <2>2. \A k \in 0 .. (mailbox_size'[q] - 1) : FALSE
    BY <2>1
  <2> QED
    BY <2>2 DEF Clean
<1> QED
  BY <1>1, <1>2

(* The programs that do not get the token keep the system without it.      *)
LEMMA NoTokensKept ==
  ASSUME TypeInv, NoTokens, NEW p, NEW label, NEW l, label # "ring_pass",
         Moves(p, label, l) \/ (\A q \in Pids : SameProgram(q)),
         \/ UNCHANGED <<mailbox, mailbox_size>> \/ Takes(p)
         \/ \E to, m : m.tag # "TOKEN" /\ Delivers(to, m)
  PROVE  NoTokens'
<1> SUFFICES ASSUME NEW q \in Pids PROVE Clean(q)'
  BY DEF NoTokens
<1>1. pc'[q] # "ring_pass" /\ Clean(q)
  BY DEF NoTokens, Clean, Moves, SameProgram
<1>2. CASE UNCHANGED <<mailbox, mailbox_size>>
  BY <1>1, <1>2, CleanSame DEF SameBox
<1>3. CASE Takes(p)
  BY <1>1, <1>3, CleanTake
<1>4. CASE \E to, m : m.tag # "TOKEN" /\ Delivers(to, m)
  BY <1>1, <1>4, CleanSend
<1> QED
  BY <1>2, <1>3, <1>4

LEMMA NoTokensFork ==
  ASSUME NoTokens, NEW p, NEW c, NEW label, NEW childLabel, NEW l,
         label # "ring_pass", childLabel # "ring_pass", ForksTo(p, c, label, childLabel, l)
  PROVE  NoTokens'
<1> SUFFICES ASSUME NEW q \in Pids PROVE Clean(q)'
  BY DEF NoTokens
<1>1. pc'[q] # "ring_pass" /\ Clean(q)
  BY DEF NoTokens, Clean, ForksTo, SameProgram
<1> QED
  BY <1>1, CleanFork DEF ForksTo

-----------------------------------------------------------------------------
(***************************************************************************)
(* Who can move: the label of the process that takes a step.               *)
(***************************************************************************)
SimpleLabels == {"nb_fork", "b_fork", "simple_key", "simple_send", "simple_kill", "simple_wait"}
AdvancedLabels == {"adv_empty", "adv_send", "adv_receive"}
MultipleLabels == {"multi_send", "multi_receive"}
PingPongLabels == {"pong_fork", "ping_fork", "pong_wait", "ping_wait"}
BroadcastLabels == {"bc_fork", "bc_send", "bc_receive", "bc_wait"}
RingLabels == {"ring_fork", "ring_send", "ring_start", "ring_receive", "ring_kill", "ring_wait"}

ChildStep(p) == SimpleChild(p) \/ Ping(p) \/ Pong(p) \/ slave(p) \/ Ring(p) \/ Exit(p)

LEMMA MainGuards ==
  /\ Menu => pc[main] = "menu"
  /\ SimpleParent => pc[main] \in SimpleLabels
  /\ Advanced => pc[main] \in AdvancedLabels
  /\ Multiple => pc[main] \in MultipleLabels
  /\ test_ping_pong => pc[main] \in PingPongLabels
  /\ test_broadcast => pc[main] \in BroadcastLabels
  /\ test_ring => pc[main] \in RingLabels
  /\ test_error_handling => pc[main] = "errors"
<1>1. Menu => pc[main] = "menu"
  BY DEF Menu, At
<1>2. SimpleParent => pc[main] \in SimpleLabels
  BY DEF SimpleParent, At, SimpleLabels
<1>3. Advanced => pc[main] \in AdvancedLabels
  BY DEF Advanced, At, AdvancedLabels
<1>4. Multiple => pc[main] \in MultipleLabels
  BY DEF Multiple, At, MultipleLabels
<1>5. test_ping_pong => pc[main] \in PingPongLabels
  BY DEF test_ping_pong, At, PingPongLabels
<1>6. test_broadcast => pc[main] \in BroadcastLabels
  BY DEF test_broadcast, At, InLoop, EndOfLoop, BroadcastLabels
<1>7. test_ring => pc[main] \in RingLabels
  BY DEF test_ring, At, InLoop, EndOfLoop, RingLabels
<1>8. test_error_handling => pc[main] = "errors"
  BY DEF test_error_handling, At
<1> QED
  BY <1>1, <1>2, <1>3, <1>4, <1>5, <1>6, <1>7, <1>8

LEMMA ChildGuards ==
  ASSUME NEW p
  PROVE  /\ SimpleChild(p) => pc[p] \in {"nb_child", "b_child"}
         /\ Ping(p) => pc[p] \in {"ping", "ping_receive"}
         /\ Pong(p) => pc[p] \in {"pong", "pong_send"}
         /\ slave(p) => pc[p] \in {"slave", "slave_send"}
         /\ Ring(p) => pc[p] \in {"ring_first", "ring_loop", "ring_pass"}
         /\ Exit(p) => pc[p] = "exit"
         /\ ChildStep(p) => p \in exists /\ p \notin exited
<1>1. SimpleChild(p) => pc[p] \in {"nb_child", "b_child"} /\ Running(p)
  BY DEF SimpleChild, At
<1>2. Ping(p) => pc[p] \in {"ping", "ping_receive"} /\ Running(p)
  BY DEF Ping, At
<1>3. Pong(p) => pc[p] \in {"pong", "pong_send"} /\ Running(p)
  BY DEF Pong, At
<1>4. slave(p) => pc[p] \in {"slave", "slave_send"} /\ Running(p)
  BY DEF slave, At
<1>5. Ring(p) => pc[p] \in {"ring_first", "ring_loop", "ring_pass"} /\ Running(p)
  BY DEF Ring, RingPass, At
<1>6. Exit(p) => pc[p] = "exit" /\ Running(p)
  BY DEF Exit, At
<1> QED
  BY <1>1, <1>2, <1>3, <1>4, <1>5, <1>6 DEF ChildStep, Running

(* Every step of main has it run.                                          *)
MainStep ==
  \/ Menu \/ SimpleParent \/ Advanced \/ Multiple \/ test_ping_pong
  \/ test_broadcast \/ test_ring \/ test_error_handling

LEMMA MainRuns ==
  ASSUME MainStep
  PROVE  main \in exists
<1>1. \E label : At(main, label)
  BY DEF MainStep, Menu, SimpleParent, Advanced, Multiple, test_ping_pong, test_broadcast,
         test_ring, test_error_handling, InLoop, EndOfLoop
<1> QED
  BY <1>1 DEF At, Running

LEMMA NextIs == Next <=> MainStep \/ (\E p \in Pids : ChildStep(p)) \/ Finished
BY DEF Next, MainStep, ChildStep

-----------------------------------------------------------------------------
(***************************************************************************)
(* Steps of main while it has no children.                                 *)
(***************************************************************************)
LEMMA AloneNext ==
  ASSUME pc'[main] \in {"menu", "exit", "adv_empty", "adv_send", "errors"},
         FamilyNext({}), NoTokens', mailbox_size'[main] = 0
  PROVE  Alone'
BY DEF Alone, AloneLabels, Family, FamilyNext

(* main enters a test.                                                     *)
Starts(label) ==
  /\ pc' = [pc EXCEPT ![main] = label] /\ local' = [local EXCEPT ![main] = NoLocals]

LEMMA StartsIs ==
  ASSUME ProgramsInv, NEW label, Starts(label)
  PROVE  Moves(main, label, NoLocals) /\ ProgramsInv'
<1>1. pc' = [q \in Pids |-> IF q = main THEN label ELSE pc[q]]
  BY DEF ProgramsInv, Starts
<1>2. local' = [q \in Pids |-> IF q = main THEN NoLocals ELSE local[q]]
  BY DEF ProgramsInv, Starts
<1>3. Moves(main, label, NoLocals)
  BY <1>1, <1>2, MainIsPid DEF Moves, SameProgram
<1>4. pc' = [q \in Pids |-> pc'[q]] /\ local' = [q \in Pids |-> local'[q]]
  BY <1>1, <1>2
<1>5. \A q \in Pids : IsLocals(local'[q])
  BY <1>2, NoLocalsIs DEF ProgramsInv
<1> QED
  BY <1>3, <1>4, <1>5 DEF ProgramsInv, IsLocals

TestLabels == {"nb_fork", "adv_empty", "multi_send", "b_fork", "pong_fork", "bc_fork",
               "ring_fork", "errors"}

LEMMA StartStep ==
  ASSUME TypeInv, Alone, Quiet, NEW label \in TestLabels, Starts(label)
  PROVE  Kept /\ (Alone' \/ MultipleInv' \/ BroadcastInv' \/ RingForkInv')
<1>1. ParentsInv' /\ FamilyNext({}) /\ mailbox_size'[main] = 0
  BY FamilyKept DEF Quiet, TypeInv, ParentsInv, Alone
<1>2. Moves(main, label, NoLocals) /\ ProgramsInv'
  BY StartsIs DEF TypeInv
<1>3. NoTokens'
  BY <1>2, NoTokensKept DEF Quiet, Alone, TestLabels
<1>4. pc'[main] = label /\ I' = 0 /\ NKids' = 0
  BY <1>2, NoLocalsIs DEF Moves, I, NKids
<1>5. KidsFrom(1)' = {} /\ KidsApart'
  BY <1>4 DEF KidsFrom, KidsApart
<1>6. CASE label \in {"nb_fork", "b_fork", "pong_fork", "adv_empty", "errors"}
  BY <1>1, <1>2, <1>3, <1>4, <1>6 DEF Kept, Alone, AloneLabels, Family, FamilyNext
<1>7. CASE label = "multi_send"
  BY <1>1, <1>2, <1>3, <1>4, <1>7 DEF Kept, MultipleInv, Family, FamilyNext
<1>8. CASE label = "bc_fork"
  <2>1. Answered' = {}
    BY <1>5 DEF Answered
  <2>2. Cardinality(Answered') = 0
    BY <2>1, FS_EmptySet
  <2>3. 0 + 0 <= 0 /\ 0 <= NSLAVES
    BY Bounds
  <2>4. Family(KidsFrom(1))'
    BY <1>1, <1>5 DEF Family, FamilyNext
  <2>5. BroadcastInv'
    BY <1>1, <1>3, <1>4, <1>5, <1>8, <2>2, <2>3, <2>4 DEF BroadcastInv
  <2> QED
    BY <1>1, <1>2, <2>5 DEF Kept
<1>9. CASE label = "ring_fork"
  <2>1. 0 <= RING_SIZE
    BY Bounds
  <2>2. Family(KidsFrom(1))'
    BY <1>1, <1>5 DEF Family, FamilyNext
  <2>3. RingForkInv'
    BY <1>1, <1>3, <1>4, <1>5, <1>9, <2>1, <2>2 DEF RingForkInv
  <2> QED
    BY <1>1, <1>2, <2>3 DEF Kept
<1> QED
  BY <1>6, <1>7, <1>8, <1>9 DEF TestLabels

(* The menu, and a test that main enters from it.                          *)
LEMMA MenuStep ==
  ASSUME TypeInv, Alone, Menu
  PROVE  Kept /\ (Alone' \/ MultipleInv' \/ BroadcastInv' \/ RingForkInv')
<1>1. Quiet
  BY QuietEffect DEF Menu
<1>2. CASE Goto(main, "exit")
  <2>1. Moves(main, "exit", local[main]) /\ ProgramsInv'
    BY <1>2, GotoIs, MainIsPid DEF TypeInv
  <2>2. NoTokens'
    BY <2>1, <1>1, NoTokensKept DEF Quiet, Alone
  <2>3. ParentsInv' /\ FamilyNext({}) /\ mailbox_size'[main] = 0
    BY <1>1, FamilyKept DEF Quiet, TypeInv, ParentsInv, Alone
  <2>4. Alone'
    BY <2>1, <2>2, <2>3, AloneNext DEF Moves
  <2> QED
    BY <2>1, <2>3, <2>4 DEF Kept
<1>3. CASE \E test \in DOMAIN FirstCall : Starts(FirstCall[test])
  <2>1. PICK test \in DOMAIN FirstCall : Starts(FirstCall[test])
    BY <1>3
  <2>2. FirstCall[test] \in TestLabels
    BY DEF FirstCall, TestLabels
  <2> QED
    BY <1>1, <2>1, <2>2, StartStep
<1> QED
  BY <1>2, <1>3 DEF Menu, Starts

LEMMA ErrorsStep ==
  ASSUME TypeInv, Alone, test_error_handling
  PROVE  Kept /\ Alone'
<1>1. main \in exists /\ 99 \notin exists
  BY Bounds DEF Alone, Family
<1>2. SendResult(main, MAX_MESSAGE_SIZE + 1) = "EINVAL" /\ SendResult(99, 1) = "ESRCH"
  <2>1. MAX_MESSAGE_SIZE + 1 > MAX_MESSAGE_SIZE
    BY Bounds
  <2> QED
    BY <1>1, <2>1 DEF SendResult
<1>3. UNCHANGED kernelVars /\ Goto(main, "menu")
  BY <1>2 DEF test_error_handling
<1>4. Quiet
  BY <1>3, QuietEffect
<1>5. Moves(main, "menu", local[main]) /\ ProgramsInv'
  BY <1>3, GotoIs, MainIsPid DEF TypeInv
<1>6. NoTokens'
  BY <1>4, <1>5, NoTokensKept DEF Quiet, Alone
<1>7. ParentsInv' /\ FamilyNext({}) /\ mailbox_size'[main] = 0
  BY <1>4, FamilyKept DEF Quiet, TypeInv, ParentsInv, Alone
<1> QED
  BY <1>5, <1>6, <1>7, AloneNext DEF Kept, Moves

(* main leaves the program.                                                *)
LEMMA LeaveStep ==
  ASSUME TypeInv, Alone, Exit(main)
  PROVE  Kept /\ exists' = {}
<1>1. exists' = exists \ {main}
      /\ parent_pid' = [q \in Pids |-> IF parent_pid[q] = main THEN NoPid ELSE parent_pid[q]]
  BY KillEffect, MainIsPid DEF Exit, Alone, Family
<1>2. ProgramsInv'
  BY StayIs DEF Exit, TypeInv
<1> QED
  BY <1>1, <1>2 DEF Alone, Family, Kept, ParentsInv

(* test_nb_receive_advanced.                                               *)
LEMMA AdvancedStep ==
  ASSUME TypeInv, Alone \/ AdvancedInv, Advanced
  PROVE  Kept /\ (Alone' \/ AdvancedInv')
<1>0. Family({}) /\ NoTokens /\ main \in exists /\ IsLocals(local[main])
  BY MainIsPid DEF Alone, AdvancedInv, Family, TypeInv, ProgramsInv
<1>1. CASE At(main, "adv_empty")
  <2>1. mailbox_size[main] = 0
    BY <1>1 DEF At, Alone, AdvancedInv
  <2>2. ReceiveFails(main) /\ Continue(main, "adv_send", local[main])
    BY <1>1, <2>1 DEF Advanced, At, ReceiveFirst, Goto
  <2>3. Kept /\ Quiet /\ Moves(main, "adv_send", local[main])
    BY <1>0, <2>2, QuietIs, MainIsPid DEF QuietCall
  <2>4. NoTokens'
    BY <1>0, <2>3, NoTokensKept DEF Quiet
  <2>5. FamilyNext({}) /\ mailbox_size'[main] = 0
    BY <1>0, <2>1, <2>3, FamilyKept DEF Quiet
  <2> QED
    BY <2>3, <2>4, <2>5, AloneNext DEF Moves
<1>2. CASE At(main, "adv_send")
  <2> DEFINE m == Message(main, "TEST", IntSize, Number(1234))
  <2>1. mailbox_size[main] = 0
    BY <1>2 DEF At, Alone, AdvancedInv
  <2>2. TrySend(main, main, "TEST", IntSize, Number(1234), "adv_receive", local[main])
    BY <1>2 DEF Advanced, At
  <2>3. SendResult(main, IntSize) = "0"
    BY <1>0, <2>1, Room, Bounds
  <2>4. Kept /\ Delivers(main, m) /\ Moves(main, "adv_receive", local[main])
    BY <1>0, <2>2, <2>3, TrySendIs, MainIsPid
  <2>5. m.tag # "TOKEN"
    BY DEF Message
  <2> HIDE DEF m
  <2>6. NoTokens'
    BY <1>0, <2>4, <2>5, NoTokensKept
  <2>7. FamilyNext({}) /\ mailbox_size'[main] = 1 /\ mailbox'[main][0] = m
    BY <1>0, <2>1, <2>4, FamilyKept DEF Delivers
  <2>8. AdvancedInv'
    BY <2>4, <2>6, <2>7 DEF AdvancedInv, Moves, Family, FamilyNext, m
  <2> QED
    BY <2>4, <2>8
<1>3. CASE At(main, "adv_receive")
  <2>1. /\ mailbox_size[main] = 1
        /\ mailbox[main][0] = Message(main, "TEST", IntSize, Number(1234))
    BY <1>3 DEF At, Alone, AdvancedInv, AloneLabels
  <2>2. ReceiveFirst(main) /\ Continue(main, "menu", local[main])
    BY <1>3, <2>1 DEF Advanced, At, ReceiveFails, Goto
  <2>3. Kept /\ Takes(main) /\ Moves(main, "menu", local[main])
    BY <1>0, <2>2, ReceiveIs, MainIsPid
  <2>4. NoTokens'
    BY <1>0, <2>3, NoTokensKept
  <2>5. FamilyNext({}) /\ mailbox_size'[main] = 0
    BY <1>0, <2>1, <2>3, FamilyKept DEF Takes
  <2> QED
    BY <2>3, <2>4, <2>5, AloneNext DEF Moves
<1> QED
  BY <1>1, <1>2, <1>3 DEF Advanced

(* test_nb_multiple_messages: the loop that sends.                         *)
LEMMA MultipleSend ==
  ASSUME TypeInv, MultipleInv, Multiple, At(main, "multi_send")
  PROVE  Kept /\ MultipleInv'
<1> DEFINE n == local[main].i
           m == Message(main, "TEST", IntSize, Number(n))
<1>0. /\ Family({}) /\ NoTokens /\ main \in exists /\ n \in Nat /\ n = I
      /\ pc[main] = "multi_send" /\ mailbox_size[main] = n
      /\ \A k \in 0 .. (n - 1) : IsNumber(mailbox[main][k], k)
  BY MainIsPid DEF MultipleInv, Family, TypeInv, ProgramsInv, IsLocals, At, I
<1>b. ~ (n >= MAX_SENDS)
  BY <1>0, Bounds, MainIsPid DEF TypeInv, MailboxesInv
<1>1. syscall_send(main, main, "TEST", IntSize, Number(n))
  BY <1>0, <1>b DEF Multiple, At
<1>2. \/ SendResult(main, IntSize) = "0" /\ Continue(main, "multi_send", Count(main))
      \/ /\ SendResult(main, IntSize) = "ENOMEM"
         /\ Continue(main, "multi_receive", [Reset(main) EXCEPT !.token = n])
      \/ /\ SendResult(main, IntSize) # "0" /\ SendResult(main, IntSize) # "ENOMEM"
         /\ Goto(main, "failed")
  BY <1>0, <1>b DEF Multiple, At
<1>3. SendResult(main, IntSize) = "0" \/ SendResult(main, IntSize) = "ENOMEM"
  BY <1>0, Bounds DEF SendResult
<1>4. IsNumber(m, n) /\ m.tag # "TOKEN"
  BY DEF Message, IsNumber
<1>5. CASE SendResult(main, IntSize) = "0"
  <2>1. Delivers(main, m)
    BY <1>1, <1>5, SendEffect
  <2>2. Moves(main, "multi_send", Count(main)) /\ ProgramsInv'
    BY <1>2, <1>5, ContinueIs, CountIs, MainIsPid DEF TypeInv
  <2>3. ParentsInv' /\ FamilyNext({})
    BY <1>0, <2>1, FamilyKept DEF Delivers, TypeInv, ParentsInv
  <2> HIDE DEF m
  <2>4. NoTokens'
    BY <1>0, <1>4, <2>1, <2>2, NoTokensKept
  <2>5. I' = n + 1 /\ mailbox_size'[main] = n + 1
    BY <1>0, <2>1, <2>2, CountIs, MainIsPid DEF I, Moves, Delivers, TypeInv
  <2>6. \A k \in 0 .. ((n + 1) - 1) : IsNumber(mailbox'[main][k], k)
    <3> TAKE k \in 0 .. ((n + 1) - 1)
    <3>1. CASE k = n
      BY <1>0, <1>4, <2>1, <3>1 DEF Delivers
    <3>2. CASE k # n
      <4>1. k \in 0 .. (n - 1)
        BY <1>0, <3>2
      <4> QED
        BY <1>0, <2>1, <4>1 DEF Delivers
    <3> QED
      BY <3>1, <3>2
  <2>7. MultipleInv'
    BY <2>2, <2>3, <2>4, <2>5, <2>6 DEF MultipleInv, Moves, Family, FamilyNext, IsNumber
  <2> QED
    BY <2>2, <2>3, <2>7 DEF Kept
<1>6. CASE SendResult(main, IntSize) = "ENOMEM"
  <2> DEFINE r == Reset(main)
             l == [r EXCEPT !.token = n]
  <2>1. Quiet
    BY <1>1, <1>6, SendEffect
  <2>2. IsLocals(r) /\ r.i = 0
    BY ResetIs, MainIsPid DEF TypeInv
  <2>3. Continue(main, "multi_receive", l)
    BY <1>2, <1>6
  <2> HIDE DEF r
  <2>4. IsLocals(l) /\ l.i = 0 /\ l.token = n
    BY <2>2, SetToken
  <2> HIDE DEF l
  <2>5. Moves(main, "multi_receive", l) /\ ProgramsInv'
    BY <2>3, <2>4, ContinueIs, MainIsPid DEF TypeInv
  <2>6. ParentsInv' /\ FamilyNext({})
    BY <1>0, <2>1, FamilyKept DEF Quiet, TypeInv, ParentsInv
  <2>7. NoTokens'
    BY <1>0, <2>1, <2>5, NoTokensKept DEF Quiet
  <2>8. /\ I' = 0 /\ local'[main].token = n /\ mailbox_size'[main] = n
        /\ \A k \in 0 .. (n - 0 - 1) : IsNumber(mailbox'[main][k], 0 + k)
    BY <1>0, <2>1, <2>4, <2>5 DEF I, Moves, Quiet
  <2>9. MultipleInv'
    BY <1>0, <2>5, <2>6, <2>7, <2>8 DEF MultipleInv, Moves, Family, FamilyNext, IsNumber
  <2> QED
    BY <2>5, <2>6, <2>9 DEF Kept
<1> QED
  BY <1>3, <1>5, <1>6

(* and the loop that receives.                                             *)
LEMMA MultipleReceive ==
  ASSUME TypeInv, MultipleInv, Multiple, At(main, "multi_receive")
  PROVE  Kept /\ (MultipleInv' \/ Alone')
<1> DEFINE i == local[main].i
           n == local[main].token
           m == mailbox[main][0]
<1>0. /\ Family({}) /\ NoTokens /\ i \in Nat /\ n \in Nat /\ i <= n
      /\ pc[main] = "multi_receive" /\ mailbox_size[main] = n - i
      /\ \A k \in 0 .. (n - i - 1) : IsNumber(mailbox[main][k], i + k)
      /\ IsLocals(local[main])
  BY MainIsPid DEF MultipleInv, Family, TypeInv, ProgramsInv, IsLocals, At, I
<1>1. CASE i < n
  <2>1. /\ ReceiveFirst(main)
        /\ Continue(main, IF m.tag = "TEST" /\ m.size = IntSize /\ m.data = Number(i)
                          THEN "multi_receive" ELSE "failed", Count(main))
    <3>1. ~ ReceiveFails(main) /\ ~ (i >= n)
      BY <1>0, <1>1 DEF ReceiveFails
    <3> QED
      BY <1>0, <1>1, <3>1 DEF Multiple, At
  <2>2. IsNumber(m, i)
    <3>1. 0 \in 0 .. (n - i - 1) /\ i + 0 = i
      BY <1>0, <1>1
    <3> QED
      BY <1>0, <3>1
  <2>3. Continue(main, "multi_receive", Count(main))
    BY <2>1, <2>2 DEF IsNumber
  <2>4. Kept /\ Takes(main) /\ Moves(main, "multi_receive", Count(main))
    BY <2>1, <2>3, ReceiveIs, CountIs, MainIsPid DEF TypeInv
  <2>5. NoTokens' /\ FamilyNext({})
    BY <1>0, <2>4, NoTokensKept, FamilyKept DEF Takes
  <2>6. I' = i + 1 /\ local'[main].token = n
    BY <2>4, CountIs, MainIsPid DEF I, Moves, TypeInv
  <2>7. mailbox_size'[main] = n - (i + 1) /\ i + 1 <= n /\ i + 1 \in Nat
    BY <1>0, <1>1, <2>4 DEF Takes
  <2>8. \A k \in 0 .. (n - (i + 1) - 1) : IsNumber(mailbox'[main][k], (i + 1) + k)
    <3> TAKE k \in 0 .. (n - (i + 1) - 1)
    <3>1. /\ k \in 0 .. (n - i - 2) /\ k + 1 \in 0 .. (n - i - 1) /\ i + (k + 1) = (i + 1) + k
          /\ n - i - 2 = mailbox_size[main] - 2
      BY <1>0
    <3>2. mailbox'[main][k] = mailbox[main][k + 1]
      BY <2>4, <3>1 DEF Takes
    <3> QED
      BY <1>0, <3>1, <3>2
  <2>9. MultipleInv'
    BY <1>0, <2>4, <2>5, <2>6, <2>7, <2>8 DEF MultipleInv, Moves, Family, FamilyNext, IsNumber
  <2> QED
    BY <2>4, <2>9
<1>2. CASE ~ (i < n)
  <2>1. mailbox_size[main] = 0
    BY <1>0, <1>2
  <2>2. ReceiveFails(main) /\ Continue(main, "menu", local[main])
    BY <1>0, <1>2, <2>1 DEF Multiple, At, ReceiveFirst, Goto
  <2>3. Kept /\ Quiet /\ Moves(main, "menu", local[main])
    BY <1>0, <2>2, QuietIs, MainIsPid DEF QuietCall
  <2>4. NoTokens' /\ FamilyNext({}) /\ mailbox_size'[main] = 0
    BY <1>0, <2>1, <2>3, NoTokensKept, FamilyKept DEF Quiet
  <2> QED
    BY <2>3, <2>4, AloneNext DEF Moves
<1> QED
  BY <1>1, <1>2

-----------------------------------------------------------------------------
(***************************************************************************)
(* A fork by main, whose children so far are KidsFrom(1).                  *)
(***************************************************************************)
LEMMA ForkKids ==
  ASSUME TypeInv, KidsApart, Family(KidsFrom(1)), NEW c, NEW label, NEW childLabel, NEW l,
         ForksTo(main, c, label, childLabel, l), l.pids = Append(local[main].pids, c)
  PROVE  /\ NKids' = NKids + 1 /\ (\A k : k = NKids + 1 => Kid(k)' = c)
         /\ \A k \in 1 .. NKids : Kid(k)' = Kid(k)
         /\ KidsFrom(1)' = KidsFrom(1) \cup {c} /\ KidsApart'
         /\ FamilyNext(KidsFrom(1) \cup {c}) /\ c \notin KidsFrom(1) /\ c # main /\ c \in Pids
<1>1. /\ NKids \in Nat /\ KidsFrom(1) \subseteq Pids /\ local[main].pids \in Seq(Pids)
  BY KidType
<1>2. Begins(main, c) /\ c \in Pids /\ local'[main] = l
  BY DEF ForksTo, Begins
<1>3. FamilyNext(KidsFrom(1) \cup {c}) /\ c \notin KidsFrom(1) /\ c # main
  <2> DEFINE S == KidsFrom(1)
  <2>1. S \subseteq Pids /\ Family(S)
    BY <1>1
  <2> HIDE DEF S
  <2>2. FamilyNext(S \cup {c}) /\ c \notin S /\ c # main
    BY <2>1, <1>2, FamilyFork
  <2> QED
    BY <2>2 DEF S
<1>4. /\ NKids' = NKids + 1 /\ (\A k : k = NKids + 1 => Kid(k)' = c)
      /\ \A k \in 1 .. NKids : Kid(k)' = Kid(k)
  <2> DEFINE s == local[main].pids
  <2>1. local'[main].pids = Append(s, c) /\ s \in Seq(Pids)
    BY <1>1, <1>2
  <2>2. /\ Len(Append(s, c)) = Len(s) + 1 /\ Append(s, c)[Len(s) + 1] = c
        /\ \A k \in 1 .. Len(s) : Append(s, c)[k] = s[k]
    BY <2>1, <1>2
  <2> QED
    BY <2>1, <2>2 DEF NKids, Kid
<1>5. KidsFrom(1)' = KidsFrom(1) \cup {c}
  <2>1. \A x : x \in KidsFrom(1)' <=> \E k \in 1 .. (NKids + 1) : x = Kid(k)'
    BY <1>4 DEF KidsFrom
  <2>2. \A x : x \in KidsFrom(1) <=> \E k \in 1 .. NKids : x = Kid(k)
    BY DEF KidsFrom
  <2>3. \A k : k \in 1 .. (NKids + 1) <=> k \in 1 .. NKids \/ k = NKids + 1
    BY <1>1
  <2> QED
    BY <2>1, <2>2, <2>3, <1>4
<1>6. KidsApart'
  <2>1. \A k \in 1 .. NKids : Kid(k) # c /\ Kid(k) # main
    BY <1>3 DEF KidsFrom, KidsApart
  <2>2. \A k : k \in 1 .. (NKids + 1) <=> k \in 1 .. NKids \/ k = NKids + 1
    BY <1>1
  <2>3. \A j, k \in 1 .. (NKids + 1) : j # k => Kid(j)' # Kid(k)'
    BY <2>1, <2>2, <1>4 DEF KidsApart
  <2>4. \A k \in 1 .. (NKids + 1) : Kid(k)' # main
    BY <2>1, <2>2, <1>3, <1>4
  <2> QED
    BY <2>3, <2>4, <1>4 DEF KidsApart
<1> QED
  BY <1>2, <1>3, <1>4, <1>5, <1>6

LEMMA NoKids ==
  ASSUME NKids = 0
  PROVE  KidsApart /\ KidsFrom(1) = {}
BY DEF KidsApart, KidsFrom

(* There are at most as many children as pids of them.                     *)
LEMMA KidsFinite ==
  ASSUME TypeInv
  PROVE  IsFiniteSet(KidsFrom(1)) /\ Cardinality(KidsFrom(1)) <= NKids
<1> DEFINE n == NKids
           K == KidsFrom(1)
           f == [k \in 1 .. n |-> Kid(k)]
<1>1. n \in Nat
  BY KidType
<1>2. f \in Surjection(1 .. n, K)
  BY DEF Surjection, KidsFrom
<1> HIDE DEF n, K, f
<1>3. IsFiniteSet(1 .. n) /\ Cardinality(1 .. n) = n
  BY <1>1, FS_Interval
<1>4. IsFiniteSet(K) /\ Cardinality(K) <= Cardinality(1 .. n)
  BY <1>2, <1>3, FS_Surjection
<1> QED
  BY <1>3, <1>4 DEF n, K

(* The processes are main and its children, so that while a test has       *)
(* fewer children than there are slots beside main's, a fork finds one.    *)
LEMMA SlotFree ==
  ASSUME TypeInv, Family(KidsFrom(1)), NKids < LastPid - FirstPid
  PROVE  ~ ForkFails
<1> DEFINE K == KidsFrom(1)
           n == LastPid - FirstPid
<1>1. IsFiniteSet(K) /\ Cardinality(K) <= NKids /\ NKids \in Nat
  BY KidsFinite, KidType
<1>2. exists = {main} \cup K
  BY DEF Family
<1>3. NKids < n /\ n \in Nat
  BY MessagesAssumption
<1>4. IsFiniteSet(Pids) /\ Cardinality(Pids) = n + 1
  <2>1. FirstPid \in Int /\ LastPid \in Int /\ ~ (FirstPid > LastPid)
    BY MessagesAssumption
  <2>2. IsFiniteSet(FirstPid .. LastPid) /\ Cardinality(FirstPid .. LastPid) = LastPid - FirstPid + 1
    BY <2>1, FS_Interval
  <2>3. LastPid - FirstPid + 1 = n + 1
    BY <2>1
  <2> QED
    BY <2>2, <2>3 DEF Pids
<1> HIDE DEF K, n
<1>5. Cardinality(K) \in Nat
  BY <1>1, FS_CardinalityType
<1>6. IsFiniteSet(K \cup {main}) /\ Cardinality(K \cup {main}) <= Cardinality(K) + 1
  <2>1. /\ IsFiniteSet(K \cup {main})
        /\ Cardinality(K \cup {main}) = IF main \in K THEN Cardinality(K) ELSE Cardinality(K) + 1
    BY <1>1, FS_AddElement
  <2> QED
    BY <1>5, <2>1
<1>7. SUFFICES ASSUME Pids \subseteq exists PROVE FALSE
  BY DEF ForkFails
<1>8. Pids \in SUBSET (K \cup {main})
  BY <1>2, <1>7
<1>9. Cardinality(Pids) <= Cardinality(K \cup {main}) /\ Cardinality(K \cup {main}) \in Nat
  BY <1>6, <1>8, FS_Subset, FS_CardinalityType
<1> QED
  BY <1>1, <1>3, <1>4, <1>5, <1>6, <1>9

(* The first fork of a test finds a slot.                                  *)
LEMMA AloneSlots ==
  ASSUME TypeInv, Alone, pc[main] \in {"nb_fork", "b_fork", "pong_fork"}
  PROVE  ~ ForkFails
<1>1. NKids = 0 /\ Family({})
  BY DEF Alone
<1>2. KidsFrom(1) = {} /\ Family(KidsFrom(1))
  BY <1>1, NoKids
<1>3. 2 <= LastPid - FirstPid
  BY MpTestAssumption
<1>4. NKids < LastPid - FirstPid
  BY <1>1, <1>3, MessagesAssumption
<1> QED
  BY <1>2, <1>4, SlotFree

(* The first child of a test.                                              *)
LEMMA FirstFork ==
  ASSUME TypeInv, Alone, NKids = 0, NEW c, NEW label, NEW childLabel,
         label # "ring_pass", childLabel # "ring_pass",
         ForksTo(main, c, label, childLabel, Forked(main, c))
  PROVE  /\ NKids' = 1 /\ KidsApart' /\ Kid(1)' = c /\ FamilyNext({c}) /\ NoTokens'
         /\ mailbox_size'[main] = 0 /\ mailbox_size'[c] = 0 /\ c \notin exited'
         /\ pc'[main] = label /\ pc'[c] = childLabel /\ local'[c] = local[main]
         /\ c \in Pids /\ c # main /\ I' = I
<1> DEFINE l == Forked(main, c)
<1>1. KidsApart /\ KidsFrom(1) = {} /\ Family(KidsFrom(1))
  BY NoKids DEF Alone
<1>2. c \in Pids
  BY DEF ForksTo, Begins
<1>3. l.pids = Append(local[main].pids, c) /\ l.i = I
  BY <1>2, ForkedIs, MainIsPid DEF TypeInv, I
<1>4. ForksTo(main, c, label, childLabel, l)
  OBVIOUS
<1> HIDE DEF l
<1>5. /\ NKids' = 0 + 1 /\ (\A k : k = 0 + 1 => Kid(k)' = c) /\ KidsApart' /\ FamilyNext({} \cup {c}) /\ c # main
  BY <1>1, <1>3, <1>4, ForkKids
<1>6. NKids' = 1 /\ Kid(1)' = c /\ FamilyNext({c})
  BY <1>5
<1>7. NoTokens'
  BY <1>4, NoTokensFork DEF Alone
<1>8. /\ mailbox_size'[main] = 0 /\ mailbox_size'[c] = 0 /\ c \notin exited'
      /\ pc'[main] = label /\ pc'[c] = childLabel /\ local'[c] = local[main]
  BY <1>4, <1>5, MainIsPid DEF ForksTo, Begins, SameBox, Alone
<1>9. I' = I
  BY <1>3, <1>4 DEF ForksTo, I
<1> QED
  BY <1>2, <1>5, <1>6, <1>7, <1>8, <1>9

(* A Fork in the program is a fork of one child.                           *)
LEMMA ForkOne ==
  ASSUME TypeInv, main \in exists, NEW c \in Pids, NEW label, NEW childLabel, syscall_fork(main, c),
         pc' = [pc EXCEPT ![main] = label, ![c] = childLabel],
         local' = [local EXCEPT ![main] = Forked(main, c), ![c] = local[main]]
  PROVE  ForksTo(main, c, label, childLabel, Forked(main, c)) /\ Kept
<1> DEFINE l == Forked(main, c)
<1>1. IsLocals(l)
  BY ForkedIs, MainIsPid DEF TypeInv
<1> HIDE DEF l
<1>2. local' = [local EXCEPT ![main] = l, ![c] = local[main]]
  BY DEF l
<1>3. ForksTo(main, c, label, childLabel, l) /\ ProgramsInv' /\ ParentsInv'
  BY <1>1, <1>2, ForkIs, MainIsPid
<1> QED
  BY <1>3 DEF Kept, l

-----------------------------------------------------------------------------
(***************************************************************************)
(* test_nb_receive_simple and test_b_receive_simple.                       *)
(***************************************************************************)
LEMMA SimpleFork ==
  ASSUME TypeInv, Alone, SimpleParent
  PROVE  Kept /\ SimpleInv'
<1>0. main \in exists /\ pc[main] \in AloneLabels
  BY DEF Alone, Family
<1>s. pc[main] \in {"nb_fork", "b_fork"}
  BY <1>0 DEF SimpleParent, At, AloneLabels
<1>f. ~ ForkFails
  BY <1>s, AloneSlots
<1>1. /\ pc[main] \in {"nb_fork", "b_fork"}
      /\ \E childLabel \in {"nb_child", "b_child"} : \E c \in Pids :
           /\ syscall_fork(main, c)
           /\ pc' = [pc EXCEPT ![main] = "simple_key", ![c] = childLabel]
           /\ local' = [local EXCEPT ![main] = Forked(main, c), ![c] = local[main]]
  BY <1>0, <1>f DEF SimpleParent, At, AloneLabels, Fork
<1>2. PICK childLabel \in {"nb_child", "b_child"}, c \in Pids :
           /\ syscall_fork(main, c)
           /\ pc' = [pc EXCEPT ![main] = "simple_key", ![c] = childLabel]
           /\ local' = [local EXCEPT ![main] = Forked(main, c), ![c] = local[main]]
  BY <1>1
<1>3. ForksTo(main, c, "simple_key", childLabel, Forked(main, c)) /\ Kept
  BY <1>0, <1>2, ForkOne
<1>4. NKids = 0 /\ childLabel # "ring_pass" /\ "simple_key" # "ring_pass"
  BY <1>1 DEF Alone
<1>5. /\ NKids' = 1 /\ KidsApart' /\ Kid(1)' = c /\ FamilyNext({c}) /\ NoTokens'
      /\ mailbox_size'[main] = 0 /\ pc'[main] = "simple_key" /\ pc'[c] = childLabel
  BY <1>3, <1>4, FirstFork
<1>6. SimpleInv'
  BY <1>5 DEF SimpleInv, Family, FamilyNext
<1> QED
  BY <1>3, <1>6

LEMMA SimpleNext ==
  ASSUME SimpleInv, local'[main].pids = local[main].pids, FamilyNext({Kid(1)}), NoTokens',
         mailbox_size'[main] = 0, pc'[Kid(1)] = pc[Kid(1)],
         pc'[main] \in {"simple_key", "simple_send", "simple_kill", "simple_wait"}
  PROVE  SimpleInv'
<1>1. NKids' = NKids /\ (KidsApart => KidsApart') /\ Kid(1)' = Kid(1)
  BY KidsSame
<1> QED
  BY <1>1 DEF SimpleInv, Family, FamilyNext

LEMMA SimpleStep ==
  ASSUME TypeInv, SimpleInv, SimpleParent
  PROVE  Kept /\ (SimpleInv' \/ Alone')
<1> DEFINE c == Kid(1)
           l == local[main]
<1>0. /\ main \in exists /\ c \in exists /\ c \in Pids /\ c # main /\ parent_pid[c] = main
      /\ IsLocals(l) /\ Family({c}) /\ NoTokens /\ mailbox_size[main] = 0 /\ c = l.pids[1]
  <2>1. NKids = 1 /\ Kid(1) \in Pids /\ Kid(1) # main
    BY KidType DEF SimpleInv, KidsApart
  <2> QED
    BY <2>1, MainIsPid DEF SimpleInv, Family, TypeInv, ProgramsInv, Kid
<1>1. CASE At(main, "simple_key")
  <2>1. \E label \in {"simple_send", "simple_kill"} : \E v \in {l, Count(main)} :
          UNCHANGED kernelVars /\ Continue(main, label, v)
    BY <1>1 DEF SimpleParent, At, Goto
  <2>2. PICK label \in {"simple_send", "simple_kill"}, v \in {l, Count(main)} :
          UNCHANGED kernelVars /\ Continue(main, label, v)
    BY <2>1
  <2>3. IsLocals(v) /\ v.pids = l.pids
    BY <2>2, <1>0, CountIs, MainIsPid DEF TypeInv
  <2>4. Kept /\ Quiet /\ Moves(main, label, v)
    BY <2>2, <2>3, QuietIs, MainIsPid DEF QuietCall
  <2>5. NoTokens' /\ FamilyNext({c}) /\ mailbox_size'[main] = 0
    BY <1>0, <2>2, <2>4, NoTokensKept, FamilyKept DEF Quiet
  <2>6. pc'[c] = pc[c] /\ local'[main].pids = l.pids /\ pc'[main] = label
    BY <1>0, <2>3, <2>4 DEF Moves, SameProgram
  <2> QED
    BY <2>2, <2>4, <2>5, <2>6, SimpleNext
<1>2. CASE At(main, "simple_send")
  <2> DEFINE m == Message(main, "TEST", 1, Number(l.i))
  <2>1. Send(main, c, "TEST", 1, Number(l.i), "simple_key", l)
    BY <1>0, <1>2 DEF SimpleParent, At
  <2>2. Kept /\ Moves(main, "simple_key", l) /\ (Delivers(c, m) \/ Quiet)
    BY <1>0, <2>1, SendIs, MainIsPid
  <2>3. m.tag # "TOKEN"
    BY DEF Message
  <2> HIDE DEF m
  <2>4. NoTokens'
    BY <1>0, <2>2, <2>3, NoTokensKept DEF Quiet
  <2>5. FamilyNext({c}) /\ mailbox_size'[main] = 0
    BY <1>0, <2>2, FamilyKept, MainIsPid DEF Quiet, Delivers, SameBox
  <2>6. pc'[c] = pc[c] /\ local'[main].pids = l.pids /\ pc'[main] = "simple_key"
    BY <1>0, <2>2 DEF Moves, SameProgram
  <2> QED
    BY <2>2, <2>4, <2>5, <2>6, SimpleNext
<1>3. CASE At(main, "simple_kill")
  <2>1. TryKill(main, c, "simple_wait")
    BY <1>0, <1>3 DEF SimpleParent, At
  <2>2. kill_process(c) /\ Goto(main, "simple_wait")
    BY <1>0, <2>1 DEF TryKill
  <2>3. FamilyNext({c}) /\ UNCHANGED <<mailbox, mailbox_size>> /\ ParentsInv'
    BY <1>0, <2>2, FamilyKill
  <2>4. Moves(main, "simple_wait", l) /\ ProgramsInv'
    BY <2>2, GotoIs, MainIsPid DEF TypeInv
  <2>5. NoTokens' /\ mailbox_size'[main] = 0
    BY <1>0, <2>3, <2>4, NoTokensKept
  <2>6. pc'[c] = pc[c] /\ local'[main].pids = l.pids /\ pc'[main] = "simple_wait"
    BY <1>0, <2>4 DEF Moves, SameProgram
  <2> QED
    BY <2>3, <2>4, <2>5, <2>6, SimpleNext DEF Kept
<1>4. CASE At(main, "simple_wait")
  <2>1. TryWaitpid(main, c, "menu", l)
    BY <1>0, <1>4 DEF SimpleParent, At
  <2>2. /\ Kept /\ UNCHANGED <<exited, parent_pid, mailbox, mailbox_size, msg>>
        /\ \/ Quiet /\ \A q \in Pids : SameProgram(q)
           \/ exists' = exists \ {c} /\ Moves(main, "menu", l)
    BY <1>0, <2>1, WaitpidIs, MainIsPid
  <2>3. NoTokens' /\ mailbox_size'[main] = 0
    BY <1>0, <2>2, NoTokensKept
  <2>4. CASE Quiet /\ \A q \in Pids : SameProgram(q)
    <3>1. FamilyNext({c})
      BY <1>0, <2>4, FamilyKept DEF Quiet
    <3>2. pc'[c] = pc[c] /\ local'[main].pids = l.pids /\ pc'[main] = "simple_wait"
      BY <1>0, <1>4, <2>4, MainIsPid DEF SameProgram, At
    <3> QED
      BY <2>2, <2>3, <3>1, <3>2, SimpleNext
  <2>5. CASE exists' = exists \ {c} /\ Moves(main, "menu", l)
    <3>1. FamilyNext({c} \ {c}) /\ {c} \ {c} = {}
      BY <1>0, <2>2, <2>5, FamilyReap
    <3> QED
      BY <2>2, <2>3, <2>5, <3>1, AloneNext DEF Moves
  <2> QED
    BY <2>2, <2>4, <2>5
<1>5. pc[main] \notin {"nb_fork", "b_fork"}
  BY DEF SimpleInv
<1> QED
  BY <1>1, <1>2, <1>3, <1>4, <1>5 DEF SimpleParent, At

LEMMA SimpleChildStep ==
  ASSUME TypeInv, SimpleInv, NEW p \in Pids, SimpleChild(p)
  PROVE  Kept /\ SimpleInv'
<1> DEFINE c == Kid(1)
<1>0. /\ c \in Pids /\ c # main /\ IsLocals(local[c]) /\ Family({c}) /\ NoTokens
      /\ mailbox_size[main] = 0
  <2>1. NKids = 1 /\ Kid(1) \in Pids /\ Kid(1) # main
    BY KidType DEF SimpleInv, KidsApart
  <2> QED
    BY <2>1, MainIsPid DEF SimpleInv, Family, TypeInv, ProgramsInv, Kid
<1>1. p = c
  <2>1. p \in exists /\ pc[p] \in {"nb_child", "b_child"}
    BY ChildGuards DEF ChildStep
  <2> QED
    BY <1>0, <2>1 DEF SimpleInv, Family
<1>2. /\ Kept /\ (Takes(c) \/ Quiet)
      /\ (\A q \in Pids : SameProgram(q)) \/ (pc[c] = "b_child" /\ Moves(c, "b_child", local[c]))
  <2>1. CASE At(c, "nb_child") /\ ReceiveFails(c) /\ Stay
    BY <1>0, <2>1, BlocksIs DEF QuietCall
  <2>2. CASE At(c, "nb_child") /\ ReceiveFirst(c) /\ Stay
    <3>1. Takes(c) /\ ProgramsInv' /\ \A q \in Pids : SameProgram(q)
      BY <1>0, <2>2, ReceiveEffect, StayIs DEF TypeInv
    <3> QED
      BY <3>1 DEF Kept, Takes, TypeInv, ParentsInv
  <2>3. CASE At(c, "b_child") /\ ReceiveBlocks(c) /\ Stay
    BY <1>0, <2>3, BlocksIs DEF QuietCall
  <2>4. CASE At(c, "b_child") /\ ReceiveFirst(c) /\ Continue(c, "b_child", local[c])
    BY <1>0, <2>4, ReceiveIs DEF At
  <2> QED
    BY <1>1, <2>1, <2>2, <2>3, <2>4 DEF SimpleChild, TryReceive, Any
<1>3. NoTokens'
  BY <1>0, <1>2, NoTokensKept DEF Quiet
<1>4. FamilyNext({c}) /\ mailbox_size'[main] = 0
  BY <1>0, <1>2, FamilyKept, MainIsPid DEF Quiet, Takes, SameBox
<1>5. pc'[c] = pc[c] /\ local'[main].pids = local[main].pids /\ pc'[main] = pc[main]
  BY <1>0, <1>2, MainIsPid DEF Moves, SameProgram
<1> QED
  BY <1>2, <1>3, <1>4, <1>5, SimpleNext DEF SimpleInv

-----------------------------------------------------------------------------
(***************************************************************************)
(* test_ping_pong.                                                         *)
(***************************************************************************)
LEMMA PongFork ==
  ASSUME TypeInv, Alone, test_ping_pong
  PROVE  Kept /\ PongInv'
<1>0. main \in exists /\ pc[main] \in AloneLabels
  BY DEF Alone, Family
<1>s. pc[main] = "pong_fork"
  BY <1>0 DEF test_ping_pong, At, AloneLabels
<1>f. ~ ForkFails
  BY <1>s, AloneSlots
<1>1. /\ pc[main] = "pong_fork"
      /\ \E c \in Pids :
           /\ syscall_fork(main, c)
           /\ pc' = [pc EXCEPT ![main] = "ping_fork", ![c] = "pong"]
           /\ local' = [local EXCEPT ![main] = Forked(main, c), ![c] = local[main]]
  BY <1>0, <1>f DEF test_ping_pong, At, AloneLabels, Fork
<1>2. PICK c \in Pids :
           /\ syscall_fork(main, c)
           /\ pc' = [pc EXCEPT ![main] = "ping_fork", ![c] = "pong"]
           /\ local' = [local EXCEPT ![main] = Forked(main, c), ![c] = local[main]]
  BY <1>1
<1>3. ForksTo(main, c, "ping_fork", "pong", Forked(main, c)) /\ Kept
  BY <1>0, <1>2, ForkOne
<1>4. NKids = 0 /\ I = 0 /\ "pong" # "ring_pass" /\ "ping_fork" # "ring_pass"
  BY <1>1 DEF Alone
<1>5. /\ NKids' = 1 /\ KidsApart' /\ Kid(1)' = c /\ FamilyNext({c}) /\ NoTokens' /\ I' = I
      /\ mailbox_size'[main] = 0 /\ pc'[main] = "ping_fork" /\ pc'[c] = "pong"
      /\ mailbox_size'[c] = 0 /\ c \notin exited' /\ local'[c] = local[main]
  BY <1>3, <1>4, FirstFork
<1>6. local'[c].i = 0
  BY <1>4, <1>5 DEF I
<1>7. PongInv'
  BY <1>4, <1>5, <1>6 DEF PongInv, Family, FamilyNext
<1> QED
  BY <1>3, <1>7

(* pong waits for ping to begin.                                           *)
LEMMA PongWaits ==
  ASSUME TypeInv, PongInv, NEW p \in Pids, Pong(p)
  PROVE  Kept /\ PongInv'
<1>1. p = Kid(1) /\ local[p].i = 0 /\ mailbox_size[p] = 0 /\ pc[p] = "pong"
  <2>1. p \in exists /\ pc[p] \in {"pong", "pong_send"}
    BY ChildGuards DEF ChildStep
  <2> QED
    BY <2>1 DEF PongInv, Family
<1>2. local[p].i < PINGS /\ ~ (local[p].i >= PINGS)
  BY <1>1, Bounds
<1>3. ReceiveBlocks(p) /\ Stay
  BY <1>1, <1>2 DEF Pong, At, TryReceive, ReceiveFirst
<1>4. Kept /\ Quiet /\ \A q \in Pids : SameProgram(q)
  BY <1>3, BlocksIs DEF QuietCall
<1>5. local'[main].pids = local[main].pids /\ pc'[main] = pc[main] /\ I' = I
  BY <1>4, MainIsPid DEF SameProgram, I
<1>6. NKids' = NKids /\ (KidsApart => KidsApart') /\ Kid(1)' = Kid(1)
  BY <1>5, KidsSame
<1>7. NoTokens' /\ FamilyNext({Kid(1)})
  BY <1>4, NoTokensKept, FamilyKept DEF PongInv, Quiet
<1>8. pc'[p] = pc[p] /\ local'[p] = local[p] /\ UNCHANGED <<exited, mailbox_size>>
  BY <1>4 DEF SameProgram, Quiet
<1> QED
  BY <1>1, <1>4, <1>5, <1>6, <1>7, <1>8 DEF PongInv, Family, FamilyNext

LEMMA PingFork ==
  ASSUME TypeInv, PongInv, test_ping_pong
  PROVE  Kept /\ PingPongInv'
<1>0. main \in exists /\ pc[main] = "ping_fork" /\ NKids = 1 /\ KidsFrom(1) = {Kid(1)}
      /\ Family(KidsFrom(1)) /\ KidsApart
  <2>1. NKids = 1 /\ pc[main] = "ping_fork" /\ Family({Kid(1)}) /\ KidsApart
    BY DEF PongInv
  <2>2. KidsFrom(1) = {Kid(1)}
    BY <2>1 DEF KidsFrom
  <2> QED
    BY <2>1, <2>2 DEF Family
<1>f. ~ ForkFails
  BY <1>0, SlotFree, MpTestAssumption, MessagesAssumption
<1>1. PICK d \in Pids :
           /\ syscall_fork(main, d)
           /\ pc' = [pc EXCEPT ![main] = "pong_wait", ![d] = "ping"]
           /\ local' = [local EXCEPT ![main] = Forked(main, d), ![d] = local[main]]
  BY <1>0, <1>f DEF test_ping_pong, At, Fork
<1> DEFINE l == Forked(main, d)
<1>2. ForksTo(main, d, "pong_wait", "ping", l) /\ Kept
  BY <1>0, <1>1, ForkOne
<1>3. l.pids = Append(local[main].pids, d)
  BY ForkedIs, MainIsPid DEF TypeInv
<1>4. NoTokens'
  BY <1>2, NoTokensFork DEF PongInv
<1> HIDE DEF l
<1>5. /\ NKids' = NKids + 1 /\ (\A k : k = NKids + 1 => Kid(k)' = d)
      /\ (\A k \in 1 .. NKids : Kid(k)' = Kid(k))
      /\ KidsApart' /\ FamilyNext(KidsFrom(1) \cup {d}) /\ d \notin KidsFrom(1) /\ d # main
  BY <1>0, <1>2, <1>3, ForkKids
<1>6. PICK c \in Pids : c = Kid(1)
  BY <1>0, KidType
<1>7. /\ NKids' = 2 /\ Kid(1)' = c /\ Kid(2)' = d /\ FamilyNext({c, d}) /\ c # d /\ c # main
  <2>1. Kid(1)' = c /\ Kid(2)' = d /\ NKids' = 2
    BY <1>0, <1>5, <1>6
  <2>2. KidsFrom(1) \cup {d} = {c, d}
    BY <1>0, <1>6
  <2> QED
    BY <1>0, <1>5, <1>6, <2>1, <2>2 DEF KidsApart
<1>8. /\ pc'[main] = "pong_wait" /\ pc'[d] = "ping" /\ local'[d] = local[main]
      /\ pc'[c] = pc[c] /\ local'[c] = local[c] /\ mailbox_size'[d] = 0 /\ d \notin exited'
      /\ mailbox_size'[c] = mailbox_size[c] /\ mailbox_size'[main] = mailbox_size[main]
      /\ (c \in exited' => c \in exited)
  BY <1>2, <1>5, <1>7, MainIsPid DEF ForksTo, Begins, SameBox, SameProgram
<1>9. /\ local'[d].i = 0 /\ local'[c].i = 0 /\ pc'[c] = "pong" /\ mailbox_size'[c] = 0
      /\ mailbox_size'[main] = 0 /\ c \notin exited'
      /\ Len(local'[d].pids) = 1 /\ local'[d].pids[1] = c
  BY <1>6, <1>8 DEF PongInv, I, NKids, Kid
<1>10. Chat(c, d)'
  BY <1>8, <1>9 DEF Chat
<1>11. Chat(Kid(1), Kid(2))'
  BY <1>7, <1>10 DEF Chat
<1>12. PingPongInv'
  BY <1>4, <1>5, <1>7, <1>8, <1>9, <1>11 DEF PingPongInv, Family, FamilyNext
<1> QED
  BY <1>2, <1>12

(* What ping and pong do in their conversation.                            *)
Talks(c, d, p) ==
  /\ Kept /\ NoTokens' /\ UNCHANGED <<exists, exited, parent_pid>>
  /\ \A q \in Pids : q # c /\ q # d => SameBox(q)
  /\ \A q \in Pids : q # p => SameProgram(q)
  /\ local'[p].pids = local[p].pids
  /\ Chat(c, d)'

LEMMA ChatPing ==
  ASSUME TypeInv, NoTokens, NEW c \in Pids, NEW d \in Pids, c # d, Chat(c, d),
         pc[c] = "pong" => c \in exists, local[d].pids[1] = c, Ping(d)
  PROVE  Talks(c, d, d)
<1> DEFINE a == local[d].i
           b == local[c].i
           m == Message(d, "PING", 0, << >>)
<1>0. a \in Nat /\ b \in Nat /\ IsLocals(local[d]) /\ PINGS \in Nat
  BY Bounds DEF TypeInv, ProgramsInv, IsLocals
<1>1. CASE pc[d] = "ping" /\ a < PINGS
  <2>1. pc[c] = "pong" /\ a = b /\ mailbox_size[c] = 0 /\ mailbox_size[d] = 0
    BY <1>0, <1>1 DEF Chat
  <2>2. TrySend(d, c, "PING", 0, << >>, "ping_receive", local[d])
    <3>1. ~ (a >= PINGS)
      BY <1>0, <1>1
    <3> QED
      BY <1>1, <3>1 DEF Ping, At
  <2>3. SendResult(c, 0) = "0"
    BY <2>1, Room, Bounds
  <2>4. Kept /\ Delivers(c, m) /\ Moves(d, "ping_receive", local[d])
    BY <1>0, <2>2, <2>3, TrySendIs
  <2>5. m.tag # "TOKEN" /\ m.from = d
    BY DEF Message
  <2> HIDE DEF m
  <2>6. NoTokens'
    BY <2>4, <2>5, NoTokensKept
  <2>7. /\ pc'[d] = "ping_receive" /\ local'[d] = local[d] /\ pc'[c] = "pong"
        /\ local'[c] = local[c] /\ \A q \in Pids : q # d => SameProgram(q)
    BY <2>1, <2>4 DEF Moves, SameProgram
  <2>8. /\ mailbox_size'[c] = 1 /\ mailbox_size'[d] = 0 /\ mailbox'[c][0].from = d
        /\ UNCHANGED <<exists, exited, parent_pid>>
        /\ \A q \in Pids : q # c /\ q # d => SameBox(q)
    BY <2>1, <2>4, <2>5 DEF Delivers, SameBox
  <2>9. Chat(c, d)'
    BY <1>1, <2>1, <2>7, <2>8 DEF Chat
  <2> QED
    BY <2>4, <2>6, <2>7, <2>8, <2>9 DEF Talks
<1>2. CASE pc[d] = "ping" /\ ~ (a < PINGS)
  <2>1. UNCHANGED kernelVars /\ Continue(d, "exit", local[d])
    BY <1>2 DEF Ping, At, Goto
  <2>2. Kept /\ Quiet /\ Moves(d, "exit", local[d])
    BY <1>0, <2>1, QuietIs DEF QuietCall
  <2>3. NoTokens'
    BY <2>2, NoTokensKept DEF Quiet
  <2>4. /\ pc'[d] = "exit" /\ local'[d] = local[d] /\ pc'[c] = pc[c]
        /\ local'[c] = local[c] /\ \A q \in Pids : q # d => SameProgram(q)
    BY <2>2 DEF Moves, SameProgram
  <2>5. a >= PINGS
    BY <1>0, <1>2
  <2>6. Chat(c, d)'
    BY <1>2, <2>2, <2>4, <2>5 DEF Chat, Quiet
  <2> QED
    BY <2>2, <2>3, <2>4, <2>6 DEF Talks, Quiet, SameBox
<1>3. CASE pc[d] = "ping_receive"
  <2>0. \/ ReceiveBlocks(d) /\ Stay
        \/ ReceiveFirst(d) /\ Continue(d, "ping", Count(d))
    BY <1>3 DEF Ping, At, TryReceive, Any
  <2>1. CASE ReceiveBlocks(d) /\ Stay
    <3>1. Kept /\ Quiet /\ \A q \in Pids : SameProgram(q)
      BY <2>1, BlocksIs DEF QuietCall
    <3>2. NoTokens'
      BY <3>1, NoTokensKept DEF Quiet
    <3>3. Chat(c, d)'
      BY <3>1 DEF Chat, Quiet, SameProgram
    <3> QED
      BY <3>1, <3>2, <3>3 DEF Talks, Quiet, SameBox, SameProgram
  <2>2. CASE ReceiveFirst(d) /\ Continue(d, "ping", Count(d))
    <3>1. /\ IsLocals(Count(d)) /\ Count(d).i = a + 1 /\ Count(d).pids = local[d].pids
      BY CountIs DEF TypeInv
    <3>2. Kept /\ Takes(d) /\ Moves(d, "ping", Count(d))
      BY <2>2, <3>1, ReceiveIs
    <3>3. NoTokens'
      BY <3>2, NoTokensKept
    <3>4. /\ pc[c] \in {"pong", "exit"} /\ b = a + 1 /\ mailbox_size[c] = 0 /\ mailbox_size[d] = 1
          /\ (pc[c] = "exit" => b >= PINGS)
      BY <1>3, <3>2 DEF Chat, Takes
    <3>5. /\ pc'[d] = "ping" /\ local'[d].i = a + 1 /\ local'[d].pids = local[d].pids
          /\ pc'[c] = pc[c] /\ local'[c] = local[c] /\ \A q \in Pids : q # d => SameProgram(q)
      BY <3>1, <3>2 DEF Moves, SameProgram
    <3>6. /\ mailbox_size'[c] = 0 /\ mailbox_size'[d] = 0
          /\ UNCHANGED <<exists, exited, parent_pid>>
          /\ \A q \in Pids : q # c /\ q # d => SameBox(q)
      BY <3>2, <3>4 DEF Takes, SameBox
    <3>7. b < PINGS \/ b >= PINGS
      BY <1>0
    <3>8. Chat(c, d)'
      BY <3>4, <3>5, <3>6, <3>7 DEF Chat
    <3> QED
      BY <3>2, <3>3, <3>5, <3>6, <3>8 DEF Talks
  <2> QED
    BY <2>0, <2>1, <2>2
<1> QED
  BY <1>1, <1>2, <1>3, ChildGuards

LEMMA ChatPong ==
  ASSUME TypeInv, NoTokens, NEW c \in Pids, NEW d \in Pids, c # d, Chat(c, d),
         d \in exists, Pong(c)
  PROVE  Talks(c, d, c)
<1> DEFINE a == local[d].i
           b == local[c].i
           m == Message(c, "PONG", 0, << >>)
<1>0. a \in Nat /\ b \in Nat /\ IsLocals(local[c]) /\ PINGS \in Nat
  BY Bounds DEF TypeInv, ProgramsInv, IsLocals
<1>1. CASE pc[c] = "pong" /\ b < PINGS
  <2>0. \/ ReceiveBlocks(c) /\ Stay
        \/ ReceiveFirst(c) /\ Continue(c, "pong_send", local[c])
    <3>1. ~ (b >= PINGS)
      BY <1>0, <1>1
    <3> QED
      BY <1>1, <3>1 DEF Pong, At, TryReceive, Any
  <2>1. CASE ReceiveBlocks(c) /\ Stay
    <3>1. Kept /\ Quiet /\ \A q \in Pids : SameProgram(q)
      BY <2>1, BlocksIs DEF QuietCall
    <3>2. NoTokens'
      BY <3>1, NoTokensKept DEF Quiet
    <3>3. Chat(c, d)'
      BY <3>1 DEF Chat, Quiet, SameProgram
    <3> QED
      BY <3>1, <3>2, <3>3 DEF Talks, Quiet, SameBox, SameProgram
  <2>2. CASE ReceiveFirst(c) /\ Continue(c, "pong_send", local[c])
    <3>1. Kept /\ Takes(c) /\ Moves(c, "pong_send", local[c])
      BY <1>0, <2>2, ReceiveIs
    <3>2. NoTokens'
      BY <3>1, NoTokensKept
    <3>3. /\ pc[d] = "ping_receive" /\ a = b /\ mailbox_size[c] = 1 /\ mailbox_size[d] = 0
          /\ mailbox[c][0].from = d
      BY <1>1, <3>1 DEF Chat, Takes
    <3>4. /\ pc'[c] = "pong_send" /\ local'[c] = local[c] /\ pc'[d] = pc[d]
          /\ local'[d] = local[d] /\ \A q \in Pids : q # c => SameProgram(q)
      BY <3>1 DEF Moves, SameProgram
    <3>5. /\ mailbox_size'[c] = 0 /\ mailbox_size'[d] = 0 /\ msg'[c].from = d
          /\ UNCHANGED <<exists, exited, parent_pid>>
          /\ \A q \in Pids : q # c /\ q # d => SameBox(q)
      BY <3>1, <3>3 DEF Takes, SameBox
    <3>6. Chat(c, d)'
      BY <3>3, <3>4, <3>5 DEF Chat
    <3> QED
      BY <3>1, <3>2, <3>4, <3>5, <3>6 DEF Talks
  <2> QED
    BY <2>0, <2>1, <2>2
<1>2. CASE pc[c] = "pong" /\ ~ (b < PINGS)
  <2>1. UNCHANGED kernelVars /\ Continue(c, "exit", local[c])
    BY <1>2 DEF Pong, At, Goto
  <2>2. Kept /\ Quiet /\ Moves(c, "exit", local[c])
    BY <1>0, <2>1, QuietIs DEF QuietCall
  <2>3. NoTokens'
    BY <2>2, NoTokensKept DEF Quiet
  <2>4. /\ pc'[c] = "exit" /\ local'[c] = local[c] /\ pc'[d] = pc[d]
        /\ local'[d] = local[d] /\ \A q \in Pids : q # c => SameProgram(q)
    BY <2>2 DEF Moves, SameProgram
  <2>5. b >= PINGS
    BY <1>0, <1>2
  <2>6. Chat(c, d)'
    BY <1>2, <2>2, <2>4, <2>5 DEF Chat, Quiet
  <2> QED
    BY <2>2, <2>3, <2>4, <2>6 DEF Talks, Quiet, SameBox
<1>3. CASE pc[c] = "pong_send"
  <2>1. /\ pc[d] = "ping_receive" /\ a = b /\ mailbox_size[c] = 0 /\ mailbox_size[d] = 0
        /\ msg[c].from = d
    BY <1>3 DEF Chat
  <2>2. TrySend(c, d, "PONG", 0, << >>, "pong", Count(c))
    BY <1>3, <2>1 DEF Pong, At
  <2>3. SendResult(d, 0) = "0"
    BY <2>1, Room, Bounds
  <2>4. IsLocals(Count(c)) /\ Count(c).i = b + 1 /\ Count(c).pids = local[c].pids
    BY CountIs DEF TypeInv
  <2>5. Kept /\ Delivers(d, m) /\ Moves(c, "pong", Count(c))
    BY <2>2, <2>3, <2>4, TrySendIs
  <2>6. m.tag # "TOKEN"
    BY DEF Message
  <2> HIDE DEF m
  <2>7. NoTokens'
    BY <2>5, <2>6, NoTokensKept
  <2>8. /\ pc'[c] = "pong" /\ local'[c].i = b + 1 /\ local'[c].pids = local[c].pids
        /\ pc'[d] = pc[d] /\ local'[d] = local[d] /\ \A q \in Pids : q # c => SameProgram(q)
    BY <2>4, <2>5 DEF Moves, SameProgram
  <2>9. /\ mailbox_size'[d] = 1 /\ mailbox_size'[c] = 0
        /\ UNCHANGED <<exists, exited, parent_pid>>
        /\ \A q \in Pids : q # c /\ q # d => SameBox(q)
    BY <2>1, <2>5 DEF Delivers, SameBox
  <2>10. Chat(c, d)'
    BY <2>1, <2>8, <2>9 DEF Chat
  <2> QED
    BY <2>5, <2>7, <2>8, <2>9, <2>10 DEF Talks
<1> QED
  BY <1>1, <1>2, <1>3, ChildGuards

LEMMA PingPongNext ==
  ASSUME NEW c \in Pids, NEW d \in Pids, c = Kid(1), d = Kid(2), PingPongInv,
         local'[main].pids = local[main].pids, local'[d].pids = local[d].pids,
         NoTokens', mailbox_size'[main] = 0, Chat(c, d)',
         pc'[main] \in {"pong_wait", "ping_wait"},
         FamilyNext(IF pc'[main] = "pong_wait" THEN {c, d} ELSE {d}),
         c \in exited' => pc'[c] = "exit", d \in exited' => pc'[d] = "exit",
         pc'[main] = "ping_wait" => pc'[c] = "exit"
  PROVE  PingPongInv'
<1>1. NKids' = NKids /\ (KidsApart => KidsApart') /\ Kid(1)' = c /\ Kid(2)' = d
  BY KidsSame
<1>2. Chat(Kid(1), Kid(2))'
  BY <1>1 DEF Chat
<1> QED
  BY <1>1, <1>2 DEF PingPongInv, Family, FamilyNext

LEMMA PingPongChild ==
  ASSUME TypeInv, PingPongInv, NEW p \in Pids, ChildStep(p)
  PROVE  Kept /\ PingPongInv'
<1>0. NKids = 2 /\ KidsApart /\ Kid(1) \in Pids /\ Kid(2) \in Pids
  BY KidType DEF PingPongInv
<1>1. PICK c \in Pids, d \in Pids : c = Kid(1) /\ d = Kid(2)
  BY <1>0
<1>2. /\ c # d /\ c # main /\ d # main /\ Chat(c, d) /\ NoTokens /\ mailbox_size[main] = 0
      /\ local[d].pids[1] = c /\ pc[main] \in {"pong_wait", "ping_wait"}
      /\ Family(IF pc[main] = "pong_wait" THEN {c, d} ELSE {d})
      /\ (c \in exited => pc[c] = "exit") /\ (d \in exited => pc[d] = "exit")
      /\ (pc[main] = "ping_wait" => pc[c] = "exit")
  BY <1>0, <1>1 DEF PingPongInv, KidsApart
<1>3. p \in exists /\ p \notin exited /\ p # main
  BY <1>2, ChildGuards DEF ChildStep
<1>4. p \in {c, d} /\ d \in exists /\ (pc[c] = "pong" => c \in exists)
  BY <1>2, <1>3 DEF Family
<1>5. CASE Exit(p)
  <2> DEFINE S == IF pc[main] = "pong_wait" THEN {c, d} ELSE {d}
  <2>1. p \in S /\ S \subseteq Pids /\ main \notin S /\ Family(S) /\ pc[p] = "exit"
    BY <1>2, <1>3, <1>5, ChildGuards DEF Family
  <2> HIDE DEF S
  <2>2. /\ FamilyNext(S) /\ exited' = exited \cup {p} /\ UNCHANGED <<mailbox, mailbox_size, msg>>
        /\ ParentsInv'
    BY <1>5, <2>1, FamilyKill DEF Exit
  <2>3. ProgramsInv' /\ \A q \in Pids : SameProgram(q)
    BY <1>5, StayIs DEF Exit, TypeInv
  <2>4. NoTokens' /\ mailbox_size'[main] = 0
    BY <1>2, <2>2, <2>3, NoTokensKept
  <2>5. Chat(c, d)'
    BY <1>2, <2>2, <2>3 DEF Chat, SameProgram
  <2>6. /\ local'[main].pids = local[main].pids /\ local'[d].pids = local[d].pids
        /\ pc'[main] = pc[main] /\ pc'[c] = pc[c] /\ pc'[d] = pc[d]
    BY <2>3, MainIsPid DEF SameProgram
  <2>7. (c \in exited' => pc'[c] = "exit") /\ (d \in exited' => pc'[d] = "exit")
    BY <1>2, <2>1, <2>2, <2>6
  <2>8. PingPongInv'
    BY <1>1, <1>2, <2>2, <2>4, <2>5, <2>6, <2>7, PingPongNext DEF S
  <2> QED
    BY <2>2, <2>3, <2>8 DEF Kept
<1>6. CASE Talks(c, d, p)
  <2>1. FamilyNext(IF pc[main] = "pong_wait" THEN {c, d} ELSE {d})
    BY <1>2, <1>6, FamilyKept DEF Talks
  <2>2. /\ local'[main].pids = local[main].pids /\ local'[d].pids = local[d].pids
        /\ pc'[main] = pc[main] /\ mailbox_size'[main] = 0
    BY <1>2, <1>3, <1>6, MainIsPid DEF Talks, SameProgram, SameBox
  <2>3. (c \in exited' => pc'[c] = "exit") /\ (d \in exited' => pc'[d] = "exit")
    BY <1>2, <1>3, <1>6 DEF Talks, SameProgram
  <2>4. pc[main] = "ping_wait" => pc'[c] = "exit"
    <3>1. pc[main] = "ping_wait" => p = d
      BY <1>2, <1>3, <1>4 DEF Family
    <3> QED
      BY <1>2, <1>6, <3>1 DEF Talks, SameProgram
  <2>5. PingPongInv'
    BY <1>1, <1>2, <1>6, <2>1, <2>2, <2>3, <2>4, PingPongNext DEF Talks
  <2> QED
    BY <1>6, <2>5 DEF Talks
<1>7. CASE p = d /\ ~ Exit(p)
  <2>1. Ping(d)
    <3>1. pc[d] \in {"ping", "ping_receive", "exit"}
      BY <1>2 DEF Chat
    <3> QED
      BY <1>7, <3>1, ChildGuards DEF ChildStep
  <2> QED
    BY <1>2, <1>4, <1>6, <1>7, <2>1, ChatPing
<1>8. CASE p = c /\ ~ Exit(p)
  <2>1. Pong(c)
    <3>1. pc[c] \in {"pong", "pong_send", "exit"}
      BY <1>2 DEF Chat
    <3> QED
      BY <1>8, <3>1, ChildGuards DEF ChildStep
  <2> QED
    BY <1>2, <1>4, <1>6, <1>8, <2>1, ChatPong
<1> QED
  BY <1>4, <1>5, <1>7, <1>8

LEMMA PingPongWait ==
  ASSUME TypeInv, PingPongInv, test_ping_pong
  PROVE  Kept /\ (PingPongInv' \/ Alone')
<1> DEFINE l == local[main]
<1>0. NKids = 2 /\ KidsApart /\ Kid(1) \in Pids /\ Kid(2) \in Pids /\ IsLocals(l)
  BY KidType, MainIsPid DEF PingPongInv, TypeInv, ProgramsInv
<1>1. PICK c \in Pids, d \in Pids : c = Kid(1) /\ d = Kid(2)
  BY <1>0
<1>2. /\ c # d /\ c # main /\ d # main /\ Chat(c, d) /\ NoTokens /\ mailbox_size[main] = 0
      /\ pc[main] \in {"pong_wait", "ping_wait"}
      /\ Family(IF pc[main] = "pong_wait" THEN {c, d} ELSE {d})
      /\ (c \in exited => pc[c] = "exit") /\ (d \in exited => pc[d] = "exit")
      /\ (pc[main] = "ping_wait" => pc[c] = "exit")
      /\ c = l.pids[1] /\ d = l.pids[2]
  BY <1>0, <1>1 DEF PingPongInv, KidsApart, Kid
<1>3. CASE pc[main] = "pong_wait"
  <2>1. TryWaitpid(main, c, "ping_wait", l) /\ c \in exists /\ parent_pid[c] = main
    BY <1>2, <1>3 DEF test_ping_pong, At, Family
  <2>2. /\ Kept /\ UNCHANGED <<exited, parent_pid, mailbox, mailbox_size, msg>>
        /\ \/ Quiet /\ \A q \in Pids : SameProgram(q)
           \/ exists' = exists \ {c} /\ c \in exited /\ Moves(main, "ping_wait", l)
    BY <1>0, <2>1, WaitpidIs, MainIsPid
  <2>3. NoTokens' /\ mailbox_size'[main] = 0
    BY <1>2, <2>2, NoTokensKept
  <2>4. /\ pc'[c] = pc[c] /\ pc'[d] = pc[d] /\ local'[c] = local[c] /\ local'[d] = local[d]
        /\ local'[main] = l
    BY <1>2, <2>2, MainIsPid DEF Moves, SameProgram
  <2>5. Chat(c, d)'
    BY <1>2, <2>2, <2>4 DEF Chat
  <2>6. \/ pc'[main] = "pong_wait" /\ FamilyNext({c, d})
        \/ pc'[main] = "ping_wait" /\ FamilyNext({d}) /\ c \in exited
    <3>1. Family({c, d})
      BY <1>2, <1>3
    <3>2. CASE Quiet /\ \A q \in Pids : SameProgram(q)
      BY <1>3, <3>1, <3>2, FamilyKept, MainIsPid DEF Quiet, SameProgram
    <3>3. CASE exists' = exists \ {c} /\ c \in exited /\ Moves(main, "ping_wait", l)
      <4>1. FamilyNext({c, d} \ {c}) /\ {c, d} \ {c} = {d}
        BY <1>2, <2>2, <3>1, <3>3, FamilyReap
      <4> QED
        BY <3>3, <4>1 DEF Moves
    <3> QED
      BY <2>2, <3>2, <3>3
  <2>7. PingPongInv'
    BY <1>1, <1>2, <2>2, <2>3, <2>4, <2>5, <2>6, PingPongNext
  <2> QED
    BY <2>2, <2>7
<1>4. CASE pc[main] = "ping_wait"
  <2>1. TryWaitpid(main, d, "menu", l) /\ d \in exists /\ parent_pid[d] = main /\ Family({d})
    BY <1>2, <1>4 DEF test_ping_pong, At, Family
  <2>2. /\ Kept /\ UNCHANGED <<exited, parent_pid, mailbox, mailbox_size, msg>>
        /\ \/ Quiet /\ \A q \in Pids : SameProgram(q)
           \/ exists' = exists \ {d} /\ Moves(main, "menu", l)
    BY <1>0, <2>1, WaitpidIs, MainIsPid
  <2>3. NoTokens' /\ mailbox_size'[main] = 0
    BY <1>2, <2>2, NoTokensKept
  <2>4. CASE Quiet /\ \A q \in Pids : SameProgram(q)
    <3>1. /\ pc'[c] = pc[c] /\ pc'[d] = pc[d] /\ local'[c] = local[c] /\ local'[d] = local[d]
          /\ local'[main] = l /\ pc'[main] = "ping_wait"
      BY <1>4, <2>4, MainIsPid DEF SameProgram
    <3>2. Chat(c, d)'
      BY <1>2, <2>2, <3>1 DEF Chat
    <3>3. FamilyNext({d})
      BY <2>1, <2>4, FamilyKept DEF Quiet
    <3>4. PingPongInv'
      BY <1>1, <1>2, <1>4, <2>2, <2>3, <3>1, <3>2, <3>3, PingPongNext
    <3> QED
      BY <2>2, <3>4
  <2>5. CASE exists' = exists \ {d} /\ Moves(main, "menu", l)
    <3>1. FamilyNext({d} \ {d}) /\ {d} \ {d} = {}
      BY <1>2, <2>1, <2>2, <2>5, FamilyReap
    <3> QED
      BY <2>2, <2>3, <2>5, <3>1, AloneNext DEF Moves
  <2> QED
    BY <2>2, <2>4, <2>5
<1> QED
  BY <1>2, <1>3, <1>4

-----------------------------------------------------------------------------
(***************************************************************************)
(* test_broadcast.                                                         *)
(***************************************************************************)
LEMMA AnsweredFinite ==
  ASSUME TypeInv
  PROVE  /\ IsFiniteSet(Answered) /\ Cardinality(Answered) \in Nat
         /\ Cardinality(Answered) <= NKids
         /\ Cardinality(Answered) = NKids => Answered = KidsFrom(1)
<1> DEFINE A == Answered
           K == KidsFrom(1)
<1>1. A \in SUBSET K
  BY DEF Answered
<1>2. IsFiniteSet(K) /\ Cardinality(K) <= NKids /\ NKids \in Nat
  BY KidsFinite, KidType
<1> HIDE DEF A, K
<1>3. /\ IsFiniteSet(A) /\ Cardinality(A) <= Cardinality(K)
      /\ (Cardinality(K) = Cardinality(A) => K = A)
  BY <1>1, <1>2, FS_Subset
<1>4. Cardinality(A) \in Nat /\ Cardinality(K) \in Nat
  BY <1>2, <1>3, FS_CardinalityType
<1>5. Cardinality(A) <= NKids /\ (Cardinality(A) = NKids => A = K)
  BY <1>2, <1>3, <1>4
<1> QED
  BY <1>3, <1>4, <1>5 DEF A, K

LEMMA SlaveSame ==
  ASSUME NEW c, SlaveOk(c), SameBox(c), pc'[c] = pc[c], msg'[c] = msg[c]
  PROVE  SlaveOk(c)'
BY DEF SlaveOk, SameBox

(* The answers there are, and those that main has heard.                   *)
Heard(label) == IF label = "bc_receive" THEN I ELSE 0

LEMMA BroadcastNext ==
  ASSUME BroadcastInv, local'[main].pids = local[main].pids, FamilyNext(KidsFrom(1)), NoTokens',
         pc'[main] \in {"bc_fork", "bc_send", "bc_receive"},
         I' <= NSLAVES, IF pc'[main] = "bc_fork" THEN NKids = I' ELSE NKids = NSLAVES,
         \A c \in KidsFrom(1) : SlaveOk(c)',
         mailbox_size'[main] + Heard(pc[main])' <= Cardinality(Answered')
  PROVE  BroadcastInv'
<1>1. NKids' = NKids /\ (KidsApart => KidsApart') /\ KidsFrom(1)' = KidsFrom(1)
  BY KidsSame
<1>2. \A c \in KidsFrom(1)' : SlaveOk(c)'
  BY <1>1
<1> QED
  BY <1>1, <1>2 DEF BroadcastInv, Family, FamilyNext, Heard

(* The children stay as they are, but for their mailboxes.                 *)
LEMMA AnsweredSame ==
  ASSUME local'[main].pids = local[main].pids, \A c \in KidsFrom(1) : pc'[c] = pc[c]
  PROVE  Answered' = Answered
<1>1. KidsFrom(1)' = KidsFrom(1)
  BY KidsSame
<1> QED
  BY <1>1 DEF Answered

LEMMA BroadcastFork ==
  ASSUME TypeInv, BroadcastInv, test_broadcast, pc[main] = "bc_fork", I < NSLAVES
  PROVE  Kept /\ BroadcastInv'
<1>0. /\ main \in exists /\ NKids = I /\ I \in Nat /\ NSLAVES \in Nat /\ KidsApart /\ NoTokens
      /\ Family(KidsFrom(1)) /\ KidsFrom(1) \subseteq Pids
  BY KidType, Bounds DEF BroadcastInv, Family
<1>1. ~ (I >= NSLAVES)
  BY <1>0
<1>f. ~ ForkFails
  <2>1. NSLAVES <= LastPid - FirstPid
    BY MpTestAssumption
  <2>2. NKids < LastPid - FirstPid
    BY <1>0, <2>1, MessagesAssumption
  <2> QED
    BY <1>0, <2>2, SlotFree
<1>2. PICK c \in Pids :
           /\ syscall_fork(main, c)
           /\ pc' = [pc EXCEPT ![main] = "bc_fork", ![c] = "slave"]
           /\ local' = [local EXCEPT ![main] = ForkCount(main, c), ![c] = local[main]]
  BY <1>1, <1>f DEF test_broadcast, InLoop, EndOfLoop, At, Fork, I, ForkCount
<1> DEFINE l == ForkCount(main, c)
<1>3. IsLocals(l) /\ l.i = I + 1 /\ l.pids = Append(local[main].pids, c)
  BY ForkCountIs, MainIsPid DEF TypeInv, I
<1>4. local' = [local EXCEPT ![main] = l, ![c] = local[main]]
  BY <1>2
<1> HIDE DEF l
<1>5. ForksTo(main, c, "bc_fork", "slave", l) /\ Kept
  BY <1>0, <1>2, <1>3, <1>4, ForkIs, MainIsPid DEF Kept
<1>6. NoTokens'
  BY <1>0, <1>5, NoTokensFork
<1>7. /\ NKids' = NKids + 1 /\ KidsFrom(1)' = KidsFrom(1) \cup {c} /\ KidsApart'
      /\ FamilyNext(KidsFrom(1) \cup {c}) /\ c \notin KidsFrom(1) /\ c # main
  BY <1>0, <1>3, <1>5, ForkKids
<1>8. I' = I + 1 /\ pc'[main] = "bc_fork" /\ pc'[c] = "slave" /\ mailbox_size'[c] = 0
      /\ mailbox_size'[main] = mailbox_size[main]
  BY <1>3, <1>5, <1>7, MainIsPid DEF ForksTo, Begins, SameBox, I
<1>9. \A k \in KidsFrom(1) : pc'[k] = pc[k] /\ SlaveOk(k)'
  <2> TAKE k \in KidsFrom(1)
  <2>1. k \in Pids /\ k # c /\ k # main /\ SlaveOk(k)
    BY <1>0, <1>7 DEF BroadcastInv, KidsApart, KidsFrom
  <2>2. SameProgram(k) /\ SameBox(k) /\ msg'[k] = msg[k]
    BY <1>5, <2>1 DEF ForksTo, Begins
  <2> QED
    BY <2>1, <2>2, SlaveSame DEF SameProgram
<1>10. SlaveOk(c)'
  <2>1. \A k \in 0 .. (mailbox_size'[c] - 1) : FALSE
    BY <1>8
  <2> QED
    BY <1>8, <2>1 DEF SlaveOk
<1>11. Answered' = Answered
  BY <1>7, <1>8, <1>9 DEF Answered
<1>12. \A k \in KidsFrom(1)' : SlaveOk(k)'
  BY <1>7, <1>9, <1>10
<1>13. I' <= NSLAVES /\ NKids' = I'
  BY <1>0, <1>7, <1>8
<1>14. mailbox_size'[main] + 0 <= Cardinality(Answered')
  BY <1>8, <1>11 DEF BroadcastInv
<1>15. BroadcastInv'
  BY <1>6, <1>7, <1>8, <1>12, <1>13, <1>14 DEF BroadcastInv, Family, FamilyNext
<1> QED
  BY <1>5, <1>15

(* A step of main's loop over its children that ends it.                   *)
LEMMA EndOfLoopIs ==
  ASSUME TypeInv, NEW label, NEW n, NEW next, EndOfLoop(label, n, next)
  PROVE  /\ Kept /\ Quiet /\ Moves(main, next, Reset(main)) /\ I' = 0
         /\ local'[main].pids = local[main].pids /\ pc[main] = label /\ I >= n
<1>1. IsLocals(Reset(main)) /\ Reset(main).i = 0 /\ Reset(main).pids = local[main].pids
  BY ResetIs, MainIsPid DEF TypeInv
<1>2. UNCHANGED kernelVars /\ Continue(main, next, Reset(main)) /\ pc[main] = label /\ I >= n
  BY DEF EndOfLoop, At, I
<1>3. Kept /\ Quiet /\ Moves(main, next, Reset(main))
  BY <1>1, <1>2, QuietIs, MainIsPid DEF QuietCall
<1> QED
  BY <1>1, <1>2, <1>3 DEF Moves, I

(* The children are processes other than main.                             *)
LEMMA KidsArePids ==
  ASSUME TypeInv, KidsApart
  PROVE  \A c \in KidsFrom(1) : c \in Pids /\ c # main
BY KidType DEF KidsFrom, KidsApart

LEMMA BroadcastLoops ==
  ASSUME TypeInv, BroadcastInv,
         \/ EndOfLoop("bc_fork", NSLAVES, "bc_send")
         \/ EndOfLoop("bc_send", NSLAVES, "bc_receive")
  PROVE  Kept /\ BroadcastInv'
<1>1. PICK label \in {"bc_fork", "bc_send"}, next \in {"bc_send", "bc_receive"} :
        EndOfLoop(label, NSLAVES, next)
  BY DEF BroadcastInv
<1>2. /\ Kept /\ Quiet /\ Moves(main, next, Reset(main)) /\ I' = 0
      /\ local'[main].pids = local[main].pids /\ pc[main] = label /\ I >= NSLAVES
  BY <1>1, EndOfLoopIs
<1>3. /\ I \in Nat /\ NSLAVES \in Nat /\ I <= NSLAVES /\ KidsApart /\ NoTokens
      /\ Family(KidsFrom(1)) /\ mailbox_size[main] + 0 <= Cardinality(Answered)
      /\ (IF label = "bc_fork" THEN NKids = I ELSE NKids = NSLAVES)
      /\ \A c \in KidsFrom(1) : SlaveOk(c)
  BY <1>1, <1>2, KidType, Bounds DEF BroadcastInv
<1>4. NKids = NSLAVES /\ 0 <= NSLAVES
  BY <1>2, <1>3
<1>5. NoTokens' /\ FamilyNext(KidsFrom(1)) /\ mailbox_size'[main] = mailbox_size[main]
  <2>1. NoTokens'
    BY <1>1, <1>2, <1>3, NoTokensKept DEF Quiet
  <2> QED
    BY <2>1, <1>2, <1>3, FamilyKept DEF Quiet
<1>6. \A c \in KidsFrom(1) : pc'[c] = pc[c] /\ SlaveOk(c)'
  <2> TAKE c \in KidsFrom(1)
  <2>1. c \in Pids /\ c # main /\ SlaveOk(c)
    BY <1>3, KidsArePids
  <2>2. pc'[c] = pc[c] /\ SameBox(c) /\ msg'[c] = msg[c]
    BY <1>2, <2>1 DEF Moves, SameProgram, Quiet, SameBox
  <2> QED
    BY <2>1, <2>2, SlaveSame
<1>7. Answered' = Answered
  BY <1>2, <1>6, AnsweredSame
<1>8. mailbox_size'[main] + Heard(pc[main])' <= Cardinality(Answered')
  BY <1>2, <1>3, <1>5, <1>7 DEF Heard
<1>9. pc'[main] = next
  BY <1>2 DEF Moves
<1> QED
  BY <1>1, <1>2, <1>4, <1>5, <1>6, <1>8, <1>9, BroadcastNext

LEMMA BroadcastSend ==
  ASSUME TypeInv, BroadcastInv, test_broadcast, pc[main] = "bc_send", I < NSLAVES
  PROVE  Kept /\ BroadcastInv'
<1> DEFINE c == ChildAt(local[main].i)
           str == Command(c)
           m == Message(main, "COMMAND", Len(str) + 1, str)
<1>0. /\ I \in Nat /\ NSLAVES \in Nat /\ I <= NSLAVES /\ KidsApart /\ NoTokens /\ NKids = NSLAVES
      /\ Family(KidsFrom(1)) /\ mailbox_size[main] + 0 <= Cardinality(Answered)
      /\ \A k \in KidsFrom(1) : SlaveOk(k)
  BY KidType, Bounds DEF BroadcastInv
<1>1. ~ (I >= NSLAVES)
  BY <1>0
<1>2. Send(main, c, "COMMAND", Len(str) + 1, str, "bc_send", Count(main))
  BY <1>1 DEF test_broadcast, InLoop, EndOfLoop, At, I
<1>3. c \in KidsFrom(1) /\ c # main
  <2>1. I + 1 \in 1 .. NKids /\ c = Kid(I + 1)
    BY <1>0 DEF ChildAt, Kid, I
  <2>2. c \in KidsFrom(1)
    BY <2>1 DEF KidsFrom
  <2> QED
    BY <1>0, <2>2, KidsArePids
<1>4. IsLocals(Count(main)) /\ Count(main).i = I + 1 /\ Count(main).pids = local[main].pids
  BY CountIs, MainIsPid DEF TypeInv, I
<1> HIDE DEF c, str
<1>5. Kept /\ Moves(main, "bc_send", Count(main)) /\ (Delivers(c, m) \/ Quiet)
  BY <1>2, <1>4, SendIs, MainIsPid
<1>6. m.tag # "TOKEN" /\ m.from = main
  BY DEF Message
<1> HIDE DEF m
<1>7. NoTokens'
  BY <1>0, <1>5, <1>6, NoTokensKept DEF Quiet
<1>8. /\ FamilyNext(KidsFrom(1)) /\ mailbox_size'[main] = mailbox_size[main]
      /\ UNCHANGED msg
  BY <1>0, <1>3, <1>5, FamilyKept, MainIsPid DEF Quiet, Delivers, SameBox
<1>9. I' = I + 1 /\ local'[main].pids = local[main].pids /\ pc'[main] = "bc_send"
  BY <1>4, <1>5 DEF Moves, I
<1>10. \A k \in KidsFrom(1) : pc'[k] = pc[k] /\ SlaveOk(k)'
  <2> TAKE k \in KidsFrom(1)
  <2>1. k \in Pids /\ k # main /\ SlaveOk(k)
    BY <1>0, KidsArePids
  <2>2. pc'[k] = pc[k] /\ msg'[k] = msg[k]
    BY <1>5, <1>8, <2>1 DEF Moves, SameProgram
  <2>3. CASE SameBox(k)
    BY <2>1, <2>2, <2>3, SlaveSame
  <2>4. CASE k = c /\ Delivers(c, m)
    <3>1. mailbox_size[k] \in Nat
      BY <2>1, SizeType
    <3>2. /\ mailbox_size'[k] = mailbox_size[k] + 1 /\ mailbox'[k][mailbox_size[k]] = m
          /\ \A j \in 0 .. (mailbox_size[k] - 1) : mailbox'[k][j] = mailbox[k][j]
      BY <2>4 DEF Delivers
    <3>3. \A j \in 0 .. (mailbox_size'[k] - 1) :
            j = mailbox_size[k] \/ j \in 0 .. (mailbox_size[k] - 1)
      BY <3>1, <3>2
    <3>4. \A j \in 0 .. (mailbox_size'[k] - 1) : mailbox'[k][j].from = main
      BY <1>6, <2>1, <3>2, <3>3 DEF SlaveOk
    <3> QED
      BY <2>1, <2>2, <3>4 DEF SlaveOk
  <2> QED
    BY <1>5, <2>1, <2>3, <2>4, <2>2 DEF Delivers, Quiet, SameBox
<1>11. Answered' = Answered
  BY <1>9, <1>10, AnsweredSame
<1>12. mailbox_size'[main] + Heard(pc[main])' <= Cardinality(Answered')
  BY <1>0, <1>8, <1>9, <1>11 DEF Heard
<1>13. I' <= NSLAVES
  BY <1>0, <1>1, <1>9
<1>14. BroadcastInv'
  BY <1>0, <1>7, <1>8, <1>9, <1>10, <1>12, <1>13, BroadcastNext
<1> QED
  BY <1>5, <1>14

LEMMA BroadcastReceive ==
  ASSUME TypeInv, BroadcastInv, test_broadcast, pc[main] = "bc_receive", I < NSLAVES
  PROVE  Kept /\ BroadcastInv'
<1> DEFINE v == Append(Count(main).said, mailbox[main][0])
           l == [Count(main) EXCEPT !.said = v]
<1>0. /\ I \in Nat /\ NSLAVES \in Nat /\ I <= NSLAVES /\ KidsApart /\ NoTokens /\ NKids = NSLAVES
      /\ Family(KidsFrom(1)) /\ mailbox_size[main] + I <= Cardinality(Answered)
      /\ (\A k \in KidsFrom(1) : SlaveOk(k)) /\ mailbox_size[main] \in Nat
      /\ Cardinality(Answered) \in Nat
  BY KidType, Bounds, SizeType, MainIsPid, AnsweredFinite DEF BroadcastInv
<1>1. ~ (I >= NSLAVES)
  BY <1>0
<1>2. \/ ReceiveBlocks(main) /\ Stay
      \/ ReceiveFirst(main) /\ Continue(main, "bc_receive", l)
  BY <1>1 DEF test_broadcast, InLoop, EndOfLoop, At, I, TryReceive, Any
<1>3. IsLocals(l) /\ l.i = I + 1 /\ l.pids = local[main].pids
  <2> DEFINE r == Count(main)
  <2>1. IsLocals(r) /\ r.i = I + 1 /\ r.pids = local[main].pids
    BY CountIs, MainIsPid DEF TypeInv, I
  <2> HIDE DEF r, v
  <2>2. IsLocals([r EXCEPT !.said = v]) /\ [r EXCEPT !.said = v].i = r.i
        /\ [r EXCEPT !.said = v].pids = r.pids
    BY <2>1, SetSaid
  <2> QED
    BY <2>1, <2>2 DEF r
<1> HIDE DEF l
<1>4. /\ Kept /\ NoTokens' /\ FamilyNext(KidsFrom(1)) /\ pc'[main] = "bc_receive"
      /\ local'[main].pids = local[main].pids
      /\ I' <= NSLAVES /\ mailbox_size'[main] + I' <= Cardinality(Answered)
      /\ \A k \in Pids : k # main => SameBox(k) /\ SameProgram(k) /\ msg'[k] = msg[k]
  <2>1. CASE ReceiveBlocks(main) /\ Stay
    <3>1. Kept /\ Quiet /\ \A q \in Pids : SameProgram(q)
      BY <2>1, BlocksIs, MainIsPid DEF QuietCall
    <3>2. NoTokens'
      BY <1>0, <3>1, NoTokensKept DEF Quiet
    <3>3. I' = I /\ pc'[main] = "bc_receive" /\ local'[main].pids = local[main].pids
      BY <3>1, MainIsPid DEF SameProgram, I
    <3>4. FamilyNext(KidsFrom(1))
      BY <1>0, <3>1, FamilyKept DEF Quiet
    <3> QED
      BY <1>0, <3>1, <3>2, <3>3, <3>4 DEF Quiet, SameBox
  <2>2. CASE ReceiveFirst(main) /\ Continue(main, "bc_receive", l)
    <3>1. Kept /\ Takes(main) /\ Moves(main, "bc_receive", l)
      BY <1>3, <2>2, ReceiveIs, MainIsPid
    <3>2. NoTokens'
      BY <1>0, <3>1, NoTokensKept
    <3>3. I' = I + 1 /\ pc'[main] = "bc_receive" /\ local'[main].pids = local[main].pids
      BY <1>3, <3>1 DEF Moves, I
    <3>4. FamilyNext(KidsFrom(1)) /\ mailbox_size'[main] = mailbox_size[main] - 1
      BY <1>0, <3>1, FamilyKept DEF Takes
    <3>5. I' <= NSLAVES /\ mailbox_size'[main] + I' <= Cardinality(Answered)
      BY <1>0, <1>1, <3>3, <3>4
    <3>6. \A k \in Pids : k # main => SameBox(k) /\ SameProgram(k) /\ msg'[k] = msg[k]
      BY <3>1 DEF Takes, Moves
    <3> QED
      BY <3>1, <3>2, <3>3, <3>4, <3>5, <3>6
  <2> QED
    BY <1>2, <2>1, <2>2
<1>5. \A k \in KidsFrom(1) : pc'[k] = pc[k] /\ SlaveOk(k)'
  BY <1>0, <1>4, KidsArePids, SlaveSame DEF SameProgram
<1>6. Answered' = Answered
  BY <1>4, <1>5, AnsweredSame
<1>7. mailbox_size'[main] + Heard(pc[main])' <= Cardinality(Answered')
  BY <1>4, <1>6 DEF Heard
<1>8. BroadcastInv'
  BY <1>0, <1>4, <1>5, <1>7, BroadcastNext
<1> QED
  BY <1>4, <1>8

(* A slave reads its command and answers it.                               *)
LEMMA BroadcastSlave ==
  ASSUME TypeInv, BroadcastInv, NEW p \in Pids, slave(p)
  PROVE  Kept /\ BroadcastInv'
<1>0. /\ I \in Nat /\ KidsApart /\ NoTokens /\ Family(KidsFrom(1))
      /\ mailbox_size[main] + Heard(pc[main]) <= Cardinality(Answered)
      /\ (\A k \in KidsFrom(1) : SlaveOk(k)) /\ mailbox_size[main] \in Nat
      /\ Heard(pc[main]) \in Nat /\ Cardinality(Answered) \in Nat /\ IsFiniteSet(Answered)
      /\ pc[main] \in {"bc_fork", "bc_send", "bc_receive"}
  BY KidType, SizeType, MainIsPid, AnsweredFinite DEF BroadcastInv, Heard
<1>1. p \in KidsFrom(1) /\ p # main /\ pc[p] \in {"slave", "slave_send"}
  BY <1>0, ChildGuards DEF ChildStep, Family
<1>2. SlaveOk(p) /\ IsLocals(local[p]) /\ mailbox_size[p] \in Nat
  BY <1>0, <1>1, SizeType DEF TypeInv, ProgramsInv
<1>3. SUFFICES ASSUME Kept, NoTokens', UNCHANGED <<exists, exited, parent_pid>>, SlaveOk(p)',
                      \A q \in Pids : q # p => SameProgram(q) /\ msg'[q] = msg[q],
                      \A q \in Pids : q # p /\ q # main => SameBox(q),
                      mailbox_size'[main] + Heard(pc[main]) <= Cardinality(Answered')
               PROVE  Kept /\ BroadcastInv'
  <2>1. CASE pc[p] = "slave"
    <3>1. \/ ReceiveBlocks(p) /\ Stay
          \/ ReceiveFirst(p) /\ Continue(p, "slave_send", local[p])
      BY <2>1 DEF slave, At, TryReceive, Any
    <3>2. CASE ReceiveBlocks(p) /\ Stay
      <4>1. Kept /\ Quiet /\ \A q \in Pids : SameProgram(q)
        BY <3>2, BlocksIs DEF QuietCall
      <4>2. NoTokens'
        BY <1>0, <4>1, NoTokensKept DEF Quiet
      <4>3. SlaveOk(p)'
        BY <1>2, <4>1, SlaveSame DEF Quiet, SameBox, SameProgram
      <4>4. Answered' = Answered
        BY <4>1, AnsweredSame, MainIsPid, KidType DEF SameProgram
      <4> QED
        BY <1>0, <1>3, <4>1, <4>2, <4>3, <4>4 DEF Quiet, SameBox
    <3>3. CASE ReceiveFirst(p) /\ Continue(p, "slave_send", local[p])
      <4>1. Kept /\ Takes(p) /\ Moves(p, "slave_send", local[p])
        BY <1>2, <3>3, ReceiveIs
      <4>2. NoTokens'
        BY <1>0, <4>1, NoTokensKept
      <4>3. /\ pc'[p] = "slave_send" /\ msg'[p].from = main
            /\ mailbox_size'[p] = mailbox_size[p] - 1
        <5>1. 0 \in 0 .. (mailbox_size[p] - 1)
          BY <1>2, <4>1 DEF Takes
        <5> QED
          BY <1>2, <4>1, <5>1 DEF SlaveOk, Takes, Moves
      <4>4. \A k \in 0 .. (mailbox_size'[p] - 1) : mailbox'[p][k].from = main
        <5>1. \A k \in 0 .. (mailbox_size'[p] - 1) :
                k \in 0 .. (mailbox_size[p] - 2) /\ k + 1 \in 0 .. (mailbox_size[p] - 1)
          BY <1>2, <4>3
        <5> QED
          BY <1>2, <4>1, <5>1 DEF SlaveOk, Takes
      <4>5. SlaveOk(p)'
        BY <4>3, <4>4 DEF SlaveOk
      <4>6. Answered' = Answered
        <5>1. local'[main].pids = local[main].pids
          BY <1>1, <4>1, MainIsPid DEF Moves, SameProgram
        <5>2. KidsFrom(1)' = KidsFrom(1)
          BY <5>1, KidsSame
        <5>3. \A c \in KidsFrom(1) : pc'[c] = "exit" <=> pc[c] = "exit"
          BY <1>1, <4>1, <4>3, KidType, <2>1 DEF Moves, SameProgram
        <5> QED
          BY <5>2, <5>3 DEF Answered
      <4> QED
        BY <1>0, <1>1, <1>3, <4>1, <4>2, <4>5, <4>6, MainIsPid DEF Takes, Moves, SameBox
    <3> QED
      BY <3>1, <3>2, <3>3
  <2>2. CASE pc[p] = "slave_send"
    <3> DEFINE str == Response(p, msg[p].data)
               m == Message(p, "RESPONSE", Len(str) + 1, str)
    <3>1. Send(p, main, "RESPONSE", Len(str) + 1, str, "exit", local[p])
      BY <1>2, <2>2 DEF slave, At, SlaveOk
    <3> HIDE DEF str
    <3>2. Kept /\ Moves(p, "exit", local[p]) /\ (Delivers(main, m) \/ Quiet)
      BY <1>2, <3>1, SendIs
    <3>3. m.tag # "TOKEN"
      BY DEF Message
    <3> HIDE DEF m
    <3>4. NoTokens'
      BY <1>0, <3>2, <3>3, NoTokensKept DEF Quiet
    <3>5. /\ UNCHANGED <<exists, exited, parent_pid, msg>> /\ pc'[p] = "exit"
          /\ (\A q \in Pids : q # p => SameProgram(q))
          /\ (\A q \in Pids : q # main => SameBox(q))
          /\ mailbox_size'[main] <= mailbox_size[main] + 1 /\ mailbox_size'[main] \in Nat
      BY <1>0, <3>2, MainIsPid DEF Delivers, Quiet, Moves, SameBox
    <3>6. SlaveOk(p)'
      BY <1>1, <1>2, <3>5 DEF SlaveOk, SameBox
    <3>7. Answered' = Answered \cup {p} /\ p \notin Answered
      <4>1. local'[main].pids = local[main].pids
        BY <1>1, <3>5, MainIsPid DEF SameProgram
      <4>2. KidsFrom(1)' = KidsFrom(1)
        BY <4>1, KidsSame
      <4>3. \A c \in KidsFrom(1) : pc'[c] = "exit" <=> pc[c] = "exit" \/ c = p
        BY <3>5, KidType DEF SameProgram
      <4> QED
        BY <1>1, <2>2, <4>2, <4>3 DEF Answered
    <3>8. Cardinality(Answered') = Cardinality(Answered) + 1
      <4> DEFINE A == Answered
      <4>1. IsFiniteSet(A) /\ p \notin A
        BY <1>0, <3>7
      <4> HIDE DEF A
      <4>2. Cardinality(A \cup {p}) = Cardinality(A) + 1
        BY <4>1, FS_AddElement
      <4> QED
        BY <3>7, <4>2 DEF A
    <3>9. mailbox_size'[main] + Heard(pc[main]) <= Cardinality(Answered')
      BY <1>0, <3>5, <3>8
    <3> QED
      BY <1>1, <1>3, <3>2, <3>4, <3>5, <3>6, <3>9
  <2> QED
    BY <1>1, <2>1, <2>2
<1>4. local'[main] = local[main] /\ pc'[main] = pc[main] /\ I' = I
  BY <1>1, <1>3, MainIsPid DEF SameProgram, I
<1>5. \A k \in KidsFrom(1) : SlaveOk(k)'
  <2> TAKE k \in KidsFrom(1)
  <2>1. k \in Pids /\ k # main /\ SlaveOk(k)
    BY <1>0, KidsArePids
  <2> QED
    BY <1>3, <2>1, SlaveSame DEF SameProgram
<1>6. FamilyNext(KidsFrom(1))
  BY <1>0, <1>3, FamilyKept
<1>7. Heard(pc[main])' = Heard(pc[main])
  BY <1>4 DEF Heard
<1>8. I' <= NSLAVES /\ (IF pc'[main] = "bc_fork" THEN NKids = I' ELSE NKids = NSLAVES)
  BY <1>4 DEF BroadcastInv
<1>9. BroadcastInv'
  BY <1>0, <1>3, <1>4, <1>5, <1>6, <1>7, <1>8, BroadcastNext
<1> QED
  BY <1>3, <1>9

(* A child exits: nothing else changes.                                    *)
LEMMA ChildExit ==
  ASSUME TypeInv, NoTokens, NEW S, Family(S), S \subseteq Pids, main \notin S, NEW p \in S, Exit(p)
  PROVE  /\ Kept /\ NoTokens' /\ FamilyNext(S) /\ UNCHANGED <<mailbox, mailbox_size, msg>>
         /\ \A q \in Pids : SameProgram(q)
<1>1. FamilyNext(S) /\ UNCHANGED <<mailbox, mailbox_size, msg>> /\ ParentsInv'
  BY FamilyKill DEF Exit
<1>2. ProgramsInv' /\ \A q \in Pids : SameProgram(q)
  BY StayIs DEF Exit, TypeInv
<1>3. NoTokens'
  BY <1>1, <1>2, NoTokensKept
<1> QED
  BY <1>1, <1>2, <1>3 DEF Kept

LEMMA BroadcastExit ==
  ASSUME TypeInv, BroadcastInv, NEW p \in Pids, Exit(p)
  PROVE  Kept /\ BroadcastInv'
<1>0. /\ KidsApart /\ NoTokens /\ Family(KidsFrom(1)) /\ (\A k \in KidsFrom(1) : SlaveOk(k))
      /\ mailbox_size[main] + Heard(pc[main]) <= Cardinality(Answered)
      /\ pc[main] \in {"bc_fork", "bc_send", "bc_receive"}
  BY DEF BroadcastInv, Heard
<1>1. p \in KidsFrom(1)
  BY <1>0, ChildGuards DEF ChildStep, Family
<1>2. KidsFrom(1) \subseteq Pids /\ main \notin KidsFrom(1)
  BY <1>0, KidsArePids
<1>3. /\ Kept /\ NoTokens' /\ FamilyNext(KidsFrom(1)) /\ UNCHANGED <<mailbox, mailbox_size, msg>>
      /\ \A q \in Pids : SameProgram(q)
  <2> DEFINE S == KidsFrom(1)
  <2>1. p \in S /\ S \subseteq Pids /\ main \notin S /\ Family(S) /\ NoTokens
    BY <1>0, <1>1, <1>2
  <2> HIDE DEF S
  <2>2. /\ Kept /\ NoTokens' /\ FamilyNext(S) /\ UNCHANGED <<mailbox, mailbox_size, msg>>
        /\ \A q \in Pids : SameProgram(q)
    BY <2>1, ChildExit
  <2> QED
    BY <2>2 DEF S
<1>4. local'[main] = local[main] /\ pc'[main] = pc[main] /\ I' = I
  BY <1>3, MainIsPid DEF SameProgram, I
<1>5. \A k \in KidsFrom(1) : pc'[k] = pc[k] /\ SlaveOk(k)'
  BY <1>0, <1>2, <1>3, SlaveSame DEF SameProgram, SameBox
<1>6. Answered' = Answered
  BY <1>4, <1>5, AnsweredSame
<1>7. mailbox_size'[main] + Heard(pc[main])' <= Cardinality(Answered')
  BY <1>0, <1>3, <1>4, <1>6 DEF Heard
<1>8. I' <= NSLAVES /\ (IF pc'[main] = "bc_fork" THEN NKids = I' ELSE NKids = NSLAVES)
  BY <1>4 DEF BroadcastInv
<1>9. BroadcastInv'
  BY <1>0, <1>3, <1>4, <1>5, <1>7, <1>8, BroadcastNext
<1> QED
  BY <1>3, <1>9

(* All have answered when main has heard as many answers as it has slaves. *)
LEMMA BroadcastHeard ==
  ASSUME TypeInv, BroadcastInv, EndOfLoop("bc_receive", NSLAVES, "bc_wait")
  PROVE  Kept /\ BroadcastEndInv'
<1>1. /\ Kept /\ Quiet /\ Moves(main, "bc_wait", Reset(main)) /\ I' = 0
      /\ local'[main].pids = local[main].pids /\ pc[main] = "bc_receive" /\ I >= NSLAVES
  BY EndOfLoopIs
<1>2. /\ I \in Nat /\ NSLAVES \in Nat /\ I <= NSLAVES /\ KidsApart /\ NoTokens /\ NKids = NSLAVES
      /\ Family(KidsFrom(1)) /\ mailbox_size[main] + I <= Cardinality(Answered)
      /\ mailbox_size[main] \in Nat /\ Cardinality(Answered) \in Nat
      /\ Cardinality(Answered) <= NKids
      /\ (Cardinality(Answered) = NKids => Answered = KidsFrom(1))
  BY <1>1, KidType, Bounds, SizeType, MainIsPid, AnsweredFinite DEF BroadcastInv
<1>3. mailbox_size[main] = 0 /\ Cardinality(Answered) = NKids
  BY <1>1, <1>2
<1>4. \A c \in KidsFrom(1) : pc[c] = "exit"
  BY <1>2, <1>3 DEF Answered
<1>5. NKids' = NKids /\ KidsApart' /\ KidsFrom(1)' = KidsFrom(1)
  BY <1>1, <1>2, KidsSame
<1>6. NoTokens' /\ FamilyNext(KidsFrom(1)) /\ mailbox_size'[main] = 0
  <2>1. NoTokens'
    BY <1>1, <1>2, NoTokensKept DEF Quiet
  <2> QED
    BY <1>1, <1>2, <1>3, <2>1, FamilyKept DEF Quiet
<1>7. pc'[main] = "bc_wait" /\ \A c \in KidsFrom(1) : pc'[c] = "exit"
  BY <1>1, <1>2, <1>4, KidsArePids DEF Moves, SameProgram
<1>8. KidsFrom(I + 1)' = KidsFrom(1)
  <2>1. I' + 1 = 1
    BY <1>1
  <2> QED
    BY <2>1, <1>5 DEF KidsFrom
<1>9. BroadcastEndInv'
  BY <1>1, <1>2, <1>5, <1>6, <1>7, <1>8 DEF BroadcastEndInv, Family, FamilyNext
<1> QED
  BY <1>1, <1>9

(* main waits for its slaves one after the other.                          *)
LEMMA NextKid ==
  ASSUME TypeInv, KidsApart, NEW j \in Nat, j < NKids
  PROVE  /\ KidsFrom(j + 1) \ {Kid(j + 1)} = KidsFrom(j + 2) /\ Kid(j + 1) \in KidsFrom(j + 1)
         /\ Kid(j + 1) \in Pids /\ Kid(j + 1) # main
<1>0. NKids \in Nat
  BY KidType
<1>1. j + 1 \in 1 .. NKids /\ j + 1 \in (j + 1) .. NKids
  BY <1>0
<1>2. \A k : k \in (j + 1) .. NKids <=> k = j + 1 \/ k \in (j + 2) .. NKids
  BY <1>0
<1>3. \A k \in (j + 2) .. NKids : k \in 1 .. NKids /\ k # j + 1
  BY <1>0
<1>4. \A k \in (j + 2) .. NKids : Kid(k) # Kid(j + 1)
  BY <1>1, <1>3 DEF KidsApart
<1>5. KidsFrom(j + 1) \ {Kid(j + 1)} = KidsFrom(j + 2)
  BY <1>2, <1>4 DEF KidsFrom
<1> QED
  BY <1>1, <1>5, KidType DEF KidsFrom, KidsApart

LEMMA KidsFromSub ==
  ASSUME TypeInv, KidsApart, NEW j \in Nat
  PROVE  KidsFrom(j + 1) \subseteq KidsFrom(1) /\ KidsFrom(j + 1) \subseteq Pids
         /\ main \notin KidsFrom(j + 1)
<1>1. \A k \in (j + 1) .. NKids : k \in 1 .. NKids
  BY KidType
<1>2. KidsFrom(j + 1) \subseteq KidsFrom(1)
  BY <1>1 DEF KidsFrom
<1> QED
  BY <1>2, KidsArePids

LEMMA BroadcastWait ==
  ASSUME TypeInv, BroadcastEndInv, test_broadcast
  PROVE  Kept /\ (BroadcastEndInv' \/ Alone')
<1> DEFINE c == Kid(I + 1)
           S == KidsFrom(I + 1)
<1>0. /\ I \in Nat /\ NSLAVES \in Nat /\ I <= NSLAVES /\ KidsApart /\ NoTokens /\ NKids = NSLAVES
      /\ Family(S) /\ mailbox_size[main] = 0 /\ pc[main] = "bc_wait"
      /\ \A k \in S : pc[k] = "exit"
  BY KidType, Bounds DEF BroadcastEndInv
<1>1. CASE I < NSLAVES
  <2>1. TryWaitpid(main, c, "bc_wait", Count(main))
    <3>1. ~ (I >= NSLAVES)
      BY <1>0, <1>1
    <3> QED
      BY <1>0, <3>1 DEF test_broadcast, InLoop, EndOfLoop, At, I, ChildAt, Kid
  <2>2. S \ {c} = KidsFrom(I + 2) /\ c \in S /\ c \in Pids /\ c # main
    BY <1>0, <1>1, NextKid
  <2>3. IsLocals(Count(main)) /\ Count(main).i = I + 1 /\ Count(main).pids = local[main].pids
    BY CountIs, MainIsPid DEF TypeInv, I
  <2> HIDE DEF c, S
  <2>4. c \in exists /\ parent_pid[c] = main
    BY <1>0, <2>2 DEF Family
  <2>5. /\ Kept /\ UNCHANGED <<exited, parent_pid, mailbox, mailbox_size, msg>>
        /\ \/ Quiet /\ \A q \in Pids : SameProgram(q)
           \/ exists' = exists \ {c} /\ Moves(main, "bc_wait", Count(main))
    BY <2>1, <2>3, <2>4, WaitpidIs, MainIsPid
  <2>6. NoTokens' /\ mailbox_size'[main] = 0
    BY <1>0, <2>5, NoTokensKept
  <2>7. local'[main].pids = local[main].pids /\ pc'[main] = "bc_wait"
        /\ \A k \in Pids : k # main => pc'[k] = pc[k]
    BY <1>0, <2>3, <2>5, MainIsPid DEF Moves, SameProgram
  <2>8. NKids' = NKids /\ KidsApart' /\ \A j : KidsFrom(j)' = KidsFrom(j)
    BY <1>0, <2>7, KidsSame
  <2>9. S \subseteq Pids /\ main \notin S
    BY <1>0, KidsFromSub DEF S
  <2>10. CASE Quiet /\ \A q \in Pids : SameProgram(q)
    <3>1. I' = I /\ FamilyNext(S)
      BY <1>0, <2>10, FamilyKept, MainIsPid DEF Quiet, SameProgram, I
    <3>2. KidsFrom(I + 1)' = S
      BY <2>8, <3>1 DEF S, KidsFrom
    <3>3. BroadcastEndInv'
      BY <1>0, <2>6, <2>7, <2>8, <2>9, <3>1, <3>2 DEF BroadcastEndInv, Family, FamilyNext
    <3> QED
      BY <2>5, <3>3
  <2>11. CASE exists' = exists \ {c} /\ Moves(main, "bc_wait", Count(main))
    <3>1. I' = I + 1 /\ I' <= NSLAVES
      BY <1>0, <1>1, <2>3, <2>11 DEF Moves, I
    <3>2. FamilyNext(S \ {c})
      BY <1>0, <2>2, <2>5, <2>11, FamilyReap
    <3>3. KidsFrom(I + 1)' = S \ {c}
      <4>1. I' + 1 = I + 2
        BY <1>0, <3>1
      <4> QED
        BY <2>2, <2>8, <4>1 DEF KidsFrom
    <3>4. BroadcastEndInv'
      BY <1>0, <2>6, <2>7, <2>8, <2>9, <3>1, <3>2, <3>3 DEF BroadcastEndInv, Family, FamilyNext
    <3> QED
      BY <2>5, <3>4
  <2> QED
    BY <2>5, <2>10, <2>11
<1>2. CASE ~ (I < NSLAVES)
  <2>1. EndOfLoop("bc_wait", NSLAVES, "menu")
    BY <1>0, <1>2 DEF test_broadcast, InLoop, EndOfLoop, At, I
  <2>2. Kept /\ Quiet /\ Moves(main, "menu", Reset(main))
    BY <2>1, EndOfLoopIs
  <2>3. S = {}
    <3>1. \A k \in (I + 1) .. NKids : FALSE
      BY <1>0, <1>2
    <3> QED
      BY <3>1 DEF KidsFrom
  <2>4. NoTokens' /\ mailbox_size'[main] = 0
    BY <1>0, <2>2, NoTokensKept DEF Quiet
  <2>5. FamilyNext({})
    BY <1>0, <2>2, <2>3, FamilyKept DEF Quiet
  <2> QED
    BY <2>2, <2>4, <2>5, AloneNext DEF Moves
<1> QED
  BY <1>1, <1>2

LEMMA BroadcastEndExit ==
  ASSUME TypeInv, BroadcastEndInv, NEW p \in Pids, Exit(p)
  PROVE  Kept /\ BroadcastEndInv'
<1> DEFINE S == KidsFrom(I + 1)
<1>0. /\ I \in Nat /\ KidsApart /\ NoTokens /\ Family(S) /\ mailbox_size[main] = 0
      /\ pc[main] = "bc_wait" /\ \A k \in S : pc[k] = "exit"
  BY KidType DEF BroadcastEndInv
<1>1. p \in S /\ S \subseteq Pids /\ main \notin S
  BY <1>0, ChildGuards, KidsFromSub DEF ChildStep, Family
<1> HIDE DEF S
<1>2. /\ Kept /\ NoTokens' /\ FamilyNext(S) /\ UNCHANGED <<mailbox, mailbox_size, msg>>
      /\ \A q \in Pids : SameProgram(q)
  BY <1>0, <1>1, ChildExit
<1>3. local'[main] = local[main] /\ pc'[main] = "bc_wait" /\ \A k \in S : pc'[k] = "exit"
  BY <1>0, <1>1, <1>2, MainIsPid DEF SameProgram
<1>4. NKids' = NKids /\ KidsApart' /\ (\A j : KidsFrom(j)' = KidsFrom(j)) /\ I' = I
  BY <1>0, <1>3, KidsSame DEF I
<1>5. KidsFrom(I + 1)' = S
  BY <1>4 DEF S, KidsFrom
<1>6. BroadcastEndInv'
  BY <1>0, <1>2, <1>3, <1>4, <1>5 DEF BroadcastEndInv, Family, FamilyNext
<1> QED
  BY <1>2, <1>6

-----------------------------------------------------------------------------
(***************************************************************************)
(* test_ring: a process of the ring until it passes the token on.          *)
(***************************************************************************)
LEMMA NodeSame ==
  ASSUME NEW c, NodeOk(c), SameBox(c), SameProgram(c), KidsFrom(1)' = KidsFrom(1)
  PROVE  NodeOk(c)' /\ (HasToken(c)' <=> HasToken(c))
BY DEF NodeOk, HasToken, SameBox, SameProgram

LEMMA NodeClean ==
  ASSUME NEW c, c # main, NodeOk(c)', ~ HasToken(c)'
  PROVE  Clean(c)'
<1>1. CASE pc'[c] = "ring_first"
  <2>1. mailbox_size'[c] = 1 /\ mailbox'[c][0].tag = "NEIGHBOUR"
    BY <1>1 DEF NodeOk, HasToken, IsNeighbour
  <2>2. \A k \in 0 .. (1 - 1) : k = 0
    OBVIOUS
  <2> QED
    BY <1>1, <2>1, <2>2 DEF Clean
<1>2. CASE pc'[c] = "ring_loop"
  <2>1. mailbox_size'[c] = 0
    BY <1>2 DEF NodeOk, HasToken
  <2>2. \A k \in 0 .. (0 - 1) : FALSE
    OBVIOUS
  <2> QED
    BY <1>2, <2>1, <2>2 DEF Clean
<1> QED
  BY <1>1, <1>2 DEF NodeOk, HasToken

NodeMoves(p) ==
  /\ Kept /\ UNCHANGED <<exists, exited, parent_pid>>
  /\ \A q \in Pids : q # p => SameBox(q) /\ SameProgram(q)
  /\ NodeOk(p)' /\ (HasToken(p)' <=> HasToken(p))

LEMMA NodeStep ==
  ASSUME TypeInv, NEW p \in Pids, p # main, NodeOk(p), Ring(p), pc[p] # "ring_pass"
  PROVE  NodeMoves(p)
<1>0. IsLocals(local[p]) /\ pc[p] \in {"ring_first", "ring_loop"}
  BY ChildGuards DEF TypeInv, ProgramsInv
<1>1. CASE ReceiveBlocks(p) /\ Stay
  <2>1. Kept /\ Quiet /\ \A q \in Pids : SameProgram(q)
    BY <1>1, BlocksIs DEF QuietCall
  <2>2. KidsFrom(1)' = KidsFrom(1)
    BY <2>1, KidsSame, MainIsPid DEF SameProgram
  <2>3. NodeOk(p)' /\ (HasToken(p)' <=> HasToken(p))
    BY <2>1, <2>2, NodeSame DEF Quiet, SameBox
  <2> QED
    BY <2>1, <2>3 DEF NodeMoves, Quiet, SameBox
<1>2. CASE pc[p] = "ring_first" /\ ~ (ReceiveBlocks(p) /\ Stay)
  <2> DEFINE v == mailbox[p][0].data[1]
             l == [local[p] EXCEPT !.next = v]
  <2>1. /\ mailbox_size[p] \in {1, 2} /\ IsNeighbour(mailbox[p][0]) /\ v \in KidsFrom(1)
        /\ (mailbox_size[p] = 2 => IsToken(mailbox[p][1]))
    BY <1>2 DEF NodeOk
  <2>2. ReceiveFirst(p) /\ Continue(p, "ring_loop", l)
    BY <1>2, <2>1 DEF Ring, RingPass, At, TryReceive
  <2> HIDE DEF v
  <2>3. IsLocals(l) /\ l.next = v
    BY <1>0, SetNext
  <2> HIDE DEF l
  <2>4. Kept /\ Takes(p) /\ Moves(p, "ring_loop", l)
    BY <2>2, <2>3, ReceiveIs
  <2>5. KidsFrom(1)' = KidsFrom(1)
    BY <2>4, KidsSame, MainIsPid DEF SameProgram, Moves
  <2>6. /\ pc'[p] = "ring_loop" /\ local'[p].next \in KidsFrom(1)'
        /\ mailbox_size'[p] = mailbox_size[p] - 1
    BY <2>1, <2>3, <2>4, <2>5 DEF Moves, Takes
  <2>7. CASE mailbox_size[p] = 1
    <3>1. mailbox_size'[p] = 0
      BY <2>6, <2>7
    <3> QED
      BY <1>2, <2>4, <2>6, <2>7, <3>1 DEF NodeMoves, Takes, Moves, NodeOk, HasToken
  <2>8. CASE mailbox_size[p] = 2
    <3>1. mailbox_size'[p] = 1 /\ 0 \in 0 .. (2 - 2) /\ 0 + 1 = 1
      BY <2>6, <2>8
    <3>2. mailbox'[p][0] = mailbox[p][1]
      BY <2>4, <2>8, <3>1 DEF Takes
    <3>3. IsToken(mailbox'[p][0])
      BY <2>1, <2>8, <3>2
    <3>4. NodeOk(p)' /\ HasToken(p)' /\ HasToken(p)
      BY <1>2, <2>6, <2>8, <3>1, <3>3 DEF NodeOk, HasToken, IsToken
    <3> QED
      BY <2>4, <3>4 DEF NodeMoves, Takes, Moves
  <2> QED
    BY <2>1, <2>7, <2>8
<1>3. CASE pc[p] = "ring_loop" /\ ~ (ReceiveBlocks(p) /\ Stay)
  <2> DEFINE v == TokenAfter(mailbox[p][0])
             l == [local[p] EXCEPT !.token = v]
  <2>1. /\ ReceiveFirst(p)
        /\ Continue(p, IF IsToken(mailbox[p][0]) THEN "ring_pass" ELSE "failed", l)
    BY <1>3 DEF Ring, RingPass, At, TryReceive
  <2>2. /\ mailbox_size[p] = 1 /\ IsToken(mailbox[p][0]) /\ local[p].next \in KidsFrom(1)
    BY <1>3, <2>1 DEF NodeOk, ReceiveFirst
  <2>3. Continue(p, "ring_pass", l)
    BY <2>1, <2>2
  <2> HIDE DEF v
  <2>4. IsLocals(l) /\ l.next = local[p].next
    BY <1>0, SetToken
  <2> HIDE DEF l
  <2>5. Kept /\ Takes(p) /\ Moves(p, "ring_pass", l)
    BY <2>1, <2>3, <2>4, ReceiveIs
  <2>6. KidsFrom(1)' = KidsFrom(1)
    BY <2>5, KidsSame, MainIsPid DEF SameProgram, Moves
  <2>7. /\ pc'[p] = "ring_pass" /\ local'[p].next \in KidsFrom(1)' /\ mailbox_size'[p] = 0
    BY <2>2, <2>4, <2>5, <2>6 DEF Moves, Takes
  <2>8. NodeOk(p)' /\ HasToken(p)' /\ HasToken(p)
    BY <1>3, <2>2, <2>7 DEF NodeOk, HasToken
  <2> QED
    BY <2>5, <2>8 DEF NodeMoves, Takes, Moves
<1> QED
  BY <1>0, <1>1, <1>2, <1>3

(* A process of the ring without the token leaves the system without it.   *)
LEMMA NodeQuiet ==
  ASSUME NoTokens, NEW p \in Pids, p # main, NodeMoves(p), ~ HasToken(p)
  PROVE  NoTokens'
<1> SUFFICES ASSUME NEW q \in Pids PROVE Clean(q)'
  BY DEF NoTokens
<1>1. CASE q = p
  BY <1>1, NodeClean DEF NodeMoves
<1>2. CASE q # p
  <2>1. Clean(q) /\ SameBox(q) /\ pc'[q] # "ring_pass"
    BY <1>2 DEF NoTokens, Clean, NodeMoves, SameProgram
  <2> QED
    BY <2>1, CleanSame
<1> QED
  BY <1>1, <1>2

(* A process of the ring that has not been told its neighbour waits.       *)
LEMMA NodeWaits ==
  ASSUME TypeInv, NEW p \in Pids, pc[p] = "ring_first", mailbox_size[p] = 0, Ring(p)
  PROVE  Kept /\ Quiet /\ \A q \in Pids : SameProgram(q)
<1>1. ReceiveBlocks(p) /\ Stay
  BY DEF Ring, RingPass, At, TryReceive, ReceiveFirst
<1> QED
  BY <1>1, BlocksIs DEF QuietCall

-----------------------------------------------------------------------------
LEMMA RingFork ==
  ASSUME TypeInv, RingForkInv, test_ring, I < RING_SIZE
  PROVE  Kept /\ RingForkInv'
<1>0. /\ main \in exists /\ NKids = I /\ I \in Nat /\ RING_SIZE \in Nat /\ KidsApart /\ NoTokens
      /\ Family(KidsFrom(1)) /\ KidsFrom(1) \subseteq Pids /\ pc[main] = "ring_fork"
      /\ mailbox_size[main] = 0
  BY KidType, Bounds DEF RingForkInv, Family
<1>1. ~ (I >= RING_SIZE)
  BY <1>0
<1>f. ~ ForkFails
  <2>1. RING_SIZE <= LastPid - FirstPid
    BY MpTestAssumption
  <2>2. NKids < LastPid - FirstPid
    BY <1>0, <2>1, MessagesAssumption
  <2> QED
    BY <1>0, <2>2, SlotFree
<1>2. PICK c \in Pids :
           /\ syscall_fork(main, c)
           /\ pc' = [pc EXCEPT ![main] = "ring_fork", ![c] = "ring_first"]
           /\ local' = [local EXCEPT ![main] = ForkCount(main, c), ![c] = local[main]]
  BY <1>0, <1>1, <1>f DEF test_ring, InLoop, EndOfLoop, At, Fork, I, ForkCount
<1> DEFINE l == ForkCount(main, c)
<1>3. IsLocals(l) /\ l.i = I + 1 /\ l.pids = Append(local[main].pids, c)
  BY ForkCountIs, MainIsPid DEF TypeInv, I
<1>4. local' = [local EXCEPT ![main] = l, ![c] = local[main]]
  BY <1>2
<1> HIDE DEF l
<1>5. ForksTo(main, c, "ring_fork", "ring_first", l) /\ Kept
  BY <1>0, <1>2, <1>3, <1>4, ForkIs, MainIsPid DEF Kept
<1>6. NoTokens'
  BY <1>0, <1>5, NoTokensFork
<1>7. /\ NKids' = NKids + 1 /\ KidsFrom(1)' = KidsFrom(1) \cup {c} /\ KidsApart'
      /\ FamilyNext(KidsFrom(1) \cup {c}) /\ c \notin KidsFrom(1) /\ c # main
  BY <1>0, <1>3, <1>5, ForkKids
<1>8. I' = I + 1 /\ pc'[main] = "ring_fork" /\ pc'[c] = "ring_first" /\ mailbox_size'[c] = 0
      /\ mailbox_size'[main] = 0
  BY <1>0, <1>3, <1>5, <1>7, MainIsPid DEF ForksTo, Begins, SameBox, I
<1>9. \A k \in KidsFrom(1) : pc'[k] = "ring_first" /\ mailbox_size'[k] = 0
  <2> TAKE k \in KidsFrom(1)
  <2>1. k \in Pids /\ k # c /\ k # main /\ pc[k] = "ring_first" /\ mailbox_size[k] = 0
    BY <1>0, <1>7, KidsArePids DEF RingForkInv
  <2> QED
    BY <1>5, <2>1 DEF ForksTo, Begins, SameProgram, SameBox
<1>10. I' <= RING_SIZE /\ NKids' = I'
  BY <1>0, <1>7, <1>8
<1>11. \A k \in KidsFrom(1)' : pc'[k] = "ring_first" /\ mailbox_size'[k] = 0
  BY <1>7, <1>8, <1>9
<1>12. RingForkInv'
  BY <1>6, <1>7, <1>8, <1>10, <1>11 DEF RingForkInv, Family, FamilyNext
<1> QED
  BY <1>5, <1>12

LEMMA RingForkWait ==
  ASSUME TypeInv, RingForkInv, NEW p \in Pids, Ring(p)
  PROVE  Kept /\ RingForkInv'
<1>1. p \in KidsFrom(1) /\ pc[p] = "ring_first" /\ mailbox_size[p] = 0
  BY ChildGuards DEF ChildStep, RingForkInv, Family
<1>2. Kept /\ Quiet /\ \A q \in Pids : SameProgram(q)
  BY <1>1, NodeWaits
<1>3. local'[main] = local[main] /\ pc'[main] = pc[main] /\ I' = I
  BY <1>2, MainIsPid DEF SameProgram, I
<1>4. NKids' = NKids /\ (KidsApart => KidsApart') /\ KidsFrom(1)' = KidsFrom(1)
  BY <1>3, KidsSame
<1>5. NoTokens' /\ FamilyNext(KidsFrom(1))
  <2>1. NoTokens'
    BY <1>2, NoTokensKept DEF Quiet, RingForkInv
  <2> QED
    BY <1>2, <2>1, FamilyKept DEF Quiet, RingForkInv
<1>6. \A k \in KidsFrom(1) : pc'[k] = pc[k] /\ mailbox_size'[k] = mailbox_size[k]
  BY <1>2, KidType DEF Quiet, SameProgram
<1>7. RingForkInv'
  BY <1>2, <1>3, <1>4, <1>5, <1>6 DEF RingForkInv, Family, FamilyNext, Quiet
<1> QED
  BY <1>2, <1>7

(* Which processes of the ring have been told their neighbours.            *)
LEMMA RingSendNext ==
  ASSUME TypeInv, KidsApart, NKids = RING_SIZE, local'[main].pids = local[main].pids,
         FamilyNext(KidsFrom(1)), NoTokens', mailbox_size'[main] = 0,
         pc'[main] \in {"ring_send", "ring_start"}, pc'[main] = "ring_start" => I' = 0,
         I' <= RING_SIZE, NEW t \in Nat, Told' = t,
         \A k \in 1 .. NKids : \A c \in Pids : c = Kid(k) =>
           IF k <= t THEN NodeOk(c)' /\ ~ HasToken(c)'
           ELSE pc'[c] = "ring_first" /\ mailbox_size'[c] = 0
  PROVE  RingSendInv'
<1>0. NKids \in Nat /\ RING_SIZE \in Nat /\ \A k \in 1 .. NKids : Kid(k) \in Pids
  BY KidType, Bounds
<1>1. NKids' = NKids /\ KidsApart' /\ KidsFrom(1)' = KidsFrom(1) /\ \A k : Kid(k)' = Kid(k)
  BY KidsSame
<1>2. t <= RING_SIZE
  BY <1>0 DEF Told
<1>3. \A k \in 1 .. t : (NodeOk(Kid(k)) /\ ~ HasToken(Kid(k)))'
  <2> TAKE k \in 1 .. t
  <2>1. k \in 1 .. NKids /\ k <= t
    BY <1>0, <1>2
  <2>2. PICK c \in Pids : c = Kid(k)
    BY <1>0, <2>1
  <2>3. NodeOk(c)' /\ ~ HasToken(c)' /\ Kid(k)' = c
    BY <1>1, <2>1, <2>2
  <2> QED
    BY <2>3 DEF NodeOk, HasToken
<1>4. \A k \in (t + 1) .. NKids : (pc[Kid(k)] = "ring_first" /\ mailbox_size[Kid(k)] = 0)'
  <2> TAKE k \in (t + 1) .. NKids
  <2>1. k \in 1 .. NKids /\ ~ (k <= t)
    BY <1>0, <1>2
  <2> QED
    BY <1>0, <1>1, <2>1
<1> QED
  BY <1>1, <1>3, <1>4 DEF RingSendInv, Family, FamilyNext

LEMMA RingForked ==
  ASSUME TypeInv, RingForkInv, EndOfLoop("ring_fork", RING_SIZE, "ring_send")
  PROVE  Kept /\ RingSendInv'
<1>1. /\ Kept /\ Quiet /\ Moves(main, "ring_send", Reset(main)) /\ I' = 0
      /\ local'[main].pids = local[main].pids /\ I >= RING_SIZE
  BY EndOfLoopIs
<1>2. /\ I \in Nat /\ RING_SIZE \in Nat /\ I <= RING_SIZE /\ NKids = I /\ KidsApart /\ NoTokens
      /\ Family(KidsFrom(1)) /\ mailbox_size[main] = 0
  BY KidType, Bounds DEF RingForkInv
<1>3. NKids = RING_SIZE /\ 0 <= RING_SIZE
  BY <1>1, <1>2
<1>4. NoTokens' /\ FamilyNext(KidsFrom(1)) /\ mailbox_size'[main] = 0
  <2>1. NoTokens'
    BY <1>1, <1>2, NoTokensKept DEF Quiet
  <2> QED
    BY <1>1, <1>2, <2>1, FamilyKept DEF Quiet
<1>5. pc'[main] = "ring_send" /\ Told' = 0
  BY <1>1 DEF Moves, Told
<1>6. \A k \in 1 .. NKids : \A c \in Pids : c = Kid(k) =>
        /\ ~ (k <= 0) /\ pc'[c] = "ring_first" /\ mailbox_size'[c] = 0
  <2> TAKE k \in 1 .. NKids
  <2> TAKE c \in Pids
  <2> HAVE c = Kid(k)
  <2>1. c \in KidsFrom(1) /\ c # main
    BY <1>2 DEF KidsFrom, KidsApart
  <2>2. pc[c] = "ring_first" /\ mailbox_size[c] = 0
    BY <2>1 DEF RingForkInv
  <2>3. ~ (k <= 0)
    BY <1>2
  <2> QED
    BY <1>1, <2>1, <2>2, <2>3 DEF Moves, SameProgram, Quiet
<1>7. RingSendInv'
  BY <1>1, <1>2, <1>3, <1>4, <1>5, <1>6, RingSendNext
<1> QED
  BY <1>1, <1>7

(* What RingSendInv says of a child.                                       *)
LEMMA RingSendKid ==
  ASSUME TypeInv, RingSendInv, NEW k \in 1 .. NKids, NEW c, c = Kid(k)
  PROVE  /\ c \in KidsFrom(1) /\ c # main /\ c \in Pids
         /\ IF k <= Told THEN NodeOk(c) /\ ~ HasToken(c)
            ELSE pc[c] = "ring_first" /\ mailbox_size[c] = 0
<1>0. NKids \in Nat /\ Told \in Nat /\ Told <= NKids
  BY KidType, Bounds DEF RingSendInv, Told
<1>1. c \in KidsFrom(1) /\ c # main /\ c \in Pids
  BY KidType DEF KidsFrom, RingSendInv, KidsApart
<1>2. k <= Told => k \in 1 .. Told
  BY <1>0
<1>3. ~ (k <= Told) => k \in (Told + 1) .. NKids
  BY <1>0
<1> QED
  BY <1>1, <1>2, <1>3 DEF RingSendInv

LEMMA RingTell ==
  ASSUME TypeInv, RingSendInv, test_ring, pc[main] = "ring_send", I < RING_SIZE
  PROVE  Kept /\ RingSendInv'
<1> DEFINE n == Number(ChildAt((local[main].i + 1) % RING_SIZE))
           to == ChildAt(local[main].i)
           m == Message(main, "NEIGHBOUR", IntSize, n)
<1>0. /\ I \in Nat /\ RING_SIZE \in Nat /\ NKids = RING_SIZE /\ KidsApart /\ NoTokens
      /\ Family(KidsFrom(1)) /\ mailbox_size[main] = 0 /\ Told = I /\ RING_SIZE >= 1
  BY KidType, Bounds DEF RingSendInv, Told
<1>1. Send(main, to, "NEIGHBOUR", IntSize, n, "ring_send", Count(main))
  <2>1. ~ (I >= RING_SIZE)
    BY <1>0
  <2> QED
    BY <2>1 DEF test_ring, InLoop, EndOfLoop, At, I
<1>2. to = Kid(I + 1) /\ I + 1 \in 1 .. NKids /\ ~ (I + 1 <= I)
  BY <1>0 DEF ChildAt, Kid, I
<1>3. n[1] \in KidsFrom(1)
  <2>1. n[1] = Kid(((I + 1) % RING_SIZE) + 1)
    BY DEF Number, ChildAt, Kid, I
  <2>2. (I + 1) % RING_SIZE \in 0 .. (RING_SIZE - 1)
    BY <1>0
  <2>3. ((I + 1) % RING_SIZE) + 1 \in 1 .. NKids
    BY <1>0, <2>2
  <2> QED
    BY <2>1, <2>3 DEF KidsFrom
<1>4. PICK c : c = to
  OBVIOUS
<1>5. /\ c \in KidsFrom(1) /\ c # main /\ c \in Pids /\ pc[c] = "ring_first" /\ mailbox_size[c] = 0
      /\ c \in exists
  <2>1. PICK k \in 1 .. NKids : k = I + 1
    BY <1>2
  <2>2. c = Kid(k) /\ ~ (k <= Told)
    BY <1>0, <1>2, <1>4, <2>1
  <2>3. /\ c \in KidsFrom(1) /\ c # main /\ c \in Pids
        /\ pc[c] = "ring_first" /\ mailbox_size[c] = 0
    BY <2>2, RingSendKid
  <2> QED
    BY <1>0, <2>3 DEF Family
<1> HIDE DEF to, n
<1>6. SendResult(c, IntSize) = "0"
  BY <1>5, Room, Bounds
<1>7. IsLocals(Count(main)) /\ Count(main).i = I + 1 /\ Count(main).pids = local[main].pids
  BY CountIs, MainIsPid DEF TypeInv, I
<1>8. Kept /\ Moves(main, "ring_send", Count(main)) /\ Delivers(c, m)
  BY <1>1, <1>4, <1>6, <1>7, SendIs, MainIsPid
<1>9. m.tag # "TOKEN" /\ IsNeighbour(m) /\ m.data = n
  BY DEF Message, IsNeighbour
<1> HIDE DEF m
<1>10. NoTokens'
  BY <1>0, <1>8, <1>9, NoTokensKept
<1>11. /\ FamilyNext(KidsFrom(1)) /\ mailbox_size'[main] = 0
  BY <1>0, <1>5, <1>8, FamilyKept, MainIsPid DEF Delivers, SameBox
<1>12. /\ local'[main].pids = local[main].pids /\ pc'[main] = "ring_send" /\ I' = I + 1
       /\ Told' = I + 1
  BY <1>7, <1>8 DEF Moves, I, Told
<1>13. KidsFrom(1)' = KidsFrom(1)
  BY <1>12, KidsSame
<1>14. NodeOk(c)' /\ ~ HasToken(c)'
  <2>1. mailbox_size'[c] = 1 /\ mailbox'[c][0] = m /\ pc'[c] = "ring_first"
    BY <1>5, <1>8 DEF Delivers, Moves, SameProgram
  <2>2. mailbox'[c][0].data[1] \in KidsFrom(1)'
    BY <1>3, <1>9, <1>13, <2>1
  <2> QED
    BY <1>5, <1>9, <2>1, <2>2 DEF NodeOk, HasToken, IsNeighbour
<1>15. \A k \in 1 .. NKids : \A d \in Pids : d = Kid(k) =>
         IF k <= I + 1 THEN NodeOk(d)' /\ ~ HasToken(d)'
         ELSE pc'[d] = "ring_first" /\ mailbox_size'[d] = 0
  <2> TAKE k \in 1 .. NKids
  <2> TAKE d \in Pids
  <2> HAVE d = Kid(k)
  <2>1. CASE k = I + 1
    <3>1. d = c /\ k <= I + 1
      BY <1>0, <1>2, <1>4, <2>1
    <3> QED
      BY <1>14, <3>1
  <2>2. CASE k # I + 1
    <3>1. d # c /\ d # main
      BY <1>0, <1>2, <1>4, <2>2 DEF KidsApart
    <3>2. SameBox(d) /\ SameProgram(d)
      BY <1>8, <3>1 DEF Delivers, Moves
    <3>3. IF k <= I THEN NodeOk(d) /\ ~ HasToken(d)
          ELSE pc[d] = "ring_first" /\ mailbox_size[d] = 0
      BY <1>0, RingSendKid
    <3>4. k <= I + 1 <=> k <= I
      BY <1>0, <2>2
    <3>5. CASE k <= I
      BY <1>13, <3>2, <3>3, <3>4, <3>5, NodeSame
    <3>6. CASE ~ (k <= I)
      BY <3>2, <3>3, <3>4, <3>6 DEF SameBox, SameProgram
    <3> QED
      BY <3>5, <3>6
  <2> QED
    BY <2>1, <2>2
<1>16. I + 1 \in Nat /\ I' <= RING_SIZE
  BY <1>0, <1>12
<1>17. RingSendInv'
  <2> DEFINE t == I + 1
  <2>1. /\ t \in Nat /\ Told' = t
        /\ \A k \in 1 .. NKids : \A d \in Pids : d = Kid(k) =>
             IF k <= t THEN NodeOk(d)' /\ ~ HasToken(d)'
             ELSE pc'[d] = "ring_first" /\ mailbox_size'[d] = 0
    BY <1>12, <1>15, <1>16
  <2> HIDE DEF t
  <2> QED
    BY <1>0, <1>10, <1>11, <1>12, <1>16, <2>1, RingSendNext
<1> QED
  BY <1>8, <1>17

LEMMA RingTold ==
  ASSUME TypeInv, RingSendInv, EndOfLoop("ring_send", RING_SIZE, "ring_start")
  PROVE  Kept /\ RingSendInv'
<1>1. /\ Kept /\ Quiet /\ Moves(main, "ring_start", Reset(main)) /\ I' = 0
      /\ local'[main].pids = local[main].pids /\ I >= RING_SIZE /\ pc[main] = "ring_send"
  BY EndOfLoopIs
<1>2. /\ I \in Nat /\ RING_SIZE \in Nat /\ I <= RING_SIZE /\ NKids = RING_SIZE /\ KidsApart
      /\ NoTokens /\ Family(KidsFrom(1)) /\ mailbox_size[main] = 0 /\ Told = I
  BY <1>1, KidType, Bounds DEF RingSendInv, Told
<1>3. Told = RING_SIZE /\ 0 <= RING_SIZE
  BY <1>1, <1>2
<1>4. NoTokens' /\ FamilyNext(KidsFrom(1)) /\ mailbox_size'[main] = 0
  <2>1. NoTokens'
    BY <1>1, <1>2, NoTokensKept DEF Quiet
  <2> QED
    BY <1>1, <1>2, <2>1, FamilyKept DEF Quiet
<1>5. pc'[main] = "ring_start" /\ Told' = RING_SIZE /\ KidsFrom(1)' = KidsFrom(1)
  BY <1>1, KidsSame DEF Moves, Told
<1>6. \A k \in 1 .. NKids : \A c \in Pids : c = Kid(k) =>
        /\ k <= RING_SIZE /\ NodeOk(c)' /\ ~ HasToken(c)'
  <2> TAKE k \in 1 .. NKids
  <2> TAKE c \in Pids
  <2> HAVE c = Kid(k)
  <2>1. k <= RING_SIZE
    BY <1>2
  <2>2. c # main /\ NodeOk(c) /\ ~ HasToken(c)
    BY <1>3, <2>1, RingSendKid
  <2>3. SameBox(c) /\ SameProgram(c)
    BY <1>1, <2>2 DEF Moves, Quiet, SameBox
  <2> QED
    BY <1>5, <2>1, <2>2, <2>3, NodeSame
<1>7. RingSendInv'
  BY <1>1, <1>2, <1>3, <1>4, <1>5, <1>6, RingSendNext
<1> QED
  BY <1>1, <1>7

(* The processes of the ring in the meantime.                              *)
LEMMA RingSendChild ==
  ASSUME TypeInv, RingSendInv, NEW p \in Pids, Ring(p)
  PROVE  Kept /\ RingSendInv'
<1>0. /\ RING_SIZE \in Nat /\ NKids = RING_SIZE /\ KidsApart /\ NoTokens /\ I \in Nat
      /\ Family(KidsFrom(1)) /\ mailbox_size[main] = 0 /\ Told \in Nat /\ I <= RING_SIZE
      /\ pc[main] \in {"ring_send", "ring_start"} /\ (pc[main] = "ring_start" => I = 0)
  BY KidType, Bounds DEF RingSendInv, Told
<1>1. PICK j \in 1 .. NKids : p = Kid(j)
  <2>1. p \in KidsFrom(1)
    BY <1>0, ChildGuards DEF ChildStep, Family
  <2> QED
    BY <2>1 DEF KidsFrom
<1>2. /\ p # main
      /\ IF j <= Told THEN NodeOk(p) /\ ~ HasToken(p)
         ELSE pc[p] = "ring_first" /\ mailbox_size[p] = 0
  BY <1>1, RingSendKid
<1>3. /\ Kept /\ NoTokens' /\ UNCHANGED <<exists, exited, parent_pid>>
      /\ (\A q \in Pids : q # p => SameBox(q) /\ SameProgram(q))
      /\ IF j <= Told THEN NodeOk(p)' /\ ~ HasToken(p)'
         ELSE pc'[p] = "ring_first" /\ mailbox_size'[p] = 0
  <2>1. CASE j <= Told
    <3>1. pc[p] # "ring_pass"
      BY <1>2, <2>1 DEF HasToken
    <3>2. NodeMoves(p)
      BY <1>2, <2>1, <3>1, NodeStep
    <3>3. NoTokens'
      BY <1>0, <1>2, <2>1, <3>2, NodeQuiet
    <3> QED
      BY <1>2, <2>1, <3>2, <3>3 DEF NodeMoves
  <2>2. CASE ~ (j <= Told)
    <3>1. Kept /\ Quiet /\ \A q \in Pids : SameProgram(q)
      BY <1>2, <2>2, NodeWaits
    <3>2. NoTokens'
      BY <1>0, <3>1, NoTokensKept DEF Quiet
    <3> QED
      BY <1>2, <2>2, <3>1, <3>2 DEF Quiet, SameBox, SameProgram
  <2> QED
    BY <2>1, <2>2
<1>4. /\ local'[main] = local[main] /\ pc'[main] = pc[main] /\ mailbox_size'[main] = 0
  BY <1>0, <1>2, <1>3, MainIsPid DEF SameBox, SameProgram
<1>5. I' = I /\ Told' = Told /\ KidsFrom(1)' = KidsFrom(1)
  BY <1>4, KidsSame DEF I, Told
<1>6. FamilyNext(KidsFrom(1))
  BY <1>0, <1>3, FamilyKept
<1>7. \A k \in 1 .. NKids : \A c \in Pids : c = Kid(k) =>
        IF k <= Told THEN NodeOk(c)' /\ ~ HasToken(c)'
        ELSE pc'[c] = "ring_first" /\ mailbox_size'[c] = 0
  <2> TAKE k \in 1 .. NKids
  <2> TAKE c \in Pids
  <2> HAVE c = Kid(k)
  <2>1. CASE k = j
    BY <1>1, <1>3, <2>1
  <2>2. CASE k # j
    <3>1. c # p
      BY <1>0, <1>1, <2>2 DEF KidsApart
    <3>2. SameBox(c) /\ SameProgram(c)
      BY <1>3, <3>1
    <3>3. IF k <= Told THEN NodeOk(c) /\ ~ HasToken(c)
          ELSE pc[c] = "ring_first" /\ mailbox_size[c] = 0
      BY RingSendKid
    <3>4. CASE k <= Told
      BY <1>5, <3>2, <3>3, <3>4, NodeSame
    <3>5. CASE ~ (k <= Told)
      BY <3>2, <3>3, <3>5 DEF SameBox, SameProgram
    <3> QED
      BY <3>4, <3>5
  <2> QED
    BY <2>1, <2>2
<1>8. RingSendInv'
  <2> DEFINE t == Told
  <2>1. /\ t \in Nat /\ Told' = t
        /\ \A k \in 1 .. NKids : \A c \in Pids : c = Kid(k) =>
             IF k <= t THEN NodeOk(c)' /\ ~ HasToken(c)'
             ELSE pc'[c] = "ring_first" /\ mailbox_size'[c] = 0
    BY <1>0, <1>5, <1>7
  <2> HIDE DEF t
  <2> QED
    BY <1>0, <1>3, <1>4, <1>5, <1>6, <2>1, RingSendNext
<1> QED
  BY <1>3, <1>8

-----------------------------------------------------------------------------
(***************************************************************************)
(* The token goes round.                                                   *)
(***************************************************************************)
LEMMA RingNext ==
  ASSUME KidsApart, NKids = RING_SIZE, local'[main].pids = local[main].pids, I' = 0,
         pc'[main] = "ring_receive", FamilyNext(KidsFrom(1)),
         \A q \in Pids \ exists' : Clean(q)',
         \A c \in KidsFrom(1) : NodeOk(c)',
         mailbox_size'[main] \in {0, 1}, mailbox_size'[main] = 1 => IsToken(mailbox'[main][0]),
         NEW h \in exists', \A c \in exists' : HasToken(c)' <=> c = h
  PROVE  RingInv'
<1>1. NKids' = NKids /\ KidsApart' /\ KidsFrom(1)' = KidsFrom(1)
  BY KidsSame
<1>2. \A c \in KidsFrom(1)' : NodeOk(c)'
  BY <1>1
<1>3. \E x \in exists' : \A c \in exists' : HasToken(c)' <=> c = x
  OBVIOUS
<1> QED
  BY <1>1, <1>2, <1>3 DEF RingInv, Family, FamilyNext, IsToken

LEMMA TokenArrives ==
  ASSUME TypeInv, NEW c \in Pids, c # main, NodeOk(c), ~ HasToken(c), NEW m, IsToken(m),
         Delivers(c, m), SameProgram(c), KidsFrom(1)' = KidsFrom(1)
  PROVE  NodeOk(c)' /\ HasToken(c)'
<1>1. CASE pc[c] = "ring_first"
  <2>1. mailbox_size[c] = 1 /\ 0 \in 0 .. (1 - 1) /\ 1 + 1 = 2
    BY <1>1 DEF NodeOk, HasToken
  <2>2. mailbox_size'[c] = 2 /\ mailbox'[c][1] = m /\ mailbox'[c][0] = mailbox[c][0]
    BY <2>1 DEF Delivers
  <2>3. pc'[c] = "ring_first"
    BY <1>1 DEF SameProgram
  <2>4. IsNeighbour(mailbox'[c][0]) /\ mailbox'[c][0].data[1] \in KidsFrom(1)'
    BY <1>1, <2>2 DEF NodeOk
  <2> QED
    BY <2>2, <2>3, <2>4 DEF NodeOk, HasToken, IsToken, IsNeighbour
<1>2. CASE pc[c] = "ring_loop"
  <2>1. mailbox_size[c] = 0 /\ 0 + 1 = 1
    BY <1>2 DEF NodeOk, HasToken
  <2>2. mailbox_size'[c] = 1 /\ mailbox'[c][0] = m
    BY <2>1 DEF Delivers
  <2>3. pc'[c] = "ring_loop" /\ local'[c].next \in KidsFrom(1)'
    BY <1>2 DEF SameProgram, NodeOk
  <2> QED
    BY <2>2, <2>3 DEF NodeOk, HasToken, IsToken
<1> QED
  BY <1>1, <1>2 DEF NodeOk, HasToken

LEMMA NodeRoom ==
  ASSUME TypeInv, NEW c \in exists, NodeOk(c), ~ HasToken(c) \/ pc[c] = "ring_pass"
  PROVE  SendResult(c, IntSize) = "0"
<1>1. mailbox_size[c] < MAILBOX_ALLOC
  BY Bounds DEF NodeOk, HasToken
<1> QED
  BY <1>1, Room, Bounds

LEMMA RingStart ==
  ASSUME TypeInv, RingSendInv, test_ring, pc[main] = "ring_start"
  PROVE  Kept /\ RingInv'
<1> DEFINE l == local[main]
           m == Message(main, "TOKEN", IntSize, Number(0))
<1>0. /\ I = 0 /\ RING_SIZE \in Nat /\ NKids = RING_SIZE /\ KidsApart /\ NoTokens
      /\ Family(KidsFrom(1)) /\ mailbox_size[main] = 0 /\ Told = RING_SIZE /\ RING_SIZE >= 1
      /\ IsLocals(l)
  BY Bounds, MainIsPid DEF RingSendInv, Told, TypeInv, ProgramsInv
<1>1. Send(main, ChildAt(0), "TOKEN", IntSize, Number(0), "ring_receive", l)
  BY DEF test_ring, InLoop, EndOfLoop, At
<1>2. PICK c : c = Kid(1)
  OBVIOUS
<1>3. c = ChildAt(0)
  <2>1. 0 + 1 = 1
    OBVIOUS
  <2> QED
    BY <1>2, <2>1 DEF ChildAt, Kid
<1>4. \A d \in KidsFrom(1) : d \in Pids /\ d # main /\ NodeOk(d) /\ ~ HasToken(d)
  <2> TAKE d \in KidsFrom(1)
  <2>1. PICK k \in 1 .. NKids : d = Kid(k)
    BY DEF KidsFrom
  <2>2. k <= Told
    BY <1>0
  <2> QED
    BY <2>1, <2>2, RingSendKid
<1>5. c \in KidsFrom(1) /\ c \in exists
  <2>1. 1 \in 1 .. NKids
    BY <1>0
  <2>2. c \in KidsFrom(1)
    BY <1>2, <2>1 DEF KidsFrom
  <2> QED
    BY <1>0, <2>2 DEF Family
<1>6. SendResult(c, IntSize) = "0"
  BY <1>4, <1>5, NodeRoom
<1>7. Kept /\ Moves(main, "ring_receive", l) /\ Delivers(c, m)
  BY <1>0, <1>1, <1>3, <1>6, SendIs, MainIsPid
<1>8. IsToken(m)
  BY DEF Message, IsToken
<1> HIDE DEF m
<1>9. /\ local'[main] = l /\ pc'[main] = "ring_receive" /\ I' = 0
      /\ mailbox_size'[main] = 0 /\ FamilyNext(KidsFrom(1)) /\ exists' = exists
  BY <1>0, <1>4, <1>5, <1>7, FamilyKept, MainIsPid DEF Moves, I, Delivers, SameBox
<1>10. KidsFrom(1)' = KidsFrom(1)
  BY <1>9, KidsSame
<1>11. NodeOk(c)' /\ HasToken(c)'
  <2>1. c \in Pids /\ c # main /\ NodeOk(c) /\ ~ HasToken(c)
    BY <1>4, <1>5
  <2>2. SameProgram(c)
    BY <1>7, <2>1 DEF Moves
  <2> QED
    BY <1>7, <1>8, <1>10, <2>1, <2>2, TokenArrives
<1>12. \A d \in KidsFrom(1) : d # c => NodeOk(d)' /\ ~ HasToken(d)'
  <2> TAKE d \in KidsFrom(1)
  <2> HAVE d # c
  <2>1. SameBox(d) /\ SameProgram(d) /\ NodeOk(d) /\ ~ HasToken(d)
    BY <1>4, <1>7 DEF Moves, Delivers
  <2> QED
    BY <1>10, <2>1, NodeSame
<1>13. ~ HasToken(main)'
  BY <1>9 DEF HasToken
<1>14. exists' = {main} \cup KidsFrom(1)
  BY <1>9 DEF FamilyNext
<1>15. \A d \in exists' : HasToken(d)' <=> d = c
  <2> TAKE d \in exists'
  <2>1. CASE d = main
    <3>1. c # main
      BY <1>4, <1>5
    <3> QED
      BY <1>13, <2>1, <3>1
  <2>2. CASE d # main
    BY <1>11, <1>12, <1>14, <2>2
  <2> QED
    BY <2>1, <2>2
<1>16. \A q \in Pids \ exists' : Clean(q)'
  <2> TAKE q \in Pids \ exists'
  <2>1. q # c /\ q # main
    BY <1>5, <1>14
  <2>2. SameBox(q) /\ SameProgram(q) /\ Clean(q)
    BY <1>0, <1>7, <2>1 DEF Moves, Delivers, NoTokens
  <2>3. pc'[q] # "ring_pass"
    BY <2>2 DEF SameProgram, Clean
  <2> QED
    BY <2>2, <2>3, CleanSame
<1>17. RingInv'
  <2>1. c \in exists' /\ \A d \in KidsFrom(1) : NodeOk(d)'
    BY <1>5, <1>9, <1>11, <1>12
  <2> QED
    BY <1>0, <1>9, <1>15, <1>16, <2>1, RingNext
<1> QED
  BY <1>7, <1>17

(* A step of the ring that leaves the processes as they are.               *)
LEMMA RingClean ==
  ASSUME NEW q \in Pids, Clean(q), SameBox(q), SameProgram(q)
  PROVE  Clean(q)'
BY CleanSame DEF Clean, SameProgram

LEMMA RingRead ==
  ASSUME TypeInv, RingInv, NEW p \in Pids, Ring(p), pc[p] # "ring_pass"
  PROVE  Kept /\ RingInv'
<1>0. /\ KidsApart /\ NKids = RING_SIZE /\ I = 0 /\ Family(KidsFrom(1))
      /\ pc[main] = "ring_receive" /\ (\A q \in Pids \ exists : Clean(q))
      /\ (\A c \in KidsFrom(1) : NodeOk(c))
      /\ mailbox_size[main] \in {0, 1} /\ (mailbox_size[main] = 1 => IsToken(mailbox[main][0]))
  BY DEF RingInv
<1>1. PICK h \in exists : \A c \in exists : HasToken(c) <=> c = h
  BY DEF RingInv
<1>2. p \in KidsFrom(1) /\ p # main /\ p \in exists
  BY <1>0, ChildGuards DEF ChildStep, Family
<1>3. NodeMoves(p)
  BY <1>0, <1>2, NodeStep
<1>4. /\ local'[main] = local[main] /\ pc'[main] = "ring_receive" /\ SameBox(main)
      /\ FamilyNext(KidsFrom(1)) /\ exists' = exists /\ I' = 0
  BY <1>0, <1>2, <1>3, FamilyKept, MainIsPid DEF NodeMoves, SameProgram, I
<1>5. KidsFrom(1)' = KidsFrom(1)
  BY <1>4, KidsSame
<1>6. \A c \in KidsFrom(1) : NodeOk(c)' /\ (HasToken(c)' <=> HasToken(c))
  <2> TAKE c \in KidsFrom(1)
  <2>1. CASE c = p
    BY <1>3, <2>1 DEF NodeMoves
  <2>2. CASE c # p
    <3>1. SameBox(c) /\ SameProgram(c) /\ NodeOk(c)
      BY <1>0, <1>3, <2>2, KidsArePids DEF NodeMoves
    <3> QED
      BY <1>5, <3>1, NodeSame
  <2> QED
    BY <2>1, <2>2
<1>7. HasToken(main)' <=> HasToken(main)
  BY <1>0, <1>4 DEF HasToken, SameBox
<1>8. \A c \in exists' : HasToken(c)' <=> c = h
  BY <1>0, <1>1, <1>4, <1>6, <1>7 DEF Family
<1>9. \A q \in Pids \ exists' : Clean(q)'
  <2> TAKE q \in Pids \ exists'
  <2>1. q # p /\ Clean(q)
    BY <1>0, <1>2, <1>4
  <2> QED
    BY <1>3, <2>1, RingClean DEF NodeMoves
<1>10. mailbox_size'[main] \in {0, 1} /\ (mailbox_size'[main] = 1 => IsToken(mailbox'[main][0]))
  BY <1>0, <1>4 DEF SameBox
<1>11. RingInv'
  BY <1>0, <1>1, <1>4, <1>6, <1>8, <1>9, <1>10, RingNext
<1> QED
  BY <1>3, <1>11 DEF NodeMoves

LEMMA RingPasses ==
  ASSUME TypeInv, RingInv, NEW p \in Pids, Ring(p), pc[p] = "ring_pass"
  PROVE  Kept /\ RingInv'
<1> DEFINE m == Message(p, "TOKEN", IntSize, Number(local[p].token))
<1>0. /\ KidsApart /\ NKids = RING_SIZE /\ I = 0 /\ Family(KidsFrom(1))
      /\ pc[main] = "ring_receive" /\ (\A q \in Pids \ exists : Clean(q))
      /\ (\A c \in KidsFrom(1) : NodeOk(c)) /\ mailbox_size[main] \in {0, 1}
      /\ IsLocals(local[p])
  BY DEF RingInv, TypeInv, ProgramsInv
<1>1. p \in KidsFrom(1) /\ p # main /\ p \in exists /\ main \in exists
  BY <1>0, ChildGuards DEF ChildStep, Family
<1>2. \A c \in exists : HasToken(c) <=> c = p
  <2>1. HasToken(p)
    BY DEF HasToken
  <2> QED
    BY <1>1, <2>1 DEF RingInv
<1>3. mailbox_size[main] = 0 /\ mailbox_size[p] = 0 /\ local[p].next \in KidsFrom(1)
  <2>1. ~ HasToken(main)
    BY <1>1, <1>2
  <2> QED
    BY <1>0, <1>1, <2>1 DEF HasToken, NodeOk
<1>4. \A c \in KidsFrom(1) : c \in Pids /\ c # main /\ c \in exists /\ NodeOk(c)
  BY <1>0, KidsArePids DEF Family
<1>5. PICK to \in {main, local[p].next} :
        Kept /\ Delivers(to, m) /\ Moves(p, "ring_loop", local[p])
  <2>1. CASE local[p].token < RING_MAX_PASSES
    <3>1. TrySend(p, local[p].next, "TOKEN", IntSize, Number(local[p].token), "ring_loop", local[p])
      BY <2>1 DEF Ring, RingPass, At
    <3>2. SendResult(local[p].next, IntSize) = "0"
      BY <1>2, <1>3, <1>4, NodeRoom
    <3> QED
      BY <1>0, <3>1, <3>2, TrySendIs
  <2>2. CASE ~ (local[p].token < RING_MAX_PASSES)
    <3>1. Send(p, main, "TOKEN", IntSize, Number(local[p].token), "ring_loop", local[p])
      BY <2>2 DEF Ring, RingPass, At
    <3>2. SendResult(main, IntSize) = "0"
      BY <1>1, <1>3, Room, Bounds
    <3> QED
      BY <1>0, <3>1, <3>2, SendIs
  <2> QED
    BY <2>1, <2>2
<1>6. IsToken(m)
  BY DEF Message, IsToken
<1> HIDE DEF m
<1>7. /\ local'[main] = local[main] /\ pc'[main] = "ring_receive" /\ I' = 0
      /\ FamilyNext(KidsFrom(1)) /\ exists' = exists
      /\ pc'[p] = "ring_loop" /\ local'[p] = local[p]
  BY <1>0, <1>1, <1>5, FamilyKept, MainIsPid DEF Moves, SameProgram, I, Delivers
<1>8. KidsFrom(1)' = KidsFrom(1)
  BY <1>7, KidsSame
<1>9. to \in exists /\ to \in {main} \cup KidsFrom(1)
  BY <1>1, <1>3, <1>4, <1>5
<1>10. /\ to = main => mailbox_size'[main] = 1 /\ mailbox'[main][0] = m
       /\ to # main => mailbox_size'[main] = 0
  BY <1>3, <1>5, MainIsPid DEF Delivers, SameBox
<1>11. HasToken(main)' <=> main = to
  BY <1>7, <1>10 DEF HasToken
<1>12. NodeOk(p)' /\ (HasToken(p)' <=> p = to)
  <2>1. CASE to = p
    <3>1. mailbox_size'[p] = 1 /\ mailbox'[p][0] = m
      BY <1>3, <1>5, <2>1 DEF Delivers
    <3> QED
      BY <1>3, <1>6, <1>7, <1>8, <2>1, <3>1 DEF NodeOk, HasToken, IsToken
  <2>2. CASE to # p
    <3>1. mailbox_size'[p] = 0
      BY <1>3, <1>5, <2>2 DEF Delivers, SameBox
    <3> QED
      BY <1>1, <1>3, <1>7, <1>8, <2>2, <3>1 DEF NodeOk, HasToken
  <2> QED
    BY <2>1, <2>2
<1>13. \A c \in KidsFrom(1) : NodeOk(c)' /\ (HasToken(c)' <=> c = to)
  <2> TAKE c \in KidsFrom(1)
  <2>0. c \in Pids /\ c # main /\ c \in exists /\ NodeOk(c)
    BY <1>4
  <2>1. CASE c = p
    BY <1>12, <2>1
  <2>2. CASE c # p /\ c = to
    <3>1. ~ HasToken(c) /\ SameProgram(c)
      BY <1>2, <1>5, <2>0, <2>2 DEF Moves
    <3> QED
      BY <1>5, <1>6, <1>8, <2>0, <2>2, <3>1, TokenArrives
  <2>3. CASE c # p /\ c # to
    <3>1. ~ HasToken(c) /\ SameProgram(c) /\ SameBox(c)
      BY <1>2, <1>5, <2>0, <2>3 DEF Moves, Delivers
    <3> QED
      BY <1>8, <2>0, <2>3, <3>1, NodeSame
  <2> QED
    BY <2>1, <2>2, <2>3
<1>14. \A c \in exists' : HasToken(c)' <=> c = to
  BY <1>7, <1>11, <1>13 DEF FamilyNext
<1>15. \A q \in Pids \ exists' : Clean(q)'
  <2> TAKE q \in Pids \ exists'
  <2>1. q # p /\ q # to /\ Clean(q)
    BY <1>0, <1>1, <1>7, <1>9
  <2>2. SameBox(q) /\ SameProgram(q)
    BY <1>5, <2>1 DEF Moves, Delivers
  <2> QED
    BY <2>1, <2>2, RingClean
<1>16. mailbox_size'[main] \in {0, 1} /\ (mailbox_size'[main] = 1 => IsToken(mailbox'[main][0]))
  BY <1>6, <1>10
<1>17. RingInv'
  <2>1. to \in exists' /\ \A d \in KidsFrom(1) : NodeOk(d)'
    BY <1>7, <1>9, <1>13
  <2> QED
    BY <1>0, <1>7, <1>14, <1>15, <1>16, <2>1, RingNext
<1> QED
  BY <1>5, <1>17

-----------------------------------------------------------------------------
(* main gets the token back: it is nowhere else.                           *)
LEMMA RingEndNext ==
  ASSUME TypeInv, KidsApart, NKids = RING_SIZE, local'[main].pids = local[main].pids,
         pc'[main] \in {"ring_kill", "ring_wait"}, NoTokens', mailbox_size'[main] = 0,
         NEW n \in Nat, I' = n, n <= RING_SIZE, pc'[main] = "ring_wait" => n < RING_SIZE,
         FamilyNext(KidsFrom(n + 1)),
         \A c \in KidsFrom(n + 1) : NodeOk(c)' /\ ~ HasToken(c)'
  PROVE  RingEndInv'
<1>1. NKids' = NKids /\ KidsApart' /\ \A j : KidsFrom(j)' = KidsFrom(j)
  BY KidsSame
<1>2. KidsFrom(I + 1)' = KidsFrom(n + 1)
  BY <1>1 DEF KidsFrom
<1> QED
  BY <1>1, <1>2 DEF RingEndInv, Family, FamilyNext

LEMMA RingBack ==
  ASSUME TypeInv, RingInv, test_ring
  PROVE  Kept /\ (RingInv' \/ RingEndInv')
<1> DEFINE m == mailbox[main][0]
           v == m.data[1]
           l == [local[main] EXCEPT !.token = v]
<1>0. /\ KidsApart /\ NKids = RING_SIZE /\ I = 0 /\ Family(KidsFrom(1))
      /\ pc[main] = "ring_receive" /\ (\A q \in Pids \ exists : Clean(q))
      /\ (\A c \in KidsFrom(1) : NodeOk(c))
      /\ mailbox_size[main] \in {0, 1} /\ (mailbox_size[main] = 1 => IsToken(mailbox[main][0]))
      /\ IsLocals(local[main]) /\ RING_SIZE \in Nat
  BY MainIsPid, Bounds DEF RingInv, TypeInv, ProgramsInv
<1>1. PICK h \in exists : \A c \in exists : HasToken(c) <=> c = h
  BY DEF RingInv
<1>2. \/ ReceiveBlocks(main) /\ Stay
      \/ ReceiveFirst(main) /\ Continue(main, IF IsToken(m) THEN "ring_kill" ELSE "failed", l)
  BY <1>0 DEF test_ring, InLoop, EndOfLoop, At, TryReceive
<1>3. CASE ReceiveBlocks(main) /\ Stay
  <2>1. Kept /\ Quiet /\ \A q \in Pids : SameProgram(q)
    BY <1>3, BlocksIs, MainIsPid DEF QuietCall
  <2>2. /\ local'[main] = local[main] /\ pc'[main] = "ring_receive" /\ SameBox(main)
        /\ FamilyNext(KidsFrom(1)) /\ exists' = exists /\ I' = 0
    BY <1>0, <2>1, FamilyKept, MainIsPid DEF Quiet, SameProgram, SameBox, I
  <2>3. KidsFrom(1)' = KidsFrom(1)
    BY <2>2, KidsSame
  <2>4. \A c \in KidsFrom(1) : NodeOk(c)' /\ (HasToken(c)' <=> HasToken(c))
    BY <1>0, <2>1, <2>3, NodeSame, KidsArePids DEF Quiet, SameBox
  <2>5. HasToken(main)' <=> HasToken(main)
    BY <1>0, <2>2 DEF HasToken, SameBox
  <2>6. \A c \in exists' : HasToken(c)' <=> c = h
    BY <1>0, <1>1, <2>2, <2>4, <2>5 DEF Family
  <2>7. \A q \in Pids \ exists' : Clean(q)'
    BY <1>0, <2>1, <2>2, RingClean DEF Quiet, SameBox
  <2>8. mailbox_size'[main] \in {0, 1} /\ (mailbox_size'[main] = 1 => IsToken(mailbox'[main][0]))
    BY <1>0, <2>2 DEF SameBox
  <2>9. RingInv'
    BY <1>0, <1>1, <2>2, <2>4, <2>6, <2>7, <2>8, RingNext
  <2> QED
    BY <2>1, <2>9
<1>4. CASE ReceiveFirst(main) /\ ~ (ReceiveBlocks(main) /\ Stay)
  <2>1. mailbox_size[main] = 1 /\ IsToken(m)
    BY <1>0, <1>4 DEF ReceiveFirst
  <2>2. Continue(main, "ring_kill", l)
    BY <1>2, <1>4, <2>1
  <2> HIDE DEF v
  <2>3. IsLocals(l) /\ l.i = local[main].i /\ l.pids = local[main].pids
    BY <1>0, SetToken
  <2> HIDE DEF l
  <2>4. Kept /\ Takes(main) /\ Moves(main, "ring_kill", l)
    BY <1>4, <2>2, <2>3, ReceiveIs, MainIsPid
  <2>5. /\ local'[main].pids = local[main].pids /\ I' = 0 /\ pc'[main] = "ring_kill"
        /\ mailbox_size'[main] = 0 /\ FamilyNext(KidsFrom(1)) /\ exists' = exists
    BY <1>0, <2>1, <2>3, <2>4, FamilyKept DEF Moves, I, Takes
  <2>6. KidsFrom(1)' = KidsFrom(1)
    BY <2>5, KidsSame
  <2>7. h = main
    <3>1. HasToken(main) /\ main \in exists
      BY <1>0, <2>1 DEF HasToken, Family
    <3> QED
      BY <1>1, <3>1
  <2>8. \A c \in KidsFrom(1) : c \in Pids /\ c # main /\ NodeOk(c)' /\ ~ HasToken(c)'
    <3> TAKE c \in KidsFrom(1)
    <3>1. c \in Pids /\ c # main /\ c \in exists /\ NodeOk(c)
      BY <1>0, KidsArePids DEF Family
    <3>2. ~ HasToken(c)
      BY <1>1, <2>7, <3>1
    <3>3. SameBox(c) /\ SameProgram(c)
      BY <2>4, <3>1 DEF Takes, Moves
    <3> QED
      BY <2>6, <3>1, <3>2, <3>3, NodeSame
  <2>9. NoTokens'
    <3> SUFFICES ASSUME NEW q \in Pids PROVE Clean(q)'
      BY DEF NoTokens
    <3>1. CASE q = main
      <4>1. \A k \in 0 .. (0 - 1) : FALSE
        OBVIOUS
      <4> QED
        BY <2>5, <3>1, <4>1 DEF Clean
    <3>2. CASE q \in KidsFrom(1)
      BY <2>8, <3>2, NodeClean
    <3>3. CASE q # main /\ q \notin KidsFrom(1)
      <4>1. q \notin exists /\ Clean(q)
        BY <1>0, <3>3 DEF Family
      <4>2. SameBox(q) /\ SameProgram(q)
        BY <2>4, <3>3 DEF Takes, Moves
      <4> QED
        BY <4>1, <4>2, RingClean
    <3> QED
      BY <3>1, <3>2, <3>3
  <2>10. RingEndInv'
    <3>1. PICK n \in Nat : n = 0
      OBVIOUS
    <3>2. n + 1 = 1 /\ n <= RING_SIZE
      BY <1>0, <3>1
    <3>3. FamilyNext(KidsFrom(n + 1)) /\ \A c \in KidsFrom(n + 1) : NodeOk(c)' /\ ~ HasToken(c)'
      BY <2>5, <2>8, <3>2
    <3> QED
      BY <1>0, <2>5, <2>9, <3>1, <3>2, <3>3, RingEndNext
  <2> QED
    BY <2>4, <2>10
<1> QED
  BY <1>2, <1>3, <1>4

(* main kills the processes of the ring and waits for them, one by one.    *)
LEMMA RingEndStep ==
  ASSUME TypeInv, RingEndInv, test_ring
  PROVE  Kept /\ (RingEndInv' \/ Alone')
<1> DEFINE c == Kid(I + 1)
           S == KidsFrom(I + 1)
           Ready(T) == \A k \in T : NodeOk(k)' /\ ~ HasToken(k)'
<1>0. /\ I \in Nat /\ RING_SIZE \in Nat /\ I <= RING_SIZE /\ KidsApart /\ NoTokens
      /\ NKids = RING_SIZE /\ Family(S) /\ mailbox_size[main] = 0
      /\ pc[main] \in {"ring_kill", "ring_wait"} /\ (pc[main] = "ring_wait" => I < RING_SIZE)
      /\ \A k \in S : NodeOk(k) /\ ~ HasToken(k)
  BY KidType, Bounds DEF RingEndInv
<1>1. S \subseteq Pids /\ main \notin S
  BY <1>0, KidsFromSub
<1>2. CASE I < RING_SIZE
  <2>1. S \ {c} = KidsFrom(I + 2) /\ c \in S /\ c \in Pids /\ c # main
    BY <1>0, <1>2, NextKid
  <2>2. IsLocals(Count(main)) /\ Count(main).i = I + 1 /\ Count(main).pids = local[main].pids
    BY CountIs, MainIsPid DEF TypeInv, I
  <2>3. ~ (I >= RING_SIZE)
    BY <1>0, <1>2
  <2>4. \/ pc[main] = "ring_kill" /\ TryKill(main, c, "ring_wait")
        \/ pc[main] = "ring_wait" /\ TryWaitpid(main, c, "ring_kill", Count(main))
    BY <1>0, <2>3 DEF test_ring, InLoop, EndOfLoop, At, I, ChildAt, Kid
  <2>5. c \in exists /\ parent_pid[c] = main
    BY <1>0, <2>1 DEF Family
  <2>6. ASSUME UNCHANGED <<mailbox, mailbox_size>>, local'[main].pids = local[main].pids,
               \A q \in Pids : q # main => SameProgram(q)
        PROVE  Ready(S)
    <3>1. KidsFrom(1)' = KidsFrom(1)
      BY <2>6, KidsSame
    <3> TAKE k \in S
    <3>2. SameBox(k) /\ SameProgram(k) /\ NodeOk(k) /\ ~ HasToken(k)
      BY <1>0, <1>1, <2>6 DEF SameBox
    <3> QED
      BY <3>1, <3>2, NodeSame
  <2> HIDE DEF c
  <2>7. CASE TryKill(main, c, "ring_wait")
    <3>1. kill_process(c) /\ Goto(main, "ring_wait")
      BY <2>5, <2>7 DEF TryKill
    <3>2. Moves(main, "ring_wait", local[main]) /\ ProgramsInv'
      BY <3>1, GotoIs, MainIsPid DEF TypeInv
    <3> HIDE DEF S
    <3>3. /\ FamilyNext(S) /\ UNCHANGED <<mailbox, mailbox_size, msg>> /\ ParentsInv'
      BY <1>0, <1>1, <2>1, <3>1, FamilyKill
    <3>4. NoTokens' /\ mailbox_size'[main] = 0
      BY <1>0, <3>2, <3>3, NoTokensKept
    <3>5. local'[main] = local[main] /\ pc'[main] = "ring_wait" /\ I' = I
      BY <3>2 DEF Moves, I
    <3>6. Ready(S)
      BY <2>6, <3>2, <3>3, <3>5 DEF Moves
    <3>7. RingEndInv'
      <4>1. PICK n \in Nat : n = I
        BY <1>0
      <4>2. n <= RING_SIZE /\ n < RING_SIZE /\ I' = n /\ S = KidsFrom(n + 1)
        BY <1>0, <1>2, <3>5, <4>1 DEF S
      <4>3. FamilyNext(KidsFrom(n + 1)) /\ Ready(KidsFrom(n + 1))
        BY <3>3, <3>6, <4>2
      <4> QED
        BY <1>0, <3>4, <3>5, <4>2, <4>3, RingEndNext
    <3> QED
      BY <3>2, <3>3, <3>7 DEF Kept
  <2>8. CASE pc[main] = "ring_wait" /\ TryWaitpid(main, c, "ring_kill", Count(main))
    <3>1. /\ Kept /\ UNCHANGED <<exited, parent_pid, mailbox, mailbox_size, msg>>
          /\ \/ Quiet /\ \A q \in Pids : SameProgram(q)
             \/ exists' = exists \ {c} /\ Moves(main, "ring_kill", Count(main))
      BY <2>8, <2>2, <2>5, WaitpidIs, MainIsPid
    <3>2. NoTokens' /\ mailbox_size'[main] = 0
      BY <1>0, <3>1, NoTokensKept
    <3>3. local'[main].pids = local[main].pids /\ \A q \in Pids : q # main => SameProgram(q)
      BY <2>2, <3>1, MainIsPid DEF Moves, SameProgram
    <3>4. Ready(S)
      BY <2>6, <3>1, <3>3
    <3>5. CASE Quiet /\ \A q \in Pids : SameProgram(q)
      <4>1. PICK n \in Nat : n = I
        BY <1>0
      <4>2. /\ n <= RING_SIZE /\ n < RING_SIZE /\ I' = n /\ S = KidsFrom(n + 1)
            /\ pc'[main] = "ring_wait"
        BY <1>0, <1>2, <2>8, <3>5, <4>1, MainIsPid DEF SameProgram, I
      <4> HIDE DEF S
      <4>3. FamilyNext(S)
        BY <1>0, <3>5, FamilyKept DEF Quiet
      <4>4. FamilyNext(KidsFrom(n + 1)) /\ Ready(KidsFrom(n + 1))
        BY <3>4, <4>2, <4>3
      <4>5. RingEndInv'
        BY <1>0, <3>2, <3>3, <4>2, <4>4, RingEndNext
      <4> QED
        BY <3>1, <4>5
    <3>6. CASE exists' = exists \ {c} /\ Moves(main, "ring_kill", Count(main))
      <4>1. PICK n \in Nat : n = I + 1
        BY <1>0
      <4>2. n <= RING_SIZE /\ n + 1 = I + 2
        BY <1>0, <1>2, <4>1
      <4>3. I' = n /\ S \ {c} = KidsFrom(n + 1) /\ pc'[main] = "ring_kill"
        BY <2>1, <2>2, <3>6, <4>1, <4>2 DEF Moves, I
      <4> HIDE DEF S
      <4>4. FamilyNext(S \ {c})
        BY <1>0, <2>1, <3>1, <3>6, FamilyReap
      <4>5. FamilyNext(KidsFrom(n + 1)) /\ Ready(KidsFrom(n + 1))
        BY <3>4, <4>3, <4>4
      <4>6. RingEndInv'
        BY <1>0, <3>2, <3>3, <4>2, <4>3, <4>5, RingEndNext
      <4> QED
        BY <3>1, <4>6
    <3> QED
      BY <3>1, <3>5, <3>6
  <2> QED
    BY <2>4, <2>7, <2>8
<1>3. CASE ~ (I < RING_SIZE)
  <2>1. EndOfLoop("ring_kill", RING_SIZE, "menu")
    BY <1>0, <1>3 DEF test_ring, InLoop, EndOfLoop, At, I
  <2>2. Kept /\ Quiet /\ Moves(main, "menu", Reset(main))
    BY <2>1, EndOfLoopIs
  <2>3. S = {}
    <3>1. \A k \in (I + 1) .. NKids : FALSE
      BY <1>0, <1>3
    <3> QED
      BY <3>1 DEF KidsFrom
  <2>4. NoTokens' /\ mailbox_size'[main] = 0
    BY <1>0, <2>2, NoTokensKept DEF Quiet
  <2>5. FamilyNext({})
    BY <1>0, <2>2, <2>3, FamilyKept DEF Quiet
  <2> QED
    BY <2>2, <2>4, <2>5, AloneNext DEF Moves
<1> QED
  BY <1>2, <1>3

LEMMA RingEndChild ==
  ASSUME TypeInv, RingEndInv, NEW p \in Pids, Ring(p)
  PROVE  Kept /\ RingEndInv'
<1> DEFINE S == KidsFrom(I + 1)
<1>0. /\ I \in Nat /\ RING_SIZE \in Nat /\ I <= RING_SIZE /\ KidsApart /\ NoTokens
      /\ NKids = RING_SIZE /\ Family(S) /\ mailbox_size[main] = 0
      /\ pc[main] \in {"ring_kill", "ring_wait"} /\ (pc[main] = "ring_wait" => I < RING_SIZE)
      /\ \A k \in S : NodeOk(k) /\ ~ HasToken(k)
  BY KidType, Bounds DEF RingEndInv
<1>1. p \in S /\ S \subseteq Pids /\ main \notin S
  BY <1>0, ChildGuards, KidsFromSub DEF ChildStep, Family
<1>2. p # main /\ NodeOk(p) /\ ~ HasToken(p) /\ pc[p] # "ring_pass"
  BY <1>0, <1>1 DEF HasToken
<1>3. NodeMoves(p)
  BY <1>2, NodeStep
<1>4. NoTokens'
  BY <1>0, <1>2, <1>3, NodeQuiet
<1>5. /\ local'[main] = local[main] /\ pc'[main] = pc[main] /\ mailbox_size'[main] = 0 /\ I' = I
      /\ Kept
  BY <1>0, <1>2, <1>3, MainIsPid DEF NodeMoves, SameProgram, SameBox, I
<1>6. FamilyNext(S)
  <2> HIDE DEF S
  <2> QED
    BY <1>0, <1>3, FamilyKept DEF NodeMoves
<1>7. \A k \in S : NodeOk(k)' /\ ~ HasToken(k)'
  <2>1. KidsFrom(1)' = KidsFrom(1)
    BY <1>5, KidsSame
  <2> TAKE k \in S
  <2>2. CASE k = p
    BY <1>2, <1>3, <2>2 DEF NodeMoves
  <2>3. CASE k # p
    <3>1. SameBox(k) /\ SameProgram(k) /\ NodeOk(k) /\ ~ HasToken(k)
      BY <1>0, <1>1, <1>3, <2>3 DEF NodeMoves
    <3> QED
      BY <2>1, <3>1, NodeSame
  <2> QED
    BY <2>2, <2>3
<1>8. RingEndInv'
  <2>1. PICK n \in Nat : n = I
    BY <1>0
  <2>2. /\ I' = n /\ n <= RING_SIZE /\ S = KidsFrom(n + 1)
        /\ (pc'[main] = "ring_wait" => n < RING_SIZE)
    BY <1>0, <1>5, <2>1
  <2>3. FamilyNext(KidsFrom(n + 1)) /\ \A k \in KidsFrom(n + 1) : NodeOk(k)' /\ ~ HasToken(k)'
    BY <1>6, <1>7, <2>2
  <2> QED
    BY <1>0, <1>4, <1>5, <2>2, <2>3, RingEndNext
<1> QED
  BY <1>5, <1>8

-----------------------------------------------------------------------------
(***************************************************************************)
(* The phases together: which steps a phase allows, by the labels.         *)
(***************************************************************************)
LEMMA MainPicks ==
  ASSUME MainStep
  PROVE  /\ pc[main] = "menu" => Menu
         /\ pc[main] \in SimpleLabels => SimpleParent
         /\ pc[main] \in AdvancedLabels => Advanced
         /\ pc[main] \in MultipleLabels => Multiple
         /\ pc[main] \in PingPongLabels => test_ping_pong
         /\ pc[main] \in BroadcastLabels => test_broadcast
         /\ pc[main] \in RingLabels => test_ring
         /\ pc[main] = "errors" => test_error_handling
         /\ pc[main] # "exit"
BY MainGuards DEF MainStep, SimpleLabels, AdvancedLabels, MultipleLabels, PingPongLabels,
   BroadcastLabels, RingLabels

LEMMA ChildPicks ==
  ASSUME NEW p, ChildStep(p)
  PROVE  /\ p \in exists /\ p \notin exited
         /\ pc[p] \in {"nb_child", "b_child"} => SimpleChild(p)
         /\ pc[p] \in {"ping", "ping_receive"} => Ping(p)
         /\ pc[p] \in {"pong", "pong_send"} => Pong(p)
         /\ pc[p] \in {"slave", "slave_send"} => slave(p)
         /\ pc[p] \in {"ring_first", "ring_loop", "ring_pass"} => Ring(p)
         /\ pc[p] = "exit" => Exit(p)
         /\ pc[p] \in {"nb_child", "b_child", "ping", "ping_receive", "pong", "pong_send",
                       "slave", "slave_send", "ring_first", "ring_loop", "ring_pass", "exit"}
<1>1. /\ SimpleChild(p) => pc[p] \in {"nb_child", "b_child"}
      /\ Ping(p) => pc[p] \in {"ping", "ping_receive"}
      /\ Pong(p) => pc[p] \in {"pong", "pong_send"}
      /\ slave(p) => pc[p] \in {"slave", "slave_send"}
      /\ Ring(p) => pc[p] \in {"ring_first", "ring_loop", "ring_pass"}
      /\ Exit(p) => pc[p] = "exit"
      /\ p \in exists /\ p \notin exited
  BY ChildGuards
<1> QED
  BY <1>1 DEF ChildStep

LEMMA AloneMain ==
  ASSUME TypeInv, Alone \/ AdvancedInv, MainStep
  PROVE  Kept /\ Phases'
<1>1. CASE AdvancedInv \/ pc[main] \in AdvancedLabels
  <2>1. Advanced
    BY <1>1, MainPicks DEF AdvancedInv, AdvancedLabels
  <2> QED
    BY <2>1, AdvancedStep DEF Phases
<1>2. CASE Alone /\ pc[main] \notin AdvancedLabels
  <2>1. pc[main] \in AloneLabels \ AdvancedLabels
    BY <1>2 DEF Alone
  <2>2. CASE pc[main] = "menu"
    BY <1>2, <2>2, MainPicks, MenuStep DEF Phases
  <2>3. CASE pc[main] \in {"nb_fork", "b_fork"}
    <3>1. SimpleParent
      BY <2>3, MainPicks DEF SimpleLabels
    <3> QED
      BY <1>2, <3>1, SimpleFork DEF Phases
  <2>4. CASE pc[main] = "pong_fork"
    <3>1. test_ping_pong
      BY <2>4, MainPicks DEF PingPongLabels
    <3> QED
      BY <1>2, <3>1, PongFork DEF Phases
  <2>5. CASE pc[main] = "errors"
    BY <1>2, <2>5, MainPicks, ErrorsStep DEF Phases
  <2>6. CASE pc[main] = "exit"
    BY <2>6, MainPicks
  <2> QED
    BY <2>1, <2>2, <2>3, <2>4, <2>5, <2>6 DEF AloneLabels, AdvancedLabels
<1> QED
  BY <1>1, <1>2

LEMMA AloneChild ==
  ASSUME TypeInv, Alone \/ AdvancedInv \/ MultipleInv, NEW p \in Pids, ChildStep(p)
  PROVE  Kept /\ Phases'
<1>1. p = main
  BY ChildPicks DEF Alone, AdvancedInv, MultipleInv, Family
<1>2. Alone /\ Exit(main)
  BY <1>1, ChildPicks DEF Alone, AloneLabels, AdvancedInv, MultipleInv
<1> QED
  BY <1>2, LeaveStep DEF Phases

LEMMA MultipleMain ==
  ASSUME TypeInv, MultipleInv, MainStep
  PROVE  Kept /\ Phases'
<1>1. Multiple
  BY MainPicks DEF MultipleInv, MultipleLabels
<1>2. At(main, "multi_send") \/ At(main, "multi_receive")
  BY <1>1 DEF Multiple
<1> QED
  BY <1>1, <1>2, MultipleSend, MultipleReceive DEF Phases

LEMMA SimpleSteps ==
  ASSUME TypeInv, SimpleInv, MainStep \/ \E p \in Pids : ChildStep(p)
  PROVE  Kept /\ Phases'
<1>1. CASE MainStep
  <2>1. SimpleParent
    BY <1>1, MainPicks DEF SimpleInv, SimpleLabels
  <2> QED
    BY <2>1, SimpleStep DEF Phases
<1>2. CASE \E p \in Pids : ChildStep(p)
  <2>1. PICK p \in Pids : ChildStep(p)
    BY <1>2
  <2>2. p # main
    BY <2>1, ChildPicks DEF SimpleInv
  <2>3. p = Kid(1)
    BY <2>1, <2>2, ChildPicks DEF SimpleInv, Family
  <2>4. SimpleChild(p)
    BY <2>1, <2>3, ChildPicks DEF SimpleInv
  <2> QED
    BY <2>4, SimpleChildStep DEF Phases
<1> QED
  BY <1>1, <1>2

LEMMA PingPongSteps ==
  ASSUME TypeInv, PongInv \/ PingPongInv, MainStep \/ \E p \in Pids : ChildStep(p)
  PROVE  Kept /\ Phases'
<1>1. CASE MainStep
  <2>1. test_ping_pong
    BY <1>1, MainPicks DEF PongInv, PingPongInv, PingPongLabels
  <2> QED
    BY <2>1, PingFork, PingPongWait DEF Phases
<1>2. CASE \E p \in Pids : ChildStep(p)
  <2>1. PICK p \in Pids : ChildStep(p)
    BY <1>2
  <2>2. CASE PongInv
    <3>1. p # main
      BY <2>1, <2>2, ChildPicks DEF PongInv
    <3>2. p = Kid(1)
      BY <2>1, <2>2, <3>1, ChildPicks DEF PongInv, Family
    <3>3. Pong(p)
      BY <2>1, <2>2, <3>2, ChildPicks DEF PongInv
    <3> QED
      BY <2>2, <3>3, PongWaits DEF Phases
  <2>3. CASE PingPongInv
    BY <2>1, <2>3, PingPongChild DEF Phases
  <2> QED
    BY <2>2, <2>3
<1> QED
  BY <1>1, <1>2

LEMMA BroadcastMain ==
  ASSUME TypeInv, BroadcastInv \/ BroadcastEndInv, MainStep
  PROVE  Kept /\ Phases'
<1>1. test_broadcast
  BY MainPicks DEF BroadcastInv, BroadcastEndInv, BroadcastLabels
<1>2. CASE BroadcastEndInv
  BY <1>1, <1>2, BroadcastWait DEF Phases
<1>3. CASE BroadcastInv /\ I < NSLAVES
  BY <1>1, <1>3, BroadcastFork, BroadcastSend, BroadcastReceive DEF Phases, BroadcastInv
<1>4. CASE BroadcastInv /\ ~ (I < NSLAVES)
  <2>1. \/ EndOfLoop("bc_fork", NSLAVES, "bc_send")
        \/ EndOfLoop("bc_send", NSLAVES, "bc_receive")
        \/ EndOfLoop("bc_receive", NSLAVES, "bc_wait")
    BY <1>1, <1>4 DEF test_broadcast, InLoop, EndOfLoop, At, I, BroadcastInv
  <2> QED
    BY <1>4, <2>1, BroadcastLoops, BroadcastHeard DEF Phases
<1> QED
  BY <1>2, <1>3, <1>4

LEMMA BroadcastChild ==
  ASSUME TypeInv, BroadcastInv \/ BroadcastEndInv, NEW p \in Pids, ChildStep(p)
  PROVE  Kept /\ Phases'
<1>1. p # main
  BY ChildPicks DEF BroadcastInv, BroadcastEndInv
<1>2. CASE BroadcastInv
  <2>1. SlaveOk(p)
    BY <1>1, <1>2, ChildPicks DEF BroadcastInv, Family
  <2>2. slave(p) \/ Exit(p)
    BY <2>1, ChildPicks DEF SlaveOk
  <2> QED
    BY <1>2, <2>2, BroadcastSlave, BroadcastExit DEF Phases
<1>3. CASE BroadcastEndInv
  <2>1. pc[p] = "exit"
    BY <1>1, <1>3, ChildPicks DEF BroadcastEndInv, Family
  <2>2. Exit(p)
    BY <2>1, ChildPicks
  <2> QED
    BY <1>3, <2>2, BroadcastEndExit DEF Phases
<1> QED
  BY <1>2, <1>3

RingPhases == RingForkInv \/ RingSendInv \/ RingInv \/ RingEndInv

LEMMA RingMain ==
  ASSUME TypeInv, RingPhases, MainStep
  PROVE  Kept /\ Phases'
<1>1. test_ring
  BY MainPicks DEF RingPhases, RingForkInv, RingSendInv, RingInv, RingEndInv, RingLabels
<1>2. CASE RingForkInv
  <2>1. CASE I < RING_SIZE
    BY <1>1, <1>2, <2>1, RingFork DEF Phases
  <2>2. CASE ~ (I < RING_SIZE)
    <3>1. EndOfLoop("ring_fork", RING_SIZE, "ring_send")
      BY <1>1, <1>2, <2>2 DEF test_ring, InLoop, EndOfLoop, At, I, RingForkInv
    <3> QED
      BY <1>2, <3>1, RingForked DEF Phases
  <2> QED
    BY <2>1, <2>2
<1>3. CASE RingSendInv
  <2>1. CASE pc[main] = "ring_start"
    BY <1>1, <1>3, <2>1, RingStart DEF Phases
  <2>2. CASE pc[main] = "ring_send" /\ I < RING_SIZE
    BY <1>1, <1>3, <2>2, RingTell DEF Phases
  <2>3. CASE pc[main] = "ring_send" /\ ~ (I < RING_SIZE)
    <3>1. EndOfLoop("ring_send", RING_SIZE, "ring_start")
      BY <1>1, <2>3 DEF test_ring, InLoop, EndOfLoop, At, I
    <3> QED
      BY <1>3, <3>1, RingTold DEF Phases
  <2> QED
    BY <1>3, <2>1, <2>2, <2>3 DEF RingSendInv
<1>4. CASE RingInv
  BY <1>1, <1>4, RingBack DEF Phases
<1>5. CASE RingEndInv
  BY <1>1, <1>5, RingEndStep DEF Phases
<1> QED
  BY <1>2, <1>3, <1>4, <1>5 DEF RingPhases

(* Wherever the ring is, its processes are at one of the three calls.      *)
LEMMA RingKids ==
  ASSUME TypeInv, RingPhases, NEW p \in exists, p # main
  PROVE  pc[p] \in {"ring_first", "ring_loop", "ring_pass"}
<1>1. CASE RingForkInv
  BY <1>1 DEF RingForkInv, Family
<1>2. CASE RingSendInv
  <2>1. PICK k \in 1 .. NKids : p = Kid(k)
    BY <1>2 DEF RingSendInv, Family, KidsFrom
  <2>2. I \in Nat /\ RING_SIZE \in Nat /\ NKids \in Nat
    BY KidType, Bounds
  <2>3. Told \in Nat
    BY <2>2 DEF Told
  <2>4. k \in 1 .. Told \/ k \in (Told + 1) .. NKids
    BY <2>2, <2>3
  <2> QED
    BY <1>2, <2>1, <2>4 DEF RingSendInv, NodeOk
<1>3. CASE RingInv
  BY <1>3 DEF RingInv, Family, NodeOk
<1>4. CASE RingEndInv
  BY <1>4 DEF RingEndInv, Family, NodeOk
<1> QED
  BY <1>1, <1>2, <1>3, <1>4 DEF RingPhases

LEMMA RingChild ==
  ASSUME TypeInv, RingPhases, NEW p \in Pids, ChildStep(p)
  PROVE  Kept /\ Phases'
<1>1. p \in exists
  BY ChildPicks
<1>2. pc[main] \in RingLabels
  BY DEF RingPhases, RingForkInv, RingSendInv, RingInv, RingEndInv, RingLabels
<1>3. p # main
  BY <1>2, ChildPicks DEF RingLabels
<1>4. Ring(p)
  BY <1>1, <1>3, RingKids, ChildPicks
<1> QED
  BY <1>4, RingForkWait, RingSendChild, RingRead, RingPasses, RingEndChild DEF RingPhases, Phases

-----------------------------------------------------------------------------
LEMMA PhasesInit == Init => TestsInv
<1> SUFFICES ASSUME Init PROVE TestsInv
  OBVIOUS
<1>1. MailboxesInv
  BY MailInit
<1>2. ProgramsInv /\ ParentsInv
  BY NoLocalsIs DEF Init, KernelInit, ProgramsInv, ParentsInv
<1>3. mailbox_size = [p \in Pids |-> 0] /\ pc = [p \in Pids |-> "menu"]
  BY DEF Init, KernelInit
<1>4. \A k \in 0 .. (0 - 1) : FALSE
  OBVIOUS
<1>5. NoTokens
  BY <1>3, <1>4 DEF NoTokens, Clean
<1>6. Family({})
  BY MainIsPid DEF Init, KernelInit, Family, main
<1>7. Alone
  BY <1>3, <1>5, <1>6, MainIsPid DEF Alone, AloneLabels
<1> QED
  BY <1>1, <1>2, <1>7 DEF TestsInv, TypeInv, Phases

(* A step leads from a stage to a stage.                                   *)
LEMMA PhasesNext == TestsInv /\ [Next]_vars => TestsInv'
<1> SUFFICES ASSUME TestsInv, [Next]_vars PROVE TestsInv'
  OBVIOUS
<1>0. TypeInv /\ Phases /\ MailboxesInv'
  BY MailNext DEF TestsInv, TypeInv, MailStep
<1>1. CASE UNCHANGED vars
  <2>1. UNCHANGED <<exists, exited, parent_pid, mailbox, mailbox_size, msg, pc, local>>
    BY <1>1 DEF vars, kernelVars, procVars, mailVars
  <2>2. Kept
    BY <1>0, <2>1 DEF Kept, TypeInv, ProgramsInv, ParentsInv, IsLocals
  <2>3. Phases'
    <3>1. /\ (Alone => Alone') /\ (AdvancedInv => AdvancedInv') /\ (MultipleInv => MultipleInv')
          /\ (SimpleInv => SimpleInv') /\ (PongInv => PongInv')
      BY <2>1 DEF Alone, AdvancedInv, MultipleInv, SimpleInv, PongInv, Family, NoTokens, Clean,
                  KidsApart, Kid, NKids, I
    <3>2. PingPongInv => PingPongInv'
      <4>1. (NoTokens => NoTokens') /\ (KidsApart => KidsApart') /\ NKids' = NKids
            /\ \A k : Kid(k)' = Kid(k)
        BY <2>1 DEF NoTokens, Clean, KidsApart, Kid, NKids
      <4>2. \A c, d : Chat(c, d) => Chat(c, d)'
        BY <2>1 DEF Chat
      <4>3. Kid(1)' = Kid(1) /\ Kid(2)' = Kid(2)
        BY <4>1
      <4>4. Chat(Kid(1), Kid(2)) => Chat(Kid(1), Kid(2))'
        <5>1. PICK c, d : c = Kid(1) /\ d = Kid(2)
          OBVIOUS
        <5>2. Chat(c, d)' <=> Chat(Kid(1), Kid(2))'
          BY <4>3, <5>1 DEF Chat
        <5> QED
          BY <4>2, <5>1, <5>2
      <4> QED
        BY <2>1, <4>1, <4>3, <4>4 DEF PingPongInv, Family
    <3>3. (BroadcastInv => BroadcastInv') /\ (BroadcastEndInv => BroadcastEndInv')
      <4>1. Answered' = Answered
        BY <2>1 DEF Answered, KidsFrom, Kid, NKids
      <4> QED
        BY <2>1, <4>1 DEF BroadcastInv, BroadcastEndInv, Family, NoTokens, Clean, KidsApart,
                          KidsFrom, Kid, NKids, I, SlaveOk
    <3>4. (RingForkInv => RingForkInv') /\ (RingSendInv => RingSendInv')
      BY <2>1 DEF RingForkInv, RingSendInv, Told, Family, NoTokens, Clean, KidsApart,
                  KidsFrom, Kid, NKids, I, NodeOk, HasToken
    <3>5. (RingInv => RingInv') /\ (RingEndInv => RingEndInv')
      <4>1. (NoTokens => NoTokens') /\ (KidsApart => KidsApart') /\ NKids' = NKids /\ I' = I
            /\ (\A j : KidsFrom(j)' = KidsFrom(j)) /\ \A q : Clean(q) => Clean(q)'
        BY <2>1 DEF NoTokens, Clean, KidsApart, KidsFrom, Kid, NKids, I
      <4>2. \A c : (NodeOk(c) => NodeOk(c)') /\ (HasToken(c)' <=> HasToken(c))
        BY <2>1, <4>1 DEF NodeOk, HasToken
      <4>3. KidsFrom(I + 1)' = KidsFrom(I + 1) /\ KidsFrom(1)' = KidsFrom(1)
        BY <4>1 DEF KidsFrom
      <4>4. RingInv => RingInv'
        BY <2>1, <4>1, <4>2, <4>3 DEF RingInv, Family
      <4>5. RingEndInv => RingEndInv'
        BY <2>1, <4>1, <4>2, <4>3 DEF RingEndInv, Family
      <4> QED
        BY <4>4, <4>5
    <3> QED
      BY <1>0, <2>1, <3>1, <3>2, <3>3, <3>4, <3>5 DEF Phases
  <2> QED
    BY <1>0, <2>2, <2>3 DEF TestsInv, TypeInv, Kept
<1>2. CASE Next /\ ~ UNCHANGED vars
  <2>1. MainStep \/ \E p \in Pids : ChildStep(p)
    BY <1>2, NextIs DEF Finished
  <2>2. exists # {}
    BY <2>1, MainRuns, ChildPicks
  <2>3. Alone \/ AdvancedInv \/ MultipleInv => Kept /\ Phases'
    BY <1>0, <2>1, AloneMain, MultipleMain, AloneChild
  <2>4. SimpleInv \/ PongInv \/ PingPongInv => Kept /\ Phases'
    BY <1>0, <2>1, SimpleSteps, PingPongSteps
  <2>5. BroadcastInv \/ BroadcastEndInv => Kept /\ Phases'
    BY <1>0, <2>1, BroadcastMain, BroadcastChild
  <2>6. RingPhases => Kept /\ Phases'
    BY <1>0, <2>1, RingMain, RingChild
  <2>7. Kept /\ Phases'
    BY <1>0, <2>2, <2>3, <2>4, <2>5, <2>6 DEF Phases, RingPhases
  <2> QED
    BY <1>0, <2>7 DEF TestsInv, TypeInv, Kept
<1> QED
  BY <1>1, <1>2

(* The stages and the types together are an invariant of the program.      *)
LEMMA TestsHold == Spec => []TestsInv
<1> QED
  BY PhasesInit, PhasesNext, PTL DEF Spec

-----------------------------------------------------------------------------
(***************************************************************************)
(* What the phases say of the tests.                                       *)
(***************************************************************************)
(* No label of any stage is "failed".                                      *)
LEMMA NobodyFailed == TestsInv => TestsPass
<1> SUFFICES ASSUME TestsInv, NEW p \in exists PROVE pc[p] # "failed"
  BY DEF TestsPass
<1>0. TypeInv /\ Phases
  BY DEF TestsInv
<1>1. CASE Alone \/ AdvancedInv \/ MultipleInv
  BY <1>1 DEF Alone, AloneLabels, AdvancedInv, MultipleInv, Family
<1>2. CASE SimpleInv \/ PongInv
  BY <1>2 DEF SimpleInv, PongInv, Family
<1>3. CASE PingPongInv
  <2>1. p = main \/ p = Kid(1) \/ p = Kid(2)
    BY <1>3 DEF PingPongInv, Family
  <2> QED
    BY <1>3, <2>1 DEF PingPongInv, Chat
<1>4. CASE BroadcastInv \/ BroadcastEndInv
  BY <1>4 DEF BroadcastInv, BroadcastEndInv, Family, SlaveOk
<1>5. CASE RingPhases
  <2>1. CASE p = main
    BY <1>5, <2>1 DEF RingPhases, RingForkInv, RingSendInv, RingInv, RingEndInv
  <2> QED
    BY <1>0, <1>5, <2>1, RingKids
<1> QED
  BY <1>0, <1>1, <1>2, <1>3, <1>4, <1>5 DEF Phases, RingPhases

(* The tokens in the mailbox of a process.                                 *)
Tokens(p) == {k \in Slots : k < mailbox_size[p] /\ mailbox[p][k].tag = "TOKEN"}

LEMMA CleanTokens ==
  ASSUME TypeInv, NEW p \in Pids, Clean(p)
  PROVE  Tokens(p) = {} /\ pc[p] # "ring_pass"
<1>1. mailbox_size[p] \in Nat
  BY SizeType
<1>2. \A k \in Slots : k < mailbox_size[p] => k \in 0 .. (mailbox_size[p] - 1)
  BY <1>1, Bounds DEF Slots
<1> QED
  BY <1>2 DEF Tokens, Clean

(* One process has the token: in its mailbox, or in its hands.             *)
LEMMA NodeTokens ==
  ASSUME TypeInv, NEW p \in Pids, NodeOk(p), p # main
  PROVE  /\ HasToken(p) => \/ pc[p] = "ring_pass" /\ Tokens(p) = {}
                           \/ pc[p] # "ring_pass" /\ \E k \in Slots : Tokens(p) = {k}
         /\ ~ HasToken(p) => pc[p] # "ring_pass" /\ Tokens(p) = {}
<1>1. 0 \in Slots /\ 1 \in Slots
  BY Bounds DEF Slots
<1>2. \A k \in Slots : (k < 2 <=> k = 0 \/ k = 1) /\ (k < 1 <=> k = 0) /\ ~ (k < 0)
  BY Bounds DEF Slots
<1>3. CASE pc[p] = "ring_first"
  <2>1. /\ mailbox[p][0].tag = "NEIGHBOUR" /\ mailbox_size[p] \in {1, 2}
        /\ (mailbox_size[p] = 2 => mailbox[p][1].tag = "TOKEN")
    BY <1>3 DEF NodeOk, IsNeighbour, IsToken
  <2>2. CASE mailbox_size[p] = 2
    <3>1. Tokens(p) = {1}
      BY <1>1, <1>2, <2>1, <2>2 DEF Tokens
    <3> QED
      BY <1>1, <1>3, <2>2, <3>1 DEF HasToken
  <2>3. CASE mailbox_size[p] = 1
    <3>1. Tokens(p) = {}
      BY <1>1, <1>2, <2>1, <2>3 DEF Tokens
    <3> QED
      BY <1>3, <2>3, <3>1 DEF HasToken
  <2> QED
    BY <2>1, <2>2, <2>3
<1>4. CASE pc[p] = "ring_loop"
  <2>1. mailbox_size[p] \in {0, 1} /\ (mailbox_size[p] = 1 => mailbox[p][0].tag = "TOKEN")
    BY <1>4 DEF NodeOk, IsToken
  <2>2. CASE mailbox_size[p] = 1
    <3>1. Tokens(p) = {0}
      BY <1>1, <1>2, <2>1, <2>2 DEF Tokens
    <3> QED
      BY <1>1, <1>4, <2>2, <3>1 DEF HasToken
  <2>3. CASE mailbox_size[p] = 0
    <3>1. Tokens(p) = {}
      BY <1>2, <2>3 DEF Tokens
    <3> QED
      BY <1>4, <2>3, <3>1 DEF HasToken
  <2> QED
    BY <2>1, <2>2, <2>3
<1>5. CASE pc[p] = "ring_pass"
  <2>1. mailbox_size[p] = 0
    BY <1>5 DEF NodeOk
  <2>2. Tokens(p) = {}
    BY <1>2, <2>1 DEF Tokens
  <2> QED
    BY <1>5, <2>2 DEF HasToken
<1> QED
  BY <1>3, <1>4, <1>5 DEF NodeOk

LEMMA MainTokens ==
  ASSUME TypeInv, RingInv
  PROVE  /\ HasToken(main) => \E k \in Slots : Tokens(main) = {k}
         /\ ~ HasToken(main) => Tokens(main) = {}
<1>1. 0 \in Slots /\ \A k \in Slots : (k < 1 <=> k = 0) /\ ~ (k < 0)
  BY Bounds DEF Slots
<1>2. /\ pc[main] = "ring_receive" /\ mailbox_size[main] \in {0, 1}
      /\ (mailbox_size[main] = 1 => mailbox[main][0].tag = "TOKEN")
  BY DEF RingInv, IsToken
<1>3. CASE mailbox_size[main] = 1
  <2>1. Tokens(main) = {0}
    BY <1>1, <1>2, <1>3 DEF Tokens
  <2> QED
    BY <1>1, <1>3, <2>1 DEF HasToken
<1>4. CASE mailbox_size[main] = 0
  <2>1. Tokens(main) = {}
    BY <1>1, <1>4 DEF Tokens
  <2> QED
    BY <1>2, <1>4, <2>1 DEF HasToken
<1> QED
  BY <1>2, <1>3, <1>4

(* In the one stage in which main waits for the token, one process has it. *)
LEMMA TokenCount == TestsInv => OneToken
<1> DEFINE InMailboxes == {e \in Pids \X Slots :
                             e[2] < mailbox_size[e[1]] /\ mailbox[e[1]][e[2]].tag = "TOKEN"}
           Held == {p \in Pids : pc[p] = "ring_pass"}
<1> SUFFICES ASSUME TestsInv, pc[main] = "ring_receive", main \in exists
             PROVE  Cardinality(InMailboxes) + Cardinality(Held) = 1
  BY DEF OneToken
<1>1. TypeInv /\ RingInv
  <2>1. TypeInv /\ Phases
    BY DEF TestsInv
  <2>2. ~ (Alone \/ AdvancedInv \/ MultipleInv \/ SimpleInv \/ PongInv \/ PingPongInv)
    BY DEF Alone, AloneLabels, AdvancedInv, MultipleInv, SimpleInv, PongInv, PingPongInv
  <2>3. ~ (BroadcastInv \/ BroadcastEndInv \/ RingForkInv \/ RingSendInv \/ RingEndInv)
    BY DEF BroadcastInv, BroadcastEndInv, RingForkInv, RingSendInv, RingEndInv
  <2> QED
    BY <2>1, <2>2, <2>3 DEF Phases
<1>2. InMailboxes = {e \in Pids \X Slots : e[2] \in Tokens(e[1])}
  BY DEF Tokens
<1>3. PICK h \in exists : \A c \in exists : HasToken(c) <=> c = h
  BY <1>1 DEF RingInv
<1>4. exists = {main} \cup KidsFrom(1) /\ KidsFrom(1) \subseteq Pids /\ main \notin KidsFrom(1)
  BY <1>1, KidsArePids DEF RingInv, Family
<1>5. \A p \in Pids : p # h => Tokens(p) = {} /\ pc[p] # "ring_pass"
  <2> TAKE p \in Pids
  <2> HAVE p # h
  <2>1. CASE p = main
    BY <1>1, <1>3, <2>1, MainTokens
  <2>2. CASE p \in KidsFrom(1)
    <3>1. NodeOk(p) /\ ~ HasToken(p) /\ p # main
      BY <1>1, <1>3, <1>4, <2>2 DEF RingInv
    <3> QED
      BY <1>1, <3>1, NodeTokens
  <2>3. CASE p \notin exists
    BY <1>1, <2>3, CleanTokens DEF RingInv
  <2> QED
    BY <1>4, <2>1, <2>2, <2>3
<1>6. h \in Pids /\ HasToken(h)
  BY <1>3, <1>4, MainIsPid
<1>7. \/ pc[h] = "ring_pass" /\ Tokens(h) = {}
      \/ pc[h] # "ring_pass" /\ \E k \in Slots : Tokens(h) = {k}
  <2>1. CASE h = main
    BY <1>1, <1>6, <2>1, MainTokens
  <2>2. CASE h # main
    <3>1. NodeOk(h)
      BY <1>1, <1>4, <2>2 DEF RingInv
    <3> QED
      BY <1>1, <1>6, <2>2, <3>1, NodeTokens
  <2> QED
    BY <2>1, <2>2
<1> HIDE DEF InMailboxes
<1>8. Cardinality({}) = 0 /\ \A x : Cardinality({x}) = 1
  BY FS_EmptySet, FS_Singleton
<1>9. CASE pc[h] = "ring_pass" /\ Tokens(h) = {}
  <2>1. InMailboxes = {}
    BY <1>2, <1>5, <1>9
  <2>2. Held = {h}
    BY <1>5, <1>6, <1>9
  <2>3. Cardinality(InMailboxes) = 0 /\ Cardinality(Held) = 1
    BY <1>8, <2>1, <2>2
  <2> HIDE DEF Held
  <2> QED
    BY <2>3
<1>10. CASE pc[h] # "ring_pass" /\ \E k \in Slots : Tokens(h) = {k}
  <2>1. PICK k \in Slots : Tokens(h) = {k}
    BY <1>10
  <2>2. InMailboxes = {<<h, k>>}
    <3>1. \A e \in Pids \X Slots : e[2] \in Tokens(e[1]) <=> e[1] = h /\ e[2] = k
      BY <1>5, <2>1
    <3> QED
      BY <1>2, <1>6, <3>1
  <2>3. Held = {}
    BY <1>5, <1>10
  <2>4. Cardinality(InMailboxes) = 1 /\ Cardinality(Held) = 0
    BY <1>8, <2>2, <2>3
  <2> HIDE DEF Held
  <2> QED
    BY <2>4
<1> QED
  BY <1>7, <1>9, <1>10

(* In every run of the tests, in any order and however their processes are *)
(* interleaved, no try exits, no assert fails and every result is the one  *)
(* the test expects: send finds room, waitpid and kill their process.      *)
THEOREM TestsNeverFail == Spec => []TestsPass
<1> QED
  BY TestsHold, NobodyFailed, PTL

(* From the moment test_ring sends the token off until it has it back, the *)
(* token is in one mailbox or held by one process of the ring; it is never *)
(* lost and never doubled.                                                 *)
THEOREM TokenIsUnique == Spec => []OneToken
<1> QED
  BY TestsHold, TokenCount, PTL
=============================================================================
