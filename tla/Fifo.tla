-------------------------------- MODULE Fifo --------------------------------
(***************************************************************************)
(* What send and receive promise: every process has a bounded first-in     *)
(* first-out channel. A process that exists adds a message, under its own  *)
(* name, at the end of the channel of one that exists; a receiver gets     *)
(* exactly the first one. A channel is emptied only when its process       *)
(* begins, which no process does that exists already.                      *)
(***************************************************************************)
EXTENDS Integers, Sequences

CONSTANTS Users,     \* who can send and receive
          Capacity   \* how many messages a channel holds

VARIABLES live,      \* the users there are now
          chan,      \* [Users -> sequence of messages]
          taken      \* [Users -> the message received last]

fifoVars == <<live, chan, taken>>

(* What the message says is up to its sender.                              *)
Put(u) ==
  /\ u \in live
  /\ Len(chan[u]) < Capacity
  /\ Len(chan'[u]) = Len(chan[u]) + 1
  /\ SubSeq(chan'[u], 1, Len(chan[u])) = chan[u]
  /\ chan'[u][Len(chan[u]) + 1].from \in live
  /\ \A v \in Users \ {u} : chan'[v] = chan[v]
  /\ UNCHANGED <<live, taken>>

Get(u) ==
  /\ u \in live /\ chan[u] # <<>>
  /\ taken' = [taken EXCEPT ![u] = Head(chan[u])]
  /\ chan' = [chan EXCEPT ![u] = Tail(@)]
  /\ UNCHANGED live

(* A new process starts with an empty channel, and what its parent v had   *)
(* received last.                                                          *)
Begin(u, v) ==
  /\ u \notin live /\ v \in live
  /\ live' = live \cup {u}
  /\ chan' = [chan EXCEPT ![u] = <<>>]
  /\ taken' = [taken EXCEPT ![u] = taken[v]]

(* The channel of a process that is gone stays as it was, unread.          *)
End(u) ==
  /\ u \in live /\ live' = live \ {u}
  /\ UNCHANGED <<chan, taken>>

FifoInit == live \subseteq Users /\ \A u \in Users : chan[u] = <<>>

FifoNext == \E u \in Users : Put(u) \/ Get(u) \/ End(u) \/ \E v \in Users : Begin(u, v)

FifoSpec == FifoInit /\ [][FifoNext]_fifoVars
=============================================================================
