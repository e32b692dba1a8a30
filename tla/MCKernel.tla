------------------------------ MODULE MCKernel ------------------------------
(* Small instances of the kernel for TLC: which calls the programs of a run *)
(* make, with which arguments.                                             *)
EXTENDS Kernel, TLC

CONSTANTS a, b

PipeSymmetry == Permutations(Pipes)

Nullary(names) == names \X {0} \X {0}

(* Two processes share pipes: descriptor 0 is standard input, 1 and 2 the  *)
(* screen until they are closed and a pipe takes their place. The calls    *)
(* that only two processes need are here too.                              *)
PipeCalls ==
  Nullary({"pipe", "vfork", "exit", "getpid"})
    \cup {"close"} \X {1, 2} \X {0}
    \cup {<<"read", 0, 1>>, <<"read", 1, 2>>}
    \cup {"write"} \X {2} \X {0, 1}
    \cup {<<"dup2", 2, 1>>, <<"dup2", 1, 0>>}

(* Families of processes that create, kill and wait for each other and     *)
(* talk by messages.                                                       *)
LifeCalls ==
  Nullary({"fork", "exit", "halt"})
    \cup {"waitpid", "kill"} \X {2, 3} \X {0}
    \cup {"send"} \X {2} \X {0}
    \cup {"receive"} \X {0} \X {1}

(* Blocking calls of every kind, for liveness. With five descriptors a     *)
(* pipe gets 3 for reading and 4 for writing.                              *)
BlockCalls ==
  Nullary({"fork", "exit", "pipe"})
    \cup {<<"close", 4, 0>>, <<"read", 3, 1>>, <<"write", 4, 1>>}
    \cup {"waitpid", "send"} \X {1, 2} \X {0}
    \cup {<<"receive", 0, 1>>}

(* Processes that only wake each other and go to sleep.                    *)
StarveCalls ==
  Nullary({"fork"})
    \cup {"send"} \X {1, 2, 3} \X {0}
    \cup {"receive"} \X {0} \X {1}

(* Processes that kill and send to processes in any condition.             *)
KillCalls ==
  Nullary({"fork", "exit"})
    \cup {"kill", "send", "waitpid"} \X {2} \X {0}
    \cup {<<"read", 0, 1>>, <<"receive", 0, 1>>}
=============================================================================
