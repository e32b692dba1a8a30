-------------------------- MODULE MCAddressSpace --------------------------
(* A small machine: twelve pages of two bytes, two entries in a page table. *)
EXTENDS AddressSpace, TLC

CONSTANTS p1, p2

PidSymmetry == Permutations(Pids)
=============================================================================
