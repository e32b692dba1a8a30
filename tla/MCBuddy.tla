------------------------------ MODULE MCBuddy ------------------------------
(* An area of eight blocks of four bytes. The requests are zero, and the   *)
(* sizes on both sides of each power of two.                               *)
EXTENDS Buddy

Sizes == {0, 3, 4, 7, 8, 16, 31, 32}
=============================================================================
