----------------------------- MODULE MCMessages -----------------------------
(* The message passing tests with four processes, whose pids have one and  *)
(* two digits.                                                             *)
EXTENDS MpTest
=============================================================================
