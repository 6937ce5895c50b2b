------------------------------ MODULE MCReplay ------------------------------
(***************************************************************************)
(* Replay for TLC: three words of two bits, and numbers that go far enough  *)
(* past the six-bit window for every shift distance from one bit to a full  *)
(* clear, and every distance behind the highest number, to occur.           *)
(***************************************************************************)
EXTENDS Replay

MCSeqs == 0 .. 10
=============================================================================
