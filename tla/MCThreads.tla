----------------------------- MODULE MCThreads -----------------------------
(* Two workers and the housekeeping thread.  MCThreads.cfg and             *)
(* MCThreadsDns.cfg have two peers and two slots; MCThreadsLive.cfg, where  *)
(* threads may end, has one of each and no symmetry.                        *)
EXTENDS Threads, TLC
Symm == Permutations(Workers) \cup Permutations(Peers)
=============================================================================
