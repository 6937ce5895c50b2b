CONSTANTS
  Workers = {w1, w2}
  Hk = hk
  Peers = {p1}
  NSlots = 1
  SeqMod = 1
  Seqs = {}
  QueueLimit = 1
  MayEnd = TRUE
  NoThread = nobody
  NoPeer = nopeer
SPECIFICATION FairSpec
INVARIANTS NoFdStarved
PROPERTY ShutdownEnds
