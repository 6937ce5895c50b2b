CONSTANTS
  Workers = {w1, w2}
  Hk = hk
  Peers = {p1, p2}
  NSlots = 2
  SeqMod = 2
  Seqs = {1}
  QueueLimit = 1
  MayEnd = FALSE
  NoThread = nobody
  NoPeer = nopeer
SPECIFICATION Spec
INVARIANT DnsStallsNobody
