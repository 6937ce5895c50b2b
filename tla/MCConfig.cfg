CONSTANTS
  Width = 2
  MaxPeers = 2
  MaxRoutes = 2
  MaxWorkers = 4
  NProc = 2
  RootScalars <- MCRootScalars
  PeerScalars <- MCPeerScalars
  Items <- MCItems
  Loose <- MCLoose
  MaxNest = 4
SPECIFICATION Spec
VIEW PhaseView
INVARIANTS
  TypeOK
  LoadsTheFile
  InBounds
  LongestPrefix
  ReplyPath
