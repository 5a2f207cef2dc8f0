SPECIFICATION ReceiverSelects
CONSTANTS
  s = s
  r = r
  Others = {w1, w2}
  NoPeer = NoPeer
  Node <- MCNode
  Sender = s
  Receiver = r
  TrustedPeers <- TrustSome
  MaxFaults = 1
  MaxCloses = 1
  Refusals = FALSE
PROPERTY ClosingNeverReopens
\* The application may make no further call.
CHECK_DEADLOCK FALSE
