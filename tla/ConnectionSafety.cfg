SPECIFICATION Spec
CONSTANTS
  s = s
  r = r
  Others = {w1, w2, w3}
  NoPeer = NoPeer
  Node <- MCNode
  Sender = s
  Receiver = r
  TrustedPeers <- TrustAll
  MaxFaults = 2
  MaxCloses = 2
  Refusals = TRUE
SYMMETRY Interchangeable
INVARIANT TypeOK
INVARIANT OpenIsEstablished
INVARIANT OrphanNeedsFault
INVARIANT WitnessToldOfClose
PROPERTY ImplementsAgreement
PROPERTY ClosedIsFinal
PROPERTY UpdateIsolated
\* The application may make no further call.
CHECK_DEADLOCK FALSE
