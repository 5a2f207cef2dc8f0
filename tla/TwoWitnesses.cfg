SPECIFICATION Spec
CONSTANTS
  s = s
  r = r
  Others = {w1, w2}
  NoPeer = NoPeer
  Node <- MCNode
  Sender = s
  Receiver = r
  TrustedPeers <- TrustAll
  MaxFaults = 1
  MaxCloses = 0
  Refusals = FALSE
INVARIANT OneWitness
\* The application may make no further call.
CHECK_DEADLOCK FALSE
