CONSTANTS
  Q = 97
  N = 2
  D = 4
  GAMMA2 = 8
  K = 1
  ELL = 1
  ETA = 2
  GAMMA1 = 4
  OMEGA = 1
  TAU = 1
  BETA = 2
  Messages = {0, 1}
  Matrices <- MCMatrices
  SampleInBall <- MCSampleInBall
  KappaWidth = 2
  None = None
  Crash = Crash
  NoKey = NoKey

SPECIFICATION Spec
INVARIANT TypeOK
INVARIANT RoundTrip
INVARIANT HintEncodingUnique
 
