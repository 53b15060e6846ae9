\* One matrix, 5 + 33X, one message, kappa kept to 2 bits: calls that
\* return and calls that reject all four masks and come round to a
\* rejected one are both reached.
CONSTANTS
  Q = 97
  N = 2
  D = 3
  GAMMA2 = 8
  K = 1
  ELL = 1
  ETA = 2
  GAMMA1 = 4
  OMEGA = 1
  TAU = 1
  BETA = 2
  Messages = {0}
  Matrices <- MCOneMatrix
  SampleInBall <- MCSampleInBall
  KappaWidth = 2
  None = None
  Crash = Crash
  NoKey = NoKey

SPECIFICATION FairSpecTLC
PROPERTY SignReturnsOrExhausts
