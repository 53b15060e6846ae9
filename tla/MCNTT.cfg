CONSTANTS
  Q = 8380417
  N = 256
  D = 13
  GAMMA2 = 261888

SPECIFICATION Spec
INVARIANT ProductIsNegacyclic
INVARIANT InverseRoundTrip
