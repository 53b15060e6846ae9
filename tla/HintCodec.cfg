\* LayoutN = 8 coefficients of 3 bits (eta = 2) fill 3 bytes, so fields
\* straddle byte boundaries.
\* Three rows, omega = 3, five indices per row: all 2^15 hints (weight 0..15,
\* so also omega < weight <= omega + K, which overwrites offset bytes) and
\* all 5^6 byte strings; offsets 0..4 cover the out-of-range omega + 1.
CONSTANTS
  Q = 97
  N = 5
  D = 4
  GAMMA2 = 8
  K = 3
  ELL = 1
  ETA = 2
  GAMMA1 = 4
  OMEGA = 3
  None = None
  Crash = Crash
  LayoutN = 8

SPECIFICATION Spec
INVARIANT PackRoundTrip
INVARIANT UnpackCanonical
INVARIANT LayoutRoundTrip
