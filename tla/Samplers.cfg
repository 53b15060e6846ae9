\* sample_in_ball: five coefficients, three nonzero; every draw j <= i,
\* including j = i and a j already holding a sign, and re-draws j > i.
\* rej_ntt_poly: triples around q = 0x7FE001: q - 1 (kept), q (rejected),
\* the same with bit 7 of s[2] set (masked), and small values.
\* rej_bounded_poly: three coefficients, so that a byte with two valid
\* nibbles arrives at j = 2 and exercises the j < 256 guard; nibbles 0, 4,
\* 9 and 15 are valid for both etas, for eta = 2 only, and for neither.
CONSTANTS
  BallN = 5
  TAU = 3
  Q = 8380417
  NttN = 2
  Bytes0 = {0, 1}
  Bytes1 = {0, 224}
  Bytes2 = {0, 127, 255}
  NttReads = 3
  BoundedN = 3
  Nibbles = {0, 4, 9, 15}
  BoundedReads = 3
  None = None
SPECIFICATION Spec
INVARIANT BallHoldsDrawnSigns
INVARIANT NttFillsFromStream
INVARIANT BoundedFillsFromStream
INVARIANT BoundedTypeOK
\* each call returns when its list is full, or the stream reaches its bound
CHECK_DEADLOCK FALSE
