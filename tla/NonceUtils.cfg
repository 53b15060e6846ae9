\* Bytes 0, 1, 3 and 255 give Hamming distances 0, 1, 2, 7 and 8 between
\* bytes; nonces of up to two bytes let padding matter; three nonces let a
\* non-adjacent pair be the close one.
CONSTANTS
  Octets = {0, 1, 3, 255}
  MaxLen = 2
  MaxCount = 3
  Distances = {1, 2, 9}
SPECIFICATION Spec
INVARIANT DiverseExactly
INVARIANT CorruptsFirstByteOnly
