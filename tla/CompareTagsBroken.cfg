\* Two files (so a walk has an order and one file may be no .robot file),
\* tests with no, one or two of two tags.  A file may fail to build.
CONSTANTS
  Files = {f1, f2}
  MaxLines = 2
  Tags = {t1, t2}
  Empty = Empty
  MayFail = TRUE
  None = None
SPECIFICATION Spec
INVARIANT GateSound
CHECK_DEADLOCK FALSE
