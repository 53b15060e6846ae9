------------------------------ MODULE Samplers ------------------------------
(***************************************************************************)
(* The three samplers of fips204.py side by side: rej_ntt_poly (called by *)
(* expand_a), rej_bounded_poly (called by expand_s) and sample_in_ball    *)
(* (called by sign_internal and verify_internal).  They share nothing but *)
(* the object's parameters; each call reads its own XOF stream.  A        *)
(* behaviour follows one call, of the sampler named by active; the other  *)
(* two stay in their initial states.                                      *)
(***************************************************************************)
EXTENDS Integers

CONSTANTS
  BallN, TAU,                                  \* sample_in_ball
  Q, NttN, Bytes0, Bytes1, Bytes2, NttReads,   \* rej_ntt_poly
  BoundedN, Nibbles, BoundedReads,             \* rej_bounded_poly
  None

VARIABLES
  active,                   \* the sampler being called
  c, i, h,                  \* sample_in_ball
  nstream, na, nj,          \* rej_ntt_poly
  eta, bstream, ba, bj, raised  \* rej_bounded_poly

Ball    == INSTANCE SampleInBall WITH N <- BallN
NttPoly == INSTANCE RejNTTPoly WITH N <- NttN, MaxReads <- NttReads,
             stream <- nstream, a <- na, j <- nj
Bounded == INSTANCE RejBoundedPoly WITH N <- BoundedN, MaxReads <- BoundedReads,
             stream <- bstream, a <- ba, j <- bj

vars == <<active, c, i, h, nstream, na, nj, eta, bstream, ba, bj, raised>>

Init ==
  /\ active \in {"ball", "ntt", "bounded"}
  /\ Ball!Init /\ NttPoly!Init /\ Bounded!Init

Next ==
  \/ active = "ball" /\ Ball!Next
     /\ UNCHANGED <<active, nstream, na, nj, eta, bstream, ba, bj, raised>>
  \/ active = "ntt" /\ NttPoly!Next
     /\ UNCHANGED <<active, c, i, h, eta, bstream, ba, bj, raised>>
  \/ active = "bounded" /\ Bounded!Next
     /\ UNCHANGED <<active, c, i, h, nstream, na, nj>>

\* every call returns: at j = 256 (the stream bound here) or i = 256
Spec == Init /\ [][Next]_vars

-----------------------------------------------------------------------------
\* sample_in_ball: the swap-then-set order of the draw loop leaves exactly
\* tau coefficients nonzero, each +-1 with the sign bit drawn for it.
BallHoldsDrawnSigns == Ball!BallHoldsDrawnSigns

\* rej_ntt_poly: the coefficients are exactly the 23-bit candidates below q,
\* top bit of the third byte cleared, in the order the stream gives them.
NttFillsFromStream  == NttPoly!FillsFromStream

\* rej_bounded_poly: the coefficients are the first accepted half-byte
\* values in stream order, and the loop stops at 256 between two nibbles.
BoundedFillsFromStream == Bounded!FillsFromStream

\* rej_bounded_poly: no coefficient leaves -eta..eta and no index passes
\* the end of the list.
BoundedTypeOK       == Bounded!TypeOK
=============================================================================
