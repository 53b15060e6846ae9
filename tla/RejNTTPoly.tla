----------------------------- MODULE RejNTTPoly -----------------------------
(***************************************************************************)
(* rej_ntt_poly(rho) of fips204.py (Algorithm 30) with                    *)
(* coeff_from_three_bytes (Algorithm 14): three bytes of the SHAKE128      *)
(* stream per pass, bit 7 of the third byte cleared, the 23-bit value kept *)
(* when it is below q.  The stream is a nondeterministic triple per step, *)
(* from bytes around the boundary q = 0x7FE001; the polynomial has N      *)
(* coefficients (256 in the code).                                         *)
(***************************************************************************)
EXTENDS Integers, SequencesExt

CONSTANTS
  Q,          \* ML_DSA_Q
  N,          \* coefficients per polynomial: 256 in the code
  Bytes0,     \* values of s[0] considered
  Bytes1,     \* values of s[1] considered
  Bytes2,     \* values of s[2] considered
  MaxReads,   \* bound on g.read(3) calls of one call
  None        \* model value: Python None

ASSUME N \in Nat \ {0} /\ MaxReads \in Nat
       /\ (Bytes0 \cup Bytes1 \cup Bytes2) \subseteq 0..255

VARIABLES
  stream,   \* the triples g.read(3) has returned so far
  a,        \* the list a = [None] * 256
  j         \* the next index of a to fill

vars == <<stream, a, j>>

Triples == Bytes0 \X Bytes1 \X Bytes2

\* Mutant: the top bit of b2 kept.
coeff_from_three_bytes_unmasked(b0, b1, b2) ==
  LET z == b2 * 65536 + b1 * 256 + b0
  IN IF z < Q THEN z ELSE None

\* coeff_from_three_bytes(b0, b1, b2): b2 -= 128 when b2 > 127, then
\* z = (b2 << 16) + (b1 << 8) + b0, returned when z < q, else None.
coeff_from_three_bytes(b0, b1, b2) ==
  LET b2m == IF b2 > 127 THEN b2 - 128 ELSE b2
      z   == b2m * 65536 + b1 * 256 + b0
  IN IF z < Q THEN z ELSE None

Init ==
  /\ stream = <<>>
  /\ a = [k \in 0..(N - 1) |-> None]
  /\ j = 0

(***************************************************************************)
(* One pass of "while j < 256": a[j] = coeff_from_three_bytes(s), and j   *)
(* moves on when it is not None (a rejected value is overwritten later).  *)
(***************************************************************************)
ReadTriple(s) ==
  LET v == coeff_from_three_bytes(s[1], s[2], s[3])
  IN /\ j < N
     /\ Len(stream) < MaxReads
     /\ stream' = Append(stream, s)
     /\ a' = [a EXCEPT ![j] = v]
     /\ j' = IF v # None THEN j + 1 ELSE j

Next == \E s \in Triples : ReadTriple(s)

\* The loop returns once j = 256, or the run reaches MaxReads.
Spec == Init /\ [][Next]_vars

-----------------------------------------------------------------------------
\* The reference of FIPS 204: the integer of the 23 low bits of each
\* triple, little-endian, kept when below q, in read order.
Accepted(s) ==
  LET val(t) == t[1] + 256 * t[2] + 65536 * (t[3] % 128)
  IN [k \in 1..Len(SelectSeq(s, LAMBDA t : val(t) < Q)) |->
        val(SelectSeq(s, LAMBDA t : val(t) < Q)[k])]

(***************************************************************************)
(* Every coefficient rej_ntt_poly has fixed is the next accepted value of *)
(* the stream, in 0..q-1; masking the top bit of the third byte and the   *)
(* strict z < q are what make the accepted values exactly those of the    *)
(* reference (a byte 0xFF or the value q itself sits on the boundary).    *)
(***************************************************************************)
FillsFromStream ==
  LET ref == Accepted(stream)
  IN /\ j = Len(ref)
     /\ \A k \in 0..(j - 1) : a[k] = ref[k + 1] /\ a[k] \in 0..(Q - 1)
=============================================================================
