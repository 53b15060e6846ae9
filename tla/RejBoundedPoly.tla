--------------------------- MODULE RejBoundedPoly ---------------------------
(***************************************************************************)
(* rej_bounded_poly(rho) of fips204.py (Algorithm 31) with                *)
(* coeff_from_half_byte (Algorithm 15): one byte z of the SHAKE256 stream *)
(* per pass of the while loop, its low nibble tried first, then its high  *)
(* nibble if j < 256.  The stream is a nondeterministic byte per step,    *)
(* drawn from bytes whose nibbles cover every case of                     *)
(* coeff_from_half_byte; the polynomial has N coefficients (256 in the    *)
(* code).                                                                  *)
(***************************************************************************)
EXTENDS Integers, SequencesExt

CONSTANTS
  N,          \* coefficients per polynomial: 256 in the code
  Nibbles,    \* half-byte values the stream's bytes are built from
  MaxReads,   \* bound on bytes read by one call
  None        \* model value: Python None

ASSUME N \in Nat \ {0} /\ Nibbles \subseteq 0..15 /\ MaxReads \in Nat

VARIABLES
  eta,      \* self.eta of the parameter set: 2 or 4
  stream,   \* the bytes h.read(1) has returned so far
  a,        \* the list a = [None] * 256
  j,        \* the next index of a to fill
  raised    \* an assignment a[j] with j >= 256 raised IndexError

vars == <<eta, stream, a, j, raised>>

Bytes == {16 * hi + lo : hi, lo \in Nibbles}

\* Mutant: the eta = 4 bound written b < 10.
coeff_from_half_byte_wide(e, b) ==
  CASE e = 2 /\ b < 15 -> 2 - (b % 5)
    [] e = 4 /\ b < 10 -> 4 - b
    [] OTHER           -> None

\* coeff_from_half_byte(b): 2 - (b mod 5) for b < 15 when eta = 2,
\* 4 - b for b < 9 when eta = 4, None otherwise.
coeff_from_half_byte(e, b) ==
  CASE e = 2 /\ b < 15 -> 2 - (b % 5)
    [] e = 4 /\ b < 9  -> 4 - b
    [] OTHER           -> None

\* Mutant: the second nibble written without the bound.
SecondFits_unguarded(k) == TRUE

\* "if z1 != None and j < 256": the bound on the second write of a pass
SecondFits(k) == k < N

\* a[k] = v, or the IndexError of a list of N entries
Store(arr, k, v) == IF k \in 0..(N - 1) THEN [arr EXCEPT ![k] = v] ELSE arr

Init ==
  /\ eta \in {2, 4}
  /\ stream = <<>>
  /\ a = [k \in 0..(N - 1) |-> None]
  /\ j = 0
  /\ raised = FALSE

(***************************************************************************)
(* One pass of "while j < 256": read z, try z mod 16, then z div 16.      *)
(***************************************************************************)
ReadByte(z) ==
  LET z0 == coeff_from_half_byte(eta, z % 16)
      z1 == coeff_from_half_byte(eta, z \div 16)
      a1 == IF z0 # None THEN Store(a, j, z0) ELSE a
      j1 == IF z0 # None THEN j + 1 ELSE j
      second == z1 # None /\ SecondFits(j1)
  IN /\ j < N /\ ~raised
     /\ Len(stream) < MaxReads
     /\ stream' = Append(stream, z)
     /\ a' = IF second THEN Store(a1, j1, z1) ELSE a1
     /\ j' = IF second THEN j1 + 1 ELSE j1
     /\ raised' = (second /\ j1 >= N)
     /\ UNCHANGED eta

Next == \E z \in Bytes : ReadByte(z)

\* The loop returns once j = 256; a run that has read MaxReads bytes
\* without filling a stops at the bound.
Spec == Init /\ [][Next]_vars

-----------------------------------------------------------------------------
\* The reference: every nibble of the stream in read order, low before
\* high, mapped to its coefficient, the rejected ones dropped.
Accepted(e, s) ==
  FlattenSeq([k \in 1..Len(s) |->
    SelectSeq(<<coeff_from_half_byte(e, s[k] % 16),
                coeff_from_half_byte(e, s[k] \div 16)>>, LAMBDA c : c # None)])

TypeOK ==
  /\ eta \in {2, 4}
  /\ stream \in Seq(Bytes) /\ Len(stream) <= MaxReads
  /\ a \in [0..(N - 1) -> (-eta..eta) \cup {None}]
  /\ j \in 0..N
  /\ raised \in BOOLEAN

(***************************************************************************)
(* rej_bounded_poly fills a with exactly the first 256 accepted nibbles   *)
(* of the stream, in order, and never writes past the end: the j < 256    *)
(* guard between the two nibbles of one byte is what stops the 257th      *)
(* coefficient of a byte whose two nibbles both arrive at j = 255.        *)
(***************************************************************************)
FillsFromStream ==
  LET ref == Accepted(eta, stream)
      n   == IF Len(ref) < N THEN Len(ref) ELSE N
  IN /\ ~raised
     /\ j = n
     /\ \A k \in 0..(N - 1) : a[k] = IF k < n THEN ref[k + 1] ELSE None
=============================================================================
