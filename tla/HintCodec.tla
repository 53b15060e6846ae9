----------------------------- MODULE HintCodec -----------------------------
(***************************************************************************)
(* hint_bit_pack and hint_bit_unpack of module MLDSACodec on their own,   *)
(* at shapes with several rows (K >= 2), where the per-row offsets and    *)
(* the shared index area interact.  A state is one hint h or one byte     *)
(* string y of length OMEGA + K, checked against the other codec          *)
(* direction.  Bytes range over 0..N-1, which holds every index and every *)
(* offset 0..OMEGA + 1 when N >= OMEGA + 2 (in the code N = 256).         *)
(*                                                                         *)
(* Second, the bit layout that MLDSACodec abstracts away: Algorithms 9-13 *)
(* and the byte-level simple_bit_pack, bit_pack and their unpackings, on  *)
(* polynomials of LayoutN coefficients (range(256) in the code).  A third *)
(* kind of state is one polynomial w handed to bit_pack(w, eta, eta).     *)
(* Its coefficients are the nonzero ones of -eta..eta: for eta = 2 they  *)
(* store the fields 100, 011, 001 and 000, so every bit position holds   *)
(* both a 0 and a 1 (adding 0 multiplies the inputs by 6 for no case).   *)
(***************************************************************************)
EXTENDS MLDSACodec

CONSTANT LayoutN   \* the 256 of the packing loops

ASSUME N >= OMEGA + 2
ASSUME LayoutN \in Nat \ {0}

VARIABLES
  h,   \* a hint of K rows of N bits handed to hint_bit_pack, or None
  y,   \* a byte string handed to hint_bit_unpack, or None
  w    \* a polynomial of LayoutN coefficients in LayoutCoeffs, or None

vars == <<h, y, w>>

Hints == [0..(K - 1) -> [Coeffs -> {0, 1}]]

LayoutCoeffs == (-ETA..ETA) \ {0}

(***************************************************************************)
(* Bit strings and byte strings are sequences (bytearray, index i is      *)
(* position i + 1).  x & 1 and x >>= 1 are floor operations, as \div is.  *)
(***************************************************************************)
integer_to_bits(x, alpha) == [i \in 1..alpha |-> (x \div 2^(i - 1)) % 2]

\* Mutant: the bits read least significant first.
bits_to_integer_lsb_first(yb, alpha) ==
  LET RECURSIVE Loop(_, _)
      Loop(i, x) == IF i > alpha THEN x ELSE Loop(i + 1, 2 * x + yb[i])
  IN Loop(1, 0)

\* for i in 1..alpha: x = 2x + y[alpha - i]
bits_to_integer(yb, alpha) ==
  LET RECURSIVE Loop(_, _)
      Loop(i, x) == IF i > alpha THEN x ELSE Loop(i + 1, 2 * x + yb[alpha - i + 1])
  IN Loop(1, 0)

\* byte k holds bits 8k .. 8k + 7, least significant first (x += y[i + j]
\* << j); a bit string whose length is not a multiple of 8 makes y[i + j]
\* raise IndexError
bits_to_bytes(yb) ==
  LET RECURSIVE Byte(_, _, _)
      Byte(i, j, x) == IF j = 8 THEN x ELSE Byte(i, j + 1, x + yb[i + j + 1] * 2^j)
  IN IF Len(yb) % 8 # 0 THEN Crash
     ELSE [k \in 1..(Len(yb) \div 8) |-> Byte(8 * (k - 1), 0, 0)]

bytes_to_bits(z) ==
  [m \in 1..(8 * Len(z)) |-> (z[(m - 1) \div 8 + 1] \div 2^((m - 1) % 8)) % 2]

\* the byte-level packings: one field of bit_length bits per coefficient
Fields(ws, c) == FlattenSeq([i \in 1..Len(ws) |-> integer_to_bits(ws[i], c)])
SimpleBitPackLayout(ws, b) == bits_to_bytes(Fields(ws, bit_length(b)))
BitPackLayout(ws, a, b) ==
  bits_to_bytes(Fields([i \in 1..Len(ws) |-> b - ws[i]], bit_length(a + b)))

\* field i is the slice z[i*c : (i+1)*c] of the bits
Field(z, i, c) == bits_to_integer(SubSeq(z, (i - 1) * c + 1, i * c), c)
SimpleBitUnpackLayout(v, b) ==
  [i \in 1..LayoutN |-> Field(bytes_to_bits(v), i, bit_length(b))]
BitUnpackLayout(v, a, b) ==
  [i \in 1..LayoutN |-> b - Field(bytes_to_bits(v), i, bit_length(a + b))]

Init == \/ h \in Hints /\ y = None /\ w = None
        \/ h = None /\ y \in [HintBytes -> Coeffs] /\ w = None
        \/ h = None /\ y = None /\ w \in [1..LayoutN -> LayoutCoeffs]

\* every input is one question; the state does not change
Next == UNCHANGED vars

Spec == Init /\ [][Next]_vars

(***************************************************************************)
(* Packing round trip: a hint of weight at most omega unpacks to itself;  *)
(* a heavier one either raises in hint_bit_pack or packs into bytes that  *)
(* hint_bit_unpack refuses, so a signer that skipped the weight check     *)
(* could never emit a signature that decodes.                             *)
(***************************************************************************)
PackRoundTrip ==
  LET y1 == hint_bit_pack(h)
  IN h # None =>
     IF weight(h) <= OMEGA THEN y1 # Crash /\ hint_bit_unpack(y1) = h
       ELSE y1 = Crash \/ hint_bit_unpack(y1) = None

(***************************************************************************)
(* Canonical encoding: every byte string hint_bit_unpack accepts is the   *)
(* packing of the hint it returns.  This is what rules out a second       *)
(* encoding of the same hint (strong unforgeability): the checks on       *)
(* offsets, on increasing indices within a row and on zero padding must   *)
(* all hold across row boundaries.                                         *)
(***************************************************************************)
UnpackCanonical ==
  y # None /\ hint_bit_unpack(y) # None => hint_bit_pack(hint_bit_unpack(y)) = y

(***************************************************************************)
(* Byte layout round trip, the premise of the field-level codec in        *)
(* MLDSACodec: bit_pack(w, eta, eta) of a secret polynomial fills exactly *)
(* LayoutN * bit_length(2 eta) / 8 bytes and bit_unpack reads w back; and *)
(* simple_bit_pack of the nonnegative eta - w with bound 2 eta is read    *)
(* back by simple_bit_unpack.  It fails if integer_to_bits and            *)
(* bits_to_integer disagree on bit order, or bits_to_bytes and            *)
(* bytes_to_bits on the order of bits within a byte.                      *)
(***************************************************************************)
LayoutRoundTrip ==
  w # None =>
    LET c == bit_length(2 * ETA)
        v == BitPackLayout(w, ETA, ETA)
        u == [i \in 1..LayoutN |-> ETA - w[i]]
    IN /\ Len(v) = (LayoutN * c) \div 8
       /\ BitUnpackLayout(v, ETA, ETA) = w
       /\ SimpleBitUnpackLayout(SimpleBitPackLayout(u, 2 * ETA), 2 * ETA) = u
=============================================================================
