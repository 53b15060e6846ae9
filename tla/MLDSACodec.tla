----------------------------- MODULE MLDSACodec ----------------------------
(***************************************************************************)
(* The key and signature codec of fips204.py (Algorithms 16-28).          *)
(*                                                                         *)
(* A packed polynomial is kept as its sequence of fixed-width fields, one *)
(* integer per coefficient: integer_to_bits(x, c) keeps x mod 2^c (Python *)
(* & and >> on a negative x give the two's complement bits), so packing   *)
(* is reduction mod 2^c and unpacking reads the field back.  The byte     *)
(* layout itself (bits_to_bytes) is not modelled: it is a bijection on    *)
(* whole bytes.  The hint is kept as its OMEGA + K bytes.                  *)
(***************************************************************************)
EXTENDS MLDSAMath, SequencesExt

CONSTANTS
  K,       \* self.k, rows of A
  ELL,     \* self.ell, columns of A
  ETA,     \* self.eta, bound of the secret coefficients
  GAMMA1,  \* self.gam1, mask range
  OMEGA,   \* self.omega, the largest hint weight
  None,    \* model value: hint_bit_unpack's None
  Crash    \* model value: an IndexError raised inside the codec

ASSUME /\ K \in Nat \ {0} /\ ELL \in Nat \ {0}
       /\ ETA \in {2, 4} /\ GAMMA1 \in Nat \ {0} /\ OMEGA \in Nat

\* int(x).bit_length()
RECURSIVE bit_length(_)
bit_length(x) == IF x = 0 THEN 0 ELSE 1 + bit_length(x \div 2)

\* simple_bit_pack / simple_bit_unpack of one polynomial, bound b
simple_bit_pack(w, b) == [j \in DOMAIN w |-> w[j] % 2^bit_length(b)]
simple_bit_unpack(v, b) == [j \in DOMAIN v |-> v[j]]

\* bit_pack(w, a, b) stores b - w in bit_length(a + b) bits;
\* bit_unpack(v, a, b) returns b - field.
bit_pack(w, a, b) == [j \in DOMAIN w |-> (b - w[j]) % 2^bit_length(a + b)]
bit_unpack(v, a, b) == [j \in DOMAIN v |-> b - v[j]]

\* bound of the t1 fields in pk_encode / pk_decode
T1Bound == 2^(bit_length(Q - 1) - D) - 1

HintBytes == 0..(OMEGA + K - 1)

(***************************************************************************)
(* hint_bit_pack(h): row by row, the indices j with h[i][j] # 0 are        *)
(* written at y[idx], idx += 1, and after row i y[OMEGA + i] = idx.  A     *)
(* write at idx >= OMEGA + K is the IndexError of the bytearray; a write  *)
(* at OMEGA <= idx < OMEGA + K lands in the offsets area.                  *)
(***************************************************************************)
\* Mutant: y[OMEGA + i] = idx written before the row's indices.
RECURSIVE PackRows_offset_first(_, _, _, _)
PackRows_offset_first(h, i, idx, y) ==
  IF i = K THEN y
  ELSE LET js   == SetToSortSeq({j \in Coeffs : h[i][j] # 0}, <)
           next == idx + Len(js)
           yi   == [p \in HintBytes |->
                      IF idx <= p /\ p < next THEN js[p - idx + 1] ELSE y[p]]
       IN IF next > OMEGA + K THEN Crash
          ELSE PackRows_offset_first(h, i + 1, next, [yi EXCEPT ![OMEGA + i] = idx])

RECURSIVE PackRows(_, _, _, _)
PackRows(h, i, idx, y) ==
  IF i = K THEN y
  ELSE LET js   == SetToSortSeq({j \in Coeffs : h[i][j] # 0}, <)
           next == idx + Len(js)
           yi   == [p \in HintBytes |->
                      IF idx <= p /\ p < next THEN js[p - idx + 1] ELSE y[p]]
       IN IF next > OMEGA + K THEN Crash
          ELSE PackRows(h, i + 1, next, [yi EXCEPT ![OMEGA + i] = next])

hint_bit_pack(h) == PackRows(h, 0, 0, [p \in HintBytes |-> 0])

\* Mutant: hint_bit_unpack without the check that unused index bytes are 0.
hint_bit_unpack_no_padding_check(y) ==
  LET Offset(i) == IF i = -1 THEN 0 ELSE y[OMEGA + i]
      Rows      == 0..(K - 1)
      valid ==
        /\ \A i \in Rows : Offset(i) >= Offset(i - 1) /\ Offset(i) <= OMEGA
        /\ \A i \in Rows : \A p \in (Offset(i - 1) + 1)..(Offset(i) - 1) :
                             y[p - 1] < y[p]
  IN IF ~valid THEN None
     ELSE [i \in Rows |-> [j \in Coeffs |->
             IF \E p \in Offset(i - 1)..(Offset(i) - 1) : y[p] = j THEN 1 ELSE 0]]

\* Mutant: hint_bit_unpack without the check that indices increase.
hint_bit_unpack_no_order_check(y) ==
  LET Offset(i) == IF i = -1 THEN 0 ELSE y[OMEGA + i]
      Rows      == 0..(K - 1)
      valid ==
        /\ \A i \in Rows : Offset(i) >= Offset(i - 1) /\ Offset(i) <= OMEGA
        /\ \A p \in Offset(K - 1)..(OMEGA - 1) : y[p] = 0
  IN IF ~valid THEN None
     ELSE [i \in Rows |-> [j \in Coeffs |->
             IF \E p \in Offset(i - 1)..(Offset(i) - 1) : y[p] = j THEN 1 ELSE 0]]

(***************************************************************************)
(* hint_bit_unpack(y): None unless every offset y[OMEGA+i] is between the *)
(* previous one and OMEGA, the indices within a row strictly increase,    *)
(* and the unused index bytes are zero.  Offset(-1) is the initial idx.   *)
(* The index bytes range over 0..255 = 0..N-1, so h[i][y[idx]] is always  *)
(* in range.                                                               *)
(***************************************************************************)
hint_bit_unpack(y) ==
  LET Offset(i) == IF i = -1 THEN 0 ELSE y[OMEGA + i]
      Rows      == 0..(K - 1)
      valid ==
        /\ \A i \in Rows : Offset(i) >= Offset(i - 1) /\ Offset(i) <= OMEGA
        /\ \A i \in Rows : \A p \in (Offset(i - 1) + 1)..(Offset(i) - 1) :
                             y[p - 1] < y[p]
        /\ \A p \in Offset(K - 1)..(OMEGA - 1) : y[p] = 0
  IN IF ~valid THEN None
     ELSE [i \in Rows |-> [j \in Coeffs |->
             IF \E p \in Offset(i - 1)..(Offset(i) - 1) : y[p] = j THEN 1 ELSE 0]]

\* pk_encode(rho, t1) and pk_decode(pk)
pk_encode(rho, t1) == [rho |-> rho,
                       t1  |-> [i \in DOMAIN t1 |-> simple_bit_pack(t1[i], T1Bound)]]
pk_decode(pk) == <<pk.rho, [i \in DOMAIN pk.t1 |-> simple_bit_unpack(pk.t1[i], T1Bound)]>>

\* sk_encode(rho, K, tr, s1, s2, t0) and sk_decode(sk)
sk_encode(rho, kk, tr, s1, s2, t0) ==
  [rho |-> rho, kk |-> kk, tr |-> tr,
   s1 |-> [i \in DOMAIN s1 |-> bit_pack(s1[i], ETA, ETA)],
   s2 |-> [i \in DOMAIN s2 |-> bit_pack(s2[i], ETA, ETA)],
   t0 |-> [i \in DOMAIN t0 |-> bit_pack(t0[i], 2^(D - 1) - 1, 2^(D - 1))]]
sk_decode(sk) ==
  <<sk.rho, sk.kk, sk.tr,
    [i \in DOMAIN sk.s1 |-> bit_unpack(sk.s1[i], ETA, ETA)],
    [i \in DOMAIN sk.s2 |-> bit_unpack(sk.s2[i], ETA, ETA)],
    [i \in DOMAIN sk.t0 |-> bit_unpack(sk.t0[i], 2^(D - 1) - 1, 2^(D - 1))]>>

\* sig_encode(c~, z, h) and sig_decode(sig)
sig_encode(ct, z, h) ==
  [ct |-> ct,
   z  |-> [i \in DOMAIN z |-> bit_pack(z[i], GAMMA1 - 1, GAMMA1)],
   h  |-> hint_bit_pack(h)]
sig_decode(sig) ==
  <<sig.ct,
    [i \in DOMAIN sig.z |-> bit_unpack(sig.z[i], GAMMA1 - 1, GAMMA1)],
    hint_bit_unpack(sig.h)>>

\* w1_encode(w1): the high bits packed with bound m - 1
w1_encode(w1) == [i \in DOMAIN w1 |-> simple_bit_pack(w1[i], HighBitsRange - 1)]
=============================================================================
