----------------------------- MODULE MLDSAMath -----------------------------
(***************************************************************************)
(* Coefficient arithmetic of src/pq_logic/fips/fips204.py: the centred     *)
(* reduction mod+-, the infinity norm, Power2Round, Decompose and the      *)
(* HighBits / LowBits / MakeHint / UseHint machinery, and the ring         *)
(* operations on polynomials and vectors of polynomials.                   *)
(*                                                                         *)
(* A polynomial is a function 0..N-1 -> Int, a vector a function          *)
(* 0..len-1 -> polynomial, as the Python lists are indexed.  Ring          *)
(* multiplication is written as the negacyclic product in Z_Q[X]/(X^N+1), *)
(* which is what ntt_inverse(mul_ntt(ntt(a), ntt(b))) computes; the NTT    *)
(* itself is checked against this product in module NTT.                   *)
(***************************************************************************)
EXTENDS Integers, Functions, FiniteSetsExt

CONSTANTS
  Q,       \* the prime modulus ML_DSA_Q
  N,       \* the ring degree ML_DSA_N
  D,       \* self.d, bits dropped from t
  GAMMA2   \* self.gam2, low-order rounding range

ASSUME /\ Q \in Nat /\ Q > 2
       /\ N \in Nat \ {0}
       /\ D \in Nat \ {0}
       /\ GAMMA2 \in Nat \ {0}
       /\ (Q - 1) % (2 * GAMMA2) = 0

Coeffs == 0..(N - 1)

AbsVal(x) == IF x < 0 THEN -x ELSE x

\* modpm(m, alpha): the representative of m mod alpha in
\* (-ceil(alpha/2), floor(alpha/2)], +alpha/2 included.
modpm(m, alpha) == -((alpha \div 2 - m) % alpha) + (alpha \div 2)

\* inf_norm over a vector of polynomials: the largest |modpm(x, Q)|,
\* starting from 0 as the code's accumulator does.
inf_norm(v) ==
  Max({0} \cup {AbsVal(modpm(v[i][j], Q)) : i \in DOMAIN v, j \in Coeffs})

\* power2round on one coefficient: <<r1, r0>> with r = r1 * 2^D + r0.
power2round(rx) ==
  LET rp == rx % Q
      r0 == modpm(rp, 2^D)
  IN <<(rp - r0) \div 2^D, r0>>

\* Mutant: decompose without the wrap-around correction at Q - 1.
decompose_no_wrap(r) ==
  LET rp == r % Q
      r0 == modpm(rp, 2 * GAMMA2)
  IN <<(rp - r0) \div (2 * GAMMA2), r0>>

\* decompose(r): the split around multiples of 2*GAMMA2, with the
\* correction when rp - r0 = Q - 1.
decompose(r) ==
  LET rp == r % Q
      r0 == modpm(rp, 2 * GAMMA2)
  IN IF rp - r0 = Q - 1 THEN <<0, r0 - 1>>
                        ELSE <<(rp - r0) \div (2 * GAMMA2), r0>>

\* the number of high-bits values, m in use_hint
HighBitsRange == (Q - 1) \div (2 * GAMMA2)

high_bits(v) == [i \in DOMAIN v |-> [j \in DOMAIN v[i] |-> decompose(v[i][j])[1]]]
low_bits(v)  == [i \in DOMAIN v |-> [j \in DOMAIN v[i] |-> decompose(v[i][j])[2]]]

\* Elementwise ring operations, recursing over vectors as add/sub/neg do.
add(a, b) == [i \in DOMAIN a |-> [j \in DOMAIN a[i] |-> (a[i][j] + b[i][j]) % Q]]
sub(a, b) == [i \in DOMAIN a |-> [j \in DOMAIN a[i] |-> (a[i][j] - b[i][j]) % Q]]
neg(a)    == [i \in DOMAIN a |-> [j \in DOMAIN a[i] |-> (-a[i][j]) % Q]]

\* neq: 1 where the two vectors differ
neq(a, b) == [i \in DOMAIN a |-> [j \in DOMAIN a[i] |-> IF a[i][j] = b[i][j] THEN 0 ELSE 1]]

\* weight: the number of nonzero entries of a vector of polynomials
weight(a) == SumFunction([i \in DOMAIN a |->
                 SumFunction([j \in DOMAIN a[i] |-> IF a[i][j] = 0 THEN 0 ELSE 1])])

\* make_hint(z, r): 1 where HighBits(r) differs from HighBits(r + z)
make_hint(z, r) == neq(high_bits(r), high_bits(add(r, z)))

use_hint(h, r) ==
  [i \in DOMAIN h |-> [j \in DOMAIN h[i] |->
     LET r1 == decompose(r[i][j])[1]
         r0 == decompose(r[i][j])[2]
     IN CASE h[i][j] = 1 /\ r0 > 0  -> (r1 + 1) % HighBitsRange
          [] h[i][j] = 1 /\ r0 <= 0 -> (r1 - 1) % HighBitsRange
          [] OTHER                  -> r1]]

\* The negacyclic product in Z_Q[X]/(X^N + 1): the result of
\* ntt_inverse(mul_ntt(ntt(a), ntt(b))).
PolyMul(a, b) ==
  [i \in Coeffs |->
     SumFunction([j \in Coeffs |->
        IF j <= i THEN a[j] * b[i - j] ELSE -(a[j] * b[N + i - j])]) % Q]

\* matrix_vector_ntt: row i accumulates the products over the columns
matrix_vector(m, v) ==
  [i \in DOMAIN m |->
     [c \in Coeffs |-> SumFunction([j \in DOMAIN v |-> PolyMul(m[i][j], v[j])[c]]) % Q]]

\* the product of one polynomial with every polynomial of a vector
scalar_vector(c, v) == [i \in DOMAIN v |-> PolyMul(c, v[i])]
=============================================================================
