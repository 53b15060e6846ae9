-------------------------------- MODULE NTT --------------------------------
(***************************************************************************)
(* The number-theoretic transform of fips204.py: ntt (Algorithm 41),      *)
(* ntt_inverse (Algorithm 42) with the table ML_DSA_ZETAS and the scalar  *)
(* f = 256^-1 mod q, and mul_ntt.  A layer of butterflies touches         *)
(* disjoint pairs (j, j + le), so the inner for loop over a block and the *)
(* while loop over blocks are written as one function of the layer: the   *)
(* block of j is j \div (2 le) and the counter m the code has reached at   *)
(* that block is a closed form of le and the block.                        *)
(***************************************************************************)
EXTENDS MLDSAMath

VARIABLES
  e1,  \* the first factor is X^e1
  e2   \* the second factor is X^e2

vars == <<e1, e2>>

\* ML_DSA_ZETAS, Appendix B, as the code lists it (entry 0 is never read)
ML_DSA_ZETAS == <<
    0, 4808194, 3765607, 3761513, 5178923, 5496691, 5234739, 5178987,
    7778734, 3542485, 2682288, 2129892, 3764867, 7375178, 557458, 7159240,
    5010068, 4317364, 2663378, 6705802, 4855975, 7946292, 676590, 7044481,
    5152541, 1714295, 2453983, 1460718, 7737789, 4795319, 2815639, 2283733,
    3602218, 3182878, 2740543, 4793971, 5269599, 2101410, 3704823, 1159875,
    394148, 928749, 1095468, 4874037, 2071829, 4361428, 3241972, 2156050,
    3415069, 1759347, 7562881, 4805951, 3756790, 6444618, 6663429, 4430364,
    5483103, 3192354, 556856, 3870317, 2917338, 1853806, 3345963, 1858416,
    3073009, 1277625, 5744944, 3852015, 4183372, 5157610, 5258977, 8106357,
    2508980, 2028118, 1937570, 4564692, 2811291, 5396636, 7270901, 4158088,
    1528066, 482649, 1148858, 5418153, 7814814, 169688, 2462444, 5046034,
    4213992, 4892034, 1987814, 5183169, 1736313, 235407, 5130263, 3258457,
    5801164, 1787943, 5989328, 6125690, 3482206, 4197502, 7080401, 6018354,
    7062739, 2461387, 3035980, 621164, 3901472, 7153756, 2925816, 3374250,
    1356448, 5604662, 2683270, 5601629, 4912752, 2312838, 7727142, 7921254,
    348812, 8052569, 1011223, 6026202, 4561790, 6458164, 6143691, 1744507,
    1753, 6444997, 5720892, 6924527, 2660408, 6600190, 8321269, 2772600,
    1182243, 87208, 636927, 4415111, 4423672, 6084020, 5095502, 4663471,
    8352605, 822541, 1009365, 5926272, 6400920, 1596822, 4423473, 4620952,
    6695264, 4969849, 2678278, 4611469, 4829411, 635956, 8129971, 5925040,
    4234153, 6607829, 2192938, 6653329, 2387513, 4768667, 8111961, 5199961,
    3747250, 2296099, 1239911, 4541938, 3195676, 2642980, 1254190, 8368000,
    2998219, 141835, 8291116, 2513018, 7025525, 613238, 7070156, 6161950,
    7921677, 6458423, 4040196, 4908348, 2039144, 6500539, 7561656, 6201452,
    6757063, 2105286, 6006015, 6346610, 586241, 7200804, 527981, 5637006,
    6903432, 1994046, 2491325, 6987258, 507927, 7192532, 7655613, 6545891,
    5346675, 8041997, 2647994, 3009748, 5767564, 4148469, 749577, 4357667,
    3980599, 2569011, 6764887, 1723229, 1665318, 2028038, 1163598, 5011144,
    3994671, 8368538, 7009900, 3020393, 3363542, 214880, 545376, 7609976,
    3105558, 7277073, 508145, 7826699, 860144, 3430436, 140244, 6866265,
    6195333, 3123762, 2358373, 6187330, 5365997, 6663603, 2926054, 7987710,
    8077412, 3531229, 4405932, 4606686, 1900052, 7598542, 1054478, 7648983 >>

(***************************************************************************)
(* (x * y) % q for x, y in 0..q-1.  TLC's integers are 32-bit and q^2 is  *)
(* not, so y is taken a byte at a time, high byte first, reducing every   *)
(* partial product; the value is the same.                                 *)
(***************************************************************************)
MulMod(x, y) ==
  LET r2 == (x * (y \div 65536)) % Q
      r1 == (((r2 * 256) % Q) + ((x * ((y \div 256) % 256)) % Q)) % Q
  IN (((r1 * 256) % Q) + ((x * (y % 256)) % Q)) % Q

\* the zeta at index m of the 0-based Python list
Zeta(m) == ML_DSA_ZETAS[m + 1]

(***************************************************************************)
(* One pass of the outer while loop of ntt with block length le: before    *)
(* it m = 128 \div le - 1, and block st = 2 le * blk increments m first.   *)
(* t = z * w[j+le] % q; w[j+le] = (w[j] - t) % q; w[j] = (w[j] + t) % q.  *)
(***************************************************************************)
\* Mutant: the zeta read before m is incremented.
NttLayer_zeta_early(w, le) ==
  [j \in DOMAIN w |->
     LET z == Zeta(128 \div le - 1 + j \div (2 * le))
     IN IF j % (2 * le) < le
          THEN (w[j] + MulMod(z, w[j + le])) % Q
          ELSE (w[j - le] - MulMod(z, w[j])) % Q]

NttLayer(w, le) ==
  [j \in DOMAIN w |->
     LET z == Zeta(128 \div le + j \div (2 * le))
     IN IF j % (2 * le) < le
          THEN (w[j] + MulMod(z, w[j + le])) % Q
          ELSE (w[j - le] - MulMod(z, w[j])) % Q]

RECURSIVE NttFrom(_, _)
NttFrom(w, le) == IF le < 1 THEN w ELSE NttFrom(NttLayer(w, le), le \div 2)

ntt(w) == NttFrom(w, 128)

(***************************************************************************)
(* One pass of the outer while loop of ntt_inverse with block length le:  *)
(* before it m = 256 \div le, and each block decrements m first, so block *)
(* blk reads z = -ZETAS[256 \div le - 1 - blk].                            *)
(* t = w[j]; w[j] = (t + w[j+le]) % q; w[j+le] = z * ((t - w[j+le]) % q) % q. *)
(***************************************************************************)
NttInverseLayer(w, le) ==
  [j \in DOMAIN w |->
     LET z == Q - Zeta(256 \div le - 1 - j \div (2 * le))   \* -zeta mod q
     IN IF j % (2 * le) < le
          THEN (w[j] + w[j + le]) % Q
          ELSE MulMod(z, (w[j - le] - w[j]) % Q)]

RECURSIVE NttInverseFrom(_, _)
NttInverseFrom(w, le) ==
  IF le >= 256 THEN w ELSE NttInverseFrom(NttInverseLayer(w, le), 2 * le)

\* the scalar 256^-1 mod q the result is multiplied by
NttScale == 8347681

\* Mutant: ntt_inverse without the final scaling by f.
ntt_inverse_unscaled(w) == NttInverseFrom(w, 1)

ntt_inverse(w) == [j \in DOMAIN w |-> MulMod(NttScale, NttInverseFrom(w, 1)[j])]

\* Mutant: the body of add copied into mul_ntt.
mul_ntt_added(x, y) == [i \in DOMAIN x |-> (x[i] + y[i]) % Q]

\* mul_ntt(a, b): the pointwise product mod q
mul_ntt(x, y) == [i \in DOMAIN x |-> MulMod(x[i], y[i])]

-----------------------------------------------------------------------------
(***************************************************************************)
(* The transforms are linear, and the product ntt_inverse(mul_ntt(ntt(x), *)
(* ntt(y))) is bilinear, so they are correct on every polynomial when     *)
(* they are correct on the basis X^0 .. X^255 and on every pair of basis  *)
(* elements.  A state is one pair (X^e1, X^e2); the transforms of the basis *)
(* are constants TLC computes once.                                        *)
(***************************************************************************)
Degrees == 0..255

\* X^e, as the list [0] * 256 with a 1 at e
Monomial(e) == [j \in Degrees |-> IF j = e THEN 1 ELSE 0]

NttOfBasis        == [e \in Degrees |-> ntt(Monomial(e))]
NttInverseOfBasis == [e \in Degrees |-> ntt_inverse(NttOfBasis[e])]

\* the transform of X^i * X^k = X^(i+k), negated when the degree wraps;
\* ntt is linear, so ntt(-x) = -ntt(x) mod q
NttOfProduct(x, y) ==
  IF x + y < 256 THEN NttOfBasis[x + y]
  ELSE [j \in Degrees |-> (Q - NttOfBasis[x + y - 256][j]) % Q]

Init == e1 \in Degrees /\ e2 \in Degrees

\* each pair is one question; the state does not change
Next == UNCHANGED vars

Spec == Init /\ [][Next]_vars

(***************************************************************************)
(* ntt_inverse undoes ntt: the layers of ntt_inverse read the zetas in    *)
(* the reverse order of ntt, negated, and the final scaling by 8347681    *)
(* divides by 256.                                                         *)
(***************************************************************************)
InverseRoundTrip == NttInverseOfBasis[e1] = Monomial(e1)

(***************************************************************************)
(* The product the signer and verifier compute, ntt_inverse(mul_ntt(ntt(x), *)
(* ntt(y))), is multiplication in Z_q[X]/(X^256 + 1): pointwise products  *)
(* of transforms are the transform of X^e1 * X^e2.  With InverseRoundTrip   *)
(* this is what module MLDSAMath's PolyMul assumes of the NTT.            *)
(***************************************************************************)
ProductIsNegacyclic ==
  mul_ntt(NttOfBasis[e1], NttOfBasis[e2]) = NttOfProduct(e1, e2)
=============================================================================
