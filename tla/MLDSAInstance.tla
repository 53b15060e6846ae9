--------------------------- MODULE MLDSAInstance ---------------------------
(***************************************************************************)
(* The ML_DSA object of fips204.py as its callers use it: the parameter   *)
(* set held in self.* and re-initialised by every call that passes        *)
(* param=..., the public operations keygen_internal, sign, verify,        *)
(* hash_ml_dsa_sign and hash_ml_dsa_verify with their context-length and  *)
(* pre-hash checks, and the byte lengths the encoders produce and the     *)
(* decoders slice.                                                         *)
(*                                                                         *)
(* A byte buffer is kept as what produced it and its length.  The         *)
(* arithmetic inside sign_internal / verify_internal is module MLDSA; here *)
(* verify_internal's answer on a buffer that decodes is true exactly for  *)
(* an unchanged-prefix signature of the same key, parameter set and       *)
(* formatted message M' (the hashes are taken as collision free).         *)
(***************************************************************************)
EXTENDS Integers, FiniteSets

CONSTANTS
  Names,      \* parameter names callers pass; some not in ML_DSA_PARAM
  Messages,   \* messages m
  CtxLens,    \* lengths of the context strings callers pass
  PreHashes,  \* ph arguments of the HashML-DSA calls
  NoParam,    \* model value: param=None
  None,       \* model value: Python None
  Raised,     \* model value: an exception left the call
  MaxExtra    \* bound on bytes a caller appends to a signature

ML_DSA_Q == 8380417

\* int(x).bit_length()
RECURSIVE bit_length(_)
bit_length(x) == IF x = 0 THEN 0 ELSE 1 + bit_length(x \div 2)

(***************************************************************************)
(* ML_DSA_PARAM: (d, tau, lam, gam1, gam2, k, ell, eta, beta, omega).     *)
(***************************************************************************)
ML_DSA_PARAM ==
  [n \in {"ml-dsa-44", "ml-dsa-65", "ml-dsa-87"} |->
     CASE n = "ml-dsa-44" ->
            [d |-> 13, tau |-> 39, lam |-> 128, gam1 |-> 2^17, gam2 |-> (ML_DSA_Q - 1) \div 88,
             k |-> 4, ell |-> 4, eta |-> 2, beta |-> 78, omega |-> 80]
       [] n = "ml-dsa-65" ->
            [d |-> 13, tau |-> 49, lam |-> 192, gam1 |-> 2^19, gam2 |-> (ML_DSA_Q - 1) \div 32,
             k |-> 6, ell |-> 5, eta |-> 4, beta |-> 196, omega |-> 55]
       [] n = "ml-dsa-87" ->
            [d |-> 13, tau |-> 60, lam |-> 256, gam1 |-> 2^19, gam2 |-> (ML_DSA_Q - 1) \div 32,
             k |-> 8, ell |-> 7, eta |-> 2, beta |-> 120, omega |-> 75]]

Supported == DOMAIN ML_DSA_PARAM

(***************************************************************************)
(* Encoded lengths, from the encoders: pk_encode packs each t1 row with   *)
(* simple_bit_pack(., 2^(bitlen(q-1)-d) - 1), sk_encode packs s1, s2 with *)
(* bit_pack(., eta, eta) and t0 with bit_pack(., 2^(d-1)-1, 2^(d-1)),     *)
(* sig_encode appends c~, the z rows packed with bit_pack(., gam1-1, gam1) *)
(* and the OMEGA + K hint bytes.  A packed row is 256 fields of c bits.   *)
(***************************************************************************)
RowBytes(c) == (256 * c) \div 8

pk_encode_len(p) ==
  LET P == ML_DSA_PARAM[p]
  IN 32 + P.k * RowBytes(bit_length(2^(bit_length(ML_DSA_Q - 1) - P.d) - 1))

sk_encode_len(p) ==
  LET P == ML_DSA_PARAM[p]
  IN 32 + 32 + 64
     + (P.ell + P.k) * RowBytes(bit_length(P.eta + P.eta))
     + P.k * RowBytes(bit_length((2^(P.d - 1) - 1) + 2^(P.d - 1)))

sig_encode_len(p) ==
  LET P == ML_DSA_PARAM[p]
  IN P.lam \div 4 + P.ell * RowBytes(bit_length((P.gam1 - 1) + P.gam1)) + P.omega + P.k

(***************************************************************************)
(* Decoded layouts, from the decoders' slice offsets.  A slice shorter    *)
(* than its row makes bits_to_integer index past the end (IndexError).    *)
(***************************************************************************)
pk_decode_len(p) ==
  LET P == ML_DSA_PARAM[p] IN 32 + 32 * (bit_length(ML_DSA_Q - 1) - P.d) * P.k

sk_decode_len(p) ==
  LET P == ML_DSA_PARAM[p]
  IN 128 + 32 * bit_length(2 * P.eta) * (P.ell + P.k) + 32 * P.d * P.k

\* Mutant: bl = 32 * (1 + bit_length(gam1)), the range taken as gam1.
sig_decode_z_end_wide(p) ==
  LET P == ML_DSA_PARAM[p]
  IN P.lam \div 4 + 32 * (1 + bit_length(P.gam1)) * P.ell

\* end of the z rows: cl + bl * ell
sig_decode_z_end(p) ==
  LET P == ML_DSA_PARAM[p]
  IN P.lam \div 4 + 32 * (1 + bit_length(P.gam1 - 1)) * P.ell

sig_decode_len(p) == sig_decode_z_end(p) + ML_DSA_PARAM[p].omega + ML_DSA_PARAM[p].k

-----------------------------------------------------------------------------
VARIABLES
  params,   \* the name whose ML_DSA_PARAM tuple self.d ... self.omega hold
  keys,     \* parameter sets under which keygen_internal produced a key pair
  sig,      \* the signature bytes the caller holds, or None
  last      \* the last public call: its arguments and its outcome

vars == <<params, keys, sig, last>>

\* the pre-hash algorithms hash_ml_dsa_sign / hash_ml_dsa_verify accept
SupportedPreHash == {"SHA-256", "SHA-512", "SHAKE128"}

\* M' = IntegerToBytes(mode, 1) || IntegerToBytes(|ctx|, 1) || ctx || m for
\* ML-DSA, and || OID(ph) || PH(m) in place of m for HashML-DSA.
Formatted(mode, ctx, ph, m) == [mode |-> mode, ctx |-> ctx, ph |-> ph, m |-> m]

sig_len(s) == sig_encode_len(s.set) + s.extra

Init ==
  /\ params \in Supported      \* ML_DSA(param) constructed with a supported name
  /\ keys = {}
  /\ sig = None
  /\ last = None

\* "if param is not None: self.__init__(param)": the name the object holds
\* afterwards, or Raised when __init__ raises ValueError before assigning.
reinit(p) ==
  IF p = NoParam THEN params
  ELSE IF p \in Supported THEN p ELSE Raised

Call(op, k, m, c, ph, p, v, out) ==
  [op |-> op, key |-> k, m |-> m, ctx |-> c, ph |-> ph, param |-> p,
   v |-> v, sig |-> sig, out |-> out]

\* keygen_internal(xi, param)
KeyGen(p) ==
  LET v == reinit(p) IN
  /\ IF v = Raised
       THEN UNCHANGED <<params, keys>>
       ELSE params' = v /\ keys' = keys \cup {v}
  /\ last' = Call("keygen", v, "none", 0, "none", p, v, IF v = Raised THEN Raised ELSE "keys")
  /\ UNCHANGED sig

(***************************************************************************)
(* sign_internal(sk, M', rnd) under the parameter set v: sk_decode slices *)
(* the secret key with v's layout, an IndexError when the key is shorter, *)
(* a wrong but signable key when it is laid out for another set.           *)
(***************************************************************************)
SignInternal(k, mp, v, p, op) ==
  IF sk_encode_len(k) < sk_decode_len(v)
    THEN /\ last' = Call(op, k, mp.m, mp.ctx, mp.ph, p, v, Raised)
         /\ UNCHANGED sig
    ELSE LET s == [key |-> k, set |-> v, mp |-> mp, extra |-> 0,
                   good |-> v = k /\ sk_decode_len(v) = sk_encode_len(k)]
         IN /\ sig' = s
            /\ last' = Call(op, k, mp.m, mp.ctx, mp.ph, p, v, "sig")

\* sign(sk, m, ctx, rnd, param): None when |ctx| > 255
Sign(k, m, c, p) ==
  LET v == reinit(p) IN
  /\ k \in keys
  /\ CASE v = Raised ->
            /\ last' = Call("sign", k, m, c, "none", p, v, Raised)
            /\ UNCHANGED <<params, sig>>
       [] c > 255 ->
            /\ params' = v
            /\ last' = Call("sign", k, m, c, "none", p, v, None)
            /\ UNCHANGED sig
       [] OTHER ->
            /\ params' = v
            /\ SignInternal(k, Formatted(0, c, "none", m), v, p, "sign")
  /\ UNCHANGED keys

\* hash_ml_dsa_sign(sk, m, ctx, ph, rnd, param): None when |ctx| > 255 or
\* ph is not one of the three supported pre-hashes
HashSign(k, m, c, ph, p) ==
  LET v == reinit(p) IN
  /\ k \in keys
  /\ CASE v = Raised ->
            /\ last' = Call("hash_sign", k, m, c, ph, p, v, Raised)
            /\ UNCHANGED <<params, sig>>
       [] c > 255 \/ ph \notin SupportedPreHash ->
            /\ params' = v
            /\ last' = Call("hash_sign", k, m, c, ph, p, v, None)
            /\ UNCHANGED sig
       [] OTHER ->
            /\ params' = v
            /\ SignInternal(k, Formatted(1, c, ph, m), v, p, "hash_sign")
  /\ UNCHANGED keys

(***************************************************************************)
(* The outcomes of verify_internal(pk, M', sig) under the set v.          *)
(* pk_decode and the z rows of sig_decode raise IndexError on a short     *)
(* buffer; a short hint area makes hint_bit_unpack either return None     *)
(* (verify returns False) or index past the end, depending on the bytes.  *)
(* Bytes past the decoded layout are ignored.  On a buffer that decodes,  *)
(* the signature verifies when it is a good signature of this key under   *)
(* v, for this M', laid out where the decoder reads it.                   *)
(***************************************************************************)
VerifyOutcomes(k, mp, s, v) ==
  LET hint_len == sig_len(s) - sig_decode_z_end(v)   \* bytes left for y
  IN IF pk_encode_len(k) < pk_decode_len(v) THEN {Raised}
     ELSE IF hint_len < 0 THEN {Raised}
     ELSE IF hint_len <= ML_DSA_PARAM[v].omega THEN {Raised}      \* y[omega]
     ELSE IF hint_len < ML_DSA_PARAM[v].omega + ML_DSA_PARAM[v].k
       THEN {FALSE, Raised}
     ELSE {/\ s.good /\ s.key = k /\ s.set = v /\ s.mp = mp
           /\ pk_decode_len(v) = pk_encode_len(k)
           /\ sig_decode_z_end(v) = sig_encode_len(s.set) - ML_DSA_PARAM[v].omega - ML_DSA_PARAM[v].k}

\* verify(pk, m, sig, ctx, param): ValueError when |ctx| > 255
Verify(k, m, c, p) ==
  LET v == reinit(p) IN
  /\ k \in keys /\ sig # None
  /\ CASE v = Raised ->
            /\ last' = Call("verify", k, m, c, "none", p, v, Raised)
            /\ UNCHANGED params
       [] c > 255 ->
            /\ params' = v
            /\ last' = Call("verify", k, m, c, "none", p, v, Raised)
       [] OTHER ->
            /\ params' = v
            /\ \E out \in VerifyOutcomes(k, Formatted(0, c, "none", m), sig, v) :
                 last' = Call("verify", k, m, c, "none", p, v, out)
  /\ UNCHANGED <<keys, sig>>

\* hash_ml_dsa_verify(pk, m, sig, ctx, ph, param): None when |ctx| > 255,
\* False when ph is not supported
HashVerify(k, m, c, ph, p) ==
  LET v == reinit(p) IN
  /\ k \in keys /\ sig # None
  /\ CASE v = Raised ->
            /\ last' = Call("hash_verify", k, m, c, ph, p, v, Raised)
            /\ UNCHANGED params
       [] c > 255 ->
            /\ params' = v
            /\ last' = Call("hash_verify", k, m, c, ph, p, v, None)
       [] ph \notin SupportedPreHash ->
            /\ params' = v
            /\ last' = Call("hash_verify", k, m, c, ph, p, v, FALSE)
       [] OTHER ->
            /\ params' = v
            /\ \E out \in VerifyOutcomes(k, Formatted(1, c, ph, m), sig, v) :
                 last' = Call("hash_verify", k, m, c, ph, p, v, out)
  /\ UNCHANGED <<keys, sig>>

\* The caller passes the signature on with a byte appended (an outer
\* encoding that does not strip its padding, a concatenated buffer).
AppendByte ==
  /\ sig # None /\ sig.extra < MaxExtra
  /\ sig' = [sig EXCEPT !.extra = @ + 1]
  /\ UNCHANGED <<params, keys, last>>

Params == Names \cup {NoParam}

Next ==
  \/ \E p \in Params : KeyGen(p)
  \/ \E k \in Supported, m \in Messages, c \in CtxLens, p \in Params :
       \/ Sign(k, m, c, p)
       \/ Verify(k, m, c, p)
       \/ \E ph \in PreHashes : HashSign(k, m, c, ph, p) \/ HashVerify(k, m, c, ph, p)
  \/ AppendByte

Spec == Init /\ [][Next]_vars

-----------------------------------------------------------------------------
VerifyOps == {"verify", "hash_verify"}

\* the last call verified the signature it was handed under the key and
\* M' that signature was produced for, whatever its outcome
VerifiedAsSigned ==
  /\ last # None /\ last.op \in VerifyOps
  /\ last.ctx <= 255
  /\ last.sig.key = last.key
  /\ last.sig.mp = Formatted(IF last.op = "verify" THEN 0 ELSE 1, last.ctx, last.ph, last.m)

(***************************************************************************)
(* Layout agreement (spec 4.5): a signature verified unchanged under the  *)
(* parameter set its key was generated and signed with is accepted, and  *)
(* the call does not raise.  It holds only if pk_decode, sk_decode and    *)
(* sig_decode slice exactly where pk_encode, sk_encode and sig_encode     *)
(* wrote, for all three real sets: a decoder reading too little rejects   *)
(* the signature, one reading too much indexes past the end.              *)
(***************************************************************************)
OwnSetRoundTrip ==
  /\ VerifiedAsSigned
  /\ last.sig.extra = 0
  /\ last.v = last.key /\ last.sig.set = last.key
  => last.out = TRUE

(***************************************************************************)
(* Decode failure is not a crash (spec 6(c) and 8): verify and            *)
(* hash_ml_dsa_verify called with a short context never raise, whatever   *)
(* signature and parameter selection they are handed.  pk_decode and     *)
(* sig_decode slice without a length check, so a buffer laid out for a    *)
(* smaller set, or a verify after a call that re-initialised the object,  *)
(* reaches bits_to_integer with a short slice.                             *)
(***************************************************************************)
VerifyNeverRaises ==
  last # None /\ last.op \in VerifyOps /\ last.ctx <= 255 /\ last.v # Raised
  => last.out # Raised

(***************************************************************************)
(* Wrong-length signatures are rejected (spec 6(c)): a verify that        *)
(* accepts was handed exactly the bytes a sign call returned.  sig_decode *)
(* stops reading at cl + bl*ell + omega + k and ignores the rest.         *)
(***************************************************************************)
AcceptsOnlyExactLength ==
  last # None /\ last.op \in VerifyOps /\ last.out = TRUE => last.sig.extra = 0
=============================================================================
