------------------------------- MODULE MLDSA -------------------------------
(***************************************************************************)
(* The internal ML-DSA protocol of fips204.py: keygen_internal,           *)
(* sign_internal with its rejection-sampling loop, and verify_internal.   *)
(*                                                                         *)
(* The hash functions are idealised as injective: tr = H(pk) is kept as   *)
(* pk, mu = H(tr || M') as <<tr, M'>>, and c~ = H(mu || w1Encode(w1)) as  *)
(* <<mu, w1Encode(w1)>>.  SampleInBall(c~) is a fixed function supplied   *)
(* by the model; ExpandA(rho) is represented by its value (rho is the     *)
(* matrix), ExpandS by any secret with coefficients in -ETA..ETA.        *)
(* ExpandMask(rho'', kappa) is sampled lazily: the first pass of a call   *)
(* at a value of kappa draws any mask with coefficients in               *)
(* -GAMMA1+1..GAMMA1, and a later pass of the same call at that value    *)
(* gets the same mask back, as the hash of rho'' and kappa does.          *)
(***************************************************************************)
EXTENDS MLDSACodec

CONSTANTS
  TAU,          \* self.tau, weight of the challenge
  BETA,         \* self.beta = tau * eta
  Messages,     \* the formatted messages M' handed to sign_internal
  Matrices,     \* values of ExpandA(rho) for the seeds considered
  SampleInBall(_), \* c~ -> challenge polynomial
  NoKey,        \* model value: no key generated yet
  KappaWidth    \* bits of kappa that reach ExpandMask: 16 in the code

ASSUME /\ BETA = TAU * ETA
       /\ KappaWidth \in Nat \ {0}

VARIABLES
  pk,       \* the public key of the last keygen_internal call
  sk,       \* the secret key of the last keygen_internal call
  phase,    \* "keygen" before the key pair exists, "idle", or "signing"
            \* inside the while loop of sign_internal
  msg,      \* M' of the sign_internal call in progress
  kappa,    \* the loop counter, as its low KappaWidth bits
  sig,      \* the last signature returned, with its key and message;
            \* .signed is what sign_internal returned, .bytes what the
            \* verifier is handed
  verdict,  \* the last verify_internal call: its message, signature, result
  tried     \* the values of kappa at which this call has drawn a mask and
            \* rejected it: the part of ExpandMask(rho'', .) sampled so far

vars == <<pk, sk, phase, msg, kappa, sig, verdict, tried>>

Poly(lo, hi)   == [Coeffs -> lo..hi]
SecretVecs(n)  == [0..(n - 1) -> Poly(-ETA, ETA)]
Masks          == [0..(ELL - 1) -> Poly(-GAMMA1 + 1, GAMMA1)]
KappaModulus   == 2^KappaWidth

\* the values kappa mod 2^16 takes as kappa runs 0, ell, 2 ell, ...
KappaValues    == {(i * ELL) % KappaModulus : i \in 0..(KappaModulus - 1)}

\* Mutant: the counter passed on without the 2-byte truncation.
NextKappa_unwrapped(k) == k + ELL

\* Mutant: kappa += ell left out of the loop.
NextKappa_stuck(k) == k

\* kappa += ell, as it reaches ExpandMask: integer_to_bytes(kappa + r, 2)
\* keeps the low 16 bits (KappaWidth here).
NextKappa(k) == (k + ELL) % KappaModulus

\* power2round applied to every coefficient of a vector
Power2RoundVec(t, part) == [i \in DOMAIN t |-> [j \in Coeffs |-> power2round(t[i][j])[part]]]

TypeOK ==
  /\ phase \in {"keygen", "idle", "signing"}
  /\ (pk = NoKey) <=> (phase = "keygen")
  /\ kappa \in 0..(KappaModulus - 1)
  /\ tried \subseteq KappaValues
  /\ msg \in Messages
  /\ sig = None \/ (sig.m \in Messages /\ sig.pk = pk)
  /\ verdict = None \/ (verdict.m \in Messages /\ verdict.ok \in BOOLEAN)

Init ==
  /\ pk = NoKey /\ sk = NoKey
  /\ phase = "keygen"
  /\ msg \in Messages
  /\ kappa = 0
  /\ sig = None
  /\ verdict = None
  /\ tried = {}

(***************************************************************************)
(* keygen_internal(xi): t = A*s1 + s2, (t1, t0) = power2round(t),         *)
(* pk = pkEncode(rho, t1), tr = H(pk), sk = skEncode(rho, K, tr, s1, s2, *)
(* t0).  Each behaviour follows one key pair; a later key pair starts a   *)
(* behaviour of its own.                                                   *)
(***************************************************************************)
KeyPair(a, s1, s2) ==
  LET t   == add(matrix_vector(a, s1), s2)
      pkv == pk_encode(a, Power2RoundVec(t, 1))
  IN [pk |-> pkv, sk |-> sk_encode(a, "K", pkv, s1, s2, Power2RoundVec(t, 2))]

\* every key pair keygen_internal can return
KeyPairs == {KeyPair(a, s1, s2) : a \in Matrices, s1 \in SecretVecs(ELL),
                                  s2 \in SecretVecs(K)}

(***************************************************************************)
(* The rejection test of the signing loop: the norm check on z and on the *)
(* low bits r0, then the check on c t0 and on the hint weight.            *)
(***************************************************************************)
Rejected(z, r0, ct0, h) ==
  \/ inf_norm(z) >= GAMMA1 - BETA
  \/ inf_norm(r0) >= GAMMA2 - BETA
  \/ inf_norm(ct0) >= GAMMA2
  \/ weight(h) > OMEGA

(***************************************************************************)
(* One iteration of the while loop of sign_internal with mask y.  The     *)
(* attempt is rejected when ||z|| >= gamma1 - beta or ||r0|| >= gamma2 -  *)
(* beta, or else when ||c t0|| >= gamma2 or the hint weighs more than     *)
(* omega.  On acceptance z is reduced with modpm and sig_encode'd.        *)
(***************************************************************************)
AttemptWith(skv, m, y) ==
  LET dec  == sk_decode(skv)
      a    == dec[1]
      s1   == dec[4]
      s2   == dec[5]
      t0   == dec[6]
      mu   == <<dec[3], m>>
      w    == matrix_vector(a, y)
      ct   == <<mu, w1_encode(high_bits(w))>>
      c    == SampleInBall(ct)
      cs2  == scalar_vector(c, s2)
      z    == add(y, scalar_vector(c, s1))
      r0   == low_bits(sub(w, cs2))
      ct0  == scalar_vector(c, t0)
      h    == make_hint(neg(ct0), add(sub(w, cs2), ct0))
  IN [rejected |-> Rejected(z, r0, ct0, h),
      out      |-> sig_encode(ct, [i \in DOMAIN z |->
                                   [j \in Coeffs |-> modpm(z[i][j], Q)]], h)]

Attempt(y) == AttemptWith(sk, msg, y)

\* sign_internal(sk, M', rnd) is entered: kappa = 0.  The model follows
\* the signature this call will return; earlier ones are dropped.
SignStart(m) ==
  /\ phase = "idle"
  /\ phase' = "signing" /\ msg' = m /\ kappa' = 0
  /\ sig' = None /\ verdict' = None /\ tried' = {}
  /\ UNCHANGED <<pk, sk>>

\* keygen_internal
KeyGen ==
  /\ phase = "keygen"
  /\ \E kp \in KeyPairs : pk' = kp.pk /\ sk' = kp.sk
  /\ phase' = "idle"
  /\ UNCHANGED <<msg, kappa, sig, verdict, tried>>

\* A pass of the while loop at a kappa this call has not reached before:
\* y = ExpandMask(rho'', kappa) is a fresh mask.  A rejected pass does
\* kappa += ell; an accepted one leaves the loop and returns the signature.
SignAttempt(y) ==
  LET pass == Attempt(y)
  IN /\ phase = "signing" /\ kappa \notin tried
     /\ IF pass.rejected
          THEN /\ kappa' = NextKappa(kappa) /\ tried' = tried \cup {kappa}
               /\ UNCHANGED <<phase, sig>>
          ELSE /\ sig' = [pk |-> pk, m |-> msg, bytes |-> pass.out, signed |-> pass.out]
               /\ phase' = "idle" /\ kappa' = 0 /\ tried' = {}  \* locals die with the call
     /\ UNCHANGED <<pk, sk, msg, verdict>>

\* A pass at a kappa this call has reached before (kappa mod 2^16 has
\* wrapped): ExpandMask returns the mask drawn then, and the whole pass,
\* a function of y, sk and mu, is rejected again.
SignRepeat ==
  /\ phase = "signing" /\ kappa \in tried
  /\ kappa' = NextKappa(kappa)
  /\ UNCHANGED <<pk, sk, phase, msg, sig, verdict, tried>>

(***************************************************************************)
(* verify_internal(pk, M', sig): false when the hint does not decode;     *)
(* otherwise w'1 = UseHint(h, A z - c t1 2^d) and the result is           *)
(* ||z|| < gamma1 - beta and c~ = H(mu || w1Encode(w'1)).                 *)
(***************************************************************************)
VerifyResult(m, bytes) ==
  LET pkd == pk_decode(pk)
      sd  == sig_decode(bytes)
      ct  == sd[1]
      z   == sd[2]
      h   == sd[3]
      c   == SampleInBall(ct)
      t1d == [i \in DOMAIN pkd[2] |-> [j \in Coeffs |-> pkd[2][i][j] * 2^D]]
      wp  == sub(matrix_vector(pkd[1], z), scalar_vector(c, t1d))
  IN IF h = None THEN FALSE
     ELSE /\ inf_norm(z) < GAMMA1 - BETA
          /\ ct = <<<<pk, m>>, w1_encode(use_hint(h, wp))>>

Verify(m) ==
  /\ phase = "idle" /\ sig # None
  /\ verdict' = [m |-> m, sig |-> sig, ok |-> VerifyResult(m, sig.bytes)]
  /\ UNCHANGED <<pk, sk, phase, msg, kappa, sig, tried>>

(***************************************************************************)
(* The signature's hint bytes are replaced by any other OMEGA + K bytes    *)
(* on their way to the verifier.  A byte is an index 0..N-1 (0..255 in    *)
(* the code).                                                              *)
(***************************************************************************)
TamperHint(yb) ==
  /\ phase = "idle" /\ sig # None
  /\ yb # sig.bytes.h
  /\ sig' = [sig EXCEPT !.bytes.h = yb]
  /\ verdict' = None
  /\ UNCHANGED <<pk, sk, phase, msg, kappa, tried>>

Next ==
  \/ KeyGen
  \/ \E m \in Messages : SignStart(m)
  \/ \E y \in Masks : SignAttempt(y)
  \/ SignRepeat
  \/ \E m \in Messages : Verify(m)
  \/ \E yb \in [HintBytes -> Coeffs] : TamperHint(yb)

Spec == Init /\ [][Next]_vars

\* one pass of the while loop of sign_internal, whichever it is
LoopPass == (\E y \in Masks : SignAttempt(y)) \/ SignRepeat

(***************************************************************************)
(* Fairness of the signing loop.  Once entered, the while loop of          *)
(* sign_internal runs pass after pass with nothing to wait for, so a pass *)
(* is eventually taken while the call is in the loop: weak fairness of    *)
(* LoopPass.  Nothing is assumed about which masks ExpandMask yields, and *)
(* the callers are not fair: no sign or verify call is ever forced.       *)
(***************************************************************************)
FairSpec == Spec /\ WF_vars(LoopPass)

\* ENABLED <<LoopPass>>_vars as a state predicate: a pass at a fresh kappa
\* always changes tried or phase, a repeated pass changes kappa.
LoopEnabled ==
  /\ phase = "signing"
  /\ kappa \notin tried \/ NextKappa(kappa) # kappa

\* WF_vars(LoopPass) in the form TLC evaluates cheaply per transition:
\* its ENABLED is LoopEnabled, and in Spec every step from "signing" that
\* changes vars is a LoopPass step.
LoopFairness == <>[]LoopEnabled => []<><<phase = "signing">>_vars

FairSpecTLC == Spec /\ LoopFairness

-----------------------------------------------------------------------------
(***************************************************************************)
(* Round trip (spec section 8): verify_internal accepts every signature   *)
(* sign_internal returns for the same key and message.  It depends on the *)
(* four rejection conditions of the signing loop, on Decompose's          *)
(* wrap-around correction and on UseHint stepping the right way, and on   *)
(* the codec carrying z, t0 and the hint without loss.                    *)
(***************************************************************************)
RoundTrip ==
  /\ verdict # None
  /\ verdict.m = verdict.sig.m
  /\ verdict.sig.bytes = verdict.sig.signed
  => verdict.ok

(***************************************************************************)
(* Strong unforgeability of the encoding: verify_internal accepts only    *)
(* the exact hint bytes sign_internal produced.  hint_bit_unpack must     *)
(* reject every other byte string that would decode to the same hint      *)
(* (non-increasing indices, nonzero padding, out-of-range offsets).        *)
(***************************************************************************)
HintEncodingUnique ==
  verdict # None /\ verdict.ok => verdict.sig.bytes = verdict.sig.signed

(***************************************************************************)
(* Progress of sign_internal under FairSpec: every call either returns a  *)
(* signature or draws the mask of every value kappa mod 2^16 can take     *)
(* before any mask comes back.  The loop has no cap, so a call whose      *)
(* 2^16 / gcd(ell, 2^16) distinct masks are all rejected spins for ever;  *)
(* the property says that nothing short of that does: kappa advances on   *)
(* every rejected pass and the mask at a value of kappa is drawn once.   *)
(***************************************************************************)
SignReturnsOrExhausts == phase = "signing" ~> (phase = "idle" \/ tried = KappaValues)

-----------------------------------------------------------------------------
(***************************************************************************)
(* Refinement: keygen_internal, the rejection loop of sign_internal and   *)
(* verify_internal implement the abstract scheme of module               *)
(* SignatureScheme.  A rejected pass of the loop is a stuttering step;    *)
(* the accepted pass is Finish; TamperHint is Relay; a signature is       *)
(* genuine when its bytes are those sign_internal returned.  Checking     *)
(* SchemeSpec checks in one property that verification accepts every     *)
(* returned signature, rejects every altered one, and is bound to the     *)
(* message: a signature of M' never verifies for another message.          *)
(***************************************************************************)
Scheme == INSTANCE SignatureScheme WITH
  keyed   <- phase # "keygen",
  busy    <- phase = "signing",
  pending <- msg,
  out     <- IF sig = None THEN None
             ELSE [m |-> sig.m, genuine |-> sig.bytes = sig.signed],
  verdict <- IF verdict = None THEN None
             ELSE [m |-> verdict.m, ok |-> verdict.ok]

=============================================================================
