---------------------------- MODULE SampleInBall ----------------------------
(***************************************************************************)
(* sample_in_ball(rho) of fips204.py (Algorithm 29): the inside-out       *)
(* Fisher-Yates shuffle that places TAU entries +-1 in a polynomial of N  *)
(* zeros (256 in the code).  The eight sign bytes s = xof.read(8) are the *)
(* sign bits h, any values; each xof.read(1)[0] is a draw j, any value,   *)
(* where every byte above N - 1 behaves alike (it is > i and re-drawn).    *)
(***************************************************************************)
EXTENDS Integers, FiniteSets

CONSTANTS
  N,     \* coefficients per polynomial: 256 in the code
  TAU    \* self.tau, the number of nonzero entries

ASSUME N \in Nat \ {0} /\ TAU \in 1..N

VARIABLES
  c,   \* the list c = [0] * 256
  i,   \* the for loop's index, from 256 - tau to 255
  h    \* h = bytes_to_bits(s): the sign bits h[0 .. tau-1] that are read

vars == <<c, i, h>>

\* (-1) ** h[k]
ChallengeSign(b) == IF b = 0 THEN 1 ELSE -1

Init ==
  /\ c = [k \in 0..(N - 1) |-> 0]
  /\ i = N - TAU
  /\ h \in [0..(TAU - 1) -> {0, 1}]

\* Mutant: the new entry written before c[j] is moved to c[i].
Draw_swapped(j) ==
  /\ i < N
  /\ IF j > i
       THEN UNCHANGED vars
       ELSE /\ c' = [c EXCEPT ![j] = ChallengeSign(h[i + TAU - N]),
                               ![i] = ChallengeSign(h[i + TAU - N])]
            /\ i' = i + 1
            /\ UNCHANGED h

(***************************************************************************)
(* One byte j of the stream at loop index i: "while j > i" re-draws, so a *)
(* byte above i leaves everything as it was; otherwise c[i] = c[j] and    *)
(* then c[j] = (-1) ** h[i + tau - 256], and the for loop moves on.       *)
(***************************************************************************)
Draw(j) ==
  /\ i < N
  /\ IF j > i
       THEN UNCHANGED vars
       ELSE /\ c' = [c EXCEPT ![i] = c[j], ![j] = ChallengeSign(h[i + TAU - N])]
            /\ i' = i + 1
            /\ UNCHANGED h

Next == \E j \in 0..N : Draw(j)

\* The function returns once i = 256.
Spec == Init /\ [][Next]_vars

-----------------------------------------------------------------------------
\* positions of c holding v
Holding(v) == {k \in 0..(N - 1) : c[k] = v}

\* the sign bits used so far: h[0 .. i - (256 - tau) - 1]
UsedBits == {k \in 0..(TAU - 1) : k < i - (N - TAU)}

(***************************************************************************)
(* The shuffle never loses or duplicates an entry: after each pass the    *)
(* list holds only 0 and +-1, exactly one nonzero entry per sign bit used *)
(* so far, and as many -1 entries as used sign bits are 1.  At the end    *)
(* the challenge has weight exactly tau, which verify_internal and the    *)
(* norm bound beta = tau * eta rely on.                                    *)
(***************************************************************************)
BallHoldsDrawnSigns ==
  /\ \A k \in 0..(N - 1) : c[k] \in {-1, 0, 1}
  /\ Cardinality(Holding(1)) + Cardinality(Holding(-1)) = Cardinality(UsedBits)
  /\ Cardinality(Holding(-1)) = Cardinality({k \in UsedBits : h[k] = 1})
=============================================================================
