------------------------------ MODULE MCMLDSA ------------------------------
(***************************************************************************)
(* A toy ML-DSA for TLC: Z_97[X]/(X^2 + 1), one row and one column, with  *)
(* 2*gamma2 = 16 dividing q - 1 so that Decompose's wrap-around case      *)
(* (rp - r0 = q - 1, rp in 89..96) occurs, d = 4 so that ||c t0|| can     *)
(* reach gamma2 exactly, and omega = 1 so that the hint weight check can  *)
(* reject.                                                                 *)
(***************************************************************************)
EXTENDS MLDSA

\* three seeds rho and their matrices ExpandA(rho)
MCMatrices ==
  { [r \in {0} |-> [s \in {0} |-> p]] :
      p \in { (0 :> 1 @@ 1 :> 0), (0 :> 17 @@ 1 :> 55), (0 :> 90 @@ 1 :> 3) } }

\* one seed rho and its matrix: the instance for the termination check
MCOneMatrix == { [r \in {0} |-> [s \in {0} |-> (0 :> 5 @@ 1 :> 33)]] }

\* the polynomials with TAU = 1 coefficient +-1: the image of SampleInBall
ChallengeList ==
  << (0 :> 1 @@ 1 :> 0), (0 :> -1 @@ 1 :> 0), (0 :> 0 @@ 1 :> 1), (0 :> 0 @@ 1 :> -1) >>

\* a fixed function of c~ = <<<<pk, M'>>, w1Encode(w1)>> into ChallengeList
MCSampleInBall(ct) ==
  LET tr  == ct[1][1]
      w1e == ct[2]
      mix == ct[1][2]
             + SumFunction([j \in Coeffs |-> (j + 1) * w1e[0][j]])
             + SumFunction([j \in Coeffs |-> (2 * j + 3) * tr.t1[0][j]])
  IN ChallengeList[(mix % Len(ChallengeList)) + 1]
=============================================================================
