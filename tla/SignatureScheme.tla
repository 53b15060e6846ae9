-------------------------- MODULE SignatureScheme --------------------------
(***************************************************************************)
(* What a signature scheme promises its caller, with no arithmetic: after *)
(* a key pair exists, signing a message M' eventually hands back a        *)
(* signature; the caller may pass it on as returned or altered; and a     *)
(* verification accepts exactly an unaltered signature checked against    *)
(* the message it was made for.                                           *)
(***************************************************************************)
CONSTANTS
  Messages,   \* messages M'
  None        \* no signature / no verdict yet

VARIABLES
  keyed,     \* a key pair exists
  busy,      \* a sign call is in progress
  pending,   \* the message of the sign call in progress
  out,       \* the signature held by the caller: its message, and whether
             \* its bytes are the ones sign returned
  verdict    \* the last verification: message and result

vars == <<keyed, busy, pending, out, verdict>>

Init ==
  /\ keyed = FALSE /\ busy = FALSE
  /\ pending \in Messages
  /\ out = None /\ verdict = None

Gen ==
  /\ ~keyed /\ keyed' = TRUE
  /\ UNCHANGED <<busy, pending, out, verdict>>

Begin(m) ==
  /\ keyed /\ ~busy
  /\ busy' = TRUE /\ pending' = m
  /\ out' = None /\ verdict' = None
  /\ UNCHANGED keyed

Finish ==
  /\ busy /\ busy' = FALSE
  /\ out' = [m |-> pending, genuine |-> TRUE]
  /\ UNCHANGED <<keyed, pending, verdict>>

\* the caller passes the signature on, altered or not
Relay(g) ==
  /\ keyed /\ ~busy /\ out # None
  /\ out' = [out EXCEPT !.genuine = g] /\ verdict' = None
  /\ UNCHANGED <<keyed, busy, pending>>

Check(m) ==
  /\ keyed /\ ~busy /\ out # None
  /\ verdict' = [m |-> m, ok |-> out.genuine /\ out.m = m]
  /\ UNCHANGED <<keyed, busy, pending, out>>

Next ==
  \/ Gen \/ Finish
  \/ \E m \in Messages : Begin(m) \/ Check(m)
  \/ \E g \in BOOLEAN : Relay(g)

Spec == Init /\ [][Next]_vars
=============================================================================
