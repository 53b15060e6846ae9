----------------------------- MODULE NonceUtils -----------------------------
(***************************************************************************)
(* The byte-string checks of src/resources/utils.py that the test suite   *)
(* applies to what a server returns: nonces_must_be_diverse, and          *)
(* manipulate_first_byte, which corrupts a signature on purpose.  A byte  *)
(* string is a sequence of byte values; a call either returns or raises,  *)
(* and the model records which.                                           *)
(***************************************************************************)
EXTENDS Integers, SequencesExt, Bitwise

CONSTANTS
  Octets,     \* byte values the nonces are built from
  MaxLen,     \* bound on the length of one nonce
  MaxCount,   \* bound on the number of nonces in one list
  Distances   \* values of minimal_hamming_distance

ASSUME Octets \subseteq 0..255 /\ Distances \subseteq Nat

Nonce == BoundedSeq(Octets, MaxLen)

VARIABLES
  nonces,   \* the list passed to the two nonce checks
  dist,     \* minimal_hamming_distance
  data      \* the buffer passed to manipulate_first_byte

vars == <<nonces, dist, data>>

\* Either a list of nonces and a distance, or a buffer to corrupt (the
\* other inputs then empty): the checks are independent of each other.
Init ==
  \/ /\ nonces \in BoundedSeq(Nonce, MaxCount)
     /\ dist \in Distances
     /\ data = <<>>
  \/ /\ nonces = <<>>
     /\ dist = 0
     /\ data \in Nonce

\* The inputs are fixed; each check is a function of them.
Next == UNCHANGED vars

Spec == Init /\ [][Next]_vars

-----------------------------------------------------------------------------
RECURSIVE PopCount(_)
\* bin(n).count("1")
PopCount(n) == IF n = 0 THEN 0 ELSE (n % 2) + PopCount(n \div 2)

\* nonce.ljust(max_length, b"\x00")
ljust(s, n) == s \o [k \in 1..(n - Len(s)) |-> 0]

\* Mutant: the nonces compared as they are, zip cutting the longer one.
hamming_distance_unpadded(n1, n2) ==
  LET z == Zip(n1, n2)
  IN SumFunction([k \in DOMAIN z |-> PopCount(z[k][1] ^^ z[k][2])])

\* The shorter nonce padded with zeros, then
\* sum(bin(n1 ^ n2).count("1") for n1, n2 in zip(nonce1, nonce2)).
hamming_distance(n1, n2) ==
  LET L  == IF Len(n1) >= Len(n2) THEN Len(n1) ELSE Len(n2)
      z  == Zip(ljust(n1, L), ljust(n2, L))
  IN SumFunction([k \in DOMAIN z |-> PopCount(z[k][1] ^^ z[k][2])])

\* nonces_must_be_diverse: ValueError at the first pair of
\* combinations(nonces, 2) closer than minimal_hamming_distance.
nonces_must_be_diverse(s, d) ==
  IF \E i, j \in 1..Len(s) : i < j /\ hamming_distance(s[i], s[j]) < d
  THEN "ValueError" ELSE "ok"

\* Mutant: the test data[0] == 0 with its two results swapped.
manipulate_first_byte_swapped(s) ==
  CASE s = <<>>  -> "IndexError"
    [] s[1] = 0  -> <<0>> \o Tail(s)
    [] OTHER     -> <<1>> \o Tail(s)

\* manipulate_first_byte: b"\x01" + data[1:] if data[0] == 0, else
\* b"\x00" + data[1:]; data[0] of b"" raises IndexError.
manipulate_first_byte(s) ==
  CASE s = <<>>  -> "IndexError"
    [] s[1] = 0  -> <<1>> \o Tail(s)
    [] OTHER     -> <<0>> \o Tail(s)

-----------------------------------------------------------------------------
\* Reference: the number of bit positions at which the two nonces differ,
\* a missing byte reading as zero.
Bit(s, k, b) == IF k <= Len(s) THEN (s[k] \div (2^b)) % 2 ELSE 0

BitsApart(n1, n2) ==
  Cardinality({<<k, b>> \in (1..MaxLen) \X (0..7) : Bit(n1, k, b) # Bit(n2, k, b)})

(***************************************************************************)
(* nonces_must_be_diverse raises exactly when two nonces of the list, at  *)
(* any two positions, differ in fewer than minimal_hamming_distance bits  *)
(* once the shorter is zero-padded: no pair is skipped, and a nonce that  *)
(* differs from another only in its extra bytes is still compared on      *)
(* them.                                                                   *)
(***************************************************************************)
DiverseExactly ==
  (nonces_must_be_diverse(nonces, dist) = "ValueError")
    <=> \E i, j \in 1..Len(nonces) :
          i # j /\ BitsApart(nonces[i], nonces[j]) < dist

(***************************************************************************)
(* manipulate_first_byte, used to break a signature on purpose, returns a *)
(* buffer of the same length that differs from its input in the first    *)
(* byte and only there; only an empty buffer makes it raise.              *)
(***************************************************************************)
CorruptsFirstByteOnly ==
  LET r == manipulate_first_byte(data)
  IN IF data = <<>> THEN r = "IndexError"
     ELSE /\ r # "IndexError" /\ Len(r) = Len(data)
          /\ \A k \in 1..Len(data) : (r[k] = data[k]) <=> (k # 1)
=============================================================================
