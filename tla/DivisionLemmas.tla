--------------------------- MODULE DivisionLemmas ---------------------------
(***************************************************************************)
(* Facts about products and quotients that the proofs of several modules   *)
(* need: the interval of the monitor, the limits of the nodes.             *)
(***************************************************************************)
EXTENDS Integers, TLAPS

(* A quotient and its remainder. *)
LEMMA DivFacts ==
  ASSUME NEW a \in Nat, NEW b \in Nat \ {0}
  PROVE  /\ a \div b \in Nat /\ a % b \in 0 .. b - 1
         /\ a = b * (a \div b) + (a % b)
OBVIOUS

(* A quotient is at least, or at most, what its product with b says. *)
LEMMA AtMost ==
  ASSUME NEW q \in Int, NEW m \in Int, NEW b \in Nat \ {0}, b * q <= b * m
  PROVE  q <= m
OBVIOUS

LEMMA AtLeast ==
  ASSUME NEW q \in Int, NEW m \in Int, NEW b \in Nat \ {0}, b * m < b * q + b
  PROVE  m <= q
OBVIOUS

LEMMA Distributes ==
  ASSUME NEW a \in Int, NEW b \in Int, NEW c \in Int
  PROVE  /\ a * (b + c) = a * b + a * c /\ a * (b - c) = a * b - a * c
         /\ a * b = b * a /\ a * b \in Int
OBVIOUS
=============================================================================
