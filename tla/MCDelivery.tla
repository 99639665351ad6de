----------------------------- MODULE MCDelivery -----------------------------
(* Small instances of Delivery for TLC. *)
EXTENDS Delivery, TLC

CONSTANTS m1, m2, alice

OneAddress == [m \in Messages |-> alice]
SesEvents      == {"delivered", "soft_bounced", "hard_bounced", "complained", "failed"}
PostmarkEvents == {"delivered", "soft_bounced", "hard_bounced", "complained"}

\* Billed without a subscription, then through a checkout, then with one.
BoughtLater  == [t \in Times |-> IF t < 2 THEN {FALSE} ELSE IF t = 2 THEN BOOLEAN ELSE {TRUE}]
NeverMetered == [t \in Times |-> {FALSE}]

Symmetry == Permutations(Messages) \cup Permutations(Workers)
=============================================================================
