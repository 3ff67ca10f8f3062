----------------------------- MODULE MCPayments -----------------------------
(* Instances of Payments for TLC: k1 is a cash collection by a marketer, any *)
(* other key a mobile payment.                                               *)
EXTENDS Payments

CONSTANTS h1, h2, k1, k2, p1, m1

MCDto == [k \in Keys |->
    [policy |-> p1, amount |-> IF k = k1 THEN 2 ELSE 1, marketer |-> m1,
     method |-> IF k = k1 THEN "Token Field Collection" ELSE "Mobile Money"]]
=============================================================================
