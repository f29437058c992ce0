----------------------------- MODULE MCPayments -----------------------------
(* Instances of Payments for TLC.                                          *)
EXTENDS Payments, TLC

CONSTANTS r1, r2

Slots == Permutations({r1, r2})

OrderAndLink == { <<"CHECKOUT", "ADVANCE">>, <<"LINK", "BALANCE">> }
=============================================================================
