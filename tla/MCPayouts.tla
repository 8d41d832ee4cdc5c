------------------------------- MODULE MCPayouts -------------------------------
(* One share of one sale, and one request to withdraw it.                     *)
EXTENDS Payouts, TLC

CONSTANTS d1, o1

OneShareNet  == d1 :> 1
OneShareSale == d1 :> o1
=============================================================================
