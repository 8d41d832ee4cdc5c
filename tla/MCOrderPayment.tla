--------------------------- MODULE MCOrderPayment ---------------------------
(***************************************************************************)
(* Instances of OrderPayment for TLC: one order of one digital and one     *)
(* printed line, since handlers of distinct orders share no row, and two   *)
(* payment attempts at one provider or at two.                             *)
(***************************************************************************)
EXTENDS OrderPayment, TLC

CONSTANTS o1, ebook, print, a1, a2, card, momo

MCOrders     == {o1}
MCItems      == {ebook, print}
MCAttempts   == {a1, a2}
MCProviders  == {card, momo}
MCOrderOf    == [a \in MCAttempts |-> o1]
MCItemOrder  == [i \in MCItems |-> o1]
MCDigital    == {ebook}
TwoProviders == a1 :> card @@ a2 :> momo
OneProvider  == [a \in MCAttempts |-> card]

Interchangeable == Permutations(Events) \cup Permutations(Refunds)
=============================================================================
