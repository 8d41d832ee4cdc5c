-------------------------------- MODULE Sale --------------------------------
(***************************************************************************)
(* What the order and payment services promise about one sale, whatever    *)
(* the interleaving of requests, notifications and restarts:               *)
(*   - an order is sold at most once, and only when a provider has really  *)
(*     captured the expected amount for one of its payment attempts;       *)
(*   - money goes back to the buyer only for an order that was sold;       *)
(*   - a sold order is withdrawn at most once, after money went back, and  *)
(*     it is never sold again.                                             *)
(* It says nothing of order or payment statuses: see OrderPayment for the  *)
(* code, which implements this specification.                              *)
(***************************************************************************)

CONSTANTS Orders,     \* the orders of the marketplace
          Attempts,   \* the payment attempts buyers may open
          OrderOf     \* the order each attempt pays for

VARIABLES captured,   \* attempts whose full amount the provider captured
          sale,       \* "unsold", "sold" or "withdrawn", for each order
          repaid      \* attempts the provider was told to reimburse

vars == <<captured, sale, repaid>>

TypeOK ==
  /\ captured \subseteq Attempts
  /\ sale \in [Orders -> {"unsold", "sold", "withdrawn"}]
  /\ repaid \subseteq Attempts

Init ==
  /\ captured = {}
  /\ sale = [o \in Orders |-> "unsold"]
  /\ repaid = {}

\* The provider captures the money of an attempt.
Capture(a) ==
  /\ captured' = captured \cup {a}
  /\ UNCHANGED <<sale, repaid>>

\* The reader gets the works and the authors their share.
Sell(o) ==
  /\ sale[o] = "unsold"
  /\ \E a \in captured : OrderOf[a] = o
  /\ sale' = [sale EXCEPT ![o] = "sold"]
  /\ UNCHANGED <<captured, repaid>>

\* The provider is told to give the money of an attempt back.
Repay(a) ==
  /\ sale[OrderOf[a]] # "unsold"
  /\ repaid' = repaid \cup {a}
  /\ UNCHANGED <<captured, sale>>

\* The reader loses the works and the authors their share.
Withdraw(o) ==
  /\ sale[o] = "sold"
  /\ \E a \in repaid : OrderOf[a] = o
  /\ sale' = [sale EXCEPT ![o] = "withdrawn"]
  /\ UNCHANGED <<captured, repaid>>

Next ==
  \/ \E a \in Attempts : Capture(a) \/ Repay(a)
  \/ \E o \in Orders : Sell(o) \/ Withdraw(o)

Spec == Init /\ [][Next]_vars
=============================================================================
