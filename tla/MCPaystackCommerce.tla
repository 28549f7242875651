------------------------- MODULE MCPaystackCommerce -------------------------
(* Two orders at most: a subscription and its renewal, an API call beside  *)
(* an imported order, or one that Paystack pays for.                       *)
EXTENDS PaystackCommerce, TLC

CONSTANTS o1, o2

Listed(channel, needs, parent) == [channel |-> channel, needs |-> needs, parent |-> parent]
Unused == Listed("unused", {}, NoOrder)

TwoOrders == {o1, o2}

Renewals == {(o1 :> Listed("lemon", needs, NoOrder)) @@ (o2 :> Listed("renewal", needs, o1)) :
                needs \in SUBSET Inputs}
Mixed == {(o1 :> Listed("rapidapi", {"file"}, NoOrder)) @@ (o2 :> Listed("contra", {"text"}, NoOrder))}
Paid == {(o1 :> Listed("paystack", {"text"}, NoOrder)) @@ (o2 :> Unused)}

AllPortfolios == Renewals \cup Mixed \cup Paid
PaidPortfolio == Paid
=============================================================================
