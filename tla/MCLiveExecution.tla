--------------------------- MODULE MCLiveExecution ---------------------------
(* Plans for model checking LiveExecution. *)
EXTENDS LiveExecution

SellBuy == <<"SELL", "BUY">>
TwoSellsBuy == <<"SELL", "SELL", "BUY">>

=============================================================================
