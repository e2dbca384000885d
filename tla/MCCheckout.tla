----------------------------- MODULE MCCheckout -----------------------------
(* Two carts that differ in one product, three presses, two customers.      *)
EXTENDS Checkout, TLC

CONSTANTS cola, colaAndRice

MCPriceOf == (cola :> 106 @@ colaAndRice :> 376)
=============================================================================
