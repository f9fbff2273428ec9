----------------------------- MODULE MCExchange -----------------------------
EXTENDS Exchange

CONSTANTS ann, bob

MCUsers == {ann, bob}

\* Two prices, in twentieths; at a Scale of 6 one unit at the lower price is rounded
\* down (20 to 18), one at the higher price up (40 to 42).
MCPrices == {20, 40}

\* ann can pay twice the higher price; bob cannot pay the higher one once he
\* has locked 105 % of the lower one.
MCFunds ==
    [a \in MCUsers \X Currencies |->
       CASE a[2] = "base" -> 2
         [] a = <<ann, "quote">> -> 80
         [] OTHER -> 60]

Request(u, side, type, p, q) ==
    [user |-> u, side |-> side, type |-> type, price |-> p, qty |-> q]

\* What makes a difference: sells of one unit at both prices, a sell that sweeps both;
\* buys at both prices, the higher meeting the user's own sells as well, and market
\* buys of one and of two units, of which bob cannot pay each.
MCRequests ==
    {Request(ann, "SELL", "LIMIT", 20, 1), Request(ann, "SELL", "LIMIT", 40, 1),
     Request(ann, "SELL", "MARKET", 0, 2),
     Request(ann, "BUY", "LIMIT", 40, 2), Request(ann, "BUY", "MARKET", 0, 1),
     Request(bob, "SELL", "LIMIT", 20, 1), Request(bob, "SELL", "LIMIT", 40, 1),
     Request(bob, "BUY", "LIMIT", 20, 1),
     Request(bob, "BUY", "MARKET", 0, 1), Request(bob, "BUY", "MARKET", 0, 2)}
=============================================================================
