--------------------------- MODULE MCPaymentAmounts ---------------------------
(* PaymentAmounts for TLC: a currency of each exponent, and decimals with  *)
(* too few, enough and too many digits, a zero and two amounts at the ends *)
(* of the column and of the safe integers, all scaled down.                *)
EXTENDS PaymentAmounts

MCPrices ==
    {[whole |-> 1, fraction |-> <<5>>], [whole |-> 0, fraction |-> <<>>],
     [whole |-> 12, fraction |-> <<0, 0, 5>>], [whole |-> 100, fraction |-> <<0>>]}
MCCurrencies == {"usd", "jpy", "kwd"}
MCZero  == {"jpy"}
MCThree == {"kwd"}
=============================================================================
