--------------------------- MODULE MCObserverDeck ---------------------------
(* A transaction that the next block also reports, with another one and    *)
(* the same final height, and a block that is final at the height of the   *)
(* first one.                                                              *)
EXTENDS ObserverDeck

Inputs ==
    {[txs |-> <<"a">>, bh |-> 1, conf |-> 1],
     [txs |-> <<"a", "b">>, bh |-> 2, conf |-> 0],
     [txs |-> <<"b">>, bh |-> 0, conf |-> 1]}
=============================================================================
