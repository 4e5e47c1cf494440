-------------------------- MODULE MCExecStateStore --------------------------
(***************************************************************************)
(* An UP/DOWN pair with an order of this process that is filled twice, once *)
(* on the complementary book, and an order left from an earlier process.   *)
(***************************************************************************)
EXTENDS ExecStateStore

MCOrders ==
    [o \in OrderIds |->
        IF o = "o1" THEN [asset |-> "UP", side |-> "BID", size |-> 3]
                    ELSE [asset |-> "DOWN", side |-> "ASK", size |-> 2]]

MCTrades ==
    [t \in TradeIds |->
        IF t = "t1" THEN [order |-> "o1", role |-> "MAKER", book |-> "DOWN", side |-> "ASK",
                          price |-> 1, size |-> 5, amount |-> 2]
                    ELSE [order |-> "o2", role |-> "TAKER", book |-> "DOWN", side |-> "ASK",
                          price |-> 2, size |-> 2, amount |-> 0]]
=============================================================================
