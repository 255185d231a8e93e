------------------------------- MODULE MCPricing -------------------------------
(***************************************************************************)
(* Five slots and a window of three, so that slots leave it and gaps and   *)
(* late slots occur, with rates in every congestion tier.  Two floors on   *)
(* either side of the operator's bounds; the Sender minimum between them,  *)
(* as on mainnet.                                                          *)
(***************************************************************************)
EXTENDS Pricing

FloorOf(p25, p50, p75, p95, p99, ema) ==
    [p \in Percentiles |->
        CASE p = "p25" -> p25 [] p = "p50" -> p50 [] p = "p75" -> p75
          [] p = "p95" -> p95 [] p = "p99" -> p99 [] p = "ema_p50" -> ema]

MCOperator == [min |-> 2, max |-> 6]
MCFallback == FloorOf(1, 2, 3, 4, 5, 2)
MCFloors   == {FloorOf(1, 1, 2, 3, 7, 0), FloorOf(3, 5, 5, 8, 9, 6)}
MCSlots    == 1 .. 5
MCTips     == 0 .. 7
===============================================================================
