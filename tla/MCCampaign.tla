------------------------------ MODULE MCCampaign ------------------------------
(* A starved transaction and one with a budget of two attempts.            *)
EXTENDS Campaign

MCSigs       == 1 .. 4
MCSlots      == {1}
MCHeights    == {1}
MCSendErrors == {"ComputeExceeded"}
===============================================================================
