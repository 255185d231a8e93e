---------------------------- MODULE MCStreamClient ----------------------------
(***************************************************************************)
(* Three updates on two slots, so that an update of the older slot can     *)
(* trail one of the newer; a channel of one, so that every send can block; *)
(* two outages, so that the backoff grows past its cap.                    *)
(***************************************************************************)
EXTENDS StreamClient

MCWireSlots == 1 .. 2
===============================================================================
