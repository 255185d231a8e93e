-------------------------- MODULE MCLifecycleTracker --------------------------
(***************************************************************************)
(* Two bundles, two slots and one unsigned record: enough for one bundle   *)
(* to overtake another, for a landing before, at and after a committed     *)
(* slot, and for two bundles to complete in one call in either order.      *)
(***************************************************************************)
EXTENDS LifecycleTracker

CONSTANTS s1, s2

MCSigs    == {s1, s2}
MCSlots   == 1 .. 2
MCHeights == 1 .. 2
MCClasses == {"ExpiredBlockhash"}
===============================================================================
