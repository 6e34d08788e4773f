------------------------- MODULE MCServiceProvision -------------------------
(* Two versions of the charges: one that is being sent or saved, and the    *)
(* one that has replaced it.                                                *)
EXTENDS ServiceProvision
=============================================================================
