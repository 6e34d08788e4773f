-------------------------- MODULE MCAccountingPush --------------------------
(* Two payments, so that a batch may be answered for in part.              *)
EXTENDS AccountingPush
=============================================================================
