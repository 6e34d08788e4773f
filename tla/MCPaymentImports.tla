-------------------------- MODULE MCPaymentImports --------------------------
(* One payment of ours, whose answer may come before, during or after the   *)
(* night's ingest, one statement, and two clerks for a record.              *)
EXTENDS PaymentImports
=============================================================================
