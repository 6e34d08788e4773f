------------------------ MODULE MCLedgerTransactions ------------------------
(* Two payments, and one request of every other kind.                       *)
EXTENDS LedgerTransactions
=============================================================================
