------------------------- MODULE MCContractApproval -------------------------
(* Two contracts, two requests and one slip: the least for a take-over.     *)
EXTENDS ContractApproval
=============================================================================
