-------------------------- MODULE MCContractLedger --------------------------
(* A contract of two months of three days, seen from the day its first     *)
(* penalty accrues.                                                        *)
EXTENDS ContractLedger

MCNoCapital == [from |-> 1, to |-> 0, until |-> 0]
MCCapital == [from |-> 0, to |-> 0, until |-> 3]
=============================================================================
