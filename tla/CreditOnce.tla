----------------------------- MODULE CreditOnce -----------------------------
(***************************************************************************)
(* What an online payment promises, whatever the browser, the server and   *)
(* the bank do to each other: the contract is credited only with money the *)
(* bank has taken, and such money is never called failed.                  *)
(***************************************************************************)
CONSTANT Intents
VARIABLE phase

Phases == {"unpaid", "paid", "credited", "failed"}

Init == phase = [i \in Intents |-> "unpaid"]

Move(i, from, to) == phase[i] = from /\ phase' = [phase EXCEPT ![i] = to]

Next ==
    \E i \in Intents :
        \/ Move(i, "unpaid", "paid")
        \/ Move(i, "unpaid", "failed")
        \/ Move(i, "paid", "credited")

Spec == Init /\ [][Next]_phase
=============================================================================
