--------------------------- MODULE PaymentPromise ---------------------------
(***************************************************************************)
(* What an invoice promises to the people who pay it: a payment happens at *)
(* once or not at all, adds a positive amount to what has been paid, and   *)
(* leaves the status saying whether the total has been reached.            *)
(***************************************************************************)
EXTENDS Integers

VARIABLES status, total, paid

Init ==
    /\ status \in {"DRAFT", "SENT", "OVERDUE"}
    /\ total \in Nat \ {0}
    /\ paid = 0

Pay ==
    /\ paid' \in Nat /\ paid' > paid
    /\ status' = IF paid' >= total THEN "PAID" ELSE "PARTIALLY_PAID"
    /\ UNCHANGED total

Spec == Init /\ [][Pay]_<<status, total, paid>>
=============================================================================
