-------------------------- MODULE MCSessionBilling --------------------------
(* An instance of SessionBilling for TLC.                                   *)
EXTENDS SessionBilling

Setting(timing, n, absent) ==
    [invoice_creation_timing |-> timing, sessions_per_cycle |-> n,
     bill_absent_sessions |-> absent, cycle_start_date |-> 1, is_active |-> TRUE]

\* Settings an administrator switches between: timing, cycle length, absences,
\* first billed date, active or not.
ManySettings ==
    {Setting("ON_COMPLETION", 1, FALSE),
     [Setting("AUTO", 2, TRUE) EXCEPT !.cycle_start_date = 2],
     Setting("START_OF_PERIOD", 2, FALSE),
     [Setting("ON_COMPLETION", 1, FALSE) EXCEPT !.is_active = FALSE]}
=============================================================================
