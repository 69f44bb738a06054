---------------------------- MODULE BillingPromise ----------------------------
(***************************************************************************)
(* What a schedule billed on completion promises a student's parent: an    *)
(* evaluation counts sessions that were never counted before, all in the   *)
(* cycle that is open; when the cycle is full it is closed with one        *)
(* invoice of its own, and the next cycle is opened empty.                 *)
(***************************************************************************)
EXTENDS Naturals, Sequences, FiniteSets

CONSTANTS Date, SessionsPerCycle

VARIABLES cycles,     \* in order: the sessions of a cycle and its invoice
          invoices    \* the invoices that exist

Unbilled == 0
Sessions == UNION {cycles[k].dates : k \in DOMAIN cycles}

\* The cycles before the open one, and the sessions of the open one.
Closed == IF cycles = <<>> THEN <<>> ELSE SubSeq(cycles, 1, Len(cycles) - 1)
Open   == IF cycles = <<>> THEN {} ELSE cycles[Len(cycles)].dates

Init == cycles = <<>> /\ invoices = {}

\* An evaluation that has counted the sessions "dates".
Evaluate(dates) ==
    LET now == Open \cup dates IN
    \/ /\ Cardinality(now) < SessionsPerCycle
       /\ cycles' = Append(Closed, [dates |-> now, invoice |-> Unbilled])
       /\ UNCHANGED invoices
    \/ \E v \in invoices' \ invoices :
       /\ Cardinality(now) >= SessionsPerCycle
       /\ v # Unbilled /\ invoices' = invoices \cup {v}
       /\ cycles' = Closed \o <<[dates |-> now, invoice |-> v],
                                [dates |-> {}, invoice |-> Unbilled]>>

Next == \E dates \in SUBSET (Date \ Sessions) : Evaluate(dates)
Spec == Init /\ [][Next]_<<cycles, invoices>>
=============================================================================
