---------------------------- MODULE InvoiceLedger ----------------------------
(***************************************************************************)
(* One parent invoice, its receipts, and the requests that administrators  *)
(* send about it at the same time: payments (add_payment, mark_paid),      *)
(* discounts, edits of the invoice (PATCH) and bulk issuing.               *)
(*                                                                         *)
(* Every request loads the invoice first, outside any transaction, and     *)
(* works on that copy.  Nothing is locked on purpose: the database runs at *)
(* READ COMMITTED, a transaction holds the lock of a row it has updated    *)
(* until it commits, and the unique index on receipt numbers holds back a  *)
(* second insertion of a number until the first one commits.               *)
(***************************************************************************)
EXTENDS Integers, FiniteSets, Largest

CONSTANTS
    Request,       \* the requests about the invoice
    Nobody,        \* no request: the invoice's row lock is free
    Subtotal,      \* the sum of the invoice's items
    Amounts,       \* the amounts add_payment is called with
    Discounts,     \* the fixed discounts apply_discount is called with
    EditTo,        \* the statuses an edit sets; "KEEP" leaves it as it is
    FirstStatus,   \* the statuses the invoice may start in
    PastDue,       \* TRUE iff the invoice's due_date has passed
    MaxOther       \* bound on the receipt numbers of the other invoices

Status == {"DRAFT", "SENT", "PARTIALLY_PAID", "PAID", "OVERDUE", "CANCELLED"}
Pc == {"idle", "balancing", "settling", "paying", "numbered", "inserted",
       "waiting", "locked", "written", "saving", "done", "failed"}

ASSUME LedgerAssumption ==
    /\ Nobody \notin Request
    /\ Subtotal \in Nat \ {0}
    /\ Amounts \subseteq Nat \ {0} /\ Discounts \subseteq Nat
    /\ EditTo \subseteq Status \cup {"KEEP"}
    /\ FirstStatus \subseteq {"DRAFT", "SENT", "OVERDUE"}
    /\ PastDue \in BOOLEAN /\ MaxOther \in Nat

VARIABLES
    invoice,       \* the committed status and total of the invoice
    paid,          \* the sum of its committed receipts
    receipts,      \* the numbers of its committed receipts
    others,        \* the receipt numbers of the academy's other invoices
    lock,          \* the request that holds the lock of the invoice's row
    pc,            \* how far each request is
    seen,          \* the copy of the invoice a request works on
    slip           \* what a request asks for and the receipt it is writing

vars == <<invoice, paid, receipts, others, lock, pc, seen, slip>>

NoSlip == [op |-> "none", amount |-> 0, number |-> 0]

-----------------------------------------------------------------------------
(* What a request reads.                                                   *)

\* Requests with a receipt inserted in a transaction that has not committed.
Inserting == {r \in Request : pc[r] \in {"inserted", "waiting", "locked", "written"}}

\* get_paid_amount: committed receipts and the request's own.
PaidSeenBy(r) == IF r \in Inserting THEN paid + slip[r].amount ELSE paid

\* generate_receipt_number: one more than the last committed receipt of the
\* academy (DocumentNumbering looks at how the code finds the last one).
NextNumber == 1 + Latest({0} \cup receipts \cup others)

\* update_status on a copy inv of the invoice.
Updated(inv, sum) ==
    IF inv.status = "CANCELLED" THEN "CANCELLED"
    ELSE IF inv.total > 0 /\ sum >= inv.total THEN "PAID"
    ELSE IF inv.total > 0 /\ sum > 0 THEN "PARTIALLY_PAID"
    ELSE IF inv.status = "DRAFT" THEN "DRAFT"
    ELSE IF PastDue /\ inv.status \notin {"PAID", "PARTIALLY_PAID"} THEN "OVERDUE"
    ELSE IF ~PastDue /\ inv.total = 0 /\ sum > 0 THEN "PAID"
    ELSE inv.status

\* calculate_totals with a fixed discount.
Discounted(value) == IF value > Subtotal THEN 0 ELSE Subtotal - value

-----------------------------------------------------------------------------
(* The start of a request: it loads the invoice and checks the copy.       *)

Start(r, op, amount, copy, where) ==
    /\ pc[r] = "idle"
    /\ pc' = [pc EXCEPT ![r] = where]
    /\ seen' = [seen EXCEPT ![r] = copy]
    /\ slip' = [slip EXCEPT ![r] = [op |-> op, amount |-> amount, number |-> 0]]
    /\ UNCHANGED <<invoice, paid, receipts, others, lock>>

AskPayment(r, amount) ==
    Start(r, "add_payment", amount, invoice,
          IF invoice.status = "CANCELLED" THEN "failed" ELSE "paying")

AskMarkPaid(r) == Start(r, "mark_paid", 0, invoice, "balancing")

AskDiscount(r, value) ==
    Start(r, "apply_discount", 0, [invoice EXCEPT !.total = Discounted(value)],
          IF invoice.status \in {"PAID", "CANCELLED"} THEN "failed" ELSE "saving")

AskEdit(r, to) ==
    Start(r, "edit", 0, [invoice EXCEPT !.status = IF to = "KEEP" THEN @ ELSE to],
          "saving")

\* BulkIssueView.post: the check that every invoice is a DRAFT.
AskIssue(r) ==
    Start(r, "issue", 0, [invoice EXCEPT !.status = "SENT"],
          IF invoice.status = "DRAFT" THEN "saving" ELSE "failed")

-----------------------------------------------------------------------------
(* The steps of a request.                                                 *)

BalanceAnySign(r) ==   \* mutant: "if remaining:"
    LET remaining == seen[r].total - paid IN
    /\ pc[r] = "balancing"
    /\ slip' = [slip EXCEPT ![r].amount = remaining]
    /\ pc' = [pc EXCEPT ![r] = IF remaining = 0 THEN "done" ELSE "paying"]
    /\ UNCHANGED <<invoice, paid, receipts, others, lock, seen>>

\* mark_as_paid compares the copy's total with the receipts there are now.
Balance(r) ==
    LET remaining == seen[r].total - paid IN
    /\ pc[r] = "balancing"
    /\ \/ /\ remaining > 0
          /\ slip' = [slip EXCEPT ![r].amount = remaining]
          /\ pc' = [pc EXCEPT ![r] = IF seen[r].status = "CANCELLED" THEN "failed"
                                                                     ELSE "paying"]
       \/ /\ remaining <= 0
          /\ pc' = [pc EXCEPT ![r] = IF seen[r].status = "PAID" THEN "done" ELSE "settling"]
          /\ UNCHANGED slip
    /\ UNCHANGED <<invoice, paid, receipts, others, lock, seen>>

PickNumber(r) ==
    /\ pc[r] = "paying"
    /\ pc' = [pc EXCEPT ![r] = "numbered"]
    /\ slip' = [slip EXCEPT ![r].number = NextNumber]
    /\ UNCHANGED <<invoice, paid, receipts, others, lock, seen>>

InsertAgain(r) ==   \* mutant: a clash is retried with the same number
    /\ pc[r] = "numbered"
    /\ \A q \in Inserting : slip[q].number # slip[r].number
    /\ pc' = [pc EXCEPT ![r] = IF slip[r].number \in receipts \cup others THEN "numbered"
                                                                          ELSE "inserted"]
    /\ UNCHANGED <<invoice, paid, receipts, others, lock, seen, slip>>

\* Inserting the receipt waits for a transaction that has inserted the same
\* number, and fails when that number has been committed.
Insert(r) ==
    /\ pc[r] = "numbered"
    /\ \A q \in Inserting : slip[q].number # slip[r].number
    /\ pc' = [pc EXCEPT ![r] = IF slip[r].number \in receipts \cup others THEN "failed"
                                                                          ELSE "inserted"]
    /\ UNCHANGED <<invoice, paid, receipts, others, lock, seen, slip>>

RefreshOnce(r) ==   \* mutant: add_payment does not call update_status again
    /\ pc[r] \in {"inserted", "locked", "settling"}
    /\ seen' = IF pc[r] = "locked" THEN seen
               ELSE [seen EXCEPT ![r].status = Updated(seen[r], PaidSeenBy(r))]
    /\ pc' = [pc EXCEPT ![r] = CASE pc[r] = "inserted" -> "waiting"
                                 [] pc[r] = "locked"   -> "written"
                                 [] pc[r] = "settling" -> "saving"]
    /\ UNCHANGED <<invoice, paid, receipts, others, lock, slip>>

\* Receipt.save updates the status of the copy, and add_payment does it once
\* more after the row has been written.
Refresh(r) ==
    /\ pc[r] \in {"inserted", "locked", "settling"}
    /\ seen' = [seen EXCEPT ![r].status = Updated(seen[r], PaidSeenBy(r))]
    /\ pc' = [pc EXCEPT ![r] = CASE pc[r] = "inserted" -> "waiting"
                                 [] pc[r] = "locked"   -> "written"
                                 [] pc[r] = "settling" -> "saving"]
    /\ UNCHANGED <<invoice, paid, receipts, others, lock, slip>>

LockNothing(r) ==   \* mutant: the status is written after the second update_status only
    /\ pc[r] = "waiting"
    /\ pc' = [pc EXCEPT ![r] = "locked"]
    /\ UNCHANGED <<invoice, paid, receipts, others, lock, seen, slip>>

\* The first UPDATE of the status in the payment's transaction: it waits for the
\* row and keeps it; what it writes is overwritten before anyone can see it.
Lock(r) ==
    /\ pc[r] = "waiting"
    /\ lock = Nobody
    /\ lock' = r
    /\ pc' = [pc EXCEPT ![r] = "locked"]
    /\ UNCHANGED <<invoice, paid, receipts, others, seen, slip>>

\* The second UPDATE, of the status alone, and the commit of the payment.
Commit(r) ==
    /\ pc[r] = "written"
    /\ invoice' = [invoice EXCEPT !.status = seen[r].status]
    /\ paid' = paid + slip[r].amount
    /\ receipts' = receipts \cup {slip[r].number}
    /\ lock' = Nobody
    /\ pc' = [pc EXCEPT ![r] = "done"]
    /\ UNCHANGED <<others, seen, slip>>

\* The columns a single UPDATE writes: mark_as_paid and bulk issuing the status,
\* apply_discount the totals, an edit the whole row as it was loaded.
Save(r) ==
    /\ pc[r] = "saving"
    /\ lock = Nobody
    /\ invoice' = CASE slip[r].op = "apply_discount" -> [invoice EXCEPT !.total = seen[r].total]
                    [] slip[r].op = "edit"           -> seen[r]
                    [] OTHER                         -> [invoice EXCEPT !.status = seen[r].status]
    /\ pc' = [pc EXCEPT ![r] = "done"]
    /\ UNCHANGED <<paid, receipts, others, lock, seen, slip>>

\* The worker that serves the request dies: its transaction is rolled back.
Crash(r) ==
    /\ pc[r] \notin {"idle", "done", "failed"}
    /\ pc' = [pc EXCEPT ![r] = "failed"]
    /\ lock' = IF lock = r THEN Nobody ELSE lock
    /\ UNCHANGED <<invoice, paid, receipts, others, seen, slip>>

-----------------------------------------------------------------------------
(* The receipts of other invoices, which share the numbering.              *)

AddOther ==
    /\ NextNumber <= MaxOther
    /\ \A q \in Inserting : slip[q].number # NextNumber
    /\ others' = others \cup {NextNumber}
    /\ UNCHANGED <<invoice, paid, receipts, lock, pc, seen, slip>>

DeleteOther(n) ==
    /\ n \in others
    /\ others' = others \ {n}
    /\ UNCHANGED <<invoice, paid, receipts, lock, pc, seen, slip>>

-----------------------------------------------------------------------------
Init ==
    /\ invoice \in [status : FirstStatus, total : {Subtotal}]
    /\ paid = 0 /\ receipts = {} /\ others = {}
    /\ lock = Nobody
    /\ pc = [r \in Request |-> "idle"]
    /\ seen = [r \in Request |-> invoice]
    /\ slip = [r \in Request |-> NoSlip]

Serve(r) == \/ Balance(r) \/ PickNumber(r) \/ Insert(r) \/ Refresh(r)
            \/ Lock(r) \/ Commit(r) \/ Save(r)

Pay(r) == AskMarkPaid(r) \/ \E amount \in Amounts : AskPayment(r, amount)

Change(r) == \/ \E value \in Discounts : AskDiscount(r, value)
             \/ \E to \in EditTo : AskEdit(r, to)
             \/ AskIssue(r)

Numbering == AddOther \/ \E n \in others : DeleteOther(n)

\* Every request has been answered; nothing else has to happen.
AllAnswered == (\A r \in Request : pc[r] \in {"done", "failed"}) /\ UNCHANGED vars

PaymentsNext == \/ \E r \in Request : Pay(r) \/ Serve(r) \/ Crash(r)
                \/ Numbering
                \/ AllAnswered
Next == PaymentsNext \/ \E r \in Request : Change(r)

\* Payments alone, and every kind of request.
PaymentsSpec == Init /\ [][PaymentsNext]_vars
Spec == Init /\ [][Next]_vars
\* A request that has been taken up is served on: no lock is waited for in vain.
FairSpec == Spec /\ \A r \in Request : WF_vars(Serve(r))

-----------------------------------------------------------------------------
(* Properties                                                              *)

Invoice == [status : Status, total : Nat]

TypeOK ==
    /\ invoice \in Invoice
    /\ paid \in Nat
    /\ receipts \in SUBSET Nat /\ others \in SUBSET Nat
    /\ lock \in Request \cup {Nobody}
    /\ pc \in [Request -> Pc]
    /\ seen \in [Request -> Invoice]
    /\ slip \in [Request -> [op : {"none", "add_payment", "mark_paid", "apply_discount",
                                   "edit", "issue"},
                             amount : Nat, number : Nat]]

\* However payments overlap, crash and fail, the status of the invoice always
\* tells what the committed receipts add up to.  Nothing locks the invoice before
\* it is read: it is the second update_status of add_payment, made once the row
\* is held, that keeps two payments from each missing the other's receipt.
StatusTellsPayments ==
    paid > 0 => invoice.status = IF paid >= invoice.total THEN "PAID" ELSE "PARTIALLY_PAID"

\* Each committed payment is one atomic payment of PaymentPromise.
Promise == INSTANCE PaymentPromise WITH status <- invoice.status, total <- invoice.total
PaymentsAreAtomic == Promise!Spec

\* Every request is answered: no set of payments, edits, discounts and bulk issues
\* wait for one another's receipt number and row in a circle.
EveryRequestAnswered ==
    \A r \in Request : pc[r] # "idle" ~> pc[r] \in {"done", "failed"}
=============================================================================
