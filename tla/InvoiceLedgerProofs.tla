------------------------- MODULE InvoiceLedgerProofs -------------------------
(***************************************************************************)
(* What InvoiceLedger guarantees for any number of requests, any amounts   *)
(* and any numbering of the academy's other receipts; and what             *)
(* DocumentNumbering guarantees for any base above two and any padding.    *)
(***************************************************************************)
EXTENDS InvoiceLedger, DocumentNumbering, LargestProofs

-----------------------------------------------------------------------------
(* Type correctness, under every kind of request                           *)

\* Numbers in use have an upper bound, so there is a next one.
Bounded == \E n \in Nat : \A m \in receipts \cup others : m <= n

TypeInv == TypeOK /\ Bounded

LEMMA NextNumberIsNat ==
    ASSUME TypeInv
    PROVE  /\ NextNumber \in Nat
           /\ \A m \in receipts \cup others : m < NextNumber
<1> DEFINE S == {0} \cup receipts \cup others
<1>1. S \in SUBSET Nat /\ S # {}
  BY DEF TypeInv, TypeOK
<1>2. PICK n \in Nat : \A m \in S : m <= n
  BY DEF TypeInv, Bounded
<1>3. Latest(S) \in S /\ \A m \in S : m <= Latest(S)
  <2> HIDE DEF S
  <2> QED BY <1>1, <1>2, LatestExists
<1> QED BY <1>1, <1>3 DEF NextNumber

\* update_status leaves a status, and a cancelled one alone.
LEMMA UpdatedIsStatus ==
    ASSUME NEW inv \in Invoice, NEW sum \in Nat
    PROVE  /\ Updated(inv, sum) \in Status
           /\ inv.status = "CANCELLED" => Updated(inv, sum) = "CANCELLED"
BY DEF Updated, Invoice, Status

LEMMA InitTypeInv == Init => TypeInv
<1> SUFFICES ASSUME Init PROVE TypeInv
  OBVIOUS
<1>1. invoice \in Invoice
  BY LedgerAssumption DEF Init, Invoice, Status
<1> QED BY <1>1, LedgerAssumption DEF Init, TypeInv, TypeOK, Bounded, Pc, NoSlip

\* Starting a request on a well-typed copy of the invoice keeps the types.
LEMMA StartKeepsTypes ==
    ASSUME TypeInv, NEW r \in Request, NEW op, NEW STATE amount, NEW STATE copy,
           NEW STATE where,
           Start(r, op, amount, copy, where),
           op \in {"add_payment", "mark_paid", "apply_discount", "edit", "issue"},
           amount \in Nat, copy \in Invoice, where \in Pc
    PROVE  TypeInv'
BY DEF TypeInv, TypeOK, Bounded, Start

LEMMA ServeKeepsTypes ==
    ASSUME TypeInv, NEW r \in Request, Serve(r)
    PROVE  TypeInv'
<1> USE DEF TypeInv
<1>0. /\ seen[r] \in Invoice /\ seen[r].status \in Status /\ seen[r].total \in Nat
      /\ slip[r].amount \in Nat /\ slip[r].number \in Nat
  BY DEF TypeOK, Invoice
<1>1. CASE Balance(r)
  <2>1. /\ paid \in Nat
        /\ seen[r].total - paid > 0 => seen[r].total - paid \in Nat
    BY <1>0 DEF TypeOK
  <2>2. slip' \in [Request -> [op : {"none", "add_payment", "mark_paid", "apply_discount",
                                     "edit", "issue"}, amount : Nat, number : Nat]]
    BY <1>1, <2>1 DEF Balance, TypeOK
  <2>3. pc' \in [Request -> Pc]
    BY <1>1 DEF Balance, TypeOK, Pc
  <2> QED BY <1>1, <2>2, <2>3 DEF Balance, TypeOK, Bounded
<1>2. CASE PickNumber(r)
  <2>1. NextNumber \in Nat
    BY NextNumberIsNat
  <2> QED BY <1>2, <2>1 DEF PickNumber, TypeOK, Bounded, Pc
<1>3. CASE Insert(r)
  BY <1>3 DEF Insert, TypeOK, Bounded, Pc
<1>4. CASE Refresh(r)
  <2>1. PaidSeenBy(r) \in Nat
    BY <1>0 DEF PaidSeenBy, TypeOK
  <2>2. Updated(seen[r], PaidSeenBy(r)) \in Status
    BY <1>0, <2>1, UpdatedIsStatus
  <2>3. seen' \in [Request -> Invoice]
    BY <1>4, <2>2 DEF Refresh, TypeOK, Invoice
  <2>4. pc' \in [Request -> Pc]
    BY <1>4 DEF Refresh, TypeOK, Pc
  <2> QED BY <1>4, <2>3, <2>4 DEF Refresh, TypeOK, Bounded
<1>5. CASE Lock(r)
  BY <1>5 DEF Lock, TypeOK, Bounded, Pc
<1>6. CASE Commit(r)
  <2>1. invoice' \in Invoice /\ pc' \in [Request -> Pc]
    BY <1>0, <1>6 DEF Commit, TypeOK, Invoice, Pc
  <2>2. paid' \in Nat /\ receipts' \in SUBSET Nat
    BY <1>0, <1>6 DEF Commit, TypeOK
  <2>3. Bounded'
    <3>1. PICK n \in Nat : \A m \in receipts \cup others : m <= n
      BY DEF Bounded
    <3>2. PICK k \in Nat : k >= n /\ k >= slip[r].number
      <4>1. n + slip[r].number \in Nat /\ n + slip[r].number >= n
            /\ n + slip[r].number >= slip[r].number
        BY <1>0
      <4> QED BY <4>1
    <3>3. \A m \in receipts' \cup others' : m <= k
      BY <1>0, <1>6, <3>1, <3>2 DEF Commit, TypeOK
    <3> QED BY <3>3 DEF Bounded
  <2> QED BY <1>6, <2>1, <2>2, <2>3 DEF Commit, TypeOK
<1>7. CASE Save(r)
  <2>1. invoice' \in Invoice /\ pc' \in [Request -> Pc]
    BY <1>0, <1>7 DEF Save, TypeOK, Invoice, Pc
  <2> QED BY <1>7, <2>1 DEF Save, TypeOK, Bounded
<1> QED BY <1>1, <1>2, <1>3, <1>4, <1>5, <1>6, <1>7 DEF Serve

LEMMA AskKeepsTypes ==
    ASSUME TypeInv, NEW r \in Request, Pay(r) \/ Change(r)
    PROVE  TypeInv'
<1>1. invoice \in Invoice
  BY DEF TypeInv, TypeOK
<1>2. ASSUME NEW amount \in Amounts, AskPayment(r, amount) PROVE TypeInv'
  <2>1. amount \in Nat
    BY LedgerAssumption
  <2> QED BY <1>1, <1>2, <2>1, StartKeepsTypes DEF AskPayment, Pc
<1>3. CASE AskMarkPaid(r)
  BY <1>1, <1>3, StartKeepsTypes DEF AskMarkPaid, Pc
<1>4. ASSUME NEW value \in Discounts, AskDiscount(r, value) PROVE TypeInv'
  <2>1. [invoice EXCEPT !.total = Discounted(value)] \in Invoice
    BY <1>1, LedgerAssumption DEF Discounted, Invoice
  <2> QED BY <1>4, <2>1, StartKeepsTypes DEF AskDiscount, Pc
<1>5. ASSUME NEW to \in EditTo, AskEdit(r, to) PROVE TypeInv'
  <2>1. [invoice EXCEPT !.status = IF to = "KEEP" THEN @ ELSE to] \in Invoice
    BY <1>1, LedgerAssumption DEF Invoice
  <2> QED BY <1>5, <2>1, StartKeepsTypes DEF AskEdit, Pc
<1>6. CASE AskIssue(r)
  <2>1. [invoice EXCEPT !.status = "SENT"] \in Invoice
    BY <1>1 DEF Invoice, Status
  <2> QED BY <1>6, <2>1, StartKeepsTypes DEF AskIssue, Pc
<1> QED BY <1>2, <1>3, <1>4, <1>5, <1>6 DEF Pay, Change

LEMMA NumberingKeepsTypes == TypeInv /\ Numbering => TypeInv'
<1> SUFFICES ASSUME TypeInv, Numbering PROVE TypeInv'
  OBVIOUS
<1>1. CASE AddOther
  <2>1. NextNumber \in Nat /\ \A m \in receipts \cup others : m <= NextNumber
    BY NextNumberIsNat DEF TypeInv, TypeOK
  <2>2. \A m \in receipts' \cup others' : m <= NextNumber
    BY <1>1, <2>1 DEF AddOther
  <2> QED BY <1>1, <2>1, <2>2 DEF AddOther, TypeInv, TypeOK, Bounded
<1>2. CASE \E n \in others : DeleteOther(n)
  BY <1>2 DEF DeleteOther, TypeInv, TypeOK, Bounded
<1> QED BY <1>1, <1>2 DEF Numbering

LEMMA NextTypeInv == TypeInv /\ [Next]_vars => TypeInv'
<1> SUFFICES ASSUME TypeInv, [Next]_vars PROVE TypeInv'
  OBVIOUS
<1>1. ASSUME NEW r \in Request, Crash(r) PROVE TypeInv'
  BY <1>1 DEF Crash, TypeInv, TypeOK, Bounded, Pc
<1>2. CASE UNCHANGED vars
  BY <1>2 DEF vars, TypeInv, TypeOK, Bounded
<1> QED
  BY <1>1, <1>2, AskKeepsTypes, ServeKeepsTypes, NumberingKeepsTypes
  DEF Next, PaymentsNext, AllAnswered

\* Whatever requests overlap, the rows keep their types: in particular no total,
\* no payment and no sum of payments is ever negative.
THEOREM LedgerTypeCorrect == Spec => []TypeOK
<1>1. TypeInv => TypeOK
  BY DEF TypeInv
<1> QED BY <1>1, InitTypeInv, NextTypeInv, PTL DEF Spec

-----------------------------------------------------------------------------
(* Payments.  A payment computes the status it writes while it holds the   *)
(* row: no other payment can commit between that computation and its own   *)
(* commit.                                                                 *)

StatusOf(sum) == IF sum >= Subtotal THEN "PAID" ELSE "PARTIALLY_PAID"

RequestOK(r) ==
    /\ seen[r].total = Subtotal /\ seen[r].status # "CANCELLED"
    /\ pc[r] \in {"paying", "numbered", "inserted", "waiting", "locked", "written"}
          => slip[r].amount > 0
    /\ lock = r <=> pc[r] \in {"locked", "written"}
    /\ pc[r] = "written" => seen[r].status = StatusOf(paid + slip[r].amount)
    /\ pc[r] \in {"balancing", "settling", "saving"} => slip[r].op = "mark_paid"
    /\ pc[r] \in {"settling", "saving"} => paid >= Subtotal
    /\ pc[r] = "saving" => seen[r].status = "PAID"

\* The inductive invariant of PaymentsSpec.
LedgerInv ==
    /\ TypeInv
    /\ invoice.total = Subtotal /\ invoice.status # "CANCELLED"
    /\ paid > 0 => invoice.status = StatusOf(paid)
    /\ \A r \in Request : RequestOK(r)

LEMMA InitLedgerInv == Init => LedgerInv
<1> SUFFICES ASSUME Init PROVE LedgerInv
  OBVIOUS
<1>1. TypeInv
  BY InitTypeInv
<1>2. invoice.total = Subtotal /\ invoice.status # "CANCELLED"
  BY LedgerAssumption DEF Init
<1>3. \A r \in Request : RequestOK(r)
  BY <1>2, LedgerAssumption DEF Init, RequestOK
<1> QED BY <1>1, <1>2, <1>3 DEF LedgerInv, Init

LEMMA PayKeepsLedger ==
    ASSUME LedgerInv, NEW r \in Request, Pay(r)
    PROVE  LedgerInv'
<1>1. TypeInv'
  BY AskKeepsTypes DEF LedgerInv
<1>2. PICK op \in {"add_payment", "mark_paid"}, amount \in Nat,
           where \in {"paying", "balancing"} :
        /\ Start(r, op, amount, invoice, where)
        /\ where = "paying" => amount > 0
        /\ where = "balancing" => op = "mark_paid"
  BY LedgerAssumption DEF Pay, AskPayment, AskMarkPaid, LedgerInv
<1>3. ASSUME NEW q \in Request PROVE RequestOK(q)'
  <2>1. CASE q = r
    BY <1>2, <2>1 DEF Start, LedgerInv, RequestOK, TypeInv, TypeOK
  <2>2. CASE q # r
    BY <1>2, <2>2 DEF Start, LedgerInv, RequestOK, TypeInv, TypeOK, StatusOf
  <2> QED BY <2>1, <2>2
<1> QED BY <1>1, <1>2, <1>3 DEF Start, LedgerInv, StatusOf

LEMMA ServeKeepsLedger ==
    ASSUME LedgerInv, NEW r \in Request, Serve(r)
    PROVE  LedgerInv'
<1>1. TypeInv'
  BY ServeKeepsTypes DEF LedgerInv
<1>2. /\ seen[r] \in Invoice /\ seen[r].total = Subtotal /\ seen[r].status # "CANCELLED"
      /\ slip[r].amount \in Nat /\ paid \in Nat /\ Subtotal \in Nat \ {0}
      /\ invoice \in Invoice
  BY LedgerAssumption DEF LedgerInv, RequestOK, TypeInv, TypeOK
<1>3. CASE Balance(r)
  <2>1. ASSUME NEW q \in Request PROVE RequestOK(q)'
    <3>1. CASE q = r
      <4>1. RequestOK(r) /\ pc[r] = "balancing" /\ slip[r].op = "mark_paid"
            /\ lock # r
        BY <1>3 DEF Balance, LedgerInv, RequestOK
      <4>2. CASE Subtotal - paid > 0
        <5>1. /\ slip'[r].amount > 0 /\ pc'[r] = "paying"
              /\ seen' = seen /\ lock' = lock
          BY <1>2, <1>3, <4>2 DEF Balance, LedgerInv, TypeInv, TypeOK
        <5> QED BY <1>2, <3>1, <4>1, <5>1 DEF RequestOK
      <4>3. CASE ~(Subtotal - paid > 0)
        <5>1. /\ pc'[r] \in {"done", "settling"} /\ paid >= Subtotal
              /\ seen' = seen /\ lock' = lock /\ slip' = slip /\ paid' = paid
          BY <1>2, <1>3, <4>3 DEF Balance, LedgerInv, TypeInv, TypeOK
        <5> QED BY <1>2, <3>1, <4>1, <5>1 DEF RequestOK
      <4> QED BY <4>2, <4>3
    <3>2. CASE q # r
      BY <1>3, <3>2 DEF Balance, LedgerInv, RequestOK, TypeInv, TypeOK, StatusOf
    <3> QED BY <3>1, <3>2
  <2> QED BY <1>1, <1>3, <2>1 DEF Balance, LedgerInv, StatusOf
<1>4. CASE PickNumber(r)
  <2>1. ASSUME NEW q \in Request PROVE RequestOK(q)'
    BY <1>4 DEF PickNumber, LedgerInv, RequestOK, TypeInv, TypeOK, StatusOf
  <2> QED BY <1>1, <1>4, <2>1 DEF PickNumber, LedgerInv, StatusOf
<1>5. CASE Insert(r)
  <2>1. ASSUME NEW q \in Request PROVE RequestOK(q)'
    BY <1>5 DEF Insert, LedgerInv, RequestOK, TypeInv, TypeOK, StatusOf
  <2> QED BY <1>1, <1>5, <2>1 DEF Insert, LedgerInv, StatusOf
<1>6. CASE Refresh(r)
  <2>1. RequestOK(r)'
    <3>1. RequestOK(r) /\ seen'[r].total = Subtotal
          /\ seen'[r].status = Updated(seen[r], PaidSeenBy(r))
      BY <1>2, <1>6 DEF Refresh, LedgerInv, RequestOK, TypeInv, TypeOK, Invoice
    <3>2. CASE pc[r] \in {"inserted", "locked"}
      <4>1. PaidSeenBy(r) = paid + slip[r].amount /\ slip[r].amount > 0
        BY <3>1, <3>2 DEF PaidSeenBy, Inserting, RequestOK
      <4>2. Updated(seen[r], PaidSeenBy(r)) = StatusOf(paid + slip[r].amount)
        BY <1>2, <4>1 DEF Updated, StatusOf
      <4>3. /\ pc[r] = "inserted" => pc'[r] = "waiting"
            /\ pc[r] = "locked" => pc'[r] = "written"
            /\ lock' = lock /\ slip' = slip /\ paid' = paid
        BY <1>6 DEF Refresh, LedgerInv, TypeInv, TypeOK
      <4> QED BY <3>1, <3>2, <4>1, <4>2, <4>3 DEF RequestOK, StatusOf
    <3>3. CASE pc[r] = "settling"
      <4>1. PaidSeenBy(r) = paid /\ paid >= Subtotal
        BY <3>1, <3>3 DEF PaidSeenBy, Inserting, RequestOK
      <4>2. Updated(seen[r], PaidSeenBy(r)) = "PAID"
        BY <1>2, <4>1 DEF Updated
      <4>3. pc'[r] = "saving" /\ lock' = lock /\ slip' = slip /\ paid' = paid
        BY <1>6, <3>3 DEF Refresh, LedgerInv, TypeInv, TypeOK
      <4> QED BY <3>1, <3>3, <4>1, <4>2, <4>3 DEF RequestOK
    <3> QED BY <1>6, <3>2, <3>3 DEF Refresh
  <2>2. ASSUME NEW q \in Request, q # r PROVE RequestOK(q)'
    BY <1>6, <2>2 DEF Refresh, LedgerInv, RequestOK, TypeInv, TypeOK, StatusOf
  <2> QED BY <1>1, <1>6, <2>1, <2>2 DEF Refresh, LedgerInv, StatusOf
<1>7. CASE Lock(r)
  <2>1. ASSUME NEW q \in Request PROVE RequestOK(q)'
    BY <1>7, LedgerAssumption DEF Lock, LedgerInv, RequestOK, TypeInv, TypeOK, StatusOf
  <2> QED BY <1>1, <1>7, <2>1 DEF Lock, LedgerInv, StatusOf
<1>8. CASE Commit(r)
  <2>1. /\ lock = r /\ slip[r].amount > 0
        /\ seen[r].status = StatusOf(paid + slip[r].amount)
    BY <1>8 DEF Commit, LedgerInv, RequestOK
  <2>2. /\ paid' = paid + slip[r].amount /\ paid' > paid
        /\ invoice'.total = Subtotal /\ invoice'.status = StatusOf(paid')
    BY <1>2, <1>8, <2>1 DEF Commit, LedgerInv, Invoice
  <2>3. ASSUME NEW q \in Request PROVE RequestOK(q)'
    <3>1. CASE q = r
      BY <1>2, <1>8, <3>1, LedgerAssumption
      DEF Commit, LedgerInv, RequestOK, TypeInv, TypeOK
    <3>2. CASE q # r
      <4>1. RequestOK(q) /\ pc[q] \notin {"locked", "written"}
        BY <2>1, <3>2 DEF LedgerInv, RequestOK
      <4>2. /\ pc'[q] = pc[q] /\ seen' = seen /\ slip' = slip /\ lock' = Nobody
        BY <1>8, <3>2 DEF Commit, LedgerInv, TypeInv, TypeOK
      <4> QED BY <1>2, <2>2, <4>1, <4>2, LedgerAssumption DEF RequestOK
    <3> QED BY <3>1, <3>2
  <2> QED BY <1>1, <2>2, <2>3 DEF LedgerInv, StatusOf
<1>9. CASE Save(r)
  <2>1. paid >= Subtotal /\ slip[r].op = "mark_paid" /\ seen[r].status = "PAID"
    BY <1>9 DEF Save, LedgerInv, RequestOK
  <2>2. invoice'.total = Subtotal /\ invoice'.status = "PAID" /\ paid' = paid
    BY <1>2, <1>9, <2>1 DEF Save, LedgerInv, Invoice
  <2>3. ASSUME NEW q \in Request PROVE RequestOK(q)'
    BY <1>9 DEF Save, LedgerInv, RequestOK, TypeInv, TypeOK, StatusOf
  <2> QED BY <1>1, <1>2, <2>1, <2>2, <2>3 DEF LedgerInv, StatusOf
<1> QED BY <1>3, <1>4, <1>5, <1>6, <1>7, <1>8, <1>9 DEF Serve

LEMMA PaymentsKeepLedger == LedgerInv /\ [PaymentsNext]_vars => LedgerInv'
<1> SUFFICES ASSUME LedgerInv, [PaymentsNext]_vars PROVE LedgerInv'
  OBVIOUS
<1>1. TypeInv'
  BY NextTypeInv DEF LedgerInv, Next
<1>2. ASSUME NEW r \in Request, Crash(r) PROVE LedgerInv'
  <2>1. ASSUME NEW q \in Request PROVE RequestOK(q)'
    BY <1>2, LedgerAssumption
    DEF Crash, LedgerInv, RequestOK, TypeInv, TypeOK, StatusOf
  <2> QED BY <1>1, <1>2, <2>1 DEF Crash, LedgerInv, StatusOf
<1>3. CASE Numbering \/ UNCHANGED vars
  <2>1. UNCHANGED <<invoice, paid, lock, pc, seen, slip>>
    BY <1>3 DEF Numbering, AddOther, DeleteOther, vars
  <2>2. ASSUME NEW q \in Request PROVE RequestOK(q)'
    BY <2>1 DEF LedgerInv, RequestOK, StatusOf
  <2> QED BY <1>1, <2>1, <2>2 DEF LedgerInv, StatusOf
<1> QED
  BY <1>2, <1>3, PayKeepsLedger, ServeKeepsLedger DEF PaymentsNext, AllAnswered

LEMMA LedgerInvHolds == PaymentsSpec => []LedgerInv
BY InitLedgerInv, PaymentsKeepLedger, PTL DEF PaymentsSpec

\* For any number of overlapping payments, crashes and numbering clashes, the
\* status says what the committed receipts add up to.
THEOREM StatusIsRight == PaymentsSpec => []StatusTellsPayments
<1>1. LedgerInv => StatusTellsPayments
  BY DEF LedgerInv, StatusTellsPayments, StatusOf
<1> QED BY <1>1, LedgerInvHolds, PTL

\* Overlapping payments implement PaymentPromise: a commit is one atomic payment
\* and every other step changes nothing a payer sees.
THEOREM PaymentsImplementPromise == PaymentsSpec => PaymentsAreAtomic
<1>1. Init => Promise!Init
  BY LedgerAssumption DEF Init, Promise!Init
<1>2. LedgerInv /\ [PaymentsNext]_vars
         => [Promise!Pay]_<<invoice.status, invoice.total, paid>>
  <2> SUFFICES ASSUME LedgerInv, [PaymentsNext]_vars,
                      ~UNCHANGED <<invoice.status, invoice.total, paid>>
               PROVE  Promise!Pay
    OBVIOUS
  <2>1. ASSUME NEW r \in Request, Commit(r) PROVE Promise!Pay
    <3>1. LedgerInv'
      BY PaymentsKeepLedger
    <3>2. RequestOK(r) /\ slip[r].amount \in Nat /\ paid \in Nat
      BY DEF LedgerInv, TypeInv, TypeOK
    <3>3. paid' = paid + slip[r].amount /\ slip[r].amount > 0
      BY <2>1, <3>2 DEF Commit, RequestOK
    <3>4. invoice.total = Subtotal /\ invoice'.total = Subtotal
      BY <3>1 DEF LedgerInv
    <3> QED BY <3>1, <3>2, <3>3, <3>4 DEF Promise!Pay, LedgerInv, StatusOf
  <2>2. ASSUME NEW r \in Request, Save(r)
        PROVE  UNCHANGED <<invoice.status, invoice.total, paid>>
    <3>1. LedgerInv' /\ paid' = paid /\ paid >= Subtotal
      BY <2>2, PaymentsKeepLedger DEF Save, LedgerInv, RequestOK
    <3>2. paid > 0
      BY <3>1, LedgerAssumption DEF LedgerInv, TypeInv, TypeOK
    <3> QED BY <3>1, <3>2 DEF LedgerInv, StatusOf
  <2> QED
    BY <2>1, <2>2
    DEF PaymentsNext, Pay, Serve, AskPayment, AskMarkPaid, Start, Balance, PickNumber,
        Insert, Refresh, Lock, Crash, Numbering, AddOther, DeleteOther, AllAnswered, vars
<1>3. PaymentsSpec => Promise!Init /\ [][Promise!Pay]_<<invoice.status, invoice.total, paid>>
  BY <1>1, <1>2, LedgerInvHolds, PTL DEF PaymentsSpec
<1> QED BY <1>3 DEF PaymentsAreAtomic, Promise!Spec

-----------------------------------------------------------------------------
(* The digits of a number                                                  *)

LEMMA SmallerSet ==
    ASSUME NEW A \in SUBSET Nat, NEW B \in SUBSET Nat, A \subseteq B, A # B
    PROVE  <<A, B>> \in StrictSubsetOrdering(Nat)
BY DEF StrictSubsetOrdering

\* Induction over the numbers, each from all the smaller ones.
LEMMA FromSmaller ==
    ASSUME NEW S, \A n \in Nat : (\A m \in Nat : m < n => m \in S) => n \in S
    PROVE  \A n \in Nat : n \in S
<1> DEFINE Bad == Nat \ S
<1> SUFFICES ASSUME NEW k \in Bad PROVE FALSE
  OBVIOUS
<1> DEFINE Starts == {0 .. n : n \in Bad}
<1>1. Starts \subseteq FiniteSubsetsOf(Nat)
  <2> SUFFICES ASSUME NEW n \in Bad PROVE 0 .. n \in FiniteSubsetsOf(Nat)
    OBVIOUS
  <2>1. IsFiniteSet(0 .. n)
    BY FS_Interval
  <2> QED BY <2>1 DEF FiniteSubsetsOf
<1>2. Starts # {}
  OBVIOUS
<1>3. IsWellFoundedOn(StrictSubsetOrdering(Nat), FiniteSubsetsOf(Nat))
  BY FS_StrictSubsetOrderingWellFounded
<1>4. PICK U \in Starts : \A V \in Starts : ~ (<<V, U>> \in StrictSubsetOrdering(Nat))
  <2> HIDE DEF Starts
  <2> QED BY <1>1, <1>2, <1>3, WFMin
<1>5. PICK m \in Bad : U = 0 .. m
  OBVIOUS
<1>6. ASSUME NEW x \in Nat, x < m PROVE x \in S
  <2> SUFFICES ASSUME x \in Bad PROVE FALSE
    OBVIOUS
  <2>1. /\ 0 .. x \subseteq 0 .. m /\ 0 .. x # 0 .. m
        /\ 0 .. x \in SUBSET Nat /\ 0 .. m \in SUBSET Nat
    <3>1. 0 .. x \subseteq 0 .. m /\ m \in 0 .. m /\ m \notin 0 .. x
      BY <1>6
    <3>2. 0 .. x \in SUBSET Nat /\ 0 .. m \in SUBSET Nat
      OBVIOUS
    <3> QED BY <3>1, <3>2, Zenon
  <2>2. <<0 .. x, 0 .. m>> \in StrictSubsetOrdering(Nat)
    BY <2>1, SmallerSet, Zenon
  <2>3. 0 .. x \in Starts
    OBVIOUS
  <2> HIDE DEF Starts
  <2> QED BY <2>2, <2>3, <1>4, <1>5, Zenon
<1> QED BY <1>6

LEMMA Division ==
    ASSUME NEW n \in Nat
    PROVE  /\ n \div Base \in Nat /\ n % Base \in 0 .. Base - 1
           /\ n > 0 => n \div Base < n
           /\ n >= Base => n \div Base > 0
           /\ n = (Base * (n \div Base)) + (n % Base)
BY NumberingAssumption

\* f holds the digits of the numbers up to k.
DigitsUpTo(f, k) ==
    \A n \in 0 .. k : f[n] = IF n < Base THEN <<n>> ELSE Append(f[n \div Base], n % Base)

LEMMA DigitsUpToExist == \A k \in Nat : \E f : DigitsUpTo(f, k)
<1> DEFINE S == {k \in Nat : \E f : DigitsUpTo(f, k)}
<1>1. ASSUME NEW k \in Nat, \A m \in Nat : m < k => m \in S PROVE k \in S
  <2>1. CASE k = 0
    <3> DEFINE f == [n \in 0 .. k |-> <<n>>]
    <3>1. \A n \in 0 .. k : f[n] = IF n < Base THEN <<n>> ELSE Append(f[n \div Base], n % Base)
      BY <2>1, NumberingAssumption
    <3> HIDE DEF f
    <3> QED BY <3>1 DEF DigitsUpTo
  <2>2. CASE k > 0
    <3>1. PICK g : DigitsUpTo(g, k - 1)
      BY <1>1, <2>2
    <3> DEFINE E(n) == IF n < Base THEN <<n>> ELSE Append(g[n \div Base], n % Base)
               f == [n \in 0 .. k |-> E(n)]
    <3>2. \A n \in 0 .. k - 1 : g[n] = E(n)
      BY <3>1 DEF DigitsUpTo
    <3>3. \A n \in 0 .. k : n >= Base => n \div Base \in 0 .. k - 1
      BY Division, NumberingAssumption
    <3>4. \A n \in 0 .. k : n >= Base => f[n \div Base] = g[n \div Base]
      BY <3>2, <3>3
    <3>5. \A n \in 0 .. k : f[n] = E(n)
      OBVIOUS
    <3>6. ASSUME NEW n \in 0 .. k
          PROVE  f[n] = IF n < Base THEN <<n>> ELSE Append(f[n \div Base], n % Base)
      <4> HIDE DEF f
      <4> QED BY <3>4, <3>5, NumberingAssumption
    <3> HIDE DEF f
    <3> QED BY <3>6 DEF DigitsUpTo
  <2> QED BY <2>1, <2>2
<1> HIDE DEF S
<1>2. \A k \in Nat : k \in S
  BY <1>1, FromSmaller
<1> QED BY <1>2 DEF S

LEMMA DigitsUpToAgree ==
    ASSUME NEW k \in Nat, NEW l \in Nat, NEW f, NEW g, DigitsUpTo(f, k), DigitsUpTo(g, l)
    PROVE  \A n \in Nat : n <= k /\ n <= l => f[n] = g[n]
<1> DEFINE S == {n \in Nat : n <= k /\ n <= l => f[n] = g[n]}
<1>1. ASSUME NEW n \in Nat, \A m \in Nat : m < n => m \in S PROVE n \in S
  <2> SUFFICES ASSUME n <= k, n <= l PROVE f[n] = g[n]
    OBVIOUS
  <2>1. f[n] = IF n < Base THEN <<n>> ELSE Append(f[n \div Base], n % Base)
    BY DEF DigitsUpTo
  <2>2. g[n] = IF n < Base THEN <<n>> ELSE Append(g[n \div Base], n % Base)
    BY DEF DigitsUpTo
  <2>3. n >= Base => f[n \div Base] = g[n \div Base]
    BY <1>1, Division, NumberingAssumption
  <2> QED BY <2>1, <2>2, <2>3, NumberingAssumption
<1> HIDE DEF S
<1>2. \A n \in Nat : n \in S
  BY <1>1, FromSmaller
<1> QED BY <1>2 DEF S

LEMMA DigitsOf ==
    \A n \in Nat : Digits[n] = IF n < Base THEN <<n>> ELSE Append(Digits[n \div Base], n % Base)
<1> DEFINE F(n) == CHOOSE f : DigitsUpTo(f, n)
           D == [n \in Nat |-> F(n)[n]]
<1>1. ASSUME NEW n \in Nat
      PROVE  D[n] = IF n < Base THEN <<n>> ELSE Append(D[n \div Base], n % Base)
  <2>1. DigitsUpTo(F(n), n)
    BY DigitsUpToExist
  <2>2. F(n)[n] = IF n < Base THEN <<n>> ELSE Append(F(n)[n \div Base], n % Base)
    <3> HIDE DEF F
    <3> QED BY <2>1 DEF DigitsUpTo
  <2>3. ASSUME n >= Base PROVE F(n)[n \div Base] = F(n \div Base)[n \div Base]
    <3>1. n \div Base \in Nat /\ n \div Base < n
      BY <2>3, Division, NumberingAssumption
    <3>2. DigitsUpTo(F(n \div Base), n \div Base)
      BY <3>1, DigitsUpToExist
    <3> HIDE DEF F
    <3> QED BY <3>1, <3>2, <2>1, DigitsUpToAgree
  <2>4. n >= Base => n \div Base \in Nat
    BY Division
  <2> HIDE DEF F
  <2> QED BY <2>2, <2>3, <2>4, NumberingAssumption
<1>2. D = [n \in Nat |-> IF n < Base THEN <<n>> ELSE Append(D[n \div Base], n % Base)]
  <2> HIDE DEF F
  <2> QED BY <1>1
<1>3. \E d : d = [n \in Nat |-> IF n < Base THEN <<n>> ELSE Append(d[n \div Base], n % Base)]
  <2> HIDE DEF D
  <2> QED BY <1>2
<1>4. Digits = [n \in Nat |-> IF n < Base THEN <<n>> ELSE Append(Digits[n \div Base], n % Base)]
  BY <1>3 DEF Digits
<1> HIDE DEF D
<1> QED BY <1>4

LEMMA AppendsLast ==
    ASSUME NEW n \in Nat, n >= Base
    PROVE  Digits[n] = Append(Digits[n \div Base], n % Base)
<1>1. Digits[n] = IF n < Base THEN <<n>> ELSE Append(Digits[n \div Base], n % Base)
  BY DigitsOf, Zenon
<1>2. ~(n < Base)
  BY NumberingAssumption
<1> QED BY <1>1, <1>2, Zenon

\* A one-digit number is its digit.
LEMMA OneDigit ==
    ASSUME NEW n \in Nat, n < Base
    PROVE  Digits[n] = <<n>> /\ Len(Digits[n]) = 1 /\ Digits[n][1] = n
<1>1. Digits[n] = IF n < Base THEN <<n>> ELSE Append(Digits[n \div Base], n % Base)
  BY DigitsOf, Zenon
<1>2. Digits[n] = <<n>>
  BY <1>1, Zenon
<1> QED BY <1>2

LEMMA DigitsShape ==
    \A n \in Nat :
        /\ Digits[n] \in Seq(Nat) /\ Len(Digits[n]) >= 1
        /\ n > 0 => Digits[n][1] > 0
<1> DEFINE S == {n \in Nat : /\ Digits[n] \in Seq(Nat) /\ Len(Digits[n]) >= 1
                             /\ n > 0 => Digits[n][1] > 0}
<1>1. ASSUME NEW n \in Nat, \A m \in Nat : m < n => m \in S PROVE n \in S
  <2>1. CASE n < Base
    <3>1. Digits[n] = <<n>>
      BY <2>1, OneDigit
    <3>2. <<n>> \in Seq(Nat) /\ Len(<<n>>) >= 1 /\ <<n>>[1] = n
      OBVIOUS
    <3> QED BY <3>1, <3>2
  <2>2. CASE n >= Base
    <3> DEFINE q == n \div Base
               r == n % Base
    <3>1. q \in Nat /\ r \in Nat /\ q < n /\ q > 0
      BY <2>2, Division, NumberingAssumption
    <3>2. Digits[q] \in Seq(Nat) /\ Len(Digits[q]) >= 1 /\ Digits[q][1] > 0
      BY <1>1, <3>1
    <3>3. Digits[n] = Append(Digits[q], r)
      BY <2>2, AppendsLast
    <3>4. Digits[n] \in Seq(Nat) /\ Len(Digits[n]) >= 1 /\ Digits[n][1] > 0
      <4> HIDE DEF q, r
      <4> QED BY <3>1, <3>2, <3>3
    <3> QED BY <3>4
  <2> QED BY <2>1, <2>2, NumberingAssumption
<1> HIDE DEF S
<1>2. \A n \in Nat : n \in S
  BY <1>1, FromSmaller
<1> QED BY <1>2 DEF S

\* Any other number has the digits of its tens, then one more.
LEMMA MoreDigits ==
    ASSUME NEW n \in Nat, n >= Base
    PROVE  /\ n \div Base \in Nat /\ n \div Base < n /\ n \div Base > 0
           /\ n % Base \in 0 .. Base - 1
           /\ n = (Base * (n \div Base)) + (n % Base)
           /\ Len(Digits[n]) = Len(Digits[n \div Base]) + 1
           /\ \A i \in 1 .. Len(Digits[n \div Base]) : Digits[n][i] = Digits[n \div Base][i]
           /\ Digits[n][Len(Digits[n])] = n % Base
<1> DEFINE q == n \div Base
           r == n % Base
<1>1. /\ q \in Nat /\ q < n /\ q > 0 /\ r \in 0 .. Base - 1
      /\ n = (Base * q) + r
  BY Division, NumberingAssumption
<1>2. Digits[n] = Append(Digits[q], r)
  BY AppendsLast
<1>3. Digits[q] \in Seq(Nat)
  BY <1>1, DigitsShape
<1>4. r \in Nat
  BY <1>1, NumberingAssumption
<1>5. /\ Len(Digits[n]) = Len(Digits[q]) + 1
      /\ \A i \in 1 .. Len(Digits[q]) : Digits[n][i] = Digits[q][i]
      /\ Digits[n][Len(Digits[n])] = r
  <2> HIDE DEF q, r
  <2> QED BY <1>2, <1>3, <1>4
<1> QED BY <1>1, <1>5

\* A larger number has at least as many digits, and as many only when it is the
\* larger one at the first digit that differs.
LEMMA DigitsGrow ==
    \A n \in Nat : \A m \in Nat :
        m < n => /\ Len(Digits[m]) <= Len(Digits[n])
                 /\ Len(Digits[m]) = Len(Digits[n]) => TextLess(Digits[m], Digits[n])
<1> DEFINE G(m, n) == /\ Len(Digits[m]) <= Len(Digits[n])
                      /\ Len(Digits[m]) = Len(Digits[n]) => TextLess(Digits[m], Digits[n])
           S == {n \in Nat : \A m \in Nat : m < n => G(m, n)}
<1>1. ASSUME NEW n \in Nat, \A k \in Nat : k < n => k \in S PROVE n \in S
  <2> SUFFICES ASSUME NEW m \in Nat, m < n PROVE G(m, n)
    OBVIOUS
  <2>0. /\ Digits[m] \in Seq(Nat) /\ Len(Digits[m]) >= 1
        /\ Digits[n] \in Seq(Nat) /\ Len(Digits[n]) >= 1
    BY DigitsShape
  <2>1. CASE n < Base
    <3>1. m < Base
      BY <2>1, NumberingAssumption
    <3>2. Digits[m] = <<m>> /\ Digits[n] = <<n>>
      BY <2>1, <3>1, OneDigit
    <3> QED BY <3>2 DEF TextLess
  <2>2. CASE n >= Base /\ m < Base
    <3>1. Len(Digits[m]) = 1 /\ Len(Digits[n]) = Len(Digits[n \div Base]) + 1
      BY <2>2, OneDigit, MoreDigits
    <3>2. n \div Base \in Nat
      BY <2>2, MoreDigits
    <3>3. Len(Digits[n \div Base]) \in Nat /\ Len(Digits[n \div Base]) >= 1
      BY <3>2, DigitsShape
    <3> QED BY <3>1, <3>3
  <2>3. CASE n >= Base /\ m >= Base
    <3> DEFINE p == m \div Base
               q == n \div Base
               a == m % Base
               b == n % Base
    <3>1. /\ p \in Nat /\ a \in 0 .. Base - 1 /\ m = (Base * p) + a
          /\ q \in Nat /\ b \in 0 .. Base - 1 /\ n = (Base * q) + b
          /\ q < n
      BY <2>3, MoreDigits
    <3>2. /\ Len(Digits[m]) = Len(Digits[p]) + 1
          /\ \A i \in 1 .. Len(Digits[p]) : Digits[m][i] = Digits[p][i]
          /\ Digits[m][Len(Digits[m])] = a
          /\ Len(Digits[n]) = Len(Digits[q]) + 1
          /\ \A i \in 1 .. Len(Digits[q]) : Digits[n][i] = Digits[q][i]
          /\ Digits[n][Len(Digits[n])] = b
      BY <2>3, MoreDigits
    <3>3. p <= q /\ (p = q => a < b)
      <4> HIDE DEF p, q, a, b
      <4>1. p > q => (Base * p) >= (Base * q) + Base
        BY <3>1, NumberingAssumption
      <4> QED BY <3>1, <4>1, NumberingAssumption
    <3>4. /\ Digits[p] \in Seq(Nat) /\ Len(Digits[p]) \in Nat
          /\ Digits[q] \in Seq(Nat) /\ Len(Digits[q]) \in Nat
      BY <3>1, DigitsShape
    <3>5. p < q => G(p, q)
      BY <1>1, <3>1
    <3> HIDE DEF p, q, a, b
    <3>6. CASE p = q
      <4>1. Len(Digits[m]) = Len(Digits[n])
        BY <3>2, <3>6
      <4>2. \A j \in 1 .. Len(Digits[n]) - 1 : j \in DOMAIN Digits[m] /\ Digits[m][j] = Digits[n][j]
        BY <3>2, <3>4, <3>6, <2>0
      <4>3. Digits[m][Len(Digits[n])] < Digits[n][Len(Digits[n])]
        BY <3>2, <3>3, <3>6, <4>1
      <4>4. Len(Digits[n]) \in DOMAIN Digits[n]
        BY <2>0
      <4> QED BY <4>1, <4>2, <4>3, <4>4 DEF TextLess
    <3>7. CASE p < q
      <4>1. Len(Digits[m]) <= Len(Digits[n])
        BY <3>5, <3>7, <3>2, <3>4
      <4>2. ASSUME Len(Digits[m]) = Len(Digits[n]) PROVE TextLess(Digits[m], Digits[n])
        <5>1. Len(Digits[p]) = Len(Digits[q])
          <6>1. /\ Len(Digits[m]) = Len(Digits[p]) + 1
                /\ Len(Digits[n]) = Len(Digits[q]) + 1
            BY <3>2
          <6>2. Len(Digits[p]) \in Nat /\ Len(Digits[q]) \in Nat
            BY <3>4
          <6>3. Len(Digits[p]) + 1 = Len(Digits[q]) + 1
            BY <4>2, <6>1, Zenon
          <6> QED BY <6>2, <6>3
        <5>2. PICK i \in DOMAIN Digits[q] :
                 /\ \A j \in 1 .. i - 1 : j \in DOMAIN Digits[p] /\ Digits[p][j] = Digits[q][j]
                 /\ i \in DOMAIN Digits[p] => Digits[p][i] < Digits[q][i]
          BY <3>5, <3>7, <5>1 DEF TextLess
        <5>3. i \in DOMAIN Digits[p] /\ i \in 1 .. Len(Digits[q])
          BY <5>1, <3>4
        <5>4. \A j \in 1 .. Len(Digits[q]) :
                 /\ j \in DOMAIN Digits[m] /\ j \in DOMAIN Digits[n]
                 /\ Digits[m][j] = Digits[p][j] /\ Digits[n][j] = Digits[q][j]
          <6>1. /\ Len(Digits[m]) = Len(Digits[q]) + 1 /\ Len(Digits[n]) = Len(Digits[q]) + 1
                /\ \A j \in 1 .. Len(Digits[q]) : /\ Digits[m][j] = Digits[p][j]
                                                  /\ Digits[n][j] = Digits[q][j]
            BY <3>2, <5>1
          <6>2. Len(Digits[q]) \in Nat
            BY <3>4
          <6>3. DOMAIN Digits[m] = 1 .. Len(Digits[m]) /\ DOMAIN Digits[n] = 1 .. Len(Digits[n])
            BY <2>0
          <6> QED BY <6>1, <6>2, <6>3
        <5>5. i \in DOMAIN Digits[n] /\ Digits[m][i] < Digits[n][i]
          BY <5>2, <5>3, <5>4
        <5>6. \A j \in 1 .. i - 1 : j \in DOMAIN Digits[m] /\ Digits[m][j] = Digits[n][j]
          <6>1. \A j \in 1 .. i - 1 : j \in 1 .. Len(Digits[q])
            BY <5>3, <3>4
          <6> QED BY <5>2, <5>4, <6>1
        <5> QED BY <5>5, <5>6 DEF TextLess
      <4> QED BY <4>1, <4>2
    <3> QED BY <3>1, <3>3, <3>6, <3>7
  <2> QED BY <2>1, <2>2, <2>3, NumberingAssumption
<1> HIDE DEF S
<1>2. \A n \in Nat : n \in S
  BY <1>1, FromSmaller
<1> QED BY <1>2 DEF S

\* A number with more digits than the one before it is a one followed by zeros,
\* and the one before begins with the greatest digit.
LEMMA DigitsRoll ==
    \A n \in Nat :
        Len(Digits[n + 1]) # Len(Digits[n]) =>
            /\ Len(Digits[n + 1]) = Len(Digits[n]) + 1
            /\ Digits[n + 1][1] = 1 /\ Digits[n][1] = Base - 1
<1> DEFINE R(n) == /\ Len(Digits[n + 1]) = Len(Digits[n]) + 1
                   /\ Digits[n + 1][1] = 1 /\ Digits[n][1] = Base - 1
           S == {n \in Nat : Len(Digits[n + 1]) # Len(Digits[n]) => R(n)}
<1>1. ASSUME NEW n \in Nat, \A k \in Nat : k < n => k \in S PROVE n \in S
  <2> SUFFICES ASSUME Len(Digits[n + 1]) # Len(Digits[n]) PROVE R(n)
    OBVIOUS
  <2>0. /\ n + 1 \in Nat /\ Digits[n + 1] \in Seq(Nat) /\ Len(Digits[n + 1]) >= 1
        /\ Digits[n] \in Seq(Nat) /\ Len(Digits[n]) >= 1
    BY DigitsShape
  <2>1. CASE n + 1 < Base
    BY <2>1, OneDigit, NumberingAssumption
  <2>2. CASE n + 1 = Base
    <3>1. (n + 1) \div Base = 1
      BY <2>2, NumberingAssumption
    <3>2. Digits[1] = <<1>>
      BY OneDigit, NumberingAssumption
    <3>3. Len(Digits[n]) = 1 /\ Digits[n][1] = Base - 1
      BY <2>2, OneDigit, NumberingAssumption
    <3>4. /\ Len(Digits[n + 1]) = Len(Digits[1]) + 1
          /\ \A i \in 1 .. Len(Digits[1]) : Digits[n + 1][i] = Digits[1][i]
      <4>1. n + 1 >= Base
        BY <2>2, NumberingAssumption
      <4>2. /\ Len(Digits[n + 1]) = Len(Digits[(n + 1) \div Base]) + 1
            /\ \A i \in 1 .. Len(Digits[(n + 1) \div Base]) :
                  Digits[n + 1][i] = Digits[(n + 1) \div Base][i]
        BY <4>1, <2>0, MoreDigits
      <4> QED BY <4>2, <3>1
    <3> QED BY <3>2, <3>3, <3>4
  <2>3. CASE n >= Base
    <3> DEFINE p == n \div Base
               q == (n + 1) \div Base
               a == n % Base
               b == (n + 1) % Base
    <3>0. n + 1 >= Base
      BY <2>3, NumberingAssumption
    <3>1. /\ p \in Nat /\ a \in 0 .. Base - 1 /\ n = (Base * p) + a /\ p < n
          /\ q \in Nat /\ b \in 0 .. Base - 1 /\ n + 1 = (Base * q) + b
      <4>1. p \in Nat /\ a \in 0 .. Base - 1 /\ n = (Base * p) + a /\ p < n
        BY <2>3, MoreDigits
      <4>2. q \in Nat /\ b \in 0 .. Base - 1 /\ n + 1 = (Base * q) + b
        BY <2>0, <3>0, MoreDigits
      <4> QED BY <4>1, <4>2
    <3>2. /\ Len(Digits[n]) = Len(Digits[p]) + 1
          /\ \A i \in 1 .. Len(Digits[p]) : Digits[n][i] = Digits[p][i]
          /\ Len(Digits[n + 1]) = Len(Digits[q]) + 1
          /\ \A i \in 1 .. Len(Digits[q]) : Digits[n + 1][i] = Digits[q][i]
      <4>1. /\ Len(Digits[n]) = Len(Digits[p]) + 1
            /\ \A i \in 1 .. Len(Digits[p]) : Digits[n][i] = Digits[p][i]
        BY <2>3, MoreDigits
      <4>2. /\ Len(Digits[n + 1]) = Len(Digits[q]) + 1
            /\ \A i \in 1 .. Len(Digits[q]) : Digits[n + 1][i] = Digits[q][i]
        BY <2>0, <3>0, MoreDigits
      <4> QED BY <4>1, <4>2
    <3>3. /\ Digits[p] \in Seq(Nat) /\ Len(Digits[p]) >= 1
          /\ Digits[q] \in Seq(Nat) /\ Len(Digits[q]) >= 1
      BY <3>1, DigitsShape
    <3>4. p \in S
      BY <1>1, <3>1
    <3> HIDE DEF p, q, a, b
    <3>5. q = p \/ q = p + 1
      <4>1. q < p => (Base * p) >= (Base * q) + Base
        BY <3>1, NumberingAssumption
      <4>2. q > p + 1 => (Base * q) >= (Base * p) + (2 * Base)
        BY <3>1, NumberingAssumption
      <4> QED BY <3>1, <4>1, <4>2, NumberingAssumption
    <3>6. q # p
      BY <3>2
    <3>7. Len(Digits[p + 1]) # Len(Digits[p]) /\ q = p + 1
      BY <3>2, <3>5, <3>6
    <3>8. R(p)
      BY <3>4, <3>7
    <3> QED BY <3>2, <3>3, <3>7, <3>8
  <2> QED BY <2>1, <2>2, <2>3, NumberingAssumption
<1> HIDE DEF S
<1>2. \A n \in Nat : n \in S
  BY <1>1, FromSmaller
<1> QED BY <1>2 DEF S

-----------------------------------------------------------------------------
(* The order of texts                                                      *)

LEMMA TextNotLessItself ==
    ASSUME NEW a \in Seq(Nat) PROVE ~TextLess(a, a)
BY DEF TextLess

LEMMA TextLessTransitive ==
    ASSUME NEW a \in Seq(Nat), NEW b \in Seq(Nat), NEW c \in Seq(Nat),
           TextLess(a, b), TextLess(b, c)
    PROVE  TextLess(a, c)
<1>1. PICK i \in DOMAIN b : /\ \A j \in 1 .. i - 1 : j \in DOMAIN a /\ a[j] = b[j]
                            /\ i \in DOMAIN a => a[i] < b[i]
  BY DEF TextLess
<1>2. PICK k \in DOMAIN c : /\ \A j \in 1 .. k - 1 : j \in DOMAIN b /\ b[j] = c[j]
                            /\ k \in DOMAIN b => b[k] < c[k]
  BY DEF TextLess
<1>3. /\ i \in Nat /\ k \in Nat /\ i >= 1 /\ k >= 1
      /\ \A j \in DOMAIN a : a[j] \in Nat
      /\ \A j \in DOMAIN b : b[j] \in Nat
      /\ \A j \in DOMAIN c : c[j] \in Nat
  <2>1. DOMAIN b = 1 .. Len(b) /\ Len(b) \in Nat /\ DOMAIN c = 1 .. Len(c) /\ Len(c) \in Nat
    OBVIOUS
  <2>2. i \in Nat /\ k \in Nat /\ i >= 1 /\ k >= 1
    BY <2>1
  <2> QED BY <2>2
<1>4. CASE i < k
  <2>1. i \in DOMAIN c /\ b[i] = c[i]
    <3>1. i \in 1 .. k - 1 /\ DOMAIN c = 1 .. Len(c) /\ k \in 1 .. Len(c) /\ Len(c) \in Nat
      BY <1>2, <1>3, <1>4
    <3> QED BY <3>1, <1>2
  <2>2. \A j \in 1 .. i - 1 : j \in DOMAIN a /\ a[j] = c[j]
    BY <1>1, <1>2, <1>3, <1>4
  <2>3. i \in DOMAIN a => a[i] < c[i]
    BY <1>1, <2>1
  <2> QED BY <2>1, <2>2, <2>3 DEF TextLess
<1>5. CASE k <= i
  <2>1. ASSUME NEW j \in 1 .. k - 1 PROVE j \in DOMAIN a /\ a[j] = c[j]
    <3>1. j \in 1 .. i - 1
      BY <1>3, <1>5
    <3> QED BY <3>1, <1>1, <1>2
  <2>2. k \in DOMAIN b
    <3>1. DOMAIN b = 1 .. Len(b) /\ i \in 1 .. Len(b) /\ Len(b) \in Nat
      BY <1>1
    <3> QED BY <3>1, <1>3, <1>5
  <2>3. ASSUME k \in DOMAIN a PROVE a[k] < c[k]
    <3>1. a[k] <= b[k]
      <4>1. CASE k = i
        <5>1. a[i] < b[i] /\ a[i] \in Nat /\ b[i] \in Nat
          BY <1>1, <1>3, <2>3, <4>1
        <5> QED BY <4>1, <5>1
      <4>2. CASE k # i
        <5>1. k \in 1 .. i - 1
          BY <1>3, <1>5, <4>2
        <5>2. a[k] = b[k] /\ b[k] \in Nat
          BY <1>1, <1>3, <2>2, <5>1
        <5> QED BY <5>2
      <4> QED BY <4>1, <4>2
    <3>2. b[k] < c[k]
      BY <1>2, <2>2
    <3>3. a[k] \in Nat /\ b[k] \in Nat /\ c[k] \in Nat
      BY <1>3, <1>2, <2>2, <2>3
    <3> QED BY <3>1, <3>2, <3>3
  <2> QED BY <2>1, <2>3 DEF TextLess
<1> QED BY <1>3, <1>4, <1>5

LEMMA TextLessTotal ==
    ASSUME NEW a \in Seq(Nat), NEW b \in Seq(Nat), a # b
    PROVE  TextLess(a, b) \/ TextLess(b, a)
<1> SUFFICES ASSUME ~TextLess(a, b), ~TextLess(b, a) PROVE FALSE
  OBVIOUS
<1> DEFINE Same(i) == /\ i \in DOMAIN a <=> i \in DOMAIN b
                      /\ i \in DOMAIN a => a[i] = b[i]
           S == {i \in Nat : i > 0 => Same(i)}
<1>0. /\ DOMAIN a = 1 .. Len(a) /\ Len(a) \in Nat /\ \A j \in DOMAIN a : a[j] \in Nat
      /\ DOMAIN b = 1 .. Len(b) /\ Len(b) \in Nat /\ \A j \in DOMAIN b : b[j] \in Nat
  OBVIOUS
<1>1. ASSUME NEW i \in Nat, \A m \in Nat : m < i => m \in S PROVE i \in S
  <2> SUFFICES ASSUME i > 0 PROVE Same(i)
    OBVIOUS
  <2>1. \A j \in 1 .. i - 1 : Same(j)
    BY <1>1
  <2>2. ASSUME i \in DOMAIN b PROVE i \in DOMAIN a /\ ~(a[i] < b[i])
    <3>1. \A j \in 1 .. i - 1 : j \in DOMAIN b
      BY <1>0, <2>2
    <3>2. \A j \in 1 .. i - 1 : j \in DOMAIN a /\ a[j] = b[j]
      BY <2>1, <3>1
    <3> QED BY <2>2, <3>2 DEF TextLess
  <2>3. ASSUME i \in DOMAIN a PROVE i \in DOMAIN b /\ ~(b[i] < a[i])
    <3>1. \A j \in 1 .. i - 1 : j \in DOMAIN a
      BY <1>0, <2>3
    <3>2. \A j \in 1 .. i - 1 : j \in DOMAIN b /\ b[j] = a[j]
      BY <2>1, <3>1
    <3> QED BY <2>3, <3>2 DEF TextLess
  <2> QED BY <1>0, <2>2, <2>3
<1> HIDE DEF S
<1>2. \A i \in Nat : i \in S
  BY <1>1, FromSmaller
<1>3. \A i \in Nat : i > 0 => Same(i)
  BY <1>2 DEF S
<1>4. Len(a) = Len(b)
  <2>1. Len(a) > 0 => Len(a) \in 1 .. Len(b)
    BY <1>0, <1>3
  <2>2. Len(b) > 0 => Len(b) \in 1 .. Len(a)
    BY <1>0, <1>3
  <2>3. Len(a) \in Nat /\ Len(b) \in Nat
    BY <1>0
  <2>4. Len(a) <= Len(b) /\ Len(b) <= Len(a)
    BY <2>1, <2>2, <2>3
  <2> QED BY <2>3, <2>4
<1>5. \A i \in 1 .. Len(a) : a[i] = b[i]
  BY <1>0, <1>3
<1> QED BY <1>4, <1>5

-----------------------------------------------------------------------------
(* The texts of the numbers                                                *)

\* The zeros before the digits of n.
Zeros(n) == IF Fits(n) THEN Width - Len(Digits[n]) ELSE 0

LEMMA PaddedText ==
    ASSUME NEW n \in Nat
    PROVE  /\ Padded(n) \in Seq(Nat) /\ Zeros(n) \in Nat
           /\ Len(Padded(n)) = Zeros(n) + Len(Digits[n])
           /\ \A i \in 1 .. Zeros(n) : Padded(n)[i] = 0
           /\ \A i \in 1 .. Len(Digits[n]) : Padded(n)[Zeros(n) + i] = Digits[n][i]
<1> DEFINE d == Digits[n]
           z == [i \in 1 .. Width - Len(d) |-> 0]
<1>1. d \in Seq(Nat) /\ Len(d) \in Nat
  BY DigitsShape
<1>2. Zeros(n) \in Nat /\ 1 .. Width - Len(d) = 1 .. Zeros(n)
  <2> HIDE DEF d
  <2>1. Zeros(n) = IF Len(d) <= Width THEN Width - Len(d) ELSE 0
    BY DEF Zeros, Fits, d
  <2> QED BY <1>1, <2>1, NumberingAssumption
<1>3. z = [i \in 1 .. Zeros(n) |-> 0]
  BY <1>2
<1>4. z \in Seq(Nat) /\ Len(z) = Zeros(n) /\ \A i \in 1 .. Zeros(n) : z[i] = 0
  <2> HIDE DEF z
  <2> QED BY <1>2, <1>3
<1>5. Padded(n) = z \o d
  BY DEF Padded
<1> HIDE DEF d, z
<1>6. /\ Padded(n) \in Seq(Nat) /\ Len(Padded(n)) = Zeros(n) + Len(d)
      /\ \A i \in 1 .. Zeros(n) : Padded(n)[i] = 0
  BY <1>1, <1>2, <1>4, <1>5
<1>7. \A i \in 1 .. Len(d) : Padded(n)[Zeros(n) + i] = d[i]
  BY <1>1, <1>2, <1>4, <1>5
<1> QED BY <1>2, <1>6, <1>7 DEF d

LEMMA FitsBelow ==
    ASSUME NEW m \in Nat, NEW n \in Nat, m <= n, Fits(n)
    PROVE  Fits(m)
<1>1. m < n => Len(Digits[m]) <= Len(Digits[n])
  BY DigitsGrow
<1>2. Len(Digits[m]) \in Nat /\ Len(Digits[n]) \in Nat
  BY DigitsShape
<1> QED BY <1>1, <1>2, NumberingAssumption DEF Fits

\* Numbers with as many digits, and numbers that fit the padding, are in the
\* order of their texts.
LEMMA TextOrder ==
    ASSUME NEW m \in Nat, NEW n \in Nat, m < n,
           Len(Digits[m]) = Len(Digits[n]) \/ Fits(n)
    PROVE  TextLess(Padded(m), Padded(n))
<1> DEFINE a == Padded(m)
           b == Padded(n)
           y == Zeros(m)
           z == Zeros(n)
           c == Len(Digits[m])
           d == Len(Digits[n])
<1>1. /\ a \in Seq(Nat) /\ y \in Nat /\ Len(a) = y + c
      /\ \A i \in 1 .. y : a[i] = 0
      /\ \A i \in 1 .. c : a[y + i] = Digits[m][i]
  BY PaddedText
<1>2. /\ b \in Seq(Nat) /\ z \in Nat /\ Len(b) = z + d
      /\ \A i \in 1 .. z : b[i] = 0
      /\ \A i \in 1 .. d : b[z + i] = Digits[n][i]
  BY PaddedText
<1>3. /\ Digits[m] \in Seq(Nat) /\ c \in Nat /\ c >= 1
      /\ Digits[n] \in Seq(Nat) /\ d \in Nat /\ d >= 1
      /\ Digits[n][1] > 0
  BY DigitsShape
<1>4. c <= d /\ (c = d => TextLess(Digits[m], Digits[n]))
  BY DigitsGrow
<1>5. DOMAIN a = 1 .. Len(a) /\ DOMAIN b = 1 .. Len(b)
  BY <1>1, <1>2
<1>6. CASE c = d
  <2>1. y = z
    BY <1>6 DEF Zeros, Fits
  <2>2. PICK i \in DOMAIN Digits[n] :
           /\ \A j \in 1 .. i - 1 : j \in DOMAIN Digits[m] /\ Digits[m][j] = Digits[n][j]
           /\ i \in DOMAIN Digits[m] => Digits[m][i] < Digits[n][i]
    BY <1>4, <1>6 DEF TextLess
  <2>3. i \in 1 .. d /\ i \in DOMAIN Digits[m] /\ i \in DOMAIN Digits[n]
    BY <1>3, <1>6, <2>2
  <2> HIDE DEF a, b, y, z, c, d
  <2>4. z + i \in DOMAIN b /\ a[z + i] < b[z + i]
    BY <1>1, <1>2, <1>3, <1>5, <1>6, <2>1, <2>2, <2>3
  <2>5. ASSUME NEW j \in 1 .. (z + i) - 1 PROVE j \in DOMAIN a /\ a[j] = b[j]
    <3>1. j \in DOMAIN a
      BY <1>1, <1>2, <1>3, <1>5, <1>6, <2>1, <2>3
    <3>2. CASE j <= z
      BY <1>1, <1>2, <2>1, <3>1, <3>2
    <3>3. CASE j > z
      <4>1. j - z \in 1 .. i - 1 /\ j - z \in 1 .. d /\ z + (j - z) = j
        BY <3>3, <1>2, <1>3, <2>3
      <4>2. Digits[m][j - z] = Digits[n][j - z]
        BY <4>1, <2>2
      <4>3. a[z + (j - z)] = Digits[m][j - z] /\ b[z + (j - z)] = Digits[n][j - z]
        BY <4>1, <1>1, <1>2, <1>6, <2>1
      <4> QED BY <3>1, <4>1, <4>2, <4>3
    <3> QED BY <3>2, <3>3, <1>2
  <2>6. TextLess(a, b)
    BY <2>4, <2>5 DEF TextLess
  <2> QED BY <2>6 DEF a, b
<1>7. CASE c # d
  <2>1. Fits(n) /\ c < d
    BY <1>7, <1>3, <1>4
  <2>2. Fits(m)
    BY <2>1, FitsBelow
  <2>3. y = Width - c /\ z = Width - d
    BY <2>1, <2>2 DEF Zeros
  <2> HIDE DEF a, b, y, z, c, d
  <2>4. z + 1 <= y
    BY <2>1, <2>3, <1>3, NumberingAssumption
  <2>5. z + 1 \in DOMAIN b /\ b[z + 1] > 0 /\ a[z + 1] = 0
    <3>0. y \in Nat /\ z \in Nat /\ d \in Nat /\ d >= 1
      BY <1>1, <1>2, <1>3, Zenon
    <3>1. 1 \in 1 .. d /\ z + 1 \in 1 .. y /\ z + 1 \in 1 .. z + d
      BY <2>4, <3>0
    <3>2. b[z + 1] = Digits[n][1] /\ a[z + 1] = 0
      BY <3>1, <1>1, <1>2
    <3>3. z + 1 \in DOMAIN b
      BY <3>1, <1>2, <1>5
    <3> QED BY <3>2, <3>3, <1>3
  <2>6. \A j \in 1 .. (z + 1) - 1 : j \in DOMAIN a /\ a[j] = b[j]
    BY <2>4, <1>1, <1>2, <1>3, <1>5
  <2>7. TextLess(a, b)
    BY <2>5, <2>6 DEF TextLess
  <2> QED BY <2>7 DEF a, b
<1> QED BY <1>6, <1>7

\* Different numbers have different texts.
LEMMA TextsDiffer ==
    ASSUME NEW m \in Nat, NEW n \in Nat, m < n
    PROVE  Padded(m) # Padded(n)
<1>1. CASE Len(Digits[m]) = Len(Digits[n]) \/ Fits(n)
  <2>1. TextLess(Padded(m), Padded(n)) /\ Padded(n) \in Seq(Nat)
    BY <1>1, TextOrder, PaddedText
  <2> QED BY <2>1, TextNotLessItself
<1>2. CASE ~Fits(n) /\ Len(Digits[m]) # Len(Digits[n])
  <2> DEFINE c == Len(Digits[m])
             d == Len(Digits[n])
  <2>1. c \in Nat /\ d \in Nat /\ c < d
    <3>1. c \in Nat /\ d \in Nat
      BY DigitsShape
    <3>2. c <= d
      BY DigitsGrow
    <3> QED BY <3>1, <3>2, <1>2
  <2>2. Len(Padded(n)) = d /\ d > Width
    <3>1. Len(Padded(n)) = Zeros(n) + d
      BY PaddedText
    <3>2. Zeros(n) = 0
      BY <1>2 DEF Zeros
    <3>3. ~(d <= Width)
      BY <1>2 DEF Fits
    <3> HIDE DEF d
    <3> QED BY <2>1, <3>1, <3>2, <3>3, NumberingAssumption
  <2>3. Len(Padded(m)) = IF c <= Width THEN (Width - c) + c ELSE 0 + c
    BY PaddedText DEF Zeros, Fits
  <2> HIDE DEF c, d
  <2>4. Len(Padded(m)) < d
    BY <2>1, <2>2, <2>3, NumberingAssumption
  <2> QED BY <2>1, <2>2, <2>4
<1> QED BY <1>1, <1>2

\* The last number that fits is not before the one after it.
LEMMA LastToFit ==
    ASSUME NEW n \in Nat, Fits(n), ~Fits(n + 1)
    PROVE  ~TextLess(Padded(n), Padded(n + 1))
<1> DEFINE a == Padded(n)
           b == Padded(n + 1)
<1>1. /\ Len(Digits[n]) \in Nat /\ Len(Digits[n]) >= 1
      /\ n + 1 \in Nat /\ Len(Digits[n + 1]) \in Nat /\ Len(Digits[n + 1]) >= 1
  BY DigitsShape
<1>2. Len(Digits[n + 1]) # Len(Digits[n])
  BY DEF Fits
<1>3. /\ Len(Digits[n + 1]) = Len(Digits[n]) + 1
      /\ Digits[n + 1][1] = 1 /\ Digits[n][1] = Base - 1
  BY <1>2, DigitsRoll
<1>4. Zeros(n) = 0 /\ Zeros(n + 1) = 0
  BY <1>1, <1>3, NumberingAssumption DEF Zeros, Fits
<1>5. a[1] = Base - 1 /\ b[1] = 1 /\ 1 \in DOMAIN a
  <2>1. a \in Seq(Nat) /\ Len(a) = Len(Digits[n]) /\ a[0 + 1] = Digits[n][1]
    <3>1. /\ a \in Seq(Nat) /\ Len(a) = 0 + Len(Digits[n])
          /\ \A i \in 1 .. Len(Digits[n]) : a[0 + i] = Digits[n][i]
      BY <1>4, PaddedText
    <3>2. 1 \in 1 .. Len(Digits[n])
      BY <1>1
    <3> HIDE DEF a
    <3> QED BY <1>1, <3>1, <3>2
  <2>2. b[0 + 1] = Digits[n + 1][1]
    <3>1. \A i \in 1 .. Len(Digits[n + 1]) : b[0 + i] = Digits[n + 1][i]
      <4>1. \A i \in 1 .. Len(Digits[n + 1]) : b[Zeros(n + 1) + i] = Digits[n + 1][i]
        BY <1>1, PaddedText
      <4> QED BY <1>4, <4>1
    <3>2. 1 \in 1 .. Len(Digits[n + 1])
      BY <1>1
    <3> HIDE DEF b
    <3> QED BY <3>1, <3>2
  <2> QED BY <1>1, <1>3, <2>1, <2>2
<1>6. DOMAIN b = 1 .. Len(b)
  BY <1>1, PaddedText
<1> HIDE DEF a, b
<1>7. ~TextLess(a, b)
  <2> SUFFICES ASSUME NEW i \in DOMAIN b,
                      \A j \in 1 .. i - 1 : j \in DOMAIN a /\ a[j] = b[j],
                      i \in DOMAIN a => a[i] < b[i]
               PROVE  FALSE
    BY DEF TextLess
  <2>1. CASE i = 1
    BY <2>1, <1>5, NumberingAssumption
  <2>2. CASE i > 1
    <3>1. 1 \in 1 .. i - 1
      BY <2>2, <1>6
    <3> QED BY <3>1, <1>5, NumberingAssumption
  <2> QED BY <2>1, <2>2, <1>6
<1> QED BY <1>7 DEF a, b

-----------------------------------------------------------------------------
(* The numbering                                                           *)

\* Among finitely many numbers one has the last text.
LEMMA LastTextExists ==
    ASSUME NEW S \in SUBSET Nat, IsFiniteSet(S), S # {}
    PROVE  \E n \in S : \A m \in S : m # n => TextLess(Padded(m), Padded(n))
<1> DEFINE Above(n) == {m \in S : TextLess(Padded(n), Padded(m))}
           Aboves == {Above(n) : n \in S}
<1>1. Aboves \subseteq FiniteSubsetsOf(Nat)
  <2> SUFFICES ASSUME NEW n \in S PROVE Above(n) \in FiniteSubsetsOf(Nat)
    OBVIOUS
  <2>1. IsFiniteSet(Above(n))
    BY FS_Subset
  <2> QED BY <2>1 DEF FiniteSubsetsOf
<1>2. Aboves # {}
  OBVIOUS
<1>3. IsWellFoundedOn(StrictSubsetOrdering(Nat), FiniteSubsetsOf(Nat))
  BY FS_StrictSubsetOrderingWellFounded
<1>4. PICK U \in Aboves : \A V \in Aboves : ~ (<<V, U>> \in StrictSubsetOrdering(Nat))
  <2> HIDE DEF Aboves
  <2> QED BY <1>1, <1>2, <1>3, WFMin
<1>5. PICK n \in S : U = Above(n)
  OBVIOUS
<1>6. \A m \in S : Padded(m) \in Seq(Nat)
  BY PaddedText
<1>7. ASSUME NEW m \in S, TextLess(Padded(n), Padded(m)) PROVE FALSE
  <2>1. \A k \in Above(m) : k \in Above(n)
    BY <1>6, <1>7, TextLessTransitive
  <2>2. m \in Above(n) /\ m \notin Above(m)
    BY <1>6, <1>7, TextNotLessItself
  <2>3. Above(m) \in SUBSET Nat /\ Above(n) \in SUBSET Nat
    OBVIOUS
  <2>4. Above(m) \subseteq Above(n) /\ Above(m) # Above(n)
    BY <2>1, <2>2
  <2>5. Above(m) \in Aboves
    OBVIOUS
  <2> HIDE DEF Above, Aboves
  <2>6. <<Above(m), Above(n)>> \in StrictSubsetOrdering(Nat)
    BY <2>3, <2>4, SmallerSet, Zenon
  <2> QED BY <2>5, <2>6, <1>4, <1>5
<1>8. ASSUME NEW m \in S, m # n PROVE TextLess(Padded(m), Padded(n))
  <2>1. Padded(m) # Padded(n)
    <3>1. m \in Nat /\ n \in Nat /\ (m < n \/ n < m)
      BY <1>8
    <3> QED BY <3>1, TextsDiffer
  <2> QED BY <2>1, <1>6, <1>7, TextLessTotal
<1> QED BY <1>8

LEMMA LastDocumentExists ==
    ASSUME NumberingTypeOK, numbers # {}
    PROVE  /\ LastDocument \in numbers
           /\ \A m \in numbers : m # LastDocument => TextLess(Padded(m), Padded(LastDocument))
<1>1. numbers \in SUBSET Nat /\ numbers \subseteq 1 .. MaxNumber
  BY NumberingAssumption DEF NumberingTypeOK
<1>2. IsFiniteSet(numbers)
  <2>1. IsFiniteSet(1 .. MaxNumber)
    BY FS_Interval, NumberingAssumption
  <2> QED BY <2>1, <1>1, FS_Subset
<1>3. \E n \in numbers : \A m \in numbers : m # n => TextLess(Padded(m), Padded(n))
  BY <1>1, <1>2, LastTextExists
<1> QED BY <1>3 DEF LastDocument

LEMMA NextNumIsNat ==
    ASSUME NumberingTypeOK
    PROVE  /\ NextNum \in Nat /\ NextNum >= 1
           /\ numbers # {} => LastDocument \in Nat /\ NextNum = LastDocument + 1
<1>1. numbers # {} => LastDocument \in Nat
  <2>1. numbers # {} => LastDocument \in numbers
    BY LastDocumentExists
  <2>2. numbers \in SUBSET Nat
    BY NumberingAssumption DEF NumberingTypeOK
  <2> QED BY <2>1, <2>2
<1> QED BY <1>1 DEF NextNum

\* While the last number that fits exists, no text follows its own.
Stopped == \A n \in numbers : Fits(n) /\ ~Fits(n + 1)
                              => \A m \in numbers : ~TextLess(Padded(n), Padded(m))

NumberingInv == NumberingTypeOK /\ Stopped

\* Of two texts only one is before the other.
LEMMA OneIsBefore ==
    ASSUME NEW m \in Nat, NEW n \in Nat, TextLess(Padded(m), Padded(n))
    PROVE  ~TextLess(Padded(n), Padded(m))
<1>1. Padded(m) \in Seq(Nat) /\ Padded(n) \in Seq(Nat)
  BY PaddedText
<1> QED BY <1>1, TextNotLessItself, TextLessTransitive

\* Then it is the last document, and the next number is the one after it.
LEMMA StoppedAt ==
    ASSUME NumberingInv, NEW n \in numbers, Fits(n), ~Fits(n + 1)
    PROVE  NextNum = n + 1
<1>1. \A m \in numbers : ~TextLess(Padded(n), Padded(m))
  BY DEF NumberingInv, Stopped
<1>2. LastDocument = n
  BY <1>1, LastDocumentExists DEF NumberingInv
<1> QED BY <1>2, NextNumIsNat DEF NumberingInv

LEMMA NumberingInitInv == NumberingInit => NumberingInv
<1> SUFFICES ASSUME NumberingInit PROVE NumberingInv
  OBVIOUS
<1>1. PICK k \in Started : numbers = 1 .. k
  BY DEF NumberingInit
<1>2. k \in Nat /\ k <= MaxNumber /\ (k > 0 => Fits(k - 1))
  BY NumberingAssumption
<1>3. NumberingTypeOK
  <2>1. numbers \subseteq 1 .. MaxNumber
    BY <1>1, <1>2, NumberingAssumption
  <2>2. refused \in BOOLEAN
    BY DEF NumberingInit
  <2> QED BY <2>1, <2>2 DEF NumberingTypeOK
<1>4. ASSUME NEW n \in numbers, Fits(n), ~Fits(n + 1), NEW m \in numbers
      PROVE  ~TextLess(Padded(n), Padded(m))
  <2>1. n \in Nat /\ m \in Nat /\ m <= k /\ k > 0
    BY <1>1, <1>2
  <2>2. n + 1 > k - 1
    <3> SUFFICES ASSUME n + 1 <= k - 1 PROVE FALSE
      BY <1>2, <2>1
    <3>1. k - 1 \in Nat /\ n + 1 \in Nat
      BY <1>2, <2>1
    <3> QED BY <1>2, <1>4, <2>1, <3>1, FitsBelow
  <2>3. m < n \/ m = n \/ m = n + 1
    BY <1>2, <2>1, <2>2
  <2>4. CASE m < n
    BY <2>1, <2>4, <1>4, TextOrder, OneIsBefore
  <2>5. CASE m = n
    BY <2>1, <2>5, PaddedText, TextNotLessItself
  <2>6. CASE m = n + 1
    BY <2>1, <2>6, <1>4, LastToFit
  <2> QED BY <2>3, <2>4, <2>5, <2>6
<1> QED BY <1>3, <1>4 DEF NumberingInv, Stopped

LEMMA CreateInv == NumberingInv /\ Create => NumberingInv'
<1> SUFFICES ASSUME NumberingInv, Create PROVE NumberingInv'
  OBVIOUS
<1>1. NumberingTypeOK /\ numbers' = numbers \cup {NextNum}
  BY DEF NumberingInv, Create
<1>2. NextNum \in 1 .. MaxNumber
  BY <1>1, NextNumIsNat, NumberingAssumption DEF Create
<1>3. NumberingTypeOK'
  BY <1>1, <1>2 DEF NumberingTypeOK, Create
<1>4. ASSUME NEW n \in numbers', Fits(n), ~Fits(n + 1), NEW m \in numbers'
      PROVE  ~TextLess(Padded(n), Padded(m))
  <2>1. n \in Nat /\ m \in Nat
    BY <1>3, NumberingAssumption DEF NumberingTypeOK
  <2>2. CASE n \in numbers /\ m \in numbers
    BY <2>2, <1>4 DEF NumberingInv, Stopped
  <2>3. CASE n \in numbers /\ m = NextNum
    <3>1. m = n + 1
      BY <2>3, <1>4, StoppedAt
    <3> QED BY <2>1, <3>1, <1>4, LastToFit
  <2>4. CASE n = NextNum /\ m = NextNum
    BY <2>1, <2>4, PaddedText, TextNotLessItself
  <2>5. CASE n = NextNum /\ m \in numbers
    <3>1. LastDocument \in Nat /\ n = LastDocument + 1
      BY <2>5, <1>1, NextNumIsNat
    <3>2. TextLess(Padded(LastDocument), Padded(n))
      BY <2>1, <3>1, <1>4, TextOrder
    <3>3. m = LastDocument \/ TextLess(Padded(m), Padded(LastDocument))
      BY <2>5, <1>1, LastDocumentExists
    <3>4. TextLess(Padded(m), Padded(n))
      BY <2>1, <3>1, <3>2, <3>3, PaddedText, TextLessTransitive
    <3> QED BY <2>1, <3>4, OneIsBefore
  <2> QED BY <1>1, <2>2, <2>3, <2>4, <2>5
<1> QED BY <1>3, <1>4 DEF NumberingInv, Stopped

LEMMA DeleteInv ==
    ASSUME NumberingInv, NEW d \in numbers, Delete(d)
    PROVE  NumberingInv'
<1>1. numbers' \subseteq numbers /\ refused' = FALSE
  BY DEF Delete
<1> QED BY <1>1 DEF NumberingInv, NumberingTypeOK, Stopped

LEMMA NumberingStep == NumberingInv /\ [NumberingNext]_numberingVars => NumberingInv'
<1> SUFFICES ASSUME NumberingInv, [NumberingNext]_numberingVars PROVE NumberingInv'
  OBVIOUS
<1>1. CASE Create
  BY <1>1, CreateInv
<1>2. ASSUME NEW d \in numbers, Delete(d) PROVE NumberingInv'
  BY <1>2, DeleteInv
<1>3. CASE UNCHANGED numberingVars
  BY <1>3 DEF numberingVars, NumberingInv, NumberingTypeOK, Stopped
<1> QED BY <1>1, <1>2, <1>3 DEF NumberingNext

LEMMA NumberingInvariant == NumberingSpec => []NumberingInv
BY NumberingInitInv, NumberingStep, PTL DEF NumberingSpec

\* The generated numbers are positive numbers, whatever the base, the padding and
\* the documents deleted: the search for the last one always finds a document.
THEOREM NumberingTypeCorrect == NumberingSpec => []NumberingTypeOK
<1>1. NumberingInv => NumberingTypeOK
  BY DEF NumberingInv
<1> QED BY <1>1, NumberingInvariant, PTL

\* While every number fits the padding, generate_invoice_number returns a number
\* after all those in use, so the unique constraint refuses nothing.
THEOREM NextIsNew == NumberingSpec => []NextFollowsAll
<1>1. NumberingInv => NextFollowsAll
  <2> SUFFICES ASSUME NumberingTypeOK, \A n \in numbers : Fits(n), NEW n \in numbers
               PROVE  n < NextNum
    BY DEF NumberingInv, NextFollowsAll
  <2>1. /\ LastDocument \in numbers /\ LastDocument \in Nat /\ n \in Nat
        /\ NextNum = LastDocument + 1
    BY LastDocumentExists, NextNumIsNat, NumberingAssumption DEF NumberingTypeOK
  <2>2. n = LastDocument \/ TextLess(Padded(n), Padded(LastDocument))
    BY LastDocumentExists
  <2>3. ~(LastDocument < n)
    <3> SUFFICES ASSUME LastDocument < n PROVE FALSE
      OBVIOUS
    <3>1. TextLess(Padded(LastDocument), Padded(n))
      BY <2>1, TextOrder
    <3> QED BY <2>1, <2>2, <3>1, OneIsBefore
  <2> QED BY <2>1, <2>3
<1> QED BY <1>1, NumberingInvariant, PTL

\* With 999 and 1000 in use the code offers 1000 at every attempt, and the unique
\* constraint refuses it: no document of the year is created any more.
THEOREM NumberingStops == NumberingSpec => StopsAtLimit
<1> DEFINE A == Create /\ (\E n \in numbers : Fits(n) /\ ~Fits(n + 1) /\ n + 1 \in numbers)
                => refused' /\ numbers' = numbers
<1>1. NumberingInv /\ [NumberingNext]_numberingVars => [A]_numberingVars
  <2> SUFFICES ASSUME NumberingInv, Create, NEW n \in numbers,
                      Fits(n), ~Fits(n + 1), n + 1 \in numbers
               PROVE  refused' /\ numbers' = numbers
    OBVIOUS
  <2>1. NextNum = n + 1
    BY StoppedAt
  <2> QED BY <2>1 DEF Create
<1>2. NumberingSpec => [][A]_numberingVars
  BY <1>1, NumberingInvariant, PTL DEF NumberingSpec
<1> QED BY <1>2 DEF StopsAtLimit
=============================================================================
