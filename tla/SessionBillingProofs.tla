------------------------ MODULE SessionBillingProofs ------------------------
(***************************************************************************)
(* What SessionBilling guarantees for every class, register, schedule and  *)
(* history of edits.                                                       *)
(***************************************************************************)
EXTENDS SessionBilling, LargestProofs, SequenceTheorems, TLAPS

-----------------------------------------------------------------------------
(* Facts about the helpers                                                 *)

\* Writing a cycle over its row, or after the last row, is what it looks like.
LEMMA PutCycleIsCycles ==
    ASSUME NEW seq \in Seq(Cycle), NEW k \in 1 .. Len(seq) + 1, NEW c \in Cycle
    PROVE  /\ PutCycle(seq, k, c) \in Seq(Cycle)
           /\ Len(PutCycle(seq, k, c)) = IF k = Len(seq) + 1 THEN k ELSE Len(seq)
           /\ PutCycle(seq, k, c)[k] = c
           /\ \A j \in 1 .. Len(seq) : j # k => PutCycle(seq, k, c)[j] = seq[j]
<1>1. CASE k = Len(seq) + 1
  BY <1>1, AppendProperties DEF PutCycle
<1>2. CASE k \in 1 .. Len(seq)
  BY <1>2, ExceptSeq DEF PutCycle
<1> QED BY <1>1, <1>2, LenProperties

\* The row evaluated is one of the student's rows or comes right after them.
LEMMA CurrentIsRow ==
    ASSUME TypeOK, NEW s \in Student
    PROVE  /\ cycles[s] \in Seq(Cycle)
           /\ Len(cycles[s]) \in Nat
           /\ DOMAIN cycles[s] = 1 .. Len(cycles[s])
           /\ Current(s) \in 1 .. Len(cycles[s]) + 1
           /\ Current(s) = Len(cycles[s]) + 1 <=> OpenCycles(s) = {}
           /\ CurrentCycle(s) \in Cycle
<1>1. /\ cycles[s] \in Seq(Cycle) /\ Len(cycles[s]) \in Nat
      /\ DOMAIN cycles[s] = 1 .. Len(cycles[s])
  BY LenProperties DEF TypeOK
<1>2. CASE OpenCycles(s) = {}
  <2>1. NewCycle(NoDate) \in Cycle
    BY DEF NewCycle, Cycle, NoDate
  <2> QED BY <1>1, <1>2, <2>1 DEF Current, CurrentCycle
<1>3. CASE OpenCycles(s) # {}
  <2>1. OpenCycles(s) \subseteq 1 .. Len(cycles[s])
    BY <1>1 DEF OpenCycles
  <2>2. Latest(OpenCycles(s)) \in OpenCycles(s)
    <3>1. /\ OpenCycles(s) \in SUBSET Nat
          /\ \A k \in OpenCycles(s) : k <= Len(cycles[s])
      BY <1>1, <2>1
    <3> QED BY <1>1, <1>3, <3>1, LatestExists
  <2>3. Current(s) \in 1 .. Len(cycles[s])
    BY <1>3, <2>1, <2>2 DEF Current
  <2>4. cycles[s][Current(s)] \in Cycle
    BY <1>1, <2>3, ElementOfSeq
  <2> QED BY <1>1, <1>3, <2>3, <2>4 DEF CurrentCycle
<1> QED BY <1>2, <1>3

\* What an evaluation finds to count is a finite set of dates.
LEMMA UncountedIsFinite ==
    ASSUME TypeOK, NEW s \in Student
    PROVE  /\ Uncounted(s) \subseteq Date
           /\ IsFiniteSet(Uncounted(s))
           /\ Cardinality(Uncounted(s)) \in Nat
           /\ Uncounted(s) # {} =>
                /\ Latest(Uncounted(s)) \in Uncounted(s)
                /\ \A d \in Uncounted(s) : d <= Latest(Uncounted(s))
<1>1. Uncounted(s) \subseteq Date /\ LastDate \in Nat
  BY ConstantsAssumption DEF Uncounted
<1>2. IsFiniteSet(Date)
  BY <1>1, FS_Interval DEF Date
<1>3. IsFiniteSet(Uncounted(s))
  BY <1>1, <1>2, FS_Subset
<1>4. Cardinality(Uncounted(s)) \in Nat
  BY <1>3, FS_CardinalityType
<1>5. ASSUME Uncounted(s) # {}
      PROVE  /\ Latest(Uncounted(s)) \in Uncounted(s)
             /\ \A d \in Uncounted(s) : d <= Latest(Uncounted(s))
  <2>1. Uncounted(s) \in SUBSET Nat /\ \A d \in Uncounted(s) : d <= LastDate
    BY <1>1 DEF Date
  <2> QED BY <1>1, <1>5, <2>1, LatestExists
<1> QED BY <1>1, <1>3, <1>4, <1>5

LEMMA CountedIsCycle ==
    ASSUME TypeOK, NEW s \in Student
    PROVE  Counted(s) \in Cycle
<1>1. CurrentCycle(s) \in Cycle
  BY CurrentIsRow
<1>2. CASE Uncounted(s) = {}
  BY <1>1, <1>2 DEF Counted
<1>3. CASE Uncounted(s) # {}
  <2>1. /\ Uncounted(s) \subseteq Date
        /\ Cardinality(Uncounted(s)) \in Nat
        /\ Latest(Uncounted(s)) \in Date
    BY <1>3, UncountedIsFinite
  <2>2. CurrentCycle(s).sessions_counted + Cardinality(Uncounted(s)) \in Nat
    BY <1>1, <2>1 DEF Cycle
  <2> QED BY <1>1, <1>3, <2>1, <2>2 DEF Counted, Cycle
<1> QED BY <1>2, <1>3

LEMMA FollowingIsCycle ==
    ASSUME TypeOK, NEW s \in Student
    PROVE  Following(s) \in Cycle
<1>1. Counted(s).last_counted_date \in Date \cup {NoDate}
  BY CountedIsCycle DEF Cycle
<1>2. CASE Current(s) + 1 \notin DOMAIN cycles[s]
  <2>1. Following(s) = NewCycle(Counted(s).last_counted_date)
    BY <1>2 DEF Following
  <2> QED BY <1>1, <2>1 DEF NewCycle, Cycle
<1>3. CASE Current(s) + 1 \in DOMAIN cycles[s]
  <2>1. cycles[s][Current(s) + 1] \in Cycle
    BY <1>3, CurrentIsRow, ElementOfSeq
  <2> QED BY <1>1, <1>3, <2>1 DEF Following, Cycle
<1> QED BY <1>2, <1>3

-----------------------------------------------------------------------------
(* Facts about the invoices of an evaluation                               *)

\* The typing invariant: the numbering of the invoices is bounded as well.
TypeInv == TypeOK /\ \A v \in invoices : v.batch <= MaxBatch

LEMMA CallsAreStudents ==
    ASSUME TypeOK
    PROVE  /\ Qualifying \subseteq Student
           /\ FirstCall \subseteq Student
           /\ SecondCall \subseteq Student
BY DEF TypeOK, Qualifying, FirstCall, SecondCall

LEMMA LastBatchIsNat ==
    ASSUME TypeInv
    PROVE  LastBatch \in Nat
<1>1. CASE invoices = {}
  BY <1>1 DEF LastBatch
<1>2. CASE invoices # {}
  <2> DEFINE Batches == {v.batch : v \in invoices}
  <2>1. /\ Batches \in SUBSET Nat
        /\ \A b \in Batches : b <= MaxBatch
        /\ Batches # {}
    BY <1>2 DEF TypeInv, TypeOK, Invoice
  <2>2. Latest(Batches) \in Batches
    <3> HIDE DEF Batches
    <3> QED BY <2>1, LatestExists, ConstantsAssumption
  <2> QED BY <1>2, <2>1, <2>2 DEF LastBatch
<1> QED BY <1>1, <1>2

LEMMA InvoiceIsInvoice ==
    ASSUME TypeOK, NEW call \in SUBSET Student, ~ParentMissing(call),
           NEW batch \in Nat \ {0}, NEW s \in call
    PROVE  InvoiceFor(s, call, batch) \in Invoice
<1>1. parentOf[s] \in Parent
  BY ConstantsAssumption DEF TypeOK, ParentMissing
<1> QED BY <1>1 DEF InvoiceFor, Invoice

LEMMA InvoicesOfAreFinite ==
    ASSUME NEW call \in SUBSET Student, NEW batch
    PROVE  IsFiniteSet(InvoicesOf(call, batch))
<1> DEFINE f == [s \in call |-> InvoiceFor(s, call, batch)]
<1>1. f \in Surjection(call, InvoicesOf(call, batch))
  BY DEF Surjection, InvoicesOf
<1>2. IsFiniteSet(call)
  BY ConstantsAssumption, FS_Subset
<1> QED BY <1>1, <1>2, FS_Surjection

\* The invoices an evaluation creates are invoices, finitely many.
LEMMA CreatedAreInvoices ==
    ASSUME TypeInv, ~ParentMissing(FirstCall), ~ParentMissing(SecondCall)
    PROVE  /\ Created \subseteq Invoice
           /\ Cardinality(Created) \in Nat
<1>1. LastBatch + 1 \in Nat \ {0} /\ LastBatch + 2 \in Nat \ {0}
  BY LastBatchIsNat
<1>2. TypeOK /\ FirstCall \in SUBSET Student /\ SecondCall \in SUBSET Student
  BY CallsAreStudents DEF TypeInv
<1>3. /\ InvoicesOf(FirstCall, LastBatch + 1) \subseteq Invoice
      /\ InvoicesOf(SecondCall, LastBatch + 2) \subseteq Invoice
  BY <1>1, <1>2, InvoiceIsInvoice DEF InvoicesOf
<1>4. IsFiniteSet(Created)
  BY <1>2, InvoicesOfAreFinite, FS_Union DEF Created
<1> QED BY <1>3, <1>4, FS_CardinalityType DEF Created

LEMMA LinkedIsCycle ==
    ASSUME TypeOK, NEW call \in SUBSET Student, ~ParentMissing(call),
           NEW batch \in Nat \ {0}, NEW s \in Student, NEW c \in Cycle
    PROVE  /\ Linked(c, s, call, batch) \in Cycle
           /\ Linked(c, s, call, batch).sessions_counted = c.sessions_counted
           /\ Linked(c, s, call, batch).last_counted_date = c.last_counted_date
           /\ Linked(c, s, call, batch).dates = c.dates
           /\ s \notin call => Linked(c, s, call, batch) = c
<1>1. CASE s \in call
  <2>1. InvoiceFor(s, call, batch) \in Invoice
    BY <1>1, InvoiceIsInvoice
  <2> QED BY <1>1, <2>1 DEF Linked, Cycle
<1>2. CASE s \notin call
  BY <1>2 DEF Linked
<1> QED BY <1>1, <1>2

\* The cycles of a student after an evaluation: the current row has counted, the
\* row after a full one is open, and the other rows are as they were.
LEMMA EvaluatedRows ==
    ASSUME TypeInv, ~ParentMissing(FirstCall), ~ParentMissing(SecondCall),
           NEW s \in Student
    PROVE  LET n == Len(cycles[s])
               k == Current(s)
           IN  /\ Evaluated(s) \in Seq(Cycle)
               /\ Len(Evaluated(s)) = IF Qualifies(s) /\ n <= k THEN k + 1
                                      ELSE IF n <= k THEN k ELSE n
               /\ Evaluated(s)[k] =
                     Linked(Counted(s), s, FirstCall, LastBatch + 1)
               /\ Qualifies(s) => Evaluated(s)[k + 1] =
                     Linked(Following(s), s, SecondCall, LastBatch + 2)
               /\ \A j \in 1 .. n : j # k /\ (j # k + 1 \/ ~Qualifies(s))
                     => Evaluated(s)[j] = cycles[s][j]
<1> DEFINE n    == Len(cycles[s])
           k    == Current(s)
           now  == PutCycle(cycles[s], k, Linked(Counted(s), s, FirstCall, LastBatch + 1))
           next == Linked(Following(s), s, SecondCall, LastBatch + 2)
<1>1. /\ TypeOK
      /\ FirstCall \in SUBSET Student /\ SecondCall \in SUBSET Student
      /\ LastBatch + 1 \in Nat \ {0} /\ LastBatch + 2 \in Nat \ {0}
  BY CallsAreStudents, LastBatchIsNat DEF TypeInv
<1>2. /\ cycles[s] \in Seq(Cycle) /\ n \in Nat
      /\ k \in 1 .. n + 1
  BY <1>1, CurrentIsRow
<1>3. /\ Linked(Counted(s), s, FirstCall, LastBatch + 1) \in Cycle
      /\ next \in Cycle
  BY <1>1, CountedIsCycle, FollowingIsCycle, LinkedIsCycle
<1>4. /\ now \in Seq(Cycle)
      /\ Len(now) = IF k = n + 1 THEN k ELSE n
      /\ now[k] = Linked(Counted(s), s, FirstCall, LastBatch + 1)
      /\ \A j \in 1 .. n : j # k => now[j] = cycles[s][j]
  BY <1>2, <1>3, PutCycleIsCycles, ZenonT(40)
<1>5. CASE ~Qualifies(s)
  <2>1. Evaluated(s) = now
    BY <1>5 DEF Evaluated
  <2> QED BY <1>2, <1>4, <1>5, <2>1
<1>6. CASE Qualifies(s)
  <2>1. Evaluated(s) = PutCycle(now, k + 1, next)
    BY <1>6 DEF Evaluated
  <2>2. k + 1 \in 1 .. Len(now) + 1
    BY <1>2, <1>4
  <2> HIDE DEF now, next
  <2>3. /\ Evaluated(s) \in Seq(Cycle)
        /\ Len(Evaluated(s)) = IF k + 1 = Len(now) + 1 THEN k + 1 ELSE Len(now)
        /\ Evaluated(s)[k + 1] = next
        /\ \A j \in 1 .. Len(now) : j # k + 1 => Evaluated(s)[j] = now[j]
    <3> DEFINE put == PutCycle(now, k + 1, next)
    <3> HIDE DEF k
    <3>1. /\ put \in Seq(Cycle)
          /\ Len(put) = IF k + 1 = Len(now) + 1 THEN k + 1 ELSE Len(now)
          /\ put[k + 1] = next
          /\ \A j \in 1 .. Len(now) : j # k + 1 => put[j] = now[j]
      BY <1>3, <1>4, <2>2, PutCycleIsCycles
    <3> QED BY <2>1, <3>1
  <2> QED BY <1>2, <1>4, <1>6, <2>3 DEF next
<1> QED BY <1>5, <1>6

-----------------------------------------------------------------------------
(* Type correctness                                                        *)

LEMMA InitTypeInv == Init => TypeInv
<1> SUFFICES ASSUME Init PROVE TypeInv
  OBVIOUS
<1>1. attendance \in [Student -> [Date -> Marks]]
  BY ConstantsAssumption DEF Init
<1>2. cycles \in [Student -> Seq(Cycle)]
  <2>1. <<>> \in Seq(Cycle)
    BY EmptySeq
  <2> QED BY <2>1 DEF Init
<1> QED BY <1>1, <1>2 DEF Init, TypeInv, TypeOK, Run

\* Deleting an invoice keeps every cycle a cycle and only clears links to it.
LEMMA DeleteInvoiceRows ==
    ASSUME TypeOK, NEW v, DeleteInvoice(v), NEW s \in Student
    PROVE  /\ cycles'[s] \in Seq(Cycle)
           /\ Len(cycles'[s]) = Len(cycles[s])
           /\ \A k \in 1 .. Len(cycles[s]) :
                /\ cycles[s][k] \in Cycle
                /\ cycles'[s][k] = Unlink(cycles[s][k], v)
                /\ cycles'[s][k].sessions_counted = cycles[s][k].sessions_counted
                /\ cycles'[s][k].last_counted_date = cycles[s][k].last_counted_date
                /\ cycles'[s][k].dates = cycles[s][k].dates
                /\ cycles'[s][k].invoice \in {cycles[s][k].invoice, NoInvoice}
<1> DEFINE n == Len(cycles[s])
<1>1. /\ cycles[s] \in Seq(Cycle) /\ n \in Nat /\ DOMAIN cycles[s] = 1 .. n
  BY LenProperties DEF TypeOK
<1>2. \A k \in 1 .. n : cycles[s][k] \in Cycle
  BY <1>1, ElementOfSeq
<1>3. cycles'[s] = [k \in 1 .. n |-> Unlink(cycles[s][k], v)]
  BY <1>1 DEF DeleteInvoice
<1>4. \A k \in 1 .. n :
        LET c == cycles[s][k] IN
        /\ Unlink(c, v) \in Cycle
        /\ Unlink(c, v).sessions_counted = c.sessions_counted
        /\ Unlink(c, v).last_counted_date = c.last_counted_date
        /\ Unlink(c, v).dates = c.dates
        /\ Unlink(c, v).invoice \in {c.invoice, NoInvoice}
  BY <1>2 DEF Unlink, Cycle
<1>5. /\ cycles'[s] \in Seq(Cycle)
      /\ Len(cycles'[s]) = n
  <2>1. cycles'[s] \in [1 .. n -> Cycle]
    BY <1>3, <1>4
  <2> QED BY <1>1, <2>1
<1> QED BY <1>2, <1>3, <1>4, <1>5

LEMMA NextTypeInv == TypeInv /\ [Next]_vars => TypeInv'
<1> SUFFICES ASSUME TypeInv, [Next]_vars PROVE TypeInv'
  OBVIOUS
<1> USE DEF TypeInv
<1>1. CASE EvaluateSucceeds
  <2>1. /\ ~ParentMissing(FirstCall) /\ ~ParentMissing(SecondCall)
        /\ enrolled \subseteq Student
    BY <1>1 DEF EvaluateSucceeds, TypeOK
  <2>2. cycles' \in [Student -> Seq(Cycle)]
    <3>1. \A s \in Student : Evaluated(s) \in Seq(Cycle)
      BY <2>1, EvaluatedRows
    <3> QED BY <1>1, <3>1 DEF EvaluateSucceeds, TypeOK
  <2>3. /\ invoices' \in SUBSET Invoice
        /\ \A v \in invoices' : v.batch <= MaxBatch
        /\ lastRun' \in Run
    BY <1>1, <2>1, CreatedAreInvoices DEF EvaluateSucceeds, TypeOK, Run
  <2> QED BY <1>1, <2>2, <2>3 DEF EvaluateSucceeds, TypeOK
<1>2. CASE EvaluateFails
  <2>1. Cardinality(InvoicesOf(FirstCall, LastBatch + 1)) \in Nat
    BY CallsAreStudents, InvoicesOfAreFinite, FS_CardinalityType
  <2>2. lastRun' \in Run
    BY <1>2, <2>1 DEF EvaluateFails, Run
  <2> QED BY <1>2, <2>2 DEF EvaluateFails, TypeOK
<1>3. CASE \E s \in Student, d \in Date, mark \in Marks : SetAttendance(s, d, mark)
  <2> PICK s \in Student, d \in Date, mark \in Marks : SetAttendance(s, d, mark)
    BY <1>3
  <2>1. attendance' \in [Student -> [Date -> Marks]]
    BY DEF SetAttendance, TypeOK
  <2> QED BY <2>1 DEF SetAttendance, TypeOK
<1>4. CASE \E s \in Student : Enroll(s) \/ Leave(s)
  BY <1>4 DEF Enroll, Leave, TypeOK
<1>5. CASE \E s \in Student, p \in Guardians : SetParent(s, p)
  BY <1>5 DEF SetParent, TypeOK
<1>6. CASE \E v \in invoices : DeleteInvoice(v)
  <2> PICK v \in invoices : DeleteInvoice(v)
    BY <1>6
  <2>1. \A s \in Student : cycles'[s] \in Seq(Cycle)
    BY DeleteInvoiceRows
  <2>2. cycles' \in [Student -> Seq(Cycle)]
    BY <2>1 DEF DeleteInvoice
  <2> QED BY <2>2 DEF DeleteInvoice, TypeOK
<1>7. CASE \E new \in Schedules : EditSchedule(new)
  BY <1>7 DEF EditSchedule, TypeOK
<1>8. CASE UNCHANGED vars
  BY <1>8 DEF vars, TypeOK
<1> QED BY <1>1, <1>2, <1>3, <1>4, <1>5, <1>6, <1>7, <1>8 DEF Next, Operate

\* Every reachable state is well typed: the rows of every student's cycles stay
\* rows of the table whatever the evaluator, the register and the edits do.
THEOREM TypeCorrect == Spec => []TypeOK
<1>1. TypeInv => TypeOK
  BY DEF TypeInv
<1> QED BY <1>1, InitTypeInv, NextTypeInv, PTL DEF Spec

-----------------------------------------------------------------------------
(* No session is counted twice, if edits leave the last cycles open        *)

\* The rows of one student: no row has counted a session later than its
\* last_counted_date, and that date never decreases from a row to a later one.
RowsInOrder(rows) ==
    /\ \A k \in DOMAIN rows : \A d \in rows[k].dates : d <= rows[k].last_counted_date
    /\ \A j, k \in DOMAIN rows :
          j < k => rows[j].last_counted_date <= rows[k].last_counted_date
RowsDisjoint(rows) ==
    \A j, k \in DOMAIN rows : j # k => rows[j].dates \cap rows[k].dates = {}
RowsExact(rows) ==
    \A k \in DOMAIN rows : rows[k].sessions_counted = Cardinality(rows[k].dates)

RowsOK(rows) == RowsInOrder(rows) /\ RowsDisjoint(rows) /\ RowsExact(rows)

\* The inductive invariant of CarefulSpec.
CycleInv == TypeInv /\ LastCycleOpen /\ \A s \in Student : RowsOK(cycles[s])

\* With the last cycle open, an evaluation goes on with the last row, or with
\* row 1, and the row after it does not exist.
LEMMA CurrentIsLast ==
    ASSUME TypeOK, LastCycleOpen, NEW s \in Student
    PROVE  /\ cycles[s] # <<>> => /\ Current(s) = Len(cycles[s])
                                   /\ CurrentCycle(s) = cycles[s][Current(s)]
           /\ cycles[s] = <<>> => /\ Current(s) = 1
                                   /\ Len(cycles[s]) = 0
                                   /\ CurrentCycle(s) = NewCycle(NoDate)
           /\ IsOpen(CurrentCycle(s))
           /\ Following(s) = NewCycle(Counted(s).last_counted_date)
<1> DEFINE n == Len(cycles[s])
<1>1. cycles[s] \in Seq(Cycle) /\ n \in Nat /\ DOMAIN cycles[s] = 1 .. n
  BY CurrentIsRow
<1>2. CASE cycles[s] = <<>>
  <2>1. n = 0 /\ OpenCycles(s) = {}
    BY <1>1, <1>2 DEF OpenCycles
  <2>2. Current(s) = 1 /\ CurrentCycle(s) = NewCycle(NoDate)
    BY <2>1 DEF Current, CurrentCycle
  <2>3. IsOpen(NewCycle(NoDate))
    <3>1. schedule.sessions_per_cycle \in Nat \ {0}
      BY ConstantsAssumption DEF TypeOK, Schedule
    <3> QED BY <3>1 DEF IsOpen, NewCycle
  <2>4. Current(s) + 1 \notin DOMAIN cycles[s]
    BY <1>1, <2>1, <2>2
  <2> QED BY <1>2, <2>1, <2>2, <2>3, <2>4 DEF Following
<1>3. CASE cycles[s] # <<>>
  <2>1. n \in 1 .. n
    BY <1>1, <1>3, EmptySeq
  <2>2. n \in OpenCycles(s)
    BY <1>1, <1>3, <2>1 DEF LastCycleOpen, OpenCycles
  <2>3. \A k \in OpenCycles(s) : k \in 1 .. n
    BY <1>1 DEF OpenCycles
  <2>4. Latest(OpenCycles(s)) = n
    <3>1. OpenCycles(s) \in SUBSET Nat /\ \A k \in OpenCycles(s) : k <= n
      BY <1>1, <2>3
    <3>2. /\ Latest(OpenCycles(s)) \in OpenCycles(s)
          /\ \A k \in OpenCycles(s) : k <= Latest(OpenCycles(s))
      BY <1>1, <2>2, <3>1, LatestExists
    <3> QED BY <1>1, <2>2, <3>1, <3>2
  <2>5. Current(s) = n /\ CurrentCycle(s) = cycles[s][n]
    BY <2>2, <2>4 DEF Current, CurrentCycle
  <2>6. n + 1 \notin DOMAIN cycles[s]
    BY <1>1
  <2>7. IsOpen(cycles[s][n])
    BY <1>3 DEF LastCycleOpen
  <2> QED BY <1>3, <2>5, <2>6, <2>7 DEF Following
<1> QED BY <1>2, <1>3

\* Counting adds sessions after the row's last_counted_date and moves that date
\* up to the last of them.
LEMMA CountedIsInOrder ==
    ASSUME TypeOK, NEW s \in Student,
           \A d \in CurrentCycle(s).dates : d <= CurrentCycle(s).last_counted_date,
           CurrentCycle(s).sessions_counted = Cardinality(CurrentCycle(s).dates)
    PROVE  /\ Counted(s).dates = CurrentCycle(s).dates \cup Uncounted(s)
           /\ \A d \in Uncounted(s) : d > CurrentCycle(s).last_counted_date
           /\ Counted(s).last_counted_date >= CurrentCycle(s).last_counted_date
           /\ \A d \in Counted(s).dates : d <= Counted(s).last_counted_date
           /\ Counted(s).sessions_counted = Cardinality(Counted(s).dates)
           /\ Counted(s).invoice = CurrentCycle(s).invoice
<1>1. /\ CurrentCycle(s) \in Cycle
      /\ CurrentCycle(s).dates \subseteq Date
      /\ CurrentCycle(s).last_counted_date \in Int
      /\ CurrentCycle(s).sessions_counted \in Nat
  <2>1. CurrentCycle(s) \in Cycle
    BY CurrentIsRow
  <2> QED BY <2>1, ConstantsAssumption DEF Cycle, Date, NoDate
<1>2. \A d \in Uncounted(s) : d > CurrentCycle(s).last_counted_date
  BY DEF Uncounted
<1>3. CASE Uncounted(s) = {}
  BY <1>1, <1>3 DEF Counted
<1>4. CASE Uncounted(s) # {}
  <2>1. /\ Uncounted(s) \subseteq Date
        /\ IsFiniteSet(Uncounted(s))
        /\ Latest(Uncounted(s)) \in Uncounted(s)
        /\ \A d \in Uncounted(s) : d <= Latest(Uncounted(s))
    BY <1>4, UncountedIsFinite
  <2>2. /\ Counted(s).dates = CurrentCycle(s).dates \cup Uncounted(s)
        /\ Counted(s).last_counted_date = Latest(Uncounted(s))
        /\ Counted(s).sessions_counted =
              CurrentCycle(s).sessions_counted + Cardinality(Uncounted(s))
        /\ Counted(s).invoice = CurrentCycle(s).invoice
    BY <1>1, <1>4 DEF Counted, Cycle
  <2>3. Latest(Uncounted(s)) \in Int /\ \A d \in CurrentCycle(s).dates : d \in Int
    BY <1>1, <2>1, ConstantsAssumption DEF Date
  <2>4. Cardinality(Counted(s).dates) =
           CurrentCycle(s).sessions_counted + Cardinality(Uncounted(s))
    <3>1. CurrentCycle(s).dates \cap Uncounted(s) = {}
      BY <1>1, <1>2, <2>3 DEF Uncounted, Date
    <3>2. IsFiniteSet(CurrentCycle(s).dates)
      <4>1. IsFiniteSet(Date)
        BY ConstantsAssumption, FS_Interval DEF Date
      <4> QED BY <1>1, <4>1, FS_Subset
    <3>3. /\ Cardinality(CurrentCycle(s).dates) \in Nat
          /\ Cardinality(Uncounted(s)) \in Nat
      BY <2>1, <3>2, FS_CardinalityType
    <3>4. Cardinality(CurrentCycle(s).dates \cup Uncounted(s)) =
             Cardinality(CurrentCycle(s).dates) + Cardinality(Uncounted(s))
      BY <2>1, <3>1, <3>2, <3>3, FS_Union, FS_EmptySet
    <3> QED BY <2>2, <3>4
  <2>5. \A d \in Counted(s).dates : d <= Counted(s).last_counted_date
    BY <1>1, <1>2, <2>1, <2>2, <2>3
  <2> QED BY <1>1, <1>2, <2>1, <2>2, <2>3, <2>4, <2>5
<1> QED BY <1>3, <1>4

\* What an evaluation leaves of the rows of a student of the class, under the
\* invariant: the earlier rows as they were, the current one counted, and perhaps
\* an empty row after it.
LEMMA EvaluatedIsOK ==
    ASSUME CycleInv, ~ParentMissing(FirstCall), ~ParentMissing(SecondCall),
           NEW s \in Student, s \in enrolled
    PROVE  /\ RowsOK(Evaluated(s))
           /\ IsOpen(Evaluated(s)[Len(Evaluated(s))])
           /\ Len(Evaluated(s)) >= Len(cycles[s])
           /\ \A j \in 1 .. Len(cycles[s]) : j < Len(cycles[s]) =>
                 Evaluated(s)[j] = cycles[s][j]
<1> DEFINE n   == Len(cycles[s])
           k   == Current(s)
           cur == CurrentCycle(s)
           new == Counted(s)
           E   == Evaluated(s)
<1> USE DEF CycleInv, TypeInv
<1>1. /\ n \in Nat /\ DOMAIN cycles[s] = 1 .. n
      /\ cur \in Cycle /\ new \in Cycle /\ Following(s) \in Cycle
      /\ cycles[s] # <<>> => k = n /\ n \in 1 .. n /\ cur = cycles[s][k]
      /\ cycles[s] = <<>> => k = 1 /\ n = 0 /\ cur = NewCycle(NoDate)
      /\ Following(s) = NewCycle(new.last_counted_date)
      /\ IsOpen(cur)
  <2>1. /\ n \in Nat /\ DOMAIN cycles[s] = 1 .. n
        /\ cycles[s] \in Seq(Cycle) /\ cur \in Cycle
    BY CurrentIsRow
  <2>2. new \in Cycle /\ Following(s) \in Cycle
    BY CountedIsCycle, FollowingIsCycle
  <2>3. /\ cycles[s] # <<>> => k = n /\ cur = cycles[s][k]
        /\ cycles[s] = <<>> => k = 1 /\ n = 0 /\ cur = NewCycle(NoDate)
        /\ IsOpen(cur)
        /\ Following(s) = NewCycle(new.last_counted_date)
    BY CurrentIsLast
  <2>4. cycles[s] # <<>> => n \in 1 .. n
    BY <2>1, EmptySeq
  <2> HIDE DEF n, k, cur, new, CycleInv, TypeInv
  <2> QED BY <2>1, <2>2, <2>3, <2>4
<1>2. /\ \A d \in cur.dates : d <= cur.last_counted_date
      /\ cur.sessions_counted = Cardinality(cur.dates)
  <2>1. CASE cycles[s] = <<>>
    <3>1. cur.dates = {} /\ cur.sessions_counted = 0
      BY <1>1, <2>1 DEF NewCycle
    <3>2. Cardinality({}) = 0
      BY FS_EmptySet
    <3> QED BY <3>1, <3>2
  <2>2. CASE cycles[s] # <<>>
    <3>1. RowsInOrder(cycles[s]) /\ RowsExact(cycles[s]) /\ k \in DOMAIN cycles[s]
      BY <1>1, <2>2 DEF RowsOK
    <3> QED BY <1>1, <2>2, <3>1 DEF RowsInOrder, RowsExact
  <2> QED BY <2>1, <2>2
<1>3. /\ new.dates = cur.dates \cup Uncounted(s)
      /\ \A d \in Uncounted(s) : d > cur.last_counted_date
      /\ new.last_counted_date >= cur.last_counted_date
      /\ \A d \in new.dates : d <= new.last_counted_date
      /\ new.sessions_counted = Cardinality(new.dates)
      /\ new.invoice = cur.invoice
  BY <1>2, CountedIsInOrder
<1>4. /\ Len(E) = IF Qualifies(s) THEN k + 1 ELSE k
      /\ E \in Seq(Cycle) /\ DOMAIN E = 1 .. Len(E)
      /\ E[k] = Linked(new, s, FirstCall, LastBatch + 1)
      /\ Qualifies(s) => E[k + 1] = Linked(Following(s), s, SecondCall, LastBatch + 2)
      /\ \A j \in 1 .. k - 1 : E[j] = cycles[s][j]
  <2>1. /\ E \in Seq(Cycle)
        /\ Len(E) = IF Qualifies(s) /\ n <= k THEN k + 1 ELSE IF n <= k THEN k ELSE n
        /\ E[k] = Linked(new, s, FirstCall, LastBatch + 1)
        /\ Qualifies(s) => E[k + 1] = Linked(Following(s), s, SecondCall, LastBatch + 2)
        /\ \A j \in 1 .. n : j # k /\ (j # k + 1 \/ ~Qualifies(s)) => E[j] = cycles[s][j]
    BY EvaluatedRows
  <2>2. k \in Nat /\ n <= k /\ k <= n + 1 /\ (k = n \/ (n = 0 /\ k = 1))
    BY <1>1
  <2>3. DOMAIN E = 1 .. Len(E)
    BY <2>1, LenProperties
  <2>4. \A j \in 1 .. k - 1 : j \in 1 .. n /\ j # k /\ j # k + 1
    BY <1>1, <2>2
  <2> HIDE DEF n, k, E, new
  <2> QED BY <2>1, <2>2, <2>3, <2>4
<1>5. /\ E[k].sessions_counted = new.sessions_counted
      /\ E[k].last_counted_date = new.last_counted_date
      /\ E[k].dates = new.dates
      /\ s \notin FirstCall => E[k] = new
      /\ Qualifies(s) => /\ E[k + 1].sessions_counted = 0
                         /\ E[k + 1].last_counted_date = new.last_counted_date
                         /\ E[k + 1].dates = {}
                         /\ s \notin SecondCall => E[k + 1].invoice = NoInvoice
  <2>1. /\ FirstCall \in SUBSET Student /\ SecondCall \in SUBSET Student
        /\ LastBatch + 1 \in Nat \ {0} /\ LastBatch + 2 \in Nat \ {0}
    BY CallsAreStudents, LastBatchIsNat
  <2>2. /\ Following(s).sessions_counted = 0 /\ Following(s).dates = {}
        /\ Following(s).last_counted_date = new.last_counted_date
        /\ Following(s).invoice = NoInvoice
    BY <1>1 DEF NewCycle
  <2> QED BY <1>1, <1>4, <2>1, <2>2, LinkedIsCycle
<1>6. \A j \in 1 .. k - 1 :
        /\ E[j] = cycles[s][j]
        /\ E[j].last_counted_date \in Int
        /\ E[j].last_counted_date <= cur.last_counted_date
        /\ \A d \in E[j].dates : d \in Int /\ d <= E[j].last_counted_date
        /\ E[j].dates \cap cur.dates = {}
        /\ E[j].sessions_counted = Cardinality(E[j].dates)
  <2> SUFFICES ASSUME NEW j \in 1 .. k - 1
               PROVE  /\ E[j] = cycles[s][j]
                      /\ E[j].last_counted_date \in Int
                      /\ E[j].last_counted_date <= cur.last_counted_date
                      /\ \A d \in E[j].dates : d \in Int /\ d <= E[j].last_counted_date
                      /\ E[j].dates \cap cur.dates = {}
                      /\ E[j].sessions_counted = Cardinality(E[j].dates)
    OBVIOUS
  <2>1. /\ k = n /\ j \in 1 .. n /\ j < k /\ cur = cycles[s][k]
        /\ k \in DOMAIN cycles[s] /\ j \in DOMAIN cycles[s] /\ j # k
    BY <1>1
  <2>2. E[j] = cycles[s][j]
    BY <1>4
  <2>3. E[j] \in Cycle
    BY <2>1, <2>2, CurrentIsRow, ElementOfSeq
  <2>4. /\ RowsInOrder(cycles[s]) /\ RowsDisjoint(cycles[s]) /\ RowsExact(cycles[s])
    BY DEF RowsOK
  <2>5. E[j].last_counted_date \in Int /\ E[j].dates \subseteq Int
    BY <2>3, ConstantsAssumption DEF Cycle, Date, NoDate
  <2> QED
    <3> HIDE DEF n, k, cur, E
    <3> QED BY <2>1, <2>2, <2>4, <2>5 DEF RowsInOrder, RowsDisjoint, RowsExact
<1>7. /\ cur.last_counted_date \in Int /\ new.last_counted_date \in Int
      /\ new.dates \subseteq Int /\ Uncounted(s) \subseteq Int
      /\ k \in Nat \ {0}
  <2>1. Date \cup {NoDate} \subseteq Int
    BY ConstantsAssumption DEF Date, NoDate
  <2> QED BY <1>1, <2>1, UncountedIsFinite DEF Cycle
<1>8. DOMAIN E = 1 .. (IF Qualifies(s) THEN k + 1 ELSE k)
  BY <1>4
<1> HIDE DEF n, k, cur, new, E
<1>9. RowsInOrder(E)
  <2>1. ASSUME NEW j \in DOMAIN E, NEW d \in E[j].dates
        PROVE  d <= E[j].last_counted_date
    <3>1. CASE j \in 1 .. k - 1
      BY <1>6, <3>1
    <3>2. CASE j = k
      BY <1>3, <1>5, <3>2
    <3>3. CASE Qualifies(s) /\ j = k + 1
      BY <1>5, <3>3
    <3> QED BY <1>7, <1>8, <3>1, <3>2, <3>3
  <2>2. ASSUME NEW i \in DOMAIN E, NEW j \in DOMAIN E, i < j
        PROVE  E[i].last_counted_date <= E[j].last_counted_date
    <3>1. CASE i \in 1 .. k - 1 /\ j \in 1 .. k - 1
      <4>1. /\ E[i] = cycles[s][i] /\ E[j] = cycles[s][j]
            /\ i \in DOMAIN cycles[s] /\ j \in DOMAIN cycles[s]
        BY <1>1, <1>6, <1>7, <3>1
      <4> QED BY <2>2, <4>1 DEF RowsOK, RowsInOrder
    <3>2. CASE i \in 1 .. k - 1 /\ (j = k \/ (Qualifies(s) /\ j = k + 1))
      BY <1>3, <1>5, <1>6, <1>7, <3>2
    <3>3. CASE Qualifies(s) /\ i = k /\ j = k + 1
      BY <1>5, <1>7, <3>3
    <3> QED BY <1>7, <1>8, <2>2, <3>1, <3>2, <3>3
  <2> QED BY <2>1, <2>2 DEF RowsInOrder
<1>10. RowsDisjoint(E)
  <2>1. ASSUME NEW i \in DOMAIN E, NEW j \in DOMAIN E, i < j
        PROVE  E[i].dates \cap E[j].dates = {}
    <3>1. CASE i \in 1 .. k - 1 /\ j \in 1 .. k - 1
      <4>1. /\ E[i] = cycles[s][i] /\ E[j] = cycles[s][j] /\ i # j
            /\ i \in DOMAIN cycles[s] /\ j \in DOMAIN cycles[s]
        BY <1>1, <1>6, <1>7, <2>1, <3>1
      <4> QED BY <4>1 DEF RowsOK, RowsDisjoint
    <3>2. CASE i \in 1 .. k - 1 /\ j = k
      <4>1. \A d \in E[i].dates : d \in Int /\ d <= cur.last_counted_date
        BY <1>6, <1>7, <3>2
      <4>2. E[i].dates \cap Uncounted(s) = {}
        BY <1>3, <1>7, <4>1
      <4> QED BY <1>3, <1>5, <1>6, <3>2, <4>2
    <3>3. CASE Qualifies(s) /\ j = k + 1
      BY <1>5, <3>3
    <3> QED BY <1>7, <1>8, <2>1, <3>1, <3>2, <3>3
  <2>2. \A i, j \in DOMAIN E : i # j => i < j \/ j < i
    BY <1>7, <1>8
  <2> QED BY <2>1, <2>2 DEF RowsDisjoint
<1>11. RowsExact(E)
  <2>1. ASSUME NEW j \in DOMAIN E
        PROVE  E[j].sessions_counted = Cardinality(E[j].dates)
    <3>1. CASE j \in 1 .. k - 1
      BY <1>6, <3>1
    <3>2. CASE j = k
      BY <1>3, <1>5, <3>2
    <3>3. CASE Qualifies(s) /\ j = k + 1
      BY <1>5, <3>3, FS_EmptySet
    <3> QED BY <1>7, <1>8, <3>1, <3>2, <3>3
  <2> QED BY <2>1 DEF RowsExact
<1>12. IsOpen(E[Len(E)])
  <2>1. /\ schedule.sessions_per_cycle \in Nat \ {0}
        /\ new.sessions_counted \in Nat
    BY <1>1, ConstantsAssumption DEF TypeOK, Schedule, Cycle
  <2>2. CASE Qualifies(s)
    <3>1. ~AtStart => s \notin SecondCall
      BY DEF SecondCall
    <3> QED BY <1>4, <1>5, <2>1, <2>2, <3>1 DEF IsOpen
  <2>3. CASE ~Qualifies(s)
    <3>1. ~AtStart => s \notin FirstCall
      BY <2>3 DEF FirstCall, Qualifying
    <3>2. new.sessions_counted < schedule.sessions_per_cycle
      BY <2>1, <2>3 DEF Qualifies, new
    <3> QED BY <1>1, <1>3, <1>4, <1>5, <2>3, <3>1, <3>2 DEF IsOpen
  <2> QED BY <2>2, <2>3
<1>13. /\ Len(E) >= n
       /\ \A j \in 1 .. n : j < n => E[j] = cycles[s][j]
  BY <1>1, <1>4, <1>7 DEF n
<1> QED BY <1>9, <1>10, <1>11, <1>12, <1>13 DEF RowsOK, E, n

\* Deleting an invoice leaves what the rows count, and can only open a row.
LEMMA DeletedIsOK ==
    ASSUME CycleInv, NEW v, DeleteInvoice(v), NEW s \in Student
    PROVE  /\ RowsOK(cycles'[s])
           /\ cycles'[s] # <<>> => IsOpen(cycles'[s][Len(cycles'[s])])
           /\ Len(cycles'[s]) = Len(cycles[s])
           /\ \A k \in 1 .. Len(cycles[s]) :
                /\ cycles'[s][k].dates = cycles[s][k].dates
                /\ cycles'[s][k].sessions_counted = cycles[s][k].sessions_counted
<1> DEFINE n == Len(cycles[s])
<1>1. TypeOK /\ LastCycleOpen /\ RowsOK(cycles[s])
  BY DEF CycleInv, TypeInv
<1>2. cycles[s] \in Seq(Cycle) /\ n \in Nat /\ DOMAIN cycles[s] = 1 .. n
  BY <1>1, CurrentIsRow
<1>3. /\ cycles'[s] \in Seq(Cycle) /\ Len(cycles'[s]) = n
      /\ \A k \in 1 .. n :
           /\ cycles'[s][k].sessions_counted = cycles[s][k].sessions_counted
           /\ cycles'[s][k].last_counted_date = cycles[s][k].last_counted_date
           /\ cycles'[s][k].dates = cycles[s][k].dates
           /\ cycles'[s][k].invoice \in {cycles[s][k].invoice, NoInvoice}
  BY <1>1, DeleteInvoiceRows
<1>4. DOMAIN cycles'[s] = 1 .. n
  BY <1>3, LenProperties
<1>5. RowsOK(cycles'[s])
  <2> HIDE DEF n
  <2> QED BY <1>1, <1>2, <1>3, <1>4 DEF RowsOK, RowsInOrder, RowsDisjoint, RowsExact
<1>6. cycles'[s] # <<>> => IsOpen(cycles'[s][n])
  <2> SUFFICES ASSUME cycles'[s] # <<>> PROVE IsOpen(cycles'[s][n])
    OBVIOUS
  <2>1. n # 0 /\ cycles[s] # <<>>
    BY <1>2, <1>3, EmptySeq
  <2>2. n \in 1 .. n /\ IsOpen(cycles[s][n])
    BY <1>1, <1>2, <2>1 DEF LastCycleOpen
  <2> QED BY <1>3, <2>2 DEF IsOpen
<1> QED BY <1>3, <1>5, <1>6

\* An evaluation of a careful system keeps the rows of every student in order and
\* adds to the last one only.
LEMMA EvaluateKeepsRows ==
    ASSUME CycleInv, EvaluateSucceeds, NEW s \in Student
    PROVE  /\ RowsOK(cycles'[s])
           /\ cycles'[s] # <<>> => IsOpen(cycles'[s][Len(cycles'[s])])
           /\ Len(cycles'[s]) >= Len(cycles[s])
           /\ \A k \in 1 .. Len(cycles[s]) : k < Len(cycles[s]) =>
                 cycles'[s][k] = cycles[s][k]
<1>1. /\ ~ParentMissing(FirstCall) /\ ~ParentMissing(SecondCall)
      /\ cycles'[s] = IF s \in enrolled THEN Evaluated(s) ELSE cycles[s]
  BY DEF EvaluateSucceeds
<1>2. CASE s \in enrolled
  BY <1>1, <1>2, EvaluatedIsOK
<1>3. CASE s \notin enrolled
  <2>1. cycles'[s] = cycles[s] /\ Len(cycles[s]) \in Nat
    BY <1>1, <1>3, CurrentIsRow DEF CycleInv, TypeInv
  <2> QED BY <2>1 DEF CycleInv, LastCycleOpen
<1> QED BY <1>2, <1>3

LEMMA InitCycleInv == Init => CycleInv
<1> SUFFICES ASSUME Init PROVE CycleInv
  OBVIOUS
<1>1. TypeInv
  BY InitTypeInv
<1>2. \A s \in Student : cycles[s] = <<>>
  BY DEF Init
<1>3. DOMAIN <<>> = {}
  OBVIOUS
<1> QED BY <1>1, <1>2, <1>3
        DEF CycleInv, LastCycleOpen, RowsOK, RowsInOrder, RowsDisjoint, RowsExact

LEMMA NextCycleInv == CycleInv /\ [CarefulNext]_vars => CycleInv'
<1> SUFFICES ASSUME CycleInv, [CarefulNext]_vars PROVE CycleInv'
  OBVIOUS
<1>1. TypeInv'
  BY NextTypeInv DEF CycleInv, CarefulNext, CarefulEdit, Next
<1>2. CASE EvaluateSucceeds
  <2>1. \A s \in Student : RowsOK(cycles'[s])
    BY <1>2, EvaluateKeepsRows
  <2>2. \A s \in Student : cycles'[s] # <<>> => IsOpen(cycles'[s][Len(cycles'[s])])
    BY <1>2, EvaluateKeepsRows
  <2>3. schedule' = schedule
    BY <1>2 DEF EvaluateSucceeds
  <2> QED BY <1>1, <2>1, <2>2, <2>3 DEF CycleInv, LastCycleOpen, IsOpen, AtStart
<1>3. CASE \E v \in invoices : DeleteInvoice(v)
  <2> PICK v \in invoices : DeleteInvoice(v)
    BY <1>3
  <2>1. \A s \in Student : RowsOK(cycles'[s])
    BY DeletedIsOK
  <2>2. \A s \in Student : cycles'[s] # <<>> => IsOpen(cycles'[s][Len(cycles'[s])])
    BY DeletedIsOK
  <2>3. schedule' = schedule
    BY DEF DeleteInvoice
  <2> QED BY <1>1, <2>1, <2>2, <2>3 DEF CycleInv, LastCycleOpen, IsOpen, AtStart
<1>4. CASE \E new \in Schedules : CarefulEdit(new)
  <2>1. LastCycleOpen' /\ cycles' = cycles
    BY <1>4 DEF CarefulEdit, EditSchedule
  <2> QED BY <1>1, <2>1 DEF CycleInv
<1>5. CASE UNCHANGED <<schedule, cycles>>
  BY <1>1, <1>5 DEF CycleInv, LastCycleOpen, IsOpen, AtStart
<1> QED
  BY <1>2, <1>3, <1>4, <1>5
  DEF CarefulNext, Operate, vars, EvaluateFails, SetAttendance, Enroll, Leave, SetParent

LEMMA CycleInvHolds == CarefulSpec => []CycleInv
BY InitCycleInv, NextCycleInv, PTL DEF CarefulSpec

-----------------------------------------------------------------------------
(* The lines of the invoices and the cycles, whatever the settings           *)

MatchInv == TypeInv /\ LinesMatchCycles

\* The invoice of a student's row; a row that is not there has none.
InvoiceOf(s, k) == IF k \in DOMAIN cycles[s] THEN cycles[s][k].invoice ELSE NoInvoice

\* New invoices are numbered after all that exist.
LEMMA BatchesGrow ==
    ASSUME TypeInv, NEW v \in invoices
    PROVE  v.batch \in Nat /\ v.batch <= LastBatch
<1> DEFINE Batches == {w.batch : w \in invoices}
<1>1. Batches \in SUBSET Nat /\ v.batch \in Batches /\ \A b \in Batches : b <= MaxBatch
  BY DEF TypeInv, TypeOK, Invoice
<1>2. LastBatch = Latest(Batches)
  BY DEF LastBatch
<1> HIDE DEF Batches
<1> QED
  BY <1>1, <1>2, LatestExists, ConstantsAssumption

LEMMA OwnInvoice ==
    ASSUME NEW call \in SUBSET Student, NEW batch, NEW s \in call
    PROVE  InvoiceFor(s, call, batch) \in InvoicesOf(call, batch) /\ s \in InvoiceFor(s, call, batch).lines
<1>1. InvoiceFor(s, call, batch) \in InvoicesOf(call, batch)
  BY DEF InvoicesOf
<1>2. s \in InvoiceFor(s, call, batch).lines
  BY DEF InvoiceFor
<1> QED
  BY <1>1, <1>2

\* A student's invoice is that of everyone with a line on it.
LEMMA SharedInvoice ==
    ASSUME NEW call \in SUBSET Student, NEW batch, NEW v \in InvoicesOf(call, batch), NEW t \in v.lines
    PROVE  t \in call /\ v = InvoiceFor(t, call, batch) /\ v.batch = batch
<1>1. PICK s \in call : v = InvoiceFor(s, call, batch)
  BY DEF InvoicesOf
<1>2. t \in call /\ parentOf[t] = parentOf[s] /\ v.batch = batch
  BY <1>1 DEF InvoiceFor
<1> QED
  BY <1>1, <1>2 DEF InvoiceFor

LEMMA CountedKeepsInvoice ==
    ASSUME TypeOK, NEW s \in Student
    PROVE  /\ Counted(s).invoice = InvoiceOf(s, Current(s))
           /\ Following(s).invoice = InvoiceOf(s, Current(s) + 1)
<1>1. /\ CurrentCycle(s) \in Cycle /\ DOMAIN cycles[s] = 1 .. Len(cycles[s]) /\ Len(cycles[s]) \in Nat
      /\ Current(s) \in 1 .. Len(cycles[s]) + 1
      /\ Current(s) = Len(cycles[s]) + 1 <=> OpenCycles(s) = {}
  BY CurrentIsRow
<1>2. CurrentCycle(s).invoice = InvoiceOf(s, Current(s))
  BY <1>1 DEF CurrentCycle, InvoiceOf, NewCycle
<1>3. Counted(s).invoice = CurrentCycle(s).invoice
  BY <1>1 DEF Counted, Cycle
<1>4. Following(s).invoice = InvoiceOf(s, Current(s) + 1)
  <2>1. CASE Current(s) + 1 \notin DOMAIN cycles[s]
    BY <2>1 DEF Following, InvoiceOf, NewCycle
  <2>2. CASE Current(s) + 1 \in DOMAIN cycles[s]
    <3>1. cycles[s][Current(s) + 1] \in Cycle
      BY <2>2, CurrentIsRow, ElementOfSeq
    <3> QED
      BY <2>2, <3>1 DEF Following, InvoiceOf, Cycle
  <2> QED
    BY <2>1, <2>2
<1> QED
  BY <1>2, <1>3, <1>4

\* Only a cycle without an invoice is invoiced.
LEMMA CallsAreDue ==
    ASSUME TypeOK, NEW s \in Student
    PROVE  /\ s \in FirstCall => InvoiceOf(s, Current(s)) = NoInvoice
           /\ s \in SecondCall => InvoiceOf(s, Current(s) + 1) = NoInvoice
<1>1. s \in SecondCall => Following(s).invoice = NoInvoice
  BY DEF SecondCall
<1>2. CASE AtStart
  <2>1. s \in FirstCall => CurrentCycle(s).invoice = NoInvoice
    BY <1>2 DEF FirstCall
  <2>2. Counted(s).invoice = CurrentCycle(s).invoice
    BY CurrentIsRow DEF Counted, Cycle
  <2> QED
    BY <1>1, <2>1, <2>2, CountedKeepsInvoice
<1>3. CASE ~AtStart
  <2>1. CASE OpenCycles(s) = {}
    <3>1. Current(s) = Len(cycles[s]) + 1 /\ DOMAIN cycles[s] = 1 .. Len(cycles[s]) /\ Len(cycles[s]) \in Nat
      BY <2>1, CurrentIsRow
    <3> QED
      BY <1>1, <3>1, CountedKeepsInvoice DEF InvoiceOf
  <2>2. CASE OpenCycles(s) # {}
    <3>1. OpenCycles(s) \in SUBSET Nat /\ (\A k \in OpenCycles(s) : k <= Len(cycles[s])) /\ Len(cycles[s]) \in Nat
      BY CurrentIsRow DEF OpenCycles
    <3>2. Current(s) \in OpenCycles(s)
      BY <2>2, <3>1, LatestExists DEF Current
    <3>3. Current(s) \in DOMAIN cycles[s] /\ cycles[s][Current(s)].invoice = NoInvoice
      BY <1>3, <3>2 DEF OpenCycles, IsOpen
    <3> QED
      BY <1>1, <3>3, CountedKeepsInvoice DEF InvoiceOf
  <2> QED
    BY <2>1, <2>2
<1> QED
  BY <1>2, <1>3

\* The invoice of every row after an evaluation.
LEMMA EvaluatedInvoices ==
    ASSUME TypeInv, EvaluateSucceeds, NEW s \in Student
    PROVE  /\ DOMAIN cycles[s] \subseteq DOMAIN cycles'[s]
           /\ s \in FirstCall => Current(s) \in DOMAIN cycles'[s]
           /\ s \in SecondCall => Current(s) + 1 \in DOMAIN cycles'[s]
           /\ \A j \in DOMAIN cycles'[s] :
                cycles'[s][j].invoice =
                   IF s \in FirstCall /\ j = Current(s) THEN InvoiceFor(s, FirstCall, LastBatch + 1)
                   ELSE IF s \in SecondCall /\ j = Current(s) + 1
                        THEN InvoiceFor(s, SecondCall, LastBatch + 2)
                   ELSE InvoiceOf(s, j)
<1> DEFINE n == Len(cycles[s])
           k == Current(s)
           E == Evaluated(s)
<1>1. /\ TypeOK /\ n \in Nat /\ DOMAIN cycles[s] = 1 .. n /\ k \in 1 .. n + 1
      /\ ~ParentMissing(FirstCall) /\ ~ParentMissing(SecondCall)
      /\ cycles'[s] = IF s \in enrolled THEN E ELSE cycles[s]
      /\ FirstCall \subseteq enrolled /\ SecondCall \subseteq enrolled
      /\ s \in SecondCall => Qualifies(s)
  BY CurrentIsRow DEF EvaluateSucceeds, TypeInv, FirstCall, SecondCall, Qualifying
<1>2. CASE s \notin enrolled
  BY <1>1, <1>2 DEF InvoiceOf
<1>3. CASE s \in enrolled
  <2>1. /\ E \in Seq(Cycle)
        /\ Len(E) = IF Qualifies(s) /\ n <= k THEN k + 1 ELSE IF n <= k THEN k ELSE n
        /\ E[k] = Linked(Counted(s), s, FirstCall, LastBatch + 1)
        /\ Qualifies(s) => E[k + 1] = Linked(Following(s), s, SecondCall, LastBatch + 2)
        /\ \A j \in 1 .. n : j # k /\ (j # k + 1 \/ ~Qualifies(s)) => E[j] = cycles[s][j]
    BY <1>1, EvaluatedRows
  <2>2. DOMAIN E = 1 .. Len(E) /\ Len(E) \in Nat
    BY <2>1, LenProperties
  <2>3. /\ Counted(s) \in Cycle /\ Following(s) \in Cycle
        /\ Counted(s).invoice = InvoiceOf(s, k) /\ Following(s).invoice = InvoiceOf(s, k + 1)
    BY <1>1, CountedIsCycle, FollowingIsCycle, CountedKeepsInvoice
  <2>4. \A c \in Cycle, call \in SUBSET Student, b \in Nat :
          Linked(c, s, call, b).invoice = IF s \in call THEN InvoiceFor(s, call, b) ELSE c.invoice
    BY DEF Linked, Cycle
  <2>5. FirstCall \in SUBSET Student /\ SecondCall \in SUBSET Student
        /\ LastBatch + 1 \in Nat /\ LastBatch + 2 \in Nat
    BY <1>1, CallsAreStudents, LastBatchIsNat
  <2>6. /\ E[k].invoice = IF s \in FirstCall THEN InvoiceFor(s, FirstCall, LastBatch + 1) ELSE InvoiceOf(s, k)
        /\ Qualifies(s) =>
             E[k + 1].invoice = IF s \in SecondCall THEN InvoiceFor(s, SecondCall, LastBatch + 2)
                                ELSE InvoiceOf(s, k + 1)
    <3> HIDE DEF E, k
    <3> QED
      BY <2>1, <2>3, <2>4, <2>5
  <2>7. /\ 1 .. n \subseteq 1 .. Len(E) /\ k \in 1 .. Len(E)
        /\ Qualifies(s) => k + 1 \in 1 .. Len(E)
        /\ \A j \in 1 .. Len(E) : j = k \/ (Qualifies(s) /\ j = k + 1) \/ j \in 1 .. n
    <3> DEFINE m == Len(E)
    <3>1. m = IF Qualifies(s) /\ n <= k THEN k + 1 ELSE IF n <= k THEN k ELSE n
      BY <2>1
    <3>2. n \in Nat /\ k \in 1 .. n + 1 /\ m \in Nat
      BY <1>1, <2>2
    <3> HIDE DEF m, n, k
    <3>3. 1 .. n \subseteq 1 .. m /\ k \in 1 .. m /\ (Qualifies(s) => k + 1 \in 1 .. m)
      BY <3>1, <3>2
    <3>4. \A j \in 1 .. m : j = k \/ (Qualifies(s) /\ j = k + 1) \/ j \in 1 .. n
      BY <3>1, <3>2
    <3> QED
      BY <3>3, <3>4 DEF m
  <2>8. \A j \in 1 .. Len(E) : j = k \/ (Qualifies(s) /\ j = k + 1) \/ E[j].invoice = InvoiceOf(s, j)
    BY <1>1, <2>1, <2>7 DEF InvoiceOf
  <2>9. k + 1 # k
    BY <1>1
  <2> HIDE DEF n, k, E
  <2> QED
    BY <1>1, <1>3, <2>2, <2>6, <2>7, <2>8, <2>9 DEF k
<1> QED
  BY <1>2, <1>3

LEMMA EvaluateMatches == ASSUME MatchInv, EvaluateSucceeds PROVE LinesMatchCycles'
<1> DEFINE one == LastBatch + 1
           two == LastBatch + 2
           Row(s, j) ==
             IF s \in FirstCall /\ j = Current(s) THEN InvoiceFor(s, FirstCall, one)
             ELSE IF s \in SecondCall /\ j = Current(s) + 1 THEN InvoiceFor(s, SecondCall, two)
             ELSE InvoiceOf(s, j)
<1>1. /\ TypeInv /\ TypeOK /\ LinesMatchCycles /\ NoInvoice \notin Invoice
      /\ ~ParentMissing(FirstCall) /\ ~ParentMissing(SecondCall)
      /\ FirstCall \in SUBSET Student /\ SecondCall \in SUBSET Student
      /\ invoices' = invoices \cup InvoicesOf(FirstCall, one) \cup InvoicesOf(SecondCall, two)
  BY CallsAreStudents, ConstantsAssumption DEF MatchInv, TypeInv, EvaluateSucceeds, Created
<1>2. /\ one \in Nat \ {0} /\ two \in Nat \ {0} /\ one # two
      /\ \A v \in invoices : v.batch # one /\ v.batch # two /\ v \in Invoice
  <2>1. LastBatch \in Nat
    BY <1>1, LastBatchIsNat
  <2>2. \A v \in invoices : v.batch \in Nat /\ v.batch <= LastBatch /\ v \in Invoice
    BY <1>1, BatchesGrow DEF TypeOK
  <2> QED
    BY <2>1, <2>2
<1>3. \A s \in Student :
        /\ DOMAIN cycles[s] \subseteq DOMAIN cycles'[s]
        /\ s \in FirstCall => Current(s) \in DOMAIN cycles'[s] /\ InvoiceOf(s, Current(s)) = NoInvoice
        /\ s \in SecondCall => /\ Current(s) + 1 \in DOMAIN cycles'[s]
                               /\ InvoiceOf(s, Current(s) + 1) = NoInvoice
        /\ Current(s) + 1 # Current(s)
        /\ \A j \in DOMAIN cycles'[s] : cycles'[s][j].invoice = Row(s, j)
  <2>1. \A s \in Student : Current(s) + 1 # Current(s)
    BY <1>1, CurrentIsRow
  <2> QED
    BY <1>1, <2>1, EvaluatedInvoices, CallsAreDue
<1>4. /\ \A s \in FirstCall : InvoiceFor(s, FirstCall, one) \in Invoice
      /\ \A s \in SecondCall : InvoiceFor(s, SecondCall, two) \in Invoice
  BY <1>1, <1>2, InvoiceIsInvoice
<1>5. \A s, call, b : InvoiceFor(s, call, b).batch = b
  BY DEF InvoiceFor
<1>6. \A s \in Student : \A j : InvoiceOf(s, j) # NoInvoice =>
        /\ j \in DOMAIN cycles[s] /\ InvoiceOf(s, j) \in invoices /\ s \in InvoiceOf(s, j).lines
  BY <1>1 DEF InvoiceOf, LinesMatchCycles
<1> HIDE DEF one, two
<1>7. ASSUME NEW s \in Student, NEW j \in DOMAIN cycles'[s], cycles'[s][j].invoice # NoInvoice
      PROVE  cycles'[s][j].invoice \in invoices' /\ s \in cycles'[s][j].invoice.lines
  <2> DEFINE i == cycles'[s][j].invoice
  <2>1. CASE s \in FirstCall /\ j = Current(s)
    <3>1. i = InvoiceFor(s, FirstCall, one)
      BY <1>3, <2>1
    <3>2. i \in InvoicesOf(FirstCall, one) /\ s \in i.lines
      BY <1>1, <2>1, <3>1, OwnInvoice
    <3> QED
      BY <1>1, <3>2
  <2>2. CASE s \in SecondCall /\ j = Current(s) + 1
    <3>1. i = InvoiceFor(s, SecondCall, two)
      BY <1>3, <2>2
    <3>2. i \in InvoicesOf(SecondCall, two) /\ s \in i.lines
      BY <1>1, <2>2, <3>1, OwnInvoice
    <3> QED
      BY <1>1, <3>2
  <2>3. CASE cycles'[s][j].invoice = InvoiceOf(s, j)
    BY <1>1, <1>6, <1>7, <2>3
  <2> QED
    BY <1>3, <2>1, <2>2, <2>3
<1>8. ASSUME NEW v \in invoices', NEW t \in v.lines
      PROVE  /\ t \in Student
             /\ \E k \in DOMAIN cycles'[t] : Row(t, k) = v
             /\ \A j, k \in DOMAIN cycles'[t] : Row(t, j) = v /\ Row(t, k) = v => j = k
  <2>1. CASE v \in invoices
    <3>1. v # NoInvoice /\ v.batch # one /\ v.batch # two /\ t \in Student
      BY <1>1, <1>2, <2>1 DEF Invoice
    <3>2. PICK k \in DOMAIN cycles[t] : InvoiceOf(t, k) = v
      BY <1>1, <2>1 DEF LinesMatchCycles, InvoiceOf
    <3>3. Row(t, k) = v /\ k \in DOMAIN cycles'[t]
      BY <1>3, <3>1, <3>2
    <3>4. \A j \in DOMAIN cycles'[t] : Row(t, j) = v => InvoiceOf(t, j) = v
      BY <1>5, <3>1
    <3>5. \A j \in DOMAIN cycles'[t] : Row(t, j) = v => j \in DOMAIN cycles[t] /\ cycles[t][j].invoice = v
      BY <1>6, <3>1, <3>4 DEF InvoiceOf
    <3> HIDE DEF Row
    <3> QED
      BY <1>1, <2>1, <3>1, <3>3, <3>5 DEF LinesMatchCycles
  <2>2. CASE v \in InvoicesOf(FirstCall, one)
    <3>1. t \in FirstCall /\ v = InvoiceFor(t, FirstCall, one) /\ v.batch = one
      BY <1>1, <2>2, SharedInvoice
    <3>2. t \in Student /\ v # NoInvoice /\ v \notin invoices
      BY <1>1, <1>2, <1>4, <3>1
    <3>3. Row(t, Current(t)) = v /\ Current(t) \in DOMAIN cycles'[t]
      BY <1>3, <3>1, <3>2
    <3>4. \A j \in DOMAIN cycles'[t] : Row(t, j) = v => j = Current(t)
      BY <1>2, <1>5, <1>6, <3>1, <3>2
    <3> HIDE DEF Row
    <3> QED
      BY <3>2, <3>3, <3>4
  <2>3. CASE v \in InvoicesOf(SecondCall, two)
    <3>1. t \in SecondCall /\ v = InvoiceFor(t, SecondCall, two) /\ v.batch = two
      BY <1>1, <2>3, SharedInvoice
    <3>2. t \in Student /\ v # NoInvoice /\ v \notin invoices
      BY <1>1, <1>2, <1>4, <3>1
    <3>3. Row(t, Current(t) + 1) = v /\ Current(t) + 1 \in DOMAIN cycles'[t]
      BY <1>3, <3>1, <3>2
    <3>4. \A j \in DOMAIN cycles'[t] : Row(t, j) = v => j = Current(t) + 1
      BY <1>2, <1>5, <1>6, <3>1, <3>2
    <3> HIDE DEF Row
    <3> QED
      BY <3>2, <3>3, <3>4
  <2> QED
    BY <1>1, <2>1, <2>2, <2>3
<1>9. ASSUME NEW v \in invoices', NEW t \in v.lines
      PROVE  /\ \E k \in DOMAIN cycles'[t] : cycles'[t][k].invoice = v
             /\ \A j, k \in DOMAIN cycles'[t] :
                  cycles'[t][j].invoice = v /\ cycles'[t][k].invoice = v => j = k
  <2> HIDE DEF Row
  <2> QED
    BY <1>3, <1>8
<1> QED
  BY <1>7, <1>9 DEF LinesMatchCycles

\* Deleting an invoice clears the links to it, and no other.
LEMMA DeleteMatches == ASSUME MatchInv, NEW v \in invoices, DeleteInvoice(v) PROVE LinesMatchCycles'
<1>1. TypeOK /\ LinesMatchCycles /\ NoInvoice \notin Invoice /\ invoices \subseteq Invoice
      /\ invoices' = invoices \ {v}
  BY ConstantsAssumption DEF MatchInv, TypeInv, TypeOK, DeleteInvoice
<1>2. \A s \in Student :
        /\ DOMAIN cycles'[s] = DOMAIN cycles[s]
        /\ \A k \in DOMAIN cycles[s] :
             cycles'[s][k].invoice = IF cycles[s][k].invoice = v THEN NoInvoice ELSE cycles[s][k].invoice
  <2> SUFFICES ASSUME NEW s \in Student
               PROVE  /\ DOMAIN cycles'[s] = DOMAIN cycles[s]
                      /\ \A k \in DOMAIN cycles[s] :
                           cycles'[s][k].invoice =
                             IF cycles[s][k].invoice = v THEN NoInvoice ELSE cycles[s][k].invoice
    OBVIOUS
  <2>1. /\ cycles'[s] \in Seq(Cycle) /\ Len(cycles'[s]) = Len(cycles[s])
        /\ \A k \in 1 .. Len(cycles[s]) :
             cycles[s][k] \in Cycle /\ cycles'[s][k] = Unlink(cycles[s][k], v)
    BY <1>1, DeleteInvoiceRows
  <2>2. DOMAIN cycles[s] = 1 .. Len(cycles[s]) /\ DOMAIN cycles'[s] = 1 .. Len(cycles[s])
    BY <1>1, <2>1, CurrentIsRow, LenProperties
  <2>3. \A c \in Cycle : Unlink(c, v).invoice = IF c.invoice = v THEN NoInvoice ELSE c.invoice
    BY DEF Unlink, Cycle
  <2> QED
    BY <2>1, <2>2, <2>3
<1>3. \A w \in invoices' : w \in invoices /\ w # v /\ w # NoInvoice /\ w.lines \subseteq Student
  BY <1>1 DEF Invoice
<1>4. ASSUME NEW s \in Student, NEW k \in DOMAIN cycles'[s], cycles'[s][k].invoice # NoInvoice
      PROVE  cycles'[s][k].invoice \in invoices' /\ s \in cycles'[s][k].invoice.lines
  BY <1>1, <1>2, <1>4 DEF LinesMatchCycles
<1>5. ASSUME NEW w \in invoices', NEW s \in w.lines
      PROVE  /\ \E k \in DOMAIN cycles'[s] : cycles'[s][k].invoice = w
             /\ \A j, k \in DOMAIN cycles'[s] :
                  cycles'[s][j].invoice = w /\ cycles'[s][k].invoice = w => j = k
  <2>1. s \in Student /\ w \in invoices /\ w # v /\ w # NoInvoice
    BY <1>3
  <2>2. PICK k \in DOMAIN cycles[s] : cycles[s][k].invoice = w
    BY <1>1, <2>1 DEF LinesMatchCycles
  <2>3. \A j \in DOMAIN cycles[s] : cycles'[s][j].invoice = w => cycles[s][j].invoice = w
    BY <1>2, <2>1
  <2>4. \A i, j \in DOMAIN cycles[s] : cycles[s][i].invoice = w /\ cycles[s][j].invoice = w => i = j
    BY <1>1, <2>1 DEF LinesMatchCycles
  <2> QED
    BY <1>2, <2>1, <2>2, <2>3, <2>4
<1> QED
  BY <1>4, <1>5 DEF LinesMatchCycles

LEMMA NextMatches == MatchInv /\ [Next]_vars => MatchInv'
<1> SUFFICES ASSUME MatchInv, [Next]_vars PROVE MatchInv'
  OBVIOUS
<1>1. TypeInv'
  BY NextTypeInv DEF MatchInv
<1>2. CASE EvaluateSucceeds
  BY <1>1, <1>2, EvaluateMatches DEF MatchInv
<1>3. CASE \E v \in invoices : DeleteInvoice(v)
  BY <1>1, <1>3, DeleteMatches DEF MatchInv
<1>4. CASE UNCHANGED <<cycles, invoices>>
  BY <1>1, <1>4 DEF MatchInv, LinesMatchCycles
<1> QED
  BY <1>2, <1>3, <1>4
  DEF Next, Operate, vars, EvaluateFails, SetAttendance, Enroll, Leave, SetParent, EditSchedule

LEMMA InitMatches == Init => MatchInv
BY InitTypeInv DEF Init, MatchInv, LinesMatchCycles

-----------------------------------------------------------------------------
(* The theorems                                                            *)

\* However the schedule is edited, students move between parents and invoices
\* are deleted, the lines of the invoices and the cycles match one to one: the
\* evaluator never invoices a cycle twice, and no link outlives its invoice.
THEOREM LinesAlwaysMatch == Spec => []LinesMatchCycles
<1>1. MatchInv => LinesMatchCycles
  BY DEF MatchInv
<1> QED BY <1>1, InitMatches, NextMatches, PTL DEF Spec

\* However attendance is marked, corrected and deleted between evaluations, and
\* whatever invoices are deleted, no session is counted in two cycles, as long
\* as edits of the schedule leave every last cycle open.
THEOREM CountedOnce == CarefulSpec => []NoSessionCountedTwice
<1>1. CycleInv => NoSessionCountedTwice
  BY DEF CycleInv, RowsOK, RowsDisjoint, NoSessionCountedTwice
<1> QED BY <1>1, CycleInvHolds, PTL

\* Under the same condition, sessions_counted is the number of sessions counted.
THEOREM CountsExactly == CarefulSpec => []CountersExact
<1>1. CycleInv => CountersExact
  BY DEF CycleInv, RowsOK, RowsExact, CountersExact
<1> QED BY <1>1, CycleInvHolds, PTL

\* Under the same condition, a step counts in the last cycle of a student only.
THEOREM CountsLastCycleOnly == CarefulSpec => ClosedCyclesFrozen
<1> DEFINE Frozen ==
        \A s \in Student : \A k \in DOMAIN cycles[s] :
            k < Len(cycles[s]) =>
                /\ cycles'[s][k].dates = cycles[s][k].dates
                /\ cycles'[s][k].sessions_counted = cycles[s][k].sessions_counted
<1>1. CycleInv /\ [CarefulNext]_vars => [Frozen]_vars
  <2> SUFFICES ASSUME CycleInv, CarefulNext, NEW s \in Student,
                      NEW k \in DOMAIN cycles[s], k < Len(cycles[s])
               PROVE  /\ cycles'[s][k].dates = cycles[s][k].dates
                      /\ cycles'[s][k].sessions_counted = cycles[s][k].sessions_counted
    OBVIOUS
  <2>1. k \in 1 .. Len(cycles[s])
    BY CurrentIsRow DEF CycleInv, TypeInv
  <2>2. CASE EvaluateSucceeds
    BY <2>1, <2>2, EvaluateKeepsRows
  <2>3. CASE \E v \in invoices : DeleteInvoice(v)
    BY <2>1, <2>3, DeletedIsOK
  <2>4. CASE cycles' = cycles
    BY <2>4
  <2> QED
    BY <2>2, <2>3, <2>4
    DEF CarefulNext, Operate, EvaluateFails, SetAttendance, Enroll, Leave, SetParent,
        CarefulEdit, EditSchedule
<1>2. CarefulSpec => [][Frozen]_vars
  BY <1>1, CycleInvHolds, PTL DEF CarefulSpec
<1> QED BY <1>2 DEF ClosedCyclesFrozen

-----------------------------------------------------------------------------
(* A second run finds nothing                                              *)

\* The session of a date would be billed.
BillableOn(s, d) == Billable(attendance[s][d]) /\ d >= schedule.cycle_start_date

\* The last row of every student of the class is neither full nor, at the start of
\* a period, without an invoice, and no billable session lies after it.
Settled ==
    \A s \in enrolled :
        /\ cycles[s] # <<>>
        /\ cycles[s][Len(cycles[s])].sessions_counted < schedule.sessions_per_cycle
        /\ AtStart => cycles[s][Len(cycles[s])].invoice # NoInvoice
        /\ \A d \in Date : BillableOn(s, d) => d <= cycles[s][Len(cycles[s])].last_counted_date

NothingDue == FirstCall = {} /\ SecondCall = {} /\ \A s \in enrolled : Uncounted(s) = {}

LEMMA SettledIsNotDue == TypeOK /\ LastCycleOpen /\ Settled => NothingDue
<1> SUFFICES ASSUME TypeOK, LastCycleOpen, Settled PROVE NothingDue
  OBVIOUS
<1>1. ASSUME NEW s \in enrolled
      PROVE  /\ Uncounted(s) = {} /\ ~Qualifies(s)
             /\ AtStart => CurrentCycle(s).invoice # NoInvoice
  <2> DEFINE row == cycles[s][Len(cycles[s])]
  <2>1. s \in Student
    BY DEF TypeOK
  <2>2. CurrentCycle(s) = row
    BY <2>1, CurrentIsLast DEF Settled
  <2>3. row \in Cycle
    BY <2>1, <2>2, CurrentIsRow
  <2>4. row.last_counted_date \in Int /\ row.sessions_counted \in Int
    BY <2>3, ConstantsAssumption DEF Cycle, Date, NoDate
  <2>5. \A d \in Date : BillableOn(s, d) => d <= row.last_counted_date
    BY DEF Settled
  <2>6. Uncounted(s) = {}
    <3> SUFFICES ASSUME NEW d \in Uncounted(s) PROVE FALSE
      OBVIOUS
    <3>1. /\ d \in Date /\ BillableOn(s, d)
          /\ d > CurrentCycle(s).last_counted_date
      BY DEF Uncounted, BillableOn
    <3>2. d \in Int
      BY <3>1, ConstantsAssumption DEF Date
    <3> HIDE DEF row
    <3>3. d <= row.last_counted_date /\ d > row.last_counted_date
      BY <2>2, <2>5, <3>1
    <3> QED BY <3>2, <3>3, <2>4
  <2>7. ~Qualifies(s)
    <3>1. Counted(s) = row
      BY <2>2, <2>6 DEF Counted
    <3>2. row.sessions_counted < schedule.sessions_per_cycle
      BY DEF Settled
    <3>3. schedule.sessions_per_cycle \in Nat
      BY ConstantsAssumption DEF TypeOK, Schedule
    <3> HIDE DEF row
    <3> QED BY <2>4, <3>1, <3>2, <3>3 DEF Qualifies
  <2>8. AtStart => CurrentCycle(s).invoice # NoInvoice
    BY <2>2 DEF Settled
  <2> QED BY <2>6, <2>7, <2>8
<1>2. Qualifying = {}
  BY <1>1 DEF Qualifying
<1>3. FirstCall = {}
  BY <1>1, <1>2 DEF FirstCall
<1>4. SecondCall = {}
  BY <1>2 DEF SecondCall
<1> QED BY <1>1, <1>3, <1>4 DEF NothingDue

\* Counting leaves no billable session after the row's last_counted_date.
LEMMA CountedUpToLast ==
    ASSUME TypeOK, NEW s \in Student, NEW d \in Date, BillableOn(s, d)
    PROVE  d <= Counted(s).last_counted_date
<1>1. /\ CurrentCycle(s) \in Cycle /\ CurrentCycle(s).last_counted_date \in Int /\ d \in Int
  <2>1. CurrentCycle(s) \in Cycle
    BY CurrentIsRow
  <2> QED BY <2>1, ConstantsAssumption DEF Cycle, Date, NoDate
<1>2. d \in Uncounted(s) \/ d <= CurrentCycle(s).last_counted_date
  BY <1>1 DEF Uncounted, BillableOn
<1>3. CASE Uncounted(s) = {}
  BY <1>2, <1>3 DEF Counted
<1>4. CASE Uncounted(s) # {}
  <2>1. /\ Latest(Uncounted(s)) \in Uncounted(s) /\ Latest(Uncounted(s)) \in Date
        /\ \A e \in Uncounted(s) : e <= Latest(Uncounted(s))
    BY <1>4, UncountedIsFinite
  <2>2. Counted(s).last_counted_date = Latest(Uncounted(s))
    BY <1>1, <1>4 DEF Counted, Cycle
  <2>3. Latest(Uncounted(s)) \in Int /\ Latest(Uncounted(s)) > CurrentCycle(s).last_counted_date
    <3>1. \A e \in Uncounted(s) : e > CurrentCycle(s).last_counted_date
      BY DEF Uncounted
    <3>2. Latest(Uncounted(s)) \in Int
      BY <2>1, ConstantsAssumption DEF Date
    <3> QED BY <2>1, <3>1, <3>2
  <2> QED BY <1>1, <1>2, <2>1, <2>2, <2>3
<1> QED BY <1>3, <1>4

LEMMA LinkedHasInvoice ==
    ASSUME NEW call \in SUBSET Student, ~ParentMissing(call), TypeOK,
           NEW batch \in Nat \ {0}, NEW s \in call, NEW c \in Cycle
    PROVE  Linked(c, s, call, batch).invoice # NoInvoice
<1>1. InvoiceFor(s, call, batch) \in Invoice
  BY InvoiceIsInvoice
<1>2. Linked(c, s, call, batch).invoice = InvoiceFor(s, call, batch)
  BY DEF Linked, Cycle
<1> QED BY <1>1, <1>2, ConstantsAssumption

LEMMA EvaluatedLast ==
    ASSUME CycleInv, ~ParentMissing(FirstCall), ~ParentMissing(SecondCall),
           NEW s \in Student, s \in enrolled
    PROVE  LET last == Evaluated(s)[Len(Evaluated(s))]
           IN  /\ Evaluated(s) # <<>>
               /\ last.last_counted_date = Counted(s).last_counted_date
               /\ last.sessions_counted < schedule.sessions_per_cycle
               /\ AtStart => last.invoice # NoInvoice
<1> DEFINE n   == Len(cycles[s])
           k   == Current(s)
           E   == Evaluated(s)
           new == Linked(Counted(s), s, FirstCall, LastBatch + 1)
           nxt == Linked(Following(s), s, SecondCall, LastBatch + 2)
<1>1. TypeOK /\ LastCycleOpen /\ TypeInv
  BY DEF CycleInv, TypeInv
<1>2. /\ FirstCall \in SUBSET Student /\ SecondCall \in SUBSET Student
      /\ LastBatch + 1 \in Nat \ {0} /\ LastBatch + 2 \in Nat \ {0}
  BY <1>1, CallsAreStudents, LastBatchIsNat
<1>3. Counted(s) \in Cycle /\ Following(s) \in Cycle /\ CurrentCycle(s) \in Cycle
  BY <1>1, CountedIsCycle, FollowingIsCycle, CurrentIsRow
<1>4. /\ n \in Nat /\ k \in Nat \ {0} /\ n <= k
      /\ Following(s) = NewCycle(Counted(s).last_counted_date)
  <2>1. /\ cycles[s] \in Seq(Cycle) /\ n \in Nat /\ k \in 1 .. n + 1
    BY <1>1, CurrentIsRow
  <2>2. /\ cycles[s] # <<>> => k = n
        /\ cycles[s] = <<>> => k = 1 /\ n = 0
        /\ Following(s) = NewCycle(Counted(s).last_counted_date)
    BY <1>1, CurrentIsLast
  <2> HIDE DEF n, k
  <2> QED BY <2>1, <2>2
<1>5. /\ E \in Seq(Cycle) /\ Len(E) = IF Qualifies(s) THEN k + 1 ELSE k
      /\ E[k] = new /\ (Qualifies(s) => E[k + 1] = nxt)
  <2>1. /\ E \in Seq(Cycle)
        /\ Len(E) = IF Qualifies(s) /\ n <= k THEN k + 1 ELSE IF n <= k THEN k ELSE n
        /\ E[k] = new /\ (Qualifies(s) => E[k + 1] = nxt)
    BY <1>1, EvaluatedRows
  <2> HIDE DEF n, k, E, new, nxt
  <2> QED BY <2>1, <1>4
<1>6. E # <<>>
  <2> HIDE DEF k, E
  <2> QED BY <1>4, <1>5
<1>7. Counted(s).sessions_counted \in Nat /\ schedule.sessions_per_cycle \in Nat \ {0}
  BY <1>1, <1>3, ConstantsAssumption DEF TypeOK, Schedule, Cycle
<1>8. CASE Qualifies(s)
  <2>1. E[Len(E)] = nxt
    BY <1>5, <1>8
  <2>2. /\ Following(s).sessions_counted = 0 /\ Following(s).invoice = NoInvoice
        /\ Following(s).last_counted_date = Counted(s).last_counted_date
    BY <1>4 DEF NewCycle
  <2>3. /\ nxt.sessions_counted = 0
        /\ nxt.last_counted_date = Counted(s).last_counted_date
    BY <1>1, <1>2, <1>3, <2>2, LinkedIsCycle
  <2>4. AtStart => s \in SecondCall
    BY <1>8, <2>2 DEF SecondCall, Qualifying
  <2>5. AtStart => nxt.invoice # NoInvoice
    BY <1>1, <1>2, <1>3, <2>4, LinkedHasInvoice
  <2> HIDE DEF E, nxt
  <2>6. E[Len(E)].sessions_counted < schedule.sessions_per_cycle
    BY <1>7, <2>1, <2>3
  <2> QED BY <1>6, <2>1, <2>3, <2>5, <2>6 DEF E
<1>9. CASE ~Qualifies(s)
  <2>1. E[Len(E)] = new
    BY <1>5, <1>9
  <2>2. /\ new.sessions_counted = Counted(s).sessions_counted
        /\ new.last_counted_date = Counted(s).last_counted_date
        /\ s \notin FirstCall => new = Counted(s)
    BY <1>1, <1>2, <1>3, LinkedIsCycle
  <2>3. Counted(s).invoice = CurrentCycle(s).invoice
    BY <1>3 DEF Counted, Cycle
  <2>4. ASSUME AtStart PROVE new.invoice # NoInvoice
    <3>1. CASE s \in FirstCall
      BY <1>1, <1>2, <1>3, <3>1, LinkedHasInvoice
    <3>2. CASE s \notin FirstCall
      BY <2>2, <2>3, <2>4, <3>2 DEF FirstCall
    <3> QED BY <3>1, <3>2
  <2> HIDE DEF E, new
  <2>5. E[Len(E)].sessions_counted < schedule.sessions_per_cycle
    BY <1>7, <1>9, <2>1, <2>2 DEF Qualifies
  <2> QED BY <1>6, <2>1, <2>2, <2>4, <2>5 DEF E
<1> QED BY <1>8, <1>9

LEMMA EvaluationSettles == CycleInv /\ EvaluateSucceeds => Settled'
<1> SUFFICES ASSUME CycleInv, EvaluateSucceeds, NEW s \in enrolled'
             PROVE  /\ cycles'[s] # <<>>
                    /\ cycles'[s][Len(cycles'[s])].sessions_counted < schedule'.sessions_per_cycle
                    /\ AtStart' => cycles'[s][Len(cycles'[s])].invoice # NoInvoice
                    /\ \A d \in Date : BillableOn(s, d)' =>
                          d <= cycles'[s][Len(cycles'[s])].last_counted_date
  BY DEF Settled
<1>1. /\ ~ParentMissing(FirstCall) /\ ~ParentMissing(SecondCall)
      /\ cycles' = [t \in Student |-> IF t \in enrolled THEN Evaluated(t) ELSE cycles[t]]
      /\ schedule' = schedule /\ enrolled' = enrolled /\ attendance' = attendance
  BY DEF EvaluateSucceeds
<1>2. s \in Student /\ s \in enrolled /\ TypeOK
  BY <1>1 DEF CycleInv, TypeInv, TypeOK
<1>3. cycles'[s] = Evaluated(s)
  BY <1>1, <1>2
<1>4. AtStart' = AtStart /\ \A d : BillableOn(s, d)' = BillableOn(s, d)
  BY <1>1 DEF AtStart, BillableOn, Billable
<1>5. /\ Evaluated(s) # <<>>
      /\ Evaluated(s)[Len(Evaluated(s))].last_counted_date = Counted(s).last_counted_date
      /\ Evaluated(s)[Len(Evaluated(s))].sessions_counted < schedule.sessions_per_cycle
      /\ AtStart => Evaluated(s)[Len(Evaluated(s))].invoice # NoInvoice
  BY <1>1, <1>2, EvaluatedLast
<1>6. \A d \in Date : BillableOn(s, d) => d <= Counted(s).last_counted_date
  BY <1>2, CountedUpToLast
<1> QED BY <1>1, <1>3, <1>4, <1>5, <1>6

\* Straight after a successful run nobody is left to invoice and no session to
\* count, as long as edits of the schedule leave every last cycle open: a second
\* press of the button, or the daily task after it, changes nothing.
THEOREM SecondRunFindsNothing == CarefulSpec => RerunFindsNothing
<1> DEFINE Rerun == EvaluateSucceeds => /\ FirstCall' = {} /\ SecondCall' = {}
                                        /\ \A s \in enrolled : Uncounted(s)' = {}
<1>1. (TypeOK /\ LastCycleOpen /\ Settled => NothingDue)'
  BY SettledIsNotDue, PTL
<1>2. CycleInv /\ [CarefulNext]_vars => [Rerun]_vars
  <2> SUFFICES ASSUME CycleInv, CarefulNext, EvaluateSucceeds
               PROVE  FirstCall' = {} /\ SecondCall' = {} /\ \A s \in enrolled : Uncounted(s)' = {}
    OBVIOUS
  <2>1. CycleInv'
    BY NextCycleInv
  <2>2. TypeOK' /\ LastCycleOpen'
    BY <2>1 DEF CycleInv, TypeInv
  <2>3. Settled'
    BY EvaluationSettles
  <2>4. NothingDue'
    BY <1>1, <2>2, <2>3
  <2>5. enrolled' = enrolled
    BY DEF EvaluateSucceeds
  <2> QED BY <2>4, <2>5 DEF NothingDue
<1>3. CarefulSpec => [][Rerun]_vars
  BY <1>2, CycleInvHolds, PTL DEF CarefulSpec
<1> QED BY <1>3 DEF RerunFindsNothing
=============================================================================
