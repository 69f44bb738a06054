-------------------------- MODULE RentBillingProofs --------------------------
(***************************************************************************)
(* What the evaluation of a rent schedule guarantees for every number of   *)
(* days, sessions to the invoice, cycles and deaths.                       *)
(***************************************************************************)
EXTENDS RentBilling, LargestProofs, SequenceTheorems, TLAPS

Unharmed == mishaps \cap {"appending", "unmarked"} = {}

(* The days of a cycle end with its last_counted_date, and those of the     *)
(* cycles after it come later.                                              *)
Ascending ==
    /\ \A k \in DOMAIN cycles : \A d \in cycles[k].dates : d <= cycles[k].last_counted_date
    /\ \A j, k \in DOMAIN cycles : j < k =>
         /\ cycles[j].last_counted_date <= cycles[k].last_counted_date
         /\ \A d \in cycles[k].dates : cycles[j].last_counted_date < d

(* A run works on the last cycle, which stays open until its successor is   *)
(* about to be written.                                                     *)
AtLast ==
    /\ billing_type = "SESSION" /\ run.at \in OfCycle => run.cycle = Len(cycles)
    /\ run.at = "opening" => cycles = <<>>
    /\ cycles # <<>> /\ run.at # "appending" => cycles[Len(cycles)].invoice = Unbilled
    /\ run.at = "saving" =>
         /\ run.dates # {}
         /\ \A d \in run.dates : cycles[run.cycle].last_counted_date < d

IInv == TypeOK /\ (Unharmed => Ascending /\ AtLast)

-----------------------------------------------------------------------------
(* Facts about the helpers.                                                *)

LEMMA Ordered == \A a, b \in Nat : a <= a /\ (a <= b /\ b <= a => a = b)
OBVIOUS

LEMMA LastOrBefore == \A b \in Nat : \A a \in 1 .. b : a = b \/ a < b
OBVIOUS

LEMMA DatesAreNumbers == Day \cup {NoDate} \subseteq Nat
BY RentAssumption DEF Day, NoDate

\* The last of some days is one of them, and none is after it.
LEMMA LastDayOf ==
    ASSUME NEW S \in SUBSET Day, S # {}
    PROVE  Latest(S) \in S /\ \A d \in S : d <= Latest(S)
<1>1. S \in SUBSET Nat /\ LastDay \in Nat /\ \A d \in S : d <= LastDay
  BY RentAssumption DEF Day
<1> QED
  BY <1>1, LatestExists

LEMMA SomeDays ==
    ASSUME NEW S \in SUBSET Day
    PROVE  IsFiniteSet(S) /\ Cardinality(S) \in Nat
<1>1. IsFiniteSet(Day)
  BY RentAssumption, FS_Interval DEF Day
<1> QED
  BY <1>1, FS_Subset, FS_CardinalityType

\* A new cycle after the others, and a changed one among them.
LEMMA Appended ==
    ASSUME NEW s \in Seq(Cycle), NEW c \in Cycle
    PROVE  /\ Append(s, c) \in Seq(Cycle)
           /\ Len(Append(s, c)) = Len(s) + 1
           /\ Append(s, c)[Len(s) + 1] = c
           /\ \A k \in 1 .. Len(s) : Append(s, c)[k] = s[k]
BY AppendProperties

LEMMA Written ==
    ASSUME NEW s \in Seq(Cycle), NEW i \in 1 .. Len(s), NEW c \in Cycle
    PROVE  /\ [s EXCEPT ![i] = c] \in Seq(Cycle)
           /\ Len([s EXCEPT ![i] = c]) = Len(s)
           /\ [s EXCEPT ![i] = c][i] = c
           /\ \A k \in 1 .. Len(s) : k # i => [s EXCEPT ![i] = c][k] = s[k]
BY ExceptSeq

LEMMA CyclesAreRows ==
    ASSUME TypeOK
    PROVE  /\ Len(cycles) \in Nat /\ DOMAIN cycles = 1 .. Len(cycles)
           /\ \A k \in 1 .. Len(cycles) : cycles[k] \in Cycle
           /\ cycles # <<>> => Len(cycles) \in 1 .. Len(cycles)
BY LenProperties, ElementOfSeq, EmptySeq DEF TypeOK

LEMMA NewCycleIsCycle ==
    ASSUME NEW d \in Day \cup {NoDate}
    PROVE  NewCycle(d) \in Cycle
BY DEF NewCycle, Cycle, Unbilled

-----------------------------------------------------------------------------
(* The types.                                                              *)

LEMMA InitTypes == Init => TypeOK
<1> SUFFICES ASSUME Init PROVE TypeOK
  OBVIOUS
<1>1. 1 \in Day
  BY RentAssumption DEF Day
<1>2. NoRun \in Run
  BY DEF NoRun, Run, At, NoDate
<1>3. cycles \in Seq(Cycle)
  BY EmptySeq DEF Init
<1> QED
  BY <1>1, <1>2, <1>3 DEF Init, TypeOK, NoRun, OfCycle

\* A run that ends, is begun or changes its statement only.
LEMMA EndTypes ==
    ASSUME TypeOK, run' = NoRun, UNCHANGED <<billing_type, today, sessions, cycles, invoices>>,
           mishaps' \in SUBSET (Torn \cup {"late", "unmarked"})
    PROVE  TypeOK'
<1>1. NoRun \in Run
  BY DEF NoRun, Run, At, NoDate
<1> QED
  BY <1>1 DEF TypeOK, NoRun, OfCycle

LEMMA BeginTypes == TypeOK /\ Begin => TypeOK'
<1> SUFFICES ASSUME TypeOK, Begin PROVE TypeOK'
  OBVIOUS
<1>1. run' \in Run
  BY DEF Begin, NoRun, Run, At, NoDate, TypeOK
<1> QED
  BY <1>1 DEF Begin, TypeOK, NoRun, OfCycle

LEMMA GuardTypes == TypeOK /\ Guard => TypeOK'
<1> SUFFICES ASSUME TypeOK, Guard PROVE TypeOK'
  OBVIOUS
<1>1. run' \in Run /\ run'.at \in {"logging", "invoicing"} /\ run'.today = run.today
  BY DEF Guard, Go, Run, At, TypeOK
<1>2. mishaps' \in SUBSET (Torn \cup {"late", "unmarked"})
  BY DEF Guard, TypeOK
<1>3. run.at = "guarding" /\ UNCHANGED <<billing_type, today, sessions, cycles, invoices>>
  BY DEF Guard
<1> QED
  BY <1>1, <1>2, <1>3 DEF TypeOK

LEMMA FindTypes == TypeOK /\ Find => TypeOK'
<1> SUFFICES ASSUME TypeOK, Find PROVE TypeOK'
  OBVIOUS
<1>1. Len(cycles) \in Nat /\ DOMAIN cycles = 1 .. Len(cycles)
  BY CyclesAreRows
<1>2. OpenCycles # {} => Latest(OpenCycles) \in DOMAIN cycles
  <2>1. OpenCycles \in SUBSET Nat /\ \A k \in OpenCycles : k <= Len(cycles)
    BY <1>1 DEF OpenCycles
  <2> QED
    BY <1>1, <2>1, LatestExists DEF OpenCycles
<1>3. /\ run' \in Run
      /\ \/ run'.at = "opening" /\ run'.cycle = Len(cycles) + 1
         \/ run'.at = "counting" /\ run'.cycle \in DOMAIN cycles
  <2>1. run \in Run /\ Len(cycles) + 1 \in Nat
    BY <1>1 DEF TypeOK
  <2>2. CASE OpenCycles = {}
    BY <2>1, <2>2 DEF Find, Run, At
  <2>3. CASE OpenCycles # {}
    <3>1. Latest(OpenCycles) \in Nat /\ Latest(OpenCycles) \in DOMAIN cycles
      BY <1>1, <1>2, <2>3
    <3> QED
      BY <2>1, <2>3, <3>1 DEF Find, Run, At
  <2> QED
    BY <2>2, <2>3
<1>4. run.at = "finding" /\ UNCHANGED <<billing_type, today, sessions, cycles, invoices, mishaps>>
  BY DEF Find
<1>5. billing_type = "SESSION"
  BY <1>4 DEF TypeOK
<1> QED
  BY <1>3, <1>4, <1>5 DEF TypeOK, OfCycle

LEMMA OpenTypes == TypeOK /\ Open => TypeOK'
<1> SUFFICES ASSUME TypeOK, Open PROVE TypeOK'
  OBVIOUS
<1>1. NewCycle(NoDate) \in Cycle
  BY NewCycleIsCycle
<1>2. /\ cycles' \in Seq(Cycle) /\ Len(cycles') = Len(cycles) + 1
      /\ DOMAIN cycles' = 1 .. Len(cycles') /\ Len(cycles) \in Nat
  BY <1>1, CyclesAreRows, Appended, LenProperties DEF Open, TypeOK
<1>3. run' \in Run /\ run'.at = "counting" /\ run'.cycle = Len(cycles) + 1
  BY DEF Open, Go, Run, At, TypeOK
<1>4. run.at = "opening" /\ UNCHANGED <<billing_type, today, sessions, invoices, mishaps>>
  BY DEF Open
<1> QED
  BY <1>2, <1>3, <1>4 DEF TypeOK

LEMMA CountTypes == TypeOK /\ Count => TypeOK'
<1> SUFFICES ASSUME TypeOK, Count PROVE TypeOK'
  OBVIOUS
<1>1. NewSessions \in SUBSET Day
  BY DEF NewSessions, TypeOK
<1>2. Cardinality(NewSessions) \in Nat
  BY <1>1, SomeDays
<1>3. run' \in Run /\ run'.cycle = run.cycle /\ run'.at \in {"saving", "invoicing", "logging"}
  BY <1>1, <1>2 DEF Count, Run, At, TypeOK
<1>4. run.at = "counting" /\ UNCHANGED <<billing_type, today, sessions, cycles, invoices, mishaps>>
  BY DEF Count
<1> QED
  BY <1>3, <1>4 DEF TypeOK, OfCycle

LEMMA SaveTypes == TypeOK /\ Save => TypeOK'
<1> SUFFICES ASSUME TypeOK, Save PROVE TypeOK'
  OBVIOUS
<1> DEFINE last == IF NewSessions = {} THEN NoDate ELSE Latest(NewSessions)
           row  == [cycles[run.cycle] EXCEPT !.sessions_counted = UpToFull(@ + run.counted),
                                             !.last_counted_date = last,
                                             !.dates = @ \cup run.dates]
<1>1. run.at = "saving" /\ billing_type = "SESSION" /\ UNCHANGED <<billing_type, today, sessions, invoices>>
  BY DEF Save, TypeOK
<1>2. run.cycle \in 1 .. Len(cycles) /\ cycles[run.cycle] \in Cycle
  BY <1>1, CyclesAreRows DEF TypeOK, OfCycle
<1>3. last \in Day \cup {NoDate}
  <2>1. NewSessions \in SUBSET Day
    BY DEF NewSessions, TypeOK
  <2> QED
    BY <2>1, LastDayOf
<1>4. row \in Cycle
  <2>1. run.counted \in Nat /\ run.dates \in SUBSET Day
    BY DEF TypeOK, Run
  <2>2. UpToFull(cycles[run.cycle].sessions_counted + run.counted) \in Nat
    BY <1>2, <2>1, RentAssumption DEF UpToFull, Cycle
  <2> QED
    BY <1>2, <1>3, <2>1, <2>2 DEF Cycle
<1>5. cycles' = [cycles EXCEPT ![run.cycle] = row]
  BY DEF Save
<1>6. cycles' \in Seq(Cycle) /\ Len(cycles') = Len(cycles) /\ DOMAIN cycles' = DOMAIN cycles
  <2>1. cycles' \in Seq(Cycle) /\ Len(cycles') = Len(cycles)
    BY <1>2, <1>4, <1>5, Written DEF TypeOK
  <2> QED
    BY <2>1, LenProperties DEF TypeOK
<1>7. run' \in Run /\ run'.at \in {"invoicing", "logging"} /\ run'.cycle = run.cycle
  BY DEF Save, Run, At, TypeOK
<1>8. mishaps' \in SUBSET (Torn \cup {"late", "unmarked"})
  BY DEF Save, TypeOK
<1> QED
  BY <1>1, <1>2, <1>6, <1>7, <1>8 DEF TypeOK, OfCycle

LEMMA PeriodIsNumber == TypeOK /\ run.at = "invoicing" => Period \in Nat
<1> SUFFICES ASSUME TypeOK, run.at = "invoicing" PROVE Period \in Nat
  OBVIOUS
<1>1. run.cycle \in Nat
  BY DEF TypeOK, Run
<1>2. CASE billing_type = "SESSION"
  BY <1>1, <1>2 DEF Period
<1>3. CASE billing_type # "SESSION"
  <2>1. run.today \in 1 .. LastDay
    BY <1>3 DEF TypeOK, Day
  <2>2. (run.today - 1) \div MonthLength \in Nat
    BY <2>1, RentAssumption
  <2> QED
    BY <1>3, <2>1, <2>2, RentAssumption DEF Period, Month, TypeOK, BillingType
<1> QED
  BY <1>2, <1>3

LEMMA MakeInvoiceTypes == TypeOK /\ MakeInvoice => TypeOK'
<1> SUFFICES ASSUME TypeOK, MakeInvoice PROVE TypeOK'
  OBVIOUS
<1>1. run.at = "invoicing" /\ UNCHANGED <<billing_type, today, sessions, cycles, mishaps>>
  BY DEF MakeInvoice
<1>2. PICK id \in 1 .. MaxInvoices :
        /\ invoices' = invoices \cup
             {[id |-> id, period |-> Period, schedule |-> FALSE, status |-> "DRAFT",
               issued_date |-> IF billing_type = "SESSION" THEN today ELSE run.today,
               created_at |-> today]}
        /\ run' = [run EXCEPT !.at = "attaching", !.invoice = id]
  BY DEF MakeInvoice
<1>3. (IF billing_type = "SESSION" THEN today ELSE run.today) \in Day
  BY <1>1 DEF TypeOK
<1>4. id \in Nat \ {0} /\ Period \in Nat /\ today \in Day
  BY <1>1, PeriodIsNumber, RentAssumption DEF TypeOK
<1>5. invoices' \in SUBSET Invoice
  <2> DEFINE issued == IF billing_type = "SESSION" THEN today ELSE run.today
             v == [id |-> id, period |-> Period, schedule |-> FALSE, status |-> "DRAFT",
                   issued_date |-> issued, created_at |-> today]
  <2>1. issued \in Day
    BY <1>3
  <2>3. invoices' = invoices \cup {v}
    BY <1>2
  <2> HIDE DEF issued
  <2>2. v \in Invoice
    BY <1>4, <2>1 DEF Invoice
  <2> HIDE DEF v
  <2> QED
    BY <2>2, <2>3 DEF TypeOK
<1>6. run' \in Run /\ run'.at = "attaching" /\ run'.cycle = run.cycle
  BY <1>2, <1>4 DEF TypeOK, Run, At
<1> QED
  BY <1>1, <1>5, <1>6 DEF TypeOK, OfCycle

LEMMA AttachTypes == TypeOK /\ Attach => TypeOK'
<1> SUFFICES ASSUME TypeOK, Attach PROVE TypeOK'
  OBVIOUS
<1>1. CASE run.invoice \notin Ids
  <2>1. run' = NoRun /\ UNCHANGED <<billing_type, today, sessions, cycles, invoices, mishaps>>
    BY <1>1 DEF Attach, Fail
  <2> QED
    BY <2>1, EndTypes DEF TypeOK
<1>2. CASE run.invoice \in Ids
  <2>1. invoices' \in SUBSET Invoice
    <3>1. \A v \in invoices : v \in Invoice /\ [v EXCEPT !.schedule = TRUE] \in Invoice
      BY DEF TypeOK, Invoice
    <3>2. invoices' = {IF v.id = run.invoice THEN [v EXCEPT !.schedule = TRUE] ELSE v : v \in invoices}
      BY <1>2 DEF Attach
    <3> QED
      BY <3>1, <3>2
  <2>2. /\ run' \in Run /\ run'.cycle = run.cycle
        /\ run'.at = IF billing_type = "SESSION" THEN "linking" ELSE "logging"
    BY <1>2 DEF Attach, Go, Run, At, TypeOK
  <2>3. run.at = "attaching" /\ UNCHANGED <<billing_type, today, sessions, cycles, mishaps>>
    BY <1>2 DEF Attach
  <2> QED
    BY <2>1, <2>2, <2>3 DEF TypeOK, OfCycle
<1> QED
  BY <1>1, <1>2

LEMMA LinkTypes == TypeOK /\ Link => TypeOK'
<1> SUFFICES ASSUME TypeOK, Link PROVE TypeOK'
  OBVIOUS
<1>1. CASE run.invoice \notin Ids
  <2>1. run' = NoRun /\ UNCHANGED <<billing_type, today, sessions, cycles, invoices, mishaps>>
    BY <1>1 DEF Link, Fail
  <2> QED
    BY <2>1, EndTypes DEF TypeOK
<1>2. CASE run.invoice \in Ids
  <2> DEFINE row == [cycles[run.cycle] EXCEPT !.invoice = run.invoice]
  <2>1. run.at = "linking" /\ UNCHANGED <<billing_type, today, sessions, invoices, mishaps>>
    BY <1>2 DEF Link
  <2>2. run.cycle \in 1 .. Len(cycles) /\ cycles[run.cycle] \in Cycle /\ billing_type = "SESSION"
    BY <2>1, CyclesAreRows DEF TypeOK, OfCycle
  <2>3. row \in Cycle
    BY <2>2 DEF Cycle, TypeOK, Run
  <2>4. cycles' = [cycles EXCEPT ![run.cycle] = row]
    BY <1>2 DEF Link
  <2>5. cycles' \in Seq(Cycle) /\ Len(cycles') = Len(cycles)
    BY <2>2, <2>3, <2>4, Written DEF TypeOK
  <2>6. DOMAIN cycles' = 1 .. Len(cycles)
    BY <2>5, LenProperties
  <2>7. run' \in Run /\ run'.at = "appending" /\ run'.cycle = run.cycle
    BY <1>2 DEF Link, Go, Run, At, TypeOK
  <2> QED
    BY <2>1, <2>2, <2>5, <2>6, <2>7 DEF TypeOK, OfCycle
<1> QED
  BY <1>1, <1>2

LEMMA AppendNextTypes == TypeOK /\ AppendNext => TypeOK'
<1> SUFFICES ASSUME TypeOK, AppendNext PROVE TypeOK'
  OBVIOUS
<1>1. CASE run.cycle # Len(cycles)
  <2>1. run' = NoRun /\ UNCHANGED <<billing_type, today, sessions, cycles, invoices, mishaps>>
    BY <1>1 DEF AppendNext, Fail
  <2> QED
    BY <2>1, EndTypes DEF TypeOK
<1>2. CASE run.cycle = Len(cycles)
  <2> DEFINE next == NewCycle(cycles[run.cycle].last_counted_date)
  <2>1. run.at = "appending" /\ UNCHANGED <<billing_type, today, sessions, invoices, mishaps>>
    BY <1>2 DEF AppendNext
  <2>2. run.cycle \in 1 .. Len(cycles) /\ cycles[run.cycle] \in Cycle /\ billing_type = "SESSION"
    BY <2>1, CyclesAreRows DEF TypeOK, OfCycle
  <2>3. next \in Cycle
    BY <2>2, NewCycleIsCycle DEF Cycle
  <2>4. cycles' = Append(cycles, next)
    BY <1>2 DEF AppendNext
  <2>5. cycles' \in Seq(Cycle)
    BY <2>3, <2>4, Appended DEF TypeOK
  <2>6. run' \in Run /\ run'.at = "logging"
    BY <1>2 DEF AppendNext, Go, Run, At, TypeOK
  <2> QED
    BY <2>1, <2>2, <2>5, <2>6 DEF TypeOK, OfCycle
<1> QED
  BY <1>1, <1>2

LEMMA OthersType ==
    ASSUME TypeOK,
           \/ NextDay
           \/ \E d \in ClassDays : Mark(d) \/ Unmark(d)
           \/ \E v \in invoices : Issue(v)
    PROVE  TypeOK'
<1>1. CASE NextDay
  BY <1>1, RentAssumption DEF NextDay, TypeOK, Day
<1>2. CASE \E d \in ClassDays : Mark(d) \/ Unmark(d)
  <2>1. sessions' \in SUBSET Day /\ UNCHANGED <<billing_type, today, cycles, invoices, run, mishaps>>
    BY <1>2, RentAssumption DEF Mark, Unmark, TypeOK, Day
  <2> QED
    BY <2>1 DEF TypeOK
<1>3. CASE \E v \in invoices : Issue(v)
  <2>1. PICK v \in invoices : Issue(v)
    BY <1>3
  <2>2. [v EXCEPT !.status = "PENDING", !.issued_date = today] \in Invoice
    BY DEF TypeOK, Invoice
  <2>3. invoices' \in SUBSET Invoice /\ UNCHANGED <<billing_type, today, sessions, cycles, run, mishaps>>
    BY <2>1, <2>2 DEF Issue, TypeOK
  <2> QED
    BY <2>3 DEF TypeOK
<1> QED
  BY <1>1, <1>2, <1>3

\* Deleting an invoice leaves the cycles what they have counted.
LEMMA DeleteKeepsCounts ==
    ASSUME TypeOK, NEW v \in invoices, Delete(v)
    PROVE  /\ cycles' \in Seq(Cycle) /\ Len(cycles') = Len(cycles) /\ DOMAIN cycles' = DOMAIN cycles
           /\ \A k \in DOMAIN cycles :
                /\ cycles'[k].dates = cycles[k].dates
                /\ cycles'[k].last_counted_date = cycles[k].last_counted_date
                /\ cycles[k].invoice = Unbilled => cycles'[k].invoice = Unbilled
<1> DEFINE row(k) == IF cycles[k].invoice = v.id THEN [cycles[k] EXCEPT !.invoice = Unbilled] ELSE cycles[k]
<1>1. /\ Len(cycles) \in Nat /\ DOMAIN cycles = 1 .. Len(cycles)
      /\ \A k \in 1 .. Len(cycles) : cycles[k] \in Cycle
  BY CyclesAreRows
<1>2. \A k \in 1 .. Len(cycles) : row(k) \in Cycle
  BY <1>1 DEF Cycle, Unbilled
<1>3. cycles' = [k \in 1 .. Len(cycles) |-> row(k)]
  BY <1>1 DEF Delete
<1>4. cycles' \in [1 .. Len(cycles) -> Cycle]
  BY <1>2, <1>3
<1>5. cycles' \in Seq(Cycle)
  BY <1>1, <1>4, SeqDef
<1>6. Len(cycles') = Len(cycles)
  BY <1>1, <1>4, <1>5, LenProperties
<1>7. \A k \in 1 .. Len(cycles) :
        /\ row(k).dates = cycles[k].dates
        /\ row(k).last_counted_date = cycles[k].last_counted_date
        /\ cycles[k].invoice = Unbilled => row(k).invoice = Unbilled
  BY <1>1 DEF Cycle
<1> QED
  BY <1>1, <1>3, <1>5, <1>6, <1>7

LEMMA DeleteTypes == TypeOK /\ (\E v \in invoices : Delete(v)) => TypeOK'
<1> SUFFICES ASSUME TypeOK, NEW v \in invoices, Delete(v) PROVE TypeOK'
  OBVIOUS
<1>1. cycles' \in Seq(Cycle) /\ Len(cycles') = Len(cycles) /\ DOMAIN cycles' = DOMAIN cycles
  BY DeleteKeepsCounts
<1>2. cycles = <<>> => cycles' = <<>>
  BY <1>1, EmptySeq DEF TypeOK
<1>3. invoices' \in SUBSET Invoice /\ UNCHANGED <<billing_type, today, sessions, run, mishaps>>
  BY DEF Delete, TypeOK
<1> QED
  BY <1>1, <1>2, <1>3 DEF TypeOK

LEMMA StepTypes == TypeOK /\ [Next]_vars => TypeOK'
<1> SUFFICES ASSUME TypeOK, [Next]_vars PROVE TypeOK'
  OBVIOUS
<1>1. CASE Begin
  BY <1>1, BeginTypes
<1>2. CASE Statement
  <2>1. CASE Log
    BY <2>1, EndTypes DEF Log, TypeOK
  <2> QED
    BY <1>2, <2>1, GuardTypes, FindTypes, OpenTypes, CountTypes, SaveTypes, MakeInvoiceTypes,
       AttachTypes, LinkTypes, AppendNextTypes DEF Statement
<1>3. CASE Die
  BY <1>3, EndTypes DEF Die, TypeOK
<1>4. CASE NextDay \/ (\E d \in ClassDays : Mark(d) \/ Unmark(d)) \/ (\E v \in invoices : Issue(v))
  BY <1>4, OthersType
<1>5. CASE \E v \in invoices : Delete(v)
  BY <1>5, DeleteTypes
<1>6. CASE UNCHANGED vars
  BY <1>6 DEF vars, TypeOK, OfCycle
<1> QED
  BY <1>1, <1>2, <1>3, <1>4, <1>5, <1>6 DEF Next

(* TypeOK: rows, dates and what a run holds keep their types.              *)
THEOREM RentTypeCorrect == Spec => []TypeOK
BY InitTypes, StepTypes, PTL DEF Spec

-----------------------------------------------------------------------------
(* The order of the cycles.                                                *)

LEMMA MishapsStay == [Next]_vars /\ Unharmed' => Unharmed
BY DEF Next, vars, Statement, Begin, Guard, Find, Open, Count, Save, MakeInvoice, Attach, Link,
       AppendNext, Log, Die, NextDay, Mark, Unmark, Issue, Delete, Unharmed

LEMMA SameCountsAscend ==
    ASSUME Ascending, DOMAIN cycles' = DOMAIN cycles,
           \A k \in DOMAIN cycles : /\ cycles'[k].dates = cycles[k].dates
                                    /\ cycles'[k].last_counted_date = cycles[k].last_counted_date
    PROVE  Ascending'
BY DEF Ascending

\* Steps that neither write a cycle nor leave an open one behind.
LEMMA EndAtLast ==
    ASSUME AtLast, UNCHANGED <<billing_type, cycles>>, run' = NoRun, run.at # "appending"
    PROVE  AtLast'
BY DEF AtLast, NoRun, OfCycle

LEMMA FindAtLast == TypeOK /\ AtLast /\ Find => AtLast'
<1> SUFFICES ASSUME TypeOK, AtLast, Find PROVE AtLast'
  OBVIOUS
<1>1. Len(cycles) \in Nat /\ DOMAIN cycles = 1 .. Len(cycles) /\ (cycles # <<>> => Len(cycles) \in 1 .. Len(cycles))
  BY CyclesAreRows
<1>2. run.at = "finding" /\ UNCHANGED <<billing_type, cycles>>
  BY DEF Find
<1>3. cycles # <<>> => Len(cycles) \in OpenCycles
  BY <1>1, <1>2 DEF AtLast, OpenCycles
<1>4. CASE OpenCycles = {}
  <2>1. cycles = <<>> /\ run'.at = "opening"
    BY <1>3, <1>4 DEF Find, TypeOK, Run
  <2> QED
    BY <1>2, <2>1 DEF AtLast, OfCycle
<1>5. CASE OpenCycles # {}
  <2>1. OpenCycles \in SUBSET Nat /\ \A k \in OpenCycles : k <= Len(cycles)
    BY <1>1 DEF OpenCycles
  <2>2. Latest(OpenCycles) \in OpenCycles /\ \A k \in OpenCycles : k <= Latest(OpenCycles)
    BY <1>1, <1>5, <2>1, LatestExists
  <2>3. cycles # <<>>
    BY <1>1, <1>5, EmptySeq DEF OpenCycles
  <2>4. Latest(OpenCycles) = Len(cycles)
    <3>1. \A l \in OpenCycles : (\A k \in OpenCycles : k <= l) => l = Len(cycles)
      <4> SUFFICES ASSUME NEW l \in OpenCycles, \A k \in OpenCycles : k <= l PROVE l = Len(cycles)
        OBVIOUS
      <4>1. l <= Len(cycles) /\ Len(cycles) <= l /\ l \in Nat
        BY <1>3, <2>1, <2>3
      <4> QED
        BY <1>1, <4>1, Ordered
    <3> QED
      BY <2>2, <3>1
  <2>5. run'.at = "counting" /\ run'.cycle = Len(cycles)
    BY <1>5, <2>4 DEF Find, TypeOK, Run
  <2> QED
    BY <1>2, <2>5 DEF AtLast, OfCycle
<1> QED
  BY <1>4, <1>5

LEMMA OpenOrder == TypeOK /\ Ascending /\ AtLast /\ Open => Ascending' /\ AtLast'
<1> SUFFICES ASSUME TypeOK, Ascending, AtLast, Open PROVE Ascending' /\ AtLast'
  OBVIOUS
<1>1. cycles = <<>> /\ run.cycle = Len(cycles) + 1 /\ Len(cycles) = 0
  BY EmptySeq DEF Open, AtLast, TypeOK
<1>2. NewCycle(NoDate) \in Cycle /\ cycles' = Append(cycles, NewCycle(NoDate))
  BY NewCycleIsCycle DEF Open
<1>3. cycles' \in Seq(Cycle) /\ Len(cycles') = 1 /\ cycles'[1] = NewCycle(NoDate)
  BY <1>1, <1>2, Appended DEF TypeOK
<1>4. DOMAIN cycles' = 1 .. 1
  BY <1>3, LenProperties
<1>5. run'.at = "counting" /\ run'.cycle = 1
  BY <1>1 DEF Open, Go, TypeOK, Run
<1>6. Ascending'
  BY <1>3, <1>4 DEF Ascending, NewCycle
<1>7. AtLast'
  BY <1>3, <1>5 DEF AtLast, OfCycle, NewCycle
<1> QED
  BY <1>6, <1>7

\* The second query finds a day as late as all those counted, or attendance
\* has been taken away.
LEMMA SaveOrder == TypeOK /\ Ascending /\ AtLast /\ Save /\ Unharmed' => Ascending' /\ AtLast'
<1> SUFFICES ASSUME TypeOK, Ascending, AtLast, Save, Unharmed' PROVE Ascending' /\ AtLast'
  OBVIOUS
<1> DEFINE old  == cycles[run.cycle]
           last == IF NewSessions = {} THEN NoDate ELSE Latest(NewSessions)
           row  == [old EXCEPT !.sessions_counted = UpToFull(@ + run.counted),
                               !.last_counted_date = last,
                               !.dates = @ \cup run.dates]
<1>1. /\ run.at = "saving" /\ billing_type = "SESSION" /\ UNCHANGED billing_type
      /\ run'.at \in {"invoicing", "logging"} /\ run'.cycle = run.cycle
  BY DEF Save, TypeOK, Run
<1>2. run.cycle = Len(cycles) /\ run.cycle \in 1 .. Len(cycles) /\ old \in Cycle
  BY <1>1, CyclesAreRows DEF TypeOK, OfCycle, AtLast
<1>3. /\ DOMAIN cycles = 1 .. Len(cycles) /\ Len(cycles) \in Nat
      /\ \A k \in 1 .. Len(cycles) : cycles[k] \in Cycle
  BY CyclesAreRows
<1>4. cycles' = [cycles EXCEPT ![run.cycle] = row]
  BY DEF Save
<1>5. /\ DOMAIN cycles' = 1 .. Len(cycles) /\ cycles'[run.cycle] = row
      /\ \A k \in 1 .. Len(cycles) : k # run.cycle => cycles'[k] = cycles[k]
  BY <1>2, <1>3, <1>4
<1>6. ~ (last < Latest(run.dates))
  BY DEF Save, Unharmed
<1>7. run.dates # {} /\ run.dates \in SUBSET Day /\ \A d \in run.dates : old.last_counted_date < d
  BY <1>1 DEF AtLast, TypeOK, Run
<1>8. Latest(run.dates) \in run.dates /\ \A d \in run.dates : d <= Latest(run.dates)
  BY <1>7, LastDayOf
<1>9. last \in Nat /\ old.last_counted_date \in Nat
  <2>1. NewSessions \in SUBSET Day
    BY DEF NewSessions, TypeOK
  <2>2. last \in Day \cup {NoDate}
    BY <2>1, LastDayOf
  <2> HIDE DEF last
  <2> QED
    BY <1>2, <2>2, RentAssumption DEF Cycle, Day, NoDate
<1>10. run.dates \in SUBSET Nat
  BY <1>7, RentAssumption DEF Day
<1>11. old.last_counted_date < last /\ \A d \in run.dates : d <= last
  <2>1. Latest(run.dates) \in Nat
    BY <1>8, <1>10
  <2> HIDE DEF last
  <2> QED
    BY <1>6, <1>7, <1>8, <1>9, <1>10, <2>1
<1>12. row.last_counted_date = last /\ row.dates = old.dates \cup run.dates /\ row.invoice = old.invoice
  BY <1>2 DEF Cycle
<1>13. \A k \in 1 .. Len(cycles) : cycles[k].last_counted_date \in Nat /\ cycles[k].dates \in SUBSET Nat
  BY <1>3, RentAssumption DEF Cycle, Day, NoDate
<1>14. Ascending'
  <2> HIDE DEF row, last
  <2>1. \A d \in old.dates : d <= old.last_counted_date
    BY <1>2, <1>3 DEF Ascending
  <2>2. \A d \in row.dates : d <= row.last_counted_date
    BY <1>2, <1>9, <1>10, <1>11, <1>12, <1>13, <2>1
  <2>3. \A j \in 1 .. Len(cycles) : j < run.cycle =>
          /\ cycles[j].last_counted_date <= row.last_counted_date
          /\ \A d \in row.dates : cycles[j].last_counted_date < d
    <3> SUFFICES ASSUME NEW j \in 1 .. Len(cycles), j < run.cycle
                 PROVE  /\ cycles[j].last_counted_date <= row.last_counted_date
                        /\ \A d \in row.dates : cycles[j].last_counted_date < d
      OBVIOUS
    <3>1. /\ cycles[j].last_counted_date <= old.last_counted_date
          /\ \A d \in old.dates : cycles[j].last_counted_date < d
      BY <1>2, <1>3 DEF Ascending
    <3>2. \A d \in run.dates : cycles[j].last_counted_date < d
      BY <1>7, <1>9, <1>10, <1>13, <3>1
    <3>3. cycles[j].last_counted_date <= last
      BY <1>9, <1>11, <1>13, <3>1
    <3> QED
      BY <1>12, <3>1, <3>2, <3>3
  <2> QED
    BY <1>2, <1>5, <2>2, <2>3 DEF Ascending
<1>15. AtLast'
  <2> HIDE DEF row, last
  <2>1. old.invoice = Unbilled
    BY <1>1, <1>2, EmptySeq DEF AtLast
  <2>2. Len(cycles') = Len(cycles)
    BY <1>2, <1>3, <1>4
  <2> QED
    BY <1>1, <1>2, <1>5, <1>12, <2>1, <2>2 DEF AtLast
<1> QED
  BY <1>14, <1>15

LEMMA LinkOrder == TypeOK /\ Ascending /\ AtLast /\ Link => Ascending' /\ AtLast'
<1> SUFFICES ASSUME TypeOK, Ascending, AtLast, Link PROVE Ascending' /\ AtLast'
  OBVIOUS
<1>1. CASE run.invoice \notin Ids
  <2>1. run' = NoRun /\ run.at = "linking" /\ UNCHANGED <<billing_type, cycles>>
    BY <1>1 DEF Link, Fail
  <2> QED
    BY <2>1, EndAtLast, SameCountsAscend
<1>2. CASE run.invoice \in Ids
  <2>1. run.at = "linking" /\ UNCHANGED billing_type /\ cycles' = [cycles EXCEPT ![run.cycle].invoice = run.invoice]
    BY <1>2 DEF Link
  <2>2. /\ run.cycle \in 1 .. Len(cycles) /\ run.cycle = Len(cycles) /\ billing_type = "SESSION"
        /\ \A k \in 1 .. Len(cycles) : cycles[k] \in Cycle
        /\ DOMAIN cycles = 1 .. Len(cycles) /\ Len(cycles) \in Nat
    BY <2>1, CyclesAreRows DEF TypeOK, OfCycle, AtLast
  <2>3. /\ DOMAIN cycles' = DOMAIN cycles /\ Len(cycles') = Len(cycles)
        /\ \A k \in DOMAIN cycles : /\ cycles'[k].dates = cycles[k].dates
                                    /\ cycles'[k].last_counted_date = cycles[k].last_counted_date
    BY <2>1, <2>2 DEF Cycle
  <2>4. run'.at = "appending" /\ run'.cycle = run.cycle
    BY <1>2 DEF Link, Go, TypeOK, Run
  <2> QED
    BY <2>2, <2>3, <2>4, SameCountsAscend DEF AtLast
<1> QED
  BY <1>1, <1>2

LEMMA AppendOrder == TypeOK /\ Ascending /\ AtLast /\ AppendNext => Ascending' /\ AtLast'
<1> SUFFICES ASSUME TypeOK, Ascending, AtLast, AppendNext PROVE Ascending' /\ AtLast'
  OBVIOUS
<1> DEFINE n == Len(cycles)
           next == NewCycle(cycles[n].last_counted_date)
<1>1. run.at = "appending" /\ run.cycle = n /\ n \in 1 .. n /\ billing_type = "SESSION"
  BY CyclesAreRows DEF AppendNext, TypeOK, OfCycle, AtLast
<1>2. /\ n \in Nat /\ DOMAIN cycles = 1 .. n
      /\ \A k \in 1 .. n : cycles[k] \in Cycle /\ cycles[k].last_counted_date \in Nat
  BY CyclesAreRows, RentAssumption DEF Cycle, Day, NoDate
<1>3. /\ next \in Cycle
      /\ next.dates = {} /\ next.last_counted_date = cycles[n].last_counted_date
      /\ next.invoice = Unbilled
  BY <1>1, <1>2, NewCycleIsCycle DEF Cycle, NewCycle
<1>4. cycles' = Append(cycles, next) /\ run'.at = "logging" /\ UNCHANGED billing_type
  BY <1>1 DEF AppendNext, Go, TypeOK, Run
<1>5. /\ cycles' \in Seq(Cycle) /\ Len(cycles') = n + 1 /\ cycles'[n + 1] = next
      /\ \A k \in 1 .. n : cycles'[k] = cycles[k]
  BY <1>3, <1>4, Appended DEF TypeOK
<1>6. DOMAIN cycles' = 1 .. n + 1
  BY <1>5, LenProperties
<1>7. Ascending'
  <2> HIDE DEF next
  <2>1. \A j \in 1 .. n : cycles[j].last_counted_date <= cycles[n].last_counted_date
    <3> SUFFICES ASSUME NEW j \in 1 .. n PROVE cycles[j].last_counted_date <= cycles[n].last_counted_date
      OBVIOUS
    <3>1. CASE j = n
      BY <1>1, <1>2, <3>1, Ordered
    <3>2. CASE j < n
      BY <1>1, <1>2, <3>2 DEF Ascending
    <3> QED
      BY <1>2, <3>1, <3>2, LastOrBefore
  <2>2. \A k \in 1 .. n + 1 : k # n + 1 => k \in 1 .. n
    BY <1>2
  <2>3. \A k \in 1 .. n + 1 : \A d \in cycles'[k].dates : d <= cycles'[k].last_counted_date
    BY <1>2, <1>3, <1>5, <2>2 DEF Ascending
  <2>4. \A j, k \in 1 .. n + 1 : j < k =>
          /\ cycles'[j].last_counted_date <= cycles'[k].last_counted_date
          /\ \A d \in cycles'[k].dates : cycles'[j].last_counted_date < d
    <3> SUFFICES ASSUME NEW j \in 1 .. n + 1, NEW k \in 1 .. n + 1, j < k
                 PROVE  /\ cycles'[j].last_counted_date <= cycles'[k].last_counted_date
                        /\ \A d \in cycles'[k].dates : cycles'[j].last_counted_date < d
      OBVIOUS
    <3>1. j \in 1 .. n
      BY <1>2
    <3>2. CASE k = n + 1
      BY <1>3, <1>5, <2>1, <3>1, <3>2
    <3>3. CASE k # n + 1
      BY <1>2, <1>5, <2>2, <3>1, <3>3 DEF Ascending
    <3> QED
      BY <3>2, <3>3
  <2> QED
    BY <1>6, <2>3, <2>4 DEF Ascending
<1>8. AtLast'
  BY <1>3, <1>4, <1>5 DEF AtLast, OfCycle
<1> QED
  BY <1>7, <1>8

LEMMA DeleteOrder ==
    ASSUME TypeOK, Ascending, AtLast, NEW v \in invoices, Delete(v)
    PROVE  Ascending' /\ AtLast'
<1>1. /\ cycles' \in Seq(Cycle) /\ Len(cycles') = Len(cycles) /\ DOMAIN cycles' = DOMAIN cycles
      /\ \A k \in DOMAIN cycles :
           /\ cycles'[k].dates = cycles[k].dates
           /\ cycles'[k].last_counted_date = cycles[k].last_counted_date
           /\ cycles[k].invoice = Unbilled => cycles'[k].invoice = Unbilled
  BY DeleteKeepsCounts
<1>2. DOMAIN cycles = 1 .. Len(cycles) /\ (cycles # <<>> => Len(cycles) \in 1 .. Len(cycles))
  BY CyclesAreRows
<1>3. cycles' = <<>> <=> cycles = <<>>
  BY <1>1, EmptySeq DEF TypeOK
<1>4. UNCHANGED <<billing_type, run>>
  BY DEF Delete
<1>5. run.at = "saving" => run.cycle \in DOMAIN cycles
  BY DEF TypeOK, OfCycle
<1> QED
  BY <1>1, <1>2, <1>3, <1>4, <1>5, SameCountsAscend DEF AtLast

LEMMA InitOrder == Init => Ascending /\ AtLast
BY EmptySeq DEF Init, Ascending, AtLast, NoRun, OfCycle

LEMMA StepOrder == IInv /\ [Next]_vars => IInv'
<1> SUFFICES ASSUME IInv, [Next]_vars, Unharmed' PROVE Ascending' /\ AtLast'
  BY StepTypes DEF IInv
<1>1. TypeOK /\ Ascending /\ AtLast
  BY MishapsStay DEF IInv
<1>2. CASE Begin
  BY <1>1, <1>2, SameCountsAscend DEF Begin, AtLast, NoRun, OfCycle, Run, TypeOK
<1>3. CASE Statement
  <2>1. CASE Guard
    <3>1. run' = [run EXCEPT !.at = IF Charged THEN "logging" ELSE "invoicing"]
      BY <2>1 DEF Guard, Go
    <3>2. run'.at \in {"logging", "invoicing"} /\ run.at = "guarding" /\ UNCHANGED <<billing_type, cycles>>
      BY <2>1, <3>1 DEF Guard, TypeOK, Run
    <3> QED
      BY <1>1, <3>2, SameCountsAscend DEF AtLast, TypeOK
  <2>2. CASE Find
    BY <1>1, <2>2, FindAtLast, SameCountsAscend DEF Find
  <2>3. CASE Open
    BY <1>1, <2>3, OpenOrder
  <2>4. CASE Count
    <3>1. /\ run.at = "counting" /\ UNCHANGED <<billing_type, cycles>>
          /\ run'.cycle = run.cycle /\ run'.dates = NewSessions
          /\ run'.at \in {"saving", "invoicing", "logging"}
          /\ run'.at = "saving" => NewSessions # {}
      BY <1>1, <2>4 DEF Count, TypeOK, Run
    <3>2. \A d \in NewSessions : cycles[run.cycle].last_counted_date < d
      <4>1. run.cycle \in 1 .. Len(cycles) /\ cycles[run.cycle] \in Cycle
        BY <1>1, <3>1, CyclesAreRows DEF TypeOK, OfCycle
      <4>2. cycles[run.cycle].last_counted_date \in Nat /\ NewSessions \in SUBSET Nat
        <5>1. Day \subseteq Nat
          BY RentAssumption DEF Day
        <5>2. NewSessions \in SUBSET Day
          BY <1>1 DEF NewSessions, TypeOK
        <5>3. cycles[run.cycle].last_counted_date \in Day \cup {NoDate}
          BY <4>1 DEF Cycle
        <5>4. cycles[run.cycle].last_counted_date \in Nat
          BY <5>3, DatesAreNumbers
        <5>5. NewSessions \subseteq Nat
          BY <5>1, <5>2
        <5> QED
          BY <5>4, <5>5
      <4>3. \A d \in NewSessions : d > cycles[run.cycle].last_counted_date
        BY DEF NewSessions
      <4> QED
        BY <4>2, <4>3
    <3> QED
      BY <1>1, <3>1, <3>2, SameCountsAscend DEF AtLast, OfCycle, TypeOK
  <2>5. CASE Save
    BY <1>1, <2>5, SaveOrder
  <2>6. CASE MakeInvoice
    <3>1. /\ run.at = "invoicing" /\ UNCHANGED <<billing_type, cycles>>
          /\ run'.at = "attaching" /\ run'.cycle = run.cycle
      BY <1>1, <2>6 DEF MakeInvoice, TypeOK, Run
    <3> QED
      BY <1>1, <3>1, SameCountsAscend DEF AtLast, OfCycle
  <2>7. CASE Attach
    <3>1. run.at = "attaching" /\ UNCHANGED <<billing_type, cycles>>
      BY <2>7 DEF Attach, Fail
    <3>2. CASE run.invoice \notin Ids
      BY <1>1, <2>7, <3>1, <3>2, EndAtLast, SameCountsAscend DEF Attach, Fail
    <3>3. CASE run.invoice \in Ids
      <4>1. run'.at \in {"linking", "logging"} /\ run'.cycle = run.cycle
        BY <1>1, <2>7, <3>3 DEF Attach, Go, TypeOK, Run
      <4> QED
        BY <1>1, <3>1, <4>1, SameCountsAscend DEF AtLast, OfCycle
    <3> QED
      BY <3>2, <3>3
  <2>8. CASE Link
    BY <1>1, <2>8, LinkOrder
  <2>9. CASE AppendNext
    BY <1>1, <2>9, AppendOrder
  <2>10. CASE Log
    BY <1>1, <2>10, EndAtLast, SameCountsAscend DEF Log
  <2> QED
    BY <1>3, <2>1, <2>2, <2>3, <2>4, <2>5, <2>6, <2>7, <2>8, <2>9, <2>10 DEF Statement
<1>4. CASE Die
  <2>1. run.at # "appending"
    BY <1>4 DEF Die, Torn, Unharmed
  <2> QED
    BY <1>1, <1>4, <2>1, EndAtLast, SameCountsAscend DEF Die
<1>5. CASE NextDay \/ (\E d \in ClassDays : Mark(d) \/ Unmark(d)) \/ (\E v \in invoices : Issue(v)) \/ UNCHANGED vars
  <2>1. UNCHANGED <<billing_type, cycles, run>>
    BY <1>5 DEF NextDay, Mark, Unmark, Issue, vars
  <2> QED
    BY <1>1, <2>1 DEF Ascending, AtLast
<1>6. CASE \E v \in invoices : Delete(v)
  BY <1>1, <1>6, DeleteOrder
<1> QED
  BY <1>2, <1>3, <1>4, <1>5, <1>6 DEF Next

LEMMA OrderSeparates == IInv => SessionsChargedOnce
<1> SUFFICES ASSUME TypeOK, Ascending,
                    NEW j \in DOMAIN cycles, NEW k \in DOMAIN cycles, j # k,
                    NEW d \in cycles[j].dates, d \in cycles[k].dates
             PROVE  FALSE
  BY DEF IInv, SessionsChargedOnce, Unharmed
<1>1. /\ DOMAIN cycles = 1 .. Len(cycles) /\ Len(cycles) \in Nat
      /\ cycles[j] \in Cycle /\ cycles[k] \in Cycle
  BY CyclesAreRows
<1>2. d \in Nat /\ cycles[j].last_counted_date \in Nat /\ cycles[k].last_counted_date \in Nat
  BY <1>1, RentAssumption DEF Cycle, Day, NoDate
<1>3. d <= cycles[j].last_counted_date /\ d <= cycles[k].last_counted_date
  BY DEF Ascending
<1>4. CASE j < k
  BY <1>2, <1>3, <1>4 DEF Ascending
<1>5. CASE k < j
  BY <1>2, <1>3, <1>5 DEF Ascending
<1> QED
  BY <1>1, <1>4, <1>5

(* SessionsChargedOnce: deaths before any statement but the opening of the  *)
(* next cycle, failures, deleted invoices and marks of any day between the  *)
(* statements do not make the evaluator count a session in two cycles.      *)
THEOREM SessionsOnce == Spec => []SessionsChargedOnce
<1>1. Init => IInv
  BY InitTypes, InitOrder DEF IInv
<1> QED
  BY <1>1, StepOrder, OrderSeparates, PTL DEF Spec

-----------------------------------------------------------------------------
(* One invoice for each period.                                            *)

Tied == mishaps \cap {"attaching", "linking", "late"} = {}

OwnIds == \A v, w \in invoices : v.id = w.id => v = w

(* The invoice that the run under way has made and not tied yet.           *)
InHand(v) == run.at \in {"attaching", "linking"} /\ v.id = run.invoice

Scheduled == \A v \in invoices : v.schedule \/ (run.at = "attaching" /\ v.id = run.invoice)

(* An invoice is named by the cycle it is for, or is about to be; a cycle   *)
(* that is worked on has no invoice.                                        *)
Billed ==
    /\ run.at \in OfCycle \ {"appending"} => cycles[run.cycle].invoice = Unbilled
    /\ \A v \in invoices : v.period \in DOMAIN cycles
    /\ \A v \in invoices : \/ cycles[v.period].invoice = v.id
                           \/ InHand(v) /\ v.period = run.cycle

(* A month or a day is charged when it has come, and the guard finds the    *)
(* invoices of the period it is asked about.                                *)
PeriodOf(d) == IF billing_type = "MONTHLY" THEN Month(d) ELSE d
InTime(v) ==
    IF billing_type = "MONTHLY" THEN v.created_at <= today /\ v.period <= Month(v.created_at)
                                ELSE v.period <= today /\ (v.period = today => v.issued_date = today)
Dated ==
    /\ \A v, w \in invoices : v.period = w.period => v = w
    /\ \A v \in invoices : InTime(v)
    /\ run.at \in {"guarding", "invoicing"} => run.today <= today
    /\ run.at = "invoicing" => \A v \in invoices : v.period # PeriodOf(run.today)

ByType == IF billing_type = "SESSION" THEN Billed ELSE Dated

PInv == TypeOK /\ OwnIds /\ (Tied => Scheduled /\ ByType)

LEMMA TiedStays == [Next]_vars /\ Tied' => Tied
BY DEF Next, vars, Statement, Begin, Guard, Find, Open, Count, Save, MakeInvoice, Attach, Link,
       AppendNext, Log, Die, NextDay, Mark, Unmark, Issue, Delete, Tied

LEMMA TypeStays == [Next]_vars => UNCHANGED billing_type
BY DEF Next, vars, Statement, Begin, Guard, Find, Open, Count, Save, MakeInvoice, Attach, Link,
       AppendNext, Log, Die, NextDay, Mark, Unmark, Issue, Delete

\* What becomes of the invoices in every step but the making of one.
Descend ==
    \A w \in invoices' : \E v \in invoices :
        /\ w.id = v.id /\ w.period = v.period /\ w.created_at = v.created_at
        /\ v.schedule => w.schedule
        /\ w.issued_date \in {v.issued_date, today}

LEMMA UnchangedDescends == UNCHANGED invoices => Descend
BY DEF Descend

LEMMA AttachDescends ==
    ASSUME TypeOK, OwnIds, Attach
    PROVE  /\ OwnIds' /\ Descend
           /\ \A w \in invoices' : (\E v \in invoices : v = w /\ v.id # run.invoice)
                                     \/ (run.invoice \in Ids /\ w.id = run.invoice /\ w.schedule)
<1> DEFINE put(v) == IF v.id = run.invoice THEN [v EXCEPT !.schedule = TRUE] ELSE v
<1>1. \A v \in invoices : v \in Invoice
  BY DEF TypeOK
<1>2. \A v \in invoices : /\ put(v).id = v.id /\ put(v).period = v.period /\ put(v).created_at = v.created_at
                          /\ put(v).issued_date = v.issued_date
                          /\ v.schedule => put(v).schedule
                          /\ v.id = run.invoice => put(v).schedule
                          /\ v.id # run.invoice => put(v) = v
  BY <1>1 DEF Invoice
<1>3. CASE run.invoice \in Ids
  <2>1. invoices' = {put(v) : v \in invoices}
    BY <1>3 DEF Attach
  <2> HIDE DEF put
  <2>2. \A w \in invoices' : \E v \in invoices : w = put(v)
    BY <2>1
  <2> QED
    BY <1>2, <1>3, <2>2 DEF OwnIds, Descend
<1>4. CASE run.invoice \notin Ids
  <2>1. UNCHANGED invoices /\ \A v \in invoices : v.id # run.invoice
    BY <1>4 DEF Attach, Fail, Ids
  <2> QED
    BY <2>1 DEF OwnIds, Descend
<1> QED
  BY <1>3, <1>4

LEMMA IssueDescends ==
    ASSUME TypeOK, OwnIds, NEW u \in invoices, Issue(u)
    PROVE  OwnIds' /\ Descend
<1> DEFINE new == [u EXCEPT !.status = "PENDING", !.issued_date = today]
<1>1. /\ new.id = u.id /\ new.period = u.period /\ new.created_at = u.created_at
      /\ new.schedule = u.schedule /\ new.issued_date = today
  BY DEF TypeOK, Invoice
<1>2. invoices' = (invoices \ {u}) \cup {new}
  BY DEF Issue
<1> HIDE DEF new
<1> QED
  BY <1>1, <1>2 DEF OwnIds, Descend

LEMMA MadeInvoice ==
    ASSUME TypeOK, MakeInvoice
    PROVE  \E n \in Invoice :
             /\ n.id \notin Ids /\ n.period = Period /\ n.created_at = today
             /\ n.issued_date = IF billing_type = "SESSION" THEN today ELSE run.today
             /\ invoices' = invoices \cup {n}
             /\ run' = [run EXCEPT !.at = "attaching", !.invoice = n.id]
<1>1. run.at = "invoicing"
  BY DEF MakeInvoice
<1>2. PICK id \in 1 .. MaxInvoices :
        /\ id \notin Ids
        /\ invoices' = invoices \cup
             {[id |-> id, period |-> Period, schedule |-> FALSE, status |-> "DRAFT",
               issued_date |-> IF billing_type = "SESSION" THEN today ELSE run.today,
               created_at |-> today]}
        /\ run' = [run EXCEPT !.at = "attaching", !.invoice = id]
  BY DEF MakeInvoice
<1> DEFINE issued == IF billing_type = "SESSION" THEN today ELSE run.today
           n == [id |-> id, period |-> Period, schedule |-> FALSE, status |-> "DRAFT",
                 issued_date |-> issued, created_at |-> today]
<1>3. issued \in Day
  BY <1>1 DEF TypeOK
<1>4. id \in Nat \ {0} /\ Period \in Nat /\ today \in Day
  BY <1>1, PeriodIsNumber, RentAssumption DEF TypeOK
<1>5. invoices' = invoices \cup {n} /\ run' = [run EXCEPT !.at = "attaching", !.invoice = id]
  BY <1>2
<1>6. issued = IF billing_type = "SESSION" THEN today ELSE run.today
  OBVIOUS
<1> HIDE DEF issued
<1>7. n \in Invoice
  BY <1>3, <1>4 DEF Invoice
<1>8. n.id = id /\ n.period = Period /\ n.created_at = today /\ n.issued_date = issued
  OBVIOUS
<1> HIDE DEF n
<1> QED
  BY <1>2, <1>5, <1>6, <1>7, <1>8

LEMMA StepIds == TypeOK /\ OwnIds /\ [Next]_vars => OwnIds' /\ (Descend \/ MakeInvoice)
<1> SUFFICES ASSUME TypeOK, OwnIds, [Next]_vars PROVE OwnIds' /\ (Descend \/ MakeInvoice)
  OBVIOUS
<1>1. CASE MakeInvoice
  BY <1>1, MadeInvoice DEF OwnIds, Ids
<1>2. CASE Attach
  BY <1>2, AttachDescends
<1>3. CASE \E v \in invoices : Issue(v)
  BY <1>3, IssueDescends
<1>4. CASE \E v \in invoices : Delete(v)
  <2>1. invoices' \subseteq invoices
    BY <1>4 DEF Delete
  <2> QED
    BY <2>1 DEF OwnIds, Descend
<1>5. CASE UNCHANGED invoices
  BY <1>5, UnchangedDescends DEF OwnIds
<1>6. \/ MakeInvoice \/ Attach \/ (\E v \in invoices : Issue(v)) \/ (\E v \in invoices : Delete(v))
      \/ UNCHANGED invoices
  BY DEF Next, vars, Statement, Begin, Guard, Find, Open, Count, Save, Link, Fail, AppendNext, Log,
         Die, NextDay, Mark, Unmark
<1> QED
  BY <1>1, <1>2, <1>3, <1>4, <1>5, <1>6

\* A run that carries no invoice to a later statement.
LEMMA StepScheduled ==
    ASSUME TypeOK, OwnIds, Scheduled, [Next]_vars, Tied'
    PROVE  Scheduled'
<1>1. CASE MakeInvoice
  <2>1. PICK n \in Invoice : /\ invoices' = invoices \cup {n}
                             /\ run' = [run EXCEPT !.at = "attaching", !.invoice = n.id]
    BY <1>1, MadeInvoice
  <2>2. run.at = "invoicing" /\ run'.at = "attaching" /\ run'.invoice = n.id
    BY <1>1, <2>1 DEF MakeInvoice, TypeOK, Run
  <2> QED
    BY <2>1, <2>2 DEF Scheduled
<1>2. CASE Attach
  <2>1. \A w \in invoices' : \/ \E v \in invoices : v = w /\ v.id # run.invoice
                             \/ w.id = run.invoice /\ w.schedule
    BY <1>2, AttachDescends
  <2> QED
    BY <2>1 DEF Scheduled
<1>3. CASE ~MakeInvoice /\ ~Attach
  <2>1. run.at = "attaching" => UNCHANGED run
    BY <1>3 DEF Next, vars, Statement, Begin, Guard, Find, Open, Count, Save, Link, AppendNext, Log,
                NextDay, Mark, Unmark, Issue, Delete, Die, Torn, Tied
  <2>2. Descend
    BY <1>3, StepIds
  <2> QED
    BY <2>1, <2>2 DEF Descend, Scheduled
<1> QED
  BY <1>1, <1>2, <1>3

-----------------------------------------------------------------------------
(* The cycles and their invoices.                                          *)

\* Steps that write no cycle and tie no invoice.
LEMMA BilledKept ==
    ASSUME Billed, Descend, UNCHANGED cycles,
           run'.at \in OfCycle \ {"appending"} =>
             /\ run'.cycle \in DOMAIN cycles
             /\ cycles[run'.cycle].invoice = Unbilled,
           \A w \in invoices' : InHand(w) => InHand(w)' /\ run'.cycle = run.cycle
    PROVE  Billed'
BY DEF Billed, Descend, InHand

\* A new cycle changes nothing of those there are.
LEMMA BilledAppended ==
    ASSUME TypeOK, Billed, UNCHANGED invoices, NEW c \in Cycle, c.invoice = Unbilled,
           cycles' = Append(cycles, c), run.at \notin {"attaching", "linking"},
           run'.at \in OfCycle \ {"appending"} => run'.cycle = Len(cycles) + 1
    PROVE  Billed'
<1>1. DOMAIN cycles = 1 .. Len(cycles) /\ Len(cycles) \in Nat
  BY CyclesAreRows
<1>2. /\ cycles' \in Seq(Cycle) /\ Len(cycles') = Len(cycles) + 1 /\ cycles'[Len(cycles) + 1] = c
      /\ \A k \in 1 .. Len(cycles) : cycles'[k] = cycles[k]
  BY Appended DEF TypeOK
<1>3. DOMAIN cycles' = 1 .. Len(cycles) + 1
  BY <1>2, LenProperties
<1>4. \A k \in 1 .. Len(cycles) : k \in 1 .. Len(cycles) + 1
  BY <1>1
<1>5. \A v \in invoices : v.period \in DOMAIN cycles /\ cycles[v.period].invoice = v.id
  BY DEF Billed, InHand
<1> QED
  BY <1>1, <1>2, <1>3, <1>4, <1>5 DEF Billed

LEMMA FindBilled ==
    ASSUME TypeOK, Billed, Find
    PROVE  Billed'
<1>1. Len(cycles) \in Nat /\ DOMAIN cycles = 1 .. Len(cycles)
  BY CyclesAreRows
<1>2. run.at = "finding" /\ UNCHANGED <<cycles, invoices>>
  BY DEF Find
<1>3. run'.at = "opening" \/ run'.cycle \in OpenCycles
  <2>1. OpenCycles \in SUBSET Nat /\ \A k \in OpenCycles : k <= Len(cycles)
    BY <1>1 DEF OpenCycles
  <2>2. OpenCycles # {} => Latest(OpenCycles) \in OpenCycles
    BY <1>1, <2>1, LatestExists
  <2> QED
    BY <2>2 DEF Find, TypeOK, Run
<1> QED
  BY <1>2, <1>3, UnchangedDescends, BilledKept DEF OpenCycles, OfCycle, InHand

LEMMA MakeInvoiceBilled ==
    ASSUME TypeOK, billing_type = "SESSION", Billed, MakeInvoice
    PROVE  Billed'
<1>1. PICK n \in Invoice :
        /\ n.period = Period /\ invoices' = invoices \cup {n}
        /\ run' = [run EXCEPT !.at = "attaching", !.invoice = n.id]
  BY MadeInvoice
<1>2. /\ run.at = "invoicing" /\ UNCHANGED cycles
      /\ run'.at = "attaching" /\ run'.invoice = n.id /\ run'.cycle = run.cycle
  BY <1>1 DEF MakeInvoice, TypeOK, Run
<1>3. n.period = run.cycle /\ run.cycle \in DOMAIN cycles /\ cycles[run.cycle].invoice = Unbilled
  BY <1>1, <1>2 DEF Period, TypeOK, Billed, OfCycle
<1> QED
  BY <1>1, <1>2, <1>3 DEF Billed, InHand, OfCycle

LEMMA AttachBilled ==
    ASSUME TypeOK, OwnIds, billing_type = "SESSION", Billed, Attach
    PROVE  Billed'
<1>1. run.at = "attaching" /\ UNCHANGED cycles /\ Descend
  BY AttachDescends DEF Attach, Fail
<1>2. /\ run.cycle \in DOMAIN cycles /\ cycles[run.cycle].invoice = Unbilled
  BY <1>1 DEF TypeOK, Billed, OfCycle
<1>3. CASE run.invoice \in Ids
  <2>1. run'.at = "linking" /\ run'.cycle = run.cycle /\ run'.invoice = run.invoice
    BY <1>3 DEF Attach, Go, TypeOK, Run
  <2> QED
    BY <1>1, <1>2, <2>1, BilledKept DEF InHand
<1>4. CASE run.invoice \notin Ids
  <2>1. run' = NoRun /\ UNCHANGED invoices
    BY <1>4 DEF Attach, Fail
  <2>2. \A v \in invoices : ~ InHand(v)
    BY <1>4 DEF InHand, Ids
  <2> QED
    BY <1>1, <2>1, <2>2, BilledKept DEF NoRun, OfCycle
<1> QED
  BY <1>3, <1>4

LEMMA LinkBilled ==
    ASSUME TypeOK, billing_type = "SESSION", Billed, Link
    PROVE  Billed'
<1>1. run.at = "linking" /\ UNCHANGED invoices
  BY DEF Link, Fail
<1>2. /\ run.cycle \in 1 .. Len(cycles) /\ cycles[run.cycle] \in Cycle
      /\ DOMAIN cycles = 1 .. Len(cycles) /\ cycles[run.cycle].invoice = Unbilled
  BY <1>1, CyclesAreRows DEF TypeOK, OfCycle, Billed
<1>3. CASE run.invoice \in Ids
  <2> DEFINE row == [cycles[run.cycle] EXCEPT !.invoice = run.invoice]
  <2>1. row.invoice = run.invoice
    BY <1>2 DEF Cycle
  <2>2. cycles' = [cycles EXCEPT ![run.cycle] = row] /\ run'.at = "appending"
    BY <1>3 DEF Link, Go, TypeOK, Run
  <2>3. /\ DOMAIN cycles' = DOMAIN cycles /\ cycles'[run.cycle].invoice = run.invoice
        /\ \A k \in DOMAIN cycles : k # run.cycle => cycles'[k] = cycles[k]
    BY <1>2, <2>1, <2>2
  <2>4. \A v \in invoices : v.id # Unbilled
    BY DEF TypeOK, Invoice, Unbilled
  <2>5. \A v \in invoices : v.period \in DOMAIN cycles /\ cycles'[v.period].invoice = v.id
    BY <1>2, <2>3, <2>4 DEF Billed, InHand
  <2> QED
    BY <1>1, <2>2, <2>3, <2>5 DEF Billed
<1>4. CASE run.invoice \notin Ids
  <2>1. run' = NoRun /\ UNCHANGED cycles /\ \A v \in invoices : ~ InHand(v)
    BY <1>4 DEF Link, Fail, InHand, Ids
  <2> QED
    BY <1>1, <2>1, UnchangedDescends, BilledKept DEF NoRun, OfCycle
<1> QED
  BY <1>3, <1>4

\* The cycle of another invoice does not name the deleted one.
LEMMA DeleteBilled ==
    ASSUME TypeOK, OwnIds, billing_type = "SESSION", Billed, NEW u \in invoices, Delete(u)
    PROVE  Billed'
<1>1. /\ DOMAIN cycles = 1 .. Len(cycles) /\ \A k \in DOMAIN cycles : cycles[k] \in Cycle
  BY CyclesAreRows
<1>2. DOMAIN cycles' = DOMAIN cycles
      /\ \A k \in DOMAIN cycles : /\ cycles[k].invoice = Unbilled => cycles'[k].invoice = Unbilled
                                  /\ cycles[k].invoice # u.id => cycles'[k] = cycles[k]
  BY DeleteKeepsCounts DEF Delete
<1>3. invoices' = invoices \ {u} /\ UNCHANGED <<run, billing_type>>
  BY DEF Delete
<1>4. \A v \in invoices' : v.id # u.id
  BY <1>3 DEF OwnIds
<1>5. \A v \in invoices' : InHand(v)' <=> InHand(v)
  BY <1>3 DEF InHand
<1>6. run.at \in OfCycle => run.cycle \in DOMAIN cycles
  BY DEF TypeOK
<1> QED
  BY <1>2, <1>3, <1>4, <1>5, <1>6 DEF Billed

LEMMA StepBilled ==
    ASSUME TypeOK, OwnIds, billing_type = "SESSION", Billed, [Next]_vars, Tied'
    PROVE  Billed'
<1>1. CASE Statement
  <2>1. CASE Guard
    BY <2>1 DEF Guard, TypeOK
  <2>2. CASE Find
    BY <2>2, FindBilled
  <2>3. CASE Open
    <3>1. NewCycle(NoDate) \in Cycle /\ NewCycle(NoDate).invoice = Unbilled
      BY NewCycleIsCycle DEF NewCycle
    <3>2. /\ run.at = "opening" /\ UNCHANGED invoices /\ cycles' = Append(cycles, NewCycle(NoDate))
          /\ run'.cycle = Len(cycles) + 1
      BY <2>3 DEF Open, Go, TypeOK, Run
    <3> HIDE DEF NewCycle
    <3> QED
      BY <3>1, <3>2, BilledAppended
  <2>4. CASE Count
    <3>1. run.at = "counting" /\ UNCHANGED <<cycles, invoices>> /\ run'.cycle = run.cycle
      BY <2>4 DEF Count, TypeOK, Run
    <3>2. run.cycle \in DOMAIN cycles /\ cycles[run.cycle].invoice = Unbilled
      BY <3>1 DEF TypeOK, Billed, OfCycle
    <3> QED
      BY <3>1, <3>2, UnchangedDescends, BilledKept DEF InHand
  <2>5. CASE Save
    <3> DEFINE row == [cycles[run.cycle] EXCEPT !.sessions_counted = UpToFull(@ + run.counted),
                         !.last_counted_date = IF NewSessions = {} THEN NoDate ELSE Latest(NewSessions),
                         !.dates = @ \cup run.dates]
    <3>1. run.at = "saving" /\ UNCHANGED invoices /\ run'.cycle = run.cycle
          /\ run'.at \in {"invoicing", "logging"}
      BY <2>5 DEF Save, TypeOK, Run
    <3>2. run.cycle \in 1 .. Len(cycles) /\ cycles[run.cycle] \in Cycle /\ DOMAIN cycles = 1 .. Len(cycles)
      BY <3>1, CyclesAreRows DEF TypeOK, OfCycle
    <3>3. cycles' = [cycles EXCEPT ![run.cycle] = row] /\ row.invoice = cycles[run.cycle].invoice
      BY <2>5, <3>2 DEF Save, Cycle
    <3> HIDE DEF row
    <3>4. /\ DOMAIN cycles' = DOMAIN cycles
          /\ \A k \in DOMAIN cycles : cycles'[k].invoice = cycles[k].invoice
      BY <3>2, <3>3
    <3> QED
      BY <3>1, <3>2, <3>4 DEF Billed, InHand, OfCycle
  <2>6. CASE MakeInvoice
    BY <2>6, MakeInvoiceBilled
  <2>7. CASE Attach
    BY <2>7, AttachBilled
  <2>8. CASE Link
    BY <2>8, LinkBilled
  <2>9. CASE AppendNext
    <3> DEFINE c == NewCycle(cycles[run.cycle].last_counted_date)
    <3>1. run.at = "appending" /\ UNCHANGED invoices
      BY <2>9 DEF AppendNext, Fail
    <3>2. CASE run.cycle = Len(cycles)
      <4>1. run.cycle \in 1 .. Len(cycles) /\ cycles[run.cycle] \in Cycle
        BY <3>1, CyclesAreRows DEF TypeOK, OfCycle
      <4>2. c \in Cycle /\ c.invoice = Unbilled
        BY <4>1, NewCycleIsCycle DEF Cycle, NewCycle
      <4>3. cycles' = Append(cycles, c) /\ run'.at = "logging"
        BY <2>9, <3>2 DEF AppendNext, Go, TypeOK, Run
      <4> HIDE DEF c
      <4> QED
        BY <3>1, <4>2, <4>3, BilledAppended DEF OfCycle
    <3>3. CASE run.cycle # Len(cycles)
      BY <2>9, <3>1, <3>3, UnchangedDescends, BilledKept DEF AppendNext, Fail, NoRun, OfCycle, InHand
    <3> QED
      BY <3>2, <3>3
  <2>10. CASE Log
    BY <2>10, UnchangedDescends, BilledKept DEF Log, NoRun, OfCycle, InHand
  <2> QED
    BY <1>1, <2>1, <2>2, <2>3, <2>4, <2>5, <2>6, <2>7, <2>8, <2>9, <2>10 DEF Statement
<1>2. CASE Begin
  <2>1. run.at = "idle" /\ run'.at = "finding" /\ UNCHANGED <<cycles, invoices>>
    BY <1>2 DEF Begin, NoRun, TypeOK
  <2> QED
    BY <2>1, UnchangedDescends, BilledKept DEF OfCycle, InHand
<1>3. CASE Die
  <2>1. run.at \notin {"attaching", "linking"} /\ run' = NoRun /\ UNCHANGED <<cycles, invoices>>
    BY <1>3 DEF Die, Torn, Tied
  <2> QED
    BY <2>1, UnchangedDescends, BilledKept DEF NoRun, OfCycle, InHand
<1>4. CASE NextDay \/ (\E d \in ClassDays : Mark(d) \/ Unmark(d)) \/ UNCHANGED vars
  <2>1. UNCHANGED <<cycles, invoices, run>>
    BY <1>4 DEF NextDay, Mark, Unmark, vars
  <2> QED
    BY <2>1 DEF Billed, InHand
<1>5. CASE \E v \in invoices : Issue(v)
  <2>1. Descend
    BY <1>5, IssueDescends
  <2>2. UNCHANGED <<cycles, run>>
    BY <1>5 DEF Issue
  <2>3. run.at \in OfCycle \ {"appending"} => run.cycle \in DOMAIN cycles /\ cycles[run.cycle].invoice = Unbilled
    BY DEF TypeOK, Billed
  <2> QED
    BY <2>1, <2>2, <2>3, BilledKept DEF InHand
<1>6. CASE \E v \in invoices : Delete(v)
  BY <1>6, DeleteBilled
<1> QED
  BY <1>1, <1>2, <1>3, <1>4, <1>5, <1>6 DEF Next

-----------------------------------------------------------------------------
(* The months and the days.                                                *)

LEMMA MonthsAscend ==
    ASSUME NEW d \in Day, NEW e \in Day, d <= e
    PROVE  Month(d) \in Nat /\ Month(e) \in Nat /\ Month(d) <= Month(e)
BY RentAssumption DEF Month, Day

LEMMA InvoicesAreRows ==
    ASSUME TypeOK
    PROVE  /\ today \in Nat
           /\ \A v \in invoices : /\ v.period \in Nat /\ v.id \in Nat
                                  /\ v.created_at \in Day /\ v.issued_date \in Day
BY RentAssumption DEF TypeOK, Invoice, Day

\* The guard of a run that is not late sees every invoice of the period.
LEMMA GuardSees ==
    ASSUME TypeOK, billing_type # "SESSION", Scheduled, Dated, Guard, Tied', ~Charged
    PROVE  \A v \in invoices : v.period # PeriodOf(run.today)
<1>1. run.at = "guarding" /\ run.today = today /\ today \in Day
  BY DEF Guard, Tied, TypeOK
<1> SUFFICES ASSUME NEW v \in invoices, v.period = PeriodOf(today) PROVE FALSE
  BY <1>1
<1>2. v.schedule /\ InTime(v) /\ v.created_at \in Day /\ v.period \in Nat
  BY <1>1, InvoicesAreRows DEF Scheduled, Dated
<1>3. CASE billing_type = "MONTHLY"
  <2>1. v.created_at <= today /\ v.period <= Month(v.created_at) /\ v.period = Month(today)
    BY <1>2, <1>3 DEF InTime, PeriodOf
  <2>2. Month(v.created_at) = Month(today)
    BY <1>1, <1>2, <2>1, MonthsAscend
  <2> QED
    BY <1>1, <1>2, <1>3, <2>2 DEF Charged
<1>4. CASE billing_type # "MONTHLY"
  <2>1. v.issued_date = today
    BY <1>2, <1>4 DEF InTime, PeriodOf
  <2> QED
    BY <1>1, <1>2, <1>4, <2>1 DEF Charged
<1> QED
  BY <1>3, <1>4

LEMMA MakeInvoiceDated ==
    ASSUME TypeOK, billing_type # "SESSION", Dated, MakeInvoice
    PROVE  Dated'
<1>1. PICK n \in Invoice :
        /\ n.period = Period /\ n.created_at = today /\ n.issued_date = run.today
        /\ invoices' = invoices \cup {n}
        /\ run' = [run EXCEPT !.at = "attaching", !.invoice = n.id]
  BY MadeInvoice
<1>2. run.at = "invoicing" /\ UNCHANGED <<billing_type, today>> /\ run'.at = "attaching"
  BY <1>1 DEF MakeInvoice, TypeOK, Run
<1>3. run.today \in Day /\ today \in Day /\ run.today <= today
  BY <1>2 DEF TypeOK, Dated
<1>4. n.period = PeriodOf(run.today)
  BY <1>1 DEF Period, PeriodOf, TypeOK, BillingType
<1>5. InTime(n)
  <2>1. CASE billing_type = "MONTHLY"
    <3>1. n.created_at = today /\ n.period = Month(run.today) /\ today <= today
      BY <1>1, <1>3, <1>4, <2>1, RentAssumption DEF PeriodOf, Day
    <3> QED
      BY <1>3, <2>1, <3>1, MonthsAscend DEF InTime
  <2>2. CASE billing_type # "MONTHLY"
    BY <1>1, <1>3, <1>4, <2>2 DEF InTime, PeriodOf
  <2> QED
    BY <2>1, <2>2
<1>6. \A v \in invoices : v.period # n.period
  BY <1>2, <1>4 DEF Dated
<1>7. \A v \in invoices' : InTime(v)'
  BY <1>1, <1>2, <1>5 DEF Dated, InTime
<1> QED
  BY <1>1, <1>2, <1>6, <1>7 DEF Dated

LEMMA StepInTime ==
    ASSUME TypeOK, \A v \in invoices : InTime(v), Descend, UNCHANGED billing_type,
           today' \in {today, today + 1}, today' # today => UNCHANGED invoices
    PROVE  \A w \in invoices' : InTime(w)'
<1> SUFFICES ASSUME NEW w \in invoices' PROVE InTime(w)'
  OBVIOUS
<1>1. CASE today' = today
  <2>1. PICK v \in invoices :
          /\ w.period = v.period /\ w.created_at = v.created_at
          /\ w.issued_date \in {v.issued_date, today}
    BY DEF Descend
  <2> QED
    BY <1>1, <2>1 DEF InTime
<1>2. CASE today' # today
  <2>1. w \in invoices /\ InTime(w) /\ today' = today + 1
    BY <1>2
  <2>2. w.period \in Nat /\ w.created_at \in Nat /\ today \in Nat
    BY <2>1, InvoicesAreRows, RentAssumption DEF Day
  <2>3. CASE billing_type = "MONTHLY"
    <3>1. w.created_at <= today + 1
      BY <2>1, <2>2, <2>3 DEF InTime
    <3> QED
      BY <2>1, <2>3, <3>1 DEF InTime, Month
  <2>4. CASE billing_type # "MONTHLY"
    <3>1. w.period <= today
      BY <2>1, <2>4 DEF InTime
    <3>2. w.period <= today + 1 /\ w.period # today + 1
      BY <2>2, <3>1
    <3> QED
      BY <2>1, <2>4, <3>2 DEF InTime
  <2> QED
    BY <2>3, <2>4
<1> QED
  BY <1>1, <1>2

\* The statements of a run for a month or a day that begin none and charge nothing.
LEMMA EndsOrStays ==
    ASSUME TypeOK, billing_type # "SESSION", [Next]_vars, ~Begin, ~Guard, ~MakeInvoice
    PROVE  UNCHANGED run \/ run'.at \in {"idle", "logging"}
<1>1. CASE Attach
  BY <1>1 DEF Attach, Fail, NoRun, Go, TypeOK, Run
<1>2. CASE Log \/ Die
  BY <1>2 DEF Log, Die, NoRun
<1>3. ~Find /\ ~Open /\ ~Count /\ ~Save /\ ~Link /\ ~AppendNext
  BY DEF TypeOK, Find, Open, Count, Save, Link, AppendNext
<1>4. CASE ~Attach /\ ~Log /\ ~Die
  BY <1>3, <1>4 DEF Next, vars, Statement, NextDay, Mark, Unmark, Issue, Delete
<1> QED
  BY <1>1, <1>2, <1>4

LEMMA StepDated ==
    ASSUME TypeOK, OwnIds, billing_type # "SESSION", Scheduled, Dated, [Next]_vars, Tied'
    PROVE  Dated'
<1>1. CASE MakeInvoice
  BY <1>1, MakeInvoiceDated
<1>2. CASE ~MakeInvoice
  <2>1. Descend /\ OwnIds'
    BY <1>2, StepIds
  <2>2. \A w, x \in invoices' : w.period = x.period => w = x
    BY <2>1 DEF Descend, OwnIds, Dated
  <2>3. UNCHANGED billing_type /\ today' \in {today, today + 1} /\ (today' # today => NextDay)
    BY DEF Next, vars, Statement, Begin, Guard, Find, Open, Count, Save, MakeInvoice, Attach, Link,
           AppendNext, Log, Die, NextDay, Mark, Unmark, Issue, Delete
  <2>4. \A w \in invoices' : InTime(w)'
    BY <2>1, <2>3, StepInTime DEF NextDay, Dated
  <2>5. run'.at \in {"guarding", "invoicing"} => run'.today <= today'
    <3>1. today \in Nat /\ today <= today /\ \A d \in Nat : d <= today => d <= today + 1
      BY RentAssumption DEF TypeOK, Day
    <3>2. CASE Begin
      BY <3>1, <3>2 DEF Begin, NoRun
    <3>3. CASE Guard
      <4>1. run'.today = run.today /\ run.at = "guarding" /\ today' = today
        BY <3>3 DEF Guard, Go, TypeOK, Run
      <4> QED
        BY <4>1 DEF Dated
    <3>4. CASE NextDay
      <4>1. UNCHANGED run /\ today' = today + 1
        BY <3>4 DEF NextDay
      <4>2. run.at \in {"guarding", "invoicing"} => run.today \in Nat
        BY RentAssumption DEF TypeOK, Day
      <4> QED
        BY <3>1, <4>1, <4>2 DEF Dated
    <3>5. CASE ~Begin /\ ~Guard /\ ~NextDay
      <4>1. today' = today
        BY <2>3, <3>5
      <4>2. UNCHANGED run \/ run'.at \in {"idle", "logging"}
        BY <1>2, <3>5, EndsOrStays
      <4> QED
        BY <4>1, <4>2 DEF Dated
    <3> QED
      BY <3>2, <3>3, <3>4, <3>5
  <2>6. run'.at = "invoicing" => \A w \in invoices' : w.period # PeriodOf(run.today)'
    <3> SUFFICES ASSUME run'.at = "invoicing" PROVE \A w \in invoices' : w.period # PeriodOf(run.today)'
      OBVIOUS
    <3>1. CASE Guard
      <4>1. run'.today = run.today /\ ~Charged /\ UNCHANGED <<billing_type, invoices>>
        BY <3>1 DEF Guard, Go, TypeOK, Run
      <4>2. \A v \in invoices : v.period # PeriodOf(run.today)
        BY <3>1, <4>1, GuardSees
      <4> QED
        BY <4>1, <4>2 DEF PeriodOf
    <3>2. CASE ~Guard
      <4>1. UNCHANGED <<run, billing_type>>
        <5>1. ~Begin
          BY DEF Begin, NoRun
        <5> QED
          BY <1>2, <2>3, <3>2, <5>1, EndsOrStays DEF NextDay
      <4>2. \A v \in invoices : v.period # PeriodOf(run.today)
        BY <4>1 DEF Dated
      <4> QED
        BY <2>1, <4>1, <4>2 DEF PeriodOf, Descend
    <3> QED
      BY <3>1, <3>2
  <2> QED
    BY <2>2, <2>4, <2>5, <2>6 DEF Dated
<1> QED
  BY <1>1, <1>2

LEMMA InitPeriods == Init => PInv
<1> SUFFICES ASSUME Init PROVE PInv
  OBVIOUS
<1>1. TypeOK
  BY InitTypes
<1>2. OwnIds /\ Scheduled /\ Billed /\ Dated
  BY DEF Init, NoRun, OwnIds, Scheduled, Billed, Dated, OfCycle
<1> QED
  BY <1>1, <1>2 DEF PInv, ByType

LEMMA StepPeriods == PInv /\ [Next]_vars => PInv'
<1> SUFFICES ASSUME PInv, [Next]_vars PROVE PInv'
  OBVIOUS
<1>1. TypeOK /\ OwnIds /\ TypeOK' /\ OwnIds'
  BY StepTypes, StepIds DEF PInv
<1>2. UNCHANGED billing_type
  BY TypeStays
<1>3. ASSUME Tied' PROVE Scheduled' /\ ByType'
  <2>1. Scheduled /\ ByType
    BY <1>3, TiedStays DEF PInv
  <2>2. Scheduled'
    BY <1>1, <1>3, <2>1, StepScheduled
  <2>3. CASE billing_type = "SESSION"
    <3>1. Billed
      BY <2>1, <2>3 DEF ByType
    <3>2. Billed'
      BY <1>1, <1>3, <2>3, <3>1, StepBilled
    <3> QED
      BY <1>2, <2>2, <2>3, <3>2 DEF ByType
  <2>4. CASE billing_type # "SESSION"
    <3>1. Dated
      BY <2>1, <2>4 DEF ByType
    <3>2. Dated'
      BY <1>1, <1>3, <2>1, <2>4, <3>1, StepDated
    <3> QED
      BY <1>2, <2>2, <2>4, <3>2 DEF ByType
  <2> QED
    BY <2>2, <2>3, <2>4
<1> QED
  BY <1>1, <1>3 DEF PInv

LEMMA PeriodsSeparate == PInv => PeriodsChargedOnce
<1> SUFFICES ASSUME TypeOK, OwnIds, ByType, NEW v \in invoices, NEW w \in invoices, v.period = w.period
             PROVE  v = w
  BY DEF PInv, Tied, PeriodsChargedOnce
<1>1. CASE billing_type = "SESSION"
  <2>1. Billed /\ v.id # Unbilled /\ w.id # Unbilled
    BY <1>1 DEF ByType, TypeOK, Invoice, Unbilled
  <2>2. run.at \in {"attaching", "linking"} => cycles[run.cycle].invoice = Unbilled
    BY <2>1 DEF Billed, OfCycle
  <2>3. v.id = w.id
    BY <2>1, <2>2 DEF Billed, InHand
  <2> QED
    BY <2>3 DEF OwnIds
<1>2. CASE billing_type # "SESSION"
  BY <1>2 DEF ByType, Dated
<1> QED
  BY <1>1, <1>2

(* PeriodsChargedOnce: the guard of the month and of the day, and the cycle *)
(* that names its invoice, let no period have two invoices, in whatever     *)
(* order runs, issues and deletions come: but for deaths between the        *)
(* invoice and what ties it, and a guard that looks after midnight.         *)
THEOREM PeriodsOnce == Spec => []PeriodsChargedOnce
BY InitPeriods, StepPeriods, PeriodsSeparate, PTL DEF Spec
=============================================================================
