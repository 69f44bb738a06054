--------------------------- MODULE SessionBilling ---------------------------
(***************************************************************************)
(* One SESSION_BASED invoice schedule of an academy: the attendance of the *)
(* students of its class, their billing cycles (StudentInvoiceCycle), the  *)
(* draft invoices the evaluator generates and the log of its runs.         *)
(*                                                                         *)
(* evaluate_session_schedules handles one schedule in one database         *)
(* transaction, so an evaluation is one step here; two evaluations that    *)
(* overlap are the subject of BillingRace.  Everything an evaluation reads *)
(* can change between two of them: attendance is marked, corrected,        *)
(* backdated and deleted, students join and leave the class, parents come  *)
(* and go, invoices are deleted and the schedule itself is edited.         *)
(***************************************************************************)
EXTENDS Integers, Sequences, FiniteSets, Largest

CONSTANTS
    Student,      \* the students of the academy
    Parent,       \* the parents invoices are addressed to
    NoParent,     \* Student.parent is NULL
    NoInvoice,    \* StudentInvoiceCycle.invoice is NULL
    LastDate,     \* the dates of sessions are 1 .. LastDate
    Schedules,    \* the settings an administrator may give the schedule
    Guardians,    \* the values Student.parent takes: parents, perhaps NoParent
    Marks,        \* the register entries considered
    MaxCycles,    \* bound on the number of cycles of one student
    MaxBatch      \* bound on the numbering of invoices

Date   == 1 .. LastDate
NoDate == 0                         \* last_counted_date is NULL
Timing == {"AUTO", "START_OF_PERIOD", "ON_COMPLETION"}

Schedule == [invoice_creation_timing : Timing,
             sessions_per_cycle      : Nat \ {0},
             bill_absent_sessions    : BOOLEAN,
             cycle_start_date        : Date,
             is_active               : BOOLEAN]

\* An invoice of this schedule: the call of generate_invoices_for_schedule
\* that made it, the parent it is for and the students with a line on it.
Invoice == [batch : Nat \ {0}, parent : Parent, lines : SUBSET Student]

\* A row of tenant_student_invoice_cycles.  The code keeps only the number of
\* sessions it counted; "dates" also remembers which ones.
Cycle == [sessions_counted  : Nat,
          last_counted_date : Date \cup {NoDate},
          invoice           : Invoice \cup {NoInvoice},
          dates             : SUBSET Date]

Run == [status : {"NONE", "SUCCEEDED", "FAILED"}, invoices_created : Nat]

ASSUME ConstantsAssumption ==
    /\ LastDate \in Nat
    /\ MaxCycles \in Nat /\ MaxBatch \in Nat
    /\ IsFiniteSet(Student)
    /\ NoParent \notin Parent
    /\ NoInvoice \notin Invoice
    /\ Schedules \subseteq Schedule
    /\ Guardians \subseteq Parent \cup {NoParent}
    /\ Marks \subseteq {"UNMARKED", "PRESENT", "ABSENT"} /\ "UNMARKED" \in Marks

VARIABLES
    schedule,     \* the InvoiceSchedule row
    enrolled,     \* students with an ENROLLED enrollment in the class
    parentOf,     \* Student.parent
    attendance,   \* the class register: a mark per student and date
    cycles,       \* per student, the cycles in order of cycle_number
    invoices,     \* the invoices of this schedule that exist
    lastRun       \* the newest InvoiceScheduleRun row

vars == <<schedule, enrolled, parentOf, attendance, cycles, invoices, lastRun>>

-----------------------------------------------------------------------------
(* The evaluator, read student by student.                                 *)

\* resolve_effective_invoice_creation_timing: AUTO means ON_COMPLETION here.
AtStart == schedule.invoice_creation_timing = "START_OF_PERIOD"

IsOpen(c) == IF AtStart THEN c.sessions_counted < schedule.sessions_per_cycle
                        ELSE c.invoice = NoInvoice

OpenCycles(s) == {k \in DOMAIN cycles[s] : IsOpen(cycles[s][k])}

NewCycle(last) == [sessions_counted |-> 0, last_counted_date |-> last,
                   invoice |-> NoInvoice, dates |-> {}]

CurrentEarliest(s) ==   \* mutant: order_by("cycle_number")
    IF OpenCycles(s) = {} THEN Len(cycles[s]) + 1
    ELSE CHOOSE k \in OpenCycles(s) : \A j \in OpenCycles(s) : k <= j
\* The number of the cycle an evaluation works on, and that cycle's row: the
\* latest open one, else a new one after the latest of all.
Current(s) == IF OpenCycles(s) = {} THEN Len(cycles[s]) + 1
                                    ELSE Latest(OpenCycles(s))
CurrentCycle(s) == IF OpenCycles(s) = {} THEN NewCycle(NoDate)
                                         ELSE cycles[s][Current(s)]

Billable(mark) == \/ mark = "PRESENT"
                  \/ mark = "ABSENT" /\ schedule.bill_absent_sessions

UncountedFromLast(s) ==   \* mutant: date__gte=last_counted_date
    {d \in Date : /\ Billable(attendance[s][d])
                  /\ d >= schedule.cycle_start_date
                  /\ d >= CurrentCycle(s).last_counted_date}

\* The sessions the attendance query adds to the current cycle.
Uncounted(s) ==
    {d \in Date : /\ Billable(attendance[s][d])
                  /\ d >= schedule.cycle_start_date
                  /\ d > CurrentCycle(s).last_counted_date}

CountedAfresh(s) ==   \* mutant: sessions_counted = additional_sessions
    LET c == CurrentCycle(s) IN
    IF Uncounted(s) = {} THEN c
    ELSE [c EXCEPT !.sessions_counted  = Cardinality(Uncounted(s)),
                   !.last_counted_date = Latest(Uncounted(s)),
                   !.dates             = @ \cup Uncounted(s)]

CountedToday(s) ==   \* mutant: last_counted_date is set to the day after
    LET c == CurrentCycle(s) IN
    IF Uncounted(s) = {} THEN c
    ELSE [c EXCEPT !.sessions_counted  = @ + Cardinality(Uncounted(s)),
                   !.last_counted_date = Latest(Uncounted(s)) + 1,
                   !.dates             = @ \cup Uncounted(s)]

Counted(s) ==
    LET c == CurrentCycle(s) IN
    IF Uncounted(s) = {} THEN c
    ELSE [c EXCEPT !.sessions_counted  = @ + Cardinality(Uncounted(s)),
                   !.last_counted_date = Latest(Uncounted(s)),
                   !.dates             = @ \cup Uncounted(s)]

Qualifies(s) == Counted(s).sessions_counted >= schedule.sessions_per_cycle

FollowingFromScratch(s) ==   \* mutant: the next cycle does not take last_counted_date over
    LET k == Current(s)
    IN  IF k + 1 \notin DOMAIN cycles[s] THEN NewCycle(NoDate) ELSE cycles[s][k + 1]

\* The row a closed cycle is followed by: a fresh one that starts counting
\* where the closed one stopped, or the row that is already there.
Following(s) ==
    LET k    == Current(s)
        last == Counted(s).last_counted_date
    IN  IF k + 1 \notin DOMAIN cycles[s] THEN NewCycle(last)
        ELSE IF cycles[s][k + 1].sessions_counted = 0
             THEN [cycles[s][k + 1] EXCEPT !.last_counted_date = last]
             ELSE cycles[s][k + 1]

-----------------------------------------------------------------------------
(* Invoices.  One call of generate_invoices_for_schedule makes one invoice *)
(* for each parent, with a line for each of the parent's students in the   *)
(* call.  An evaluation makes at most two calls: for the cycles it is      *)
(* working on, then (START_OF_PERIOD) for the cycles it opens.             *)

Qualifying == {s \in enrolled : Qualifies(s)}

FirstCall  == IF AtStart THEN {s \in enrolled : CurrentCycle(s).invoice = NoInvoice}
                         ELSE Qualifying
SecondCall == IF AtStart THEN {s \in Qualifying : Following(s).invoice = NoInvoice}
                         ELSE {}

\* Like its invoice_number, the batch of an invoice follows the largest one
\* that exists.
LastBatch == IF invoices = {} THEN 0 ELSE Latest({v.batch : v \in invoices})

InvoiceFor(s, call, batch) ==
    [batch  |-> batch,
     parent |-> parentOf[s],
     lines  |-> {t \in call : parentOf[t] = parentOf[s]}]

InvoicesOf(call, batch) == {InvoiceFor(s, call, batch) : s \in call}
Created == InvoicesOf(FirstCall, LastBatch + 1) \cup InvoicesOf(SecondCall, LastBatch + 2)

PutCycle(seq, k, c) == IF k = Len(seq) + 1 THEN Append(seq, c)
                                           ELSE [seq EXCEPT ![k] = c]

Linked(c, s, call, batch) ==
    IF s \in call THEN [c EXCEPT !.invoice = InvoiceFor(s, call, batch)] ELSE c

EvaluatedNotReopened(s) ==   \* mutant: the next cycle is not opened
    PutCycle(cycles[s], Current(s), Linked(Counted(s), s, FirstCall, LastBatch + 1))

\* The cycles of an enrolled student when the transaction commits.
Evaluated(s) ==
    LET k    == Current(s)
        now  == PutCycle(cycles[s], k, Linked(Counted(s), s, FirstCall, LastBatch + 1))
        next == Linked(Following(s), s, SecondCall, LastBatch + 2)
    IN  IF Qualifies(s) THEN PutCycle(now, k + 1, next) ELSE now

\* The ways the transaction can raise, in the order they come up.
ParentMissing(call) == \E s \in call : parentOf[s] = NoParent
NextAlreadyInvoiced ==
    /\ ~AtStart
    /\ \E s \in Qualifying : Following(s).invoice # NoInvoice

-----------------------------------------------------------------------------
(* Steps                                                                   *)

\* evaluate_session_schedules for this schedule: the transaction commits.
EvaluateSucceeds ==
    /\ schedule.is_active
    /\ ~ParentMissing(FirstCall) /\ ~NextAlreadyInvoiced /\ ~ParentMissing(SecondCall)
    /\ \A s \in enrolled : Len(Evaluated(s)) <= MaxCycles
    /\ \A v \in Created : v.batch <= MaxBatch
    /\ cycles' = [s \in Student |-> IF s \in enrolled THEN Evaluated(s) ELSE cycles[s]]
    /\ invoices' = invoices \cup Created
    /\ lastRun' = [status |-> "SUCCEEDED", invoices_created |-> Cardinality(Created)]
    /\ UNCHANGED <<schedule, enrolled, parentOf, attendance>>

\* It raises and rolls back; invoices_created keeps what it had been counting.
EvaluateFails ==
    /\ schedule.is_active
    /\ \/ /\ ParentMissing(FirstCall)
          /\ lastRun' = [status |-> "FAILED", invoices_created |-> 0]
       \/ /\ ~ParentMissing(FirstCall)
          /\ NextAlreadyInvoiced \/ ParentMissing(SecondCall)
          /\ lastRun' = [status |-> "FAILED", invoices_created |->
                            Cardinality(InvoicesOf(FirstCall, LastBatch + 1))]
    /\ UNCHANGED <<schedule, enrolled, parentOf, attendance, cycles, invoices>>

\* AttendanceService.mark_attendance, and update and delete of a record: any
\* date may be marked at any time, a mark may be corrected or deleted.
SetAttendance(s, d, mark) ==
    /\ attendance[s][d] # mark
    /\ attendance' = [attendance EXCEPT ![s][d] = mark]
    /\ UNCHANGED <<schedule, enrolled, parentOf, cycles, invoices, lastRun>>

\* The student's enrollment becomes ENROLLED, or stops being so.
Enroll(s) ==
    /\ s \notin enrolled
    /\ enrolled' = enrolled \cup {s}
    /\ UNCHANGED <<schedule, parentOf, attendance, cycles, invoices, lastRun>>

Leave(s) ==
    /\ s \in enrolled
    /\ enrolled' = enrolled \ {s}
    /\ UNCHANGED <<schedule, parentOf, attendance, cycles, invoices, lastRun>>

SetParent(s, p) ==
    /\ parentOf[s] # p
    /\ parentOf' = [parentOf EXCEPT ![s] = p]
    /\ UNCHANGED <<schedule, enrolled, attendance, cycles, invoices, lastRun>>

UnlinkNothing(c, v) == c   \* mutant: on_delete=DO_NOTHING

\* Deleting an invoice sets the cycles' links to it to NULL (on_delete=SET_NULL).
Unlink(c, v) == IF c.invoice = v THEN [c EXCEPT !.invoice = NoInvoice] ELSE c

DeleteInvoice(v) ==
    /\ v \in invoices
    /\ invoices' = invoices \ {v}
    /\ cycles' = [s \in Student |-> [k \in DOMAIN cycles[s] |-> Unlink(cycles[s][k], v)]]
    /\ UNCHANGED <<schedule, enrolled, parentOf, attendance, lastRun>>

\* An administrator saves other settings (PATCH, toggle_active).
EditSchedule(new) ==
    /\ schedule # new
    /\ schedule' = new
    /\ UNCHANGED <<enrolled, parentOf, attendance, cycles, invoices, lastRun>>

Init ==
    /\ schedule \in Schedules
    /\ enrolled = {}
    /\ parentOf \in [Student -> Guardians]
    /\ attendance = [s \in Student |-> [d \in Date |-> "UNMARKED"]]
    /\ cycles = [s \in Student |-> <<>>]
    /\ invoices = {}
    /\ lastRun = [status |-> "NONE", invoices_created |-> 0]

Operate ==
    \/ EvaluateSucceeds
    \/ EvaluateFails
    \/ \E s \in Student, d \in Date, mark \in Marks : SetAttendance(s, d, mark)
    \/ \E s \in Student : Enroll(s) \/ Leave(s)
    \/ \E s \in Student, p \in Guardians : SetParent(s, p)
    \/ \E v \in invoices : DeleteInvoice(v)

Next == Operate \/ \E new \in Schedules : EditSchedule(new)
Spec == Init /\ [][Next]_vars

\* The last cycle of every student is open.  It is what the evaluator relies on
\* to go on counting where it stopped.
LastCycleOpen ==
    \A s \in Student : cycles[s] # <<>> => IsOpen(cycles[s][Len(cycles[s])])

\* The same system under an administrator who changes settings only when they
\* leave the last cycle of every student open.  The code does not ask for it.
CarefulEdit(new) == EditSchedule(new) /\ LastCycleOpen'
CarefulNext == Operate \/ \E new \in Schedules : CarefulEdit(new)
CarefulSpec == Init /\ [][CarefulNext]_vars
EvaluatesDaily == WF_vars(EvaluateSucceeds \/ EvaluateFails)
FairSpec == CarefulSpec /\ EvaluatesDaily
-----------------------------------------------------------------------------
(* Properties                                                              *)

TypeOK ==
    /\ schedule \in Schedules
    /\ enrolled \in SUBSET Student
    /\ parentOf \in [Student -> Guardians]
    /\ attendance \in [Student -> [Date -> Marks]]
    /\ cycles \in [Student -> Seq(Cycle)]
    /\ invoices \in SUBSET Invoice
    /\ lastRun \in Run

\* No session of a student is counted in two billing cycles, whatever is marked
\* late, corrected, deleted or invoiced in between: last_counted_date is handed
\* from a closed cycle to the next one and never falls behind.
NoSessionCountedTwice ==
    \A s \in Student : \A j, k \in DOMAIN cycles[s] :
        j # k => cycles[s][j].dates \cap cycles[s][k].dates = {}

\* The counter of a cycle is the number of different sessions it has counted,
\* over any number of evaluations.
CountersExact ==
    \A s \in Student : \A k \in DOMAIN cycles[s] :
        cycles[s][k].sessions_counted = Cardinality(cycles[s][k].dates)

\* The lines of the schedule's invoices and its cycles match one to one: a cycle
\* links to an existing invoice with a line for its student, and every line of
\* every invoice is accounted for by exactly one cycle of that student.
LinesMatchCycles ==
    /\ \A s \in Student : \A k \in DOMAIN cycles[s] :
          cycles[s][k].invoice # NoInvoice =>
              /\ cycles[s][k].invoice \in invoices
              /\ s \in cycles[s][k].invoice.lines
    /\ \A v \in invoices : \A s \in v.lines :
          /\ \E k \in DOMAIN cycles[s] : cycles[s][k].invoice = v
          /\ \A j, k \in DOMAIN cycles[s] :
                cycles[s][j].invoice = v /\ cycles[s][k].invoice = v => j = k

\* A cycle that has been followed by another one never counts again: later
\* evaluations only touch the last cycle of a student.
ClosedCyclesFrozen ==
    [][\A s \in Student : \A k \in DOMAIN cycles[s] :
          k < Len(cycles[s]) =>
              /\ cycles'[s][k].dates = cycles[s][k].dates
              /\ cycles'[s][k].sessions_counted = cycles[s][k].sessions_counted]_vars

\* Running the evaluator again straight after a successful run finds nothing
\* left to count and nobody left to invoice.
RerunFindsNothing ==
    [][EvaluateSucceeds => /\ FirstCall' = {} /\ SecondCall' = {}
                           /\ \A s \in enrolled : Uncounted(s)' = {}]_vars

\* A student in the class whose cycle is full does not wait for ever: daily
\* evaluations invoice the cycle (or the student leaves, the marks are taken
\* back, the settings change).  While one student of the class has no parent,
\* though, nobody in it is invoiced.
Due(s) == /\ s \in enrolled /\ schedule.is_active /\ Qualifies(s)
          /\ \A t \in enrolled : parentOf[t] # NoParent
DueIsInvoiced == \A s \in Student : Due(s) ~> ~Due(s)
=============================================================================
