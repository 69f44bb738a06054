------------------------------ MODULE StaffPay -------------------------------
(***************************************************************************)
(* evaluate_session_pay_schedules: the runs of one SESSION pay schedule of *)
(* a coach.  The nightly task and the "run" button hand the schedule to    *)
(* different workers, at the same time if it so happens.  A run is one     *)
(* transaction at READ COMMITTED.  It locks the cycle it works on: a       *)
(* SELECT ... FOR UPDATE that finds the row locked waits, and looks at it  *)
(* again afterwards; a row that is no longer without an invoice is skipped, *)
(* but no row that has come since is found.  (PostgreSQL keeps the skipped  *)
(* row locked, which only a deletion would notice; the model lets it go.)   *)
(* The number of a staff invoice is unique: two runs that are to make one   *)
(* at the same time pick the same number, and the second waits for the     *)
(* first, which may be waiting for it.                                     *)
(***************************************************************************)
EXTENDS Integers, Sequences, FiniteSets, Largest

CONSTANTS
    Worker,             \* the processes that run evaluations
    LastDate,           \* the dates of sessions are 1 .. LastDate
    SessionsPerCycle    \* schedule.sessions_per_cycle

ASSUME PayAssumption ==
    /\ LastDate \in Nat
    /\ SessionsPerCycle \in Nat \ {0}

Date     == 1 .. LastDate
NoDate   == 0
Unbilled == 0
Cycle    == [sessions_counted : Nat, last_counted_date : Date \cup {NoDate}, invoice : Nat,
             dates : SUBSET Date]    \* dates: the sessions the counter stands for

VARIABLES
    present,    \* the dates the coach is marked PRESENT
    cycles,     \* the committed cycles, in order of cycle_number
    run,        \* run[w]: the transaction of worker w
    overtaken   \* history: a cycle has come between a run's query for the open one
                \* and what it made of the answer

vars == <<present, cycles, run, overtaken>>

NewCycle(last) ==
    [sessions_counted |-> 0, last_counted_date |-> last, invoice |-> Unbilled, dates |-> {}]

\* at: the next statement; seen: the open cycles of the query that locks one;
\* number, row: the cycle it works on; delta: how many sessions it has counted;
\* invoice: the number of the invoice it is to make.
NoRun == [at |-> "idle", seen |-> {}, number |-> 0, row |-> NewCycle(NoDate), delta |-> {},
          invoice |-> Unbilled]

Billed(c) == c.invoice # Unbilled
Open(k)   == ~Billed(cycles[k])
Numbers   == {cycles[k].invoice : k \in DOMAIN cycles} \ {Unbilled}

\* The cycle_numbers whose rows a run has locked, and of those it has written.
HeldBy(x) ==
    CASE x.at \in {"counting", "saving", "drafting", "invoicing", "appending"} -> {x.number}
      [] x.at = "committing" -> {x.number} \cup (IF Billed(x.row) THEN {x.number + 1} ELSE {})
      [] OTHER -> {}
WrittenBy(x) == {k \in HeldBy(x) : k \notin DOMAIN cycles \/ cycles[k] # x.row}

\* A SELECT ... FOR UPDATE waits for the run that has the row locked, an
\* insertion for one that has written a row of that number.
WaitsFor(w) ==
    LET x == run[w] IN
    {q \in Worker \ {w} :
        \/ x.at = "locking" /\ x.seen # {} /\ Latest(x.seen) \in HeldBy(run[q])
        \/ x.at = "creating" /\ x.number \in WrittenBy(run[q])
        \/ x.at = "invoicing" /\ x.invoice = run[q].row.invoice
        \/ x.at = "appending" /\ x.number + 1 \in WrittenBy(run[q])}

-----------------------------------------------------------------------------
(* The statements of a run.                                                 *)

\* SELECT ... WHERE invoice IS NULL ORDER BY cycle_number DESC LIMIT 1 FOR UPDATE
Find(w) ==
    /\ run[w].at = "idle"
    /\ run' = [run EXCEPT ![w].at = "locking", ![w].seen = {k \in DOMAIN cycles : Open(k)}]
    /\ UNCHANGED <<present, cycles, overtaken>>

LockUnread(w) ==    \* without FOR UPDATE: the row as it stands, whoever works on it
    LET k == Latest(run[w].seen) IN
    /\ run[w].at = "locking"
    /\ IF run[w].seen = {} THEN run' = [run EXCEPT ![w].at = "numbering"]
       ELSE run' = [run EXCEPT ![w].at = "counting", ![w].number = k, ![w].row = cycles[k]]
    /\ UNCHANGED <<present, cycles, overtaken>>

Lock(w) ==
    LET k == Latest(run[w].seen) IN
    /\ run[w].at = "locking"
    /\ WaitsFor(w) = {}
    /\ run' = IF run[w].seen = {} THEN [run EXCEPT ![w].at = "numbering"]
              ELSE IF Open(k)
                   THEN [run EXCEPT ![w].at = "counting", ![w].number = k, ![w].row = cycles[k]]
                   ELSE [run EXCEPT ![w].seen = @ \ {k}]
    /\ UNCHANGED <<present, cycles, overtaken>>

\* latest_cycle, and the number after it.
Number(w) ==
    /\ run[w].at = "numbering"
    /\ run' = [run EXCEPT ![w].at = "creating", ![w].number = Len(cycles) + 1]
    /\ UNCHANGED <<present, cycles, overtaken>>

InsertsAgain(w, taken, then) ==    \* tries the number that is taken again and again
    /\ WaitsFor(w) = {} /\ ~taken
    /\ run' = [run EXCEPT ![w] = then]
    /\ UNCHANGED <<present, cycles, overtaken>>

\* Inserting a row with a unique number: it waits for another run that inserts
\* the same, and fails if the number has been committed.
Inserts(w, taken, then) ==
    /\ WaitsFor(w) = {}
    /\ run' = [run EXCEPT ![w] = IF taken THEN NoRun ELSE then]
    /\ UNCHANGED <<present, cycles, overtaken>>

Create(w) ==
    /\ run[w].at = "creating"
    /\ Inserts(w, run[w].number \in DOMAIN cycles,
               [run[w] EXCEPT !.at = "counting", !.row = NewCycle(NoDate)])

Uncounted(row) == {d \in present : d > row.last_counted_date}

\* delta_qs.count()
Count(w) ==
    /\ run[w].at = "counting"
    /\ run' = [run EXCEPT ![w].at = "saving", ![w].delta = Uncounted(run[w].row)]
    /\ UNCHANGED <<present, cycles, overtaken>>

CountedToday(row, delta) ==    \* the date of the run in place of the last session's
    IF delta = {} THEN row
    ELSE [row EXCEPT !.sessions_counted = @ + Cardinality(delta),
                     !.last_counted_date = LastDate + 1,
                     !.dates = @ \cup delta]

Counted(row, delta) ==
    IF delta = {} THEN row
    ELSE [row EXCEPT !.sessions_counted = @ + Cardinality(delta),
                     !.last_counted_date = Latest(Uncounted(row)),
                     !.dates = @ \cup delta]

\* delta_qs.aggregate(Max("date")) is a second query: a session marked in
\* between is passed over.
Save(w) ==
    LET row == Counted(run[w].row, run[w].delta) IN
    /\ run[w].at = "saving"
    /\ run' = [run EXCEPT ![w].row = row, ![w].delta = {},
                          ![w].at = IF row.sessions_counted >= SessionsPerCycle
                                    THEN "drafting" ELSE "committing"]
    /\ UNCHANGED <<present, cycles, overtaken>>

\* generate_staff_invoice_number: the number after the last that is committed.
Draft(w) ==
    /\ run[w].at = "drafting"
    /\ run' = [run EXCEPT ![w].at = "invoicing", ![w].invoice = Latest({0} \cup Numbers) + 1]
    /\ UNCHANGED <<present, cycles, overtaken>>

\* StaffInvoice.objects.create, and the link to it.
Invoice(w) ==
    LET x == run[w] IN
    /\ x.at = "invoicing"
    /\ Inserts(w, x.invoice \in Numbers, [x EXCEPT !.at = "appending", !.row.invoice = x.invoice])

AppendNext(w) ==
    /\ run[w].at = "appending"
    /\ Inserts(w, run[w].number + 1 \in DOMAIN cycles, [run[w] EXCEPT !.at = "committing"])

\* A cycle is added while another run looks for the one to go on with.
Overtakes(w, then) ==
    /\ Len(then) > Len(cycles)
    /\ \E q \in Worker \ {w} : run[q].at \in {"locking", "numbering"}

CommitClosed(w) ==    \* the next cycle starts without a last_counted_date
    LET x    == run[w]
        mine == IF x.number \in DOMAIN cycles THEN [cycles EXCEPT ![x.number] = x.row]
                                              ELSE Append(cycles, x.row)
    IN  /\ x.at = "committing"
        /\ cycles' = IF Billed(x.row) THEN Append(mine, NewCycle(NoDate)) ELSE mine
        /\ run' = [run EXCEPT ![w] = NoRun]
        /\ overtaken' = (overtaken \/ Overtakes(w, cycles'))
        /\ UNCHANGED present

Commit(w) ==
    LET x    == run[w]
        mine == IF x.number \in DOMAIN cycles THEN [cycles EXCEPT ![x.number] = x.row]
                                              ELSE Append(cycles, x.row)
    IN  /\ x.at = "committing"
        /\ cycles' = IF Billed(x.row) THEN Append(mine, NewCycle(x.row.last_counted_date)) ELSE mine
        /\ run' = [run EXCEPT ![w] = NoRun]
        /\ overtaken' = (overtaken \/ Overtakes(w, cycles'))
        /\ UNCHANGED present

\* An exception, as when another schedule has taken the invoice number, or the
\* death of the worker.
Rollback(w) ==
    /\ run[w].at # "idle"
    /\ run' = [run EXCEPT ![w] = NoRun]
    /\ UNCHANGED <<present, cycles, overtaken>>

\* The database rolls back one of the runs that wait for one another.
Deadlocked(S) == S # {} /\ \A q \in S : WaitsFor(q) \cap S # {}
Detect(w) ==
    /\ \E S \in SUBSET Worker :
         w \in S /\ Deadlocked(S) /\ \A T \in SUBSET S : Deadlocked(T) => T = S
    /\ run' = [run EXCEPT ![w] = NoRun]
    /\ UNCHANGED <<present, cycles, overtaken>>

-----------------------------------------------------------------------------
(* Everyone else.                                                           *)

Mark(d) ==
    /\ d \notin present
    /\ present' = present \cup {d}
    /\ UNCHANGED <<cycles, run, overtaken>>

\* Deleting a staff invoice takes it off its cycle (SET_NULL).
DeleteInvoice(k) ==
    /\ Billed(cycles[k])
    /\ \A q \in Worker : k \notin HeldBy(run[q])
    /\ cycles' = [cycles EXCEPT ![k].invoice = Unbilled]
    /\ UNCHANGED <<present, run, overtaken>>

-----------------------------------------------------------------------------
Init ==
    /\ present = {} /\ cycles = <<>>
    /\ run = [w \in Worker |-> NoRun]
    /\ overtaken = FALSE

Statement(w) ==
    \/ Lock(w) \/ Number(w) \/ Create(w) \/ Count(w) \/ Save(w)
    \/ Draft(w) \/ Invoice(w) \/ AppendNext(w) \/ Commit(w)

Next ==
    \/ \E w \in Worker : Find(w) \/ Statement(w) \/ Rollback(w) \/ Detect(w)
    \/ \E d \in Date : Mark(d)
    \/ \E k \in DOMAIN cycles : DeleteInvoice(k)

Spec     == Init /\ [][Next]_vars
\* A run that has begun goes on, and is not overtaken for ever by those that
\* wait for the same row.
FairSpec == Spec /\ \A w \in Worker : SF_vars(Statement(w) \/ Detect(w))

-----------------------------------------------------------------------------
(* Properties                                                              *)

Run == [at : {"idle", "locking", "numbering", "creating", "counting", "saving", "drafting",
              "invoicing", "appending", "committing"},
        seen : SUBSET Nat, number : Nat, row : Cycle, delta : SUBSET Date, invoice : Nat]

\* The types of the variables; a run looks only for cycles that exist, and
\* counts only sessions its cycle has not.
TypeOK ==
    /\ present \in SUBSET Date
    /\ cycles \in Seq(Cycle)
    /\ run \in [Worker -> Run]
    /\ overtaken \in BOOLEAN
    /\ \A w \in Worker :
         /\ run[w].seen \subseteq DOMAIN cycles
         /\ run[w].delta \subseteq Uncounted(run[w].row)

\* However runs overlap, a session that a committed run has counted stays
\* counted in its cycle: no run writes over the count of another.
CountsNeverLost ==
    [][\A k \in DOMAIN cycles :
         k \in DOMAIN cycles' /\ cycles[k].dates \subseteq cycles'[k].dates]_vars

\* No session is paid by two cycles ("Prevents double-counting on reruns"): runs
\* may overlap, as long as none of them adds a cycle under the eyes of another.
SessionsPaidOnce ==
    ~overtaken => \A j, k \in DOMAIN cycles : j # k => cycles[j].dates \cap cycles[k].dates = {}

\* A run that has begun ends.  Two can wait for one another: one holds the
\* invoice number and inserts the row of the cycle that comes next, the other
\* has written that row and inserts the same number.  It takes the database's
\* deadlock detection to end them.
EveryRunEnds == \A w \in Worker : run[w].at # "idle" ~> run[w].at = "idle"
=============================================================================
