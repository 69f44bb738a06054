----------------------------- MODULE BillingRace -----------------------------
(***************************************************************************)
(* evaluate_session_schedules statement by statement: the runs of one      *)
(* SESSION_BASED schedule that is invoiced on completion, for one student. *)
(* The daily task, a retried fan-out of it and an administrator's "run     *)
(* now" evaluate the same schedule in different workers, and nothing stops *)
(* them from doing it at the same time.                                    *)
(*                                                                         *)
(* A run is a transaction at READ COMMITTED: each statement reads what has *)
(* been committed, writes stay hidden until the commit and keep the rows   *)
(* they touch locked; a second insertion under a unique key waits for the  *)
(* transaction that made the first one.                                    *)
(***************************************************************************)
EXTENDS Integers, Sequences, FiniteSets, Largest

CONSTANTS
    Worker,             \* the processes that run evaluations
    LastDate,           \* the dates of sessions are 1 .. LastDate
    SessionsPerCycle,   \* schedule.sessions_per_cycle
    MaxNumber           \* bound on the invoice numbers

ASSUME RaceAssumption ==
    /\ LastDate \in Nat /\ MaxNumber \in Nat
    /\ SessionsPerCycle \in Nat \ {0}

Date     == 1 .. LastDate
NoDate   == 0
Unbilled == 0
Cycle    == [sessions_counted : Nat, last_counted_date : Date \cup {NoDate}, invoice : Nat,
             dates : SUBSET Date]

VARIABLES
    present,     \* the dates the student is marked PRESENT
    cycles,      \* the committed cycles, in order of cycle_number
    invoices,    \* the numbers of the committed invoices
    pc,          \* how far each worker's run is
    work,        \* the row a run works on: its cycle_number, and its own copy
    held,        \* the cycle_numbers whose rows a run has inserted or updated
    number       \* the number of the invoice a run is writing

vars == <<present, cycles, invoices, pc, work, held, number>>

NewCycle(last) == [sessions_counted |-> 0, last_counted_date |-> last,
                   invoice |-> Unbilled, dates |-> {}]

\* The row a run's next statement writes, and the runs that have it, or the
\* invoice number it is about to insert.
Wanted(w) == CASE pc[w] \in {"opening", "saving", "linking"} -> {work[w].number}
               [] pc[w] \in {"appending", "moving"}          -> {work[w].number + 1}
               [] OTHER                                      -> {}
Invoiced == {w \in Worker : pc[w] \in {"linking", "following", "appending", "moving",
                                       "committing"}}
WaitsFor(w) ==
    {q \in Worker \ {w} :
        \/ Wanted(w) \cap held[q] # {}
        \/ pc[w] = "invoicing" /\ q \in Invoiced /\ number[q] = number[w]}

Go(w, where) == pc' = [pc EXCEPT ![w] = where]
Hold(w, k)   == held' = [held EXCEPT ![w] = @ \cup {k}]

\* The transaction is over: it lets go of its rows.
End(w) ==
    /\ Go(w, "idle")
    /\ work' = [work EXCEPT ![w] = [number |-> 0, row |-> NewCycle(NoDate)]]
    /\ held' = [held EXCEPT ![w] = {}]
    /\ number' = [number EXCEPT ![w] = 0]

-----------------------------------------------------------------------------
(* The statements of a run, in order.                                      *)

\* The latest cycle without an invoice, or the number of a new one.
Load(w) ==
    LET open == {k \in DOMAIN cycles : cycles[k].invoice = Unbilled} IN
    /\ pc[w] = "idle"
    /\ Go(w, IF open = {} THEN "opening" ELSE "counting")
    /\ work' = [work EXCEPT ![w] =
          IF open = {} THEN [number |-> Len(cycles) + 1, row |-> NewCycle(NoDate)]
                       ELSE [number |-> Latest(open), row |-> cycles[Latest(open)]]]
    /\ UNCHANGED <<present, cycles, invoices, held, number>>

InsertAgain(w, k, then) ==   \* mutant: a clash is retried with the same number
    /\ WaitsFor(w) = {}
    /\ IF k \in DOMAIN cycles THEN UNCHANGED <<pc, work, held, number>>
                              ELSE Go(w, then) /\ Hold(w, k) /\ UNCHANGED <<work, number>>
    /\ UNCHANGED <<present, cycles, invoices>>

\* Inserting the row of a cycle number: waits, then fails if it has been taken.
Insert(w, k, then) ==
    /\ WaitsFor(w) = {}
    /\ IF k \in DOMAIN cycles THEN End(w)
                              ELSE Go(w, then) /\ Hold(w, k) /\ UNCHANGED <<work, number>>
    /\ UNCHANGED <<present, cycles, invoices>>

Open(w) == pc[w] = "opening" /\ Insert(w, work[w].number, "counting")

Full(row) == row.sessions_counted >= SessionsPerCycle

CountAgain(w) ==   \* mutant: date__gte=last_counted_date
    LET new == {d \in present : d >= work[w].row.last_counted_date}
        row == [work[w].row EXCEPT !.sessions_counted  = @ + Cardinality(new),
                                   !.last_counted_date = Latest({@} \cup new),
                                   !.dates             = @ \cup new]
    IN  /\ pc[w] = "counting"
        /\ work' = [work EXCEPT ![w].row = row]
        /\ Go(w, IF new # {} THEN "saving" ELSE IF Full(row) THEN "numbering" ELSE "committing")
        /\ UNCHANGED <<present, cycles, invoices, held, number>>

CountToday(w) ==   \* mutant: last_counted_date is set to the day after
    LET new == {d \in present : d > work[w].row.last_counted_date}
        row == [work[w].row EXCEPT !.sessions_counted  = @ + Cardinality(new),
                                   !.last_counted_date = IF new = {} THEN @ ELSE Latest(new) + 1,
                                   !.dates             = @ \cup new]
    IN  /\ pc[w] = "counting"
        /\ work' = [work EXCEPT ![w].row = row]
        /\ Go(w, IF new # {} THEN "saving" ELSE IF Full(row) THEN "numbering" ELSE "committing")
        /\ UNCHANGED <<present, cycles, invoices, held, number>>

\* The attendance query, and the copy it changes.
Count(w) ==
    LET new == {d \in present : d > work[w].row.last_counted_date}
        row == [work[w].row EXCEPT !.sessions_counted  = @ + Cardinality(new),
                                   !.last_counted_date = Latest({@} \cup new),
                                   !.dates             = @ \cup new]
    IN  /\ pc[w] = "counting"
        /\ work' = [work EXCEPT ![w].row = row]
        /\ Go(w, IF new # {} THEN "saving" ELSE IF Full(row) THEN "numbering" ELSE "committing")
        /\ UNCHANGED <<present, cycles, invoices, held, number>>

\* UPDATE ... SET sessions_counted, last_counted_date
SaveCount(w) ==
    /\ pc[w] = "saving"
    /\ WaitsFor(w) = {}
    /\ Hold(w, work[w].number)
    /\ Go(w, IF Full(work[w].row) THEN "numbering" ELSE "committing")
    /\ UNCHANGED <<present, cycles, invoices, work, number>>

\* generate_invoice_number
PickNumber(w) ==
    /\ pc[w] = "numbering"
    /\ Latest({0} \cup invoices) < MaxNumber
    /\ number' = [number EXCEPT ![w] = Latest({0} \cup invoices) + 1]
    /\ Go(w, "invoicing")
    /\ UNCHANGED <<present, cycles, invoices, work, held>>

\* Inserting the invoice: its number is unique too.
InsertInvoice(w) ==
    /\ pc[w] = "invoicing"
    /\ WaitsFor(w) = {}
    /\ IF number[w] \in invoices THEN End(w)
                                 ELSE Go(w, "linking") /\ UNCHANGED <<work, held, number>>
    /\ UNCHANGED <<present, cycles, invoices>>

\* UPDATE ... SET invoice
Link(w) ==
    /\ pc[w] = "linking"
    /\ WaitsFor(w) = {}
    /\ Hold(w, work[w].number)
    /\ work' = [work EXCEPT ![w].row.invoice = number[w]]
    /\ Go(w, "following")
    /\ UNCHANGED <<present, cycles, invoices, number>>

\* Looking for the next cycle; RuntimeError if it has an invoice.
Follow(w) ==
    LET k == work[w].number + 1 IN
    /\ pc[w] = "following"
    /\ IF k \in DOMAIN cycles /\ cycles[k].invoice # Unbilled THEN End(w)
       ELSE /\ Go(w, IF k \notin DOMAIN cycles THEN "appending"
                     ELSE IF cycles[k].sessions_counted = 0 THEN "moving" ELSE "committing")
            /\ UNCHANGED <<work, held, number>>
    /\ UNCHANGED <<present, cycles, invoices>>

AppendNext(w) == pc[w] = "appending" /\ Insert(w, work[w].number + 1, "committing")

\* UPDATE ... SET last_counted_date, of the next cycle
MoveNext(w) ==
    /\ pc[w] = "moving"
    /\ WaitsFor(w) = {}
    /\ Hold(w, work[w].number + 1)
    /\ Go(w, "committing")
    /\ UNCHANGED <<present, cycles, invoices, work, number>>

CommitWholeRow(w) ==   \* mutant: cycle.save() without update_fields
    LET k    == work[w].number
        row  == work[w].row
        now  == IF k \in held[w] \/ k \notin DOMAIN cycles THEN row ELSE cycles[k]
        was  == IF k \in DOMAIN cycles THEN [cycles EXCEPT ![k] = now] ELSE Append(cycles, now)
        last == row.last_counted_date
    IN  /\ pc[w] = "committing"
        /\ cycles' = IF k + 1 \notin held[w] THEN was
                     ELSE IF k + 1 \in DOMAIN cycles
                          THEN [was EXCEPT ![k + 1].last_counted_date = last]
                          ELSE Append(was, NewCycle(last))
        /\ invoices' = IF number[w] = 0 THEN invoices ELSE invoices \cup {number[w]}
        /\ End(w)
        /\ UNCHANGED present

\* The columns the run has written become visible.
Commit(w) ==
    LET k    == work[w].number
        row  == work[w].row
        old  == IF k \in DOMAIN cycles THEN cycles[k] ELSE row
        now  == IF k \notin held[w] THEN old
                ELSE [row EXCEPT !.invoice = IF number[w] = 0 THEN old.invoice ELSE number[w]]
        was  == IF k \in DOMAIN cycles THEN [cycles EXCEPT ![k] = now] ELSE Append(cycles, now)
        last == row.last_counted_date
    IN  /\ pc[w] = "committing"
        /\ cycles' = IF k + 1 \notin held[w] THEN was
                     ELSE IF k + 1 \in DOMAIN cycles
                          THEN [was EXCEPT ![k + 1].last_counted_date = last]
                          ELSE Append(was, NewCycle(last))
        /\ invoices' = IF number[w] = 0 THEN invoices ELSE invoices \cup {number[w]}
        /\ End(w)
        /\ UNCHANGED present

\* The worker dies and the database rolls its transaction back.
Crash(w) ==
    /\ pc[w] # "idle"
    /\ End(w)
    /\ UNCHANGED <<present, cycles, invoices>>

\* Two runs wait for each other's row and number: the database rolls one back.
Detect(w) ==
    /\ \E q \in WaitsFor(w) : w \in WaitsFor(q)
    /\ End(w)
    /\ UNCHANGED <<present, cycles, invoices>>

\* A coach marks the student, at any moment of a run.
Mark(d) ==
    /\ d \notin present
    /\ present' = present \cup {d}
    /\ UNCHANGED <<cycles, invoices, pc, work, held, number>>

-----------------------------------------------------------------------------
Init ==
    /\ present = {} /\ cycles = <<>> /\ invoices = {}
    /\ pc = [w \in Worker |-> "idle"]
    /\ work = [w \in Worker |-> [number |-> 0, row |-> NewCycle(NoDate)]]
    /\ held = [w \in Worker |-> {}]
    /\ number = [w \in Worker |-> 0]

Statement(w) ==
    \/ Open(w) \/ Count(w) \/ SaveCount(w) \/ PickNumber(w) \/ InsertInvoice(w)
    \/ Link(w) \/ Follow(w) \/ AppendNext(w) \/ MoveNext(w) \/ Commit(w)

Rest == \/ \E w \in Worker : Statement(w) \/ Detect(w) \/ Crash(w)
        \/ \E d \in Date : Mark(d)

Next       == Rest \/ \E w \in Worker : Load(w)
SerialNext == Rest \/ \E w \in Worker : Load(w) /\ \A q \in Worker : pc[q] = "idle"

\* Runs as the code lets them overlap, and runs one at a time.
Spec       == Init /\ [][Next]_vars
SerialSpec == Init /\ [][SerialNext]_vars
\* A run that has begun goes on, and the database serves those that wait for a
\* row in the order they came, so no run is overtaken for ever.
FairSpec   == Spec /\ \A w \in Worker : SF_vars(Statement(w) \/ Detect(w))

-----------------------------------------------------------------------------
(* Properties                                                              *)

TypeOK ==
    /\ present \in SUBSET Date
    /\ cycles \in Seq(Cycle)
    /\ invoices \in SUBSET (Nat \ {0})
    /\ pc \in [Worker -> {"idle", "opening", "counting", "saving", "numbering", "invoicing",
                          "linking", "following", "appending", "moving", "committing"}]
    /\ work \in [Worker -> [number : Nat, row : Cycle]]
    /\ held \in [Worker -> SUBSET Nat]
    /\ number \in [Worker -> Nat]

\* Run one at a time, however they crash and whatever is marked between their
\* statements, the evaluations keep the promise of BillingPromise.
Promise == INSTANCE BillingPromise WITH
    cycles <- [k \in DOMAIN cycles |->
                  [dates |-> cycles[k].dates, invoice |-> cycles[k].invoice]]
KeepsPromise == Promise!Spec

\* Overlapping runs do not break what the next one needs: of the cycles exactly
\* the last is open, and a run that ends leaves it so.
OnlyLastIsOpen ==
    \A k \in DOMAIN cycles : cycles[k].invoice = Unbilled <=> k = Len(cycles)

\* Every run ends.  Two runs can wait for each other: one that works on a cycle
\* already closed holds the next invoice number and wants the row of the next
\* cycle, which the other holds while it waits for that number.  It takes the
\* database's deadlock detection to end them.
EveryRunEnds == \A w \in Worker : pc[w] # "idle" ~> pc[w] = "idle"
=============================================================================
