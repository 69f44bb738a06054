----------------------------- MODULE RentBilling -----------------------------
(***************************************************************************)
(* The evaluation of a rent pay schedule, statement by statement: a        *)
(* MONTHLY or DAILY one looks for an invoice of the period and makes one,  *)
(* a SESSION one counts the days classes were held at the location and     *)
(* invoices a full cycle.  Nothing here is a transaction but the making of *)
(* the invoice: each statement is committed as it is run, and a run may    *)
(* die between any two, as a request that is cut off or a worker that is   *)
(* restarted does.  Runs of one schedule follow one another.               *)
(***************************************************************************)
EXTENDS Integers, Sequences, FiniteSets, Largest

CONSTANTS
    LastDay,            \* cap: the days of the model are 1 .. LastDay
    MonthLength,        \* days in a month
    ClassDays,          \* the days on which classes meet at the location
    SessionsPerInvoice, \* schedule.sessions_per_invoice
    MaxMishaps,         \* cap: the kinds of mishap of a schedule
    MaxCycles,          \* cap: the cycles of a schedule
    MaxInvoices         \* cap: the invoices that exist at a time; MaxCycles + MaxMishaps is never reached by SESSION

ASSUME RentAssumption ==
    /\ LastDay \in Nat \ {0} /\ MonthLength \in Nat \ {0}
    /\ ClassDays \subseteq 1 .. LastDay
    /\ SessionsPerInvoice \in Nat \ {0}
    /\ MaxMishaps \in Nat /\ MaxCycles \in Nat /\ MaxInvoices \in Nat

BillingType == {"MONTHLY", "DAILY", "SESSION"}
Day      == 1 .. LastDay
NoDate   == 0
Unbilled == 0
Month(d) == (d - 1) \div MonthLength

VARIABLES
    billing_type, \* of the schedule
    today,
    sessions,     \* the days with an attendance record, of any status, at the location
    cycles,       \* the cycles, in order of cycle_number; dates: the sessions counted
    invoices,     \* the invoices made by runs; period: the day, month or cycle they are for
    run,          \* the run under way: its next statement and what it holds
    mishaps       \* what runs have died before (Torn), "late" (see Guard), "unmarked" (see Save)

vars == <<billing_type, today, sessions, cycles, invoices, run, mishaps>>

Cycle   == [sessions_counted : Nat, last_counted_date : Day \cup {NoDate}, invoice : Nat,
            dates : SUBSET Day]
Invoice == [id : Nat \ {0}, period : Nat, schedule : BOOLEAN, status : {"DRAFT", "PENDING"},
            issued_date : Day, created_at : Day]
At      == {"idle", "guarding", "finding", "opening", "counting", "saving", "invoicing",
            "attaching", "linking", "appending", "logging"}
Run     == [at : At, today : Day \cup {NoDate}, cycle : Nat, counted : Nat, dates : SUBSET Day,
            invoice : Nat]
NoRun   == [at |-> "idle", today |-> NoDate, cycle |-> 0, counted |-> 0, dates |-> {}, invoice |-> 0]

NewCycle(last) == [sessions_counted |-> 0, last_counted_date |-> last,
                   invoice |-> Unbilled, dates |-> {}]
OpenCycles == {k \in DOMAIN cycles : cycles[k].invoice = Unbilled}
UpToFull(n) == IF n > SessionsPerInvoice THEN SessionsPerInvoice ELSE n  \* cap: only Full looks at it
Full(c)    == c.sessions_counted >= SessionsPerInvoice
Ids        == {v.id : v \in invoices}

Go(where) == run' = [run EXCEPT !.at = where]

-----------------------------------------------------------------------------
Init ==
    /\ billing_type \in BillingType
    /\ today = 1
    /\ sessions = {} /\ cycles = <<>> /\ invoices = {}
    /\ run = NoRun
    /\ mishaps = {}

(* A run for a month or a day reads the date once; the beat schedule has none for rent, so that *)
(* runs begin when someone asks for one, on any day.                       *)
Begin ==
    /\ run.at = "idle"
    /\ run' = [NoRun EXCEPT !.at = IF billing_type = "SESSION" THEN "finding" ELSE "guarding",
                            !.today = IF billing_type = "SESSION" THEN NoDate ELSE today]
    /\ UNCHANGED <<billing_type, today, sessions, cycles, invoices, mishaps>>

ChargedToday ==                  \* the guard of the month forgets the days before
    \E v \in invoices : v.schedule /\ run.today = IF billing_type = "MONTHLY" THEN v.created_at
                                                                            ELSE v.issued_date
(* An invoice of the schedule made in the month, or issued on the day.     *)
Charged ==
    \E v \in invoices :
        /\ v.schedule
        /\ IF billing_type = "MONTHLY" THEN Month(v.created_at) = Month(run.today)
                                       ELSE v.issued_date = run.today

Guard ==
    /\ run.at = "guarding"
    /\ Go(IF Charged THEN "logging" ELSE "invoicing")
    /\ mishaps' = IF run.today # today THEN mishaps \cup {"late"} ELSE mishaps
    /\ UNCHANGED <<billing_type, today, sessions, cycles, invoices>>

FindSameNumber ==                \* the new cycle takes the number of the last
    /\ run.at = "finding"
    /\ run' = IF OpenCycles = {} THEN [run EXCEPT !.at = "opening", !.cycle = Len(cycles)]
                                 ELSE [run EXCEPT !.at = "counting", !.cycle = Latest(OpenCycles)]
    /\ UNCHANGED <<billing_type, today, sessions, cycles, invoices, mishaps>>

(* The latest cycle without an invoice, or a new one after the last.       *)
Find ==
    /\ run.at = "finding"
    /\ run' = IF OpenCycles = {} THEN [run EXCEPT !.at = "opening", !.cycle = Len(cycles) + 1]
                                 ELSE [run EXCEPT !.at = "counting", !.cycle = Latest(OpenCycles)]
    /\ UNCHANGED <<billing_type, today, sessions, cycles, invoices, mishaps>>

Open ==
    /\ run.at = "opening"
    /\ Len(cycles) < MaxCycles
    /\ cycles' = Append(cycles, NewCycle(NoDate))
    /\ Go("counting")
    /\ UNCHANGED <<billing_type, today, sessions, invoices, mishaps>>

NewSessions == {d \in sessions : d > cycles[run.cycle].last_counted_date}

CountNewOnly ==                  \* the threshold is looked at when there is something new
    /\ run.at = "counting"
    /\ run' = [run EXCEPT !.at = IF NewSessions # {} THEN "saving" ELSE "logging",
                          !.counted = Cardinality(NewSessions), !.dates = NewSessions]
    /\ UNCHANGED <<billing_type, today, sessions, cycles, invoices, mishaps>>

(* One query counts the new sessions, another finds the last of them.      *)
Count ==
    /\ run.at = "counting"
    /\ run' = [run EXCEPT !.at = IF NewSessions # {} THEN "saving"
                                 ELSE IF Full(cycles[run.cycle]) THEN "invoicing" ELSE "logging",
                          !.counted = Cardinality(NewSessions), !.dates = NewSessions]
    /\ UNCHANGED <<billing_type, today, sessions, cycles, invoices, mishaps>>

(* If attendance has been deleted in between, the last session may be one  *)
(* before those counted; there may be none, and the cycle then forgets     *)
(* what has been counted before.                                           *)
Save ==
    LET last == IF NewSessions = {} THEN NoDate ELSE Latest(NewSessions)
        row  == [cycles[run.cycle] EXCEPT !.sessions_counted = UpToFull(@ + run.counted),
                                          !.last_counted_date = last,
                                          !.dates = @ \cup run.dates]
    IN  /\ run.at = "saving"
        /\ cycles' = [cycles EXCEPT ![run.cycle] = row]
        /\ mishaps' = IF last < Latest(run.dates) THEN mishaps \cup {"unmarked"} ELSE mishaps
        /\ run' = [run EXCEPT !.at = IF Full(row) THEN "invoicing" ELSE "logging",
                              !.counted = 0, !.dates = {}]
        /\ UNCHANGED <<billing_type, today, sessions, invoices>>

Period == CASE billing_type = "SESSION" -> run.cycle
            [] billing_type = "MONTHLY" -> Month(run.today)
            [] OTHER                    -> run.today

(* create_rent_invoice: the invoice does not belong to the schedule yet.   *)
MakeInvoice ==
    /\ run.at = "invoicing"
    /\ \E id \in 1 .. MaxInvoices :
         /\ id \notin Ids
         /\ \A k \in 1 .. id - 1 : k \in Ids
         /\ invoices' = invoices \cup
              {[id |-> id, period |-> Period, schedule |-> FALSE, status |-> "DRAFT",
                issued_date |-> IF billing_type = "SESSION" THEN today ELSE run.today,
                created_at |-> today]}
         /\ run' = [run EXCEPT !.at = "attaching", !.invoice = id]
    /\ UNCHANGED <<billing_type, today, sessions, cycles, mishaps>>

(* An exception ends a run; what it has written stays.                     *)
Fail == run' = NoRun /\ UNCHANGED <<cycles, invoices>>

(* invoice.schedule = schedule; it fails if the invoice has been deleted.  *)
Attach ==
    /\ run.at = "attaching"
    /\ IF run.invoice \in Ids
       THEN /\ invoices' = {IF v.id = run.invoice THEN [v EXCEPT !.schedule = TRUE] ELSE v : v \in invoices}
            /\ Go(IF billing_type = "SESSION" THEN "linking" ELSE "logging")
            /\ UNCHANGED cycles
       ELSE Fail
    /\ UNCHANGED <<billing_type, today, sessions, mishaps>>

Link ==
    /\ run.at = "linking"
    /\ IF run.invoice \in Ids
       THEN /\ cycles' = [cycles EXCEPT ![run.cycle].invoice = run.invoice]
            /\ Go("appending")
            /\ UNCHANGED invoices
       ELSE Fail
    /\ UNCHANGED <<billing_type, today, sessions, mishaps>>

AppendBlank ==                   \* the next cycle does not know where the last one ended
    /\ run.at = "appending"
    /\ IF run.cycle = Len(cycles)
       THEN /\ Len(cycles) < MaxCycles
            /\ cycles' = Append(cycles, NewCycle(NoDate))
            /\ Go("logging")
            /\ UNCHANGED invoices
       ELSE Fail
    /\ UNCHANGED <<billing_type, today, sessions, mishaps>>

(* The cycle that follows: it fails if there is one with that number.      *)
AppendNext ==
    /\ run.at = "appending"
    /\ IF run.cycle = Len(cycles)
       THEN /\ Len(cycles) < MaxCycles
            /\ cycles' = Append(cycles, NewCycle(cycles[run.cycle].last_counted_date))
            /\ Go("logging")
            /\ UNCHANGED invoices
       ELSE Fail
    /\ UNCHANGED <<billing_type, today, sessions, mishaps>>

Log ==
    /\ run.at = "logging"
    /\ run' = NoRun
    /\ UNCHANGED <<billing_type, today, sessions, cycles, invoices, mishaps>>

Torn == {"attaching", "linking", "appending"}    \* what is written belongs together
Die ==
    /\ run.at # "idle"
    /\ run.at \in Torn => Cardinality(mishaps) < MaxMishaps
    /\ mishaps' = mishaps \cup ({run.at} \cap Torn)
    /\ run' = NoRun
    /\ UNCHANGED <<billing_type, today, sessions, cycles, invoices>>

-----------------------------------------------------------------------------
(* Everyone else.  What a SESSION schedule does depends on the attendance, *)
(* which may be of any day, and not on the day it is; the others depend on *)
(* the day only.                                                           *)
NextDay ==
    /\ billing_type # "SESSION"
    /\ today < LastDay
    /\ today' = today + 1
    /\ UNCHANGED <<billing_type, sessions, cycles, invoices, run, mishaps>>

Mark(d) ==
    /\ billing_type = "SESSION"
    /\ d \notin sessions
    /\ sessions' = sessions \cup {d}
    /\ UNCHANGED <<billing_type, today, cycles, invoices, run, mishaps>>

Unmark(d) ==
    /\ d \in sessions
    /\ run.at = "saving" => Cardinality(mishaps) < MaxMishaps
    /\ sessions' = sessions \ {d}
    /\ UNCHANGED <<billing_type, today, cycles, invoices, run, mishaps>>

(* Bulk issuing dates the drafts of a schedule with the day of the issue.  *)
Issue(v) ==
    /\ v.schedule /\ v.status = "DRAFT"
    /\ invoices' = (invoices \ {v}) \cup {[v EXCEPT !.status = "PENDING", !.issued_date = today]}
    /\ UNCHANGED <<billing_type, today, sessions, cycles, run, mishaps>>

(* Deleting an invoice takes it off its cycle (SET_NULL).                  *)
Delete(v) ==
    /\ invoices' = invoices \ {v}
    /\ cycles' = [k \in DOMAIN cycles |->
                    IF cycles[k].invoice = v.id THEN [cycles[k] EXCEPT !.invoice = Unbilled] ELSE cycles[k]]
    /\ UNCHANGED <<billing_type, today, sessions, run, mishaps>>

Statement == Guard \/ Find \/ Open \/ Count \/ Save \/ MakeInvoice \/ Attach \/ Link \/ AppendNext \/ Log

Next ==
    \/ Begin \/ Statement \/ Die
    \/ NextDay
    \/ \E d \in ClassDays : Mark(d) \/ Unmark(d)
    \/ \E v \in invoices : Issue(v) \/ Delete(v)

Spec == Init /\ [][Next]_vars

(* Someone asks for a run again and again, a run does not stand still, and *)
(* there is no statement before which every run dies.                      *)
FairSpec ==
    /\ Spec
    /\ WF_vars(Begin) /\ WF_vars(Statement)
    /\ SF_vars(Find) /\ SF_vars(Open) /\ SF_vars(Count) /\ SF_vars(Save) /\ SF_vars(MakeInvoice)
    /\ SF_vars(Attach) /\ SF_vars(Link) /\ SF_vars(AppendNext)

-----------------------------------------------------------------------------
OfCycle == {"counting", "saving", "invoicing", "attaching", "linking", "appending"}

(* The types of the variables, and what a run holds at each statement.     *)
TypeOK ==
    /\ billing_type \in BillingType
    /\ today \in Day
    /\ sessions \in SUBSET Day
    /\ cycles \in Seq(Cycle)
    /\ invoices \in SUBSET Invoice
    /\ run \in Run
    /\ mishaps \in SUBSET (Torn \cup {"late", "unmarked"})
    /\ run.at = "opening" => run.cycle = Len(cycles) + 1
    /\ IF billing_type = "SESSION"
       THEN /\ run.at # "guarding"
            /\ run.at \in OfCycle => run.cycle \in DOMAIN cycles
       ELSE /\ run.at \in {"idle", "guarding", "invoicing", "attaching", "logging"}
            /\ run.at \in {"guarding", "invoicing"} => run.today \in Day
            /\ cycles = <<>>

(* However runs die and invoices are deleted, no session is counted by two *)
(* cycles: unless a run died between closing a cycle and opening the next, *)
(* or the attendance vanished between its two queries.                     *)
SessionsChargedOnce ==
    mishaps \cap {"appending", "unmarked"} = {} =>
        \A j, k \in DOMAIN cycles : j # k => cycles[j].dates \cap cycles[k].dates = {}

(* A day, a month or a cycle has one invoice at a time, whenever runs are  *)
(* asked for and invoices issued or deleted: but for a death between the   *)
(* making of the invoice and the writes that tie it to the schedule and    *)
(* the cycle, and a day's run that looks for its invoice after midnight,   *)
(* when that may have been issued under the new date.                      *)
PeriodsChargedOnce ==
    mishaps \cap {"attaching", "linking", "late"} = {} =>
        \A v, w \in invoices : v.period = w.period => v = w

(* Once no invoice is deleted any more, a full cycle at the end of the    *)
(* list is followed by another, whatever has been deleted, whatever runs   *)
(* have died and whatever attendance comes and goes.  While invoices are   *)
(* deleted it need not be: a run takes an earlier cycle that has lost its  *)
(* invoice, makes it anew and cannot append, and if that invoice is        *)
(* deleted again before the next run, so does that.                        *)
FullCycleIsFollowed ==
    \A k \in 1 .. MaxCycles - 1 :
        \/ []<><<\E v \in invoices : Delete(v)>>_vars
        \/ Len(cycles) = k /\ Full(cycles[k]) ~> Len(cycles) > k
=============================================================================
