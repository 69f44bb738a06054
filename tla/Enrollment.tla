----------------------------- MODULE Enrollment ------------------------------
(***************************************************************************)
(* The enrollments of one class and the class row's count of them, under   *)
(* requests that overlap.  EnrollmentService enrolls and unenrolls in one  *)
(* transaction each; the enrollment and class endpoints write the          *)
(* enrollment and the count in statements that commit by themselves.       *)
(* Every save of the class row counts, then waits for the row; the service *)
(* saves twice, and counts the second time with the row locked.  raced     *)
(* remembers the one thing that makes a count wrong: a request outside the *)
(* service that has met another one, or died half-way.                     *)
(***************************************************************************)
EXTENDS Integers, FiniteSets

CONSTANTS
    Request,        \* the requests under way at the same time
    Student, Nobody,
    MaxCapacity     \* class.max_capacity

ASSUME ClassAssumption ==
    /\ IsFiniteSet(Request) /\ IsFiniteSet(Student) /\ Nobody \notin Student
    /\ MaxCapacity \in Nat \ {0}

\* EnrollmentService; POST and PATCH (to DROPPED) of an enrollment, PATCH of the class.
InService == {"enroll", "unenroll"}
Kind      == InService \cup {"create", "drop", "edit"}

VARIABLES
    enrolled,               \* the students with a committed ENROLLED enrollment
    current_enrollment,     \* the class row's count
    req,                    \* req[r]: the request r
    raced                   \* history: a request outside the service was not alone

vars == <<enrolled, current_enrollment, req, raced>>

\* full: is_full of the copy of the class the request has loaded; gone: the
\* enrollment it has loaded is ENROLLED no more; count: what it has counted.
Idle == [at |-> "idle", kind |-> "edit", student |-> Nobody, full |-> FALSE, gone |-> FALSE,
         count |-> 0]

Adds(x)    == x.kind \in {"enroll", "create"}
Removes(x) == x.kind \in {"unenroll", "drop"} /\ ~x.gone
After(x)   ==    \* the enrolled students once the request has written
    IF Adds(x) THEN enrolled \cup {x.student}
    ELSE IF Removes(x) THEN enrolled \ {x.student} ELSE enrolled

\* The other requests about an enrollment that x removes.
Outdated(q, x) ==
    IF Removes(x) /\ req[q].student = x.student /\ ~Adds(req[q])
    THEN [req[q] EXCEPT !.gone = TRUE] ELSE req[q]

\* A transaction between its first write and its commit; one that has the
\* class row.
Pending(x)  == x.kind \in InService /\ x.at \in {"counting", "saving", "recounting", "committing"}
HasRow(x)   == x.at \in {"recounting", "committing"}
RowFree(r)  == \A q \in Request \ {r} : ~HasRow(req[q])
Unwritten(r, s) == \A q \in Request \ {r} : ~(Pending(req[q]) /\ req[q].student = s)

\* A request of this kind and another one under way, not both of the service.
Meets(r, kind) ==
    \E q \in Request \ {r} : req[q].at # "idle" /\ ~({kind, req[q].kind} \subseteq InService)

Seen(x) == IF Pending(x) THEN After(x) ELSE enrolled

-----------------------------------------------------------------------------
(* The steps of a request.                                                  *)

\* The view loads the class, and the enrollment it is about.
Load(r, kind, s) ==
    /\ req[r].at = "idle"
    /\ kind \in {"unenroll", "drop"} => s \in enrolled
    /\ req' = [req EXCEPT ![r] =
          [at |-> CASE kind \in {"enroll", "create"} -> "checking"
                    [] kind = "edit"                 -> "counting"
                    [] OTHER                         -> "writing",
           kind |-> kind, student |-> s, full |-> current_enrollment >= MaxCapacity,
           gone |-> FALSE, count |-> 0]]
    /\ raced' = (raced \/ Meets(r, kind))
    /\ UNCHANGED <<enrolled, current_enrollment>>

CheckTheStudent(r) ==    \* without is_full
    /\ req[r].at = "checking"
    /\ req' = [req EXCEPT ![r] = IF @.student \in enrolled THEN Idle ELSE [@ EXCEPT !.at = "writing"]]
    /\ UNCHANGED <<enrolled, current_enrollment, raced>>

\* The class is full, as far as the copy says, or the student is enrolled.
Check(r) ==
    /\ req[r].at = "checking"
    /\ req' = [req EXCEPT ![r] = IF @.full \/ @.student \in enrolled THEN Idle
                                 ELSE [@ EXCEPT !.at = "writing"]]
    /\ UNCHANGED <<enrolled, current_enrollment, raced>>

WriteAgain(r) ==    \* tries an enrollment that exists again and again
    LET x == req[r] IN
    /\ x.at = "writing" /\ (x.gone \/ Unwritten(r, x.student)) /\ ~(Adds(x) /\ x.student \in enrolled)
    /\ req' = [req EXCEPT ![r].at = "counting"]
    /\ UNCHANGED <<enrolled, current_enrollment, raced>>

\* The enrollment is inserted, updated or deleted.  Another transaction's
\* uncommitted write makes it wait; a second active enrollment of the student
\* fails, and so does the PATCH of one that is gone.
Write(r) ==
    LET x     == req[r]
        fails == \/ Adds(x) /\ x.student \in enrolled
                 \/ x.kind = "drop" /\ x.gone
    IN  /\ x.at = "writing" /\ (x.gone \/ Unwritten(r, x.student))
        /\ IF fails \/ x.kind \in InService
           THEN /\ req' = [req EXCEPT ![r] = IF fails THEN Idle ELSE [x EXCEPT !.at = "counting"]]
                /\ UNCHANGED enrolled
           ELSE /\ req' = [q \in Request |-> IF q = r THEN [x EXCEPT !.at = "counting"] ELSE Outdated(q, x)]
                /\ enrolled' = After(x)
        /\ UNCHANGED <<current_enrollment, raced>>

\* Class.save counts before it writes.
Count(r) ==
    /\ req[r].at = "counting"
    /\ req' = [req EXCEPT ![r].at = "saving", ![r].count = Cardinality(Seen(req[r]))]
    /\ UNCHANGED <<enrolled, current_enrollment, raced>>

SaveAtOnce(r) ==    \* does not wait for the row
    /\ req[r].at = "saving"
    /\ IF req[r].kind \in InService
       THEN req' = [req EXCEPT ![r].at = "recounting"] /\ UNCHANGED current_enrollment
       ELSE req' = [req EXCEPT ![r] = Idle] /\ current_enrollment' = req[r].count
    /\ UNCHANGED <<enrolled, raced>>

\* The UPDATE of the class row: a transaction keeps the row, a statement by
\* itself is committed.
Save(r) ==
    /\ req[r].at = "saving" /\ RowFree(r)
    /\ IF req[r].kind \in InService
       THEN req' = [req EXCEPT ![r].at = "recounting"] /\ UNCHANGED current_enrollment
       ELSE req' = [req EXCEPT ![r] = Idle] /\ current_enrollment' = req[r].count
    /\ UNCHANGED <<enrolled, raced>>

RecountNothing(r) ==    \* without the service's own save
    /\ req[r].at = "recounting"
    /\ req' = [req EXCEPT ![r].at = "committing"]
    /\ UNCHANGED <<enrolled, current_enrollment, raced>>

\* The service's own save of the class, under the lock.
Recount(r) ==
    /\ req[r].at = "recounting"
    /\ req' = [req EXCEPT ![r].at = "committing", ![r].count = Cardinality(Seen(req[r]))]
    /\ UNCHANGED <<enrolled, current_enrollment, raced>>

Commit(r) ==
    /\ req[r].at = "committing"
    /\ enrolled' = After(req[r]) /\ current_enrollment' = req[r].count
    /\ req' = [q \in Request |-> IF q = r THEN Idle ELSE Outdated(q, req[r])]
    /\ UNCHANGED raced

\* The worker dies: a transaction is rolled back, what is committed stays.
Die(r) ==
    /\ req[r].at # "idle"
    /\ req' = [req EXCEPT ![r] = Idle]
    /\ raced' = (raced \/ req[r].kind \notin InService)
    /\ UNCHANGED <<enrolled, current_enrollment>>

-----------------------------------------------------------------------------
Init ==
    /\ enrolled = {} /\ current_enrollment = 0
    /\ req = [r \in Request |-> Idle]
    /\ raced = FALSE

Step(r) == Check(r) \/ Write(r) \/ Count(r) \/ Save(r) \/ Recount(r) \/ Commit(r)

Next ==
    \E r \in Request :
       \/ \E kind \in Kind, s \in Student : Load(r, kind, s)
       \/ Step(r) \/ Die(r)

Spec == Init /\ [][Next]_vars
\* A request that has begun goes on, and is not overtaken for ever by those
\* that wait for the same row.
FairSpec == Spec /\ \A r \in Request : SF_vars(Step(r))

-----------------------------------------------------------------------------
(* Properties                                                              *)

At == {"idle", "checking", "writing", "counting", "saving", "recounting", "committing"}

\* The types of the variables; one request at a time has the class row.
TypeOK ==
    /\ enrolled \in SUBSET Student
    /\ current_enrollment \in Nat
    /\ req \in [Request -> [at : At, kind : Kind, student : Student \cup {Nobody},
                            full : BOOLEAN, gone : BOOLEAN, count : Nat]]
    /\ raced \in BOOLEAN
    /\ \A r, q \in Request : HasRow(req[r]) /\ HasRow(req[q]) => r = q

\* A request outside the service has written an enrollment, and not the count.
Uncounted(x) == x.kind \notin InService /\ x.at \in {"counting", "saving"}

\* However the service's requests overlap or die, and wherever the others keep
\* to themselves, the class row tells how many students are enrolled ("Override
\* save to update class enrollment count.").
CountExact ==
    ~raced /\ (\A r \in Request : ~Uncounted(req[r])) => current_enrollment = Cardinality(enrolled)

\* Then, too, requests that have checked the same free place take no more than
\* one each ("Test enrollment fails when class is at capacity.").
BoundedOverfill == ~raced => Cardinality(enrolled) < MaxCapacity + Cardinality(Request)

\* Every request is answered, none waits for ever for a row.
EveryRequestAnswered == \A r \in Request : req[r].at # "idle" ~> req[r].at = "idle"
=============================================================================
