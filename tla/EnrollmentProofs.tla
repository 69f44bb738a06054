--------------------------- MODULE EnrollmentProofs --------------------------
(***************************************************************************)
(* What the enrollments of a class guarantee for every number of requests  *)
(* and students and every capacity: the service's second count, under the  *)
(* lock of the class row, is always right; the requests outside it are     *)
(* right while they are alone; and the check of the capacity, though made  *)
(* on a copy, lets no more than one student per request through.           *)
(***************************************************************************)
EXTENDS Enrollment, FiniteSetTheorems, TLAPS

Rec == [at : At, kind : Kind, student : Student \cup {Nobody},
        full : BOOLEAN, gone : BOOLEAN, count : Nat]

(* What is true of a request in any case: only transactions keep the row,   *)
(* and who goes on to add a student has not seen the class full.            *)
Fit(x) ==
    /\ x.at # "idle" => x.student \in Student
    /\ HasRow(x) => x.kind \in InService
    /\ x.at \notin {"idle", "checking"} /\ Adds(x) => ~x.full

(* What a request has counted is right: a transaction's last count, with    *)
(* the row locked, and the count of a request that is alone.                *)
Right(x) ==
    /\ x.at = "committing" => x.count = Cardinality(After(x))
    /\ x.at = "saving" /\ x.kind \notin InService => x.count = Cardinality(enrolled)

(* A request outside the service is alone.                                  *)
Apart == \A r, q \in Request :
            r # q /\ req[r].at # "idle" /\ req[q].at # "idle" => req[r].kind \in InService

TypeInv == TypeOK /\ \A r \in Request : Fit(req[r])
IInv    == TypeInv /\ CountExact /\ (~raced => Apart /\ \A r \in Request : Right(req[r]))

(* The requests that may still add a student.                               *)
Adding(x) ==
    /\ x.at # "idle" /\ ~x.full
    /\ \/ x.kind = "enroll"
       \/ x.kind = "create" /\ x.at \in {"checking", "writing"}
Filling   == {r \in Request : Adding(req[r])}
Room == ~raced => Cardinality(enrolled) + Cardinality(Filling) < MaxCapacity + Cardinality(Request)

-----------------------------------------------------------------------------
(* Facts about the helpers.                                                *)

LEMMA IdleIsFit ==
    /\ Idle \in Rec /\ Idle.at = "idle" /\ Fit(Idle) /\ Right(Idle)
    /\ ~HasRow(Idle) /\ ~Adding(Idle) /\ ~Uncounted(Idle)
BY DEF Idle, Rec, At, Kind, Fit, Right, HasRow, Adding, Uncounted

LEMMA SomeStudents ==
    ASSUME NEW S \in SUBSET Student
    PROVE  IsFiniteSet(S) /\ Cardinality(S) \in Nat
BY ClassAssumption, FS_Subset, FS_CardinalityType

LEMMA SomeRequests ==
    ASSUME NEW S \in SUBSET Request
    PROVE  IsFiniteSet(S) /\ Cardinality(S) \in Nat /\ Cardinality(S) <= Cardinality(Request)
           /\ Cardinality(Request) \in Nat
BY ClassAssumption, FS_Subset, FS_CardinalityType

LEMMA AfterAreStudents ==
    ASSUME TypeOK, NEW x \in Rec, x.student \in Student
    PROVE  After(x) \in SUBSET Student /\ Cardinality(After(x)) \in Nat
<1>1. After(x) \in SUBSET Student
  BY DEF After, TypeOK
<1> QED
  BY <1>1, SomeStudents

LEMMA OutdatedIsSame ==
    ASSUME NEW q \in Request, NEW x, req[q] \in Rec
    PROVE  /\ Outdated(q, x) \in Rec
           /\ Outdated(q, x).at = req[q].at /\ Outdated(q, x).kind = req[q].kind
           /\ Outdated(q, x).student = req[q].student /\ Outdated(q, x).full = req[q].full
<1>1. /\ [req[q] EXCEPT !.gone = TRUE] \in Rec
      /\ [req[q] EXCEPT !.gone = TRUE].at = req[q].at /\ [req[q] EXCEPT !.gone = TRUE].kind = req[q].kind
      /\ [req[q] EXCEPT !.gone = TRUE].student = req[q].student
      /\ [req[q] EXCEPT !.gone = TRUE].full = req[q].full
  BY DEF Rec
<1> QED
  BY <1>1 DEF Outdated

LEMMA OneOfThem ==
    ASSUME TypeInv, NEW r \in Request
    PROVE  req \in [Request -> Rec] /\ req[r] \in Rec /\ Fit(req[r]) /\ raced \in BOOLEAN
BY DEF TypeInv, TypeOK, Rec

\* While nothing has raced, a request outside the service is the only one.
LEMMA AloneThen ==
    ASSUME IInv, ~raced, NEW r \in Request, req[r].at # "idle", req[r].kind \notin InService
    PROVE  \A q \in Request : q # r => req[q].at = "idle"
BY DEF IInv, Apart

-----------------------------------------------------------------------------
(* Every step but a write that is committed changes one request only.      *)

LEMMA TypeStep ==
    ASSUME TypeInv, req' \in [Request -> Rec], \A q \in Request : Fit(req'[q]),
           enrolled' \in SUBSET Student, current_enrollment' \in Nat, raced' \in BOOLEAN,
           NEW r \in Request, HasRow(req'[r]) => HasRow(req[r]) \/ RowFree(r),
           \A q \in Request : q # r /\ HasRow(req'[q]) => HasRow(req[q])
    PROVE  TypeInv'
<1>1. \A p, q \in Request : HasRow(req'[p]) /\ HasRow(req'[q]) => p = q
  BY DEF TypeInv, TypeOK, RowFree
<1>2. TypeOK'
  BY <1>1 DEF TypeOK, Rec, HasRow
<1>3. \A q \in Request : Fit(req[q])'
  BY DEF Fit, HasRow, Adds
<1> QED
  BY <1>2, <1>3 DEF TypeInv

LEMMA OneChanges ==
    ASSUME TypeInv, NEW r \in Request, NEW y \in Rec, Fit(y), req' = [req EXCEPT ![r] = y],
           enrolled' \in SUBSET Student, current_enrollment' \in Nat, raced' \in BOOLEAN,
           HasRow(y) => HasRow(req[r]) \/ RowFree(r)
    PROVE  TypeInv' /\ \A q \in Request : req'[q] = IF q = r THEN y ELSE req[q]
<1>1. \A q \in Request : req'[q] = IF q = r THEN y ELSE req[q]
  BY OneOfThem
<1>2. req' \in [Request -> Rec] /\ \A q \in Request : Fit(req'[q])
  BY <1>1, OneOfThem
<1> QED
  BY <1>1, <1>2, TypeStep

\* A step by which a request goes on, or ends, and writes nothing.
LEMMA RequestStep ==
    ASSUME IInv, NEW r \in Request, NEW y \in Rec, Fit(y), req' = [req EXCEPT ![r] = y],
           UNCHANGED <<enrolled, current_enrollment, raced>>,
           HasRow(y) => HasRow(req[r]) \/ RowFree(r),
           y.at # "idle" => req[r].at # "idle" /\ y.kind = req[r].kind,
           ~raced => Right(y), Uncounted(req[r]) => Uncounted(y)
    PROVE  IInv'
<1>1. TypeInv' /\ \A q \in Request : req'[q] = IF q = r THEN y ELSE req[q]
  BY OneChanges, OneOfThem DEF IInv, TypeInv, TypeOK
<1>2. CountExact'
  <2>1. (\A q \in Request : ~Uncounted(req'[q])) => \A q \in Request : ~Uncounted(req[q])
    BY <1>1
  <2> QED
    BY <2>1 DEF IInv, CountExact, Uncounted
<1>3. ASSUME ~raced' PROVE Apart' /\ \A q \in Request : Right(req[q])'
  <2>1. ~raced /\ Apart /\ \A q \in Request : Right(req[q])
    BY <1>3 DEF IInv
  <2>2. Apart'
    BY <1>1, <2>1 DEF Apart
  <2>3. \A q \in Request : Right(req'[q])
    BY <1>1, <2>1
  <2> QED
    BY <2>2, <2>3 DEF Right, After, Adds, Removes
<1> QED
  BY <1>1, <1>2, <1>3 DEF IInv

\* Once something has raced, only the types are promised.
LEMMA RacedStep ==
    ASSUME TypeInv', raced' PROVE IInv' /\ Room'
BY DEF IInv, CountExact, Room

-----------------------------------------------------------------------------
(* The steps that write nothing.                                           *)

LEMMA LoadStep ==
    ASSUME IInv, NEW r \in Request, NEW kind \in Kind, NEW s \in Student, Load(r, kind, s)
    PROVE  IInv'
<1> DEFINE y == [at |-> CASE kind \in {"enroll", "create"} -> "checking"
                          [] kind = "edit"                 -> "counting"
                          [] OTHER                         -> "writing",
                 kind |-> kind, student |-> s, full |-> current_enrollment >= MaxCapacity,
                 gone |-> FALSE, count |-> 0]
<1>1. /\ req' = [req EXCEPT ![r] = y] /\ UNCHANGED <<enrolled, current_enrollment>>
      /\ raced' = (raced \/ Meets(r, kind)) /\ req[r].at = "idle"
  BY DEF Load
<1>2. y.at = IF kind \in {"enroll", "create"} THEN "checking"
             ELSE IF kind = "edit" THEN "counting" ELSE "writing"
  BY DEF InService
<1>3. y \in Rec /\ y.kind = kind /\ y.student = s
  BY <1>2 DEF Rec, At
<1> HIDE DEF y
<1>4. Fit(y) /\ Right(y) /\ ~HasRow(y) /\ y.at # "idle"
  BY <1>2, <1>3 DEF Fit, Right, HasRow, Adds
<1>5. TypeInv' /\ \A q \in Request : req'[q] = IF q = r THEN y ELSE req[q]
  BY <1>1, <1>3, <1>4, OneChanges, OneOfThem DEF IInv, TypeInv, TypeOK
<1>6. CASE raced'
  BY <1>5, <1>6, RacedStep
<1>7. CASE ~raced'
  <2>1. ~raced /\ ~Meets(r, kind) /\ Apart /\ CountExact /\ \A q \in Request : Right(req[q])
    BY <1>1, <1>7 DEF IInv
  <2>2. \A q \in Request : q # r /\ req[q].at # "idle" => req[q].kind \in InService /\ kind \in InService
    BY <2>1 DEF Meets
  <2>3. Apart'
    BY <1>3, <1>5, <2>1, <2>2 DEF Apart
  <2>4. \A q \in Request : ~Uncounted(req[q])
    BY <1>1, <2>2 DEF Uncounted
  <2>5. CountExact'
    BY <1>1, <2>1, <2>4 DEF CountExact
  <2>6. \A q \in Request : Right(req'[q])
    BY <1>4, <1>5, <2>1
  <2>7. \A q \in Request : Right(req[q])'
    BY <1>1, <2>6 DEF Right, After, Adds, Removes
  <2> QED
    BY <1>5, <2>3, <2>5, <2>7 DEF IInv
<1> QED
  BY <1>6, <1>7

LEMMA DieStep ==
    ASSUME IInv, NEW r \in Request, Die(r)
    PROVE  IInv'
<1>1. req' = [req EXCEPT ![r] = Idle] /\ raced' = (raced \/ req[r].kind \notin InService)
      /\ UNCHANGED <<enrolled, current_enrollment>>
  BY DEF Die
<1>2. TypeInv'
  BY <1>1, IdleIsFit, OneChanges, OneOfThem DEF IInv, TypeInv, TypeOK
<1>3. CASE raced'
  BY <1>2, <1>3, RacedStep
<1>4. CASE ~raced'
  <2>1. ~raced /\ ~Uncounted(req[r]) /\ raced' = raced
    BY <1>1, <1>4, OneOfThem DEF Uncounted, IInv
  <2> QED
    BY <1>1, <2>1, IdleIsFit, RequestStep
<1> QED
  BY <1>3, <1>4

\* The steps of a request that write nothing for others to see.
Quiet(r) == \/ Check(r) \/ Count(r) \/ Recount(r)
            \/ Write(r) /\ (req[r].kind \in InService \/ req'[r] = Idle)
            \/ Save(r) /\ req[r].kind \in InService

LEMMA QuietStep ==
    ASSUME IInv, NEW r \in Request, Quiet(r)
    PROVE  /\ IInv'
           /\ UNCHANGED <<enrolled, current_enrollment, raced>>
           /\ \E y \in Rec : req' = [req EXCEPT ![r] = y] /\ (Adding(y) => Adding(req[r]))
<1> DEFINE x == req[r]
<1>1. /\ x \in Rec /\ Fit(x) /\ x.at # "idle" /\ x.student \in Student
      /\ req \in [Request -> Rec] /\ TypeOK /\ enrolled \in SUBSET Student
  <2>1. x.at # "idle"
    BY DEF Quiet, Check, Write, Count, Save, Recount
  <2>2. x \in Rec /\ Fit(x) /\ req \in [Request -> Rec]
    BY OneOfThem DEF IInv
  <2> QED
    BY <2>1, <2>2 DEF Fit, IInv, TypeInv, TypeOK
<1> SUFFICES ASSUME TRUE
             PROVE  \E y \in Rec : /\ Fit(y) /\ req' = [req EXCEPT ![r] = y]
                                   /\ UNCHANGED <<enrolled, current_enrollment, raced>>
                                   /\ HasRow(y) => HasRow(x) \/ RowFree(r)
                                   /\ y.at # "idle" => y.kind = x.kind
                                   /\ ~raced => Right(y)
                                   /\ Uncounted(x) => Uncounted(y)
                                   /\ Adding(y) => Adding(x)
  BY <1>1, RequestStep
<1>2. CASE Check(r)
  <2>1. ~Uncounted(x)
    BY <1>2 DEF Check, Uncounted
  <2>2. CASE req' = [req EXCEPT ![r] = Idle]
    BY <1>2, <2>1, <2>2, IdleIsFit DEF Check
  <2>3. CASE ~x.full /\ req' = [req EXCEPT ![r] = [x EXCEPT !.at = "writing"]]
    <3> DEFINE y == [x EXCEPT !.at = "writing"]
    <3>1. y \in Rec /\ y.at = "writing" /\ y.kind = x.kind /\ y.student = x.student /\ y.full = x.full
      BY <1>1 DEF Rec, At
    <3>2. x.at = "checking"
      BY <1>2 DEF Check
    <3> HIDE DEF y
    <3>3. Fit(y) /\ Right(y) /\ ~HasRow(y) /\ (Adding(y) => Adding(x))
      BY <1>1, <2>3, <3>1, <3>2 DEF Fit, Right, HasRow, Adding, Adds
    <3> QED
      BY <1>2, <2>1, <2>3, <3>1, <3>3 DEF Check, y
  <2> QED
    BY <1>1, <1>2, <2>2, <2>3 DEF Check
<1>3. CASE Write(r) /\ (x.kind \in InService \/ req'[r] = Idle)
  <2>1. ~Uncounted(x) /\ x.at = "writing"
    BY <1>3 DEF Write, Uncounted
  <2>2. CASE req' = [req EXCEPT ![r] = Idle] /\ UNCHANGED <<enrolled, current_enrollment, raced>>
    BY <2>1, <2>2, IdleIsFit
  <2>3. CASE /\ req' = [req EXCEPT ![r] = [x EXCEPT !.at = "counting"]] /\ x.kind \in InService
             /\ UNCHANGED <<enrolled, current_enrollment, raced>>
    <3> DEFINE y == [x EXCEPT !.at = "counting"]
    <3>1. y \in Rec /\ y.at = "counting" /\ y.kind = x.kind /\ y.student = x.student /\ y.full = x.full
      BY <1>1 DEF Rec, At
    <3> HIDE DEF y
    <3>2. Fit(y) /\ Right(y) /\ ~HasRow(y) /\ (Adding(y) => Adding(x))
      BY <1>1, <2>1, <3>1 DEF Fit, Right, HasRow, Adding, Adds
    <3> QED
      BY <2>1, <2>3, <3>1, <3>2 DEF y
  <2>4. [x EXCEPT !.at = "counting"].at = "counting"
    BY <1>1 DEF Rec
  <2> QED
    BY <1>1, <1>3, <2>2, <2>3, <2>4, IdleIsFit DEF Write
<1>4. CASE Count(r)
  <2> DEFINE n == Cardinality(Seen(x))
             y == [x EXCEPT !.at = "saving", !.count = n]
  <2>1. n \in Nat /\ (x.kind \notin InService => n = Cardinality(enrolled))
    <3>1. Seen(x) \in SUBSET Student
      BY <1>1, AfterAreStudents DEF Seen
    <3> QED
      BY <3>1, SomeStudents DEF Seen, Pending
  <2>2. /\ req' = [req EXCEPT ![r] = y] /\ UNCHANGED <<enrolled, current_enrollment, raced>>
        /\ x.at = "counting"
    BY <1>1, <1>4 DEF Count
  <2> HIDE DEF n
  <2>3. /\ y \in Rec /\ y.at = "saving" /\ y.kind = x.kind /\ y.student = x.student
        /\ y.full = x.full /\ y.count = n
    BY <1>1, <2>1 DEF Rec, At
  <2> HIDE DEF y
  <2>4. /\ Fit(y) /\ Right(y) /\ ~HasRow(y) /\ (Adding(y) => Adding(x))
        /\ (Uncounted(x) => Uncounted(y))
    BY <1>1, <2>1, <2>2, <2>3 DEF Fit, Right, HasRow, Adding, Adds, Uncounted
  <2> QED
    BY <2>2, <2>3, <2>4
<1>5. CASE Save(r) /\ x.kind \in InService
  <2> DEFINE y == [x EXCEPT !.at = "recounting"]
  <2>1. /\ req' = [req EXCEPT ![r] = y] /\ UNCHANGED <<enrolled, current_enrollment, raced>>
        /\ x.at = "saving" /\ RowFree(r)
    BY <1>1, <1>5 DEF Save
  <2>2. y \in Rec /\ y.at = "recounting" /\ y.kind = x.kind /\ y.student = x.student /\ y.full = x.full
    BY <1>1 DEF Rec, At
  <2> HIDE DEF y
  <2>3. Fit(y) /\ Right(y) /\ (Adding(y) => Adding(x)) /\ ~Uncounted(x)
    BY <1>1, <1>5, <2>1, <2>2 DEF Fit, Right, Adding, Adds, Uncounted
  <2> QED
    BY <2>1, <2>2, <2>3
<1>6. CASE Recount(r)
  <2> DEFINE n == Cardinality(Seen(x))
             y == [x EXCEPT !.at = "committing", !.count = n]
  <2>1. /\ req' = [req EXCEPT ![r] = y] /\ UNCHANGED <<enrolled, current_enrollment, raced>>
        /\ x.at = "recounting"
    BY <1>1, <1>6 DEF Recount
  <2>2. x.kind \in InService /\ Seen(x) = After(x)
    BY <1>1, <2>1 DEF Seen, Pending, Fit, HasRow
  <2>3. n \in Nat
    BY <1>1, <2>2, AfterAreStudents
  <2>4. /\ y \in Rec /\ y.at = "committing" /\ y.kind = x.kind /\ y.student = x.student
        /\ y.full = x.full /\ y.gone = x.gone /\ y.count = n
    BY <1>1, <2>3 DEF Rec, At
  <2> HIDE DEF y
  <2>5. After(y) = After(x)
    BY <2>4 DEF After, Adds, Removes
  <2>6. Fit(y) /\ Right(y) /\ HasRow(x) /\ (Adding(y) => Adding(x)) /\ ~Uncounted(x)
    BY <1>1, <2>1, <2>2, <2>4, <2>5 DEF Fit, Right, HasRow, Adding, Adds, Uncounted
  <2> QED
    BY <2>1, <2>4, <2>6
<1> QED
  BY <1>2, <1>3, <1>4, <1>5, <1>6 DEF Quiet

-----------------------------------------------------------------------------
(* The steps that are committed.                                           *)

\* A request outside the service writes its enrollment.
LEMMA WriteStep ==
    ASSUME IInv, NEW r \in Request, Write(r), req[r].kind \notin InService, req'[r] # Idle
    PROVE  /\ IInv'
           /\ enrolled' = After(req[r]) /\ UNCHANGED raced
           /\ \A q \in Request : /\ req'[q].full = req[q].full /\ req'[q].kind = req[q].kind
                                 /\ req'[q].at = IF q = r THEN "counting" ELSE req[q].at
<1> DEFINE x == req[r]
           y == [x EXCEPT !.at = "counting"]
<1>1. /\ x \in Rec /\ Fit(x) /\ x.at = "writing" /\ x.student \in Student
      /\ TypeInv /\ req \in [Request -> Rec] /\ raced \in BOOLEAN
  BY OneOfThem DEF Write, Fit, IInv
<1>2. /\ req' = [q \in Request |-> IF q = r THEN y ELSE Outdated(q, x)]
      /\ enrolled' = After(x) /\ UNCHANGED <<current_enrollment, raced>>
  BY <1>1 DEF Write
<1>3. y \in Rec /\ y.at = "counting" /\ y.kind = x.kind /\ y.student = x.student /\ y.full = x.full
  BY <1>1 DEF Rec, At
<1> HIDE DEF y
<1>4. Fit(y) /\ Right(y) /\ ~HasRow(y) /\ Uncounted(y)
  BY <1>1, <1>3 DEF Fit, Right, HasRow, Adds, Uncounted, x
<1>5. \A q \in Request : /\ req'[q] \in Rec /\ Fit(req'[q])
                         /\ req'[q] = IF q = r THEN y ELSE Outdated(q, x)
                         /\ q # r => req'[q].at = req[q].at
                         /\ req'[q].kind = req[q].kind /\ req'[q].full = req[q].full
  <2> SUFFICES ASSUME NEW q \in Request
               PROVE  /\ req'[q] \in Rec /\ Fit(req'[q])
                      /\ req'[q] = IF q = r THEN y ELSE Outdated(q, x)
                      /\ q # r => req'[q].at = req[q].at
                      /\ req'[q].kind = req[q].kind /\ req'[q].full = req[q].full
    OBVIOUS
  <2>1. CASE q = r
    BY <1>2, <1>3, <1>4, <2>1
  <2>2. CASE q # r
    <3>1. req'[q] = Outdated(q, x) /\ req[q] \in Rec /\ Fit(req[q])
      BY <1>1, <1>2, <2>2, OneOfThem
    <3> HIDE DEF x
    <3> QED
      BY <2>2, <3>1, OutdatedIsSame DEF Fit, HasRow, Adds
  <2> QED
    BY <2>1, <2>2
<1>6. After(x) \in SUBSET Student
  BY <1>1, AfterAreStudents DEF TypeInv
<1>7. TypeInv'
  <2>1. req' \in [Request -> Rec]
    BY <1>2, <1>5
  <2>2. ~HasRow(req'[r]) /\ \A q \in Request : q # r /\ HasRow(req'[q]) => HasRow(req[q])
    BY <1>4, <1>5 DEF HasRow
  <2>3. enrolled' \in SUBSET Student /\ current_enrollment' \in Nat /\ raced' \in BOOLEAN
    BY <1>1, <1>2, <1>6 DEF TypeInv, TypeOK
  <2> HIDE DEF x
  <2> QED
    BY <1>1, <1>5, <2>1, <2>2, <2>3, TypeStep
<1>8. CASE raced'
  BY <1>2, <1>3, <1>5, <1>7, <1>8, RacedStep
<1>9. CASE ~raced'
  <2>1. \A q \in Request : q # r => req'[q].at = "idle"
    BY <1>1, <1>2, <1>5, <1>9, AloneThen
  <2>2. Apart'
    BY <2>1 DEF Apart
  <2>3. CountExact'
    BY <1>4, <1>5 DEF CountExact, Uncounted
  <2>4. \A q \in Request : req'[q].at \in {"idle", "counting"}
    BY <1>3, <1>5, <2>1
  <2>5. \A q \in Request : Right(req[q])'
    BY <2>4 DEF Right
  <2> QED
    BY <1>2, <1>3, <1>5, <1>7, <2>2, <2>3, <2>5 DEF IInv
<1> QED
  BY <1>8, <1>9

\* A request outside the service writes its count.
LEMMA SaveStep ==
    ASSUME IInv, NEW r \in Request, Save(r), req[r].kind \notin InService
    PROVE  IInv'
<1>1. /\ req' = [req EXCEPT ![r] = Idle] /\ current_enrollment' = req[r].count
      /\ UNCHANGED <<enrolled, raced>> /\ req[r].at = "saving"
  BY DEF Save
<1>2. TypeInv /\ req[r].count \in Nat
  BY OneOfThem DEF IInv, Rec
<1>3. TypeInv' /\ \A q \in Request : req'[q] = IF q = r THEN Idle ELSE req[q]
  BY <1>1, <1>2, IdleIsFit, OneChanges DEF TypeInv, TypeOK
<1>4. CASE raced'
  BY <1>3, <1>4, RacedStep
<1>5. CASE ~raced'
  <2>1. ~raced /\ Apart /\ \A q \in Request : Right(req[q])
    BY <1>1, <1>5 DEF IInv
  <2>2. current_enrollment' = Cardinality(enrolled)'
    BY <1>1, <2>1 DEF Right
  <2>3. \A q \in Request : req'[q].at = "idle"
    BY <1>1, <1>3, <2>1, AloneThen, IdleIsFit
  <2> QED
    BY <1>3, <2>2, <2>3 DEF IInv, CountExact, Apart, Right
<1> QED
  BY <1>4, <1>5

\* A transaction commits what it counted while no one else could commit.
LEMMA CommitStep ==
    ASSUME IInv, NEW r \in Request, Commit(r)
    PROVE  /\ IInv' /\ req[r].kind \in InService
           /\ \A q \in Request : IF q = r THEN req'[q] = Idle
                 ELSE req'[q].at = req[q].at /\ req'[q].kind = req[q].kind /\ req'[q].full = req[q].full
<1> DEFINE x == req[r]
<1>1. /\ x \in Rec /\ Fit(x) /\ x.at = "committing" /\ x.student \in Student
      /\ TypeInv /\ req \in [Request -> Rec] /\ raced \in BOOLEAN
  BY OneOfThem DEF Commit, Fit, IInv
<1>2. /\ req' = [q \in Request |-> IF q = r THEN Idle ELSE Outdated(q, x)]
      /\ enrolled' = After(x) /\ current_enrollment' = x.count /\ UNCHANGED raced
  BY DEF Commit
<1>3. HasRow(x) /\ x.kind \in InService /\ x.count \in Nat
  BY <1>1 DEF HasRow, Fit, Rec
<1>4. \A q \in Request : /\ req'[q] \in Rec /\ Fit(req'[q])
                         /\ q = r => req'[q] = Idle
                         /\ q # r => /\ req'[q].at = req[q].at /\ req'[q].kind = req[q].kind
                                     /\ req'[q].full = req[q].full
  <2> SUFFICES ASSUME NEW q \in Request
               PROVE  /\ req'[q] \in Rec /\ Fit(req'[q])
                      /\ q = r => req'[q] = Idle
                      /\ q # r => /\ req'[q].at = req[q].at /\ req'[q].kind = req[q].kind
                                  /\ req'[q].full = req[q].full
    OBVIOUS
  <2>1. CASE q = r
    BY <1>2, <2>1, IdleIsFit
  <2>2. CASE q # r
    <3>1. req'[q] = Outdated(q, x) /\ req[q] \in Rec /\ Fit(req[q])
      BY <1>1, <1>2, <2>2, OneOfThem
    <3> HIDE DEF x
    <3> QED
      BY <2>2, <3>1, OutdatedIsSame DEF Fit, HasRow, Adds
  <2> QED
    BY <2>1, <2>2
<1>5. \A q \in Request : ~HasRow(req'[q])
  <2>1. \A q \in Request : q # r => ~HasRow(req[q])
    BY <1>1, <1>3 DEF TypeInv, TypeOK
  <2> QED
    BY <1>4, <2>1, IdleIsFit DEF HasRow
<1>6. After(x) \in SUBSET Student
  BY <1>1, AfterAreStudents DEF TypeInv
<1>7. TypeInv'
  <2>1. req' \in [Request -> Rec] /\ enrolled' \in SUBSET Student /\ current_enrollment' \in Nat
        /\ raced' \in BOOLEAN
    BY <1>1, <1>2, <1>3, <1>4, <1>6
  <2> HIDE DEF x
  <2> QED
    BY <1>1, <1>4, <1>5, <2>1, TypeStep
<1>8. CASE raced'
  BY <1>3, <1>4, <1>7, <1>8, RacedStep
<1>9. CASE ~raced'
  <2>1. ~raced /\ Apart /\ Right(x)
    BY <1>2, <1>9 DEF IInv
  <2>2. current_enrollment' = Cardinality(enrolled)'
    BY <1>1, <1>2, <2>1 DEF Right
  <2>3. \A q \in Request : req'[q].at # "idle" => q # r /\ req[q].kind \in InService /\ req'[q].kind \in InService
    BY <1>1, <1>4, <2>1, IdleIsFit DEF Apart
  <2>4. Apart'
    BY <2>3 DEF Apart
  <2>5. \A q \in Request : Right(req[q])'
    BY <1>5, <2>3 DEF Right, HasRow
  <2> QED
    BY <1>3, <1>4, <1>7, <2>2, <2>4, <2>5 DEF IInv, CountExact
<1> QED
  BY <1>8, <1>9

-----------------------------------------------------------------------------
(* How far past its capacity a class may be filled.                        *)

LEMMA Fewer ==
    ASSUME NEW S, NEW T, IsFiniteSet(S), T \subseteq S
    PROVE  Cardinality(T) \in Nat /\ Cardinality(S) \in Nat /\ Cardinality(T) <= Cardinality(S)
BY FS_Subset, FS_CardinalityType

LEMMA AllFinite ==
    ASSUME TypeInv
    PROVE  IsFiniteSet(Filling) /\ IsFiniteSet(enrolled) /\ Cardinality(Request) \in Nat
BY SomeRequests, SomeStudents DEF Filling, TypeInv, TypeOK

\* A step that adds no student, and no request to those that may.
LEMMA RoomLeft ==
    ASSUME TypeInv, Room, ~raced, Filling' \subseteq Filling, enrolled' \subseteq enrolled
    PROVE  Room'
<1>1. /\ Cardinality(Filling') <= Cardinality(Filling) /\ Cardinality(enrolled') <= Cardinality(enrolled)
      /\ Cardinality(Filling') \in Nat /\ Cardinality(Filling) \in Nat
      /\ Cardinality(enrolled') \in Nat /\ Cardinality(enrolled) \in Nat
      /\ Cardinality(Request) \in Nat
  BY AllFinite, Fewer
<1> QED
  BY <1>1, ClassAssumption DEF Room

\* One of the requests that may add a student does, or does not.
LEMMA RoomTaken ==
    ASSUME TypeInv, Room, ~raced, NEW r \in Filling, NEW s,
           Filling' \subseteq Filling \ {r}, enrolled' = enrolled \cup {s}
    PROVE  Room'
<1>1. IsFiniteSet(Filling) /\ IsFiniteSet(enrolled) /\ Cardinality(Request) \in Nat
  BY AllFinite
<1>2. IsFiniteSet(Filling \ {r}) /\ Cardinality(Filling \ {r}) = Cardinality(Filling) - 1
  BY <1>1, FS_RemoveElement
<1>3. Cardinality(Filling') <= Cardinality(Filling) - 1 /\ Cardinality(Filling') \in Nat
  BY <1>2, Fewer
<1>4. Cardinality(enrolled') \in Nat /\ Cardinality(enrolled') <= Cardinality(enrolled) + 1
  <2>1. /\ IsFiniteSet(enrolled \cup {s})
        /\ Cardinality(enrolled \cup {s}) =
             IF s \in enrolled THEN Cardinality(enrolled) ELSE Cardinality(enrolled) + 1
    BY <1>1, FS_AddElement
  <2>2. Cardinality(enrolled \cup {s}) \in Nat /\ Cardinality(enrolled) \in Nat
    BY <1>1, <2>1, FS_CardinalityType
  <2> QED
    BY <2>1, <2>2
<1>5. Cardinality(enrolled) \in Nat /\ Cardinality(Filling) \in Nat
  BY <1>1, FS_CardinalityType
<1> QED
  BY <1>1, <1>3, <1>4, <1>5, ClassAssumption DEF Room

\* A request begun while there is a free place: with it, all others may add.
LEMMA LoadRoom ==
    ASSUME IInv, Room, NEW r \in Request, NEW kind \in Kind, NEW s \in Student, Load(r, kind, s)
    PROVE  Room'
<1>1. TypeInv /\ TypeOK /\ CountExact /\ req[r].at = "idle" /\ raced' = (raced \/ Meets(r, kind))
      /\ UNCHANGED <<enrolled, current_enrollment>>
  BY DEF Load, IInv, TypeInv
<1>2. CASE raced'
  BY <1>2 DEF Room
<1>3. CASE ~raced' /\ (current_enrollment >= MaxCapacity \/ kind \notin {"enroll", "create"})
  <2>1. \A q \in Request : Adding(req'[q]) => q # r /\ req'[q] = req[q]
    BY <1>1, <1>3 DEF Load, Adding, TypeOK
  <2>2. Filling' \subseteq Filling
    BY <2>1 DEF Filling, Adding
  <2> QED
    BY <1>1, <1>3, <2>2, RoomLeft
<1>4. CASE ~raced' /\ ~(current_enrollment >= MaxCapacity)
  <2>1. \A q \in Request : q # r /\ req[q].at # "idle" => req[q].kind \in InService
    BY <1>1, <1>4 DEF Meets
  <2>2. \A q \in Request : ~Uncounted(req[q])
    BY <1>1, <2>1 DEF Uncounted
  <2>3. Cardinality(enrolled) < MaxCapacity /\ Cardinality(enrolled) \in Nat
    BY <1>1, <1>4, <2>2, ClassAssumption, SomeStudents DEF CountExact, TypeOK
  <2>4. Filling' \in SUBSET Request
    BY DEF Filling
  <2>5. /\ Cardinality(Filling') <= Cardinality(Request) /\ Cardinality(Filling') \in Nat
        /\ Cardinality(Request) \in Nat
    BY <2>4, SomeRequests
  <2> QED
    BY <1>1, <2>3, <2>5, ClassAssumption DEF Room
<1> QED
  BY <1>2, <1>3, <1>4

LEMMA CommitRoom ==
    ASSUME IInv, Room, NEW r \in Request, Commit(r)
    PROVE  Room'
<1> DEFINE x == req[r]
<1>1. TypeInv /\ x \in Rec /\ Fit(x) /\ x.at = "committing" /\ x.kind \in InService /\ raced' = raced
  BY OneOfThem, CommitStep DEF Commit, IInv
<1>2. \A q \in Request : Adding(req'[q]) => q # r /\ Adding(req[q])
  BY CommitStep, IdleIsFit DEF Adding
<1>3. Filling' \subseteq Filling \ {r}
  BY <1>2 DEF Filling, Adding
<1>4. CASE raced
  BY <1>1, <1>4 DEF Room
<1>5. CASE ~raced /\ x.kind = "unenroll"
  <2>1. enrolled' \subseteq enrolled
    BY <1>5 DEF Commit, After, Adds
  <2> QED
    BY <1>1, <1>3, <1>5, <2>1, RoomLeft
<1>6. CASE ~raced /\ x.kind = "enroll"
  <2>1. r \in Filling
    BY <1>1, <1>6 DEF Filling, Adding, Fit, Adds
  <2>2. enrolled' = enrolled \cup {x.student}
    BY <1>6 DEF Commit, After, Adds
  <2> QED
    BY <1>1, <1>3, <1>6, <2>1, <2>2, RoomTaken
<1> QED
  BY <1>1, <1>4, <1>5, <1>6 DEF InService

LEMMA WriteRoom ==
    ASSUME IInv, Room, NEW r \in Request, Write(r), req[r].kind \notin InService, req'[r] # Idle
    PROVE  Room'
<1> DEFINE x == req[r]
<1>1. TypeInv /\ x \in Rec /\ Fit(x) /\ x.at = "writing" /\ raced' = raced /\ enrolled' = After(x)
  BY OneOfThem, WriteStep DEF Write, IInv
<1>2. \A q \in Request : Adding(req'[q]) => q # r /\ Adding(req[q])
  BY WriteStep DEF Adding, InService
<1>3. Filling' \subseteq Filling \ {r}
  BY <1>2 DEF Filling, Adding
<1>4. CASE raced
  BY <1>1, <1>4 DEF Room
<1>5. CASE ~raced /\ ~Adds(x)
  <2>1. enrolled' \subseteq enrolled
    BY <1>1, <1>5 DEF After
  <2> QED
    BY <1>1, <1>3, <1>5, <2>1, RoomLeft
<1>6. CASE ~raced /\ Adds(x)
  <2>1. r \in Filling
    BY <1>1, <1>6 DEF Filling, Adding, Fit, Adds
  <2>2. enrolled' = enrolled \cup {x.student}
    BY <1>1, <1>6 DEF After
  <2> QED
    BY <1>1, <1>3, <1>6, <2>1, <2>2, RoomTaken
<1> QED
  BY <1>4, <1>5, <1>6

\* The other steps: one request changes, and no student is enrolled.
LEMMA OneRoom ==
    ASSUME IInv, Room, NEW r \in Request, NEW y, req' = [req EXCEPT ![r] = y],
           Adding(y) => Adding(req[r]), enrolled' = enrolled, raced => raced'
    PROVE  Room'
<1>1. TypeInv /\ \A q \in Request : req'[q] = IF q = r THEN y ELSE req[q]
  BY OneOfThem DEF IInv
<1>2. \A q \in Request : Adding(req'[q]) => Adding(req[q])
  BY <1>1
<1>3. Filling' \subseteq Filling
  BY <1>2 DEF Filling, Adding
<1>4. CASE raced
  BY <1>4 DEF Room
<1>5. CASE ~raced
  BY <1>1, <1>3, <1>5, RoomLeft
<1> QED
  BY <1>4, <1>5

-----------------------------------------------------------------------------
(* The invariant.                                                          *)

LEMMA InitHolds == Init => IInv /\ Room
<1> SUFFICES ASSUME Init PROVE IInv /\ Room
  OBVIOUS
<1>1. \A r \in Request : req[r] = Idle
  BY DEF Init
<1>2. Cardinality({}) = 0
  BY FS_EmptySet
<1>3. TypeInv
  BY <1>1, IdleIsFit DEF Init, TypeInv, TypeOK, Rec
<1>4. IInv
  BY <1>1, <1>2, <1>3, IdleIsFit DEF Init, IInv, CountExact, Apart
<1>5. Filling = {} /\ enrolled = {}
  BY <1>1, IdleIsFit DEF Filling, Init
<1>6. Cardinality(Request) \in Nat
  BY SomeRequests
<1> QED
  BY <1>2, <1>4, <1>5, <1>6, ClassAssumption DEF Room

LEMMA StepHolds == IInv /\ Room /\ [Next]_vars => IInv' /\ Room'
<1> SUFFICES ASSUME IInv, Room, [Next]_vars PROVE IInv' /\ Room'
  OBVIOUS
<1>1. ASSUME NEW r \in Request, NEW kind \in Kind, NEW s \in Student, Load(r, kind, s)
      PROVE  IInv' /\ Room'
  BY <1>1, LoadStep, LoadRoom
<1>2. ASSUME NEW r \in Request, Die(r) PROVE IInv' /\ Room'
  BY <1>2, DieStep, OneRoom, IdleIsFit DEF Die
<1>3. ASSUME NEW r \in Request, Quiet(r) PROVE IInv' /\ Room'
  <2>1. PICK y \in Rec : req' = [req EXCEPT ![r] = y] /\ (Adding(y) => Adding(req[r]))
    BY <1>3, QuietStep
  <2>2. IInv' /\ UNCHANGED <<enrolled, raced>>
    BY <1>3, QuietStep
  <2>3. Room'
    BY <2>1, <2>2, OneRoom
  <2> QED
    BY <2>2, <2>3
<1>4. ASSUME NEW r \in Request, Write(r), req[r].kind \notin InService, req'[r] # Idle
      PROVE  IInv' /\ Room'
  BY <1>4, WriteStep, WriteRoom
<1>5. ASSUME NEW r \in Request, Save(r), req[r].kind \notin InService PROVE IInv' /\ Room'
  <2>1. req' = [req EXCEPT ![r] = Idle] /\ UNCHANGED <<enrolled, raced>>
    BY <1>5 DEF Save
  <2> QED
    BY <1>5, <2>1, SaveStep, OneRoom, IdleIsFit
<1>6. ASSUME NEW r \in Request, Commit(r) PROVE IInv' /\ Room'
  BY <1>6, CommitStep, CommitRoom
<1>7. CASE UNCHANGED vars
  BY <1>7 DEF vars, IInv, TypeInv, TypeOK, CountExact, Apart, Fit, Right, HasRow, After, Adds, Removes,
              Uncounted, Room, Filling, Adding
<1>8. ASSUME NEW r \in Request, Step(r) PROVE IInv' /\ Room'
  BY <1>3, <1>4, <1>5, <1>6, <1>8 DEF Step, Quiet
<1> QED
  BY <1>1, <1>2, <1>7, <1>8 DEF Next

LEMMA InvariantHolds == Spec => [](IInv /\ Room)
BY InitHolds, StepHolds, PTL DEF Spec

(* TypeOK: whatever overlaps or dies, one request at a time has the row.    *)
THEOREM EnrollmentTypeCorrect == Spec => []TypeOK
<1>1. IInv => TypeOK
  BY DEF IInv, TypeInv
<1> QED
  BY <1>1, InvariantHolds, PTL

(* CountExact: the class row tells how many students are enrolled, for the  *)
(* service's last count is made by the only one who may commit, and the     *)
(* other requests count alone or have raced.                                *)
THEOREM CountAlwaysExact == Spec => []CountExact
<1>1. IInv => CountExact
  BY DEF IInv
<1> QED
  BY <1>1, InvariantHolds, PTL

(* BoundedOverfill: the capacity is checked on a copy, so that requests     *)
(* which overlap may overfill a class, each by at most one student.         *)
THEOREM OverfillBounded == Spec => []BoundedOverfill
<1>1. IInv /\ Room => BoundedOverfill
  <2> SUFFICES ASSUME IInv, Room, ~raced
               PROVE  Cardinality(enrolled) < MaxCapacity + Cardinality(Request)
    BY DEF BoundedOverfill
  <2>1. IsFiniteSet(Filling) /\ IsFiniteSet(enrolled) /\ Cardinality(Request) \in Nat
    BY AllFinite DEF IInv
  <2>2. Cardinality(Filling) \in Nat /\ Cardinality(enrolled) \in Nat
    BY <2>1, FS_CardinalityType
  <2> QED
    BY <2>1, <2>2, ClassAssumption DEF Room
<1> QED
  BY <1>1, InvariantHolds, PTL
=============================================================================
