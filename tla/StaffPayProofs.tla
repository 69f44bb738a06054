--------------------------- MODULE StaffPayProofs ----------------------------
(***************************************************************************)
(* What the locks of evaluate_session_pay_schedules guarantee for every    *)
(* number of workers, sessions and cycles: runs that overlap do not write  *)
(* over one another's counts, and unless a cycle is added under the eyes   *)
(* of a run that looks for one, they pay a session once.                   *)
(***************************************************************************)
EXTENDS StaffPay, LargestProofs, SequenceTheorems, TLAPS

Working == {"counting", "saving", "drafting", "invoicing", "appending", "committing"}

(* No other run holds row k.                                               *)
Free(w, k) == \A q \in Worker \ {w} : k \notin HeldBy(run[q])

(* No row is held by two runs.                                              *)
Exclusive == \A w, q \in Worker : w # q => HeldBy(run[w]) \cap HeldBy(run[q]) = {}

(* A run works on a cycle that exists, having all that is counted in it, or *)
(* on the next one.                                                         *)
Sound(x) ==
    /\ x.at \in Working \cup {"creating"} => x.number \in 1 .. Len(cycles) + 1
    /\ x.at \in Working /\ x.number \in DOMAIN cycles =>
         cycles[x.number].dates \subseteq x.row.dates
    /\ x.at \in {"counting", "saving", "drafting", "invoicing"} => ~Billed(x.row)
    /\ x.at = "invoicing" => x.invoice # Unbilled
    /\ x.at = "appending" => Billed(x.row)
    /\ x.at = "committing" /\ Billed(x.row) => Len(cycles) <= x.number
    /\ x.at # "saving" => x.delta = {}

IInv == TypeOK /\ Exclusive /\ \A w \in Worker : Sound(run[w])

(* There is a number above all those of the invoices, so that there is a     *)
(* last one for the next to follow.                                         *)
UpTo(b) ==
    /\ \A k \in DOMAIN cycles : cycles[k].invoice <= b
    /\ \A w \in Worker : run[w].invoice <= b /\ run[w].row.invoice <= b
Bounded == \E b \in Nat : UpTo(b)

-----------------------------------------------------------------------------
(* Facts about the helpers.                                                *)

\* The last of some dates is one of them, and none is after it.
LEMMA LastDateOf ==
    ASSUME NEW S \in SUBSET Date, S # {}
    PROVE  Latest(S) \in S /\ \A d \in S : d <= Latest(S)
<1>1. S \in SUBSET Nat /\ LastDate \in Nat /\ \A d \in S : d <= LastDate
  BY PayAssumption DEF Date
<1> QED
  BY <1>1, LatestExists

LEMMA SomeDates ==
    ASSUME NEW S \in SUBSET Date
    PROVE  IsFiniteSet(S) /\ Cardinality(S) \in Nat
<1>1. IsFiniteSet(Date)
  BY PayAssumption, FS_Interval DEF Date
<1> QED
  BY <1>1, FS_Subset, FS_CardinalityType

LEMMA Appended ==
    ASSUME NEW s \in Seq(Cycle), NEW c \in Cycle
    PROVE  /\ Append(s, c) \in Seq(Cycle)
           /\ Len(Append(s, c)) = Len(s) + 1
           /\ Append(s, c)[Len(s) + 1] = c
           /\ \A k \in 1 .. Len(s) : Append(s, c)[k] = s[k]
BY AppendProperties

LEMMA Written ==
    ASSUME NEW s \in Seq(Cycle), NEW i \in 1 .. Len(s), NEW c \in Cycle
    PROVE  /\ [s EXCEPT ![i] = c] \in Seq(Cycle)
           /\ Len([s EXCEPT ![i] = c]) = Len(s)
           /\ [s EXCEPT ![i] = c][i] = c
           /\ \A k \in 1 .. Len(s) : k # i => [s EXCEPT ![i] = c][k] = s[k]
BY ExceptSeq

LEMMA CyclesAreRows ==
    ASSUME TypeOK
    PROVE  /\ Len(cycles) \in Nat /\ DOMAIN cycles = 1 .. Len(cycles)
           /\ \A k \in 1 .. Len(cycles) : cycles[k] \in Cycle
           /\ cycles # <<>> => Len(cycles) \in 1 .. Len(cycles)
BY LenProperties, ElementOfSeq, EmptySeq DEF TypeOK

LEMMA NewCycleIsCycle ==
    ASSUME NEW d \in Date \cup {NoDate}
    PROVE  NewCycle(d) \in Cycle /\ ~Billed(NewCycle(d))
BY DEF NewCycle, Cycle, Unbilled, Billed

LEMMA NoRunIsRun == NoRun \in Run /\ NewCycle(NoDate) \in Cycle
BY NewCycleIsCycle DEF NoRun, Run, Unbilled

\* What counting adds to a row: dates after its last_counted_date.
LEMMA CountedIsCycle ==
    ASSUME TypeOK, NEW row \in Cycle, NEW delta \in SUBSET Date, delta \subseteq Uncounted(row)
    PROVE  /\ Counted(row, delta) \in Cycle
           /\ Counted(row, delta).dates = row.dates \cup delta
           /\ Counted(row, delta).invoice = row.invoice
           /\ delta = {} => Counted(row, delta) = row
           /\ delta # {} => /\ row.last_counted_date < Counted(row, delta).last_counted_date
                            /\ \A d \in delta : d <= Counted(row, delta).last_counted_date
<1>1. CASE delta = {}
  BY <1>1 DEF Counted
<1>2. CASE delta # {}
  <2>1. Uncounted(row) \in SUBSET Date /\ Uncounted(row) # {}
    BY <1>2 DEF Uncounted, TypeOK
  <2>2. /\ Latest(Uncounted(row)) \in Date
        /\ Latest(Uncounted(row)) > row.last_counted_date
        /\ \A d \in Uncounted(row) : d <= Latest(Uncounted(row))
    BY <2>1, LastDateOf DEF Uncounted
  <2>3. row.last_counted_date \in Nat /\ Latest(Uncounted(row)) \in Nat
    BY <2>2, PayAssumption DEF Cycle, Date, NoDate
  <2>4. row.sessions_counted + Cardinality(delta) \in Nat
    BY SomeDates DEF Cycle
  <2> HIDE DEF Uncounted
  <2> QED
    BY <1>2, <2>2, <2>3, <2>4 DEF Counted, Cycle
<1> QED
  BY <1>1, <1>2

-----------------------------------------------------------------------------
(* The steps of a run that write no cycle.                                 *)

\* One run changes, keeps to what it holds or takes what is free.
LEMMA RunStep ==
    ASSUME IInv, NEW w \in Worker, NEW x \in Run,
           run' = [run EXCEPT ![w] = x], UNCHANGED <<present, cycles, overtaken>>,
           x.seen \subseteq DOMAIN cycles, x.delta \subseteq Uncounted(x.row), Sound(x),
           \A k \in HeldBy(x) : k \in HeldBy(run[w]) \/ Free(w, k)
    PROVE  IInv'
<1>1. TypeOK'
  <2>1. run' \in [Worker -> Run]
    BY DEF IInv, TypeOK
  <2>2. \A q \in Worker : /\ run'[q].seen \subseteq DOMAIN cycles
                          /\ run'[q].delta \subseteq Uncounted(run'[q].row)
    BY DEF IInv, TypeOK
  <2> QED
    BY <2>1, <2>2 DEF IInv, TypeOK, Uncounted
<1>2. Exclusive'
  <2>1. \A q \in Worker : q # w => HeldBy(x) \cap HeldBy(run[q]) = {}
    BY DEF IInv, Exclusive, Free
  <2>2. \A q \in Worker : run'[q] = IF q = w THEN x ELSE run[q]
    BY DEF IInv, TypeOK
  <2>3. \A q, p \in Worker : q # p => HeldBy(run'[q]) \cap HeldBy(run'[p]) = {}
    BY <2>1, <2>2 DEF IInv, Exclusive
  <2> QED
    BY <2>3 DEF Exclusive, HeldBy
<1>3. \A q \in Worker : Sound(run[q])'
  <2>1. \A q \in Worker : run'[q] = IF q = w THEN x ELSE run[q]
    BY DEF IInv, TypeOK
  <2>2. \A q \in Worker : Sound(run'[q])
    BY <2>1 DEF IInv
  <2> QED
    BY <2>2 DEF Sound
<1> QED
  BY <1>1, <1>2, <1>3 DEF IInv

LEMMA EndStep ==
    ASSUME IInv, NEW w \in Worker, run' = [run EXCEPT ![w] = NoRun], UNCHANGED <<present, cycles, overtaken>>
    PROVE  IInv'
<1>1. Sound(NoRun) /\ HeldBy(NoRun) = {}
  BY DEF Sound, HeldBy, NoRun, Working
<1>2. NoRun.seen \subseteq DOMAIN cycles /\ NoRun.delta \subseteq Uncounted(NoRun.row)
  BY DEF NoRun
<1> QED
  BY <1>1, <1>2, NoRunIsRun, RunStep

LEMMA FindStep == ASSUME IInv, NEW w \in Worker, Find(w) PROVE IInv'
<1> DEFINE x == [run[w] EXCEPT !.at = "locking", !.seen = {k \in DOMAIN cycles : Open(k)}]
<1>1. run' = [run EXCEPT ![w] = x] /\ UNCHANGED <<present, cycles, overtaken>>
  BY DEF Find, IInv, TypeOK
<1>2. run[w] \in Run /\ run[w].delta \subseteq Uncounted(run[w].row)
  BY DEF IInv, TypeOK
<1>3. DOMAIN cycles \subseteq Nat
  BY CyclesAreRows DEF IInv
<1>4. x \in Run /\ x.at = "locking" /\ x.seen \subseteq DOMAIN cycles
      /\ x.delta = run[w].delta /\ x.row = run[w].row
  BY <1>2, <1>3 DEF Run
<1> HIDE DEF x
<1>5. run[w].delta = {}
  BY DEF Find, IInv, Sound
<1>6. Sound(x) /\ HeldBy(x) = {}
  BY <1>4, <1>5 DEF Sound, HeldBy, Working
<1> QED
  BY <1>1, <1>2, <1>4, <1>6, RunStep

\* A row that has been locked is as it was committed.
LEMMA LockStep == ASSUME IInv, NEW w \in Worker, Lock(w) PROVE IInv'
<1> DEFINE k == Latest(run[w].seen)
<1>1. /\ run[w] \in Run /\ run[w].delta \subseteq Uncounted(run[w].row)
      /\ run[w].seen \subseteq DOMAIN cycles /\ run[w].delta = {}
  BY DEF Lock, IInv, TypeOK, Sound
<1>2. Len(cycles) \in Nat /\ DOMAIN cycles = 1 .. Len(cycles)
      /\ \A j \in 1 .. Len(cycles) : cycles[j] \in Cycle
  BY CyclesAreRows DEF IInv
<1>3. CASE run[w].seen = {}
  <2> DEFINE x == [run[w] EXCEPT !.at = "numbering"]
  <2>1. run' = [run EXCEPT ![w] = x] /\ UNCHANGED <<present, cycles, overtaken>>
    BY <1>3 DEF Lock, IInv, TypeOK
  <2>2. x \in Run /\ x.at = "numbering" /\ x.seen = run[w].seen
        /\ x.delta = run[w].delta /\ x.row = run[w].row
    BY <1>1 DEF Run
  <2> HIDE DEF x
  <2>3. Sound(x) /\ HeldBy(x) = {}
    BY <1>1, <2>2 DEF Sound, HeldBy, Working
  <2> QED
    BY <1>1, <2>1, <2>2, <2>3, RunStep
<1>4. CASE run[w].seen # {}
  <2>1. k \in run[w].seen /\ k \in 1 .. Len(cycles) /\ cycles[k] \in Cycle
    <3>1. run[w].seen \in SUBSET Nat /\ \A j \in run[w].seen : j <= Len(cycles)
      BY <1>1, <1>2
    <3> QED
      BY <1>1, <1>2, <1>4, <3>1, LatestExists
  <2> HIDE DEF k
  <2>2. CASE Open(k)
    <3> DEFINE x == [run[w] EXCEPT !.at = "counting", !.number = k, !.row = cycles[k]]
    <3>1. run' = [run EXCEPT ![w] = x] /\ UNCHANGED <<present, cycles, overtaken>>
      BY <1>4, <2>2 DEF Lock, IInv, TypeOK, k
    <3>0. Free(w, k)
      BY <1>4 DEF Lock, WaitsFor, Free, k
    <3>2. x \in Run /\ x.at = "counting" /\ x.seen = run[w].seen /\ x.number = k
          /\ x.delta = run[w].delta /\ x.row = cycles[k]
      BY <1>1, <1>2, <2>1 DEF Run
    <3> HIDE DEF x
    <3>3. Sound(x) /\ HeldBy(x) = {k}
      BY <1>1, <1>2, <2>1, <2>2, <3>2 DEF Sound, HeldBy, Working, Open
    <3>4. x.delta \subseteq Uncounted(x.row)
      BY <1>1, <3>2
    <3>5. \A j \in HeldBy(x) : Free(w, j)
      BY <3>0, <3>3
    <3>6. x.seen \subseteq DOMAIN cycles
      BY <1>1, <3>2
    <3> QED
      BY <3>1, <3>2, <3>3, <3>4, <3>5, <3>6, RunStep
  <2>3. CASE ~Open(k)
    <3> DEFINE x == [run[w] EXCEPT !.seen = @ \ {k}]
    <3>1. run' = [run EXCEPT ![w] = x] /\ UNCHANGED <<present, cycles, overtaken>>
      BY <1>4, <2>3 DEF Lock, IInv, TypeOK, k
    <3>2. x \in Run /\ x.at = "locking" /\ x.seen = run[w].seen \ {k}
          /\ x.delta = run[w].delta /\ x.row = run[w].row
      BY <1>1 DEF Run, Lock
    <3> HIDE DEF x
    <3>3. Sound(x) /\ HeldBy(x) = {}
      BY <1>1, <3>2 DEF Sound, HeldBy, Working
    <3> QED
      BY <1>1, <3>1, <3>2, <3>3, RunStep
  <2> QED
    BY <2>2, <2>3
<1> QED
  BY <1>3, <1>4

LEMMA NumberStep == ASSUME IInv, NEW w \in Worker, Number(w) PROVE IInv'
<1> DEFINE x == [run[w] EXCEPT !.at = "creating", !.number = Len(cycles) + 1]
<1>1. /\ run[w] \in Run /\ run[w].seen \subseteq DOMAIN cycles
      /\ run[w].delta = {} /\ Len(cycles) \in Nat
  BY CyclesAreRows DEF Number, IInv, TypeOK, Sound
<1>2. run' = [run EXCEPT ![w] = x] /\ UNCHANGED <<present, cycles, overtaken>>
  BY DEF Number, IInv, TypeOK
<1>3. x \in Run /\ x.at = "creating" /\ x.seen = run[w].seen /\ x.number = Len(cycles) + 1
      /\ x.delta = run[w].delta
  <2>1. Len(cycles) + 1 \in Nat
    BY <1>1
  <2> QED
    BY <1>1, <2>1 DEF Run
<1> HIDE DEF x
<1>4. Sound(x) /\ HeldBy(x) = {}
  BY <1>1, <1>3 DEF Sound, HeldBy, Working
<1> QED
  BY <1>1, <1>2, <1>3, <1>4, RunStep

\* An insertion goes ahead only under a number that nobody has, and a number
\* that is not among the committed ones is free if no run has written it.
LEMMA InsertStep ==
    ASSUME IInv, NEW w \in Worker, NEW taken \in BOOLEAN, NEW x \in Run, Inserts(w, taken, x),
           x.seen \subseteq DOMAIN cycles, x.delta = {}, ~taken => Sound(x),
           ~taken /\ WaitsFor(w) = {} => \A k \in HeldBy(x) : k \in HeldBy(run[w]) \/ Free(w, k)
    PROVE  IInv'
<1>1. WaitsFor(w) = {} /\ UNCHANGED <<present, cycles, overtaken>>
  BY DEF Inserts
<1>2. CASE taken
  BY <1>1, <1>2, EndStep DEF Inserts
<1>3. CASE ~taken
  BY <1>1, <1>3, RunStep DEF Inserts
<1> QED
  BY <1>2, <1>3

LEMMA UnwrittenIsFree ==
    ASSUME NEW w \in Worker, NEW k, k \notin DOMAIN cycles,
           \A q \in Worker \ {w} : k \notin WrittenBy(run[q])
    PROVE  Free(w, k)
BY DEF Free, WrittenBy

LEMMA CreateStep == ASSUME IInv, NEW w \in Worker, Create(w) PROVE IInv'
<1> DEFINE x == [run[w] EXCEPT !.at = "counting", !.row = NewCycle(NoDate)]
           n == run[w].number
           taken == n \in DOMAIN cycles
<1>1. /\ run[w] \in Run /\ run[w].seen \subseteq DOMAIN cycles /\ run[w].delta = {}
      /\ n \in 1 .. Len(cycles) + 1 /\ Len(cycles) \in Nat /\ run[w].at = "creating"
  BY CyclesAreRows DEF Create, IInv, TypeOK, Sound
<1>2. Inserts(w, taken, x) /\ taken \in BOOLEAN
  BY DEF Create
<1>3. /\ x \in Run /\ x.at = "counting" /\ x.seen = run[w].seen /\ x.number = n
      /\ x.delta = run[w].delta /\ ~Billed(x.row)
  BY <1>1, NoRunIsRun, NewCycleIsCycle DEF Run
<1> HIDE DEF x
<1>4. HeldBy(x) = {n}
  BY <1>3 DEF HeldBy
<1>5. ~taken => Sound(x)
  BY <1>1, <1>3 DEF Sound, Working
<1>6. ~taken /\ WaitsFor(w) = {} => Free(w, n)
  <2> SUFFICES ASSUME ~taken, WaitsFor(w) = {} PROVE Free(w, n)
    OBVIOUS
  <2>1. \A q \in Worker \ {w} : n \notin WrittenBy(run[q])
    BY <1>1 DEF WaitsFor
  <2> QED
    BY <2>1, UnwrittenIsFree
<1> HIDE DEF n, taken
<1> QED
  BY <1>1, <1>2, <1>3, <1>4, <1>5, <1>6, InsertStep

LEMMA CountStep == ASSUME IInv, NEW w \in Worker, Count(w) PROVE IInv'
<1> DEFINE x == [run[w] EXCEPT !.at = "saving", !.delta = Uncounted(run[w].row)]
<1>1. /\ run[w] \in Run /\ run[w].seen \subseteq DOMAIN cycles
      /\ Sound(run[w]) /\ run[w].at = "counting"
  BY DEF Count, IInv, TypeOK
<1>2. run' = [run EXCEPT ![w] = x] /\ UNCHANGED <<present, cycles, overtaken>>
  BY DEF Count, IInv, TypeOK
<1>3. Uncounted(run[w].row) \in SUBSET Date
  BY DEF Uncounted, IInv, TypeOK
<1>4. x \in Run /\ x.at = "saving" /\ x.seen = run[w].seen /\ x.number = run[w].number
      /\ x.delta = Uncounted(run[w].row) /\ x.row = run[w].row
  BY <1>1, <1>3 DEF Run
<1> HIDE DEF x
<1>5. Sound(x) /\ HeldBy(x) = HeldBy(run[w])
  BY <1>1, <1>4 DEF Sound, HeldBy, Working
<1> QED
  BY <1>1, <1>2, <1>4, <1>5, RunStep

LEMMA SaveStep == ASSUME IInv, NEW w \in Worker, Save(w) PROVE IInv'
<1> DEFINE row == Counted(run[w].row, run[w].delta)
           at  == IF row.sessions_counted >= SessionsPerCycle THEN "drafting" ELSE "committing"
           x   == [run[w] EXCEPT !.row = row, !.delta = {}, !.at = at]
<1>1. /\ run[w] \in Run /\ run[w].seen \subseteq DOMAIN cycles
      /\ run[w].row \in Cycle /\ run[w].delta \in SUBSET Date
      /\ run[w].delta \subseteq Uncounted(run[w].row)
      /\ Sound(run[w]) /\ run[w].at = "saving"
  BY DEF Save, IInv, TypeOK, Run
<1>2. row \in Cycle /\ run[w].row.dates \subseteq row.dates /\ row.invoice = run[w].row.invoice
  BY <1>1, CountedIsCycle DEF IInv
<1> HIDE DEF row
<1>3. run' = [run EXCEPT ![w] = x] /\ UNCHANGED <<present, cycles, overtaken>>
  BY DEF Save, IInv, TypeOK, row
<1>4. at \in {"drafting", "committing"}
  OBVIOUS
<1> HIDE DEF at
<1>5. x \in Run /\ x.at = at /\ x.seen = run[w].seen /\ x.number = run[w].number
      /\ x.delta = {} /\ x.row = row
  BY <1>1, <1>2, <1>4 DEF Run
<1> HIDE DEF x
<1>6. ~Billed(row)
  BY <1>1, <1>2 DEF Sound, Billed
<1>7. Sound(x) /\ HeldBy(x) = HeldBy(run[w])
  BY <1>1, <1>2, <1>4, <1>5, <1>6 DEF Sound, HeldBy, Working
<1> QED
  BY <1>1, <1>3, <1>5, <1>7, RunStep

LEMMA LastNumber ==
    ASSUME TypeOK, Bounded
    PROVE  Latest({0} \cup Numbers) \in Nat
<1>1. PICK b \in Nat : \A k \in DOMAIN cycles : cycles[k].invoice <= b
  BY DEF Bounded, UpTo
<1>2. \A k \in DOMAIN cycles : cycles[k].invoice \in Nat
  BY CyclesAreRows DEF Cycle
<1> DEFINE S == {0} \cup Numbers
<1>3. S \in SUBSET Nat /\ S # {} /\ \A v \in S : v <= b
  BY <1>1, <1>2 DEF Numbers
<1> HIDE DEF S
<1>4. Latest(S) \in S
  BY <1>1, <1>3, LatestExists
<1> QED
  BY <1>3, <1>4 DEF S

LEMMA DraftStep == ASSUME IInv, Bounded, NEW w \in Worker, Draft(w) PROVE IInv'
<1> DEFINE v == Latest({0} \cup Numbers) + 1
           x == [run[w] EXCEPT !.at = "invoicing", !.invoice = v]
<1>1. /\ run[w] \in Run /\ run[w].seen \subseteq DOMAIN cycles
      /\ run[w].delta \subseteq Uncounted(run[w].row)
      /\ Sound(run[w]) /\ run[w].at = "drafting"
  BY DEF Draft, IInv, TypeOK
<1>2. v \in Nat /\ v # Unbilled
  BY LastNumber DEF IInv, Unbilled
<1>3. run' = [run EXCEPT ![w] = x] /\ UNCHANGED <<present, cycles, overtaken>>
  BY DEF Draft, IInv, TypeOK
<1> HIDE DEF v
<1>4. x \in Run /\ x.at = "invoicing" /\ x.seen = run[w].seen /\ x.number = run[w].number
      /\ x.delta = run[w].delta /\ x.row = run[w].row /\ x.invoice = v
  BY <1>1, <1>2 DEF Run
<1> HIDE DEF x
<1>5. Sound(x) /\ HeldBy(x) = HeldBy(run[w])
  BY <1>1, <1>2, <1>4 DEF Sound, HeldBy, Working
<1> QED
  BY <1>1, <1>3, <1>4, <1>5, RunStep

LEMMA InvoiceStep == ASSUME IInv, NEW w \in Worker, Invoice(w) PROVE IInv'
<1> DEFINE n == run[w].invoice
           x == [run[w] EXCEPT !.at = "appending", !.row.invoice = n]
           taken == n \in Numbers
<1>1. /\ run[w] \in Run /\ run[w].seen \subseteq DOMAIN cycles /\ run[w].row \in Cycle
      /\ Sound(run[w]) /\ run[w].at = "invoicing" /\ n \in Nat /\ n # Unbilled
  BY DEF Invoice, IInv, TypeOK, Run, Sound
<1>2. Inserts(w, taken, x) /\ taken \in BOOLEAN
  BY DEF Invoice
<1> HIDE DEF n, taken
<1>3. x \in Run /\ x.at = "appending" /\ x.seen = run[w].seen /\ x.number = run[w].number
      /\ x.delta = run[w].delta /\ x.row.dates = run[w].row.dates /\ Billed(x.row)
  BY <1>1 DEF Run, Cycle, Billed
<1> HIDE DEF x
<1>4. Sound(x) /\ HeldBy(x) = HeldBy(run[w]) /\ x.delta = {}
  BY <1>1, <1>3 DEF Sound, HeldBy, Working
<1> QED
  BY <1>1, <1>2, <1>3, <1>4, InsertStep

LEMMA AppendNextStep == ASSUME IInv, NEW w \in Worker, AppendNext(w) PROVE IInv'
<1> DEFINE x == [run[w] EXCEPT !.at = "committing"]
           k == run[w].number + 1
           taken == k \in DOMAIN cycles
<1>1. /\ run[w] \in Run /\ run[w].seen \subseteq DOMAIN cycles
      /\ run[w].number \in Nat /\ Sound(run[w]) /\ run[w].at = "appending"
      /\ Len(cycles) \in Nat /\ DOMAIN cycles = 1 .. Len(cycles)
  BY CyclesAreRows DEF AppendNext, IInv, TypeOK, Run
<1>2. Inserts(w, taken, x) /\ taken \in BOOLEAN
  BY DEF AppendNext
<1>3. x \in Run /\ x.at = "committing" /\ x.seen = run[w].seen /\ x.number = run[w].number
      /\ x.delta = run[w].delta /\ x.row = run[w].row
  BY <1>1 DEF Run
<1> HIDE DEF x
<1>4. HeldBy(x) \subseteq HeldBy(run[w]) \cup {k}
  BY <1>1, <1>3 DEF HeldBy
<1>5. ~taken => Sound(x)
  BY <1>1, <1>3 DEF Sound, Working
<1>6. x.delta = {}
  BY <1>1, <1>3 DEF Sound
<1>7. ~taken /\ WaitsFor(w) = {} => Free(w, k)
  <2> SUFFICES ASSUME ~taken, WaitsFor(w) = {} PROVE Free(w, k)
    OBVIOUS
  <2>1. \A q \in Worker \ {w} : k \notin WrittenBy(run[q])
    BY <1>1 DEF WaitsFor
  <2> QED
    BY <2>1, UnwrittenIsFree
<1> HIDE DEF k, taken
<1> QED
  BY <1>1, <1>2, <1>3, <1>4, <1>5, <1>6, <1>7, InsertStep

-----------------------------------------------------------------------------
(* The commit.                                                             *)

\* What a commit writes: the row of the run, and the next cycle if it has made
\* an invoice; all else stays, and what it writes it has held.
LEMMA CommitWrites ==
    ASSUME IInv, NEW w \in Worker, Commit(w)
    PROVE  LET x == run[w] IN
           /\ cycles' \in Seq(Cycle) /\ DOMAIN cycles' = 1 .. Len(cycles')
           /\ Len(cycles') \in Nat /\ Len(cycles) \in Nat
           /\ DOMAIN cycles = 1 .. Len(cycles)
           /\ x.number \in 1 .. Len(cycles) + 1 /\ x.row \in Cycle
           /\ Len(cycles) <= Len(cycles')
           /\ Billed(x.row) => Len(cycles') = x.number + 1
           /\ ~Billed(x.row) => Len(cycles') = IF x.number = Len(cycles) + 1
                                                THEN Len(cycles) + 1 ELSE Len(cycles)
           /\ cycles'[x.number] = x.row
           /\ Billed(x.row) => cycles'[x.number + 1] = NewCycle(x.row.last_counted_date)
           /\ \A k \in 1 .. Len(cycles) : k # x.number => cycles'[k] = cycles[k]
<1> DEFINE x    == run[w]
           n    == x.number
           mine == IF n \in DOMAIN cycles THEN [cycles EXCEPT ![n] = x.row]
                                          ELSE Append(cycles, x.row)
           next == NewCycle(x.row.last_counted_date)
<1>1. /\ x.at = "committing" /\ x \in Run /\ x.row \in Cycle /\ Sound(x)
      /\ Len(cycles) \in Nat /\ DOMAIN cycles = 1 .. Len(cycles) /\ cycles \in Seq(Cycle)
  BY CyclesAreRows DEF Commit, IInv, TypeOK, Run
<1>2. n \in 1 .. Len(cycles) + 1 /\ (Billed(x.row) => Len(cycles) <= n)
  BY <1>1 DEF Sound, Working
<1>3. cycles' = IF Billed(x.row) THEN Append(mine, next) ELSE mine
  BY DEF Commit
<1>4. next \in Cycle
  BY <1>1, NewCycleIsCycle DEF Cycle
<1>5. /\ mine \in Seq(Cycle) /\ mine[n] = x.row
      /\ Len(mine) = IF n = Len(cycles) + 1 THEN Len(cycles) + 1 ELSE Len(cycles)
      /\ \A k \in 1 .. Len(cycles) : k # n => mine[k] = cycles[k]
  <2>1. CASE n \in 1 .. Len(cycles)
    <3>1. mine = [cycles EXCEPT ![n] = x.row] /\ n # Len(cycles) + 1
      BY <1>1, <2>1
    <3> QED
      BY <1>1, <2>1, <3>1, Written
  <2>2. CASE n = Len(cycles) + 1
    <3>1. n \notin DOMAIN cycles /\ mine = Append(cycles, x.row)
      BY <1>1, <2>2
    <3> QED
      BY <1>1, <2>2, <3>1, Appended
  <2> QED
    BY <1>1, <1>2, <2>1, <2>2
<1> HIDE DEF mine, next
<1>6. /\ cycles' \in Seq(Cycle) /\ cycles'[n] = x.row /\ Len(cycles) <= Len(cycles')
      /\ Len(cycles') = IF Billed(x.row) THEN n + 1 ELSE Len(mine)
      /\ Billed(x.row) => cycles'[n + 1] = next
      /\ \A k \in 1 .. Len(cycles) : k # n => cycles'[k] = cycles[k]
  <2>1. CASE Billed(x.row)
    <3>1. Len(mine) = n /\ n \in 1 .. n /\ Len(cycles) <= n
      BY <1>1, <1>2, <1>5, <2>1
    <3>2. /\ cycles' \in Seq(Cycle) /\ Len(cycles') = n + 1 /\ cycles'[n + 1] = next
          /\ \A k \in 1 .. n : cycles'[k] = mine[k]
      BY <1>3, <1>4, <1>5, <2>1, <3>1, Appended
    <3>3. \A k \in 1 .. Len(cycles) : k \in 1 .. n
      BY <1>1, <1>2, <3>1
    <3>4. Len(cycles) <= n + 1
      BY <1>1, <1>2, <3>1
    <3> HIDE DEF n, x
    <3> QED
      BY <1>5, <2>1, <3>1, <3>2, <3>3, <3>4
  <2>2. CASE ~Billed(x.row)
    <3>1. cycles' = mine
      BY <1>3, <2>2
    <3>2. Len(cycles) <= Len(mine)
      BY <1>1, <1>5
    <3> HIDE DEF n, x
    <3> QED
      BY <1>5, <2>2, <3>1, <3>2
  <2> QED
    BY <2>1, <2>2
<1>7. DOMAIN cycles' = 1 .. Len(cycles') /\ Len(cycles') \in Nat
  BY <1>6, LenProperties
<1> QED
  BY <1>1, <1>2, <1>5, <1>6, <1>7 DEF next

LEMMA CommitWritesHeld ==
    ASSUME IInv, NEW w \in Worker, Commit(w), NEW k \in 1 .. Len(cycles'), k \notin HeldBy(run[w])
    PROVE  k \in 1 .. Len(cycles) /\ cycles'[k] = cycles[k]
<1> DEFINE x == run[w]
<1>1. x.at = "committing" /\ Sound(x)
  BY DEF Commit, IInv
<1>2. HeldBy(x) = {x.number} \cup (IF Billed(x.row) THEN {x.number + 1} ELSE {})
  BY <1>1 DEF HeldBy
<1>3. k # x.number /\ (Billed(x.row) => k # x.number + 1)
  BY <1>2
<1>4. /\ Len(cycles') \in Nat /\ Len(cycles) \in Nat /\ x.number \in 1 .. Len(cycles) + 1
      /\ Billed(x.row) => Len(cycles') = x.number + 1
      /\ ~Billed(x.row) => Len(cycles') = IF x.number = Len(cycles) + 1
                                           THEN Len(cycles) + 1 ELSE Len(cycles)
      /\ \A j \in 1 .. Len(cycles) : j # x.number => cycles'[j] = cycles[j]
  BY CommitWrites
<1> HIDE DEF x
<1>5. k \in 1 .. Len(cycles)
  BY <1>3, <1>4
<1> QED
  BY <1>3, <1>4, <1>5

LEMMA CommitKeepsCounts ==
    ASSUME IInv, NEW w \in Worker, Commit(w)
    PROVE  \A k \in DOMAIN cycles : k \in DOMAIN cycles' /\ cycles[k].dates \subseteq cycles'[k].dates
<1>1. run[w].number \in DOMAIN cycles => cycles[run[w].number].dates \subseteq run[w].row.dates
  BY DEF IInv, Sound, Commit, Working
<1> QED
  BY <1>1, CommitWrites

LEMMA CommitStep == ASSUME IInv, NEW w \in Worker, Commit(w) PROVE IInv'
<1>1. run' = [run EXCEPT ![w] = NoRun] /\ UNCHANGED present
  BY DEF Commit
<1>2. \A q \in Worker : run'[q] = IF q = w THEN NoRun ELSE run[q]
  BY <1>1 DEF IInv, TypeOK
<1>3. DOMAIN cycles \subseteq DOMAIN cycles' /\ cycles' \in Seq(Cycle)
  BY CommitWrites
<1>4. TypeOK'
  <2>1. run' \in [Worker -> Run]
    BY <1>1, NoRunIsRun DEF IInv, TypeOK
  <2>2. \A q \in Worker : /\ run'[q].seen \subseteq DOMAIN cycles
                          /\ run'[q].delta \subseteq Uncounted(run'[q].row)
    BY <1>2 DEF IInv, TypeOK, NoRun
  <2>3. overtaken' \in BOOLEAN
    BY DEF Commit
  <2> QED
    BY <1>1, <1>3, <2>1, <2>2, <2>3 DEF IInv, TypeOK, Uncounted
<1>5. Exclusive'
  <2>1. HeldBy(NoRun) = {}
    BY DEF HeldBy, NoRun
  <2>2. \A q, p \in Worker : q # p => HeldBy(run'[q]) \cap HeldBy(run'[p]) = {}
    BY <1>2, <2>1 DEF IInv, Exclusive
  <2> QED
    BY <2>2 DEF Exclusive, HeldBy
<1>6. \A q \in Worker : Sound(run[q])'
  <2> SUFFICES ASSUME NEW q \in Worker PROVE Sound(run[q])'
    OBVIOUS
  <2>1. CASE q = w
    BY <1>2, <2>1 DEF Sound, NoRun, Working
  <2>2. CASE q # w
    <3> DEFINE x == run[q]
    <3>1. run'[q] = x /\ Sound(x) /\ x \in Run
      BY <1>2, <2>2 DEF IInv, TypeOK
    <3>2. HeldBy(x) \cap HeldBy(run[w]) = {}
      BY <2>2 DEF IInv, Exclusive
    <3>3. \A k \in HeldBy(x) : k \in 1 .. Len(cycles') =>
            k \in 1 .. Len(cycles) /\ cycles'[k] = cycles[k]
      BY <3>2, CommitWritesHeld
    <3>4. x.at \in Working => x.number \in HeldBy(x)
      BY DEF HeldBy, Working
    <3>5. x.at = "committing" /\ Billed(x.row) => x.number + 1 \in HeldBy(x)
      BY DEF HeldBy
    <3>6. Len(cycles) \in Nat /\ Len(cycles') \in Nat /\ Len(cycles) <= Len(cycles')
          /\ DOMAIN cycles = 1 .. Len(cycles) /\ DOMAIN cycles' = 1 .. Len(cycles')
      BY CommitWrites
    <3> HIDE DEF x
    <3>7. x.number \in Nat
      BY <3>1 DEF Run
    <3>8. x.at \in Working \cup {"creating"} => x.number \in 1 .. Len(cycles') + 1
      BY <3>1, <3>6 DEF Sound
    <3>9. x.at \in Working /\ x.number \in DOMAIN cycles' => cycles'[x.number].dates \subseteq x.row.dates
      BY <3>1, <3>3, <3>4, <3>6 DEF Sound
    <3>10. x.at = "committing" /\ Billed(x.row) => Len(cycles') <= x.number
      BY <3>1, <3>3, <3>5, <3>6, <3>7 DEF Sound
    <3> QED
      BY <3>1, <3>8, <3>9, <3>10 DEF Sound
  <2> QED
    BY <2>1, <2>2
<1> QED
  BY <1>4, <1>5, <1>6 DEF IInv

-----------------------------------------------------------------------------
(* Everyone else, and the theorems about runs that overlap.                *)

LEMMA MarkStep == ASSUME IInv, NEW d \in Date, Mark(d) PROVE IInv'
<1>1. present' \in SUBSET Date /\ present \subseteq present' /\ UNCHANGED <<cycles, run, overtaken>>
  BY DEF Mark, IInv, TypeOK
<1> QED
  BY <1>1 DEF IInv, TypeOK, Uncounted, Exclusive, HeldBy, Sound

LEMMA DeleteKeepsCounts ==
    ASSUME TypeOK, NEW k \in DOMAIN cycles, DeleteInvoice(k)
    PROVE  /\ cycles' \in Seq(Cycle) /\ Len(cycles') = Len(cycles) /\ DOMAIN cycles' = DOMAIN cycles
           /\ \A j \in DOMAIN cycles :
                /\ cycles'[j].dates = cycles[j].dates
                /\ cycles'[j].last_counted_date = cycles[j].last_counted_date
                /\ ~Billed(cycles[j]) => ~Billed(cycles'[j])
<1> DEFINE row == [cycles[k] EXCEPT !.invoice = Unbilled]
<1>1. /\ k \in 1 .. Len(cycles) /\ DOMAIN cycles = 1 .. Len(cycles)
      /\ cycles[k] \in Cycle /\ cycles \in Seq(Cycle)
  BY CyclesAreRows DEF TypeOK
<1>2. /\ row \in Cycle /\ row.dates = cycles[k].dates /\ ~Billed(row)
      /\ row.last_counted_date = cycles[k].last_counted_date
  BY <1>1 DEF Cycle, Billed, Unbilled
<1>3. cycles' = [cycles EXCEPT ![k] = row]
  BY DEF DeleteInvoice
<1> HIDE DEF row
<1>4. /\ cycles' \in Seq(Cycle) /\ Len(cycles') = Len(cycles) /\ cycles'[k] = row
      /\ \A j \in 1 .. Len(cycles) : j # k => cycles'[j] = cycles[j]
  BY <1>1, <1>2, <1>3, Written
<1>5. DOMAIN cycles' = DOMAIN cycles
  BY <1>1, <1>4, LenProperties
<1> QED
  BY <1>1, <1>2, <1>4, <1>5

LEMMA DeleteStep == ASSUME IInv, NEW k \in DOMAIN cycles, DeleteInvoice(k) PROVE IInv'
<1>1. /\ cycles' \in Seq(Cycle) /\ Len(cycles') = Len(cycles) /\ DOMAIN cycles' = DOMAIN cycles
      /\ \A j \in DOMAIN cycles : cycles'[j].dates = cycles[j].dates
  BY DeleteKeepsCounts DEF IInv
<1>2. UNCHANGED <<present, run, overtaken>>
  BY DEF DeleteInvoice
<1> QED
  BY <1>1, <1>2 DEF IInv, TypeOK, Uncounted, Exclusive, HeldBy, Sound

LEMMA InitHolds == Init => IInv
<1> SUFFICES ASSUME Init PROVE IInv
  OBVIOUS
<1>1. \A w \in Worker : run[w] = NoRun
  BY DEF Init
<1>2. TypeOK
  BY <1>1, NoRunIsRun, EmptySeq DEF Init, TypeOK, NoRun
<1>3. HeldBy(NoRun) = {} /\ Sound(NoRun)
  BY DEF HeldBy, Sound, NoRun, Working
<1> QED
  BY <1>1, <1>2, <1>3 DEF IInv, Exclusive

LEMMA StepHolds == IInv /\ Bounded /\ [Next]_vars => IInv'
<1> SUFFICES ASSUME IInv, Bounded, [Next]_vars PROVE IInv'
  OBVIOUS
<1>1. ASSUME NEW w \in Worker, Statement(w) PROVE IInv'
  BY <1>1, LockStep, NumberStep, CreateStep, CountStep, SaveStep, DraftStep,
     InvoiceStep, AppendNextStep, CommitStep DEF Statement
<1>2. ASSUME NEW w \in Worker, Rollback(w) \/ Detect(w) PROVE IInv'
  BY <1>2, EndStep DEF Rollback, Detect
<1>3. ASSUME NEW w \in Worker, Find(w) PROVE IInv'
  BY <1>3, FindStep
<1>4. ASSUME NEW d \in Date, Mark(d) PROVE IInv'
  BY <1>4, MarkStep
<1>5. ASSUME NEW k \in DOMAIN cycles, DeleteInvoice(k) PROVE IInv'
  BY <1>5, DeleteStep
<1>6. CASE UNCHANGED vars
  BY <1>6 DEF vars, IInv, TypeOK, Uncounted, Exclusive, HeldBy, Sound
<1> QED
  BY <1>1, <1>2, <1>3, <1>4, <1>5, <1>6 DEF Next

\* A run changes, and with it no number is above b.
LEMMA UpToRun ==
    ASSUME TypeOK, NEW b \in Nat, UpTo(b), NEW w \in Worker, NEW x,
           run' = [run EXCEPT ![w] = x], UNCHANGED cycles, x.invoice <= b, x.row.invoice <= b
    PROVE  Bounded'
<1>1. \A q \in Worker : run'[q] = IF q = w THEN x ELSE run[q]
  BY DEF TypeOK
<1>2. UpTo(b)'
  BY <1>1 DEF UpTo
<1> QED
  BY <1>2 DEF Bounded

LEMMA BoundedEnd ==
    ASSUME TypeOK, Bounded, NEW w \in Worker, run' = [run EXCEPT ![w] = NoRun], UNCHANGED cycles
    PROVE  Bounded'
<1>1. PICK b \in Nat : UpTo(b)
  BY DEF Bounded
<1>2. NoRun.invoice <= b /\ NoRun.row.invoice <= b
  BY DEF NoRun, NewCycle, Unbilled
<1> QED
  BY <1>1, <1>2, UpToRun

LEMMA BoundedInsert ==
    ASSUME TypeOK, Bounded, NEW w \in Worker, NEW taken, NEW x, Inserts(w, taken, x),
           \A b \in Nat : UpTo(b) => x.invoice <= b /\ x.row.invoice <= b
    PROVE  Bounded'
<1>1. PICK b \in Nat : UpTo(b)
  BY DEF Bounded
<1>2. UNCHANGED cycles
  BY DEF Inserts
<1>3. CASE taken
  BY <1>2, <1>3, BoundedEnd DEF Inserts
<1>4. CASE ~taken
  BY <1>1, <1>2, <1>4, UpToRun DEF Inserts
<1> QED
  BY <1>3, <1>4

LEMMA BoundedLock ==
    ASSUME TypeOK, Bounded, NEW w \in Worker, Lock(w)
    PROVE  Bounded'
<1> DEFINE k == Latest(run[w].seen)
           x == IF run[w].seen = {} THEN [run[w] EXCEPT !.at = "numbering"]
                ELSE IF Open(k)
                     THEN [run[w] EXCEPT !.at = "counting", !.number = k, !.row = cycles[k]]
                     ELSE [run[w] EXCEPT !.seen = @ \ {k}]
<1>1. PICK b \in Nat : UpTo(b)
  BY DEF Bounded
<1>2. run[w] \in Run /\ run[w].invoice <= b /\ run[w].row.invoice <= b
  BY <1>1 DEF UpTo, TypeOK
<1>3. run' = [run EXCEPT ![w] = x] /\ UNCHANGED cycles
  BY DEF Lock, TypeOK
<1>4. x.invoice = run[w].invoice
  BY <1>2 DEF Run
<1>5. x.row.invoice <= b
  <2>1. CASE run[w].seen # {} /\ Open(k)
    <3>1. x.row = cycles[k]
      BY <1>2, <2>1 DEF Run
    <3>2. cycles[k].invoice = 0
      BY <2>1 DEF Open, Billed, Unbilled
    <3> QED
      BY <3>1, <3>2
  <2>2. CASE ~(run[w].seen # {} /\ Open(k))
    <3>1. x.row = run[w].row
      BY <1>2, <2>2 DEF Run
    <3> QED
      BY <1>2, <3>1
  <2> QED
    BY <2>1, <2>2
<1> HIDE DEF x
<1> QED
  BY <1>1, <1>2, <1>3, <1>4, <1>5, UpToRun

LEMMA BoundedDraft ==
    ASSUME TypeOK, Bounded, NEW w \in Worker, Draft(w)
    PROVE  Bounded'
<1> DEFINE v == Latest({0} \cup Numbers) + 1
           x == [run[w] EXCEPT !.at = "invoicing", !.invoice = v]
<1>1. PICK b \in Nat : UpTo(b)
  BY DEF Bounded
<1>2. v \in Nat /\ run[w] \in Run /\ run[w].row \in Cycle
  BY LastNumber DEF TypeOK, Run
<1>3. run' = [run EXCEPT ![w] = x] /\ UNCHANGED cycles
  BY DEF Draft, TypeOK
<1>4. x.invoice = v /\ x.row = run[w].row
  BY <1>2 DEF Run
<1> HIDE DEF v, x
<1>5. PICK c \in Nat : b <= c /\ v <= c
  BY <1>2
<1>6. UpTo(c)
  <2>1. ASSUME NEW i \in Nat, i <= b PROVE i <= c
    BY <1>5, <2>1
  <2>2. \A k \in DOMAIN cycles : cycles[k].invoice \in Nat
    BY CyclesAreRows DEF Cycle
  <2>3. \A q \in Worker : run[q].invoice \in Nat /\ run[q].row.invoice \in Nat
    BY DEF TypeOK, Run, Cycle
  <2> QED
    BY <1>1, <2>1, <2>2, <2>3 DEF UpTo
<1>7. x.invoice <= c /\ x.row.invoice <= c
  BY <1>4, <1>5, <1>6 DEF UpTo
<1> QED
  BY <1>3, <1>6, <1>7, UpToRun

LEMMA BoundedCommit ==
    ASSUME IInv, Bounded, NEW w \in Worker, Commit(w)
    PROVE  Bounded'
<1> DEFINE x == run[w]
<1>1. PICK b \in Nat : UpTo(b)
  BY DEF Bounded
<1>2. /\ DOMAIN cycles' = 1 .. Len(cycles')
      /\ \A k \in 1 .. Len(cycles') : k \notin HeldBy(x) =>
           k \in 1 .. Len(cycles) /\ cycles'[k] = cycles[k]
      /\ DOMAIN cycles = 1 .. Len(cycles)
  BY CommitWrites, CommitWritesHeld
<1>3. /\ cycles'[x.number] = x.row
      /\ Billed(x.row) => cycles'[x.number + 1].invoice = 0
  <2>1. /\ cycles'[x.number] = x.row
        /\ Billed(x.row) => cycles'[x.number + 1] = NewCycle(x.row.last_counted_date)
    BY CommitWrites
  <2> QED
    BY <2>1 DEF NewCycle, Unbilled
<1>4. x.row.invoice <= b
  BY <1>1 DEF UpTo
<1>5. HeldBy(x) = {x.number} \cup (IF Billed(x.row) THEN {x.number + 1} ELSE {})
  BY DEF HeldBy, Commit
<1> HIDE DEF x
<1>6. \A k \in DOMAIN cycles' : cycles'[k].invoice <= b
  <2> SUFFICES ASSUME NEW k \in DOMAIN cycles' PROVE cycles'[k].invoice <= b
    OBVIOUS
  <2>1. CASE k \notin HeldBy(x)
    BY <1>1, <1>2, <2>1 DEF UpTo
  <2>2. CASE k \in HeldBy(x)
    BY <1>3, <1>4, <1>5, <2>2
  <2> QED
    BY <2>1, <2>2
<1>7. \A q \in Worker : run'[q] = IF q = w THEN NoRun ELSE run[q]
  BY DEF Commit, IInv, TypeOK
<1>8. NoRun.invoice <= b /\ NoRun.row.invoice <= b
  BY DEF NoRun, NewCycle, Unbilled
<1>9. UpTo(b)'
  BY <1>1, <1>6, <1>7, <1>8 DEF UpTo
<1> QED
  BY <1>9 DEF Bounded

LEMMA BoundedDelete ==
    ASSUME TypeOK, Bounded, NEW k \in DOMAIN cycles, DeleteInvoice(k)
    PROVE  Bounded'
<1>1. PICK b \in Nat : UpTo(b)
  BY DEF Bounded
<1>2. /\ k \in 1 .. Len(cycles) /\ DOMAIN cycles = 1 .. Len(cycles)
      /\ cycles[k] \in Cycle /\ cycles \in Seq(Cycle)
  BY CyclesAreRows DEF TypeOK
<1> DEFINE row == [cycles[k] EXCEPT !.invoice = Unbilled]
<1>3. row \in Cycle /\ row.invoice = 0
  BY <1>2 DEF Cycle, Unbilled
<1>4. cycles' = [cycles EXCEPT ![k] = row] /\ UNCHANGED run
  BY DEF DeleteInvoice
<1> HIDE DEF row
<1>5. /\ DOMAIN cycles' = DOMAIN cycles /\ cycles'[k] = row
      /\ \A j \in DOMAIN cycles : j # k => cycles'[j] = cycles[j]
  BY <1>2, <1>3, <1>4
<1>6. UpTo(b)'
  BY <1>1, <1>3, <1>4, <1>5 DEF UpTo
<1> QED
  BY <1>6 DEF Bounded

LEMMA BoundedStep == IInv /\ Bounded /\ [Next]_vars => Bounded'
<1> SUFFICES ASSUME IInv, Bounded, [Next]_vars PROVE Bounded'
  OBVIOUS
<1>0. TypeOK
  BY DEF IInv
<1>1. ASSUME NEW w \in Worker, Find(w) \/ Number(w) \/ Count(w) \/ Save(w) PROVE Bounded'
  <2>1. PICK b \in Nat : UpTo(b)
    BY DEF Bounded
  <2>2. run[w] \in Run /\ run[w].row \in Cycle /\ run[w].delta \in SUBSET Date
        /\ run[w].delta \subseteq Uncounted(run[w].row)
    BY <1>0 DEF TypeOK, Run
  <2>3. run[w].invoice <= b /\ run[w].row.invoice <= b
    BY <2>1 DEF UpTo
  <2>4. CASE Find(w)
    <3> DEFINE x == [run[w] EXCEPT !.at = "locking", !.seen = {k \in DOMAIN cycles : Open(k)}]
    <3>1. run' = [run EXCEPT ![w] = x] /\ UNCHANGED cycles
      BY <1>0, <2>4 DEF Find, TypeOK
    <3>2. x.invoice = run[w].invoice /\ x.row = run[w].row
      BY <2>2 DEF Run
    <3> HIDE DEF x
    <3> QED
      BY <1>0, <2>1, <2>3, <3>1, <3>2, UpToRun
  <2>5. CASE Number(w)
    <3> DEFINE x == [run[w] EXCEPT !.at = "creating", !.number = Len(cycles) + 1]
    <3>1. run' = [run EXCEPT ![w] = x] /\ UNCHANGED cycles
      BY <1>0, <2>5 DEF Number, TypeOK
    <3>2. x.invoice = run[w].invoice /\ x.row = run[w].row
      BY <2>2 DEF Run
    <3> HIDE DEF x
    <3> QED
      BY <1>0, <2>1, <2>3, <3>1, <3>2, UpToRun
  <2>6. CASE Count(w)
    <3> DEFINE x == [run[w] EXCEPT !.at = "saving", !.delta = Uncounted(run[w].row)]
    <3>1. run' = [run EXCEPT ![w] = x] /\ UNCHANGED cycles
      BY <1>0, <2>6 DEF Count, TypeOK
    <3>2. x.invoice = run[w].invoice /\ x.row = run[w].row
      BY <2>2 DEF Run
    <3> HIDE DEF x
    <3> QED
      BY <1>0, <2>1, <2>3, <3>1, <3>2, UpToRun
  <2>7. CASE Save(w)
    <3> DEFINE row == Counted(run[w].row, run[w].delta)
               at  == IF row.sessions_counted >= SessionsPerCycle THEN "drafting" ELSE "committing"
               x   == [run[w] EXCEPT !.row = row, !.delta = {}, !.at = at]
    <3>1. run' = [run EXCEPT ![w] = x] /\ UNCHANGED cycles
      BY <1>0, <2>7 DEF Save, TypeOK
    <3>2. row.invoice = run[w].row.invoice
      BY <1>0, <2>2, CountedIsCycle
    <3> HIDE DEF row, at
    <3>3. x.invoice = run[w].invoice /\ x.row = row
      BY <2>2 DEF Run
    <3> HIDE DEF x
    <3> QED
      BY <1>0, <2>1, <2>3, <3>1, <3>2, <3>3, UpToRun
  <2> QED
    BY <1>1, <2>4, <2>5, <2>6, <2>7
<1>2. ASSUME NEW w \in Worker, Create(w) PROVE Bounded'
  <2> DEFINE x == [run[w] EXCEPT !.at = "counting", !.row = NewCycle(NoDate)]
  <2>1. Inserts(w, run[w].number \in DOMAIN cycles, x)
    BY <1>2 DEF Create
  <2>2. x.invoice = run[w].invoice /\ x.row.invoice = 0
    BY <1>0 DEF TypeOK, Run, NewCycle, Unbilled
  <2> HIDE DEF x
  <2>3. \A b \in Nat : UpTo(b) => x.invoice <= b /\ x.row.invoice <= b
    BY <2>2 DEF UpTo
  <2> QED
    BY <1>0, <2>1, <2>3, BoundedInsert
<1>3. ASSUME NEW w \in Worker, Invoice(w) PROVE Bounded'
  <2> DEFINE x == [run[w] EXCEPT !.at = "appending", !.row.invoice = run[w].invoice]
  <2>1. Inserts(w, run[w].invoice \in Numbers, x)
    BY <1>3 DEF Invoice
  <2>2. x.invoice = run[w].invoice /\ x.row.invoice = run[w].invoice
    BY <1>0 DEF TypeOK, Run, Cycle
  <2> HIDE DEF x
  <2>3. \A b \in Nat : UpTo(b) => x.invoice <= b /\ x.row.invoice <= b
    BY <2>2 DEF UpTo
  <2> QED
    BY <1>0, <2>1, <2>3, BoundedInsert
<1>4. ASSUME NEW w \in Worker, AppendNext(w) PROVE Bounded'
  <2> DEFINE x == [run[w] EXCEPT !.at = "committing"]
  <2>1. Inserts(w, run[w].number + 1 \in DOMAIN cycles, x)
    BY <1>4 DEF AppendNext
  <2>2. x.invoice = run[w].invoice /\ x.row = run[w].row
    BY <1>0 DEF TypeOK, Run
  <2> HIDE DEF x
  <2>3. \A b \in Nat : UpTo(b) => x.invoice <= b /\ x.row.invoice <= b
    BY <2>2 DEF UpTo
  <2> QED
    BY <1>0, <2>1, <2>3, BoundedInsert
<1>5. ASSUME NEW w \in Worker, Rollback(w) \/ Detect(w) PROVE Bounded'
  BY <1>0, <1>5, BoundedEnd DEF Rollback, Detect
<1>6. CASE UNCHANGED <<cycles, run>>
  BY <1>6 DEF Bounded, UpTo
<1>7. (\E d \in Date : Mark(d)) \/ UNCHANGED vars => UNCHANGED <<cycles, run>>
  BY DEF Mark, vars
<1> QED
  BY <1>0, <1>1, <1>2, <1>3, <1>4, <1>5, <1>6, <1>7, BoundedLock, BoundedDraft, BoundedCommit,
     BoundedDelete DEF Next, Statement

LEMMA BoundedInit == Init => Bounded
<1> SUFFICES ASSUME Init PROVE Bounded
  OBVIOUS
<1>1. UpTo(0)
  BY DEF Init, UpTo, NoRun, NewCycle, Unbilled
<1> QED
  BY <1>1 DEF Bounded

(* TypeOK: whoever runs beside whom, every variable keeps its type, and a   *)
(* run counts only sessions its cycle has not.                              *)
THEOREM PayTypeCorrect == Spec => []TypeOK
<1>1. IInv => TypeOK
  BY DEF IInv
<1> QED
  BY <1>1, InitHolds, StepHolds, BoundedInit, BoundedStep, PTL DEF Spec

LEMMA StepKeepsCounts ==
    ASSUME IInv, [Next]_vars
    PROVE  \A k \in DOMAIN cycles : k \in DOMAIN cycles' /\ cycles[k].dates \subseteq cycles'[k].dates
<1>1. ASSUME NEW w \in Worker, Commit(w)
      PROVE  \A k \in DOMAIN cycles : k \in DOMAIN cycles' /\ cycles[k].dates \subseteq cycles'[k].dates
  BY <1>1, CommitKeepsCounts
<1>2. ASSUME NEW k \in DOMAIN cycles, DeleteInvoice(k)
      PROVE  \A j \in DOMAIN cycles : j \in DOMAIN cycles' /\ cycles[j].dates \subseteq cycles'[j].dates
  BY <1>2, DeleteKeepsCounts DEF IInv
<1>3. \/ \E w \in Worker : Commit(w)
      \/ \E k \in DOMAIN cycles : DeleteInvoice(k)
      \/ UNCHANGED cycles
  BY DEF Next, Statement, Lock, Number, Create, Inserts, Count, Save, Draft, Invoice, AppendNext,
         Rollback, Detect, Find, Mark, vars
<1> QED
  BY <1>1, <1>2, <1>3

(* CountsNeverLost: the lock of the query and the unique cycle_number keep  *)
(* runs that overlap from writing over what another has counted.            *)
THEOREM CountsKept == Spec => CountsNeverLost
<1>1. IInv /\ [Next]_vars =>
        [\A k \in DOMAIN cycles : k \in DOMAIN cycles' /\ cycles[k].dates \subseteq cycles'[k].dates]_vars
  BY StepKeepsCounts
<1> QED
  BY <1>1, InitHolds, StepHolds, BoundedInit, BoundedStep, PTL DEF Spec, CountsNeverLost

-----------------------------------------------------------------------------
(* Runs of which none is overtaken.                                        *)

(* The dates of a cycle end with its last_counted_date, and those of the    *)
(* cycles after it come later.                                              *)
Ascending ==
    /\ \A k \in DOMAIN cycles : \A d \in cycles[k].dates : d <= cycles[k].last_counted_date
    /\ \A j, k \in DOMAIN cycles : j < k =>
         /\ cycles[j].last_counted_date <= cycles[k].last_counted_date
         /\ \A d \in cycles[k].dates : cycles[j].last_counted_date < d

LastOpen == cycles # <<>> => ~Billed(cycles[Len(cycles)])

(* The row of a run may follow the cycles before it.                        *)
Follows(row, n) ==
    /\ \A d \in row.dates : d <= row.last_counted_date
    /\ \A j \in DOMAIN cycles : j < n =>
         /\ cycles[j].last_counted_date <= row.last_counted_date
         /\ \A d \in row.dates : cycles[j].last_counted_date < d

(* A run works on the last cycle, or on the first one ever: with the lock   *)
(* on that row, no two runs work at the same time.                          *)
AtLast(x) ==
    /\ x.at = "locking" => cycles = <<>> \/ Len(cycles) \in x.seen
    /\ x.at = "numbering" => cycles = <<>>
    /\ x.at = "creating" => x.number = 1
    /\ x.at \in Working => /\ x.number = Len(cycles) \/ (x.number = 1 /\ cycles = <<>>)
                           /\ Follows(x.row, x.number)

Ordered == Ascending /\ LastOpen /\ \A w \in Worker : AtLast(run[w])
PayInv  == IInv /\ Bounded /\ (~overtaken => Ordered)

LEMMA OrderedRunStep ==
    ASSUME IInv, Ordered, NEW w \in Worker, NEW x, run' = [run EXCEPT ![w] = x], UNCHANGED cycles,
           AtLast(x)
    PROVE  Ordered'
<1>1. \A q \in Worker : run'[q] = IF q = w THEN x ELSE run[q]
  BY DEF IInv, TypeOK
<1>2. \A q \in Worker : AtLast(run[q])'
  BY <1>1 DEF Ordered, AtLast, Follows
<1> QED
  BY <1>2 DEF Ordered, Ascending, LastOpen

LEMMA OrderedFind ==
    ASSUME IInv, Ordered, NEW w \in Worker, Find(w)
    PROVE  Ordered'
<1> DEFINE x == [run[w] EXCEPT !.at = "locking", !.seen = {k \in DOMAIN cycles : Open(k)}]
<1>1. run' = [run EXCEPT ![w] = x] /\ UNCHANGED cycles
  BY DEF Find, IInv, TypeOK
<1>2. x.at = "locking" /\ x.seen = {k \in DOMAIN cycles : Open(k)}
  BY DEF IInv, TypeOK, Run
<1>3. cycles # <<>> => Len(cycles) \in DOMAIN cycles
  BY CyclesAreRows DEF IInv
<1> HIDE DEF x
<1>4. AtLast(x)
  BY <1>2, <1>3 DEF AtLast, Ordered, LastOpen, Open, Working
<1> QED
  BY <1>1, <1>4, OrderedRunStep

LEMMA OrderedLock == ASSUME IInv, Ordered, NEW w \in Worker, Lock(w) PROVE Ordered'
<1> DEFINE n == Len(cycles)
<1>1. /\ run[w] \in Run /\ run[w].at = "locking" /\ run[w].seen \subseteq DOMAIN cycles
      /\ AtLast(run[w]) /\ UNCHANGED cycles
  BY DEF Lock, Ordered, IInv, TypeOK
<1>2. /\ n \in Nat /\ DOMAIN cycles = 1 .. n /\ (cycles # <<>> => n \in 1 .. n)
      /\ \A j \in 1 .. n : cycles[j] \in Cycle
  BY CyclesAreRows DEF IInv
<1>3. CASE run[w].seen = {}
  <2> DEFINE x == [run[w] EXCEPT !.at = "numbering"]
  <2>1. run' = [run EXCEPT ![w] = x] /\ x.at = "numbering"
    BY <1>1, <1>3 DEF Lock, Run, IInv, TypeOK
  <2> HIDE DEF x
  <2>2. AtLast(x)
    BY <1>1, <1>3, <2>1 DEF AtLast, Working
  <2> QED
    BY <1>1, <2>1, <2>2, OrderedRunStep
<1>4. CASE run[w].seen # {}
  <2>1. cycles # <<>> /\ n \in run[w].seen
    <3>1. DOMAIN cycles # {}
      BY <1>1, <1>4
    <3>2. cycles # <<>>
      BY <1>2, <3>1
    <3> QED
      BY <1>1, <3>2 DEF AtLast
  <2>2. Latest(run[w].seen) = n
    <3>1. run[w].seen \in SUBSET Nat /\ \A j \in run[w].seen : j <= n
      BY <1>1, <1>2
    <3>2. Latest(run[w].seen) \in run[w].seen /\ n <= Latest(run[w].seen)
      BY <1>2, <1>4, <2>1, <3>1, LatestExists
    <3>3. Latest(run[w].seen) <= n /\ Latest(run[w].seen) \in Nat
      BY <3>1, <3>2
    <3> QED
      BY <1>2, <3>2, <3>3
  <2>3. Open(n)
    BY <2>1 DEF Ordered, LastOpen, Open
  <2> DEFINE x == [run[w] EXCEPT !.at = "counting", !.number = n, !.row = cycles[n]]
  <2>4. run' = [run EXCEPT ![w] = x]
    BY <1>4, <2>2, <2>3 DEF Lock, IInv, TypeOK
  <2>5. x.at = "counting" /\ x.number = n /\ x.row = cycles[n]
    BY <1>1 DEF Run
  <2> HIDE DEF x
  <2>6. Follows(cycles[n], n)
    BY <1>2, <2>1 DEF Ordered, Ascending, Follows
  <2>7. AtLast(x)
    BY <1>2, <2>5, <2>6 DEF AtLast, Working
  <2> QED
    BY <1>1, <2>4, <2>7, OrderedRunStep
<1> QED
  BY <1>3, <1>4

LEMMA OrderedNumber == ASSUME IInv, Ordered, NEW w \in Worker, Number(w) PROVE Ordered'
<1> DEFINE x == [run[w] EXCEPT !.at = "creating", !.number = Len(cycles) + 1]
<1>1. /\ run' = [run EXCEPT ![w] = x] /\ UNCHANGED cycles /\ x.at = "creating"
      /\ run[w].at = "numbering" /\ AtLast(run[w]) /\ x.number = Len(cycles) + 1
  BY DEF Number, Ordered, IInv, TypeOK, Run
<1> HIDE DEF x
<1>2. AtLast(x)
  <2>1. cycles = <<>> /\ Len(cycles) = 0
    BY <1>1, EmptySeq DEF AtLast
  <2> QED
    BY <1>1, <2>1 DEF AtLast, Working
<1> QED
  BY <1>1, <1>2, OrderedRunStep

LEMMA OrderedEnd ==
    ASSUME IInv, Ordered, NEW w \in Worker, run' = [run EXCEPT ![w] = NoRun], UNCHANGED cycles
    PROVE  Ordered'
<1>1. AtLast(NoRun) /\ NoRun.at = "idle"
  BY DEF AtLast, NoRun, Working
<1> QED
  BY <1>1, OrderedRunStep

LEMMA OrderedInsert ==
    ASSUME IInv, Ordered, NEW w \in Worker, NEW taken, NEW x, Inserts(w, taken, x), AtLast(x)
    PROVE  Ordered'
<1>1. run' = [run EXCEPT ![w] = NoRun] \/ run' = [run EXCEPT ![w] = x]
  BY DEF Inserts
<1>2. UNCHANGED cycles
  BY DEF Inserts
<1> QED
  BY <1>1, <1>2, OrderedEnd, OrderedRunStep

LEMMA OrderedCreate == ASSUME IInv, Ordered, NEW w \in Worker, Create(w) PROVE Ordered'
<1> DEFINE x == [run[w] EXCEPT !.at = "counting", !.row = NewCycle(NoDate)]
<1>1. /\ Inserts(w, run[w].number \in DOMAIN cycles, x) /\ run[w].at = "creating" /\ run[w] \in Run
      /\ run[w].number = 1
  BY DEF Create, Ordered, AtLast, IInv, TypeOK
<1>2. x.at = "counting" /\ x.row = NewCycle(NoDate) /\ x.number = 1
  BY <1>1 DEF Run
<1> HIDE DEF x
<1>3. CASE 1 \in DOMAIN cycles
  BY <1>1, <1>3, OrderedEnd DEF Inserts
<1>4. CASE 1 \notin DOMAIN cycles
  <2>1. cycles = <<>> /\ DOMAIN cycles = {}
    <3>1. Len(cycles) \in Nat /\ DOMAIN cycles = 1 .. Len(cycles) /\ cycles \in Seq(Cycle)
      BY CyclesAreRows DEF IInv, TypeOK
    <3>2. Len(cycles) = 0
      BY <1>4, <3>1
    <3> QED
      BY <3>1, <3>2, EmptySeq
  <2>2. Follows(NewCycle(NoDate), 1)
    BY <2>1 DEF Follows, NewCycle
  <2>3. AtLast(x)
    BY <1>2, <2>1, <2>2 DEF AtLast, Working
  <2> QED
    BY <1>1, <1>4, <2>3, OrderedRunStep DEF Inserts
<1> QED
  BY <1>3, <1>4

LEMMA OrderedCount == ASSUME IInv, Ordered, NEW w \in Worker, Count(w) PROVE Ordered'
<1> DEFINE x == [run[w] EXCEPT !.at = "saving", !.delta = Uncounted(run[w].row)]
<1>1. /\ run' = [run EXCEPT ![w] = x] /\ UNCHANGED cycles
      /\ run[w].at = "counting" /\ AtLast(run[w])
      /\ x.at = "saving" /\ x.number = run[w].number /\ x.row = run[w].row
  BY DEF Count, Ordered, IInv, TypeOK, Run
<1> HIDE DEF x
<1>2. AtLast(x)
  BY <1>1 DEF AtLast, Working
<1> QED
  BY <1>1, <1>2, OrderedRunStep

\* New dates follow the last counted one, and with it all earlier cycles.
LEMMA CountedFollows ==
    ASSUME TypeOK, NEW row \in Cycle, NEW n \in Nat, Follows(row, n),
           NEW delta \in SUBSET Date, delta \subseteq Uncounted(row)
    PROVE  Follows(Counted(row, delta), n)
<1> DEFINE new == Counted(row, delta)
<1>1. CASE delta = {}
  BY <1>1, CountedIsCycle
<1>2. CASE delta # {}
  <2>1. /\ new \in Cycle /\ new.dates = row.dates \cup delta
        /\ row.last_counted_date < new.last_counted_date
        /\ \A d \in delta : d <= new.last_counted_date
    BY <1>2, CountedIsCycle
  <2>2. \A d \in delta : d > row.last_counted_date
    BY DEF Uncounted
  <2> HIDE DEF new
  <2>3. /\ row.last_counted_date \in Nat /\ new.last_counted_date \in Nat
        /\ row.dates \subseteq Nat /\ delta \subseteq Nat
    BY <2>1, PayAssumption DEF Cycle, Date, NoDate
  <2>4. \A j \in DOMAIN cycles : cycles[j].last_counted_date \in Nat
    <3>1. \A j \in DOMAIN cycles : cycles[j] \in Cycle
      BY CyclesAreRows
    <3> QED
      BY <3>1, PayAssumption DEF Cycle, Date, NoDate
  <2>5. \A d \in new.dates : d <= new.last_counted_date
    <3>1. \A d \in row.dates : d \in Nat /\ d <= row.last_counted_date
      BY <2>3 DEF Follows
    <3>2. \A d \in row.dates : d <= new.last_counted_date
      BY <2>1, <2>3, <3>1
    <3> QED
      BY <2>1, <3>2
  <2>6. ASSUME NEW j \in DOMAIN cycles, j < n
        PROVE  /\ cycles[j].last_counted_date <= new.last_counted_date
               /\ \A d \in new.dates : cycles[j].last_counted_date < d
    <3>1. /\ cycles[j].last_counted_date <= row.last_counted_date
          /\ \A d \in row.dates : cycles[j].last_counted_date < d
      BY <2>6 DEF Follows
    <3>2. cycles[j].last_counted_date \in Nat
      BY <2>4
    <3> DEFINE l == cycles[j].last_counted_date
               r == row.last_counted_date
               m == new.last_counted_date
    <3>3. l \in Nat /\ r \in Nat /\ m \in Nat /\ l <= r /\ r < m
      BY <2>1, <2>3, <3>1, <3>2
    <3>4. \A d \in row.dates : l < d
      BY <3>1
    <3>5. \A d \in delta : d \in Nat /\ r < d
      BY <2>2, <2>3
    <3> HIDE DEF l, r, m
    <3>6. l <= m /\ \A d \in delta : l < d
      BY <3>3, <3>5
    <3> QED
      BY <2>1, <3>4, <3>6 DEF l, m
  <2> QED
    BY <2>5, <2>6 DEF Follows, new
<1> QED
  BY <1>1, <1>2

LEMMA OrderedSave == ASSUME IInv, Ordered, NEW w \in Worker, Save(w) PROVE Ordered'
<1> DEFINE row == Counted(run[w].row, run[w].delta)
           at  == IF row.sessions_counted >= SessionsPerCycle THEN "drafting" ELSE "committing"
           x   == [run[w] EXCEPT !.row = row, !.delta = {}, !.at = at]
<1>1. /\ run[w] \in Run /\ run[w].row \in Cycle /\ run[w].delta \in SUBSET Date
      /\ run[w].delta \subseteq Uncounted(run[w].row) /\ run[w].number \in Nat
      /\ AtLast(run[w]) /\ run[w].at = "saving"
  BY DEF Save, IInv, TypeOK, Run
<1>2. /\ run[w].number = Len(cycles) \/ (run[w].number = 1 /\ cycles = <<>>)
      /\ Follows(run[w].row, run[w].number)
  BY <1>1 DEF AtLast, Working
<1>3. Follows(row, run[w].number)
  BY <1>1, <1>2, CountedFollows DEF IInv
<1>4. run' = [run EXCEPT ![w] = x] /\ UNCHANGED cycles
  BY DEF Save, IInv, TypeOK
<1>5. at \in {"drafting", "committing"}
  OBVIOUS
<1> HIDE DEF row, at
<1>6. x.at = at /\ x.number = run[w].number /\ x.row = row
  BY <1>1 DEF Run
<1> HIDE DEF x
<1>7. AtLast(x)
  BY <1>2, <1>3, <1>5, <1>6 DEF AtLast, Working
<1> QED
  BY <1>1, <1>4, <1>7, OrderedRunStep

LEMMA OrderedDraft == ASSUME IInv, Ordered, NEW w \in Worker, Draft(w) PROVE Ordered'
<1> DEFINE v == Latest({0} \cup Numbers) + 1
           x == [run[w] EXCEPT !.at = "invoicing", !.invoice = v]
<1>1. /\ run[w] \in Run /\ run[w].at = "drafting" /\ AtLast(run[w])
      /\ run' = [run EXCEPT ![w] = x] /\ UNCHANGED cycles
  BY DEF Draft, Ordered, IInv, TypeOK
<1> HIDE DEF v
<1>2. x.at = "invoicing" /\ x.number = run[w].number /\ x.row = run[w].row
  BY <1>1 DEF Run
<1> HIDE DEF x
<1>3. AtLast(x)
  BY <1>1, <1>2 DEF AtLast, Working
<1> QED
  BY <1>1, <1>3, OrderedRunStep

LEMMA OrderedInvoice == ASSUME IInv, Ordered, NEW w \in Worker, Invoice(w) PROVE Ordered'
<1> DEFINE n == run[w].invoice
           x == [run[w] EXCEPT !.at = "appending", !.row.invoice = n]
<1>1. /\ run[w] \in Run /\ run[w].row \in Cycle /\ run[w].at = "invoicing" /\ AtLast(run[w])
      /\ Inserts(w, n \in Numbers, x)
  BY DEF Invoice, Ordered, IInv, TypeOK, Run
<1>2. /\ x.at = "appending" /\ x.number = run[w].number /\ x.row.dates = run[w].row.dates
      /\ x.row.last_counted_date = run[w].row.last_counted_date
  BY <1>1 DEF Run, Cycle
<1> HIDE DEF x
<1>3. AtLast(x)
  BY <1>1, <1>2 DEF AtLast, Follows, Working
<1> QED
  BY <1>1, <1>3, OrderedInsert

LEMMA OrderedAppendNext == ASSUME IInv, Ordered, NEW w \in Worker, AppendNext(w) PROVE Ordered'
<1> DEFINE x == [run[w] EXCEPT !.at = "committing"]
<1>1. /\ run[w] \in Run /\ run[w].at = "appending" /\ AtLast(run[w])
      /\ Inserts(w, run[w].number + 1 \in DOMAIN cycles, x)
      /\ x.at = "committing" /\ x.number = run[w].number /\ x.row = run[w].row
  BY DEF AppendNext, Ordered, IInv, TypeOK, Run
<1> HIDE DEF x
<1>2. AtLast(x)
  BY <1>1 DEF AtLast, Working
<1> QED
  BY <1>1, <1>2, OrderedInsert

\* Two runs at work would hold the same row.
LEMMA OneWorks ==
    ASSUME IInv, Ordered, NEW w \in Worker, Commit(w), NEW q \in Worker, q # w
    PROVE  run[q].at \notin Working
<1>1. \A p \in Worker : run[p].at \in Working => run[p].number \in HeldBy(run[p])
  BY DEF Working, HeldBy
<1>2. \A p \in Worker : run[p].at \in Working => run[p].number = IF cycles = <<>> THEN 1 ELSE Len(cycles)
  <2>1. cycles = <<>> => Len(cycles) = 0
    BY EmptySeq
  <2>2. \A p \in Worker : run[p].at \in Working => run[p].number \in 1 .. Len(cycles) + 1
    BY DEF IInv, Sound
  <2> QED
    BY <2>1, <2>2 DEF Ordered, AtLast
<1>3. run[w].at \in Working
  BY DEF Commit, Working
<1> QED
  BY <1>1, <1>2, <1>3 DEF IInv, Exclusive

LEMMA OrderedCommit == ASSUME IInv, Ordered, NEW w \in Worker, Commit(w), ~overtaken' PROVE Ordered'
<1> DEFINE x == run[w]
           n == x.number
<1>1. /\ x.at = "committing" /\ AtLast(x) /\ Sound(x) /\ run' = [run EXCEPT ![w] = NoRun]
  BY DEF Commit, Ordered, IInv
<1>2. Len(cycles) <= n /\ Follows(x.row, n)
  <2>1. cycles = <<>> => Len(cycles) = 0
    BY EmptySeq
  <2>2. Len(cycles) \in Nat
    BY CyclesAreRows DEF IInv
  <2> QED
    BY <1>1, <2>1, <2>2 DEF AtLast, Working
<1>3. /\ DOMAIN cycles' = 1 .. Len(cycles') /\ Len(cycles') \in Nat /\ Len(cycles) \in Nat
      /\ DOMAIN cycles = 1 .. Len(cycles) /\ n \in 1 .. Len(cycles) + 1 /\ x.row \in Cycle
      /\ Billed(x.row) => Len(cycles') = n + 1
      /\ ~Billed(x.row) => Len(cycles') = IF n = Len(cycles) + 1
                                           THEN Len(cycles) + 1 ELSE Len(cycles)
      /\ cycles'[n] = x.row
      /\ Billed(x.row) => cycles'[n + 1] = NewCycle(x.row.last_counted_date)
      /\ \A k \in 1 .. Len(cycles) : k # n => cycles'[k] = cycles[k]
  BY CommitWrites
<1> HIDE DEF x, n
<1>4. /\ Len(cycles') = IF Billed(x.row) THEN n + 1 ELSE n
      /\ n \in Nat \ {0}
      /\ \A k \in 1 .. n : k = n \/ (k \in 1 .. Len(cycles) /\ k < n)
  <2> DEFINE m == Len(cycles)
  <2>1. m \in Nat /\ n \in 1 .. m + 1 /\ m <= n
    BY <1>2, <1>3
  <2>2. Len(cycles') = IF Billed(x.row) THEN n + 1 ELSE IF n = m + 1 THEN m + 1 ELSE m
    BY <1>3
  <2> HIDE DEF m
  <2>3. n \in Nat \ {0} /\ (n = m + 1 \/ n = m)
    BY <2>1
  <2>4. \A k \in 1 .. n : k = n \/ (k \in 1 .. m /\ k < n)
    BY <2>1, <2>3
  <2>5. n = IF n = m + 1 THEN m + 1 ELSE m
    BY <2>3
  <2> QED
    BY <2>2, <2>3, <2>4, <2>5 DEF m
<1>5. \A k \in 1 .. Len(cycles') : k = n \/ (k \in DOMAIN cycles /\ k < n)
                                      \/ (k = n + 1 /\ Billed(x.row))
  BY <1>3, <1>4
<1> DEFINE Last(k) == cycles'[k].last_counted_date
           last    == x.row.last_counted_date
<1>6. /\ last \in Nat /\ x.row.dates \subseteq Nat
      /\ \A k \in DOMAIN cycles : cycles[k].last_counted_date \in Nat /\ cycles[k].dates \subseteq Nat
  <2>1. \A k \in DOMAIN cycles : cycles[k] \in Cycle
    BY CyclesAreRows DEF IInv
  <2>2. \A c \in Cycle : c.last_counted_date \in Nat /\ c.dates \subseteq Nat
    BY PayAssumption DEF Cycle, Date, NoDate
  <2> QED
    BY <1>3, <2>1, <2>2
<1>7. Billed(x.row) => cycles'[n + 1].dates = {} /\ Last(n + 1) = last /\ ~Billed(cycles'[n + 1])
  <2> SUFFICES ASSUME Billed(x.row)
               PROVE  cycles'[n + 1].dates = {} /\ Last(n + 1) = last /\ ~Billed(cycles'[n + 1])
    OBVIOUS
  <2>1. cycles'[n + 1] = NewCycle(last) /\ last \in Date \cup {NoDate}
    BY <1>3 DEF Cycle
  <2>2. ~Billed(NewCycle(last))
    BY <2>1, NewCycleIsCycle
  <2>3. NewCycle(last).dates = {} /\ NewCycle(last).last_counted_date = last
    BY DEF NewCycle
  <2> QED
    BY <2>1, <2>2, <2>3
<1>8. Last(n) = last /\ cycles'[n].dates = x.row.dates /\ Billed(cycles'[n]) = Billed(x.row)
  BY <1>3
<1>9. \A k \in DOMAIN cycles : k < n =>
        /\ Last(k) = cycles[k].last_counted_date /\ cycles'[k].dates = cycles[k].dates
        /\ Last(k) <= last /\ \A d \in x.row.dates : Last(k) < d
  BY <1>2, <1>3, <1>4 DEF Follows
<1>10. \A k \in DOMAIN cycles' : \A d \in cycles'[k].dates : d <= Last(k)
  BY <1>2, <1>3, <1>5, <1>7, <1>8, <1>9 DEF Follows, Ordered, Ascending
<1>11. ASSUME NEW j \in DOMAIN cycles', NEW k \in DOMAIN cycles', j < k
       PROVE  Last(j) <= Last(k) /\ \A d \in cycles'[k].dates : Last(j) < d
  <2>1. CASE k = n + 1 /\ Billed(x.row)
    <3>1. j = n \/ (j \in DOMAIN cycles /\ j < n)
      BY <1>3, <1>4, <1>5, <1>11, <2>1
    <3>2. Last(j) <= last
      BY <1>6, <1>8, <1>9, <3>1
    <3> QED
      BY <1>7, <2>1, <3>2
  <2>2. CASE k = n
    <3>1. j \in DOMAIN cycles /\ j < n
      BY <1>3, <1>4, <1>5, <1>11, <2>2
    <3> QED
      BY <1>8, <1>9, <2>2, <3>1
  <2>3. CASE k \in DOMAIN cycles /\ k < n
    <3>1. j \in DOMAIN cycles /\ j < n
      BY <1>3, <1>4, <1>5, <1>11, <2>3
    <3>2. /\ cycles[j].last_counted_date <= cycles[k].last_counted_date
          /\ \A d \in cycles[k].dates : cycles[j].last_counted_date < d
      BY <1>11, <2>3, <3>1 DEF Ordered, Ascending
    <3> QED
      BY <1>9, <2>3, <3>1, <3>2
  <2> QED
    BY <1>3, <1>5, <2>1, <2>2, <2>3
<1>12. Ascending'
  BY <1>10, <1>11 DEF Ascending
<1>13. LastOpen'
  BY <1>3, <1>4, <1>7, <1>8 DEF LastOpen
<1>14. ASSUME NEW q \in Worker PROVE AtLast(run[q])'
  <2>1. run'[q] = IF q = w THEN NoRun ELSE run[q]
    BY <1>1 DEF IInv, TypeOK
  <2>2. CASE q = w
    BY <2>1, <2>2 DEF AtLast, NoRun, Working
  <2>3. CASE q # w
    <3>1. run'[q] = run[q] /\ AtLast(run[q])
      BY <2>1, <2>3 DEF Ordered
    <3>2. run[q].at \notin Working
      BY <2>3, OneWorks
    <3>3. Len(cycles') > Len(cycles) => run[q].at \notin {"locking", "numbering"}
      BY <2>3 DEF Commit, Overtakes
    <3>4. ~(Len(cycles') > Len(cycles)) => Len(cycles') = Len(cycles) /\ cycles # <<>>
      <4>1. ~(Len(cycles') > Len(cycles)) => Len(cycles') = Len(cycles) /\ Len(cycles) # 0
        <5> DEFINE m == Len(cycles)
        <5>1. m \in Nat /\ n \in Nat \ {0} /\ m <= n /\ n \in 1 .. m + 1
          BY <1>2, <1>3, <1>4
        <5>2. Len(cycles') = IF Billed(x.row) THEN n + 1 ELSE n
          BY <1>4
        <5> HIDE DEF m
        <5>3. ~(Len(cycles') > m) => Len(cycles') = m /\ m # 0
          BY <5>1, <5>2
        <5> QED
          BY <5>3 DEF m
      <4> QED
        BY <4>1, EmptySeq
    <3> QED
      BY <3>1, <3>2, <3>3, <3>4 DEF AtLast
  <2> QED
    BY <2>2, <2>3
<1> QED
  BY <1>12, <1>13, <1>14 DEF Ordered

LEMMA OrderedDelete == ASSUME IInv, Ordered, NEW k \in DOMAIN cycles, DeleteInvoice(k) PROVE Ordered'
<1>1. /\ cycles' \in Seq(Cycle) /\ Len(cycles') = Len(cycles) /\ DOMAIN cycles' = DOMAIN cycles
      /\ \A j \in DOMAIN cycles :
           /\ cycles'[j].dates = cycles[j].dates
           /\ cycles'[j].last_counted_date = cycles[j].last_counted_date
           /\ ~Billed(cycles[j]) => ~Billed(cycles'[j])
  BY DeleteKeepsCounts DEF IInv
<1>2. UNCHANGED run
  BY DEF DeleteInvoice
<1>3. cycles # <<>> /\ Len(cycles) \in DOMAIN cycles
  <2>1. cycles # <<>>
    BY CyclesAreRows, EmptySeq DEF IInv
  <2> QED
    BY <2>1, CyclesAreRows DEF IInv
<1>4. cycles' # <<>>
  BY <1>1, <1>3, EmptySeq
<1>5. Ascending' /\ LastOpen'
  BY <1>1, <1>2, <1>3 DEF Ordered, Ascending, LastOpen
<1>6. \A q \in Worker : AtLast(run[q])'
  BY <1>1, <1>2, <1>3, <1>4 DEF Ordered, AtLast, Follows
<1> QED
  BY <1>5, <1>6 DEF Ordered

LEMMA OrderedInit == Init => PayInv
<1> SUFFICES ASSUME Init PROVE PayInv
  OBVIOUS
<1>1. \A w \in Worker : run[w] = NoRun
  BY DEF Init
<1>2. cycles = <<>> /\ DOMAIN cycles = {}
  BY DEF Init
<1> QED
  BY <1>1, <1>2, InitHolds, BoundedInit DEF PayInv, Ordered, Ascending, LastOpen, AtLast, NoRun, Working

LEMMA OrderedStep == ASSUME IInv, Ordered, [Next]_vars, ~overtaken' PROVE Ordered'
<1>1. ASSUME NEW w \in Worker, Statement(w) PROVE Ordered'
  BY <1>1, OrderedLock, OrderedNumber, OrderedCreate, OrderedCount, OrderedSave,
     OrderedDraft, OrderedInvoice, OrderedAppendNext, OrderedCommit DEF Statement
<1>2. ASSUME NEW w \in Worker, Rollback(w) \/ Detect(w) PROVE Ordered'
  BY <1>2, OrderedEnd DEF Rollback, Detect
<1>3. ASSUME NEW w \in Worker, Find(w) PROVE Ordered'
  BY <1>3, OrderedFind
<1>4. ASSUME NEW d \in Date, Mark(d) PROVE Ordered'
  BY <1>4 DEF Mark, Ordered, Ascending, LastOpen, AtLast, Follows
<1>5. ASSUME NEW k \in DOMAIN cycles, DeleteInvoice(k) PROVE Ordered'
  BY <1>5, OrderedDelete
<1>6. CASE UNCHANGED vars
  BY <1>6 DEF vars, Ordered, Ascending, LastOpen, AtLast, Follows
<1> QED
  BY <1>1, <1>2, <1>3, <1>4, <1>5, <1>6 DEF Next

LEMMA OrderedHolds == PayInv /\ [Next]_vars => PayInv'
<1> SUFFICES ASSUME PayInv, [Next]_vars PROVE PayInv'
  OBVIOUS
<1>1. IInv' /\ Bounded'
  BY StepHolds, BoundedStep DEF PayInv
<1>2. overtaken => overtaken'
  BY DEF Next, Statement, Lock, Number, Create, Inserts, Count, Save, Draft, Invoice, AppendNext,
         Commit, Rollback, Detect, Find, Mark, DeleteInvoice, vars
<1>3. CASE overtaken'
  BY <1>1, <1>3 DEF PayInv
<1>4. CASE ~overtaken'
  BY <1>1, <1>2, <1>4, OrderedStep DEF PayInv
<1> QED
  BY <1>3, <1>4

LEMMA OrderSeparates == PayInv => SessionsPaidOnce
<1> SUFFICES ASSUME IInv, Ordered,
                    NEW j \in DOMAIN cycles, NEW k \in DOMAIN cycles, j # k,
                    NEW d \in cycles[j].dates, d \in cycles[k].dates
             PROVE  FALSE
  BY DEF PayInv, SessionsPaidOnce
<1>1. /\ DOMAIN cycles = 1 .. Len(cycles) /\ Len(cycles) \in Nat
      /\ cycles[j] \in Cycle /\ cycles[k] \in Cycle
  BY CyclesAreRows DEF IInv
<1>2. d \in Nat /\ cycles[j].last_counted_date \in Nat /\ cycles[k].last_counted_date \in Nat
  BY <1>1, PayAssumption DEF Cycle, Date, NoDate
<1>3. d <= cycles[j].last_counted_date /\ d <= cycles[k].last_counted_date
  BY DEF Ordered, Ascending
<1>4. CASE j < k
  BY <1>2, <1>3, <1>4 DEF Ordered, Ascending
<1>5. CASE k < j
  BY <1>2, <1>3, <1>5 DEF Ordered, Ascending
<1> QED
  BY <1>1, <1>4, <1>5

(* SessionsPaidOnce: as long as no cycle is added under the eyes of a run    *)
(* that looks for one, no session is paid in two cycles, whatever overlaps, *)
(* is marked late, deleted or rolled back in between.                       *)
THEOREM PaidOnce == Spec => []SessionsPaidOnce
BY OrderedInit, OrderedHolds, OrderSeparates, PTL DEF Spec
=============================================================================
