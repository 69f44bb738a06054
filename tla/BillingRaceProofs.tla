-------------------------- MODULE BillingRaceProofs --------------------------
(***************************************************************************)
(* What the statements of evaluate_session_schedules guarantee for every   *)
(* number of workers, sessions and cycles: overlapping runs leave exactly  *)
(* the last cycle open, and runs that follow one another implement         *)
(* BillingPromise.                                                         *)
(***************************************************************************)
EXTENDS BillingRace, LargestProofs, SequenceTheorems, TLAPS

Places == {"idle", "opening", "counting", "saving", "numbering", "invoicing", "linking",
           "following", "appending", "moving", "committing"}

(* Invoice numbers have an upper bound, so that there is a latest one.      *)
TypeInv ==
    /\ TypeOK
    /\ invoices \subseteq 1 .. MaxNumber
    /\ number \in [Worker -> 0 .. MaxNumber]

(* What a run at p, on the cycle x with this row, that holds the rows h and *)
(* writes the invoice n, knows of the committed cycles, of which there are  *)
(* len.                                                                     *)
Fits(p, x, row, h, n, len) ==
    /\ p # "idle" => x \in 1 .. len \/ (x = 1 /\ len = 0)
    /\ p = "idle" => h = {}
    /\ \A k \in h : k = x \/ (k = x + 1 /\ p = "committing" /\ n # 0)
    /\ p \in {"idle", "opening", "counting", "saving", "numbering"} => n = 0
    /\ p \in {"invoicing", "linking", "following", "appending", "moving"} => n # 0
    /\ n = 0 => row.invoice = Unbilled
    /\ p \in {"following", "appending", "moving", "committing"} /\ n # 0 => x \in h
    /\ p = "moving" => x + 1 <= len
    /\ p = "committing" /\ n # 0 => x + 1 \in h \/ x + 1 <= len

RunOK(w) == Fits(pc[w], work[w].number, work[w].row, held[w], number[w], Len(cycles))
IInv == TypeInv /\ OnlyLastIsOpen /\ \A w \in Worker : RunOK(w)

-----------------------------------------------------------------------------
(* Facts about the helpers.                                                *)

\* The last of some dates is one of them, and none is after it.
LEMMA LastDateOf ==
    ASSUME NEW S \in SUBSET (Date \cup {NoDate}), S # {}
    PROVE  Latest(S) \in S /\ \A d \in S : d <= Latest(S)
<1>1. S \in SUBSET Nat /\ LastDate \in Nat /\ \A d \in S : d <= LastDate
  BY RaceAssumption DEF Date, NoDate
<1> QED
  BY <1>1, LatestExists

LEMMA SomeDates ==
    ASSUME NEW S \in SUBSET Date
    PROVE  IsFiniteSet(S) /\ Cardinality(S) \in Nat
<1>1. LastDate \in Int /\ 1 \in Int
  BY RaceAssumption
<1>2. IsFiniteSet(Date)
  BY <1>1, FS_Interval DEF Date
<1> QED
  BY <1>2, FS_Subset, FS_CardinalityType

\* So it is with the invoice numbers.
LEMMA LastNumber ==
    ASSUME invoices \subseteq 1 .. MaxNumber
    PROVE  /\ Latest({0} \cup invoices) \in 0 .. MaxNumber
           /\ \A v \in invoices : v <= Latest({0} \cup invoices)
<1>1. {0} \cup invoices \in SUBSET Nat /\ MaxNumber \in Nat
  BY RaceAssumption
<1>2. \A v \in {0} \cup invoices : v <= MaxNumber
  BY RaceAssumption
<1>3. /\ Latest({0} \cup invoices) \in {0} \cup invoices
      /\ \A v \in {0} \cup invoices : v <= Latest({0} \cup invoices)
  BY <1>1, <1>2, LatestExists
<1>4. {0} \cup invoices \subseteq 0 .. MaxNumber
  BY <1>1
<1> QED
  BY <1>3, <1>4

LEMMA NewCycleType ==
    ASSUME NEW last \in Date \cup {NoDate}
    PROVE  NewCycle(last) \in Cycle /\ NewCycle(last).invoice = Unbilled
BY DEF NewCycle, Cycle, Unbilled

\* What a run counts: the new dates are later than those counted before.
CountedOn(row, new) ==
    [row EXCEPT !.sessions_counted  = @ + Cardinality(new),
                !.last_counted_date = Latest({@} \cup new),
                !.dates             = @ \cup new]

LEMMA CountedRow ==
    ASSUME NEW row \in Cycle, NEW new \in SUBSET Date
    PROVE  /\ CountedOn(row, new) \in Cycle
           /\ CountedOn(row, new).invoice = row.invoice
           /\ CountedOn(row, new).sessions_counted = row.sessions_counted + Cardinality(new)
           /\ CountedOn(row, new).dates = row.dates \cup new
           /\ row.last_counted_date <= CountedOn(row, new).last_counted_date
           /\ \A d \in new : d <= CountedOn(row, new).last_counted_date
<1>1. row.sessions_counted + Cardinality(new) \in Nat
  BY SomeDates DEF Cycle
<1>2. {row.last_counted_date} \cup new \in SUBSET (Date \cup {NoDate})
  BY DEF Cycle
<1>3. /\ Latest({row.last_counted_date} \cup new) \in Date \cup {NoDate}
      /\ \A d \in {row.last_counted_date} \cup new : d <= Latest({row.last_counted_date} \cup new)
  BY <1>2, LastDateOf
<1> QED
  BY <1>1, <1>3 DEF CountedOn, Cycle

-----------------------------------------------------------------------------
(* The steps of a run but its commit.                                      *)

\* The run w goes to p, with this cycle, copy, rows and invoice number.
Moves(w, p, x, row, h, n) ==
    /\ pc' \in [Worker -> Places] /\ held' \in [Worker -> SUBSET Nat]
    /\ work' \in [Worker -> [number : Nat, row : Cycle]]
    /\ number' \in [Worker -> 0 .. MaxNumber]
    /\ pc'[w] = p /\ work'[w].number = x /\ work'[w].row = row /\ held'[w] = h /\ number'[w] = n
    /\ \A q \in Worker \ {w} : /\ pc'[q] = pc[q] /\ work'[q] = work[q]
                               /\ held'[q] = held[q] /\ number'[q] = number[q]

LEMMA RunTypes ==
    ASSUME TypeInv, NEW w \in Worker
    PROVE  /\ pc \in [Worker -> Places] /\ pc[w] \in Places
           /\ work \in [Worker -> [number : Nat, row : Cycle]]
           /\ work[w].number \in Nat /\ work[w].row \in Cycle
           /\ work[w] = [number |-> work[w].number, row |-> work[w].row]
           /\ held \in [Worker -> SUBSET Nat] /\ held[w] \in SUBSET Nat
           /\ number \in [Worker -> 0 .. MaxNumber] /\ number[w] \in 0 .. MaxNumber
           /\ Len(cycles) \in Nat /\ DOMAIN cycles = 1 .. Len(cycles)
           /\ \A k \in DOMAIN cycles : cycles[k] \in Cycle
<1>1. /\ pc \in [Worker -> Places] /\ held \in [Worker -> SUBSET Nat]
      /\ work \in [Worker -> [number : Nat, row : Cycle]]
      /\ number \in [Worker -> 0 .. MaxNumber] /\ cycles \in Seq(Cycle)
  BY DEF TypeInv, TypeOK, Places
<1>2. work[w] \in [number : Nat, row : Cycle]
  BY <1>1
<1> QED
  BY <1>1, <1>2

\* What a run knows stays true when others add cycles.
LEMMA FitsMore ==
    ASSUME NEW p \in Places, NEW x \in Nat, NEW row \in Cycle, NEW h \in SUBSET Nat, NEW n \in Nat,
           NEW len \in Nat, NEW more \in Nat, len <= more, Fits(p, x, row, h, n, len)
    PROVE  Fits(p, x, row, h, n, more)
BY DEF Fits

\* A step of one run that writes nothing others can see.
LEMMA RunStep ==
    ASSUME IInv, NEW w \in Worker, NEW p, NEW x, NEW row, NEW h, NEW n,
           Moves(w, p, x, row, h, n), Fits(p, x, row, h, n, Len(cycles)),
           UNCHANGED <<present, cycles, invoices>>
    PROVE  IInv'
<1>1. TypeInv'
  <2>1. number' \in [Worker -> Nat]
    BY RaceAssumption DEF Moves
  <2> QED
    BY <2>1 DEF Moves, IInv, TypeInv, TypeOK, Places
<1>2. OnlyLastIsOpen'
  BY DEF IInv, OnlyLastIsOpen
<1>3. ASSUME NEW q \in Worker PROVE RunOK(q)'
  <2>1. CASE q = w
    BY <2>1 DEF Moves, RunOK
  <2>2. CASE q # w
    BY <2>2 DEF Moves, RunOK, IInv
  <2> QED
    BY <2>1, <2>2
<1> QED
  BY <1>1, <1>2, <1>3 DEF IInv

\* A run that ends, in whatever way, has nothing left.
LEMMA Ended ==
    ASSUME TypeInv, NEW w \in Worker, End(w)
    PROVE  Moves(w, "idle", 0, NewCycle(NoDate), {}, 0)
<1>1. NewCycle(NoDate) \in Cycle
  BY NewCycleType
<1>2. 0 \in 0 .. MaxNumber
  BY RaceAssumption
<1> QED
  BY <1>1, <1>2, RunTypes DEF End, Go, Moves, Places

LEMMA EndedFits ==
    ASSUME NEW len \in Nat
    PROVE  Fits("idle", 0, NewCycle(NoDate), {}, 0, len)
BY NewCycleType DEF Fits

LEMMA EndStep ==
    ASSUME IInv, NEW w \in Worker, End(w), UNCHANGED <<present, cycles, invoices>>
    PROVE  IInv'
BY Ended, EndedFits, RunTypes, RunStep DEF IInv

\* A step that goes on with what the run has.
LEMMA GoOn ==
    ASSUME TypeInv, NEW w \in Worker, NEW p \in Places, Go(w, p), UNCHANGED <<work, held, number>>
    PROVE  Moves(w, p, work[w].number, work[w].row, held[w], number[w])
BY RunTypes DEF Go, Moves

\* One that takes a row.
LEMMA GoHolding ==
    ASSUME TypeInv, NEW w \in Worker, NEW p \in Places, NEW k \in Nat, Go(w, p), Hold(w, k),
           UNCHANGED <<work, number>>
    PROVE  Moves(w, p, work[w].number, work[w].row, held[w] \cup {k}, number[w])
BY RunTypes DEF Go, Hold, Moves

LEMMA OpenCycle ==
    ASSUME TypeInv, NEW open, open = {k \in DOMAIN cycles : cycles[k].invoice = Unbilled}, open # {}
    PROVE  Latest(open) \in open /\ \A k \in open : k <= Latest(open)
<1>1. open \in SUBSET Nat /\ Len(cycles) \in Nat /\ \A k \in open : k <= Len(cycles)
  BY DEF TypeInv, TypeOK
<1> QED
  BY <1>1, LatestExists

LEMMA LoadStep ==
    ASSUME IInv, NEW w \in Worker, Load(w)
    PROVE  IInv'
<1> DEFINE open == {k \in DOMAIN cycles : cycles[k].invoice = Unbilled}
<1>0. UNCHANGED <<present, cycles, invoices, held, number>> /\ pc[w] = "idle" /\ TypeInv
  BY DEF Load, IInv
<1>t. /\ Len(cycles) \in Nat /\ DOMAIN cycles = 1 .. Len(cycles)
      /\ \A k \in DOMAIN cycles : cycles[k] \in Cycle
  BY <1>0, RunTypes
<1>1. CASE open = {}
  <2> DEFINE x == Len(cycles) + 1
             row == NewCycle(NoDate)
  <2>1. x \in Nat /\ row \in Cycle
    BY <1>0, RunTypes, NewCycleType
  <2>2. Go(w, "opening") /\ work' = [work EXCEPT ![w] = [number |-> x, row |-> row]]
    BY <1>1 DEF Load
  <2>3. Moves(w, "opening", x, row, held[w], number[w])
    <3> HIDE DEF x, row
    <3> QED BY <1>0, <2>1, <2>2, RunTypes DEF Go, Moves, Places
  <2>4. Len(cycles) = 0
    <3> SUFFICES ASSUME Len(cycles) # 0 PROVE FALSE
      OBVIOUS
    <3>1. Len(cycles) \in DOMAIN cycles
      BY <1>t
    <3>2. cycles[Len(cycles)].invoice = Unbilled
      BY <3>1 DEF IInv, OnlyLastIsOpen
    <3> QED BY <1>1, <3>1, <3>2
  <2>5. Fits("opening", x, row, held[w], number[w], Len(cycles))
    BY <1>0, <2>4, NewCycleType DEF IInv, RunOK, Fits
  <2> QED
    BY <1>0, <2>3, <2>5, RunStep
<1>2. CASE open # {}
  <2> DEFINE x == Latest(open)
             row == cycles[x]
  <2>1. x \in open /\ x \in DOMAIN cycles /\ row.invoice = Unbilled
    BY <1>0, <1>2, OpenCycle
  <2>2. x \in 1 .. Len(cycles) /\ x \in Nat /\ row \in Cycle
    <3> HIDE DEF x
    <3> QED BY <1>t, <2>1
  <2>3. Go(w, "counting") /\ work' = [work EXCEPT ![w] = [number |-> x, row |-> row]]
    BY <1>2 DEF Load
  <2> HIDE DEF x, row
  <2>4. Moves(w, "counting", x, row, held[w], number[w])
    BY <1>0, <2>2, <2>3, RunTypes DEF Go, Moves, Places
  <2>5. Fits("counting", x, row, held[w], number[w], Len(cycles))
    BY <1>0, <2>1, <2>2 DEF IInv, RunOK, Fits
  <2> QED
    BY <1>0, <2>4, <2>5, RunStep
<1> QED
  BY <1>1, <1>2

\* Taking a row keeps what a run knows, at these two statements.
LEMMA OpenStep ==
    ASSUME IInv, NEW w \in Worker, Open(w)
    PROVE  IInv'
<1> DEFINE x == work[w].number
<1>0. /\ UNCHANGED <<present, cycles, invoices>> /\ pc[w] = "opening" /\ TypeInv
      /\ \/ End(w)
         \/ Go(w, "counting") /\ Hold(w, x) /\ UNCHANGED <<work, number>>
  BY DEF Open, Insert, IInv
<1>1. CASE End(w)
  BY <1>0, <1>1, EndStep
<1>2. CASE Go(w, "counting") /\ Hold(w, x) /\ UNCHANGED <<work, number>>
  <2>1. Moves(w, "counting", x, work[w].row, held[w] \cup {x}, number[w])
    BY <1>0, <1>2, GoHolding, RunTypes DEF Places
  <2>2. Fits("counting", x, work[w].row, held[w] \cup {x}, number[w], Len(cycles))
    BY <1>0 DEF IInv, RunOK, Fits
  <2> QED
    BY <1>0, <2>1, <2>2, RunStep
<1> QED
  BY <1>0, <1>1, <1>2

LEMMA AppendNextStep ==
    ASSUME IInv, NEW w \in Worker, AppendNext(w)
    PROVE  IInv'
<1> DEFINE k == work[w].number + 1
<1>0. /\ UNCHANGED <<present, cycles, invoices>> /\ pc[w] = "appending" /\ TypeInv
      /\ \/ End(w)
         \/ Go(w, "committing") /\ Hold(w, k) /\ UNCHANGED <<work, number>>
  BY DEF AppendNext, Insert, IInv
<1>1. CASE End(w)
  BY <1>0, <1>1, EndStep
<1>2. CASE Go(w, "committing") /\ Hold(w, k) /\ UNCHANGED <<work, number>>
  <2>0. k \in Nat
    <3>1. work[w].number \in Nat
      BY <1>0, RunTypes
    <3> QED BY <3>1
  <2>1. Moves(w, "committing", work[w].number, work[w].row, held[w] \cup {k}, number[w])
    BY <1>0, <1>2, <2>0, GoHolding DEF Places
  <2>2. Fits("committing", work[w].number, work[w].row, held[w] \cup {k}, number[w], Len(cycles))
    BY <1>0 DEF IInv, RunOK, Fits
  <2> QED
    BY <1>0, <2>1, <2>2, RunStep
<1> QED
  BY <1>0, <1>1, <1>2

LEMMA CountStep ==
    ASSUME IInv, NEW w \in Worker, Count(w)
    PROVE  IInv'
<1> DEFINE new == {d \in present : d > work[w].row.last_counted_date}
           row == CountedOn(work[w].row, new)
<1>0. UNCHANGED <<present, cycles, invoices, held, number>> /\ pc[w] = "counting" /\ TypeInv
  BY DEF Count, IInv
<1>1. PICK p \in {"saving", "numbering", "committing"} : Go(w, p)
  BY DEF Count
<1>2. work' = [work EXCEPT ![w].row = row]
  BY DEF Count, CountedOn
<1>3. new \in SUBSET Date
  BY <1>0 DEF TypeInv, TypeOK
<1>4. row \in Cycle /\ row.invoice = work[w].row.invoice
  BY <1>0, <1>3, RunTypes, CountedRow
<1> HIDE DEF new, row
<1>5. /\ work' \in [Worker -> [number : Nat, row : Cycle]]
      /\ work'[w].number = work[w].number /\ work'[w].row = row
      /\ \A q \in Worker \ {w} : work'[q] = work[q]
  <2>1. work \in [Worker -> [number : Nat, row : Cycle]]
    BY <1>0, RunTypes
  <2> QED BY <1>2, <1>4, <2>1
<1>6. Moves(w, p, work[w].number, row, held[w], number[w])
  BY <1>0, <1>1, <1>5, RunTypes DEF Go, Moves, Places
<1>7. Fits(p, work[w].number, row, held[w], number[w], Len(cycles))
  BY <1>0, <1>1, <1>4 DEF IInv, RunOK, Fits
<1> QED
  BY <1>0, <1>6, <1>7, RunStep

LEMMA SaveCountStep ==
    ASSUME IInv, NEW w \in Worker, SaveCount(w)
    PROVE  IInv'
<1> DEFINE x == work[w].number
<1>0. /\ UNCHANGED <<present, cycles, invoices, work, number>> /\ pc[w] = "saving" /\ TypeInv
      /\ Hold(w, x)
  BY DEF SaveCount, IInv
<1>1. PICK p \in {"numbering", "committing"} : Go(w, p)
  BY DEF SaveCount
<1>2. Moves(w, p, x, work[w].row, held[w] \cup {x}, number[w])
  BY <1>0, <1>1, GoHolding, RunTypes DEF Places
<1>3. Fits(p, x, work[w].row, held[w] \cup {x}, number[w], Len(cycles))
  BY <1>0, <1>1 DEF IInv, RunOK, Fits
<1> QED
  BY <1>0, <1>2, <1>3, RunStep

LEMMA PickNumberStep ==
    ASSUME IInv, NEW w \in Worker, PickNumber(w)
    PROVE  IInv'
<1> DEFINE v == Latest({0} \cup invoices)
           n == v + 1
<1>0. /\ UNCHANGED <<present, cycles, invoices, work, held>> /\ pc[w] = "numbering" /\ TypeInv
      /\ Go(w, "invoicing") /\ v < MaxNumber /\ number' = [number EXCEPT ![w] = n]
  BY DEF PickNumber, IInv
<1>1. v \in 0 .. MaxNumber
  BY <1>0, LastNumber DEF TypeInv
<1>2. n \in 0 .. MaxNumber /\ n # 0
  <2> HIDE DEF v
  <2> QED BY <1>0, <1>1, RaceAssumption
<1> HIDE DEF v, n
<1>3. Moves(w, "invoicing", work[w].number, work[w].row, held[w], n)
  BY <1>0, <1>2, RunTypes DEF Go, Moves, Places
<1>4. Fits("invoicing", work[w].number, work[w].row, held[w], n, Len(cycles))
  BY <1>0, <1>2 DEF IInv, RunOK, Fits
<1> QED
  BY <1>0, <1>3, <1>4, RunStep

LEMMA InsertInvoiceStep ==
    ASSUME IInv, NEW w \in Worker, InsertInvoice(w)
    PROVE  IInv'
<1>0. /\ UNCHANGED <<present, cycles, invoices>> /\ pc[w] = "invoicing" /\ TypeInv
      /\ \/ End(w)
         \/ Go(w, "linking") /\ UNCHANGED <<work, held, number>>
  BY DEF InsertInvoice, IInv
<1>1. CASE End(w)
  BY <1>0, <1>1, EndStep
<1>2. CASE Go(w, "linking") /\ UNCHANGED <<work, held, number>>
  <2>1. Moves(w, "linking", work[w].number, work[w].row, held[w], number[w])
    BY <1>0, <1>2, GoOn DEF Places
  <2>2. Fits("linking", work[w].number, work[w].row, held[w], number[w], Len(cycles))
    BY <1>0 DEF IInv, RunOK, Fits
  <2> QED
    BY <1>0, <2>1, <2>2, RunStep
<1> QED
  BY <1>0, <1>1, <1>2

LEMMA LinkStep ==
    ASSUME IInv, NEW w \in Worker, Link(w)
    PROVE  IInv'
<1> DEFINE x == work[w].number
           row == [work[w].row EXCEPT !.invoice = number[w]]
<1>0. /\ UNCHANGED <<present, cycles, invoices, number>> /\ pc[w] = "linking" /\ TypeInv
      /\ Hold(w, x) /\ Go(w, "following") /\ work' = [work EXCEPT ![w].row.invoice = number[w]]
  BY DEF Link, IInv
<1>1. row \in Cycle /\ x \in Nat
  <2>1. work[w].row \in Cycle /\ number[w] \in Nat /\ x \in Nat
    BY <1>0, RunTypes DEF TypeInv, TypeOK
  <2> QED BY <2>1 DEF Cycle
<1>2. /\ work' \in [Worker -> [number : Nat, row : Cycle]]
      /\ work'[w].number = x /\ work'[w].row = row
      /\ \A q \in Worker \ {w} : work'[q] = work[q]
  <2>1. work \in [Worker -> [number : Nat, row : Cycle]]
    BY <1>0, RunTypes
  <2> QED BY <1>0, <1>1, <2>1
<1> HIDE DEF row
<1>3. Moves(w, "following", x, row, held[w] \cup {x}, number[w])
  BY <1>0, <1>1, <1>2, RunTypes DEF Go, Hold, Moves, Places
<1>4. Fits("following", x, row, held[w] \cup {x}, number[w], Len(cycles))
  BY <1>0 DEF IInv, RunOK, Fits
<1> QED
  BY <1>0, <1>3, <1>4, RunStep

LEMMA FollowStep ==
    ASSUME IInv, NEW w \in Worker, Follow(w)
    PROVE  IInv'
<1> DEFINE k == work[w].number + 1
<1>0. UNCHANGED <<present, cycles, invoices>> /\ pc[w] = "following" /\ TypeInv
  BY DEF Follow, IInv
<1>1. CASE End(w)
  BY <1>0, <1>1, EndStep
<1>2. ASSUME NEW p \in {"appending", "moving", "committing"}, Go(w, p),
             UNCHANGED <<work, held, number>>, p # "appending" => k \in DOMAIN cycles
      PROVE  IInv'
  <2>1. Moves(w, p, work[w].number, work[w].row, held[w], number[w])
    BY <1>0, <1>2, GoOn DEF Places
  <2>2. p # "appending" => k <= Len(cycles)
    <3>1. DOMAIN cycles = 1 .. Len(cycles)
      BY <1>0, RunTypes
    <3> QED BY <1>2, <3>1
  <2>3. Fits(p, work[w].number, work[w].row, held[w], number[w], Len(cycles))
    BY <1>0, <1>2, <2>2 DEF IInv, RunOK, Fits
  <2> QED
    BY <1>0, <2>1, <2>3, RunStep
<1>3. \/ End(w)
      \/ \E p \in {"appending", "moving", "committing"} :
           /\ Go(w, p) /\ UNCHANGED <<work, held, number>>
           /\ p # "appending" => k \in DOMAIN cycles
  BY DEF Follow
<1> QED
  BY <1>1, <1>2, <1>3

LEMMA MoveNextStep ==
    ASSUME IInv, NEW w \in Worker, MoveNext(w)
    PROVE  IInv'
<1> DEFINE k == work[w].number + 1
<1>0. /\ UNCHANGED <<present, cycles, invoices, work, number>> /\ pc[w] = "moving" /\ TypeInv
      /\ Hold(w, k) /\ Go(w, "committing")
  BY DEF MoveNext, IInv
<1>1. k \in Nat
  <2>1. work[w].number \in Nat
    BY <1>0, RunTypes
  <2> QED BY <2>1
<1>2. Moves(w, "committing", work[w].number, work[w].row, held[w] \cup {k}, number[w])
  BY <1>0, <1>1, GoHolding DEF Places
<1>3. Fits("committing", work[w].number, work[w].row, held[w] \cup {k}, number[w], Len(cycles))
  BY <1>0 DEF IInv, RunOK, Fits
<1> QED
  BY <1>0, <1>2, <1>3, RunStep

-----------------------------------------------------------------------------
(* The commit of a run.                                                    *)

LEMMA Appended ==
    ASSUME NEW s \in Seq(Cycle), NEW c \in Cycle
    PROVE  /\ Append(s, c) \in Seq(Cycle) /\ Len(Append(s, c)) = Len(s) + 1
           /\ Append(s, c)[Len(s) + 1] = c
           /\ \A k \in 1 .. Len(s) : Append(s, c)[k] = s[k]
BY AppendProperties

LEMMA Written ==
    ASSUME NEW s \in Seq(Cycle), NEW i \in 1 .. Len(s), NEW c \in Cycle
    PROVE  /\ [s EXCEPT ![i] = c] \in Seq(Cycle) /\ Len([s EXCEPT ![i] = c]) = Len(s)
           /\ [s EXCEPT ![i] = c][i] = c
           /\ \A k \in 1 .. Len(s) : k # i => [s EXCEPT ![i] = c][k] = s[k]
BY ExceptSeq

\* The row of its cycle as a run leaves it, and all the rows but the next.
OldRow(w) == IF work[w].number \in DOMAIN cycles THEN cycles[work[w].number] ELSE work[w].row
NowRow(w) ==
    IF work[w].number \notin held[w] THEN OldRow(w)
    ELSE [work[w].row EXCEPT !.invoice = IF number[w] = 0 THEN OldRow(w).invoice ELSE number[w]]
WasRows(w) ==
    IF work[w].number \in DOMAIN cycles THEN [cycles EXCEPT ![work[w].number] = NowRow(w)]
                                        ELSE Append(cycles, NowRow(w))

LEMMA CommitWrites ==
    ASSUME NEW w \in Worker, Commit(w)
    PROVE  cycles' =
             IF work[w].number + 1 \notin held[w] THEN WasRows(w)
             ELSE IF work[w].number + 1 \in DOMAIN cycles
                  THEN [WasRows(w) EXCEPT ![work[w].number + 1].last_counted_date
                                                = work[w].row.last_counted_date]
                  ELSE Append(WasRows(w), NewCycle(work[w].row.last_counted_date))
BY DEF Commit, OldRow, NowRow, WasRows

LEMMA RowsWritten ==
    ASSUME TypeInv, NEW w \in Worker
    PROVE  /\ OldRow(w) \in Cycle /\ NowRow(w) \in Cycle
           /\ work[w].number \notin held[w] => NowRow(w) = OldRow(w)
           /\ work[w].number \in held[w] =>
                /\ NowRow(w).sessions_counted = work[w].row.sessions_counted
                /\ NowRow(w).last_counted_date = work[w].row.last_counted_date
                /\ NowRow(w).dates = work[w].row.dates
                /\ NowRow(w).invoice = IF number[w] = 0 THEN OldRow(w).invoice ELSE number[w]
<1>1. OldRow(w) \in Cycle /\ work[w].row \in Cycle /\ number[w] \in Nat
  BY RunTypes DEF OldRow, TypeInv, TypeOK
<1> HIDE DEF OldRow
<1>2. (IF number[w] = 0 THEN OldRow(w).invoice ELSE number[w]) \in Nat
  BY <1>1 DEF Cycle
<1> QED
  BY <1>1, <1>2 DEF NowRow, Cycle

\* A commit adds a cycle or two, or none, and leaves the last one open.
LEMMA CommitKeeps ==
    ASSUME IInv, NEW w \in Worker, Commit(w)
    PROVE  /\ cycles' \in Seq(Cycle) /\ Len(cycles) <= Len(cycles')
           /\ OnlyLastIsOpen'
<1> DEFINE k == work[w].number
           n == number[w]
           h == held[w]
           len == Len(cycles)
           next == NewCycle(work[w].row.last_counted_date)
<1>1. /\ cycles \in Seq(Cycle) /\ len \in Nat /\ DOMAIN cycles = 1 .. len /\ k \in Nat
      /\ n \in Nat /\ work[w].row \in Cycle /\ NowRow(w) \in Cycle
      /\ \A j \in 1 .. len : cycles[j] \in Cycle
  BY RunTypes, RowsWritten DEF IInv, TypeInv, TypeOK
<1>2. /\ k \in 1 .. len \/ (k = 1 /\ len = 0)
      /\ k + 1 \in h => n # 0
      /\ n = 0 => work[w].row.invoice = Unbilled
      /\ n # 0 => k \in h
      /\ n # 0 => k + 1 \in h \/ k + 1 <= len
  BY <1>1 DEF IInv, RunOK, Fits, Commit
<1>3. next \in Cycle /\ next.invoice = Unbilled
  BY <1>1, NewCycleType DEF Cycle
<1> HIDE DEF next
<1>4. NowRow(w).invoice = IF n = 0 THEN OldRow(w).invoice ELSE n
  BY <1>2, RowsWritten DEF IInv
<1>5. \A j \in 1 .. len : cycles[j].invoice = Unbilled <=> j = len
  BY <1>1 DEF IInv, OnlyLastIsOpen
<1> DEFINE Opens(s) == \A j \in DOMAIN s : s[j].invoice = Unbilled <=> j = Len(s)
<1>6. CASE k \in 1 .. len
  <2> DEFINE was == [cycles EXCEPT ![k] = NowRow(w)]
  <2>1. WasRows(w) = was /\ OldRow(w) = cycles[k]
    BY <1>1, <1>6 DEF WasRows, OldRow
  <2>2. /\ was \in Seq(Cycle) /\ Len(was) = len /\ was[k] = NowRow(w) /\ DOMAIN was = 1 .. len
        /\ \A j \in 1 .. len : j # k => was[j] = cycles[j]
    BY <1>1, <1>6, Written
  <2> HIDE DEF was
  <2>3. CASE k + 1 \notin h
    <3>1. cycles' = was
      BY <2>1, <2>3, CommitWrites
    <3>2. NowRow(w).invoice = Unbilled <=> k = len
      <4>1. CASE n = 0
        BY <1>1, <1>4, <1>5, <1>6, <2>1, <4>1
      <4>2. CASE n # 0
        <5>1. k # len
          BY <1>1, <1>2, <2>3, <4>2
        <5> QED BY <1>4, <4>2, <5>1 DEF Unbilled
      <4> QED BY <4>1, <4>2
    <3>3. Opens(was)
      BY <1>5, <2>2, <3>2
    <3> QED
      BY <1>1, <2>2, <3>1, <3>3 DEF OnlyLastIsOpen
  <2>4. CASE k + 1 \in h /\ k + 1 \in DOMAIN cycles
    <3> DEFINE moved == [was[k + 1] EXCEPT !.last_counted_date = work[w].row.last_counted_date]
    <3>1. cycles' = [was EXCEPT ![k + 1] = moved]
      BY <2>1, <2>4, CommitWrites
    <3>2. k + 1 \in 1 .. Len(was) /\ was[k + 1] \in Cycle
      BY <1>1, <2>2, <2>4
    <3>3. moved \in Cycle /\ moved.invoice = was[k + 1].invoice
      BY <1>1, <3>2 DEF Cycle
    <3> HIDE DEF moved
    <3>4. /\ cycles' \in Seq(Cycle) /\ Len(cycles') = len /\ cycles'[k + 1] = moved
          /\ DOMAIN cycles' = 1 .. len
          /\ \A j \in 1 .. len : j # k + 1 => cycles'[j] = was[j]
      BY <2>2, <3>1, <3>2, <3>3, Written
    <3>5. Opens(was)
      <4>1. k # len
        BY <1>1, <2>4
      <4>2. NowRow(w).invoice # Unbilled
        BY <1>2, <1>4, <2>4 DEF Unbilled
      <4> QED
        BY <1>5, <2>2, <4>1, <4>2
    <3>6. Opens(cycles')
      BY <2>2, <3>2, <3>3, <3>4, <3>5
    <3> QED
      BY <1>1, <3>4, <3>6 DEF OnlyLastIsOpen
  <2>5. CASE k + 1 \in h /\ k + 1 \notin DOMAIN cycles
    <3>0. k = len
      BY <1>1, <1>6, <2>5
    <3>1. cycles' = Append(was, next)
      BY <2>1, <2>5, CommitWrites DEF next
    <3>2. /\ cycles' \in Seq(Cycle) /\ Len(cycles') = len + 1 /\ cycles'[len + 1] = next
          /\ \A j \in 1 .. len : cycles'[j] = was[j]
      BY <1>3, <2>2, <3>1, Appended
    <3>3. Opens(cycles')
      <4>1. DOMAIN cycles' = 1 .. len + 1
        BY <3>2
      <4>2. was[len].invoice # Unbilled
        BY <1>2, <1>4, <2>2, <2>5, <3>0 DEF Unbilled
      <4>3. ASSUME NEW j \in 1 .. len PROVE cycles'[j].invoice # Unbilled
        <5>1. j # len => was[j].invoice # Unbilled
          BY <1>5, <2>2, <3>0
        <5> QED BY <3>2, <4>2, <5>1
      <4>4. \A j \in 1 .. len + 1 : j = len + 1 \/ (j \in 1 .. len /\ j # len + 1)
        BY <1>1
      <4> QED
        BY <1>3, <3>2, <4>1, <4>3, <4>4
    <3> QED
      BY <1>1, <3>2, <3>3 DEF OnlyLastIsOpen
  <2> QED
    BY <2>3, <2>4, <2>5
<1>7. CASE k = 1 /\ len = 0
  <2> DEFINE was == Append(cycles, NowRow(w))
  <2>1. WasRows(w) = was /\ OldRow(w) = work[w].row
    BY <1>1, <1>7 DEF WasRows, OldRow
  <2>2. was \in Seq(Cycle) /\ Len(was) = 1 /\ was[1] = NowRow(w) /\ DOMAIN was = 1 .. 1
    BY <1>1, <1>7, Appended
  <2> HIDE DEF was
  <2>3. CASE k + 1 \notin h
    <3>1. cycles' = was /\ n = 0
      BY <1>1, <1>2, <1>7, <2>1, <2>3, CommitWrites
    <3>2. Opens(was)
      BY <1>2, <1>4, <2>1, <2>2, <3>1
    <3> QED
      BY <1>1, <1>7, <2>2, <3>1, <3>2 DEF OnlyLastIsOpen
  <2>4. CASE k + 1 \in h
    <3>1. cycles' = Append(was, next)
      BY <1>1, <1>7, <2>1, <2>4, CommitWrites DEF next
    <3>2. /\ cycles' \in Seq(Cycle) /\ Len(cycles') = 2 /\ cycles'[2] = next
          /\ DOMAIN cycles' = 1 .. 2 /\ cycles'[1] = was[1]
      <4>1. /\ Append(was, next) \in Seq(Cycle) /\ Len(Append(was, next)) = Len(was) + 1
            /\ Append(was, next)[Len(was) + 1] = next
            /\ \A j \in 1 .. Len(was) : Append(was, next)[j] = was[j]
        BY <1>3, <2>2, Appended
      <4>2. 1 + 1 = 2 /\ 1 \in 1 .. 1
        OBVIOUS
      <4>3. cycles' \in Seq(Cycle) /\ Len(cycles') = 2 /\ cycles'[2] = next /\ cycles'[1] = was[1]
        BY <2>2, <3>1, <4>1, <4>2
      <4> QED BY <4>3
    <3>3. Opens(cycles')
      BY <1>2, <1>3, <1>4, <2>2, <2>4, <3>2 DEF Unbilled
    <3> QED
      BY <1>1, <1>7, <3>2, <3>3 DEF OnlyLastIsOpen
  <2> QED
    BY <2>3, <2>4
<1> QED
  BY <1>2, <1>6, <1>7

LEMMA CommitStep ==
    ASSUME IInv, NEW w \in Worker, Commit(w)
    PROVE  IInv'
<1>0. TypeInv /\ End(w) /\ present' = present
      /\ invoices' = IF number[w] = 0 THEN invoices ELSE invoices \cup {number[w]}
  BY DEF IInv, Commit
<1>1. Moves(w, "idle", 0, NewCycle(NoDate), {}, 0)
  BY <1>0, Ended
<1>2. /\ cycles' \in Seq(Cycle) /\ Len(cycles) <= Len(cycles') /\ OnlyLastIsOpen'
      /\ Len(cycles) \in Nat /\ Len(cycles') \in Nat
  <2>1. cycles' \in Seq(Cycle) /\ Len(cycles) <= Len(cycles') /\ OnlyLastIsOpen'
    BY CommitKeeps
  <2> QED BY <1>0, <2>1, RunTypes
<1>3. invoices' \subseteq 1 .. MaxNumber
  <2>1. number[w] \in 0 .. MaxNumber /\ invoices \subseteq 1 .. MaxNumber
    BY <1>0, RunTypes DEF TypeInv
  <2>2. number[w] # 0 => number[w] \in 1 .. MaxNumber
    BY <2>1, RaceAssumption
  <2> QED BY <1>0, <2>1, <2>2
<1>4. TypeInv'
  <2>1. invoices' \in SUBSET (Nat \ {0}) /\ number' \in [Worker -> Nat]
    BY <1>1, <1>3, RaceAssumption DEF Moves
  <2> QED BY <1>0, <1>1, <1>2, <1>3, <2>1 DEF Moves, TypeInv, TypeOK, Places
<1>5. ASSUME NEW q \in Worker PROVE RunOK(q)'
  <2>1. CASE q = w
    <3>1. Fits("idle", 0, NewCycle(NoDate), {}, 0, Len(cycles'))
      BY <1>2, EndedFits
    <3> QED BY <1>1, <2>1, <3>1 DEF Moves, RunOK
  <2>2. CASE q # w
    <3>1. /\ pc[q] \in Places /\ work[q].number \in Nat /\ work[q].row \in Cycle
          /\ held[q] \in SUBSET Nat /\ number[q] \in Nat
      BY <1>0, RunTypes DEF TypeInv, TypeOK
    <3>2. Fits(pc[q], work[q].number, work[q].row, held[q], number[q], Len(cycles))
      BY DEF IInv, RunOK
    <3>3. Fits(pc[q], work[q].number, work[q].row, held[q], number[q], Len(cycles'))
      BY <1>2, <3>1, <3>2, FitsMore
    <3> QED BY <1>1, <2>2, <3>3 DEF Moves, RunOK
  <2> QED
    BY <2>1, <2>2
<1> QED
  BY <1>2, <1>4, <1>5 DEF IInv

-----------------------------------------------------------------------------
(* Overlapping runs.                                                       *)

LEMMA InitInv == Init => IInv
<1> SUFFICES ASSUME Init PROVE IInv
  OBVIOUS
<1>1. NewCycle(NoDate) \in Cycle /\ NewCycle(NoDate).invoice = Unbilled
  BY NewCycleType
<1>2. cycles = <<>> /\ Len(cycles) = 0 /\ cycles \in Seq(Cycle) /\ DOMAIN cycles = {}
  BY DEF Init
<1>3. 0 \in 0 .. MaxNumber
  BY RaceAssumption
<1>4. TypeInv
  BY <1>1, <1>2, <1>3 DEF Init, TypeInv, TypeOK
<1>5. OnlyLastIsOpen
  BY <1>2 DEF OnlyLastIsOpen
<1>6. ASSUME NEW w \in Worker PROVE RunOK(w)
  <2>1. /\ pc[w] = "idle" /\ work[w].number = 0 /\ work[w].row = NewCycle(NoDate)
        /\ held[w] = {} /\ number[w] = 0
    BY DEF Init
  <2> QED BY <1>2, <2>1, EndedFits DEF RunOK
<1> QED
  BY <1>4, <1>5, <1>6 DEF IInv

LEMMA RestStep == IInv /\ Rest => IInv'
<1> SUFFICES ASSUME IInv, Rest PROVE IInv'
  OBVIOUS
<1>1. ASSUME NEW w \in Worker, Statement(w) PROVE IInv'
  BY <1>1, OpenStep, CountStep, SaveCountStep, PickNumberStep, InsertInvoiceStep, LinkStep,
     FollowStep, AppendNextStep, MoveNextStep, CommitStep DEF Statement
<1>2. ASSUME NEW w \in Worker, Detect(w) \/ Crash(w) PROVE IInv'
  BY <1>2, EndStep DEF Detect, Crash
<1>3. ASSUME NEW d \in Date, Mark(d) PROVE IInv'
  <2>1. TypeInv'
    BY <1>3 DEF Mark, IInv, TypeInv, TypeOK
  <2>2. OnlyLastIsOpen' /\ \A w \in Worker : RunOK(w)'
    BY <1>3 DEF Mark, IInv, OnlyLastIsOpen, RunOK
  <2> QED
    BY <2>1, <2>2 DEF IInv
<1> QED
  BY <1>1, <1>2, <1>3 DEF Rest

LEMMA StutterStep == IInv /\ UNCHANGED vars => IInv'
BY DEF vars, IInv, TypeInv, TypeOK, OnlyLastIsOpen, RunOK

LEMMA NextStep == IInv /\ [Next]_vars => IInv'
BY RestStep, LoadStep, StutterStep DEF Next

LEMMA SerialStep == IInv /\ [SerialNext]_vars => IInv'
BY RestStep, LoadStep, StutterStep DEF SerialNext

LEMMA RaceInv == Spec => []IInv
BY InitInv, NextStep, PTL DEF Spec

LEMMA SerialRaceInv == SerialSpec => []IInv
BY InitInv, SerialStep, PTL DEF SerialSpec

\* The variables keep their types, however runs overlap.
THEOREM RaceTypeCorrect == Spec => []TypeOK
<1>1. IInv => TypeOK
  BY DEF IInv, TypeInv
<1> QED
  BY <1>1, RaceInv, PTL

\* And so they do when runs follow one another.
THEOREM SerialTypeCorrect == SerialSpec => []TypeOK
<1>1. IInv => TypeOK
  BY DEF IInv, TypeInv
<1> QED
  BY <1>1, SerialRaceInv, PTL

\* However runs overlap, also one on a stale copy of a closed cycle, exactly the
\* last cycle is open for the next run to find.
THEOREM OnlyLastStaysOpen == Spec => []OnlyLastIsOpen
<1>1. IInv => OnlyLastIsOpen
  BY DEF IInv
<1> QED
  BY <1>1, RaceInv, PTL

-----------------------------------------------------------------------------
(* Runs that follow one another.                                           *)

Solo == \A w, q \in Worker : pc[w] # "idle" /\ pc[q] # "idle" => w = q

(* The counters are exact, and nothing is counted after the last cycle's    *)
(* last_counted_date.                                                       *)
RowsOK ==
    \A k \in DOMAIN cycles :
        /\ cycles[k].sessions_counted = Cardinality(cycles[k].dates)
        /\ \A d \in cycles[k].dates : d <= cycles[Len(cycles)].last_counted_date

\* The committed row of a cycle number, or what is inserted for it.
Base(x) == IF x \in DOMAIN cycles THEN cycles[x] ELSE NewCycle(NoDate)

(* What a run that is alone knows of its cycle: it is the last one, and its *)
(* copy is the committed row or counts, besides, what no cycle has.         *)
Works(p, x, row, h, n) ==
    /\ x \in DOMAIN cycles => x = Len(cycles)
    /\ x \notin DOMAIN cycles /\ p # "opening" => x \in h
    /\ p \in {"opening", "counting"} => row = Base(x)
    /\ Base(x).dates \subseteq row.dates
    /\ \A k \in DOMAIN cycles : cycles[k].dates \cap (row.dates \ Base(x).dates) = {}
    /\ row.sessions_counted = Cardinality(row.dates)
    /\ Base(x).last_counted_date <= row.last_counted_date
    /\ \A d \in row.dates : d <= row.last_counted_date
    /\ p = "numbering" \/ n # 0 => Full(row)
    /\ p = "committing" /\ n = 0 => ~Full(row)
    /\ n # 0 => n \notin invoices

WorksAt(w) == Works(pc[w], work[w].number, work[w].row, held[w], number[w])
SerialInv == IInv /\ Solo /\ RowsOK /\ \A w \in Worker : pc[w] # "idle" => WorksAt(w)

\* A step of one run leaves the others as they are.
Others(w) ==
    \A q \in Worker \ {w} : /\ pc'[q] = pc[q] /\ work'[q] = work[q]
                            /\ held'[q] = held[q] /\ number'[q] = number[q]

LEMMA OthersKeep ==
    ASSUME TypeInv, NEW w \in Worker, Statement(w) \/ Load(w) \/ Detect(w) \/ Crash(w)
    PROVE  Others(w)
BY RunTypes DEF Others, Statement, Load, Detect, Crash, End, Go, Hold, Open, Insert, Count, SaveCount,
       PickNumber, InsertInvoice, Link, Follow, AppendNext, MoveNext, Commit

LEMMA Alone ==
    ASSUME SerialInv, IInv', NEW w \in Worker, \A q \in Worker \ {w} : pc[q] = "idle", Others(w),
           UNCHANGED <<cycles, invoices>>, pc'[w] # "idle" => WorksAt(w)'
    PROVE  SerialInv'
<1>1. RowsOK'
  BY DEF SerialInv, RowsOK
<1>2. \A q \in Worker : q # w => pc'[q] = "idle"
  BY DEF Others
<1>3. Solo'
  BY <1>2 DEF Solo
<1>4. \A q \in Worker : pc'[q] # "idle" => WorksAt(q)'
  BY <1>2
<1> QED
  BY <1>1, <1>3, <1>4 DEF SerialInv

LEMMA BusyAlone ==
    ASSUME SerialInv, NEW w \in Worker, pc[w] # "idle"
    PROVE  /\ \A q \in Worker \ {w} : pc[q] = "idle"
           /\ IInv /\ TypeInv /\ RowsOK /\ WorksAt(w) /\ RunOK(w)
BY DEF SerialInv, Solo, IInv

\* A run that ends leaves nothing behind.
LEMMA EndAlone ==
    ASSUME SerialInv, IInv', NEW w \in Worker, pc[w] # "idle", End(w), Others(w),
           UNCHANGED <<cycles, invoices>>
    PROVE  SerialInv'
<1>1. pc'[w] = "idle"
  BY BusyAlone, Ended DEF Moves
<1> QED
  BY <1>1, BusyAlone, Alone

\* A statement that writes no more than a lock.
LEMMA GoOnAlone ==
    ASSUME SerialInv, IInv', NEW w \in Worker, pc[w] # "idle", Others(w),
           UNCHANGED <<cycles, invoices, work, number>>,
           NEW p \in Places \ {"idle", "opening"}, Go(w, p), held[w] \subseteq held'[w],
           p = "counting" => pc[w] = "opening",
           pc[w] = "opening" => work[w].number \in held'[w],
           p = "numbering" => Full(work[w].row),
           p = "committing" /\ number[w] = 0 => ~Full(work[w].row)
    PROVE  SerialInv'
<1>1. pc'[w] = p
  BY BusyAlone, RunTypes DEF Go
<1>2. WorksAt(w)
  BY BusyAlone
<1>3. Works(p, work[w].number, work[w].row, held'[w], number[w])
  BY <1>2 DEF WorksAt, Works
<1>4. WorksAt(w)'
  BY <1>1, <1>3 DEF WorksAt, Works, Base
<1> QED
  BY <1>4, BusyAlone, Alone

LEMMA LoadAlone ==
    ASSUME SerialInv, IInv', NEW w \in Worker, Load(w), \A q \in Worker : pc[q] = "idle"
    PROVE  SerialInv'
<1> DEFINE open == {k \in DOMAIN cycles : cycles[k].invoice = Unbilled}
<1>0. /\ UNCHANGED <<cycles, invoices, held, number>> /\ TypeInv /\ Others(w) /\ number[w] = 0
      /\ RowsOK /\ OnlyLastIsOpen
  <2>1. TypeInv /\ RowsOK /\ OnlyLastIsOpen /\ RunOK(w)
    BY DEF SerialInv, IInv
  <2> QED BY <2>1, OthersKeep DEF Load, RunOK, Fits
<1>t. /\ Len(cycles) \in Nat /\ DOMAIN cycles = 1 .. Len(cycles)
      /\ \A k \in DOMAIN cycles : cycles[k] \in Cycle
  BY <1>0, RunTypes
<1>1. CASE open = {}
  <2> DEFINE x == Len(cycles) + 1
  <2>1. Go(w, "opening") /\ work' = [work EXCEPT ![w] = [number |-> x, row |-> NewCycle(NoDate)]]
    BY <1>1 DEF Load
  <2>2. pc'[w] = "opening" /\ work'[w].number = x /\ work'[w].row = NewCycle(NoDate)
    BY <1>0, <2>1, RunTypes DEF Go
  <2>3. x \notin DOMAIN cycles
    BY <1>t
  <2> HIDE DEF x
  <2>4. Base(x) = NewCycle(NoDate)
    BY <2>3 DEF Base
  <2>5. Works("opening", x, NewCycle(NoDate), held[w], 0)
    BY <2>3, <2>4, FS_EmptySet DEF Works, NewCycle, NoDate
  <2>6. WorksAt(w)'
    BY <1>0, <2>2, <2>5 DEF WorksAt, Works, Base
  <2> QED
    BY <1>0, <2>6, Alone
<1>2. CASE open # {}
  <2> DEFINE x == Latest(open)
  <2>1. x \in open /\ x \in DOMAIN cycles
    BY <1>0, <1>2, OpenCycle
  <2>2. Go(w, "counting") /\ work' = [work EXCEPT ![w] = [number |-> x, row |-> cycles[x]]]
    BY <1>2 DEF Load
  <2>3. x = Len(cycles)
    BY <1>0, <2>1 DEF OnlyLastIsOpen
  <2> HIDE DEF x
  <2>4. pc'[w] = "counting" /\ work'[w].number = x /\ work'[w].row = cycles[x]
    BY <1>0, <2>2, RunTypes DEF Go
  <2>5. Base(x) = cycles[x]
    BY <2>1 DEF Base
  <2>6. cycles[x].last_counted_date \in Nat
    BY <1>t, <2>1, RaceAssumption DEF Cycle, Date, NoDate
  <2>7. Works("counting", x, cycles[x], held[w], 0)
    BY <1>0, <2>1, <2>3, <2>5, <2>6 DEF Works, RowsOK
  <2>8. WorksAt(w)'
    BY <1>0, <2>4, <2>7 DEF WorksAt, Works, Base
  <2> QED
    BY <1>0, <2>8, Alone
<1> QED
  BY <1>1, <1>2

\* What a run counts afresh lies after all that has been counted.
LEMMA CountAlone ==
    ASSUME SerialInv, IInv', NEW w \in Worker, Count(w)
    PROVE  SerialInv'
<1> DEFINE x == work[w].number
           old == work[w].row
           new == {d \in present : d > old.last_counted_date}
           row == CountedOn(old, new)
           p == IF new # {} THEN "saving" ELSE IF Full(row) THEN "numbering" ELSE "committing"
<1>0. pc[w] = "counting" /\ UNCHANGED <<cycles, invoices, held, number>>
  BY DEF Count
<1>1. /\ \A q \in Worker \ {w} : pc[q] = "idle"
      /\ IInv /\ TypeInv /\ RowsOK /\ WorksAt(w) /\ RunOK(w) /\ Others(w)
  <2>1. pc[w] # "idle" /\ Statement(w)
    BY <1>0 DEF Statement
  <2> QED BY <2>1, BusyAlone, OthersKeep
<1>2. old \in Cycle /\ new \in SUBSET Date /\ x \in Nat /\ Len(cycles) \in Nat
      /\ DOMAIN cycles = 1 .. Len(cycles)
  BY <1>1, RunTypes DEF TypeInv, TypeOK
<1>3. pc'[w] = p /\ work'[w].number = x /\ work'[w].row = row /\ row \in Cycle
  <2>1. Go(w, p) /\ work' = [work EXCEPT ![w].row = row]
    BY DEF Count, CountedOn
  <2>2. row \in Cycle
    BY <1>2, CountedRow
  <2> HIDE DEF row, p
  <2> QED BY <1>1, <2>1, <2>2, RunTypes DEF Go
<1>4. /\ row.sessions_counted = old.sessions_counted + Cardinality(new)
      /\ row.dates = old.dates \cup new
      /\ old.last_counted_date <= row.last_counted_date
      /\ \A d \in new : d <= row.last_counted_date
  BY <1>2, CountedRow
<1>5. /\ old = Base(x)
      /\ x \in DOMAIN cycles => x = Len(cycles)
      /\ x \notin DOMAIN cycles => x \in held[w]
      /\ old.sessions_counted = Cardinality(old.dates)
      /\ \A d \in old.dates : d <= old.last_counted_date
      /\ number[w] = 0
  BY <1>0, <1>1 DEF WorksAt, Works, RunOK, Fits
<1>6. \A d \in new : d > old.last_counted_date /\ d \in Nat
  BY <1>2, RaceAssumption DEF Date
<1>7. old.last_counted_date \in Nat /\ row.last_counted_date \in Nat /\ old.dates \in SUBSET Date
      /\ \A d \in old.dates : d \in Nat
  BY <1>2, <1>3, RaceAssumption DEF Cycle, Date, NoDate
<1> HIDE DEF new, row
<1>8. \A k \in DOMAIN cycles : cycles[k].dates \cap new = {}
  <2> SUFFICES ASSUME NEW k \in DOMAIN cycles, NEW d \in cycles[k].dates, d \in new PROVE FALSE
    OBVIOUS
  <2>1. Len(cycles) # 0
    BY <1>2
  <2>2. x \in DOMAIN cycles /\ x = Len(cycles)
    BY <1>0, <1>1, <1>2, <1>5, <2>1 DEF RunOK, Fits
  <2>3. old = cycles[Len(cycles)]
    BY <1>5, <2>2 DEF Base
  <2>4. d <= old.last_counted_date
    BY <1>1, <2>3 DEF RowsOK
  <2> QED BY <1>6, <1>7, <2>4
<1>9. Cardinality(row.dates) = row.sessions_counted
  <2>1. old.dates \cap new = {}
    BY <1>5, <1>6, <1>7
  <2>2. IsFiniteSet(old.dates) /\ IsFiniteSet(new) /\ Cardinality(old.dates) \in Nat
        /\ Cardinality(new) \in Nat
    BY <1>2, <1>7, SomeDates
  <2>3. Cardinality(old.dates \cup new) = Cardinality(old.dates) + Cardinality(new) - Cardinality({})
    BY <2>1, <2>2, FS_Union
  <2>4. Cardinality({}) = 0
    BY FS_EmptySet
  <2> QED BY <1>4, <1>5, <2>2, <2>3, <2>4
<1>10. \A d \in row.dates : d <= row.last_counted_date
  BY <1>4, <1>5, <1>7
<1>11. Works(p, x, row, held[w], 0)
  BY <1>4, <1>5, <1>8, <1>9, <1>10 DEF Works
<1> HIDE DEF p
<1>12. WorksAt(w)'
  BY <1>0, <1>3, <1>5, <1>11 DEF WorksAt, Works, Base
<1> QED
  BY <1>0, <1>1, <1>12, Alone

LEMMA PickNumberAlone ==
    ASSUME SerialInv, IInv', NEW w \in Worker, PickNumber(w)
    PROVE  SerialInv'
<1> DEFINE v == Latest({0} \cup invoices)
<1>0. /\ UNCHANGED <<cycles, invoices, work, held>> /\ pc[w] = "numbering"
      /\ Go(w, "invoicing") /\ number' = [number EXCEPT ![w] = v + 1]
  BY DEF PickNumber
<1>1. /\ \A q \in Worker \ {w} : pc[q] = "idle"
      /\ IInv /\ TypeInv /\ WorksAt(w) /\ Others(w)
  <2>1. pc[w] # "idle" /\ Statement(w)
    BY <1>0 DEF Statement
  <2> QED BY <2>1, BusyAlone, OthersKeep
<1>2. v \in Nat /\ \A u \in invoices : u \in Nat /\ u <= v
  BY <1>1, LastNumber, RaceAssumption DEF TypeInv
<1>3. v + 1 \notin invoices
  <2> HIDE DEF v
  <2> QED BY <1>2
<1> HIDE DEF v
<1>4. pc'[w] = "invoicing" /\ number'[w] = v + 1
  BY <1>0, <1>1, RunTypes DEF Go
<1>5. Works("invoicing", work[w].number, work[w].row, held[w], v + 1)
  BY <1>0, <1>1, <1>3 DEF WorksAt, Works
<1>6. WorksAt(w)'
  BY <1>0, <1>4, <1>5 DEF WorksAt, Works, Base
<1> QED
  BY <1>0, <1>1, <1>6, Alone

LEMMA LinkAlone ==
    ASSUME SerialInv, IInv', NEW w \in Worker, Link(w)
    PROVE  SerialInv'
<1> DEFINE row == [work[w].row EXCEPT !.invoice = number[w]]
           x == work[w].number
<1>0. /\ UNCHANGED <<cycles, invoices, number>> /\ pc[w] = "linking"
      /\ Hold(w, x) /\ Go(w, "following") /\ work' = [work EXCEPT ![w].row.invoice = number[w]]
  BY DEF Link
<1>1. /\ \A q \in Worker \ {w} : pc[q] = "idle"
      /\ IInv /\ TypeInv /\ WorksAt(w) /\ Others(w)
  <2>1. pc[w] # "idle" /\ Statement(w)
    BY <1>0 DEF Statement
  <2> QED BY <2>1, BusyAlone, OthersKeep
<1>2. work[w].row \in Cycle
  BY <1>1, RunTypes
<1>3. /\ row.sessions_counted = work[w].row.sessions_counted /\ row.dates = work[w].row.dates
      /\ row.last_counted_date = work[w].row.last_counted_date
  BY <1>2 DEF Cycle
<1>4. /\ pc'[w] = "following" /\ work'[w].number = x /\ work'[w].row = row
      /\ held'[w] = held[w] \cup {x}
  BY <1>0, <1>1, RunTypes DEF Go, Hold
<1> HIDE DEF row
<1>5. Works("following", x, row, held[w] \cup {x}, number[w])
  BY <1>0, <1>1, <1>3 DEF WorksAt, Works, Full
<1>6. WorksAt(w)'
  BY <1>0, <1>4, <1>5 DEF WorksAt, Works, Base
<1> QED
  BY <1>0, <1>1, <1>6, Alone

LEMMA LockAlone ==    \* the statements that write no more than a lock
    ASSUME SerialInv, IInv', NEW w \in Worker,
           \/ Open(w) \/ SaveCount(w) \/ InsertInvoice(w) \/ Follow(w) \/ AppendNext(w) \/ MoveNext(w)
    PROVE  SerialInv'
<1>0. pc[w] # "idle" /\ Others(w) /\ UNCHANGED <<cycles, invoices>> /\ TypeInv /\ RunOK(w)
  <2>1. pc[w] # "idle" /\ UNCHANGED <<cycles, invoices>>
    BY DEF Open, Insert, SaveCount, InsertInvoice, Follow, AppendNext, MoveNext
  <2>2. TypeInv /\ RunOK(w)
    BY <2>1, BusyAlone
  <2> QED BY <2>1, <2>2, OthersKeep DEF Statement
<1>1. CASE End(w)
  BY <1>0, <1>1, EndAlone
<1>3. \A k \in Nat : Hold(w, k) => held'[w] = held[w] \cup {k}
  BY <1>0, RunTypes DEF Hold
<1>4. work[w].number \in Nat /\ work[w].number + 1 \in Nat
  <2>1. work[w].number \in Nat
    BY <1>0, RunTypes
  <2> QED BY <2>1
<1>5. CASE Open(w)
  <2>1. End(w) \/ (pc[w] = "opening" /\ Go(w, "counting") /\ Hold(w, work[w].number)
                   /\ UNCHANGED <<work, number>>)
    BY <1>5 DEF Open, Insert
  <2> QED
    BY <1>0, <1>1, <1>3, <1>4, <2>1, GoOnAlone DEF Places
<1>6. CASE SaveCount(w)
  <2> DEFINE p == IF Full(work[w].row) THEN "numbering" ELSE "committing"
  <2>1. Go(w, p) /\ Hold(w, work[w].number) /\ UNCHANGED <<work, number>> /\ pc[w] = "saving"
    BY <1>6 DEF SaveCount
  <2>2. held[w] \subseteq held'[w]
    BY <1>3, <1>4, <2>1
  <2>3. p \in Places \ {"idle", "opening"} /\ p # "counting"
    BY DEF Places
  <2>4. (p = "numbering" => Full(work[w].row)) /\ (p = "committing" => ~Full(work[w].row))
    OBVIOUS
  <2> HIDE DEF p
  <2> QED
    BY <1>0, <2>1, <2>2, <2>3, <2>4, GoOnAlone
<1>7. CASE InsertInvoice(w)
  <2>1. End(w) \/ (pc[w] = "invoicing" /\ Go(w, "linking") /\ UNCHANGED <<work, held, number>>)
    BY <1>7 DEF InsertInvoice
  <2> QED
    BY <1>0, <1>1, <2>1, GoOnAlone DEF Places
<1>8. CASE Follow(w)
  <2>1. pc[w] = "following" /\ number[w] # 0
    BY <1>0, <1>8 DEF Follow, RunOK, Fits
  <2>2. \/ End(w)
        \/ \E p \in {"appending", "moving", "committing"} :
             Go(w, p) /\ UNCHANGED <<work, held, number>>
    BY <1>8 DEF Follow
  <2> QED
    BY <1>0, <1>1, <2>1, <2>2, GoOnAlone DEF Places
<1>9. CASE AppendNext(w) \/ MoveNext(w)
  <2>1. pc[w] \in {"appending", "moving"} /\ number[w] # 0
    BY <1>0, <1>9 DEF AppendNext, MoveNext, RunOK, Fits
  <2>2. \/ End(w)
        \/ Go(w, "committing") /\ Hold(w, work[w].number + 1) /\ UNCHANGED <<work, number>>
    BY <1>9 DEF AppendNext, MoveNext, Insert
  <2> QED
    BY <1>0, <1>1, <1>3, <1>4, <2>1, <2>2, GoOnAlone DEF Places
<1> QED
  BY <1>5, <1>6, <1>7, <1>8, <1>9

\* What a run that is alone commits: nothing, or its row in place of the last
\* cycle or as the first, and an empty cycle after it if it has invoiced it.
LEMMA CommitAlone ==
    ASSUME SerialInv, NEW w \in Worker, Commit(w)
    PROVE  LET x == work[w].number
               n == number[w]
           IN  \/ n = 0 /\ UNCHANGED <<cycles, invoices>>
               \/ /\ x \in held[w] /\ x \in Nat \ {0}
                  /\ IF Len(cycles) = 0 THEN x = 1 /\ x \notin DOMAIN cycles
                                        ELSE x = Len(cycles) /\ x \in DOMAIN cycles
                  /\ Len(cycles') = IF n = 0 THEN x ELSE x + 1
                  /\ \A j \in 1 .. x : j # x => cycles'[j] = cycles[j]
                  /\ cycles'[x] = NowRow(w)
                  /\ n # 0 => cycles'[x + 1] = NewCycle(work[w].row.last_counted_date)
<1> DEFINE x == work[w].number
           n == number[w]
           len == Len(cycles)
           now == NowRow(w)
           next == NewCycle(work[w].row.last_counted_date)
<1>0. pc[w] = "committing" /\ invoices' = IF n = 0 THEN invoices ELSE invoices \cup {n}
  BY DEF Commit
<1>1. TypeInv /\ WorksAt(w) /\ RunOK(w)
  BY <1>0, BusyAlone
<1>2. /\ cycles \in Seq(Cycle) /\ len \in Nat /\ DOMAIN cycles = 1 .. len /\ x \in Nat
      /\ now \in Cycle /\ next \in Cycle
  <2>1. work[w].row \in Cycle
    BY <1>1, RunTypes
  <2>2. next \in Cycle
    BY <2>1, NewCycleType DEF Cycle
  <2> HIDE DEF next
  <2> QED BY <1>1, <2>2, RunTypes, RowsWritten DEF TypeInv, TypeOK
<1>3. /\ x \in 1 .. len \/ (x = 1 /\ len = 0)
      /\ x \in 1 .. len => x = len
      /\ x \notin 1 .. len => x \in held[w]
      /\ x + 1 \in held[w] => n # 0
      /\ n # 0 => x \in held[w]
      /\ n # 0 => x + 1 \in held[w] \/ x + 1 <= len
  BY <1>0, <1>1, <1>2 DEF RunOK, Fits, WorksAt, Works
<1>4. x + 1 \notin DOMAIN cycles /\ (x + 1 \in held[w] <=> n # 0)
  BY <1>2, <1>3
<1>5. cycles' = IF n = 0 THEN WasRows(w) ELSE Append(WasRows(w), next)
  BY <1>4, CommitWrites
<1>6. CASE x \notin held[w]
  <2>1. x \in DOMAIN cycles /\ n = 0
    BY <1>2, <1>3, <1>6
  <2>2. now = cycles[x]
    BY <1>6, <2>1 DEF NowRow, OldRow
  <2>3. WasRows(w) = cycles
    BY <1>2, <2>1, <2>2 DEF WasRows
  <2> QED BY <1>0, <1>5, <2>1, <2>3
<1>7. CASE x \in held[w]
  <2> DEFINE was == WasRows(w)
  <2>0. /\ was \in Seq(Cycle) /\ Len(was) = x /\ was[x] = now /\ x \in Nat \ {0}
        /\ \A j \in 1 .. x : j # x => was[j] = cycles[j]
        /\ IF len = 0 THEN x = 1 /\ x \notin DOMAIN cycles ELSE x = len /\ x \in DOMAIN cycles
    <3>1. CASE x \in 1 .. len
      <4>1. was = [cycles EXCEPT ![x] = now]
        BY <1>2, <3>1 DEF WasRows
      <4> HIDE DEF was, now
      <4>2. /\ was \in Seq(Cycle) /\ Len(was) = Len(cycles) /\ was[x] = now
            /\ \A j \in 1 .. Len(cycles) : j # x => was[j] = cycles[j]
        BY <1>2, <3>1, <4>1, Written
      <4>3. x = len
        BY <1>3, <3>1
      <4>4. x \in Nat \ {0} /\ len # 0 /\ x \in DOMAIN cycles
        BY <1>2, <3>1
      <4> QED BY <4>2, <4>3, <4>4
    <3>2. CASE x \notin 1 .. len
      <4>1. x = 1 /\ len = 0 /\ was = Append(cycles, now)
        BY <1>2, <1>3, <3>2 DEF WasRows
      <4> HIDE DEF was, now
      <4>2. was \in Seq(Cycle) /\ Len(was) = 1 /\ was[1] = now
        BY <1>2, <4>1, Appended
      <4>3. x \notin DOMAIN cycles
        BY <1>2, <3>2
      <4> QED BY <4>1, <4>2, <4>3
    <3> QED BY <3>1, <3>2
  <2> HIDE DEF was, now, next
  <2>1. CASE n = 0
    <3>1. cycles' = was
      BY <1>5, <2>1 DEF was
    <3> QED BY <1>7, <2>0, <2>1, <3>1 DEF now
  <2>2. CASE n # 0
    <3>1. cycles' = Append(was, next)
      BY <1>5, <2>2 DEF was
    <3>2. /\ Len(cycles') = x + 1 /\ cycles'[x + 1] = next
          /\ \A j \in 1 .. x : cycles'[j] = was[j]
      BY <1>2, <2>0, <3>1, Appended
    <3>3. x \in 1 .. x
      BY <2>0
    <3>4. cycles'[x] = now
      BY <2>0, <3>2, <3>3
    <3>5. \A j \in 1 .. x : j # x => cycles'[j] = cycles[j]
      BY <2>0, <3>2
    <3> QED BY <1>7, <2>0, <2>2, <3>2, <3>4, <3>5 DEF now, next
  <2> QED BY <2>1, <2>2
<1> QED
  BY <1>6, <1>7

LEMMA CommitSerial ==
    ASSUME SerialInv, IInv', NEW w \in Worker, Commit(w)
    PROVE  SerialInv'
<1> DEFINE x == work[w].number
           n == number[w]
           row == work[w].row
           now == NowRow(w)
           next == NewCycle(row.last_counted_date)
<1>0. pc[w] = "committing" /\ End(w) /\ Statement(w)
  BY DEF Commit, Statement
<1>1. /\ \A q \in Worker \ {w} : pc[q] = "idle"
      /\ TypeInv /\ RowsOK /\ WorksAt(w) /\ Others(w) /\ pc'[w] = "idle"
  <2>1. /\ \A q \in Worker \ {w} : pc[q] = "idle"
        /\ TypeInv /\ RowsOK /\ WorksAt(w)
    BY <1>0, BusyAlone
  <2> QED BY <1>0, <2>1, OthersKeep, Ended DEF Moves
<1>2. CASE UNCHANGED <<cycles, invoices>>
  BY <1>1, <1>2, Alone
<1>3. CASE /\ x \in held[w] /\ x \in Nat \ {0}
           /\ IF Len(cycles) = 0 THEN x = 1 /\ x \notin DOMAIN cycles
                                 ELSE x = Len(cycles) /\ x \in DOMAIN cycles
           /\ Len(cycles') = IF n = 0 THEN x ELSE x + 1
           /\ \A j \in 1 .. x : j # x => cycles'[j] = cycles[j]
           /\ cycles'[x] = now
           /\ n # 0 => cycles'[x + 1] = next
  <2>1. /\ now.sessions_counted = Cardinality(now.dates) /\ now.dates = row.dates
        /\ now.last_counted_date = row.last_counted_date
        /\ \A d \in row.dates : d <= row.last_counted_date
        /\ Base(x).last_counted_date <= row.last_counted_date
    BY <1>1, <1>3, RowsWritten DEF WorksAt, Works
  <2>2. /\ next.dates = {} /\ next.sessions_counted = 0 /\ Cardinality({}) = 0
        /\ next.last_counted_date = row.last_counted_date
    BY FS_EmptySet DEF NewCycle
  <2>3. cycles'[Len(cycles')].last_counted_date = row.last_counted_date
    <3> HIDE DEF now, next
    <3> QED BY <1>3, <2>1, <2>2
  <2>4. /\ DOMAIN cycles = 1 .. Len(cycles) /\ DOMAIN cycles' = 1 .. Len(cycles')
        /\ Len(cycles) \in Nat /\ \A k \in DOMAIN cycles : cycles[k] \in Cycle
    <3>1. cycles' \in Seq(Cycle)
      BY DEF IInv, TypeInv, TypeOK
    <3>2. DOMAIN cycles' = 1 .. Len(cycles')
      BY <3>1, LenProperties
    <3>3. /\ DOMAIN cycles = 1 .. Len(cycles) /\ Len(cycles) \in Nat
          /\ \A k \in DOMAIN cycles : cycles[k] \in Cycle
      BY <1>1, RunTypes
    <3> QED BY <3>2, <3>3
  <2>5. row.last_counted_date \in Int
        /\ \A k \in DOMAIN cycles : /\ cycles[k].last_counted_date \in Int
                                    /\ \A d \in cycles[k].dates : d \in Int
    <3>1. row \in Cycle
      BY <1>1, RunTypes
    <3> QED BY <2>4, <3>1, RaceAssumption DEF Cycle, Date, NoDate
  <2>6. ASSUME NEW j \in 1 .. x, j # x
        PROVE  /\ cycles'[j].sessions_counted = Cardinality(cycles'[j].dates)
               /\ \A d \in cycles'[j].dates : d <= row.last_counted_date
    <3>1. x = Len(cycles) /\ x \in DOMAIN cycles /\ j \in DOMAIN cycles /\ cycles'[j] = cycles[j]
      BY <1>3, <2>4, <2>6
    <3>2. Base(x) = cycles[Len(cycles)]
      BY <3>1 DEF Base
    <3>3. \A d \in cycles[j].dates : d <= cycles[Len(cycles)].last_counted_date
      BY <1>1, <3>1 DEF RowsOK
    <3>4. cycles[Len(cycles)].last_counted_date \in Int
      BY <2>5, <3>1
    <3>5. \A d \in cycles[j].dates : d <= row.last_counted_date
      BY <2>1, <2>5, <3>1, <3>2, <3>3, <3>4
    <3>6. cycles[j].sessions_counted = Cardinality(cycles[j].dates)
      BY <1>1, <3>1 DEF RowsOK
    <3> QED BY <3>1, <3>5, <3>6
  <2> HIDE DEF now, next
  <2>7. RowsOK'
    <3> SUFFICES ASSUME NEW j \in DOMAIN cycles'
                 PROVE  /\ cycles'[j].sessions_counted = Cardinality(cycles'[j].dates)
                        /\ \A d \in cycles'[j].dates : d <= row.last_counted_date
      BY <2>3 DEF RowsOK
    <3>1. j \in 1 .. x \/ (j = x + 1 /\ n # 0)
      BY <1>3, <2>4
    <3>2. CASE j \in 1 .. x /\ j # x
      BY <2>6, <3>2
    <3>3. CASE j = x
      BY <1>3, <2>1, <3>3
    <3>4. CASE j = x + 1 /\ n # 0
      BY <1>3, <2>2, <3>4
    <3> QED BY <3>1, <3>2, <3>3, <3>4
  <2>8. \A q \in Worker : pc'[q] = "idle"
    BY <1>1 DEF Others
  <2> QED
    BY <2>7, <2>8 DEF SerialInv, Solo
<1> QED
  BY <1>2, <1>3, CommitAlone

LEMMA SerialInitInv == Init => SerialInv
<1>1. Init => RowsOK /\ \A w \in Worker : pc[w] = "idle"
  BY DEF Init, RowsOK
<1> QED
  BY <1>1, InitInv DEF SerialInv, Solo

LEMMA SerialNextInv == SerialInv /\ [SerialNext]_vars => SerialInv'
<1> SUFFICES ASSUME SerialInv, [SerialNext]_vars PROVE SerialInv'
  OBVIOUS
<1>0. IInv /\ TypeInv /\ IInv'
  BY SerialStep DEF SerialInv, IInv
<1>1. ASSUME NEW w \in Worker, Statement(w) PROVE SerialInv'
  BY <1>0, <1>1, CountAlone, PickNumberAlone, LinkAlone, LockAlone, CommitSerial DEF Statement
<1>2. ASSUME NEW w \in Worker, Detect(w) \/ Crash(w) PROVE SerialInv'
  <2>1. CASE pc[w] # "idle"
    BY <1>0, <1>2, <2>1, OthersKeep, EndAlone DEF Detect, Crash
  <2>2. CASE pc[w] = "idle"
    <3>1. Detect(w)
      BY <1>2, <2>2 DEF Crash
    <3>2. Wanted(w) = {} /\ pc[w] # "invoicing"
      BY <2>2 DEF Wanted
    <3> QED BY <3>1, <3>2 DEF Detect, WaitsFor
  <2> QED
    BY <2>1, <2>2
<1>3. ASSUME NEW d \in Date, Mark(d) PROVE SerialInv'
  BY <1>0, <1>3 DEF Mark, SerialInv, Solo, RowsOK, WorksAt, Works, Base
<1>4. ASSUME NEW w \in Worker, Load(w), \A q \in Worker : pc[q] = "idle" PROVE SerialInv'
  BY <1>0, <1>4, LoadAlone
<1>5. CASE UNCHANGED vars
  BY <1>0, <1>5 DEF vars, SerialInv, Solo, RowsOK, WorksAt, Works, Base
<1> QED
  BY <1>1, <1>2, <1>3, <1>4, <1>5 DEF SerialNext, Rest

LEMMA SerialInvHolds == SerialSpec => []SerialInv
BY SerialInitInv, SerialNextInv, PTL DEF SerialSpec

-----------------------------------------------------------------------------
(* Runs that follow one another keep the promise.                          *)

\* What BillingPromise sees of cycles.
Kept    == [dates : SUBSET Date, invoice : Nat]
Seen(s) == [k \in DOMAIN s |-> [dates |-> s[k].dates, invoice |-> s[k].invoice]]

LEMMA SeenRows ==
    ASSUME NEW s \in Seq(Cycle)
    PROVE  /\ Seen(s) \in Seq(Kept) /\ Len(Seen(s)) = Len(s) /\ DOMAIN Seen(s) = 1 .. Len(s)
           /\ Len(s) \in Nat
           /\ \A k \in 1 .. Len(s) : /\ Seen(s)[k] = [dates |-> s[k].dates, invoice |-> s[k].invoice]
                                     /\ Seen(s)[k].dates = s[k].dates
                                     /\ Seen(s)[k] \in Kept
<1>1. Len(s) \in Nat /\ DOMAIN s = 1 .. Len(s) /\ \A k \in 1 .. Len(s) : s[k] \in Cycle
  BY LenProperties
<1>2. \A k \in 1 .. Len(s) : [dates |-> s[k].dates, invoice |-> s[k].invoice] \in Kept
  BY <1>1 DEF Cycle, Kept
<1>3. Seen(s) \in [1 .. Len(s) -> Kept]
  BY <1>1, <1>2 DEF Seen
<1>4. Seen(s) \in Seq(Kept) /\ Len(Seen(s)) = Len(s)
  BY <1>1, <1>3
<1> QED
  BY <1>1, <1>2, <1>3, <1>4 DEF Seen

\* The open cycle of the promise, those before it, and all that has been counted.
LEMMA PromiseSees ==
    ASSUME cycles \in Seq(Cycle),
           NEW x \in Nat \ {0}, IF Len(cycles) = 0 THEN x = 1 ELSE x = Len(cycles)
    PROVE  /\ Promise!Closed \in Seq(Kept) /\ Len(Promise!Closed) = x - 1
           /\ \A j \in 1 .. x - 1 : Promise!Closed[j] = Seen(cycles)[j]
           /\ Promise!Open = Base(x).dates
           /\ \A d \in Promise!Sessions : \E k \in DOMAIN cycles : d \in cycles[k].dates
<1> DEFINE c == Seen(cycles)
<1>1. /\ c \in Seq(Kept) /\ Len(c) = Len(cycles) /\ DOMAIN c = 1 .. Len(cycles)
      /\ Len(cycles) \in Nat /\ DOMAIN cycles = 1 .. Len(cycles)
      /\ \A k \in 1 .. Len(cycles) : c[k].dates = cycles[k].dates /\ c[k] \in Kept
  BY SeenRows, LenProperties
<1>2. Promise!Closed = IF c = <<>> THEN <<>> ELSE SubSeq(c, 1, Len(c) - 1)
  BY DEF Promise!Closed, Seen
<1>3. Promise!Open = IF c = <<>> THEN {} ELSE c[Len(c)].dates
  BY DEF Promise!Open, Seen
<1>4. Promise!Sessions = UNION {c[k].dates : k \in DOMAIN c}
  BY DEF Promise!Sessions, Seen
<1> HIDE DEF c
<1>5. \A d \in Promise!Sessions : \E k \in DOMAIN cycles : d \in cycles[k].dates
  BY <1>1, <1>4
<1>6. CASE Len(cycles) = 0
  <2>1. c = <<>> /\ x = 1 /\ x \notin DOMAIN cycles
    BY <1>1, <1>6
  <2>2. Base(x).dates = {}
    BY <2>1 DEF Base, NewCycle
  <2>3. Promise!Closed = <<>> /\ Promise!Open = {}
    BY <1>2, <1>3, <2>1
  <2> QED BY <1>5, <2>1, <2>2, <2>3
<1>7. CASE Len(cycles) # 0
  <2>1. c # <<>> /\ x = Len(cycles) /\ x \in DOMAIN cycles /\ x - 1 \in Int
    BY <1>1, <1>7
  <2>2. Promise!Open = Base(x).dates
    BY <1>1, <1>3, <2>1 DEF Base
  <2>3. \A j \in 1 .. x - 1 : c[j] \in Kept
    BY <1>1, <2>1
  <2>4. /\ SubSeq(c, 1, x - 1) \in Seq(Kept)
        /\ Len(SubSeq(c, 1, x - 1)) = x - 1
        /\ \A j \in 1 .. x - 1 : SubSeq(c, 1, x - 1)[j] = c[j]
    BY <2>1, <2>3, SubSeqProperties
  <2> QED BY <1>1, <1>2, <1>5, <2>1, <2>2, <2>4 DEF c
<1> QED
  BY <1>6, <1>7

LEMMA SameCount ==
    ASSUME NEW S
    PROVE  Promise!Cardinality(S) = Cardinality(S)
BY DEF Promise!Cardinality, Cardinality

\* A commit is one evaluation of the promise, which counts what the run's copy
\* has and the committed row does not.
LEMMA CommitKeepsPromise ==
    ASSUME SerialInv, IInv', NEW w \in Worker, Commit(w)
    PROVE  Promise!Next \/ UNCHANGED <<cycles, invoices>>
<1> DEFINE x == work[w].number
           n == number[w]
           row == work[w].row
<1>0. /\ pc[w] = "committing"
      /\ invoices' = IF n = 0 THEN invoices ELSE invoices \cup {n}
  BY DEF Commit
<1>1. TypeInv /\ IInv /\ WorksAt(w) /\ RunOK(w) /\ row \in Cycle /\ n \in Nat
  <2>1. TypeInv /\ IInv /\ WorksAt(w) /\ RunOK(w)
    BY <1>0, BusyAlone
  <2>2. row \in Cycle /\ n \in 0 .. MaxNumber
    BY <2>1, RunTypes
  <2> QED BY <2>1, <2>2
<1>2. SUFFICES
        ASSUME x \in held[w], x \in Nat \ {0},
               IF Len(cycles) = 0 THEN x = 1 /\ x \notin DOMAIN cycles
                                  ELSE x = Len(cycles) /\ x \in DOMAIN cycles,
               Len(cycles') = IF n = 0 THEN x ELSE x + 1,
               \A j \in 1 .. x : j # x => cycles'[j] = cycles[j],
               cycles'[x] = NowRow(w),
               n # 0 => cycles'[x + 1] = NewCycle(row.last_counted_date)
        PROVE  Promise!Next
  BY CommitAlone
<1>3. /\ cycles \in Seq(Cycle) /\ cycles' \in Seq(Cycle)
      /\ Len(cycles) \in Nat /\ DOMAIN cycles = 1 .. Len(cycles)
  <2>1. cycles \in Seq(Cycle) /\ cycles' \in Seq(Cycle)
    BY <1>1 DEF IInv, TypeInv, TypeOK
  <2> QED BY <2>1, LenProperties
<1>4. /\ Promise!Closed \in Seq(Kept) /\ Len(Promise!Closed) = x - 1
      /\ \A j \in 1 .. x - 1 : Promise!Closed[j] = Seen(cycles)[j]
      /\ Promise!Open = Base(x).dates
      /\ \A d \in Promise!Sessions : \E k \in DOMAIN cycles : d \in cycles[k].dates
  BY <1>2, <1>3, PromiseSees
<1>5. /\ Base(x).dates \subseteq row.dates
      /\ \A k \in DOMAIN cycles : cycles[k].dates \cap (row.dates \ Base(x).dates) = {}
      /\ row.sessions_counted = Cardinality(row.dates)
      /\ n # 0 => Full(row) /\ n \notin invoices
      /\ n = 0 => ~Full(row)
  BY <1>0, <1>1 DEF WorksAt, Works
<1>6. PICK dates \in SUBSET (Date \ Promise!Sessions) : Promise!Open \cup dates = row.dates
  <2>1. /\ row.dates \ Base(x).dates \in SUBSET (Date \ Promise!Sessions)
        /\ Promise!Open \cup (row.dates \ Base(x).dates) = row.dates
    BY <1>1, <1>4, <1>5 DEF Cycle
  <2> QED BY <2>1
<1>7. /\ Seen(cycles)' \in Seq(Kept) /\ Len(Seen(cycles)') = Len(cycles')
      /\ \A j \in 1 .. Len(cycles') : Seen(cycles)'[j] = [dates |-> cycles'[j].dates,
                                                          invoice |-> cycles'[j].invoice]
  <2>1. Seen(cycles') \in Seq(Kept) /\ Len(Seen(cycles')) = Len(cycles')
        /\ \A j \in 1 .. Len(cycles') : Seen(cycles')[j] = [dates |-> cycles'[j].dates,
                                                            invoice |-> cycles'[j].invoice]
    BY <1>3, SeenRows
  <2> QED BY <2>1 DEF Seen
<1>8. ASSUME NEW j \in 1 .. x - 1
      PROVE  Seen(cycles)'[j] = Promise!Closed[j] /\ j \in 1 .. Len(cycles')
  <2>1. j \in 1 .. x /\ j # x /\ j \in 1 .. Len(cycles) /\ j \in 1 .. Len(cycles')
    BY <1>2, <1>3
  <2>2. Seen(cycles)[j] = [dates |-> cycles[j].dates, invoice |-> cycles[j].invoice]
    BY <1>3, <2>1, SeenRows
  <2> QED BY <1>2, <1>4, <1>7, <2>1, <2>2
<1>9. /\ NowRow(w).dates = row.dates
      /\ NowRow(w).invoice = IF n = 0 THEN Unbilled ELSE n
  <2>1. /\ NowRow(w).dates = row.dates
        /\ NowRow(w).invoice = IF n = 0 THEN OldRow(w).invoice ELSE n
    BY <1>1, <1>2, RowsWritten
  <2>2. ASSUME n = 0 PROVE OldRow(w).invoice = Unbilled
    <3>1. CASE x \in DOMAIN cycles
      BY <1>1, <1>2, <1>3, <3>1 DEF OldRow, IInv, OnlyLastIsOpen
    <3>2. CASE x \notin DOMAIN cycles
      BY <1>1, <2>2, <3>2 DEF OldRow, RunOK, Fits
    <3> QED BY <3>1, <3>2
  <2> QED BY <2>1, <2>2
<1>10. Cardinality(row.dates) \in Nat /\ SessionsPerCycle \in Nat
  BY <1>1, SomeDates, RaceAssumption DEF Cycle
<1> DEFINE full == [dates |-> row.dates, invoice |-> n]
           part == [dates |-> row.dates, invoice |-> Unbilled]
           none == [dates |-> {}, invoice |-> Unbilled]
<1>11. full \in Kept /\ part \in Kept /\ none \in Kept
  BY <1>1 DEF Kept, Cycle, Unbilled
<1>12. CASE n = 0
  <2>1. Seen(cycles)'[x] = part /\ x \in 1 .. x
    BY <1>2, <1>7, <1>9, <1>12
  <2> HIDE DEF part
  <2>2. /\ Append(Promise!Closed, part) \in Seq(Kept)
        /\ Len(Append(Promise!Closed, part)) = x
        /\ \A j \in 1 .. x - 1 : Append(Promise!Closed, part)[j] = Promise!Closed[j]
        /\ Append(Promise!Closed, part)[x] = part
    <3>1. x - 1 \in Nat /\ x - 1 + 1 = x
      BY <1>2
    <3> QED BY <1>4, <1>11, <3>1, AppendProperties
  <2>3. \A j \in 1 .. x : Seen(cycles)'[j] = Append(Promise!Closed, part)[j]
    <3> SUFFICES ASSUME NEW j \in 1 .. x
                 PROVE  Seen(cycles)'[j] = Append(Promise!Closed, part)[j]
      OBVIOUS
    <3>1. j = x \/ j \in 1 .. x - 1
      BY <1>2
    <3> QED BY <1>8, <2>1, <2>2, <3>1
  <2>4. Seen(cycles)' = Append(Promise!Closed, part)
    BY <1>2, <1>7, <1>12, <2>2, <2>3, SeqEqual
  <2>5. Cardinality(row.dates) < SessionsPerCycle /\ invoices' = invoices
    BY <1>0, <1>5, <1>10, <1>12 DEF Full
  <2>6. Promise!Evaluate(dates)
    BY <1>6, <2>4, <2>5, SameCount DEF Promise!Evaluate, Promise!Unbilled, Unbilled, Seen, part
  <2> QED BY <1>6, <2>6 DEF Promise!Next
<1>13. CASE n # 0
  <2>0. x \in 1 .. x + 1 /\ x + 1 \in 1 .. x + 1 /\ Len(cycles') = x + 1
    BY <1>2, <1>13
  <2>1. Seen(cycles)'[x] = full /\ Seen(cycles)'[x + 1] = none
    <3>1. cycles'[x].dates = row.dates /\ cycles'[x].invoice = n
      BY <1>2, <1>9, <1>13
    <3>2. cycles'[x + 1].dates = {} /\ cycles'[x + 1].invoice = Unbilled
      BY <1>2, <1>13 DEF NewCycle
    <3> QED BY <1>7, <2>0, <3>1, <3>2
  <2> HIDE DEF full, none
  <2> DEFINE both == <<full, none>>
  <2>2. both \in Seq(Kept) /\ Len(both) = 2 /\ both[1] = full /\ both[2] = none
    BY <1>11
  <2> HIDE DEF both
  <2> DEFINE all == Promise!Closed \o both
  <2>3. /\ all \in Seq(Kept) /\ Len(all) = x + 1
        /\ \A j \in 1 .. x + 1 : all[j] = IF j <= x - 1 THEN Promise!Closed[j]
                                                       ELSE both[j - (x - 1)]
    <3>1. Len(Promise!Closed) + Len(both) = x + 1
      BY <1>2, <1>4, <2>2
    <3>2. /\ all \in Seq(Kept) /\ Len(all) = Len(Promise!Closed) + Len(both)
          /\ \A j \in 1 .. Len(Promise!Closed) + Len(both) :
               all[j] = IF j <= Len(Promise!Closed) THEN Promise!Closed[j]
                                                    ELSE both[j - Len(Promise!Closed)]
      BY <1>4, <2>2, ConcatProperties
    <3> HIDE DEF all
    <3> QED BY <1>4, <3>1, <3>2
  <2> HIDE DEF all
  <2>4. \A j \in 1 .. x + 1 : Seen(cycles)'[j] = all[j]
    <3> SUFFICES ASSUME NEW j \in 1 .. x + 1 PROVE Seen(cycles)'[j] = all[j]
      OBVIOUS
    <3>1. CASE j \in 1 .. x - 1
      BY <1>2, <1>8, <2>3, <3>1
    <3>2. CASE j = x
      <4>1. ~(j <= x - 1) /\ j - (x - 1) = 1
        BY <1>2, <3>2
      <4> QED BY <2>1, <2>2, <2>3, <3>2, <4>1
    <3>3. CASE j = x + 1
      <4>1. ~(j <= x - 1) /\ j - (x - 1) = 2
        BY <1>2, <3>3
      <4> QED BY <2>1, <2>2, <2>3, <3>3, <4>1
    <3> QED BY <1>2, <3>1, <3>2, <3>3
  <2>5. Seen(cycles)' = all
    BY <1>2, <1>7, <1>13, <2>3, <2>4, SeqEqual
  <2>6. Cardinality(row.dates) >= SessionsPerCycle /\ invoices' = invoices \cup {n}
        /\ n \in invoices' \ invoices
    BY <1>0, <1>5, <1>10, <1>13 DEF Full
  <2>7. Promise!Evaluate(dates)
    BY <1>6, <1>13, <2>5, <2>6, SameCount
    DEF Promise!Evaluate, Promise!Unbilled, Unbilled, Seen, all, both, full, none
  <2> QED BY <1>6, <2>7 DEF Promise!Next
<1> QED
  BY <1>12, <1>13

\* Runs that follow one another implement BillingPromise, however they crash and
\* whatever is marked between their statements: a commit is one evaluation that
\* counts every session once, and no other step changes cycles or invoices.
THEOREM SerialKeepsPromise == SerialSpec => KeepsPromise
<1>1. Init => Promise!Init
  BY DEF Init, Promise!Init
<1>2. SerialInv /\ [SerialNext]_vars => [Promise!Next]_<<[k \in DOMAIN cycles |->
              [dates |-> cycles[k].dates, invoice |-> cycles[k].invoice]], invoices>>
  <2> SUFFICES ASSUME SerialInv, [SerialNext]_vars
               PROVE  Promise!Next \/ UNCHANGED <<cycles, invoices>>
    OBVIOUS
  <2>2. ASSUME NEW w \in Worker, Commit(w) PROVE Promise!Next \/ UNCHANGED <<cycles, invoices>>
    BY <2>2, SerialStep, CommitKeepsPromise DEF SerialInv
  <2>3. \/ \E w \in Worker : Commit(w)
        \/ UNCHANGED <<cycles, invoices>>
    BY DEF SerialNext, Rest, Statement, Load, Detect, Crash, Mark, Open, Insert, Count, SaveCount,
           PickNumber, InsertInvoice, Link, Follow, AppendNext, MoveNext, vars
  <2> QED
    BY <2>2, <2>3
<1> QED
  BY <1>1, <1>2, SerialInvHolds, PTL DEF SerialSpec, KeepsPromise, Promise!Spec
=============================================================================
