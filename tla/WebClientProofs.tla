--------------------------- MODULE WebClientProofs --------------------------
(***************************************************************************)
(* The web client for every set of pages, hooks and saves, every table of  *)
(* forms and lists, and any number of saves under way: a user is shown     *)
(* their own writes by every page that is not waiting for an answer, no    *)
(* control sends a save twice, a form that reports success has saved what  *)
(* was typed, and the rows of a list can be reached.                       *)
(***************************************************************************)
EXTENDS QueryCache, FormEntry, Listing, TLAPS

(* What a step of the cache may rely on, of a page p, an entry e, a request f *)
(* and the user's confirmed writes o: unless a write has overtaken a fetch,   *)
(* an answer on its way holds every confirmed write, so does an answer not    *)
(* marked as old, and so does the answer p shows with no request under way.   *)
Holds(p, e, f, ov, o) ==
    ~ov => /\ f \in Nat => f >= o
           /\ f = NoData /\ e.data # NoData /\ ~e.stale => e.data >= o
           /\ f = NoData /\ e.data # NoData /\ Mounted(p) => e.data >= o

Current == Holds(page, entry, fetch, overtaken, own)
IInv == TypeOK /\ Current

----------------------------------------------------------------------------
(* A save that is under way is at one of the steps of the tables. *)
LEMMA StepInTables ==
    ASSUME TypeOK, NEW i \in Running
    PROVE  /\ jobs[i] \in Job
           /\ jobs[i].page \in Pages
           /\ jobs[i].name \in DOMAIN Saves[jobs[i].page]
           /\ jobs[i].step \in DOMAIN Saves[jobs[i].page][jobs[i].name].steps
           /\ SaveOK(SaveOf(jobs[i]))
           /\ StepOK(Step(jobs[i]))
           /\ Tells(Step(jobs[i]))
<1>1. i \in Slots /\ jobs[i] \in Job /\ JobOK(jobs[i], version)
  BY DEF TypeOK, Running
<1>2. jobs[i].page \in Pages
  BY <1>1 DEF Job
<1> QED
  BY <1>1, <1>2, TablesOK, GapsKnown DEF JobOK, SaveOf, Step, SaveOK

LEMMA NearbyPages ==
    ASSUME NEW k \in Keys
    PROVE  Near[k] \subseteq Pages /\ Elsewhere \in Near[k]
BY TablesOK

LEMMA LeavingTypes ==
    ASSUME NEW js \in [Slots -> Job \cup {Idle}],
           NEW v, \A i \in Slots : js[i] # Idle => JobOK(js[i], v)
    PROVE  /\ Leaving(js) \in [Slots -> Job \cup {Idle}]
           /\ \A i \in Slots : Leaving(js)[i] # Idle => JobOK(Leaving(js)[i], v)
<1> DEFINE left(i) == [js[i] EXCEPT !.here = FALSE]
<1>1. ASSUME NEW i \in Slots, js[i] # Idle
      PROVE  left(i) \in Job /\ JobOK(left(i), v)
  <2>1. js[i] \in Job /\ JobOK(js[i], v)
    BY <1>1
  <2>2. left(i) \in Job
    BY <2>1 DEF Job
  <2>3. left(i).name = js[i].name /\ left(i).page = js[i].page /\ left(i).step = js[i].step
        /\ left(i).at = js[i].at
    BY <2>1 DEF Job
  <2> QED
    BY <2>1, <2>2, <2>3 DEF JobOK, SaveOf
<1>2. \A i \in Slots : Leaving(js)[i] = IF js[i] = Idle THEN Idle ELSE left(i)
  BY DEF Leaving
<1>3. Leaving(js) \in [Slots -> Job \cup {Idle}]
  <2>1. \A i \in Slots : (IF js[i] = Idle THEN Idle ELSE left(i)) \in Job \cup {Idle}
    BY <1>1
  <2> QED
    BY <2>1 DEF Leaving
<1> QED
  BY <1>1, <1>2, <1>3

(* One job moves on, ends or begins, the others stay. *)
LEMMA OneJobTypes ==
    ASSUME NEW js \in [Slots -> Job \cup {Idle}],
           NEW v, \A i \in Slots : js[i] # Idle => JobOK(js[i], v),
           NEW k \in Slots, NEW j \in Job \cup {Idle}, j # Idle => JobOK(j, v)
    PROVE  /\ [js EXCEPT ![k] = j] \in [Slots -> Job \cup {Idle}]
           /\ \A i \in Slots : [js EXCEPT ![k] = j][i] # Idle => JobOK([js EXCEPT ![k] = j][i], v)
OBVIOUS

LEMMA InitTypes == Init => TypeOK
<1> SUFFICES ASSUME Init PROVE TypeOK
  OBVIOUS
<1>1. key \in Keys /\ page \in Near[key]
  BY NearbyPages DEF Init
<1>2. entry \in [data : (0 .. version) \cup {NoData}, stale : BOOLEAN]
  BY DEF Init, Empty
<1>3. version \in Versions /\ own \in 0 .. version
  BY TablesOK DEF Init, Versions
<1>4. jobs \in [Slots -> Job \cup {Idle}] /\ Running = {}
  BY DEF Init, Running
<1> QED
  BY <1>1, <1>2, <1>3, <1>4 DEF Init, TypeOK

LEMMA VisitTypes == TypeOK /\ (\E p \in Near[key] : Visit(p)) => TypeOK'
<1> SUFFICES ASSUME TypeOK, NEW p \in Near[key], Visit(p) PROVE TypeOK'
  OBVIOUS
<1>1. Open(p, entry, fetch, overtaken) /\ jobs' = Leaving(jobs) /\ UNCHANGED <<key, version, own>>
  BY DEF Visit
<1>2. /\ page' \in Near[key]
      /\ entry' \in [data : (0 .. version) \cup {NoData}, stale : BOOLEAN]
      /\ fetch' \in (0 .. version) \cup {NoData, Asked, Failed}
      /\ overtaken' \in BOOLEAN
  <2>1. /\ entry \in [data : (0 .. version) \cup {NoData}, stale : BOOLEAN]
        /\ fetch \in (0 .. version) \cup {NoData, Asked, Failed}
        /\ overtaken \in BOOLEAN
    BY DEF TypeOK
  <2> QED
    BY <1>1, <2>1 DEF Open
<1>3. /\ jobs' \in [Slots -> Job \cup {Idle}]
      /\ \A i \in Slots : jobs'[i] # Idle => JobOK(jobs'[i], version')
  BY <1>1, LeavingTypes DEF TypeOK, Running
<1> QED
  BY <1>1, <1>2, <1>3 DEF TypeOK, Running

LEMMA StartTypes == TypeOK /\ (\E i \in Slots : \E n \in DOMAIN Saves[page] : Start(i, n)) => TypeOK'
<1> SUFFICES ASSUME TypeOK, NEW i \in Slots, NEW n \in DOMAIN Saves[page], Start(i, n) PROVE TypeOK'
  OBVIOUS
<1> DEFINE j == [page |-> page, name |-> n, step |-> 1, phase |-> "sent", at |-> 0, here |-> TRUE]
<1>1. page \in Pages
  BY NearbyPages DEF TypeOK
<1>2. SaveOK(Saves[page][n])
  BY <1>1, TablesOK
<1>3. j \in Job
  BY <1>1, TablesOK DEF Job, Names, Phases, Versions
<1>4. JobOK(j, version)
  <2>1. 1 \in DOMAIN Saves[page][n].steps
    BY <1>2 DEF SaveOK
  <2> QED
    BY <2>1, TablesOK, SMTT(30) DEF JobOK, SaveOf, TypeOK, Versions
<1>5. jobs' = [jobs EXCEPT ![i] = j] /\ UNCHANGED <<key, page, entry, fetch, version, own, overtaken>>
  BY DEF Start
<1>6. /\ jobs' \in [Slots -> Job \cup {Idle}]
      /\ \A k \in Slots : jobs'[k] # Idle => JobOK(jobs'[k], version')
  BY <1>3, <1>4, <1>5, OneJobTypes DEF TypeOK, Running
<1> QED
  BY <1>5, <1>6 DEF TypeOK, Running

LEMMA ApplyTypes == TypeOK /\ (\E i \in Slots : Apply(i)) => TypeOK'
<1> SUFFICES ASSUME TypeOK, NEW i \in Slots, Apply(i) PROVE TypeOK'
  OBVIOUS
<1> DEFINE j == [jobs[i] EXCEPT !.phase = "applied", !.at = version']
<1>1. i \in Running /\ UNCHANGED <<key, page, entry, fetch, own, overtaken>>
  BY DEF Apply
<1>2. version' \in Versions /\ version <= version'
  BY TablesOK DEF Apply, TypeOK, Versions
<1>3. jobs[i] \in Job /\ JobOK(jobs[i], version)
  BY <1>1, StepInTables DEF TypeOK
<1>4. j \in Job /\ JobOK(j, version')
  <2>1. j \in Job
    BY <1>2, <1>3 DEF Job, Phases
  <2>2. j.name = jobs[i].name /\ j.page = jobs[i].page /\ j.step = jobs[i].step /\ j.at = version'
    BY <1>3 DEF Job
  <2> QED
    BY <1>2, <1>3, <2>1, <2>2 DEF JobOK, SaveOf, Versions
<1>5. \A k \in Slots : jobs[k] # Idle => JobOK(jobs[k], version')
  <2> SUFFICES ASSUME NEW k \in Slots, jobs[k] # Idle PROVE JobOK(jobs[k], version')
    OBVIOUS
  <2>1. jobs[k] \in Job /\ JobOK(jobs[k], version)
    BY DEF TypeOK, Running
  <2>2. jobs[k].at \in Nat /\ version \in Nat /\ version' \in Nat
    BY <1>2, <2>1, TablesOK DEF TypeOK, Job, Versions
  <2> QED
    BY <1>2, <2>1, <2>2 DEF JobOK
<1>6. jobs' = [jobs EXCEPT ![i] = j]
  BY DEF Apply
<1>7. /\ jobs' \in [Slots -> Job \cup {Idle}]
      /\ \A k \in Slots : jobs'[k] # Idle => JobOK(jobs'[k], version')
  BY <1>4, <1>5, <1>6, OneJobTypes DEF TypeOK
<1>8. /\ entry \in [data : (0 .. version') \cup {NoData}, stale : BOOLEAN]
      /\ fetch \in (0 .. version') \cup {NoData, Asked, Failed}
      /\ own \in 0 .. version'
  BY <1>2, TablesOK DEF TypeOK, Versions
<1> QED
  BY <1>1, <1>2, <1>7, <1>8 DEF TypeOK, Running

(* What an answer makes of the entry, the request and the user's own writes. *)
LEMMA AnswerValues ==
    ASSUME TypeOK, NEW i \in Running
    PROVE  LET s == Step(jobs[i]) at == jobs[i].at
           IN  /\ NewEntry(s, at) \in [data : (0 .. version) \cup {NoData}, stale : BOOLEAN]
               /\ NewFetch(s) \in (0 .. version) \cup {NoData, Asked, Failed}
               /\ NewlyOvertaken(s, at) \in BOOLEAN
               /\ Shown(s, at) \in 0 .. version
<1> DEFINE s == Step(jobs[i])
           at == jobs[i].at
<1>1. at \in 0 .. version
  BY StepInTables, TablesOK DEF TypeOK, JobOK, Job, Versions
<1>2. NewEntry(s, at) \in [data : (0 .. version) \cup {NoData}, stale : BOOLEAN]
  <2>1. entry \in [data : (0 .. version) \cup {NoData}, stale : BOOLEAN]
    BY DEF TypeOK
  <2>2. Empty \in [data : (0 .. version) \cup {NoData}, stale : BOOLEAN]
    BY DEF Empty
  <2>3. [data |-> at, stale |-> FALSE] \in [data : (0 .. version) \cup {NoData}, stale : BOOLEAN]
    BY <1>1
  <2>4. [entry EXCEPT !.stale = TRUE] \in [data : (0 .. version) \cup {NoData}, stale : BOOLEAN]
    BY <2>1
  <2> QED
    BY <2>1, <2>2, <2>3, <2>4 DEF NewEntry
<1>3. NewFetch(s) \in (0 .. version) \cup {NoData, Asked, Failed}
  BY DEF NewFetch, TypeOK
<1>4. NewlyOvertaken(s, at) \in BOOLEAN
  BY DEF NewlyOvertaken, TypeOK
<1>5. Shown(s, at) \in 0 .. version
  BY <1>1 DEF Shown, TypeOK
<1> QED
  BY <1>2, <1>3, <1>4, <1>5

LEMMA AnswerTypes == TypeOK /\ (\E i \in Slots : Answer(i)) => TypeOK'
<1> SUFFICES ASSUME TypeOK, NEW i \in Slots, Answer(i) PROVE TypeOK'
  OBVIOUS
<1> DEFINE j == jobs[i]
           s == Step(j)
           goes == Last(j) /\ SaveOf(j).after # Stay
           after == IF Last(j) THEN Idle ELSE [j EXCEPT !.step = @ + 1, !.phase = "sent"]
           rest == [jobs EXCEPT ![i] = after]
<1>1. i \in Running /\ UNCHANGED <<key, version>> /\ own' = Shown(s, j.at)
  BY DEF Answer
<1>2. /\ NewEntry(s, j.at) \in [data : (0 .. version) \cup {NoData}, stale : BOOLEAN]
      /\ NewFetch(s) \in (0 .. version) \cup {NoData, Asked, Failed}
      /\ NewlyOvertaken(s, j.at) \in BOOLEAN
      /\ own' \in 0 .. version'
  BY <1>1, AnswerValues
<1>3. /\ page' \in Near[key]
      /\ entry' \in [data : (0 .. version) \cup {NoData}, stale : BOOLEAN]
      /\ fetch' \in (0 .. version) \cup {NoData, Asked, Failed}
      /\ overtaken' \in BOOLEAN
  <2>1. CASE goes
    <3>1. Open(Towards(SaveOf(j).after), NewEntry(s, j.at), NewFetch(s), NewlyOvertaken(s, j.at))
      BY <2>1 DEF Answer
    <3>2. Towards(SaveOf(j).after) \in Near[key]
      BY NearbyPages DEF Towards, TypeOK
    <3> QED
      BY <3>1, <3>2, <1>2 DEF Open
  <2>2. CASE ~goes
    BY <2>2, <1>2 DEF Answer, TypeOK
  <2> QED
    BY <2>1, <2>2
<1>4. j \in Job /\ JobOK(j, version) /\ SaveOK(SaveOf(j))
  BY <1>1, StepInTables DEF TypeOK
<1>5. after \in Job \cup {Idle} /\ (after # Idle => JobOK(after, version))
  <2>1. CASE Last(j)
    BY <2>1
  <2>2. CASE ~Last(j)
    <3> DEFINE n == [j EXCEPT !.step = @ + 1, !.phase = "sent"]
    <3>1. n \in Job
      <4>1. j.step + 1 \in Nat /\ "sent" \in Phases
        BY <1>4 DEF Job, Phases
      <4>2. \A k \in Nat, h \in Phases : [j EXCEPT !.step = k, !.phase = h] \in Job
        BY <1>4 DEF Job
      <4>3. n = [j EXCEPT !.step = j.step + 1, !.phase = "sent"]
        BY <1>4 DEF Job
      <4> QED
        BY <4>1, <4>2, <4>3
    <3>2. n.name = j.name /\ n.page = j.page /\ n.step = j.step + 1 /\ n.at = j.at
      BY <1>4 DEF Job
    <3>3. j.step + 1 \in DOMAIN SaveOf(j).steps
      BY <2>2, <1>4 DEF Last, SaveOK, JobOK
    <3>4. JobOK(n, version)
      BY <1>4, <3>2, <3>3 DEF JobOK, SaveOf
    <3> QED
      BY <2>2, <3>1, <3>4
  <2> QED
    BY <2>1, <2>2
<1>6. /\ rest \in [Slots -> Job \cup {Idle}]
      /\ \A k \in Slots : rest[k] # Idle => JobOK(rest[k], version)
  BY <1>5, OneJobTypes DEF TypeOK, Running
<1>7. jobs' = IF goes THEN Leaving(rest) ELSE rest
  BY DEF Answer
<1>8. /\ jobs' \in [Slots -> Job \cup {Idle}]
      /\ \A k \in Slots : jobs'[k] # Idle => JobOK(jobs'[k], version')
  BY <1>1, <1>6, <1>7, LeavingTypes
<1> QED
  BY <1>1, <1>2, <1>3, <1>8 DEF TypeOK, Running

LEMMA FailTypes == TypeOK /\ (\E i \in Slots : Fail(i)) => TypeOK'
<1> SUFFICES ASSUME TypeOK, NEW i \in Slots, Fail(i) PROVE TypeOK'
  OBVIOUS
<1>1. jobs' = [jobs EXCEPT ![i] = Idle] /\ UNCHANGED <<key, page, entry, fetch, version, own, overtaken>>
  BY DEF Fail
<1>2. /\ jobs' \in [Slots -> Job \cup {Idle}]
      /\ \A k \in Slots : jobs'[k] # Idle => JobOK(jobs'[k], version')
  BY <1>1, OneJobTypes DEF TypeOK, Running
<1> QED
  BY <1>1, <1>2 DEF TypeOK, Running

(* The steps that leave the jobs and the page alone. *)
LEMMA OtherTypes == TypeOK /\ (OthersWrite \/ ServerReads \/ CacheNext) => TypeOK'
<1> SUFFICES ASSUME TypeOK, OthersWrite \/ ServerReads \/ CacheNext PROVE TypeOK'
  OBVIOUS
<1>1. UNCHANGED <<key, page, own, jobs>> /\ version' \in Versions /\ version <= version'
  BY TablesOK DEF TypeOK, Versions, OthersWrite, ServerReads, CacheNext, FetchDone, FetchFails,
                  StaleTimePasses, Reconnect, Collect
<1>2. \A i \in Running : JobOK(jobs[i], version')
  BY <1>1, TablesOK DEF TypeOK, JobOK, Job, Running, Versions
<1>3. overtaken' \in BOOLEAN
  BY DEF TypeOK, OthersWrite, ServerReads, CacheNext, FetchDone, FetchFails, StaleTimePasses, Reconnect,
         Collect
<1>4. fetch' \in (0 .. version') \cup {NoData, Asked, Failed}
  BY TablesOK DEF TypeOK, Versions, OthersWrite, ServerReads, CacheNext, FetchDone, FetchFails,
                  StaleTimePasses, Reconnect, Collect
<1>5. entry' \in [data : (0 .. version') \cup {NoData}, stale : BOOLEAN]
  <2>1. entry \in [data : (0 .. version') \cup {NoData}, stale : BOOLEAN]
    BY <1>1, TablesOK DEF TypeOK, Versions
  <2>2. CASE FetchDone
    <3>1. fetch \in 0 .. version' /\ entry' = [data |-> fetch, stale |-> FALSE]
      BY <2>2, <1>1, TablesOK DEF FetchDone, TypeOK, Versions
    <3> QED
      BY <3>1
  <2>3. CASE StaleTimePasses
    BY <2>1, <2>3 DEF StaleTimePasses
  <2>4. CASE Collect
    BY <2>4 DEF Collect, Empty
  <2>5. CASE OthersWrite \/ ServerReads \/ FetchFails \/ Reconnect
    BY <2>1, <2>5 DEF OthersWrite, ServerReads, FetchFails, Reconnect
  <2> QED
    BY <2>2, <2>3, <2>4, <2>5 DEF CacheNext
<1>6. own' \in 0 .. version'
  BY <1>1, TablesOK DEF TypeOK, Versions
<1> QED
  BY <1>1, <1>2, <1>3, <1>4, <1>5, <1>6 DEF TypeOK, Running

LEMMA NextTypes == TypeOK /\ [Next]_vars => TypeOK'
<1> SUFFICES ASSUME TypeOK, [Next]_vars PROVE TypeOK'
  OBVIOUS
<1>1. CASE \E p \in Near[key] : Visit(p)
  BY <1>1, VisitTypes
<1>2. CASE \E i \in Slots : \E n \in DOMAIN Saves[page] : Start(i, n)
  BY <1>2, StartTypes
<1>3. CASE \E i \in Slots : JobNext(i)
  BY <1>3, ApplyTypes, AnswerTypes, FailTypes DEF JobNext
<1>4. CASE OthersWrite \/ ServerReads \/ CacheNext
  BY <1>4, OtherTypes
<1>5. CASE UNCHANGED vars
  BY <1>5 DEF vars, TypeOK, Running
<1> QED
  BY <1>1, <1>2, <1>3, <1>4, <1>5 DEF Next

(* The cache and the requests of a tab are well-typed, and nothing the tab    *)
(* has or waits for is newer than the server (QueryCache, from App.tsx and    *)
(* the hooks).                                                                *)
THEOREM CacheTypeCorrect == Spec => []TypeOK
BY InitTypes, NextTypes, PTL DEF Spec

----------------------------------------------------------------------------
LEMMA InitCurrent == Init => Current
<1> SUFFICES ASSUME Init PROVE Current
  OBVIOUS
<1>1. entry.data = NoData /\ fetch \in {NoData, Asked}
  BY DEF Init, Empty
<1> QED
  BY <1>1, TablesOK DEF Current, Holds

(* Opening another page keeps it: a page that mounts an old answer asks. *)
LEMMA OpenHolds ==
    ASSUME TypeOK, NEW p \in Pages, NEW e \in [data : (0 .. version) \cup {NoData}, stale : BOOLEAN],
           NEW f \in (0 .. version) \cup {NoData, Asked, Failed}, NEW ov \in BOOLEAN, NEW o,
           Holds(page, e, f, ov, o), Open(p, e, f, ov)
    PROVE  Holds(page', entry', fetch', overtaken', o)
<1>1. page' = p /\ entry' = e
  BY DEF Open
<1>2. CASE Asks(p, e, f)
  BY <1>1, <1>2, TablesOK DEF Open, Holds
<1>3. CASE ~Asks(p, e, f)
  <2>1. fetch' = f /\ overtaken' = ov
    BY <1>3 DEF Open
  <2>2. ASSUME ~ov, f = NoData, e.data # NoData, Mounted(p) PROVE e.data >= o
    <3>1. CASE key \in Reads[p]
      BY <1>3, <2>2, <3>1 DEF Asks, Stale, Holds
    <3>2. CASE key \in Layout
      BY <2>2, <3>2 DEF Mounted, Holds
    <3> QED
      BY <2>2, <3>1, <3>2 DEF Mounted
  <2> QED
    BY <1>1, <2>1, <2>2 DEF Holds
<1> QED
  BY <1>2, <1>3

(* What onSuccess of a hook leaves, before the user goes anywhere: the answer *)
(* is removed, asked for again, filled, or marked as old where no page shows  *)
(* it; a write that the hook says nothing about is a gap.                     *)
LEMMA AnswerHolds ==
    ASSUME TypeOK, Current, NEW i \in Running
    PROVE  LET s == Step(jobs[i]) at == jobs[i].at
           IN  Holds(page, NewEntry(s, at), NewFetch(s), NewlyOvertaken(s, at), Shown(s, at))
<1> DEFINE s == Step(jobs[i])
           at == jobs[i].at
<1> SUFFICES ASSUME ~NewlyOvertaken(s, at)
             PROVE  Holds(page, NewEntry(s, at), NewFetch(s), FALSE, Shown(s, at))
  BY DEF Holds
<1>1. StepOK(s) /\ Tells(s) /\ at \in 0 .. version
  BY StepInTables, TablesOK DEF TypeOK, JobOK, Job, Versions
<1>2. /\ version \in Nat /\ own \in 0 .. version
      /\ entry \in [data : (0 .. version) \cup {NoData}, stale : BOOLEAN]
      /\ fetch \in (0 .. version) \cup {NoData, Asked, Failed}
  BY TablesOK DEF TypeOK, Versions
<1>3. CASE key \in s.drops
  <2>1. NewEntry(s, at) = Empty /\ NewFetch(s) = NoData
    BY <1>3 DEF NewEntry, NewFetch
  <2> QED
    BY <2>1, TablesOK DEF Holds, Empty
<1>4. CASE key \notin s.drops /\ key \in s.marks \ s.puts /\ Restarts
  <2>1. NewFetch(s) = Asked
    BY <1>4 DEF NewFetch
  <2> QED
    BY <2>1, TablesOK DEF Holds
<1>5. CASE key \notin s.drops /\ key \in s.puts
  <2>1. fetch \notin Versions /\ at >= own
    BY <1>1, <1>2, <1>5 DEF NewlyOvertaken
  <2>2. NewEntry(s, at) = [data |-> at, stale |-> FALSE] /\ NewFetch(s) = fetch
    BY <1>5 DEF NewEntry, NewFetch
  <2>3. fetch \notin Nat
    BY <1>2, <2>1, TablesOK DEF TypeOK, Versions
  <2>4. at >= Shown(s, at)
    BY <1>1, <1>2, <2>1 DEF Shown
  <2> QED
    BY <2>2, <2>3, <2>4 DEF Holds
<1>6. CASE key \notin s.drops /\ key \in s.marks \ s.puts /\ ~Restarts
  <2>1. fetch \notin Versions /\ NewFetch(s) = fetch
    BY <1>6 DEF NewlyOvertaken, NewFetch
  <2>2. fetch \notin Nat
    BY <1>2, <2>1, TablesOK DEF TypeOK, Versions
  <2>3. CASE entry.data = NoData
    <3>1. NewEntry(s, at) = entry
      BY <1>6, <2>3 DEF NewEntry
    <3> QED
      BY <2>1, <2>2, <2>3, <3>1 DEF Holds
  <2>4. CASE entry.data # NoData
    <3>1. ~Mounted(page)
      BY <1>6, <2>4 DEF Restarts
    <3>2. NewEntry(s, at).stale
      BY <1>2, <1>6, <2>4 DEF NewEntry
    <3> QED
      BY <2>1, <2>2, <3>1, <3>2 DEF Holds
  <2> QED
    BY <2>3, <2>4
<1>7. CASE key \notin s.drops \cup s.marks \cup s.puts
  <2>1. NewEntry(s, at) = entry /\ NewFetch(s) = fetch /\ ~overtaken
    BY <1>7 DEF NewEntry, NewFetch, NewlyOvertaken
  <2>2. Shown(s, at) = own
    BY <1>1, <1>7 DEF Shown, Tells
  <2> QED
    BY <2>1, <2>2 DEF Current, Holds
<1> QED
  BY <1>3, <1>4, <1>5, <1>6, <1>7

LEMMA AnswerCurrent == IInv /\ (\E i \in Slots : Answer(i)) => Current'
<1> SUFFICES ASSUME TypeOK, Current, NEW i \in Slots, Answer(i) PROVE Current'
  BY DEF IInv
<1> DEFINE j == jobs[i]
           s == Step(j)
           goes == Last(j) /\ SaveOf(j).after # Stay
<1>1. i \in Running /\ key' = key /\ own' = Shown(s, j.at)
  BY DEF Answer
<1>2. /\ NewEntry(s, j.at) \in [data : (0 .. version) \cup {NoData}, stale : BOOLEAN]
      /\ NewFetch(s) \in (0 .. version) \cup {NoData, Asked, Failed}
      /\ NewlyOvertaken(s, j.at) \in BOOLEAN
  BY <1>1, AnswerValues
<1>3. Holds(page, NewEntry(s, j.at), NewFetch(s), NewlyOvertaken(s, j.at), own')
  BY <1>1, AnswerHolds
<1>4. Holds(page', entry', fetch', overtaken', own')
  <2>1. CASE goes
    <3>1. Open(Towards(SaveOf(j).after), NewEntry(s, j.at), NewFetch(s), NewlyOvertaken(s, j.at))
      BY <2>1 DEF Answer
    <3>2. Towards(SaveOf(j).after) \in Pages
      BY NearbyPages DEF Towards, TypeOK
    <3> QED
      BY <1>2, <1>3, <3>1, <3>2, OpenHolds
  <2>2. CASE ~goes
    BY <2>2, <1>3 DEF Answer
  <2> QED
    BY <2>1, <2>2
<1> QED
  BY <1>1, <1>4 DEF Current, Holds, Mounted

LEMMA VisitCurrent == IInv /\ (\E p \in Near[key] : Visit(p)) => Current'
<1> SUFFICES ASSUME TypeOK, Current, NEW p \in Near[key], Visit(p) PROVE Current'
  BY DEF IInv
<1>1. p \in Pages /\ Open(p, entry, fetch, overtaken) /\ key' = key /\ own' = own
  BY NearbyPages DEF Visit, TypeOK
<1>2. Holds(page', entry', fetch', overtaken', own)
  BY <1>1, OpenHolds DEF Current, TypeOK
<1> QED
  BY <1>1, <1>2 DEF Current, Holds, Mounted

(* The steps of the server and of the cache by itself. *)
LEMMA OtherCurrent ==
    IInv /\ (OthersWrite \/ ServerReads \/ CacheNext \/ (\E i \in Slots : Apply(i) \/ Fail(i))) => Current'
<1> SUFFICES ASSUME TypeOK, Current, OthersWrite \/ ServerReads \/ CacheNext \/ (\E i \in Slots : Apply(i) \/ Fail(i))
             PROVE  Current'
  BY DEF IInv
<1>1. key' = key /\ page' = page /\ own' = own
  BY DEF OthersWrite, ServerReads, CacheNext, FetchDone, FetchFails, StaleTimePasses, Reconnect, Collect,
         Apply, Fail
<1>2. Holds(page, entry', fetch', overtaken', own)
  <2>1. CASE OthersWrite \/ (\E i \in Slots : Apply(i) \/ Fail(i))
    BY <2>1 DEF OthersWrite, Apply, Fail, Current, Holds
  <2>2. CASE ServerReads
    BY <2>2, TablesOK DEF ServerReads, Current, Holds, TypeOK, Versions
  <2>3. CASE FetchDone
    <3>1. entry'.data = fetch /\ fetch \in Nat /\ overtaken' = overtaken /\ fetch' = NoData
      BY <2>3 DEF FetchDone, Versions
    <3> QED
      BY <3>1, TablesOK DEF Current, Holds
  <2>4. CASE FetchFails
    BY <2>4, TablesOK DEF FetchFails, Current, Holds
  <2>5. CASE StaleTimePasses
    <3>1. entry'.data = entry.data /\ entry'.stale /\ fetch' = fetch /\ overtaken' = overtaken
      BY <2>5 DEF StaleTimePasses, TypeOK
    <3> QED
      BY <3>1 DEF Current, Holds
  <2>6. CASE Reconnect
    BY <2>6, TablesOK DEF Reconnect, Holds
  <2>7. CASE Collect
    BY <2>7, TablesOK DEF Collect, Empty, Holds
  <2> QED
    BY <2>1, <2>2, <2>3, <2>4, <2>5, <2>6, <2>7 DEF CacheNext
<1> QED
  BY <1>1, <1>2 DEF Current, Holds, Mounted

LEMMA NextInvariant == IInv /\ [Next]_vars => IInv'
<1> SUFFICES ASSUME IInv, [Next]_vars PROVE IInv'
  OBVIOUS
<1>1. TypeOK'
  BY NextTypes DEF IInv
<1>2. Current'
  <2>1. CASE \E p \in Near[key] : Visit(p)
    BY <2>1, VisitCurrent
  <2>2. CASE \E i \in Slots : \E n \in DOMAIN Saves[page] : Start(i, n)
    BY <2>2 DEF Start, IInv, Current, Holds, Mounted
  <2>3. CASE \E i \in Slots : JobNext(i)
    BY <2>3, AnswerCurrent, OtherCurrent DEF JobNext
  <2>4. CASE OthersWrite \/ ServerReads \/ CacheNext
    BY <2>4, OtherCurrent
  <2>5. CASE UNCHANGED vars
    BY <2>5 DEF vars, IInv, Current, Holds, Mounted
  <2> QED
    BY <2>1, <2>2, <2>3, <2>4, <2>5 DEF Next
<1> QED
  BY <1>1, <1>2 DEF IInv

(* Read your own writes, whatever the tables of pages, hooks and saves are,   *)
(* as long as each write is told to the cache but for the gaps: an answer a   *)
(* page shows with no request under way holds every write confirmed to the    *)
(* user, unless a write overtook a fetch (QueryCache, from the onSuccess of   *)
(* the hooks and the refetch on mount of App.tsx's client).                   *)
THEOREM OwnWritesAlwaysShown == Spec => []OwnWritesShown
<1>1. Init => IInv
  BY InitTypes, InitCurrent DEF IInv
<1>2. IInv => OwnWritesShown
  BY DEF IInv, Current, Holds, OwnWritesShown, Settled
<1> QED
  BY <1>1, <1>2, NextInvariant, PTL DEF Spec

----------------------------------------------------------------------------
(* A save that the page still waits for was started on that page: leaving it *)
(* makes the client forget whom the answer concerns.                         *)
OfPage == \A i \in Running : jobs[i].here => jobs[i].page = page

GInv == TypeOK /\ OfPage /\ NoSecondSend

\* A step that starts nothing: its jobs are some of those there were, by name.
LEMMA FewerJobs ==
    ASSUME OfPage, NoSecondSend,
           \A i \in Running' : /\ i \in Running
                               /\ jobs'[i].page = jobs[i].page /\ jobs'[i].name = jobs[i].name
                               /\ jobs'[i].here => jobs[i].here /\ page' = page
    PROVE  OfPage' /\ NoSecondSend'
BY DEF OfPage, NoSecondSend

\* Leaving a page, its jobs are kept and none is waited for.
LEMMA LeavingWaits ==
    ASSUME NEW js \in [Slots -> Job \cup {Idle}]
    PROVE  \A i \in Slots : Leaving(js)[i] # Idle =>
             /\ js[i] # Idle /\ ~Leaving(js)[i].here
             /\ Leaving(js)[i].page = js[i].page /\ Leaving(js)[i].name = js[i].name
<1> SUFFICES ASSUME NEW i \in Slots, Leaving(js)[i] # Idle
             PROVE  /\ js[i] # Idle /\ ~Leaving(js)[i].here
                    /\ Leaving(js)[i].page = js[i].page /\ Leaving(js)[i].name = js[i].name
  OBVIOUS
<1>1. js[i] # Idle /\ Leaving(js)[i] = [js[i] EXCEPT !.here = FALSE]
  BY DEF Leaving
<1>2. js[i] \in Job
  BY <1>1
<1> QED
  BY <1>1, <1>2 DEF Job

\* A control that is enabled waits for none of the requests it would send,
\* and the page is not in the middle of sending them.
LEMMA StartGuarded ==
    ASSUME TypeOK, OfPage, NoSecondSend, NEW i \in Slots, NEW n \in DOMAIN Saves[page], Start(i, n)
    PROVE  OfPage' /\ NoSecondSend'
<1> DEFINE new == [page |-> page, name |-> n, step |-> 1, phase |-> "sent", at |-> 0, here |-> TRUE]
<1>1. jobs' = [jobs EXCEPT ![i] = new] /\ page' = page /\ Enabled(n) /\ page \in Pages
  BY NearbyPages DEF Start, TypeOK
<1>2. jobs'[i] = new /\ \A k \in Slots : k # i => jobs'[k] = jobs[k]
  BY <1>1 DEF TypeOK
<1>3. new.page = page /\ new.name = n
  OBVIOUS
<1> HIDE DEF new
<1>4. \A k \in Running' : k # i => k \in Running
  BY <1>2 DEF Running
<1>5. OfPage'
  BY <1>1, <1>2, <1>3, <1>4 DEF OfPage
<1>6. \A k \in Running : jobs[k].here /\ n \notin Unguarded => jobs[k].name # n
  <2> SUFFICES ASSUME NEW k \in Running, jobs[k].here, n \notin Unguarded, jobs[k].name = n
               PROVE  FALSE
    OBVIOUS
  <2>1. jobs[k].page = page /\ jobs[k].step \in DOMAIN Saves[page][n].steps
    BY StepInTables DEF OfPage
  <2>2. Step(jobs[k]) = Saves[page][n].steps[jobs[k].step]
    BY <2>1 DEF Step, SaveOf
  <2>3. n \in Saves[page][n].guard \/ Step(jobs[k]).hook \in Saves[page][n].guard
    BY <1>1, <2>1, <2>2, GuardsKnown
  <2> QED
    BY <1>1, <2>3 DEF Enabled, UnderWay
<1>7. NoSecondSend'
  <2> SUFFICES ASSUME NEW a \in Running', NEW b \in Running', a # b, jobs'[a].here, jobs'[b].here,
                      jobs'[a].name \notin Unguarded, jobs'[a].name = jobs'[b].name
               PROVE  FALSE
    BY DEF NoSecondSend
  <2>1. CASE a # i /\ b # i
    BY <1>2, <1>4, <2>1 DEF NoSecondSend, Running
  <2>2. CASE a = i
    BY <1>2, <1>3, <1>4, <1>6, <2>2 DEF Running
  <2>3. CASE b = i
    BY <1>2, <1>3, <1>4, <1>6, <2>3 DEF Running
  <2> QED
    BY <2>1, <2>2, <2>3
<1> QED
  BY <1>5, <1>7

LEMMA AnswerGuarded ==
    ASSUME TypeOK, OfPage, NoSecondSend, NEW i \in Slots, Answer(i)
    PROVE  OfPage' /\ NoSecondSend'
<1> DEFINE j == jobs[i]
           goes == Last(j) /\ SaveOf(j).after # Stay
           next == IF Last(j) THEN Idle ELSE [j EXCEPT !.step = @ + 1, !.phase = "sent"]
           rest == [jobs EXCEPT ![i] = next]
<1>1. i \in Running /\ j \in Job /\ jobs' = IF goes THEN Leaving(rest) ELSE rest
  BY StepInTables DEF Answer
<1>2. next # Idle => next.page = j.page /\ next.name = j.name /\ next.here = j.here
  BY <1>1 DEF Job
<1>3. rest[i] = next /\ \A k \in Slots : k # i => rest[k] = jobs[k]
  BY DEF TypeOK
<1>4. ~goes => page' = page
  BY DEF Answer
<1>5. rest \in [Slots -> Job \cup {Idle}]
  <2>1. CASE Last(j)
    BY <2>1 DEF TypeOK
  <2>2. CASE ~Last(j)
    <3>1. j.step + 1 \in Nat /\ "sent" \in Phases
      BY <1>1 DEF Job, Phases
    <3>2. \A k \in Nat, h \in Phases : [j EXCEPT !.step = k, !.phase = h] \in Job
      BY <1>1 DEF Job
    <3>3. next = [j EXCEPT !.step = j.step + 1, !.phase = "sent"]
      BY <1>1, <2>2 DEF Job
    <3>4. next \in Job
      BY <3>1, <3>2, <3>3
    <3> HIDE DEF next
    <3> QED
      BY <3>4 DEF TypeOK
  <2> QED
    BY <2>1, <2>2
<1> HIDE DEF next, rest
<1>6. \A k \in Slots : rest[k] # Idle =>
        k \in Running /\ rest[k].page = jobs[k].page /\ rest[k].name = jobs[k].name /\ rest[k].here = jobs[k].here
  BY <1>1, <1>2, <1>3 DEF Running
<1>7. CASE goes
  <2>1. \A k \in Running' : /\ rest[k] # Idle /\ ~jobs'[k].here
                            /\ jobs'[k].page = rest[k].page /\ jobs'[k].name = rest[k].name
    BY <1>1, <1>5, <1>7, LeavingWaits DEF Running
  <2> QED
    BY <1>6, <2>1, FewerJobs DEF Running
<1>8. CASE ~goes
  BY <1>1, <1>4, <1>6, <1>8, FewerJobs DEF Running
<1> QED
  BY <1>7, <1>8

LEMMA NextGuarded == GInv /\ [Next]_vars => GInv'
<1> SUFFICES ASSUME TypeOK, OfPage, NoSecondSend, [Next]_vars PROVE OfPage' /\ NoSecondSend'
  BY NextTypes DEF GInv
<1>1. CASE \E p \in Near[key] : Visit(p)
  <2>1. jobs' = Leaving(jobs) /\ jobs \in [Slots -> Job \cup {Idle}]
    BY <1>1 DEF Visit, TypeOK
  <2> QED
    BY <2>1, LeavingWaits, FewerJobs DEF Running
<1>2. CASE \E i \in Slots : \E n \in DOMAIN Saves[page] : Start(i, n)
  BY <1>2, StartGuarded
<1>3. CASE \E i \in Slots : Answer(i)
  BY <1>3, AnswerGuarded
<1>4. CASE \E i \in Slots : Apply(i)
  <2>1. PICK i \in Slots : Apply(i)
    BY <1>4
  <2>2. /\ i \in Running /\ page' = page
        /\ jobs' = [jobs EXCEPT ![i].phase = "applied", ![i].at = version']
    BY <2>1 DEF Apply
  <2>3. jobs[i] \in Job
    BY <2>2 DEF TypeOK, Running
  <2>4. /\ jobs'[i].page = jobs[i].page /\ jobs'[i].name = jobs[i].name /\ jobs'[i].here = jobs[i].here
        /\ \A k \in Slots : k # i => jobs'[k] = jobs[k]
    BY <2>2, <2>3 DEF TypeOK, Job
  <2> QED
    BY <2>2, <2>4, FewerJobs DEF Running
<1>5. CASE \E i \in Slots : Fail(i)
  <2>1. PICK i \in Slots : Fail(i)
    BY <1>5
  <2>2. page' = page /\ jobs'[i] = Idle /\ \A k \in Slots : k # i => jobs'[k] = jobs[k]
    BY <2>1 DEF Fail, TypeOK
  <2> QED
    BY <2>2, FewerJobs DEF Running
<1>6. CASE OthersWrite \/ ServerReads \/ CacheNext \/ UNCHANGED vars
  <2>1. UNCHANGED <<page, jobs>>
    BY <1>6 DEF OthersWrite, ServerReads, CacheNext, FetchDone, FetchFails, StaleTimePasses, Reconnect,
                Collect, vars
  <2> QED
    BY <2>1, FewerJobs DEF Running
<1> QED
  BY <1>1, <1>2, <1>3, <1>4, <1>5, <1>6 DEF Next, JobNext

(* NoSecondSend: whatever the order of answers, failures and pages, a control *)
(* that is disabled while one of the hooks of its save is pending does not    *)
(* send the save again, for every number of saves under way.                  *)
THEOREM NothingSentTwice == Spec => []NoSecondSend
<1>1. Init => GInv
  BY InitTypes DEF Init, GInv, OfPage, NoSecondSend, Running
<1> QED
  BY <1>1, NextGuarded, PTL DEF Spec, GInv

----------------------------------------------------------------------------
(* Forms.                                                                    *)

LEMMA NoticesOfRefusals == \A f, reason : Says(f, reason) \in Notices
BY DEF Says, Notices

LEMMA FormInitTypes == FormInit => FormTypeOK
<1>1. Blank \in Content
  BY DEF Content
<1> QED
  BY <1>1 DEF FormInit, FormTypeOK, Notices

LEMMA FormNextTypes == FormTypeOK /\ [FormNext]_formVars => FormTypeOK'
<1> SUFFICES ASSUME FormTypeOK, [FormNext]_formVars PROVE FormTypeOK'
  OBVIOUS
<1>1. Blank \in Content /\ Left \notin Content
  BY FormsOK DEF Content
<1>2. CASE \E v \in Content : Type(v)
  BY <1>2 DEF Type, FormTypeOK
<1>3. CASE Submit
  <2>1. body' \in Content \cup {Left}
    BY <1>1, <1>3, FormsOK DEF Submit, Sends, FormTypeOK, Content
  <2> QED
    BY <1>3, <2>1 DEF Submit, FormTypeOK, Notices
<1>4. CASE Reopen
  <2>1. stored' \in Content /\ input' \in Content
    BY <1>1, <1>4 DEF Reopen, Opened, FormTypeOK
  <2> QED
    BY <1>4, <2>1 DEF Reopen, Opened, FormTypeOK, Notices
<1>5. CASE OpenOther \/ Refill
  <2>1. input' \in Content /\ UNCHANGED <<form, field, phase, stored, typed, body, notice>>
    BY <1>5 DEF OpenOther, Refill, FormTypeOK
  <2> QED
    BY <2>1 DEF FormTypeOK
<1>6. CASE Accept
  <2>1. stored' \in Content
    BY <1>1, <1>6, FormsOK DEF Accept, Outcomes, Stores, FormTypeOK, Content
  <2> QED
    BY <1>6, <2>1 DEF Accept, FormTypeOK
<1>7. CASE \E reason \in {field, Whole} : Refuse(reason)
  BY <1>7, NoticesOfRefusals DEF Refuse, FormTypeOK
<1>8. CASE OthersSave
  BY <1>8 DEF OthersSave, FormTypeOK
<1>9. CASE UNCHANGED formVars
  BY <1>9 DEF formVars, FormTypeOK
<1> QED
  BY <1>2, <1>3, <1>4, <1>5, <1>6, <1>7, <1>8, <1>9 DEF FormNext

(* FormTypeOK: a form that is opened again has forgotten its last request.   *)
THEOREM FormTypeCorrect == FormSpec => []FormTypeOK
BY FormInitTypes, FormNextTypes, PTL DEF FormSpec

(* Only a form that something else writes into holds another content than    *)
(* what was typed, and a request under way was made of that content.         *)
InputIsTyped == typed # Untouched => input = typed \/ form \in Overwritten
SentIsInput == phase = "sent" => body = Sends(form, field, input) /\ Complete(form, field, input)

EntryInv == FormTypeOK /\ InputIsTyped /\ SentIsInput /\ SavedAsTyped

\* What the server makes of a request that says what was typed.
LEMMA AcceptStoresTyped ==
    ASSUME FormTypeOK, InputIsTyped, SentIsInput, Accept
    PROVE  SavedAsTyped'
<1> SUFFICES ASSUME typed # Untouched, input = typed
             PROVE  stored' = typed \/ KnownLoss(form, field, typed, stored')
  BY DEF Accept, SavedAsTyped, InputIsTyped, KnownLoss
<1>1. /\ body = Sends(form, field, typed) /\ Complete(form, field, typed)
      /\ stored' \in Outcomes(form, field, stored, body)
  BY DEF Accept, SentIsInput
<1>2. typed \in Content /\ typed # Left /\ form \in Form
  BY FormsOK DEF FormTypeOK
<1>3. CASE <<form, field>> \in Unread \/ (<<form, field>> \in Replaced /\ stored' = Default)
  BY <1>3 DEF KnownLoss
<1>4. CASE typed = Zero /\ <<form, field>> \in ZeroAsBlank
  BY <1>4 DEF KnownLoss
<1> DEFINE found == Stores(form, field, stored, body)
<1>5. CASE stored' = found /\ ~Emptied(form, field, typed)
  BY <1>1, <1>2, <1>5 DEF Sends, Stores
<1>6. CASE stored' = found /\ typed = Blank
  <2>1. CASE <<form, field>> \in PageFills
    <3>1. body = Default /\ body # Left
      BY <1>1, <1>6, <2>1, FormsOK DEF Sends, Emptied, Content
    <3>2. stored' = Default
      BY <1>6, <3>1 DEF Stores
    <3> QED
      BY <1>6, <2>1, <3>2 DEF KnownLoss
  <2>2. CASE <<form, field>> \notin PageFills /\ field \in Forms[form].omits
    <3>1. body = Left /\ field \notin Forms[form].needs
      BY <1>1, <1>6, <2>2 DEF Sends, Emptied, Complete
    <3>2. CASE Edits(form)
      BY <1>2, <1>6, <2>2, <3>1, <3>2, ListedForms DEF Edits, KnownLoss
    <3>3. CASE ~Edits(form) /\ <<form, field>> \in ServerFills
      BY <1>6, <3>1, <3>3 DEF Stores, KnownLoss
    <3>4. CASE ~Edits(form) /\ <<form, field>> \notin ServerFills
      BY <1>6, <3>1, <3>4 DEF Stores
    <3> QED
      BY <3>2, <3>3, <3>4
  <2>3. CASE <<form, field>> \notin PageFills /\ field \notin Forms[form].omits
    BY <1>1, <1>2, <1>6, <2>3 DEF Sends, Stores, Emptied
  <2> QED
    BY <2>1, <2>2, <2>3
<1>7. stored' = found \/ <<form, field>> \in Unread \/ (<<form, field>> \in Replaced /\ stored' = Default)
  BY <1>1 DEF Outcomes
<1> QED
  BY <1>3, <1>4, <1>5, <1>6, <1>7 DEF Emptied

LEMMA FormNextKeeps == EntryInv /\ [FormNext]_formVars => EntryInv'
<1> SUFFICES ASSUME FormTypeOK, InputIsTyped, SentIsInput, SavedAsTyped, [FormNext]_formVars
             PROVE  InputIsTyped' /\ SentIsInput' /\ SavedAsTyped'
  BY FormNextTypes DEF EntryInv
<1>1. CASE \E v \in Content : Type(v)
  BY <1>1 DEF Type, Editing, InputIsTyped, SentIsInput, SavedAsTyped
<1>2. CASE Submit
  BY <1>2 DEF Submit, InputIsTyped, SentIsInput, SavedAsTyped
<1>3. CASE Reopen
  BY <1>3 DEF Reopen, Opened, InputIsTyped, SentIsInput, SavedAsTyped
<1>4. CASE OpenOther \/ Refill
  <2>1. form \in Overwritten
    BY <1>4, ListedForms DEF OpenOther, Refill, FormTypeOK
  <2>2. phase \in {"open", "refused"} /\ UNCHANGED <<form, field, phase>>
    BY <1>4 DEF OpenOther, Refill, Editing
  <2> QED
    BY <2>1, <2>2 DEF InputIsTyped, SentIsInput, SavedAsTyped
<1>5. CASE Accept
  <2>1. SavedAsTyped'
    BY <1>5, AcceptStoresTyped
  <2> QED
    BY <1>5, <2>1 DEF Accept, InputIsTyped, SentIsInput
<1>6. CASE \E reason \in {field, Whole} : Refuse(reason)
  BY <1>6 DEF Refuse, InputIsTyped, SentIsInput, SavedAsTyped
<1>7. CASE OthersSave
  BY <1>7 DEF OthersSave, InputIsTyped, SentIsInput, SavedAsTyped
<1>8. CASE UNCHANGED formVars
  BY <1>8 DEF formVars, InputIsTyped, SentIsInput, SavedAsTyped
<1> QED
  BY <1>1, <1>2, <1>3, <1>4, <1>5, <1>6, <1>7, <1>8 DEF FormNext

(* SavedAsTyped, for every table of forms and fields: when a form reports    *)
(* success the server holds what was last typed, whatever is refetched,      *)
(* refused, reopened or written by others meanwhile, but for the forms        *)
(* others write into and the fields of KnownLoss: emptied ones that are left  *)
(* out or filled with a default, a 0 taken for nothing, and those the server  *)
(* does not take as they are sent.                                           *)
THEOREM SuccessMeansSaved == FormSpec => []SavedAsTyped
<1>1. FormInit => EntryInv
  BY FormInitTypes DEF FormInit, EntryInv, InputIsTyped, SentIsInput, SavedAsTyped
<1> QED
  BY <1>1, FormNextKeeps, PTL DEF FormSpec, EntryInv

----------------------------------------------------------------------------
(* Lists.                                                                    *)

LEMMA PagesOfRows ==
    /\ 1 \in PageNumbers /\ PageNumbers \subseteq Nat
    /\ \A p \in PageNumbers : p > 1 => p - 1 \in PageNumbers
    /\ \A p \in PageNumbers, n \in Totals : p * ServerSize < n => p + 1 \in PageNumbers
<1>1. MaxRows \div ServerSize \in Nat
  BY ListsOK
<1>2. \A p \in Nat, n \in Totals : p * ServerSize < n => p <= MaxRows \div ServerSize
  <2> SUFFICES ASSUME NEW p \in Nat, NEW n \in Totals, p * ServerSize < n
               PROVE  p <= MaxRows \div ServerSize
    OBVIOUS
  <2>1. n \in Nat /\ n <= MaxRows /\ p * ServerSize \in Nat
    BY ListsOK DEF Totals
  <2>2. p * ServerSize <= MaxRows
    BY <2>1, ListsOK
  <2>3. (p * ServerSize) \div ServerSize = p
    BY ListsOK
  <2>4. (p * ServerSize) \div ServerSize <= MaxRows \div ServerSize
    BY <2>1, <2>2, ListsOK
  <2> QED
    BY <2>3, <2>4
<1> QED
  BY <1>1, <1>2 DEF PageNumbers

LEMMA ListInitTypes == ListInit => ListTypeOK
<1> SUFFICES ASSUME ListInit PROVE ListTypeOK
  OBVIOUS
<1>1. 1 \in PageNumbers
  BY PagesOfRows
<1>2. seen \in [PageNumbers -> Totals \cup {NoAnswer}]
  BY DEF ListInit, Unseen
<1> QED
  BY <1>1, <1>2 DEF ListInit, ListTypeOK

\* Going to a page asks for it where there is no answer yet.
LEMMA GoToTypes ==
    ASSUME ListTypeOK, NEW p \in PageNumbers, GoTo(p)
    PROVE  ListTypeOK'
<1>1. UNCHANGED <<list, total, seen>> /\ list_page' = p
  BY DEF GoTo
<1>2. CASE seen[p] = NoAnswer
  <2>1. asked' = asked \cup {p} /\ failed' = failed \ {p}
    BY <1>2 DEF GoTo, Asking
  <2> QED
    BY <1>1, <2>1 DEF ListTypeOK
<1>3. CASE seen[p] # NoAnswer
  BY <1>1, <1>3 DEF GoTo, ListTypeOK
<1> QED
  BY <1>2, <1>3

LEMMA ListNextTypes == ListTypeOK /\ [ListNext]_listVars => ListTypeOK'
<1> SUFFICES ASSUME ListTypeOK, [ListNext]_listVars PROVE ListTypeOK'
  OBVIOUS
<1>1. CASE Ask
  <2>1. /\ UNCHANGED <<list, total, list_page, seen>> /\ asked' = asked \cup {list_page}
        /\ failed' = IF seen[list_page] = NoAnswer THEN failed \ {list_page} ELSE failed
    BY <1>1 DEF Ask, Asking
  <2> QED
    BY <2>1 DEF ListTypeOK
<1>2. CASE \E p \in PageNumbers : AnswerPage(p)
  <2>1. PICK p \in PageNumbers : AnswerPage(p)
    BY <1>2
  <2>2. asked' = asked \ {p} /\ UNCHANGED <<list, total, list_page>>
    BY <2>1 DEF AnswerPage
  <2>3. CASE Exists(p)
    <3>1. seen' = [seen EXCEPT ![p] = total] /\ failed' = failed \ {p}
      BY <2>1, <2>3 DEF AnswerPage
    <3>2. seen' \in [PageNumbers -> Totals \cup {NoAnswer}] /\ \A q \in PageNumbers : q # p => seen'[q] = seen[q]
      BY <3>1 DEF ListTypeOK
    <3>3. failed' \subseteq PageNumbers \ (asked' \ {q \in PageNumbers : seen'[q] # NoAnswer})
      BY <2>2, <3>1, <3>2 DEF ListTypeOK
    <3> QED
      BY <2>2, <3>2, <3>3 DEF ListTypeOK
  <2>4. CASE ~Exists(p)
    <3>1. failed' = failed \cup {p} /\ seen' = seen
      BY <2>1, <2>4 DEF AnswerPage
    <3> QED
      BY <2>2, <3>1 DEF ListTypeOK
  <2> QED
    BY <2>3, <2>4
<1>3. CASE \E p \in PageNumbers : Fails(p)
  <2>1. PICK p \in PageNumbers : Fails(p)
    BY <1>3
  <2>2. /\ asked' = asked \ {p} /\ failed' = failed \cup {p}
        /\ UNCHANGED <<list, total, list_page, seen>>
    BY <2>1 DEF Fails
  <2> QED
    BY <2>2 DEF ListTypeOK
<1>4. CASE NextPage
  <2>1. seen[list_page] # NoAnswer /\ list_page * ServerSize < seen[list_page] /\ GoTo(list_page + 1)
    BY <1>4 DEF NextPage, NextEnabled, Pager, RowsShown
  <2>2. seen[list_page] \in Totals /\ list_page \in PageNumbers
    BY <2>1 DEF ListTypeOK
  <2>3. list_page + 1 \in PageNumbers
    BY <2>1, <2>2, PagesOfRows
  <2> QED
    BY <2>1, <2>3, GoToTypes
<1>5. CASE PreviousPage
  <2>1. list_page > 1 /\ list_page \in PageNumbers /\ GoTo(list_page - 1)
    BY <1>5 DEF PreviousPage, PreviousEnabled, ListTypeOK
  <2> QED
    BY <2>1, PagesOfRows, GoToTypes
<1>6. CASE Return
  <2>1. GoTo(1)
    BY <1>6 DEF Return, GoTo
  <2> QED
    BY <2>1, PagesOfRows, GoToTypes
<1>7. CASE Filter
  <2>1. total' \in Totals /\ list_page' \in {1, list_page} /\ seen' = Unseen /\ failed' = {} /\ list' = list
        /\ asked' = {list_page'}
    BY <1>7 DEF Filter
  <2>2. list_page' \in PageNumbers
    BY <2>1, PagesOfRows DEF ListTypeOK
  <2>3. seen' \in [PageNumbers -> Totals \cup {NoAnswer}]
    BY <2>1 DEF Unseen
  <2> QED
    BY <2>1, <2>2, <2>3 DEF ListTypeOK
<1>8. CASE DeleteRow
  <2>1. /\ seen[list_page] # NoAnswer /\ total' = total - 1 /\ total > 0 /\ asked' = asked \cup {list_page}
        /\ UNCHANGED <<list, list_page, seen, failed>>
    BY <1>8 DEF DeleteRow, RowsShown
  <2>2. total' \in Totals
    BY <2>1, ListsOK DEF ListTypeOK, Totals
  <2> QED
    BY <2>1, <2>2 DEF ListTypeOK
<1>9. CASE OthersAddOrDelete
  BY <1>9 DEF OthersAddOrDelete, ListTypeOK
<1>10. CASE UNCHANGED listVars
  BY <1>10 DEF listVars, ListTypeOK
<1> QED
  BY <1>1, <1>2, <1>3, <1>4, <1>5, <1>6, <1>7, <1>8, <1>9, <1>10 DEF ListNext

(* ListTypeOK: whatever is deleted while its answers are late, a list stays   *)
(* within the pages there can be, and shows no error of a page that has no    *)
(* answer while it is being fetched.                                          *)
THEOREM ListTypeCorrect == ListSpec => []ListTypeOK
BY ListInitTypes, ListNextTypes, PTL DEF ListSpec
=============================================================================
