----------------------------- MODULE QueryCache -----------------------------
(***************************************************************************)
(* One browser tab of the web client: the pages a user walks through, the  *)
(* saves they start there, and what TanStack Query shows them afterwards.  *)
(*                                                                         *)
(* The client keeps the answer of every query under its key.  A mutation   *)
(* hook names, in its onSuccess, the keys its write makes out of date      *)
(* (`marks`), those it removes (`drops`) and those it fills itself         *)
(* (`puts`); nothing else tells the client that an answer is old.  The     *)
(* entries of the cache never influence each other, so one of them is      *)
(* followed, chosen at the start: its content is a version, the number of  *)
(* changes the server had made to that answer when it was read.            *)
(***************************************************************************)
EXTENDS Naturals, Sequences

CONSTANTS
    Keys,        \* the query keys of the client
    Pages,       \* its pages
    Reads,       \* Reads[p]: the keys page p mounts
    Layout,      \* the keys the frame around every page keeps mounted
    Saves,       \* Saves[p]: what can be submitted on page p, by name (see SaveOK)
    Near,        \* Near[k]: the pages that show the answer under k or can make it old
    Gaps,        \* <<call, key>>: the answers a call makes old and its hook forgets
    Unguarded,   \* the saves whose control stays enabled while they are under way
    NoData,      \* no answer is cached, no fetch is under way
    Asked,       \* a fetch the server has not read yet
    Failed,      \* the last fetch failed: the page shows an error, or the old answer
    Slots,       \* numbers of the saves that can be under way at a time
    MaxVersion   \* cap: the changes the server makes to the answer followed

Elsewhere == "elsewhere"    \* a page that has nothing to do with the answer followed
Stay == "stay"              \* where a save that does not navigate leaves the user

Versions == 0 .. MaxVersion

(* A save is a chain of requests, each sent when the one before it has been *)
(* answered; `guard` is what disables its control: hooks, while a request of *)
(* theirs is under way, and its own name, where the page keeps a state from  *)
(* the first request to the last.                                           *)
StepOK(s) ==
    /\ DOMAIN s = {"hook", "call", "changes", "marks", "drops", "puts"}
    /\ \A f \in {"changes", "marks", "drops", "puts"} : s[f] \subseteq Keys

SaveOK(v) ==
    /\ DOMAIN v = {"steps", "guard", "after"}
    /\ Len(v.steps) \in Nat \ {0}
    /\ DOMAIN v.steps = 1 .. Len(v.steps)
    /\ \A i \in DOMAIN v.steps : StepOK(v.steps[i])
    /\ v.after \in Pages \cup {Stay}

StepTouches(s, k) == k \in s.changes \/ k \in s.marks \/ k \in s.drops \/ k \in s.puts
SaveTouches(v, k) == \E i \in DOMAIN v.steps : StepTouches(v.steps[i], k)

ASSUME TablesOK ==
    /\ Elsewhere \in Pages
    /\ Stay \notin Pages
    /\ {NoData, Asked, Failed} \cap Nat = {}
    /\ NoData # Asked /\ NoData # Failed /\ Asked # Failed
    /\ MaxVersion \in Nat
    /\ Slots \subseteq Nat
    /\ Reads \in [Pages -> SUBSET Keys]
    /\ Layout \subseteq Keys
    /\ DOMAIN Saves = Pages
    /\ \A p \in Pages : \A n \in DOMAIN Saves[p] : SaveOK(Saves[p][n])
    /\ Near \in [Keys -> SUBSET Pages]
    /\ \A k \in Keys : Elsewhere \in Near[k]
    /\ \A k \in Keys, p \in Pages :
         (k \in Reads[p] \/ \E n \in DOMAIN Saves[p] : SaveTouches(Saves[p][n], k)) => p \in Near[k]

(* Every write is told to the cache, but for the gaps. *)
Tells(s) == \A k \in s.changes : <<s.call, k>> \in Gaps \/ k \in s.marks \cup s.drops \cup s.puts

ASSUME GapsKnown ==
    \A p \in Pages : \A n \in DOMAIN Saves[p] :
        \A i \in DOMAIN Saves[p][n].steps : Tells(Saves[p][n].steps[i])

(* A control waits for every request of its save, but for the Unguarded.    *)
ASSUME GuardsKnown ==
    \A p \in Pages : \A n \in DOMAIN Saves[p] :
        \/ n \in Unguarded \cup Saves[p][n].guard
        \/ \A i \in DOMAIN Saves[p][n].steps : Saves[p][n].steps[i].hook \in Saves[p][n].guard

VARIABLES
    key,        \* the key followed
    page,       \* the page the user is on
    entry,      \* the cached answer, and whether it is to be fetched again when mounted
    fetch,      \* the request for it: NoData, Failed, Asked, or the version the server read
    version,    \* the server's version
    own,        \* the version of the user's latest answered write the answer should show
    overtaken,  \* a write passed a fetch that was not sent again, or the answer to a later one
    jobs        \* jobs[i]: a save under way

vars == <<key, page, entry, fetch, version, own, overtaken, jobs>>

Idle == [name |-> "idle"]
Phases == {"sent", "applied"}

Running == {i \in Slots : jobs[i] # Idle}
SaveOf(j) == Saves[j.page][j.name]
Step(j) == SaveOf(j).steps[j.step]
Fetching == fetch \notin {NoData, Failed}

----------------------------------------------------------------------------
(* A page mounts a query: it is fetched if there is no answer or an old one. *)
(* The frame stays mounted while the pages inside it change.                 *)
Empty == [data |-> NoData, stale |-> FALSE]
Stale(e) == e.data = NoData \/ e.stale

Mounted(p) == key \in Reads[p] \cup Layout
AsksIfEmpty(p, e, f) == key \in Reads[p] /\ e.data = NoData /\ f \in {NoData, Failed}  \* refetchOnMount off
Asks(p, e, f) == key \in Reads[p] /\ Stale(e) /\ f \in {NoData, Failed}

Open(p, e, f, ov) ==
    /\ page' = p
    /\ entry' = e
    /\ fetch' = IF Asks(p, e, f) THEN Asked ELSE f
    /\ overtaken' = (ov /\ ~Asks(p, e, f))

Leaving(js) == [i \in Slots |-> IF js[i] = Idle THEN Idle ELSE [js[i] EXCEPT !.here = FALSE]]

(* The pages that are not near the answer look alike. *)
Towards(p) == IF p \in Near[key] THEN p ELSE Elsewhere

Init ==
    /\ key \in Keys
    /\ page = Elsewhere
    /\ entry = Empty
    /\ fetch = IF key \in Layout THEN Asked ELSE NoData
    /\ version = 0
    /\ own = 0
    /\ overtaken = FALSE
    /\ jobs = [i \in Slots |-> Idle]

----------------------------------------------------------------------------
(* The user.  Between two pages one of which does not show the answer the way *)
(* is by Elsewhere, which opens nothing and so leaves all as it was.          *)
Visit(p) ==
    /\ p # page
    /\ Elsewhere \in {p, page} \/ (Mounted(p) /\ Mounted(page))
    /\ Open(p, entry, fetch, overtaken)
    /\ jobs' = Leaving(jobs)
    /\ UNCHANGED <<key, version, own>>

AlwaysEnabled(n) == TRUE          \* the control forgets isPending
UnderWay(j) == {Step(j).hook, j.name}
Enabled(n) ==
    \A i \in Running : jobs[i].here => UnderWay(jobs[i]) \cap Saves[page][n].guard = {}

Start(i, n) ==
    /\ jobs[i] = Idle
    /\ \A k \in Slots : k < i => jobs[k] # Idle
    /\ SaveTouches(Saves[page][n], key)
    /\ Enabled(n)
    /\ jobs' = [jobs EXCEPT ![i] = [page |-> page, name |-> n, step |-> 1, phase |-> "sent",
                                   at |-> 0, here |-> TRUE]]
    /\ UNCHANGED <<key, page, entry, fetch, version, own, overtaken>>

(* The server. *)
Apply(i) ==
    LET changes == key \in Step(jobs[i]).changes
    IN  /\ i \in Running
        /\ jobs[i].phase = "sent"
        /\ changes => version < MaxVersion
        /\ version' = IF changes THEN version + 1 ELSE version
        /\ jobs' = [jobs EXCEPT ![i].phase = "applied", ![i].at = version']
        /\ UNCHANGED <<key, page, entry, fetch, own, overtaken>>

OthersWrite ==
    /\ version < MaxVersion
    /\ version' = version + 1
    /\ UNCHANGED <<key, page, entry, fetch, own, overtaken, jobs>>

ServerReads ==
    /\ fetch = Asked
    /\ fetch' = version
    /\ UNCHANGED <<key, page, entry, version, own, overtaken, jobs>>

----------------------------------------------------------------------------
(* The cache. *)
FetchDone ==
    /\ fetch \in Versions
    /\ entry' = [data |-> fetch, stale |-> FALSE]
    /\ fetch' = NoData
    /\ UNCHANGED <<key, page, version, own, overtaken, jobs>>

FetchFails ==
    /\ Fetching
    /\ fetch' = Failed
    /\ UNCHANGED <<key, page, entry, version, own, overtaken, jobs>>

(* At any moment, so that every staleTime, from 0 to an hour, is covered. *)
StaleTimePasses ==
    /\ entry.data # NoData
    /\ ~entry.stale
    /\ entry' = [entry EXCEPT !.stale = TRUE]
    /\ UNCHANGED <<key, page, fetch, version, own, overtaken, jobs>>

Reconnect ==
    /\ Mounted(page)
    /\ Stale(entry)
    /\ ~Fetching
    /\ fetch' = Asked
    /\ overtaken' = FALSE
    /\ UNCHANGED <<key, page, entry, version, own, jobs>>

Collect ==
    /\ ~Mounted(page)
    /\ ~Fetching
    /\ entry.data # NoData
    /\ entry' = Empty
    /\ fetch' = NoData
    /\ overtaken' = FALSE
    /\ UNCHANGED <<key, page, version, own, jobs>>

----------------------------------------------------------------------------
(* The answer to a step of a save: onSuccess of its hook, then the next step *)
(* or the end of the save, whatever page the user is on by then.  A query    *)
(* that is mounted is fetched again at once, unless its first fetch is still *)
(* under way: that one is joined.  One that is not mounted is left marked.   *)
Restarts == Mounted(page) /\ (entry.data # NoData \/ ~Fetching)

NewEntry(s, at) ==
    IF key \in s.drops THEN Empty
    ELSE IF key \in s.puts THEN [data |-> at, stale |-> FALSE]
    ELSE IF key \in s.marks /\ entry.data # NoData THEN [entry EXCEPT !.stale = TRUE]
    ELSE entry

OnlyDropped(s) == IF key \in s.drops THEN NoData ELSE fetch    \* marked, not fetched again
NewFetch(s) ==
    IF key \in s.drops THEN NoData
    ELSE IF key \in s.marks \ s.puts /\ Restarts THEN Asked
    ELSE fetch

NewlyOvertaken(s, at) ==
    /\ key \notin s.drops
    /\ ~(key \in s.marks \ s.puts /\ Restarts)
    /\ \/ overtaken
       \/ key \in s.marks \cup s.puts /\ fetch \in Versions
       \/ key \in s.puts /\ at < own

Shown(s, at) ==
    IF key \in s.changes /\ <<s.call, key>> \notin Gaps /\ at > own THEN at ELSE own

OnePastLast(j) == j.step = Len(SaveOf(j).steps) + 1    \* the loop over the rows runs once too often
Last(j) == j.step = Len(SaveOf(j).steps)

Answer(i) ==
    LET j == jobs[i]
        s == Step(j)
        goes == Last(j) /\ SaveOf(j).after # Stay
        rest == [jobs EXCEPT ![i] = IF Last(j) THEN Idle ELSE [j EXCEPT !.step = @ + 1, !.phase = "sent"]]
    IN  /\ i \in Running
        /\ j.phase = "applied"
        /\ own' = Shown(s, j.at)
        /\ IF goes THEN Open(Towards(SaveOf(j).after), NewEntry(s, j.at), NewFetch(s), NewlyOvertaken(s, j.at))
                   ELSE /\ page' = page
                        /\ entry' = NewEntry(s, j.at)
                        /\ fetch' = NewFetch(s)
                        /\ overtaken' = NewlyOvertaken(s, j.at)
        /\ jobs' = IF goes THEN Leaving(rest) ELSE rest
        /\ UNCHANGED <<key, version>>

(* The request is refused, or it or its answer is lost: onSuccess does not   *)
(* run, the user stays, whether or not the server made the change.           *)
Fail(i) ==
    /\ i \in Running
    /\ jobs' = [jobs EXCEPT ![i] = Idle]
    /\ UNCHANGED <<key, page, entry, fetch, version, own, overtaken>>

CacheNext == FetchDone \/ FetchFails \/ StaleTimePasses \/ Reconnect \/ Collect
JobNext(i) == Apply(i) \/ Answer(i) \/ Fail(i)

Next ==
    \/ \E p \in Near[key] : Visit(p)
    \/ \E i \in Slots : \E n \in DOMAIN Saves[page] : Start(i, n)
    \/ \E i \in Slots : JobNext(i)
    \/ OthersWrite
    \/ ServerReads
    \/ CacheNext

(* Every fetch is answered or times out after thirty seconds (api.ts).      *)
(* Nothing is assumed of the user, nor of when a save is answered.          *)
Spec == Init /\ [][Next]_vars /\ WF_vars(FetchDone \/ FetchFails)

----------------------------------------------------------------------------
Names == UNION {DOMAIN Saves[p] : p \in Pages}
Job == [page : Pages, name : Names, step : Nat, phase : Phases, at : Versions, here : BOOLEAN]
JobOK(j, v) ==
    /\ j.name \in DOMAIN Saves[j.page]
    /\ j.step \in DOMAIN SaveOf(j).steps
    /\ j.at <= v

(* The types of the variables; what is cached or on its way is never newer  *)
(* than the server.                                                         *)
TypeOK ==
    /\ key \in Keys
    /\ page \in Near[key]
    /\ entry \in [data : (0 .. version) \cup {NoData}, stale : BOOLEAN]
    /\ fetch \in (0 .. version) \cup {NoData, Asked, Failed}
    /\ version \in Versions
    /\ own \in 0 .. version
    /\ overtaken \in BOOLEAN
    /\ jobs \in [Slots -> Job \cup {Idle}]
    /\ \A i \in Running : JobOK(jobs[i], version)

Settled == Mounted(page) /\ fetch = NoData /\ entry.data # NoData

(* Read your own writes: once a page has no request for an answer under way, *)
(* the answer it shows is not older than any write of the user that has been *)
(* confirmed to them, unless the write is a known gap, or overtook a fetch   *)
(* that was then trusted.                                                    *)
OwnWritesShown == Settled /\ ~overtaken => entry.data >= own

(* A control does not send a save again while the same page still waits for  *)
(* the answer to any step of it: the switches in Unguarded apart.            *)
NoSecondSend ==
    \A a, b \in Running :
        a # b /\ jobs[a].here /\ jobs[b].here /\ jobs[a].name \notin Unguarded
            => jobs[a].name # jobs[b].name

(* A confirmed write reaches the page that shows its answer, if the user     *)
(* stays there and the requests do not fail.                                 *)
Behind == Mounted(page) /\ entry.data # NoData /\ entry.data < own
ConfirmedWritesArrive == Behind ~> (~Behind \/ fetch = Failed \/ overtaken)
=============================================================================
