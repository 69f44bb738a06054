------------------------------ MODULE Listing -------------------------------
(***************************************************************************)
(* One list of the web client: the pages the server cuts it into, those the *)
(* client has an answer for, and the controls that lead from one to the     *)
(* next.  The server ignores the number of rows a list asks for and always  *)
(* answers with ServerSize.                                                 *)
(***************************************************************************)
EXTENDS Naturals

CONSTANTS
    Lists,      \* the lists, by name (records described in WebKit)
    ServerSize, \* rows per answer
    MaxRows,    \* cap: rows that match the filters of a list
    NoAnswer,   \* the client has no answer for a page
    Clipped,    \* the lists whose rows after the first page cannot be reached
    DeadEnds    \* the lists that can be left on a page that is gone

ASSUME ListsOK ==
    /\ ServerSize \in Nat \ {0}
    /\ MaxRows \in Nat
    /\ NoAnswer \notin Nat
    /\ \A l \in DOMAIN Lists : Lists[l].pager \in {"none", "beside", "replaced"}

PageNumbers == 1 .. (MaxRows \div ServerSize + 1)
Totals == 0 .. MaxRows

VARIABLES
    list,      \* the list followed
    total,     \* the rows on the server that match its filters
    list_page, \* the page it is on
    seen,      \* seen[p]: the number of rows of the whole list the answer for p tells
    asked,     \* the pages a request is under way for
    failed     \* the pages whose last request failed

listVars == <<list, total, list_page, seen, asked, failed>>

Exists(p) == p = 1 \/ (p - 1) * ServerSize < total
Unseen == [p \in PageNumbers |-> NoAnswer]

ListInit ==
    /\ list \in DOMAIN Lists
    /\ total \in Totals
    /\ list_page = 1
    /\ seen = Unseen
    /\ asked = {1}
    /\ failed = {}

----------------------------------------------------------------------------
(* Mounting a page without an answer, "Retry" and every refetch.  The error  *)
(* of a page that has no answer gives way to the loading state.              *)
AskingBesideError(p, f) == asked' = asked \cup {p} /\ failed' = f    \* the error stays on the page
Asking(p, f) ==
    /\ asked' = asked \cup {p}
    /\ failed' = IF seen[p] = NoAnswer THEN f \ {p} ELSE f

Ask ==
    /\ list_page \notin asked
    /\ Asking(list_page, failed)
    /\ UNCHANGED <<list, total, list_page, seen>>

(* The server answers a page it does not have with 404. *)
AnswerPage(p) ==
    /\ p \in asked
    /\ asked' = asked \ {p}
    /\ IF Exists(p) THEN /\ seen' = [seen EXCEPT ![p] = total]
                         /\ failed' = failed \ {p}
                    ELSE /\ failed' = failed \cup {p}
                         /\ UNCHANGED seen
    /\ UNCHANGED <<list, total, list_page>>

Fails(p) ==
    /\ p \in asked
    /\ asked' = asked \ {p}
    /\ failed' = failed \cup {p}
    /\ UNCHANGED <<list, total, list_page, seen>>

----------------------------------------------------------------------------
(* The controls of the page. *)
RowsShown == seen[list_page] # NoAnswer /\ ~(list_page \in failed /\ Lists[list].pager = "replaced")
Pager == Lists[list].pager # "none" /\ RowsShown /\ seen[list_page] > Lists[list].size
NextEnabled == Pager /\ list_page * ServerSize < seen[list_page]
PreviousEnabled == Pager /\ list_page > 1

GoTo(p) ==
    /\ list_page' = p
    /\ IF seen[p] = NoAnswer THEN Asking(p, failed) ELSE UNCHANGED <<asked, failed>>
    /\ UNCHANGED <<list, total, seen>>

NextPage == NextEnabled /\ GoTo(list_page + 1)
PreviousPage == PreviousEnabled /\ GoTo(list_page - 1)

(* Another filter is another query: nothing of it is cached, or what was is  *)
(* asked for again.  A filter the page applies itself to the rows it has is  *)
(* not told apart.                                                           *)
Filter ==
    /\ Lists[list].resets \cup Lists[list].keeps # {}
    /\ total' \in Totals
    /\ list_page' \in (IF Lists[list].resets # {} THEN {1} ELSE {}) \cup
                 (IF Lists[list].keeps # {} THEN {list_page} ELSE {})
    /\ seen' = Unseen
    /\ asked' = {list_page'}
    /\ failed' = {}
    /\ UNCHANGED list

(* The hook of a deletion makes the client ask for the page again. *)
DeleteRow ==
    /\ Lists[list].deletes
    /\ RowsShown
    /\ (list_page - 1) * ServerSize < seen[list_page]
    /\ total > 0
    /\ total' = total - 1
    /\ asked' = asked \cup {list_page}
    /\ UNCHANGED <<list, list_page, seen, failed>>

(* Coming back to the list mounts it on its first page. *)
Return ==
    /\ list_page' = 1
    /\ IF seen[1] = NoAnswer THEN Asking(1, failed) ELSE UNCHANGED <<asked, failed>>
    /\ UNCHANGED <<list, total, seen>>

OthersAddOrDelete ==
    /\ total' \in Totals \cap {total + 1, total - 1}
    /\ UNCHANGED <<list, list_page, seen, asked, failed>>

ListNext ==
    \/ Ask
    \/ \E p \in PageNumbers : AnswerPage(p) \/ Fails(p)
    \/ NextPage
    \/ PreviousPage
    \/ Filter
    \/ DeleteRow
    \/ Return
    \/ OthersAddOrDelete

ListSpec == ListInit /\ [][ListNext]_listVars

----------------------------------------------------------------------------
(* The types of the variables: the list never leaves the pages there can be. *)
ListTypeOK ==
    /\ list \in DOMAIN Lists
    /\ total \in Totals
    /\ list_page \in PageNumbers
    /\ seen \in [PageNumbers -> Totals \cup {NoAnswer}]
    /\ asked \subseteq PageNumbers
    /\ failed \subseteq PageNumbers \ (asked \ {p \in PageNumbers : seen[p] # NoAnswer})

(* A list that has lost the page it is on, because its last row was deleted, *)
(* still offers a way back to the rows there are; "Retry" is none.           *)
NoDeadEnd ==
    list_page \in failed /\ list_page \notin asked /\ ~Exists(list_page)
        => PreviousEnabled \/ Lists[list].resets # {} \/ list \in DeadEnds

(* Where the list does not offer a next page there are no more rows, once    *)
(* its answer is up to date.                                                 *)
EveryRowReachable ==
    list_page \notin failed /\ seen[list_page] = total /\ ~NextEnabled
        => list_page * ServerSize >= total \/ list \in Clipped
=============================================================================
