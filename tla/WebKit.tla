------------------------------- MODULE WebKit -------------------------------
(***************************************************************************)
(* The vocabulary in which the pages of the web client are written down.   *)
(***************************************************************************)
EXTENDS Naturals, Sequences, FiniteSets, TLC

(* The part of a query key that names one row: a page that has the id from *)
(* its address passes text, one that has it from a row passes a number, and *)
(* the two do not match.                                                    *)
Id == "id"
Text == "text"
Num == "number"
NoId == "any"        \* the hook takes no id

At(k, kind) == [i \in DOMAIN k |-> IF k[i] = Id THEN kind ELSE k[i]]
IsPrefix(p, k) == Len(p) <= Len(k) /\ \A i \in DOMAIN p : p[i] = k[i]

(* Hooks. *)
Query(k, call) == [key |-> k, call |-> call]
Mutation(call, marks) == [call |-> call, marks |-> marks, drops |-> {}, puts |-> {}]
Removal(call, marks, drops) == [call |-> call, marks |-> marks, drops |-> drops, puts |-> {}]
Putting(call, puts) == [call |-> call, marks |-> {}, drops |-> {}, puts |-> puts]
Use(hook, kind) == [hook |-> hook, kind |-> kind, also |-> {}]
UseAnd(hook, kind, also) == [hook |-> hook, kind |-> kind, also |-> also]

(* Pages: the queries a page mounts and what can be saved on it.  `guard`   *)
(* disables the control: the mutation hooks whose isPending does, or the    *)
(* save's own name for a state the page keeps while it sends the rows.      *)
Page(reads, saves) == [reads |-> reads, saves |-> saves]
Save(name, steps, guard, after) ==
    [name |-> name, steps |-> steps, guard |-> guard, after |-> after]
Closes == "stay"    \* the page stays; its dialog closes

(* A loop over rows, one request after the other, after which the page      *)
(* fetches `also` again.  It does so only if none was refused: a refused    *)
(* row does not stop the rest, which then come as single saves do.          *)
Batch(name, hook, kind, also) ==
    Save(name, <<Use(hook, kind), UseAnd(hook, kind, also)>>, {name}, Closes)

(* A form is a record                                                       *)
(*   call:    the request it sends                                          *)
(*   needs:   fields it does not send without                               *)
(*   sends:   fields sent as they stand on the form, empty or not           *)
(*   omits:   fields left out of the request when they are empty            *)
(*   parse:   what it makes of a refusal (see errorUtils.ts):               *)
(*              "fields"  the messages of the fields and of the form        *)
(*              "text"    one text for the whole form                       *)
(*              "generic" that the request failed, not why                 *)
(*              "raw"     the body as if it were the messages of the fields *)
(*              "nothing" the refusal is dropped                            *)
(*   shows:   fields whose message has a place, Banner that of the form     *)
(*   refills: an answer of the query that comes later overwrites the form   *)
Banner == "non_field_errors"

(* A list is a record                                                       *)
(*   query:   the hook that fetches it                                      *)
(*   size:    the number of rows it counts on per answer                    *)
(*   pager:   its controls for the pages after the first:                   *)
(*              "none"      there are none                                  *)
(*              "beside"    an error is shown beside the last answer        *)
(*              "replaced"  an error is shown in its place                  *)
(*   resets:  filters that bring it back to the first page                  *)
(*   keeps:   filters that leave the page number alone                      *)
(*   deletes: whether its rows can be removed from it                       *)
DefaultSize == 20
=============================================================================
