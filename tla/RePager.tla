------------------------------- MODULE RePager -------------------------------
(***************************************************************************)
(* Re:Pager (src/jodd-joy/src/main/webapp/repager.js): a table whose body  *)
(* is loaded page by page with ajax, sorted by clicking a sortable column  *)
(* header, with the 'please wait' caption of app.js.                       *)
(*                                                                         *)
(* goto() sends a request and returns; its success callback runs later.   *)
(* Nothing stops a second goto() while one is in flight, so requests are   *)
(* a bag and their responses come in any order.  A response is the page    *)
(* of rows for the request it answers, or empty.                           *)
(***************************************************************************)
EXTENDS Integers, App

CONSTANTS
    NCols,          \* number of sortable columns (td.sort in thead)
    MaxPage,        \* the highest page number a page link asks for
    InitClasses,    \* the sort classes of the headers as the page loads
    NetworkFails,   \* a request may fail instead of answering
    MaxInFlight     \* bound on equal requests in flight at once

Cols == 1..NCols
Pages == 1..MaxPage
Sorts == -NCols..NCols
SortClasses == {"none", "asc", "desc"}

ASSUME PagerAssumption ==
    /\ NCols \in Nat
    /\ MaxPage \in Nat \ {0}
    /\ InitClasses \in [Cols -> SortClasses]
    \* the server marks at most one column sorted
    /\ \A i, j \in Cols : InitClasses[i] # "none" /\ InitClasses[j] # "none" => i = j
    /\ NetworkFails \in BOOLEAN
    /\ MaxInFlight \in Nat \ {0}

\* A request: the pageRequest.page and pageRequest.sort parameters (a page
\* number goto() could send, 0 included).
Reqs == [page : 0..MaxPage, sort : Sorts]


VARIABLES
    page,       \* pager.page
    sort,       \* pager.sort
    cls,        \* cls[i]: sort_asc / sort_desc class of sortable column i
    pending,    \* pending[r]: number of requests r in flight
    body,       \* the request whose rows the body shows (the server's
                \* first page, sorted as its headers say, at first)
    wait,       \* the global pwt and the #wait caption
    late,       \* 500 ms have passed since the last goto()
    left        \* the browser navigated away

vars == <<page, sort, cls, pending, body, wait, late, left>>

-----------------------------------------------------------------------------

\* The initializing loop over the sortable headers: a column with sort_asc
\* sets sort to its number, one with sort_desc to minus its number; the
\* last such column wins.
InitSort(c) ==
    LET S == {j \in Cols : c[j] # "none"}
        last == CHOOSE x \in S : \A y \in S : y <= x
    IN  IF S = {} THEN 0 ELSE IF c[last] = "asc" THEN last ELSE -last

\* pager.form.ajaxSubmit(options): one more request r in flight.
AjaxSubmit(q, r) ==
    /\ q[r] < MaxInFlight
    /\ pending' = [q EXCEPT ![r] = @ + 1]

\* goto() without the `if (!p)` test: p becomes the page.
GotoNoFalsyCheck(p, s, q) ==
    /\ page' = p
    /\ wait' = PleaseWait(Undefined, wait)
    /\ late' = FALSE
    /\ AjaxSubmit(q, [page |-> p, sort |-> s])

\* goto(p) with the sort s in force and q the requests in flight: a falsy
\* p (undefined, 0) keeps the page, any other becomes it; pleaseWait()
\* with no argument; then the request for the page and the sort.
Goto(p, s, q) ==
    LET newPage == IF p = 0 THEN page ELSE p
    IN  /\ page' = newPage
        /\ wait' = PleaseWait(Undefined, wait)
        /\ late' = FALSE
        /\ AjaxSubmit(q, [page |-> newPage, sort |-> s])

Init ==
    /\ page = 1
    /\ sort = InitSort(InitClasses)
    /\ cls = InitClasses
    /\ pending = [r \in Reqs |-> 0]
    /\ body = [page |-> 1, sort |-> InitSort(InitClasses)]
    /\ wait = [pwt |-> "none", shown |-> FALSE]
    /\ late = FALSE
    /\ left = FALSE

\* A page link calls pager.goto(p).
GotoPage(p) ==
    /\ ~left
    /\ Goto(p, sort, pending)
    /\ UNCHANGED <<sort, cls, body, left>>

\* The header click handler without removing the classes of the other
\* columns.
ClickSortKeepOthers(i) ==
    /\ ~left
    /\ cls' = [cls EXCEPT ![i] = IF cls[i] = "asc" THEN "desc" ELSE "asc"]
    /\ sort' = IF cls[i] = "asc" THEN -i ELSE i
    /\ Goto(0, sort', pending)
    /\ UNCHANGED <<body, left>>

\* The click handler of sortable column i: every other column loses its
\* sort classes; column i turns from ascending to descending (sort is
\* minus its number) or else to ascending (its number); then goto().
ClickSort(i) ==
    /\ ~left
    /\ cls' = [j \in Cols |-> IF j # i THEN "none"
                              ELSE IF cls[i] = "asc" THEN "desc" ELSE "asc"]
    /\ sort' = IF cls[i] = "asc" THEN -i ELSE i
    /\ Goto(0, sort', pending)
    /\ UNCHANGED <<body, left>>

\* The success callback of request r: an empty response calls goto(1)
\* again; any other hides the caption and becomes the body.
Response(r, empty) ==
    /\ ~left
    /\ pending[r] > 0
    /\ LET rest == [pending EXCEPT ![r] = @ - 1]
       IN  IF empty
             THEN /\ Goto(1, sort, rest)
                  /\ UNCHANGED body
             ELSE /\ wait' = PleaseWait(JsFalse, wait)
                  /\ body' = r
                  /\ pending' = rest
                  /\ UNCHANGED <<page, late>>
    /\ UNCHANGED <<sort, cls, left>>

\* A failed request: no success callback; the ajaxError handler of app.js
\* may redirect.
Failure(r, status) ==
    /\ NetworkFails
    /\ ~left
    /\ pending[r] > 0
    /\ pending' = [pending EXCEPT ![r] = @ - 1]
    /\ left' = AjaxErrorLeavesPage(status)
    /\ UNCHANGED <<page, sort, cls, body, wait, late>>

\* 500 ms pass while a request is in flight: a timer pleaseWait(true) set
\* runs its callback.
Tick ==
    /\ ~left
    /\ ~late
    /\ \E r \in Reqs : pending[r] > 0
    /\ late' = TRUE
    /\ wait' = IF wait.pwt = "set" THEN WaitTimerFires(wait) ELSE wait
    /\ UNCHANGED <<page, sort, cls, pending, body, left>>

Next ==
    \/ \E p \in Pages \cup {0} : GotoPage(p)
    \/ \E i \in Cols : ClickSort(i)
    \/ \E r \in Reqs, empty \in BOOLEAN : Response(r, empty)
    \/ \E r \in Reqs, status \in Statuses : Failure(r, status)
    \/ Tick

Spec == Init /\ [][Next]_vars

-----------------------------------------------------------------------------
(* Properties. *)

TypeOK ==
    /\ page \in Pages
    /\ sort \in Sorts
    /\ cls \in [Cols -> SortClasses]
    /\ pending \in [Reqs -> 0..MaxInFlight]
    /\ body \in Reqs
    /\ wait \in WaitStates
    /\ late \in BOOLEAN
    /\ left \in BOOLEAN

\* |x|
Abs(x) == IF x < 0 THEN -x ELSE x

\* The headers show the sort the pager sends: no column is marked when the
\* sort is 0; otherwise only the sorted column is, ascending for a positive
\* sort and descending for a negative one.
SortMatchesHeader ==
    \A j \in Cols :
        cls[j] = IF j # Abs(sort) THEN "none"
                 ELSE IF sort > 0 THEN "asc" ELSE "desc"

\* Once no request is in flight, the body shows the rows of the page and
\* the sort the pager (and its headers) are at.
BodyMatchesPager ==
    (\A r \in Reqs : pending[r] = 0) => body = [page |-> page, sort |-> sort]

=============================================================================
