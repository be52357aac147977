---------------------------- MODULE RePager_proofs ----------------------------
(***************************************************************************)
(* Proofs about RePager: the type invariant, and that the sort classes of *)
(* the headers always agree with pager.sort (SortMatchesHeader), for any  *)
(* number of columns and pages.                                           *)
(***************************************************************************)
EXTENDS RePager, TLAPS

USE PagerAssumption

\* Init and every step of goto() keep the caption a WaitStates record.
LEMMA PleaseWaitType ==
    ASSUME NEW w \in WaitStates, NEW v \in {JsTrue, JsFalse, Undefined}
    PROVE  PleaseWait(v, w) \in WaitStates /\ WaitTimerFires(w) \in WaitStates
BY DEF PleaseWait, WaitTimerFires, WaitStates, Falsy

\* InitSort gives a sort in -NCols..NCols.
LEMMA InitSortType == InitSort(InitClasses) \in Sorts
BY DEF InitSort, Sorts, Cols

\* Goto keeps the types when its page and sort are in range.
LEMMA GotoType ==
    ASSUME TypeOK, NEW p \in Pages \cup {0}, NEW s \in Sorts,
           NEW q \in [Reqs -> 0..MaxInFlight],
           Goto(p, s, q)
    PROVE  /\ page' \in Pages
           /\ wait' \in WaitStates
           /\ late' \in BOOLEAN
           /\ pending' \in [Reqs -> 0..MaxInFlight]
<1>. DEFINE newPage == IF p = 0 THEN page ELSE p
<1>1. newPage \in Pages
  BY DEF TypeOK
<1>2. [page |-> newPage, sort |-> s] \in Reqs
  BY <1>1 DEF Reqs, Pages
<1>3. page' = newPage /\ late' = FALSE
  BY DEF Goto
<1>4. wait' \in WaitStates
  BY PleaseWaitType DEF Goto, TypeOK
<1>5. pending' \in [Reqs -> 0..MaxInFlight]
  <2>1. AjaxSubmit(q, [page |-> newPage, sort |-> s])
    BY DEF Goto
  <2>. QED BY <1>2, <2>1 DEF AjaxSubmit
<1>. QED BY <1>1, <1>3, <1>4, <1>5

LEMMA TypeInit == Init => TypeOK
<1> SUFFICES ASSUME Init PROVE TypeOK
  OBVIOUS
<1>1. [page |-> 1, sort |-> InitSort(InitClasses)] \in Reqs
  BY InitSortType DEF Reqs
<1>2. [pwt |-> "none", shown |-> FALSE] \in WaitStates
  BY DEF WaitStates
<1>3. [r \in Reqs |-> 0] \in [Reqs -> 0..MaxInFlight]
  OBVIOUS
<1>4. 1 \in Pages
  BY DEF Pages
<1>. QED BY <1>1, <1>2, <1>3, <1>4, InitSortType DEF Init, TypeOK

LEMMA TypeStep == TypeOK /\ [Next]_vars => TypeOK'
<1> SUFFICES ASSUME TypeOK, [Next]_vars PROVE TypeOK'
  OBVIOUS
<1>1. ASSUME NEW p \in Pages \cup {0}, GotoPage(p) PROVE TypeOK'
  BY <1>1, GotoType DEF GotoPage, TypeOK
<1>2. ASSUME NEW i \in Cols, ClickSort(i) PROVE TypeOK'
  <2>1. sort' \in Sorts
    BY <1>2 DEF ClickSort, Sorts, Cols
  <2>2. cls' \in [Cols -> SortClasses]
    BY <1>2 DEF ClickSort, SortClasses
  <2>. QED BY <1>2, <2>1, <2>2, GotoType DEF ClickSort, TypeOK
<1>3. ASSUME NEW r \in Reqs, NEW empty \in BOOLEAN, Response(r, empty)
      PROVE TypeOK'
  <2>. DEFINE rest == [pending EXCEPT ![r] = @ - 1]
  <2>1. rest \in [Reqs -> 0..MaxInFlight]
    BY <1>3 DEF Response, TypeOK
  <2>2. CASE empty
    <3>1. Goto(1, sort, rest) /\ body' = body
      BY <1>3, <2>2 DEF Response
    <3>2. 1 \in Pages \cup {0}
      BY DEF Pages
    <3>. QED BY <1>3, <2>1, <3>1, <3>2, GotoType DEF Response, TypeOK
  <2>3. CASE ~empty
    BY <1>3, <2>1, <2>3, PleaseWaitType DEF Response, TypeOK
  <2>. QED BY <2>2, <2>3
<1>4. ASSUME NEW r \in Reqs, NEW status \in Statuses, Failure(r, status)
      PROVE TypeOK'
  BY <1>4 DEF Failure, TypeOK, AjaxErrorLeavesPage
<1>5. ASSUME Tick PROVE TypeOK'
  BY <1>5, PleaseWaitType DEF Tick, TypeOK
<1>6. CASE UNCHANGED vars
  BY <1>6 DEF vars, TypeOK
<1>. QED BY <1>1, <1>2, <1>3, <1>4, <1>5, <1>6 DEF Next

\* Spec: every reachable state is well typed.
THEOREM TypeCorrect == Spec => []TypeOK
BY TypeInit, TypeStep, PTL DEF Spec

-----------------------------------------------------------------------------

\* With one sorted column k, the initializing loop gives k or -k.
LEMMA InitSortSingle ==
    ASSUME NEW c, NEW k \in Cols, {i \in Cols : c[i] # "none"} = {k}
    PROVE  InitSort(c) = IF c[k] = "asc" THEN k ELSE -k
<1>. DEFINE S == {j \in Cols : c[j] # "none"}
<1>1. (CHOOSE x \in S : \A y \in S : y <= x) = k
  OBVIOUS
<1>2. S # {}
  OBVIOUS
<1>. DEFINE last == CHOOSE x \in S : \A y \in S : y <= x
<1>3. InitSort(c) = IF S = {} THEN 0 ELSE IF c[last] = "asc" THEN last ELSE -last
  BY Zenon DEF InitSort
<1>. QED BY <1>1, <1>2, <1>3

\* The headers as the page loads agree with the sort the initializing loop
\* computes from them, because at most one column carries a sort class.
LEMMA SortInit == Init => SortMatchesHeader
<1> SUFFICES ASSUME Init PROVE SortMatchesHeader
  OBVIOUS
<1>. DEFINE S == {i \in Cols : InitClasses[i] # "none"}
<1>1. CASE S = {}
  BY <1>1 DEF Init, InitSort, SortMatchesHeader, Abs, Cols
<1>2. CASE S # {}
  <2>1. PICK k \in S : TRUE
    BY <1>2
  <2>2. S = {k}
    BY <2>1
  <2>3. sort = IF InitClasses[k] = "asc" THEN k ELSE -k
    BY <2>1, <2>2, InitSortSingle DEF Init
  <2>4. InitClasses[k] \in {"asc", "desc"}
    BY <2>1 DEF SortClasses
  <2>. QED BY <2>1, <2>2, <2>3, <2>4 DEF Init, SortMatchesHeader, Abs, Cols
<1>. QED BY <1>1, <1>2

\* Only the click handler changes the headers or the sort.
LEMMA SortStep ==
    TypeOK /\ SortMatchesHeader /\ [Next]_vars => SortMatchesHeader'
<1> SUFFICES ASSUME TypeOK, SortMatchesHeader, [Next]_vars
             PROVE SortMatchesHeader'
  OBVIOUS
<1>1. ASSUME NEW i \in Cols, ClickSort(i) PROVE SortMatchesHeader'
  BY <1>1 DEF ClickSort, SortMatchesHeader, Abs, Cols, TypeOK
<1>2. CASE UNCHANGED <<sort, cls>>
  BY <1>2 DEF SortMatchesHeader
<1>. QED BY <1>1, <1>2 DEF Next, vars, GotoPage, Response, Failure, Tick

\* Spec: the sort classes of the headers never disagree with the sort the
\* pager sends, however clicks, page links and answers interleave.
THEOREM SortCorrect == Spec => []SortMatchesHeader
<1>1. Init => TypeOK /\ SortMatchesHeader
  BY TypeInit, SortInit
<1>2. TypeOK /\ SortMatchesHeader /\ [Next]_vars
        => (TypeOK /\ SortMatchesHeader)'
  BY TypeStep, SortStep
<1>. QED BY <1>1, <1>2, PTL DEF Spec

=============================================================================
