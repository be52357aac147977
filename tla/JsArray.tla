------------------------------- MODULE JsArray -------------------------------
(***************************************************************************)
(* The Array methods jsext.js (src/mod/jodd-joy/www/jsext.js) adds to      *)
(* Array.prototype, as calls on one array object.  An array is a sequence  *)
(* (index i of the code is position i + 1); a slot the language leaves    *)
(* empty when the length grows is the value Hole.  A method without a loop *)
(* is one step; a method with a loop is one step per iteration, with pc    *)
(* the method running and i its loop index: the page's scripts run one at  *)
(* a time, so no other call starts before the loop returns.  `call`        *)
(* records the last call so that action properties can name it.            *)
(***************************************************************************)
EXTENDS Integers, SequencesExt

CONSTANTS
    Values,     \* the items callers store and look for
    Hole,       \* an empty slot (reads as undefined)
    MaxLen      \* the longest array the model calls a method on

ASSUME ArrayAssumption ==
    /\ Hole \notin Values
    /\ MaxLen \in Nat

\* The indexes a caller passes: every position of an array the model calls
\* methods on, negative ones from the end, and one past either end.
Indexes == -(MaxLen + 1)..(MaxLen + 1)

VARIABLES
    arr,    \* the array's elements
    call,   \* the last method called, with its arguments and result
    pc,     \* the method whose loop is running, or "idle"
    i       \* the loop index of that method

vars == <<arr, call, pc, i>>

-----------------------------------------------------------------------------

\* this.splice(k, 2) where the code has this.splice(k, 1).
SpliceTwo(a, k) == SubSeq(a, 1, k) \o SubSeq(a, k + 3, Len(a))

\* this.splice(k, 1): the element at index k taken out.
Splice(a, k) == RemoveAt(a, k + 1)

\* this.slice(k) for a start k: negative counts from the end; the elements
\* from the start to the end.
SliceFrom(a, k) ==
    LET start == IF k < 0 THEN IF Len(a) + k < 0 THEN 0 ELSE Len(a) + k
                 ELSE IF k > Len(a) THEN Len(a) ELSE k
    IN  SubSeq(a, start + 1, Len(a))

\* Setting this.length = n: the array is cut to n, or grows with empty
\* slots.
SetLength(a, n) ==
    [k \in 1..n |-> IF k <= Len(a) THEN a[k] ELSE Hole]

\* The start of the part removeRange keeps after the removed range:
\* (to || from) + 1 || this.length.  A missing `to` is undefined, which
\* `||` treats as it treats 0.
RestStart(a, from, to) ==
    LET k == (IF to = 0 THEN from ELSE to) + 1
    IN  IF k = 0 THEN Len(a) ELSE k

\* The new length removeRange sets before pushing the rest back.
CutLength(a, from) == IF from < 0 THEN Len(a) + from ELSE from

\* indexOf(o, i) without the negative case: `i || 0` for every i.
IndexOfStartNoNegative(a, k) == IF k < 0 THEN 0 ELSE k

\* The start indexOf(o, i) computes: a negative i counts from the end (0
\* when that is still negative), and `i || 0` makes a missing one 0.
IndexOfStart(a, k) ==
    IF k < 0 THEN IF k + Len(a) < 0 THEN 0 ELSE k + Len(a) ELSE k

\* The test of lastIndexOf's loop written as while (--i), which stops
\* before it looks at index 0.
LastIndexOfEndsPre(k) == k <= 1

\* while (i--): the loop ends when i, before the decrement, is 0.
LastIndexOfEnds(k) == k = 0

Init ==
    /\ arr \in BoundedSeq(Values, MaxLen)
    /\ call = [op |-> "none"]
    /\ pc = "idle"
    /\ i = 0

\* A method may be called: no loop is running, on an array of the model's
\* size.
Idle == pc = "idle" /\ Len(arr) <= MaxLen

\* Array.prototype.remove(item) is called: i = 0.
CallRemove(item) ==
    /\ Idle
    /\ call' = [op |-> "remove", item |-> item, before |-> arr]
    /\ pc' = "remove" /\ i' = 0
    /\ UNCHANGED arr

\* One iteration of remove's loop: when item == this[i] the element is
\* spliced out; i++ runs either way.
RemoveIter ==
    /\ pc = "remove" /\ i < Len(arr)
    /\ arr' = IF call.item = arr[i + 1] THEN Splice(arr, i) ELSE arr
    /\ i' = i + 1
    /\ UNCHANGED <<call, pc>>

\* remove's loop test fails: i is not below the current length.
RemoveReturn ==
    /\ pc = "remove" /\ ~(i < Len(arr))
    /\ pc' = "idle"
    /\ UNCHANGED <<arr, call, i>>

\* removeRange without `|| this.length`: a to of -1 (from of -1 and no to)
\* makes the rest slice(0), the whole array.
ArrayRemoveRangeNoFallback(from, to) ==
    /\ Idle
    /\ LET rest == SliceFrom(arr, (IF to = 0 THEN from ELSE to) + 1)
           n    == CutLength(arr, from)
       IN  /\ arr' = IF n < 0 THEN arr ELSE SetLength(arr, n) \o rest
           /\ call' = [op |-> "removeRange", from |-> from, to |-> to, threw |-> n < 0]
    /\ UNCHANGED <<pc, i>>

\* Array.prototype.removeRange(from, to): rest = this.slice(...); then
\* this.length = ..., which throws a RangeError (leaving the array as it
\* was) for a negative length; then this.push.apply(this, rest).
ArrayRemoveRange(from, to) ==
    /\ Idle
    /\ LET rest == SliceFrom(arr, RestStart(arr, from, to))
           n    == CutLength(arr, from)
       IN  /\ arr' = IF n < 0 THEN arr ELSE SetLength(arr, n) \o rest
           /\ call' = [op |-> "removeRange", from |-> from, to |-> to, threw |-> n < 0]
    /\ UNCHANGED <<pc, i>>

\* contains(element): some this[i] == element.
ArrayContains(a, x) == \E k \in 1..Len(a) : a[k] = x

\* Array.prototype.addUnique(item): push unless contained.
ArrayAddUnique(item) ==
    /\ Idle
    /\ arr' = IF ArrayContains(arr, item) THEN arr ELSE Append(arr, item)
    /\ call' = [op |-> "addUnique", item |-> item]
    /\ UNCHANGED <<pc, i>>

\* Array.prototype.clear(): this.length = 0, on an array of any length.
ArrayClear ==
    /\ pc = "idle"
    /\ arr' = <<>>
    /\ call' = [op |-> "clear"]
    /\ UNCHANGED <<pc, i>>

\* Array.prototype.indexOf(o, from) is called: i starts where the for
\* loop's initializer puts it.
CallIndexOf(o, from) ==
    /\ Idle
    /\ call' = [op |-> "indexOf", item |-> o, from |-> from]
    /\ pc' = "indexOf" /\ i' = IndexOfStart(arr, from)
    /\ UNCHANGED arr

\* One iteration of indexOf's for loop: i < j && this[i] !== o (an empty
\* slot reads as undefined and is no item), then i++.
IndexOfIter ==
    /\ pc = "indexOf" /\ i < Len(arr) /\ arr[i + 1] # call.item
    /\ i' = i + 1
    /\ UNCHANGED <<arr, call, pc>>

\* The loop test fails: -1 when the loop ran to the length (j <= i),
\* else i.
IndexOfReturn ==
    /\ pc = "indexOf" /\ ~(i < Len(arr) /\ arr[i + 1] # call.item)
    /\ call' = [op |-> "indexOf", item |-> call.item, from |-> call.from,
                result |-> IF Len(arr) <= i THEN -1 ELSE i]
    /\ pc' = "idle"
    /\ UNCHANGED <<arr, i>>

\* Array.prototype.lastIndexOf(n) is called: i = this.length.
CallLastIndexOf(n) ==
    /\ Idle
    /\ call' = [op |-> "lastIndexOf", item |-> n]
    /\ pc' = "lastIndexOf" /\ i' = Len(arr)
    /\ UNCHANGED arr

\* One iteration of while (i--) whose body finds no n at this[i - 1].
LastIndexOfIter ==
    /\ pc = "lastIndexOf" /\ ~LastIndexOfEnds(i) /\ arr[i] # call.item
    /\ i' = i - 1
    /\ UNCHANGED <<arr, call, pc>>

\* lastIndexOf returns: -1 when the loop ends, i - 1 when this[i - 1] === n.
LastIndexOfReturn ==
    /\ pc = "lastIndexOf"
    /\ LastIndexOfEnds(i) \/ (~LastIndexOfEnds(i) /\ arr[i] = call.item)
    /\ call' = [op |-> "lastIndexOf", item |-> call.item,
                result |-> IF LastIndexOfEnds(i) THEN -1 ELSE i - 1]
    /\ pc' = "idle"
    /\ UNCHANGED <<arr, i>>

Next ==
    \/ \E x \in Values : CallRemove(x)
    \/ RemoveIter \/ RemoveReturn
    \/ \E from, to \in Indexes : ArrayRemoveRange(from, to)
    \/ \E x \in Values : ArrayAddUnique(x)
    \/ ArrayClear
    \/ \E x \in Values, from \in Indexes : CallIndexOf(x, from)
    \/ IndexOfIter \/ IndexOfReturn
    \/ \E x \in Values : CallLastIndexOf(x)
    \/ LastIndexOfIter \/ LastIndexOfReturn

Spec == Init /\ [][Next]_vars

-----------------------------------------------------------------------------
(* Properties. *)

\* The step in which the running method op returns.
Returns(op) == pc = op /\ pc' = "idle"

\* The elements of a that are not x, in order.
Others(a, x) == SelectSeq(a, LAMBDA e : e # x)

\* remove(item) loops over every index, so it takes out every occurrence of
\* item: none is left when it returns.
RemoveDeletesAll ==
    [][Returns("remove") => ~ArrayContains(arr', call.item)]_vars

\* remove(item) takes out nothing but occurrences of item: the other
\* elements of the array it was called on stay, in their order.
RemoveKeepsOthers ==
    [][Returns("remove") => Others(arr', call.item) = Others(call.before, call.item)]_vars

\* removeRange(from, to) as its usage is documented: from and to (negative
\* from the end; to left out or 0 meaning from) delimit the elements
\* removed, both included.  For a from within the array and a to not
\* before it (or just before it: nothing to remove), the call removes
\* exactly those and keeps the rest in order.
RemoveRangeAsDocumented ==
    [][call'.op = "removeRange" =>
         LET f == IF call'.from < 0 THEN Len(arr) + call'.from ELSE call'.from
             t == IF call'.to = 0 THEN f
                  ELSE IF call'.to < 0 THEN Len(arr) + call'.to ELSE call'.to
         IN  0 <= f /\ f <= Len(arr) /\ f <= t + 1 =>
               arr' = SubSeq(arr, 1, f) \o SubSeq(arr, t + 2, Len(arr))]_vars

\* Array.prototype.indexOf(o, n) as ECMAScript defines the method jsext.js
\* replaces: -1 when n is not below the length; else the first index from
\* n (from length + n, or 0, for a negative n) holding o; else -1.
StdIndexOf(a, o, n) ==
    LET k == IF n >= 0 THEN n ELSE Max({Len(a) + n, 0})
    IN  IF n >= Len(a) THEN -1
        ELSE SelectInSubSeq(a, k + 1, Len(a), LAMBDA e : e = o) - 1

\* ECMAScript's Array.prototype.lastIndexOf(n) without a fromIndex: the
\* last index holding n, or -1.
StdLastIndexOf(a, n) == SelectLastInSeq(a, LAMBDA e : e = n) - 1

\* jsext.js replaces the built-in indexOf of every array on the page, so
\* every script that searches an array runs this loop: for every start
\* index, negative or past either end, it answers what the built-in does.
IndexOfAsStandard ==
    [][Returns("indexOf") => call'.result = StdIndexOf(arr, call.item, call.from)]_vars

\* The replaced lastIndexOf(n) finds the last occurrence, index 0 included.
LastIndexOfAsStandard ==
    [][Returns("lastIndexOf") => call'.result = StdLastIndexOf(arr, call.item)]_vars

=============================================================================
