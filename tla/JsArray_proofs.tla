---------------------------- MODULE JsArray_proofs ----------------------------
(***************************************************************************)
(* Proofs about the Array methods of jsext.js (module JsArray): the type   *)
(* invariant, the loop invariants of indexOf and lastIndexOf and, from     *)
(* them, that both return what the built-in methods they replace return;  *)
(* and that removeRange removes the documented range.                     *)
(***************************************************************************)
EXTENDS JsArray, SequenceTheorems, TLAPS

\* An element of the array: an item or an empty slot.
Slot == Values \cup {Hole}

\* The records `call` holds: the last method called, its arguments and, for
\* indexOf and lastIndexOf once they returned, the result.
CallType ==
    [op : {"none", "clear"}]
    \cup [op : {"remove"}, item : Values, before : Seq(Slot)]
    \cup [op : {"removeRange"}, from : Indexes, to : Indexes, threw : BOOLEAN]
    \cup [op : {"addUnique", "lastIndexOf"}, item : Values]
    \cup [op : {"indexOf"}, item : Values, from : Indexes]
    \cup [op : {"indexOf"}, item : Values, from : Indexes, result : Int]
    \cup [op : {"lastIndexOf"}, item : Values, result : Int]

\* The methods whose loop may be running.
Loops == {"remove", "indexOf", "lastIndexOf"}

TypeOK ==
    /\ arr \in Seq(Slot)
    /\ call \in CallType
    /\ pc \in {"idle"} \cup Loops
    /\ i \in Nat

\* While a loop runs, call is the call that started it.
CallRunning == pc \in Loops => call.op = pc

\* The loop invariant of indexOf: i has moved up from the start the for
\* loop's initializer computed, past no index holding the item, and beyond
\* the length only if it started there.
IndexOfInv ==
    pc = "indexOf" =>
        LET s == IndexOfStart(arr, call.from)
        IN  /\ s <= i
            /\ i <= Len(arr) \/ i = s
            /\ \A j \in s..(i - 1) : arr[j + 1] # call.item

\* The loop invariant of lastIndexOf: i (the index before the decrement)
\* has moved down from the length past no index holding the item.
LastIndexOfInv ==
    pc = "lastIndexOf" =>
        /\ i \in 0..Len(arr)
        /\ \A j \in (i + 1)..Len(arr) : arr[j] # call.item

Inv == TypeOK /\ CallRunning /\ IndexOfInv /\ LastIndexOfInv

-----------------------------------------------------------------------------
(* Lemmas on the sequence operators the methods are built from. *)

\* A part of a sequence, between positions within it, is a sequence of
\* its elements.
LEMMA SubSeqType ==
    ASSUME NEW S, NEW a \in Seq(S), NEW m \in Int, NEW n \in Int,
           1 <= m, n <= Len(a)
    PROVE  SubSeq(a, m, n) \in Seq(S)
<1>1. \A k \in m..n : a[k] \in S
    BY ElementOfSeq
<1>2. QED
    BY <1>1, SubSeqProperties

\* this.splice(k, 1) at an index of the array leaves a sequence of its
\* elements.
LEMMA SpliceType ==
    ASSUME NEW S, NEW a \in Seq(S), NEW k \in 0..(Len(a) - 1)
    PROVE  Splice(a, k) \in Seq(S)
<1>1. SubSeq(a, 1, k) \in Seq(S) /\ SubSeq(a, k + 2, Len(a)) \in Seq(S)
    BY SubSeqType
<1>2. QED
    BY <1>1, ConcatProperties DEF Splice, RemoveAt

\* this.slice(k) for any start k is a sequence of the array's elements.
LEMMA SliceFromType ==
    ASSUME NEW S, NEW a \in Seq(S), NEW k \in Int
    PROVE  SliceFrom(a, k) \in Seq(S)
<1> DEFINE start == IF k < 0 THEN IF Len(a) + k < 0 THEN 0 ELSE Len(a) + k
                    ELSE IF k > Len(a) THEN Len(a) ELSE k
<1>1. start \in 0..Len(a)
    BY LenProperties
<1>2. SubSeq(a, start + 1, Len(a)) \in Seq(S)
    BY <1>1, SubSeqType, LenProperties
<1>3. QED
    BY <1>2 DEF SliceFrom

\* Setting this.length to a natural number leaves a sequence of elements
\* and empty slots.
LEMMA SetLengthType ==
    ASSUME NEW a \in Seq(Slot), NEW n \in Nat
    PROVE  SetLength(a, n) \in Seq(Slot)
<1>1. \A k \in 1..n : (IF k <= Len(a) THEN a[k] ELSE Hole) \in Slot
    BY ElementOfSeq DEF Slot
<1>2. QED
    BY <1>1, IsASeq DEF SetLength

-----------------------------------------------------------------------------
(* Type correctness. *)

\* Init starts with an array of items and no call.
LEMMA TypeInit == Init => TypeOK
<1> SUFFICES ASSUME Init PROVE TypeOK
    OBVIOUS
<1>1. arr \in Seq(Slot)
    <2>1. PICK m \in 0..MaxLen : arr \in [1..m -> Values]
        BY DEF Init, BoundedSeq, SeqOf
    <2>2. QED
        BY <2>1, ArrayAssumption DEF Slot
<1>2. QED
    BY <1>1 DEF Init, TypeOK, CallType

\* The start indexOf's for loop computes is a natural number.
LEMMA IndexOfStartType ==
    ASSUME NEW a \in Seq(Slot), NEW k \in Int
    PROVE  IndexOfStart(a, k) \in Nat
BY LenProperties DEF IndexOfStart

\* The type invariant with what makes it inductive: the result a loop
\* returns is built from the running call's arguments.
TypeInv == TypeOK /\ CallRunning

\* Every method keeps the array a sequence of slots, the call a record of
\* its kind, the loop index a natural number, and the call of a running
\* loop the call that started it.
LEMMA TypeStep == TypeInv /\ [Next]_vars => TypeInv'
<1> SUFFICES ASSUME TypeInv, [Next]_vars PROVE TypeInv'
    OBVIOUS
<1> USE DEF TypeInv, TypeOK, CallRunning, Loops
<1>0. Len(arr) \in Nat
    BY LenProperties
<1>1. ASSUME NEW x \in Values, CallRemove(x) PROVE TypeInv'
    BY <1>1 DEF CallRemove, Idle, CallType
<1>2. CASE RemoveIter
    <2>1. i \in 0..(Len(arr) - 1)
        BY <1>2, <1>0 DEF RemoveIter
    <2>2. Splice(arr, i) \in Seq(Slot)
        BY <2>1, SpliceType
    <2>3. QED
        BY <1>2, <2>2 DEF RemoveIter
<1>3. CASE RemoveReturn
    BY <1>3 DEF RemoveReturn
<1>4. ASSUME NEW from \in Indexes, NEW to \in Indexes,
             ArrayRemoveRange(from, to)
      PROVE  TypeInv'
    <2> DEFINE rest == SliceFrom(arr, RestStart(arr, from, to))
               n    == CutLength(arr, from)
    <2>1. from \in Int /\ to \in Int
        BY ArrayAssumption DEF Indexes
    <2>2. RestStart(arr, from, to) \in Int
        BY <2>1, <1>0 DEF RestStart
    <2>3. rest \in Seq(Slot)
        BY <2>2, SliceFromType
    <2>4. n \in Int
        BY <2>1, <1>0 DEF CutLength
    <2>5. arr' \in Seq(Slot)
        <3>1. CASE n < 0
            BY <1>4, <3>1 DEF ArrayRemoveRange
        <3>2. CASE ~(n < 0)
            <4>1. SetLength(arr, n) \in Seq(Slot)
                BY <2>4, <3>2, SetLengthType
            <4>2. SetLength(arr, n) \o rest \in Seq(Slot)
                BY <4>1, <2>3, ConcatProperties
            <4>3. QED
                BY <1>4, <3>2, <4>2 DEF ArrayRemoveRange
        <3>3. QED
            BY <3>1, <3>2
    <2>6. call' \in CallType
        BY <1>4 DEF ArrayRemoveRange, CallType
    <2>7. QED
        BY <1>4, <2>5, <2>6 DEF ArrayRemoveRange, Idle
<1>5. ASSUME NEW x \in Values, ArrayAddUnique(x) PROVE TypeInv'
    <2>1. Append(arr, x) \in Seq(Slot)
        BY DEF Slot
    <2>2. QED
        BY <1>5, <2>1 DEF ArrayAddUnique, Idle, CallType
<1>6. CASE ArrayClear
    BY <1>6 DEF ArrayClear, CallType
<1>7. ASSUME NEW x \in Values, NEW from \in Indexes, CallIndexOf(x, from)
      PROVE  TypeInv'
    <2>1. from \in Int
        BY ArrayAssumption DEF Indexes
    <2>2. IndexOfStart(arr, from) \in Nat
        BY <2>1, IndexOfStartType
    <2>3. QED
        BY <1>7, <2>2 DEF CallIndexOf, Idle, CallType
<1>8. CASE IndexOfIter
    BY <1>8 DEF IndexOfIter
<1>9. CASE IndexOfReturn
    <2>1. call \in [op : {"indexOf"}, item : Values, from : Indexes]
          \/ call \in [op : {"indexOf"}, item : Values, from : Indexes, result : Int]
        BY <1>9 DEF IndexOfReturn, CallType
    <2>2. call'  \in [op : {"indexOf"}, item : Values, from : Indexes, result : Int]
        BY <1>9, <2>1 DEF IndexOfReturn
    <2>3. QED
        BY <1>9, <2>2 DEF IndexOfReturn, CallType
<1>10. ASSUME NEW x \in Values, CallLastIndexOf(x) PROVE TypeInv'
    BY <1>10, <1>0 DEF CallLastIndexOf, Idle, CallType
<1>11. CASE LastIndexOfIter
    BY <1>11 DEF LastIndexOfIter, LastIndexOfEnds
<1>12. CASE LastIndexOfReturn
    <2>1. call.item \in Values
        BY <1>12 DEF LastIndexOfReturn, CallType
    <2>2. call'  \in [op : {"lastIndexOf"}, item : Values, result : Int]
        BY <1>12, <2>1 DEF LastIndexOfReturn
    <2>3. QED
        BY <1>12, <2>2 DEF LastIndexOfReturn, CallType
<1>13. CASE UNCHANGED vars
    BY <1>13 DEF vars
<1>14. QED
    BY <1>1, <1>2, <1>3, <1>4, <1>5, <1>6, <1>7, <1>8, <1>9, <1>10,
       <1>11, <1>12, <1>13 DEF Next

\* Every method keeps the array a sequence of items and empty slots, the
\* call a record of its kind and the loop index a natural number.
THEOREM TypeCorrect == Spec => []TypeOK
<1>1. Init => TypeInv
    BY TypeInit DEF TypeInv, CallRunning, Init, Loops
<1>2. QED
    BY <1>1, TypeStep, PTL DEF Spec, TypeInv

-----------------------------------------------------------------------------
(* removeRange. *)

\* The first and the last index of the range removeRange(from, to) is
\* documented to remove, as RemoveRangeAsDocumented computes them.
DocFrom(a, from) == IF from < 0 THEN Len(a) + from ELSE from
DocTo(a, from, to) ==
    IF to = 0 THEN DocFrom(a, from) ELSE IF to < 0 THEN Len(a) + to ELSE to

\* What removeRange's three statements leave, for a from within the array
\* and a to not before it: the elements before from, then those after to.
\* The `|| this.length` of the slice is what makes a range that ends at
\* index -1 (the last element) leave nothing after it.
LEMMA RemoveRangeResult ==
    ASSUME NEW a \in Seq(Slot), NEW from \in Int, NEW to \in Int,
           0 <= DocFrom(a, from), DocFrom(a, from) <= Len(a),
           DocFrom(a, from) <= DocTo(a, from, to) + 1
    PROVE  SetLength(a, CutLength(a, from)) \o SliceFrom(a, RestStart(a, from, to))
             = SubSeq(a, 1, DocFrom(a, from))
               \o SubSeq(a, DocTo(a, from, to) + 2, Len(a))
<1> DEFINE f == DocFrom(a, from)
           t == DocTo(a, from, to)
<1>0. Len(a) \in Nat
    BY LenProperties
<1> USE DEF DocFrom, DocTo
<1> f \in Int /\ t \in Int
    BY <1>0
<1>1. CutLength(a, from) = f
    BY DEF CutLength
<1>2. SetLength(a, f) = SubSeq(a, 1, f)
    <2>0. f \in Nat
        OBVIOUS
    <2>1. SetLength(a, f) \in Seq(Slot) /\ SubSeq(a, 1, f) \in Seq(Slot)
        <3>1. SetLength(a, f) \in Seq(Slot)
            BY <2>0, SetLengthType
        <3>2. SubSeq(a, 1, f) \in Seq(Slot)
            BY SubSeqType
        <3>3. QED
            BY <3>1, <3>2
    <2>2. Len(SubSeq(a, 1, f)) = f
          /\ \A k \in 1..f : SubSeq(a, 1, f)[k] = a[k]
        <3>1. \A k \in 1..f : a[k] \in Slot
            BY ElementOfSeq
        <3>2. QED
            BY <3>1, SubSeqProperties
    <2>3. Len(SetLength(a, f)) = f
        <3>1. DOMAIN SetLength(a, f) = 1..Len(SetLength(a, f))
            BY <2>1, LenProperties
        <3>2. DOMAIN SetLength(a, f) = 1..f
            BY DEF SetLength
        <3>3. Len(SetLength(a, f)) \in Nat
            BY <2>1, LenProperties
        <3>4. QED
            BY <3>1, <3>2, <3>3
    <2>4. \A k \in 1..f : SetLength(a, f)[k] = a[k]
        BY DEF SetLength
    <2>5. QED
        BY <2>1, <2>2, <2>3, <2>4, SeqEqual
<1> DEFINE k     == RestStart(a, from, to)
           start == IF k < 0 THEN IF Len(a) + k < 0 THEN 0 ELSE Len(a) + k
                    ELSE IF k > Len(a) THEN Len(a) ELSE k
<1>3. start + 1 = t + 2 \/ (start = Len(a) /\ Len(a) < t + 2)
    BY <1>0 DEF RestStart
<1>4. SliceFrom(a, k) = SubSeq(a, t + 2, Len(a))
    <2>1. SliceFrom(a, k) = SubSeq(a, start + 1, Len(a))
        BY DEF SliceFrom
    <2>2. CASE start + 1 = t + 2
        BY <2>1, <2>2
    <2>3. CASE start = Len(a) /\ Len(a) < t + 2
        <3>1. SubSeq(a, Len(a) + 1, Len(a)) = << >>
            BY <1>0, SubSeqEmpty
        <3>2. SubSeq(a, t + 2, Len(a)) = << >>
            <4>1. Len(a) < t + 2 /\ t + 2 \in Int /\ Len(a) \in Int
                BY <2>3, <1>0
            <4>2. QED
                BY <4>1, SubSeqEmpty, Zenon
        <3>3. SubSeq(a, start + 1, Len(a)) = SubSeq(a, Len(a) + 1, Len(a))
            BY <2>3
        <3>4. QED
            BY <2>1, <3>1, <3>2, <3>3
    <2>4. QED
        BY <1>3, <2>2, <2>3
<1>5. QED
    BY <1>1, <1>2, <1>4

\* The step RemoveRangeAsDocumented constrains.
RemoveRangeDoc ==
    call'.op = "removeRange" =>
         LET f == IF call'.from < 0 THEN Len(arr) + call'.from ELSE call'.from
             t == IF call'.to = 0 THEN f
                  ELSE IF call'.to < 0 THEN Len(arr) + call'.to ELSE call'.to
         IN  0 <= f /\ f <= Len(arr) /\ f <= t + 1 =>
               arr' = SubSeq(arr, 1, f) \o SubSeq(arr, t + 2, Len(arr))

\* Every step that calls removeRange removes the documented range; no
\* other step leaves a removeRange call in `call`, as a running loop's
\* call is the one that started it.
LEMMA RemoveRangeStep == TypeInv /\ [Next]_vars => [RemoveRangeDoc]_vars
<1> SUFFICES ASSUME TypeInv, [Next]_vars PROVE [RemoveRangeDoc]_vars
    OBVIOUS
<1> USE DEF TypeInv, TypeOK, CallRunning, Loops
<1>1. ASSUME NEW from \in Indexes, NEW to \in Indexes,
             ArrayRemoveRange(from, to)
      PROVE  RemoveRangeDoc
    <2> DEFINE f == IF from < 0 THEN Len(arr) + from ELSE from
               t == IF to = 0 THEN f ELSE IF to < 0 THEN Len(arr) + to ELSE to
    <2>1. call'.op = "removeRange" /\ call'.from = from /\ call'.to = to
        BY <1>1 DEF ArrayRemoveRange
    <2>2. SUFFICES ASSUME 0 <= f, f <= Len(arr), f <= t + 1
                   PROVE  arr' = SubSeq(arr, 1, f) \o SubSeq(arr, t + 2, Len(arr))
        BY <2>1 DEF RemoveRangeDoc
    <2>3. from \in Int /\ to \in Int /\ Len(arr) \in Nat
        BY ArrayAssumption, LenProperties DEF Indexes
    <2>4. ~(CutLength(arr, from) < 0)
        BY <2>2, <2>3 DEF CutLength
    <2>5. arr' = SetLength(arr, CutLength(arr, from))
                 \o SliceFrom(arr, RestStart(arr, from, to))
        BY <1>1, <2>4 DEF ArrayRemoveRange
    <2>6. f \in Int /\ t \in Int
        BY <2>3
    <2>7. SetLength(arr, CutLength(arr, from)) \o SliceFrom(arr, RestStart(arr, from, to))
            = SubSeq(arr, 1, f) \o SubSeq(arr, t + 2, Len(arr))
        <3>1. arr \in Seq(Slot)
            OBVIOUS
        <3>2. f = DocFrom(arr, from) /\ t = DocTo(arr, from, to)
            BY DEF DocFrom, DocTo
        <3>3. QED
            BY <2>2, <2>3, <3>1, <3>2, RemoveRangeResult
    <2>8. QED
        BY <2>5, <2>7
<1>2. ASSUME call'.op # "removeRange" PROVE RemoveRangeDoc
    BY <1>2 DEF RemoveRangeDoc
<1>3. CASE \E x \in Values : CallRemove(x) \/ ArrayAddUnique(x) \/ CallLastIndexOf(x)
    BY <1>3, <1>2 DEF CallRemove, ArrayAddUnique, CallLastIndexOf
<1>4. CASE \E x \in Values, from \in Indexes : CallIndexOf(x, from)
    BY <1>4, <1>2 DEF CallIndexOf
<1>5. CASE ArrayClear \/ IndexOfReturn \/ LastIndexOfReturn
    BY <1>5, <1>2 DEF ArrayClear, IndexOfReturn, LastIndexOfReturn
<1>6. CASE RemoveIter \/ RemoveReturn \/ IndexOfIter \/ LastIndexOfIter
    BY <1>6, <1>2 DEF RemoveIter, RemoveReturn, IndexOfIter, LastIndexOfIter
<1>7. CASE UNCHANGED vars
    BY <1>7
<1>8. QED
    BY <1>1, <1>3, <1>4, <1>5, <1>6, <1>7 DEF Next

\* removeRange(from, to), called with a from within the array and a to not
\* before it, removes the elements from index from to index to, both
\* included, and keeps the others in order: negative indexes, a missing
\* to and a range ending at the last element included.
THEOREM RemoveRangeCorrect == Spec => RemoveRangeAsDocumented
<1>1. Init => TypeInv
    BY TypeInit DEF TypeInv, CallRunning, Init, Loops
<1>2. QED
    BY <1>1, TypeStep, RemoveRangeStep, PTL
    DEF Spec, RemoveRangeAsDocumented, RemoveRangeDoc

-----------------------------------------------------------------------------
(* The loops of indexOf and lastIndexOf. *)

\* An element of a set of integers below or equal to all of them is its
\* Min; one above or equal to all of them is its Max.
LEMMA MinIs ==
    ASSUME NEW S \in SUBSET Int, NEW w \in S, \A y \in S : w <= y
    PROVE  Min(S) = w
<1>1. \A z \in S : (\A y \in S : z <= y) => z = w
    OBVIOUS
<1>2. QED
    BY <1>1, Zenon DEF Min

LEMMA MaxIs ==
    ASSUME NEW S \in SUBSET Int, NEW w \in S, \A y \in S : w >= y
    PROVE  Max(S) = w
<1>1. \A z \in S : (\A y \in S : z >= y) => z = w
    OBVIOUS
<1>2. QED
    BY <1>1, Zenon DEF Max

\* The loop invariants hold initially, where no loop runs, and every
\* method keeps them: arr and call stay as they are while a loop runs, and
\* an iteration moves i past an index that does not hold the item.
LEMMA LoopStep ==
    TypeInv /\ IndexOfInv /\ LastIndexOfInv /\ [Next]_vars
      => (IndexOfInv /\ LastIndexOfInv)'
<1> SUFFICES ASSUME TypeInv, IndexOfInv, LastIndexOfInv, [Next]_vars
             PROVE  (IndexOfInv /\ LastIndexOfInv)'
    OBVIOUS
<1> USE DEF TypeInv, TypeOK, CallRunning, Loops
<1>0. Len(arr) \in Nat
    BY LenProperties
<1>1. CASE pc' \notin {"indexOf", "lastIndexOf"}
    BY <1>1 DEF IndexOfInv, LastIndexOfInv
<1>2. ASSUME NEW x \in Values, NEW from \in Indexes, CallIndexOf(x, from)
      PROVE  (IndexOfInv /\ LastIndexOfInv)'
    <2>1. from \in Int
        BY ArrayAssumption DEF Indexes
    <2>2. IndexOfStart(arr, from) \in Nat
        BY <2>1, IndexOfStartType
    <2>3. QED
        BY <1>2, <2>2 DEF CallIndexOf, IndexOfInv, LastIndexOfInv
<1>3. CASE IndexOfIter
    <2>1. call.from \in Int
        <3>1. call.from \in Indexes
            BY <1>3 DEF IndexOfIter, CallType
        <3>2. QED
            BY <3>1, ArrayAssumption DEF Indexes
    <2>2. IndexOfStart(arr, call.from) \in Int
        BY <2>1, <1>0 DEF IndexOfStart
    <2>3. QED
        BY <1>3, <1>0, <2>2 DEF IndexOfIter, IndexOfInv, LastIndexOfInv
<1>4. ASSUME NEW x \in Values, CallLastIndexOf(x)
      PROVE  (IndexOfInv /\ LastIndexOfInv)'
    BY <1>4, <1>0 DEF CallLastIndexOf, IndexOfInv, LastIndexOfInv
<1>5. CASE LastIndexOfIter
    BY <1>5, <1>0 DEF LastIndexOfIter, LastIndexOfEnds, IndexOfInv, LastIndexOfInv
<1>6. CASE UNCHANGED vars
    BY <1>6 DEF vars, IndexOfInv, LastIndexOfInv
<1>7. QED
    <2>1. CASE \E x \in Values : CallRemove(x)
        BY <2>1, <1>1 DEF CallRemove
    <2>6. CASE \E x \in Values : ArrayAddUnique(x)
        BY <2>6, <1>1 DEF ArrayAddUnique, Idle
    <2>2. CASE \E from, to \in Indexes : ArrayRemoveRange(from, to)
        BY <2>2, <1>1 DEF ArrayRemoveRange, Idle
    <2>3. CASE RemoveIter \/ RemoveReturn \/ ArrayClear
        BY <2>3, <1>1 DEF RemoveIter, RemoveReturn, ArrayClear
    <2>4. CASE IndexOfReturn \/ LastIndexOfReturn
        BY <2>4, <1>1 DEF IndexOfReturn, LastIndexOfReturn
    <2>5. QED
        BY <1>2, <1>3, <1>4, <1>5, <1>6, <2>1, <2>2, <2>3, <2>4, <2>6
        DEF Next

\* The invariant the proofs about the loops rest on.
LEMMA InvHolds == Spec => []Inv
<1>1. Init => Inv
    BY TypeInit DEF Inv, TypeInv, CallRunning, Init, Loops, IndexOfInv, LastIndexOfInv
<1>2. Inv /\ [Next]_vars => Inv'
    BY TypeStep, LoopStep DEF Inv, TypeInv
<1>3. QED
    BY <1>1, <1>2, PTL DEF Spec

\* When indexOf's loop test fails with its invariant holding, the value
\* the method returns is the built-in's.
LEMMA IndexOfResult ==
    ASSUME NEW a \in Seq(Slot), NEW o \in Values, NEW n \in Int, NEW r \in Nat,
           IndexOfStart(a, n) <= r,
           r <= Len(a) \/ r = IndexOfStart(a, n),
           \A j \in IndexOfStart(a, n)..(r - 1) : a[j + 1] # o,
           ~(r < Len(a) /\ a[r + 1] # o)
    PROVE  (IF Len(a) <= r THEN -1 ELSE r) = StdIndexOf(a, o, n)
<1> DEFINE s == IndexOfStart(a, n)
           k == IF n >= 0 THEN n ELSE Max({Len(a) + n, 0})
           I == {j \in (s + 1)..Len(a) : a[j] = o}
<1>0. Len(a) \in Nat /\ s \in Nat
    BY LenProperties, IndexOfStartType
<1>1. k = s
    <2>1. CASE n >= 0
        BY <2>1 DEF IndexOfStart
    <2>2. CASE n < 0
        <3>1. Max({Len(a) + n, 0}) = IF Len(a) + n < 0 THEN 0 ELSE Len(a) + n
            <4> DEFINE w == IF Len(a) + n < 0 THEN 0 ELSE Len(a) + n
            <4>1. {Len(a) + n, 0} \in SUBSET Int
                BY <1>0
            <4>2. w \in {Len(a) + n, 0} /\ \A y \in {Len(a) + n, 0} : w >= y
                BY <1>0
            <4>3. QED
                BY <4>1, <4>2, MaxIs
        <3>2. QED
            BY <2>2, <3>1 DEF IndexOfStart
    <2>3. QED
        BY <2>1, <2>2
<1>2. CASE n >= Len(a)
    <2>1. s = n
        BY <1>2, <1>0 DEF IndexOfStart
    <2>2. QED
        BY <1>2, <2>1, <1>0 DEF StdIndexOf
<1>3. CASE n < Len(a)
    <2>1. StdIndexOf(a, o, n) = (IF I # {} THEN Min(I) ELSE 0) - 1
        <3>1. StdIndexOf(a, o, n) = SelectInSubSeq(a, s + 1, Len(a), LAMBDA e : e = o) - 1
            BY <1>3, <1>1 DEF StdIndexOf
        <3>2. SelectInSubSeq(a, s + 1, Len(a), LAMBDA e : e = o)
                = IF I # {} THEN Min(I) ELSE 0
            BY Zenon DEF SelectInSubSeq
        <3>3. QED
            BY <3>1, <3>2
    <2>2. CASE Len(a) <= r
        <3>1. I = {}
            <4>1. ASSUME NEW j \in (s + 1)..Len(a) PROVE a[j] # o
                <5>1. j - 1 \in s..(r - 1)
                    BY <2>2, <1>0
                <5>2. QED
                    BY <5>1
            <4>2. QED
                BY <4>1
        <3>2. QED
            BY <2>1, <2>2, <3>1
    <2>3. CASE r < Len(a)
        <3>1. r + 1 \in I
            BY <2>3, <1>0
        <3>2. \A y \in I : r + 1 <= y
            <4>1. SUFFICES ASSUME NEW y \in I, y <= r PROVE FALSE
                BY <1>0
            <4>2. y - 1 \in s..(r - 1)
                BY <4>1, <1>0
            <4>3. QED
                BY <4>1, <4>2
        <3>3. I \in SUBSET Int
            BY <1>0
        <3>4. Min(I) = r + 1
            BY <3>1, <3>2, <3>3, MinIs
        <3>5. QED
            BY <2>1, <2>3, <3>1, <3>4
    <2>4. QED
        BY <2>2, <2>3
<1>4. QED
    BY <1>2, <1>3

\* When lastIndexOf's loop stops with its invariant holding, the value the
\* method returns is the built-in's.
LEMMA LastIndexOfResult ==
    ASSUME NEW a \in Seq(Slot), NEW o \in Values, NEW r \in 0..Len(a),
           \A j \in (r + 1)..Len(a) : a[j] # o,
           LastIndexOfEnds(r) \/ (~LastIndexOfEnds(r) /\ a[r] = o)
    PROVE  (IF LastIndexOfEnds(r) THEN -1 ELSE r - 1) = StdLastIndexOf(a, o)
<1> DEFINE I == {j \in 1..Len(a) : a[j] = o}
<1>0. Len(a) \in Nat
    BY LenProperties
<1>1. StdLastIndexOf(a, o) = (IF I # {} THEN Max(I) ELSE 0) - 1
    BY Zenon DEF StdLastIndexOf, SelectLastInSeq
<1>2. CASE r = 0
    <2>1. I = {}
        BY <1>2, <1>0
    <2>2. QED
        BY <1>1, <1>2, <2>1 DEF LastIndexOfEnds
<1>3. CASE r # 0
    <2>1. r \in I
        BY <1>3, <1>0 DEF LastIndexOfEnds
    <2>2. \A y \in I : r >= y
        BY <1>0
    <2>3. I \in SUBSET Int
        BY <1>0
    <2>4. Max(I) = r
        BY <2>1, <2>2, <2>3, MaxIs
    <2>5. QED
        BY <1>1, <1>3, <2>1, <2>4 DEF LastIndexOfEnds
<1>4. QED
    BY <1>2, <1>3

\* The steps IndexOfAsStandard and LastIndexOfAsStandard constrain.
IndexOfDoc ==
    Returns("indexOf") => call'.result = StdIndexOf(arr, call.item, call.from)

LastIndexOfDoc ==
    Returns("lastIndexOf") => call'.result = StdLastIndexOf(arr, call.item)

\* Only the return of indexOf's own loop ends a running indexOf, and it
\* returns the built-in's value.
LEMMA IndexOfStep == Inv /\ [Next]_vars => [IndexOfDoc]_vars
<1> SUFFICES ASSUME Inv, [Next]_vars PROVE [IndexOfDoc]_vars
    OBVIOUS
<1> USE DEF Inv, TypeOK, CallRunning, Loops
<1>1. CASE IndexOfReturn
    <2>1. call.item \in Values /\ call.from \in Indexes
        BY <1>1 DEF IndexOfReturn, CallType
    <2>2. call.from \in Int
        BY <2>1, ArrayAssumption DEF Indexes
    <2>3. LET s == IndexOfStart(arr, call.from)
          IN  /\ s <= i
              /\ i <= Len(arr) \/ i = s
              /\ \A j \in s..(i - 1) : arr[j + 1] # call.item
        BY <1>1 DEF IndexOfReturn, IndexOfInv
    <2>4. ~(i < Len(arr) /\ arr[i + 1] # call.item)
        BY <1>1 DEF IndexOfReturn
    <2>5. (IF Len(arr) <= i THEN -1 ELSE i) = StdIndexOf(arr, call.item, call.from)
        BY <2>1, <2>2, <2>3, <2>4, IndexOfResult
    <2>6. QED
        BY <1>1, <2>5 DEF IndexOfReturn, IndexOfDoc
<1>2. ASSUME ~(pc = "indexOf" /\ pc' = "idle") PROVE IndexOfDoc
    BY <1>2 DEF IndexOfDoc, Returns
<1>3. CASE IndexOfIter
    BY <1>3, <1>2 DEF IndexOfIter
<1>4. CASE ~IndexOfReturn /\ ~IndexOfIter /\ Next
    BY <1>4, <1>2 DEF Next, CallRemove, RemoveIter, RemoveReturn, ArrayRemoveRange,
       ArrayAddUnique, ArrayClear, CallIndexOf, CallLastIndexOf, LastIndexOfIter,
       LastIndexOfReturn, Idle
<1>5. QED
    BY <1>1, <1>3, <1>4

\* Only the return of lastIndexOf's own loop ends a running lastIndexOf,
\* and it returns the built-in's value.
LEMMA LastIndexOfStep == Inv /\ [Next]_vars => [LastIndexOfDoc]_vars
<1> SUFFICES ASSUME Inv, [Next]_vars PROVE [LastIndexOfDoc]_vars
    OBVIOUS
<1> USE DEF Inv, TypeOK, CallRunning, Loops
<1>1. CASE LastIndexOfReturn
    <2>1. call.item \in Values
        BY <1>1 DEF LastIndexOfReturn, CallType
    <2>2. i \in 0..Len(arr) /\ \A j \in (i + 1)..Len(arr) : arr[j] # call.item
        BY <1>1 DEF LastIndexOfReturn, LastIndexOfInv
    <2>3. LastIndexOfEnds(i) \/ (~LastIndexOfEnds(i) /\ arr[i] = call.item)
        BY <1>1 DEF LastIndexOfReturn
    <2>4. (IF LastIndexOfEnds(i) THEN -1 ELSE i - 1) = StdLastIndexOf(arr, call.item)
        BY <2>1, <2>2, <2>3, LastIndexOfResult
    <2>5. QED
        BY <1>1, <2>4 DEF LastIndexOfReturn, LastIndexOfDoc
<1>2. ASSUME ~(pc = "lastIndexOf" /\ pc' = "idle") PROVE LastIndexOfDoc
    BY <1>2 DEF LastIndexOfDoc, Returns
<1>3. CASE LastIndexOfIter
    BY <1>3, <1>2 DEF LastIndexOfIter
<1>4. CASE ~LastIndexOfReturn /\ ~LastIndexOfIter /\ Next
    BY <1>4, <1>2 DEF Next, CallRemove, RemoveIter, RemoveReturn, ArrayRemoveRange,
       ArrayAddUnique, ArrayClear, CallIndexOf, IndexOfIter, IndexOfReturn,
       CallLastIndexOf, Idle
<1>5. QED
    BY <1>1, <1>3, <1>4

\* The indexOf(o, from) jsext.js puts on every array returns what the
\* built-in method returns, for every array and every start index.
THEOREM IndexOfCorrect == Spec => IndexOfAsStandard
BY InvHolds, IndexOfStep, PTL DEF Spec, IndexOfAsStandard, IndexOfDoc

\* The lastIndexOf(n) jsext.js puts on every array returns the last index
\* holding n, index 0 included, or -1, as the built-in does.
THEOREM LastIndexOfCorrect == Spec => LastIndexOfAsStandard
BY InvHolds, LastIndexOfStep, PTL DEF Spec, LastIndexOfAsStandard, LastIndexOfDoc

=============================================================================
