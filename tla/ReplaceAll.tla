------------------------------ MODULE ReplaceAll ------------------------------
(***************************************************************************)
(* String.prototype.replaceAll(pcFrom, pcTo) of jsext.js, one iteration of *)
(* its while loop per step:                                                *)
(*     var i = this.indexOf(pcFrom); var c = this;                         *)
(*     while (i > -1) { c = c.replace(pcFrom, pcTo); i = c.indexOf(pcFrom); } *)
(*     return c;                                                           *)
(* A string that outgrows MaxLen stands for a loop that runs until the    *)
(* browser stops the script.                                               *)
(***************************************************************************)
EXTENDS JsStrings

CONSTANTS
    Chars,      \* the characters strings are made of
    MaxIn,      \* the longest string replaceAll is called on
    MaxPat,     \* the longest pcFrom and pcTo
    MaxLen      \* the longest c the loop may build before the script is stopped

ASSUME ReplaceAllAssumption ==
    /\ MaxIn \in Nat /\ MaxPat \in Nat /\ MaxLen \in Nat
    /\ MaxIn <= MaxLen

\* The strings of length at most n.
Strings(n) == UNION {[1..k -> Chars] : k \in 0..n}

VARIABLES
    this,   \* the string replaceAll was called on
    pcFrom, pcTo,
    c,      \* the local c
    i,      \* the local i
    pc      \* "loop", "done" (returned c), or "stopped" (killed by the browser)

vars == <<this, pcFrom, pcTo, c, i, pc>>

\* The call: i = this.indexOf(pcFrom), c = this.
Init ==
    /\ this \in Strings(MaxIn)
    /\ pcFrom \in Strings(MaxPat)
    /\ pcTo \in Strings(MaxPat)
    /\ c = this
    /\ i = IndexOf(this, pcFrom)
    /\ pc = "loop"

\* The loop body that does not look for pcFrom again.
LoopNoRescan ==
    /\ pc = "loop"
    /\ i > -1
    /\ LET next == Replace(c, pcFrom, pcTo)
       IN  IF Len(next) <= MaxLen
             THEN c' = next /\ UNCHANGED <<i, pc>>
             ELSE pc' = "stopped" /\ UNCHANGED <<c, i>>
    /\ UNCHANGED <<this, pcFrom, pcTo>>

\* The loop body: the first pcFrom in c replaced, then i found again.
Loop ==
    /\ pc = "loop"
    /\ i > -1
    /\ LET next == Replace(c, pcFrom, pcTo)
       IN  IF Len(next) <= MaxLen
             THEN c' = next /\ i' = IndexOf(next, pcFrom) /\ UNCHANGED pc
             ELSE pc' = "stopped" /\ UNCHANGED <<c, i>>
    /\ UNCHANGED <<this, pcFrom, pcTo>>

\* The loop test fails: return c.
Return ==
    /\ pc = "loop"
    /\ i = -1
    /\ pc' = "done"
    /\ UNCHANGED <<this, pcFrom, pcTo, c, i>>

Next == Loop \/ Return

\* The engine runs the loop without pause.
Spec == Init /\ [][Next]_vars /\ WF_vars(Next)

-----------------------------------------------------------------------------
(* Properties. *)

\* A replacement no longer than what it replaces, and different from it,
\* never makes the loop run for ever: replaceAll returns.
ShorterReplacementReturns ==
    Len(pcTo) <= Len(pcFrom) /\ pcTo # pcFrom => <>(pc = "done")

\* replaceAll returns, whatever it is given.
AlwaysReturns == <>(pc = "done")

=============================================================================
