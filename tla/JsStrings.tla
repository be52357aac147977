------------------------------ MODULE JsStrings ------------------------------
(***************************************************************************)
(* Strings as the scripts use them.  A string is a sequence of characters *)
(* (index i of the code is position i + 1).  The first part gives the     *)
(* language's own String methods the scripts call; the second the String  *)
(* methods jsext.js (src/mod/jodd-joy/www/jsext.js) adds.                 *)
(***************************************************************************)
EXTENDS Integers, Sequences

\* s.substring(a, b) for a <= b: the characters from a up to b, each
\* clamped into 0..length.
Substring(s, a, b) ==
    LET Clamp(k) == IF k < 0 THEN 0 ELSE IF k > Len(s) THEN Len(s) ELSE k
    IN  SubSeq(s, Clamp(a) + 1, Clamp(b))

\* s.substr(start, n): n characters from start (negative counts from the
\* end); none for a negative n.
Substr(s, start, n) ==
    LET b == IF start < 0 THEN IF Len(s) + start < 0 THEN 0 ELSE Len(s) + start
             ELSE start
    IN  IF n <= 0 THEN <<>> ELSE Substring(s, b, b + n)

\* p occurs in s at index i.
OccursAt(s, p, i) == i + Len(p) <= Len(s) /\ SubSeq(s, i + 1, i + Len(p)) = p

\* s.indexOf(p): the first index p occurs at, -1 if none (0 for '').
IndexOf(s, p) ==
    IF \E i \in 0..Len(s) : OccursAt(s, p, i)
      THEN CHOOSE i \in 0..Len(s) : OccursAt(s, p, i) /\ \A j \in 0..(i - 1) : ~OccursAt(s, p, j)
      ELSE -1

\* s.replace(p, r) for a string p: its first occurrence replaced by r.
Replace(s, p, r) ==
    LET i == IndexOf(s, p)
    IN  IF i = -1 THEN s ELSE SubSeq(s, 1, i) \o r \o SubSeq(s, i + Len(p) + 1, Len(s))

-----------------------------------------------------------------------------
(* jsext.js *)

\* String.prototype.startsWith(A): this.substr(0, A.length) == A.
StartsWith(s, A) == Substr(s, 0, Len(A)) = A

\* String.prototype.endsWith(A) (B falsy): false when A is longer;
\* otherwise A is empty or the last A.length characters equal it.
EndsWith(s, A) ==
    /\ Len(A) <= Len(s)
    /\ Len(A) = 0 \/ Substr(s, Len(s) - Len(A), Len(A)) = A

=============================================================================
