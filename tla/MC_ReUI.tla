------------------------------- MODULE MC_ReUI -------------------------------
(* An instance of ReUI: four reCheckbox checkboxes with the combinations  *)
(* of value and unvalue attributes, three reRadio radios of one name and  *)
(* one of another; and in a cssCheckbox container a box with a value and  *)
(* no unvalue, and two radios of one name.                                 *)
EXTENDS ReUI

CONSTANT Absent_

MCBoxes == {"b1", "b2", "b3", "b4", "b5"}
MCRadios == {"r1", "r2", "r3", "r4", "r5", "r6"}
MCGroup == [r \in MCRadios |-> CASE r = "r4" -> "h"
                                 [] r \in {"r5", "r6"} -> "k"
                                 [] OTHER -> "g"]
MCPlugin == [x \in MCBoxes \cup MCRadios |->
                IF x \in {"b5", "r5", "r6"} THEN "checkbox2" ELSE "reUI"]

\* b1, b3 and b5 have value "v", b2 and b4 an empty value; b2 and b3 have
\* unvalue "u", the others none.
MCValueAttr == [b \in MCBoxes |-> IF b \in {"b1", "b3", "b5"} THEN "v" ELSE ""]
MCUnvalueAttr == [b \in MCBoxes |-> IF b \in {"b2", "b3"} THEN "u" ELSE Absent_]

\* As above, but b1 has no value attribute.
MCValueAttrAbsent == [b \in MCBoxes |-> IF b = "b1" THEN Absent_ ELSE MCValueAttr[b]]
=============================================================================
