------------------------------ MODULE MC_ReForm ------------------------------
(***************************************************************************)
(* A small instance of ReForm for TLC: two field names, one name a server  *)
(* may report that is no field of the form.  Field a lies outside the     *)
(* formDiv; the formDiv holds field b and an unnamed input, or a read-only *)
(* b.                                                                      *)
(***************************************************************************)
EXTENDS ReForm

CONSTANTS a, b, c, none

MCNames == {a, b}
MCErrNames == {a, b, c}

MCElemA == [name |-> a, ro |-> FALSE]
MCElemB == [name |-> b, ro |-> FALSE]
MCElemBro == [name |-> b, ro |-> TRUE]
MCElemUnnamed == [name |-> none, ro |-> FALSE]

MCOuterMarkup == {MCElemA}
MCInitMarkup == {MCElemB, MCElemUnnamed}
MCMarkups == {MCInitMarkup, {MCElemBro}}

=============================================================================
