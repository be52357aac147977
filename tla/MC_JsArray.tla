------------------------------ MODULE MC_JsArray ------------------------------
(* A small instance of JsArray: two items, arrays of up to three elements. *)
EXTENDS JsArray

CONSTANTS v1, v2

MCValues == {v1, v2}

=============================================================================
