------------------------------ MODULE MC_RePager ------------------------------
(***************************************************************************)
(* A small instance of RePager: two sortable columns, two pages, the page  *)
(* loaded sorted ascending by its first column.                            *)
(***************************************************************************)
EXTENDS RePager

MCInitClasses == [i \in 1..2 |-> IF i = 1 THEN "asc" ELSE "none"]

=============================================================================
