----------------------------- MODULE MC_ReplaceAll -----------------------------
(* A small instance of ReplaceAll over the characters a and b. *)
EXTENDS ReplaceAll

MCChars == {"a", "b"}

=============================================================================
