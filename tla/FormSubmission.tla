--------------------------- MODULE FormSubmission ---------------------------
(***************************************************************************)
(* What Re:Form promises about submitting a form, whatever the options and *)
(* the validations around it.  A form is "idle" (it may be submitted),     *)
(* "busy" (disabled: a submission was started) or "left" (the browser     *)
(* navigated away); `inflight` tells whether an ajax submission has been   *)
(* sent and neither answered nor lost.                                     *)
(***************************************************************************)

VARIABLES
    phase,      \* "idle", "busy" or "left"
    inflight    \* an ajax submission is in flight

vars == <<phase, inflight>>

Init == phase = "idle" /\ inflight = FALSE

\* An idle form sends one ajax submission and becomes busy.
SendAjax ==
    /\ phase = "idle"
    /\ phase' = "busy" /\ inflight' = TRUE

\* An idle form is submitted the regular way: the page is left.
SubmitRegular ==
    /\ phase = "idle"
    /\ phase' = "left" /\ UNCHANGED inflight

\* The answer to the submission in flight makes the form idle again.
Answer ==
    /\ phase = "busy" /\ inflight
    /\ phase' = "idle" /\ inflight' = FALSE

\* The submission in flight fails: the form stays as it is, or the page is
\* left.
Lose ==
    /\ inflight
    /\ inflight' = FALSE
    /\ phase' \in {phase, "left"}

\* Any other failed request may take the browser away.
Redirect ==
    /\ phase # "left"
    /\ phase' = "left" /\ UNCHANGED inflight

Next == SendAjax \/ SubmitRegular \/ Answer \/ Lose \/ Redirect

\* The safety part, and with it the browser's promise that a request in
\* flight is answered or fails.
SafeSpec == Init /\ [][Next]_vars

Spec == SafeSpec /\ WF_vars(Answer \/ Lose)

=============================================================================
