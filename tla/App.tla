-------------------------------- MODULE App ---------------------------------
(***************************************************************************)
(* The page-wide services of app.js that the widgets share: the ajaxError  *)
(* handler every failed request reaches, and the 'please wait' caption     *)
(* with its timer.  Defined as operators on values so that each widget     *)
(* module composes them into its own actions.                              *)
(***************************************************************************)

\* Statuses the ajaxError handler can see: 0 (aborted), 200 (a body that
\* did not parse), the three it redirects on, and any other.
Statuses == {0, 200, 403, 404, 500, 502}

\* $(document).ajaxError: 0 and 200 are returned from at once, 403
\* redirects to the login page, 404 and 500 to an error page, any other
\* status raises the native alert and stays on the page.
AjaxErrorLeavesPage(status) ==
    /\ status \notin {0, 200}
    /\ status \in {403, 404, 500}

\* The values the `show` argument of pleaseWait is given: true, false, and
\* `undefined` when the call has no argument.
JsTrue == "true"
JsFalse == "false"
Undefined == "undefined"

\* `!v`: false and undefined are falsy.
Falsy(v) == v \in {JsFalse, Undefined}

\* The global `pwt` (no timer, a timer set, a timer whose callback ran) and
\* whether the #wait caption is shown.
WaitStates == [pwt : {"none", "set", "fired"}, shown : BOOLEAN]

\* pleaseWait(show): for a falsy `show` (false, or undefined when called
\* with no argument) clear the timer if any and hide the caption; otherwise
\* set a 500 ms timer that shows it, unless one is set already.  clearTimer
\* runs no callback: setTimer was given none.
PleaseWait(show, w) ==
    IF Falsy(show)
      THEN [pwt |-> "none", shown |-> FALSE]
      ELSE IF w.pwt = "none" THEN [w EXCEPT !.pwt = "set"] ELSE w

\* The timer's callback: $("#wait").show().  `pwt` stays set.
WaitTimerFires(w) == [pwt |-> "fired", shown |-> TRUE]

=============================================================================
