------------------------------- MODULE ReForm -------------------------------
(***************************************************************************)
(* Re:Form (src/mod/jodd-joy/www/reform.js): the form controller with live *)
(* ajax validation, ajax validation before submit and ajax submission,     *)
(* together with the page-wide ajax error handler of app.js that decides   *)
(* what a failed request does.                                             *)
(*                                                                         *)
(* The browser runs every handler to completion on one event loop, but an  *)
(* ajaxSubmit call returns at once: its success callback runs later, as an *)
(* event of its own.  So a request in flight is a message in `pending`,    *)
(* and its response is an action that may come in any order with the      *)
(* user's clicks and blurs and with the responses to other requests.       *)
(* Field values and texts are abstracted away: a field is its name, a      *)
(* server response is the set of names it reports errors for, or the       *)
(* markup it returns.                                                      *)
(***************************************************************************)
EXTENDS Naturals, FiniteSets, App

CONSTANTS
    Names,          \* field names a form may contain
    NoName,         \* the empty name ''
    ErrNames,       \* names a server may report errors for
    OuterMarkup,    \* the form's elements outside its formDiv
    Markups,        \* the contents the formDiv may have
    InitMarkup,     \* the formDiv's content as the page was loaded
    \* the options of ReForm.prototype.defaults that change control flow
    LiveValidation, AjaxValidationOnSubmit, AjaxPost,
    ActivateOnAjaxSubmitSuccess,
    AttrReadonlyIsTrue, \* jQuery < 1.6: attr('readonly') returns true
    NetworkFails,       \* a request may fail instead of answering
    MaxInFlight         \* bound on equal requests in flight at once

\* A form element as activate() sees it: its name and its readonly flag.
Elem == [name : Names \cup {NoName}, ro : BOOLEAN]

ASSUME ConstantsAssumption ==
    /\ NoName \notin Names
    /\ OuterMarkup \subseteq Elem
    /\ Markups \subseteq SUBSET Elem
    /\ InitMarkup \in Markups
    /\ {LiveValidation, AjaxValidationOnSubmit, AjaxPost,
        ActivateOnAjaxSubmitSuccess, AttrReadonlyIsTrue,
        NetworkFails} \subseteq BOOLEAN
    /\ MaxInFlight \in Nat \ {0}
    \* no name is both outside the formDiv and inside it
    /\ \A m \in Markups : \A x \in m, y \in OuterMarkup : x.name = y.name => x.name = NoName

\* The requests ajaxSubmit sends: a validation (validateForm) and a
\* submission (_submitFormNow) carrying the usedFieldNames parameter.
ValidateReqs == [kind : {"validate"}, onlyVisited : BOOLEAN, onValid : BOOLEAN]
SubmitReqs == [kind : {"submit"}, used : SUBSET Names]
Req == ValidateReqs \cup SubmitReqs

\* A submission response: an error list (possibly empty) or markup.
SubmitResponses ==
    [kind : {"errors"}, errs : SUBSET ErrNames] \cup [kind : {"markup"}, m : Markups]

VARIABLES
    markup,     \* the elements in the formDiv now
    fields,     \* the keys of this.fields
    allFields,  \* the names this.allFields lists
    visited,    \* this.visited
    enabled,    \* this.enabled
    errored,    \* fields with errorClass
    lastErrors, \* the error names of the last error list applied
    pending,    \* pending[r]: number of requests r in flight
    page,       \* "open", or "left" once the browser navigated away
    outerHandlers \* blur handlers bound to each field outside the formDiv

vars == <<markup, fields, allFields, visited, enabled, errored,
          lastErrors, pending, page, outerHandlers>>

-----------------------------------------------------------------------------
(* Helpers. *)

\* The names activate() collects: the input, select and textarea elements
\* of the whole form (the formDiv holding m) whose readonly attribute is
\* not `true` and whose name is not empty.
Scan(m) ==
    {e.name : e \in {x \in OuterMarkup \cup m : /\ ~(AttrReadonlyIsTrue /\ x.ro)
                                             /\ x.name # NoName}}

\* responseText.startsWith('[{'): the body is a non-empty error list.  The
\* body '[]' of an empty list fails the test and is taken as markup.
IsErrorList(resp) == resp.kind = "errors" /\ resp.errs # {}

\* The elements formDiv.html(responseText) puts in the formDiv: those of
\* the markup, none for the text '[]'.
DivContent(resp) == IF resp.kind = "markup" THEN resp.m ELSE {}

\* Error marks left after formDiv.html(): only fields outside the formDiv
\* keep their elements, and so their errorClass.
OuterErrored == errored \cap Scan({})

\* The fields outside the formDiv: their elements outlive every reload.
OuterFields == Scan({})

\* More blur handlers than this on a field send more validations than may
\* be in flight, so a count above it behaves as the bound itself.
HandlerBound == MaxInFlight + 1

\* activate(): this.fields and this.allFields rebuilt from the content.
\* The loop appends to `this.allFields` inside the each() callback, where
\* `this` is the DOM element, so the controller's allFields stays ''.
\* With liveValidation each field gets one more blur handler: the fresh
\* elements of the formDiv their first, those outside one more.
Activate(m) ==
    /\ fields' = Scan(m)
    /\ allFields' = {}
    /\ outerHandlers' = IF LiveValidation /\ outerHandlers < HandlerBound
                          THEN outerHandlers + 1 ELSE outerHandlers

\* removeAllValidationErrors(): errorClass taken off every field of
\* this.fields; an element that is no field keeps it.
RemoveAllValidationErrors == errored \ fields

\* activateErrors() after removeAllValidationErrors(): the fields it marks
\* with errorClass; an error is skipped when its field is not visited
\* (only if onlyVisited) or is not a field of the form.
ActivateErrorsNoFieldCheck(errs, onlyVisited) ==
    {n \in errs : onlyVisited => n \in visited}
ActivateErrors(errs, onlyVisited) ==
    {n \in errs \cap fields : onlyVisited => n \in visited}

\* form.ajaxSubmit(options): one more request r in flight.
AjaxSubmit(p, r) ==
    /\ p[r] < MaxInFlight
    /\ pending' = [p EXCEPT ![r] = @ + 1]

\* The validation request of validateForm(onlyVisited, onValidCallback).
CheckReq(onValid) == [kind |-> "validate", onlyVisited |-> TRUE, onValid |-> onValid]

SubmitReq(used) == [kind |-> "submit", used |-> used]

\* visitAllFields(): every field of the form is visited.
VisitAllFields == fields

\* disableForm() and enableForm(): this.enabled, with the disabled
\* attribute of the submit elements following it.
DisableForm == enabled' = FALSE
EnableForm == enabled' = TRUE

-----------------------------------------------------------------------------
(* Operations.  `p` is the pending bag after the current response left it. *)

\* _submitFormNow(): disableForm(), then either a regular submit (the page
\* navigates) or, for ajaxPost, visited reset and one ajax submission.
SubmitNow(p) ==
    /\ DisableForm
    /\ IF AjaxPost
         THEN /\ visited' = {}
              /\ AjaxSubmit(p, SubmitReq(allFields))
              /\ page' = page
         ELSE /\ page' = "left"
              /\ pending' = p
              /\ visited' = visited

Init ==
    /\ markup = InitMarkup
    /\ fields = Scan(InitMarkup)
    /\ allFields = {}
    /\ visited = {}
    /\ enabled = TRUE
    /\ errored = {}
    /\ lastErrors = {}
    /\ pending = [r \in Req |-> 0]
    /\ page = "open"
    /\ outerHandlers = 1

\* submitForm() without its `enabled === false` early return.
SubmitFormNoGuard ==
    /\ page = "open"
    /\ IF AjaxValidationOnSubmit
         THEN /\ visited' = VisitAllFields
              /\ AjaxSubmit(pending, CheckReq(TRUE))
              /\ UNCHANGED <<enabled, page>>
         ELSE SubmitNow(pending)
    /\ UNCHANGED <<markup, fields, allFields, errored, lastErrors, outerHandlers>>

\* submitForm() without visitAllFields() before the validation.
SubmitFormNoVisitAll ==
    /\ page = "open"
    /\ enabled
    /\ IF AjaxValidationOnSubmit
         THEN /\ AjaxSubmit(pending, CheckReq(TRUE))
              /\ UNCHANGED <<enabled, page, visited>>
         ELSE SubmitNow(pending)
    /\ UNCHANGED <<markup, fields, allFields, errored, lastErrors, outerHandlers>>

\* A click on a submit button or link: submitForm().  With
\* ajaxValidationOnSubmit it marks every field visited and sends a
\* validation whose callback submits; otherwise it submits at once.
SubmitForm ==
    /\ page = "open"
    /\ enabled
    /\ IF AjaxValidationOnSubmit
         THEN /\ visited' = VisitAllFields
              /\ AjaxSubmit(pending, CheckReq(TRUE))
              /\ UNCHANGED <<enabled, page>>
         ELSE SubmitNow(pending)
    /\ UNCHANGED <<markup, fields, allFields, errored, lastErrors, outerHandlers>>

\* The blur handlers activate() attaches to each field when liveValidation
\* is on, all run by one blur: each makes the field visited and sends a
\* validation.  A field outside the formDiv has one per activate() so far.
Blur(n) ==
    /\ page = "open"
    /\ LiveValidation
    /\ n \in fields
    /\ LET k == IF n \in OuterFields THEN outerHandlers ELSE 1
       IN  /\ pending[CheckReq(FALSE)] + k <= MaxInFlight
           /\ pending' = [pending EXCEPT ![CheckReq(FALSE)] = @ + k]
    /\ visited' = visited \cup {n}
    /\ UNCHANGED <<markup, fields, allFields, enabled, errored, lastErrors, page,
                   outerHandlers>>

\* The success callback of validateForm(): the errors are applied; if none
\* was applied and there is an onValid callback, the form is submitted.
ValidationResponse(r, errs) ==
    /\ page = "open"
    /\ r \in ValidateReqs
    /\ pending[r] > 0
    /\ LET shown == ActivateErrors(errs, r.onlyVisited)
           rest  == [pending EXCEPT ![r] = @ - 1]
       IN /\ errored' = RemoveAllValidationErrors \cup shown
          /\ lastErrors' = errs
          /\ IF shown = {} /\ r.onValid
               THEN SubmitNow(rest)
               ELSE /\ pending' = rest
                    /\ UNCHANGED <<enabled, visited, page>>
    /\ UNCHANGED <<markup, fields, allFields, outerHandlers>>

\* The success callback of the ajax submission without enableForm() on
\* the error-list branch.
SubmitResponseNoEnableOnErrors(r, resp) ==
    /\ page = "open"
    /\ r \in SubmitReqs
    /\ pending[r] > 0
    /\ pending' = [pending EXCEPT ![r] = @ - 1]
    /\ IF IsErrorList(resp)
         THEN /\ visited' = VisitAllFields
              /\ errored' = RemoveAllValidationErrors \cup ActivateErrors(resp.errs, FALSE)
              /\ lastErrors' = resp.errs
              /\ UNCHANGED <<markup, fields, allFields, enabled, outerHandlers>>
         ELSE /\ IF ActivateOnAjaxSubmitSuccess
                   THEN /\ markup' = DivContent(resp)
                        /\ Activate(DivContent(resp))
                        /\ errored' = OuterErrored
                   ELSE UNCHANGED <<markup, fields, allFields, errored, outerHandlers>>
              /\ EnableForm
              /\ UNCHANGED <<visited, lastErrors>>
    /\ UNCHANGED page

\* The success callback of the ajax submission.  An error list marks all
\* fields visited and shows every error; markup replaces the form's div and
\* the form is activated again (activateOnAjaxSubmitSuccess), which gives
\* the formDiv fresh elements without errorClass.  Either way enableForm() follows.
SubmitResponse(r, resp) ==
    /\ page = "open"
    /\ r \in SubmitReqs
    /\ pending[r] > 0
    /\ pending' = [pending EXCEPT ![r] = @ - 1]
    /\ IF IsErrorList(resp)
         THEN /\ visited' = VisitAllFields
              /\ errored' = RemoveAllValidationErrors \cup ActivateErrors(resp.errs, FALSE)
              /\ lastErrors' = resp.errs
              /\ UNCHANGED <<markup, fields, allFields, outerHandlers>>
         ELSE /\ IF ActivateOnAjaxSubmitSuccess
                   THEN /\ markup' = DivContent(resp)
                        /\ Activate(DivContent(resp))
                        /\ errored' = OuterErrored
                   ELSE UNCHANGED <<markup, fields, allFields, errored, outerHandlers>>
              /\ UNCHANGED <<visited, lastErrors>>
    /\ EnableForm
    /\ UNCHANGED page

\* A request that fails: no success callback runs; the ajaxError handler
\* of app.js redirects, alerts or ignores it.
Failure(r, status) ==
    /\ NetworkFails
    /\ page = "open"
    /\ pending[r] > 0
    /\ pending' = [pending EXCEPT ![r] = @ - 1]
    /\ page' = IF AjaxErrorLeavesPage(status) THEN "left" ELSE page
    /\ UNCHANGED <<markup, fields, allFields, visited, enabled, errored, lastErrors,
                   outerHandlers>>

\* What the browser does with request r in flight.
Respond(r) ==
    \/ \E errs \in SUBSET ErrNames : ValidationResponse(r, errs)
    \/ \E resp \in SubmitResponses : SubmitResponse(r, resp)
    \/ \E status \in Statuses : Failure(r, status)

Next ==
    \/ SubmitForm
    \/ \E n \in Names : Blur(n)
    \/ \E r \in Req : Respond(r)

\* The browser eventually completes every request it sent; the user's
\* clicks and blurs are not fair.
Fairness == \A r \in Req : WF_vars(Respond(r))

Spec == Init /\ [][Next]_vars /\ Fairness

-----------------------------------------------------------------------------
(* Properties. *)

\* Types; error marks are on fields of the form only (activateErrors skips
\* an error whose name is not a field).
TypeOK ==
    /\ markup \in SUBSET Elem
    /\ fields \subseteq Names
    /\ allFields \subseteq Names
    /\ visited \subseteq Names
    /\ enabled \in BOOLEAN
    /\ errored \subseteq fields
    /\ lastErrors \subseteq ErrNames
    /\ pending \in [Req -> 0..MaxInFlight]
    /\ page \in {"open", "left"}
    /\ outerHandlers \in 1..HandlerBound

\* Number of requests in flight among the requests in R.
InFlight(R) == {r \in R : pending[r] > 0}

\* Spec 3: disableForm() keeps a second submission from starting until the
\* first one's response re-enables the form: at most one ajax submission
\* is in flight, never two of the same kind, and never while enabled.
SubmissionExclusive ==
    /\ \A r, s \in InFlight(SubmitReqs) : r = s
    /\ \A r \in SubmitReqs : pending[r] <= 1
    /\ InFlight(SubmitReqs) # {} => ~enabled

\* A step that starts a submission: an ajax submission sent, or the regular
\* submit of _submitFormNow navigating away.
SubmissionStarts ==
    \/ \E r \in SubmitReqs : pending'[r] > pending[r]
    \/ /\ ~AjaxPost
       /\ page = "open" /\ page' = "left"
       /\ enabled /\ ~enabled'

\* With ajaxValidationOnSubmit, a submission starts only from a validation
\* response that reported no error on a field of the form: visitAllFields()
\* before the validation makes activateErrors() apply every such error.
NoSubmitOverFieldErrors ==
    [][AjaxValidationOnSubmit /\ SubmissionStarts
         => lastErrors' \cap fields = {}]_vars

\* Spec 8: after a submission the form is enabled again, unless the browser
\* has navigated away.
EventuallyReenabled ==
    (~enabled /\ page = "open") ~> (enabled \/ page = "left")

\* The state of the submission protocol that FormSubmission describes: the
\* page left, the form disabled by disableForm(), or open to a submit; and
\* whether an ajax submission is in flight.
FormPhase ==
    IF page = "left" THEN "left" ELSE IF enabled THEN "idle" ELSE "busy"

SubmissionInFlight == InFlight(SubmitReqs) # {}

Submission == INSTANCE FormSubmission WITH phase <- FormPhase, inflight <- SubmissionInFlight

\* Spec 3 and 8 as one promise: submitForm() and its callbacks implement
\* FormSubmission.  A submit of an idle form disables it and sends exactly
\* one submission; its answer, and nothing else, enables the form again;
\* a failure leaves it disabled or navigates away; and every submission
\* in flight is eventually answered or lost.
ImplementsFormSubmission == Submission!Spec

=============================================================================
