---------------------------- MODULE ReForm_proofs ----------------------------
(***************************************************************************)
(* Proofs about ReForm for every value of its constants.                   *)
(***************************************************************************)
EXTENDS ReForm, TLAPS

USE ConstantsAssumption

\* The names activate() collects are field names, and collecting more
\* elements collects more names.
LEMMA ScanType ==
    ASSUME NEW m \in SUBSET Elem
    PROVE  Scan(m) \subseteq Names
BY DEF Scan, Elem

LEMMA ScanMonotone ==
    ASSUME NEW m1, NEW m2, m1 \subseteq m2
    PROVE  Scan(m1) \subseteq Scan(m2)
BY DEF Scan

\* The formDiv content a submission response leaves is a set of elements.
LEMMA DivContentType ==
    ASSUME NEW resp \in SubmitResponses
    PROVE  DivContent(resp) \in SUBSET Elem
BY DEF DivContent, SubmitResponses

\* The requests the controller sends are requests of the model.
LEMMA ReqType ==
    /\ \A cb \in BOOLEAN : CheckReq(cb) \in ValidateReqs
    /\ \A u \in SUBSET Names : SubmitReq(u) \in SubmitReqs
BY DEF CheckReq, SubmitReq, ValidateReqs, SubmitReqs

\* Sending a request keeps the bag of requests in flight within its bound.
LEMMA AjaxSubmitType ==
    ASSUME NEW p \in [Req -> 0..MaxInFlight], NEW r \in Req, AjaxSubmit(p, r)
    PROVE  pending' \in [Req -> 0..MaxInFlight]
BY DEF AjaxSubmit

\* The validation a blur sends, as one name: the SMT backend does not take
\* the operator application CheckReq(FALSE) into arithmetic.
BlurReq == CheckReq(FALSE)

LEMMA BlurReqType == BlurReq \in Req
BY ReqType DEF Req, BlurReq

\* A blur sends one validation for each blur handler of its field, and
\* never more than may be in flight.
LEMMA BlurSends ==
  ASSUME TypeOK, NEW n \in Names, Blur(n)
  PROVE  \E k \in 1..MaxInFlight :
            /\ pending[CheckReq(FALSE)] + k <= MaxInFlight
            /\ pending' = [pending EXCEPT ![CheckReq(FALSE)] = @ + k]
  <1> DEFINE k == IF n \in OuterFields THEN outerHandlers ELSE 1
  <1>1. k \in Nat /\ k >= 1
    BY DEF TypeOK, HandlerBound
  <1>2. /\ pending[CheckReq(FALSE)] + k <= MaxInFlight
        /\ pending' = [pending EXCEPT ![CheckReq(FALSE)] = @ + k]
    BY DEF Blur
  <1>3. pending[BlurReq] + k <= MaxInFlight
    BY <1>2 DEF BlurReq
  <1>4. pending[BlurReq] \in 0..MaxInFlight
    BY BlurReqType DEF TypeOK
  <1>5. k \in 1..MaxInFlight
    BY <1>1, <1>3, <1>4
  <1>6. QED BY <1>2, <1>5

-----------------------------------------------------------------------------
(* Type correctness. *)

\* The initial state is well typed, and every step keeps it so.
LEMMA TypeInit == Init => TypeOK
BY ScanType DEF Init, TypeOK, Req, HandlerBound

LEMMA TypeStep == TypeOK /\ [Next]_vars => TypeOK'
  <2> SUFFICES ASSUME TypeOK, [Next]_vars PROVE TypeOK'
    OBVIOUS
  \* Only a submission response re-activates the form and binds handlers.
  <2>0. outerHandlers' \in 1..HandlerBound
    <3>1. CASE \E r \in Req, resp \in SubmitResponses : SubmitResponse(r, resp)
      <4>1. \/ outerHandlers' = outerHandlers
            \/ outerHandlers < HandlerBound /\ outerHandlers' = outerHandlers + 1
        BY <3>1 DEF SubmitResponse, Activate
      <4>2. QED BY <4>1 DEF TypeOK, HandlerBound
    <3>2. CASE ~\E r \in Req, resp \in SubmitResponses : SubmitResponse(r, resp)
      <4>1. UNCHANGED outerHandlers
        BY <3>2 DEF Next, Respond, SubmitForm, Blur, ValidationResponse, Failure, vars
      <4>2. QED BY <4>1 DEF TypeOK
    <3>3. QED BY <3>1, <3>2
  <2>1. ASSUME NEW p \in [Req -> 0..MaxInFlight], SubmitNow(p)
        PROVE  /\ pending' \in [Req -> 0..MaxInFlight]
               /\ visited' \subseteq Names
               /\ enabled' \in BOOLEAN
               /\ page' \in {"open", "left"}
    <3>1. CASE AjaxPost
      <4>1. SubmitReq(allFields) \in Req
        BY ReqType DEF TypeOK, Req
      <4>2. AjaxSubmit(p, SubmitReq(allFields)) /\ visited' = {} /\ page' = page
        BY <2>1, <3>1 DEF SubmitNow
      <4>3. QED BY <2>1, <4>1, <4>2, AjaxSubmitType DEF SubmitNow, DisableForm, TypeOK
    <3>2. CASE ~AjaxPost
      BY <2>1, <3>2 DEF SubmitNow, DisableForm, TypeOK
    <3>3. QED BY <3>1, <3>2
  <2>2. CASE SubmitForm
    <3>1. CASE AjaxValidationOnSubmit
      <4>1. CheckReq(TRUE) \in Req
        BY ReqType DEF Req
      <4>2. /\ visited' = fields
            /\ AjaxSubmit(pending, CheckReq(TRUE))
            /\ UNCHANGED <<enabled, page, markup, fields, allFields, errored, lastErrors>>
        BY <2>2, <3>1 DEF SubmitForm, VisitAllFields
      <4>3. QED BY <2>0, <4>1, <4>2, AjaxSubmitType DEF TypeOK
    <3>2. CASE ~AjaxValidationOnSubmit
      <4>1. SubmitNow(pending) /\ UNCHANGED <<markup, fields, allFields, errored, lastErrors>>
        BY <2>2, <3>2 DEF SubmitForm, VisitAllFields
      <4>2. QED BY <2>0, <4>1, <2>1 DEF TypeOK
    <3>3. QED BY <3>1, <3>2
  <2>3. ASSUME NEW n \in Names, Blur(n) PROVE TypeOK'
    <3>1. CheckReq(FALSE) \in Req
      BY ReqType DEF Req
    <3>2. pending' \in [Req -> 0..MaxInFlight]
      <4>1. PICK k \in 1..MaxInFlight :
                /\ pending[CheckReq(FALSE)] + k <= MaxInFlight
                /\ pending' = [pending EXCEPT ![CheckReq(FALSE)] = @ + k]
        BY <2>3, BlurSends
      <4>2. pending[BlurReq] \in 0..MaxInFlight
        BY BlurReqType DEF TypeOK
      <4>6. pending[BlurReq] + k <= MaxInFlight
        BY <4>1 DEF BlurReq
      <4>3. pending[BlurReq] + k \in 0..MaxInFlight
        BY <4>2, <4>6
      <4>4. pending' = [pending EXCEPT ![BlurReq] = @ + k]
        BY <4>1 DEF BlurReq
      <4>5. QED BY BlurReqType, <4>3, <4>4 DEF TypeOK
    <3>4. /\ visited' = visited \cup {n}
          /\ UNCHANGED <<markup, fields, allFields, enabled, errored, lastErrors, page>>
      BY <2>3 DEF Blur
    <3>3. QED BY <2>0, <3>1, <3>2, <3>4 DEF TypeOK
  <2>4. ASSUME NEW r \in Req, NEW errs \in SUBSET ErrNames,
               ValidationResponse(r, errs)
        PROVE  TypeOK'
    <3> DEFINE rest == [pending EXCEPT ![r] = @ - 1]
    <3>1. rest \in [Req -> 0..MaxInFlight]
      BY <2>4 DEF ValidationResponse, TypeOK
    <3>2. /\ errored' \subseteq fields'
          /\ lastErrors' \subseteq ErrNames
          /\ UNCHANGED <<markup, fields, allFields>>
      BY <2>4 DEF ValidationResponse, ActivateErrors, RemoveAllValidationErrors, TypeOK
    <3>3. CASE ActivateErrors(errs, r.onlyVisited) = {} /\ r.onValid
      <4>1. SubmitNow(rest)
        BY <2>4, <3>3 DEF ValidationResponse
      <4>2. QED BY <2>0, <4>1, <3>1, <3>2, <2>1 DEF TypeOK
    <3>4. CASE ~(ActivateErrors(errs, r.onlyVisited) = {} /\ r.onValid)
      <4>1. pending' = rest /\ UNCHANGED <<enabled, visited, page>>
        BY <2>4, <3>4 DEF ValidationResponse
      <4>2. QED BY <2>0, <4>1, <3>1, <3>2 DEF TypeOK
    <3>5. QED BY <3>3, <3>4
  <2>5. ASSUME NEW r \in Req, NEW resp \in SubmitResponses,
               SubmitResponse(r, resp)
        PROVE  TypeOK'
    <3>1. /\ pending' \in [Req -> 0..MaxInFlight]
          /\ enabled' = TRUE
          /\ page' = page
      BY <2>5 DEF SubmitResponse, VisitAllFields, EnableForm, TypeOK
    <3>2. CASE IsErrorList(resp)
      <4>1. resp.errs \subseteq ErrNames
        BY <3>2 DEF IsErrorList, SubmitResponses
      <4>2. /\ visited' = fields
            /\ errored' = RemoveAllValidationErrors \cup ActivateErrors(resp.errs, FALSE)
            /\ lastErrors' = resp.errs
            /\ UNCHANGED <<markup, fields, allFields>>
        BY <2>5, <3>2 DEF SubmitResponse, VisitAllFields, EnableForm
      <4>3. QED BY <2>0, <3>1, <4>1, <4>2 DEF ActivateErrors, RemoveAllValidationErrors, TypeOK
    <3>3. CASE ~IsErrorList(resp) /\ ActivateOnAjaxSubmitSuccess
      <4>1. DivContent(resp) \in SUBSET Elem
        BY DivContentType
      <4>2. Scan(DivContent(resp)) \subseteq Names
        BY <4>1, ScanType
      <4>3. OuterErrored \subseteq Scan(DivContent(resp))
        BY ScanMonotone DEF OuterErrored
      <4>4. /\ markup' = DivContent(resp)
            /\ fields' = Scan(DivContent(resp))
            /\ allFields' = {}
            /\ errored' = OuterErrored
            /\ UNCHANGED <<visited, lastErrors>>
        BY <2>5, <3>3 DEF SubmitResponse, VisitAllFields, EnableForm, Activate
      <4>5. QED
        BY <2>0, <3>1, <4>1, <4>2, <4>3, <4>4 DEF TypeOK
    <3>4. CASE ~IsErrorList(resp) /\ ~ActivateOnAjaxSubmitSuccess
      <4>1. UNCHANGED <<markup, fields, allFields, errored, visited, lastErrors>>
        BY <2>5, <3>4 DEF SubmitResponse, VisitAllFields, EnableForm
      <4>2. QED BY <2>0, <3>1, <4>1 DEF TypeOK
    <3>5. QED BY <3>2, <3>3, <3>4
  <2>6. ASSUME NEW r \in Req, NEW status \in Statuses, Failure(r, status)
        PROVE  TypeOK'
    BY <2>0, <2>6 DEF Failure, TypeOK
  <2>7. CASE UNCHANGED vars
    BY <2>7 DEF vars, TypeOK
  <2>8. QED
    BY <2>2, <2>3, <2>4, <2>5, <2>6, <2>7 DEF Next, Respond

\* Every state of the controller is well typed, and error marks are only
\* ever on fields of the form.
THEOREM TypeCorrect == Spec => []TypeOK
BY TypeInit, TypeStep, PTL DEF Spec

-----------------------------------------------------------------------------
(* Validation before a regular submit.                                     *)
(*                                                                         *)
(* With ajaxValidationOnSubmit and a regular submit, submitForm() marks    *)
(* every field visited before it sends the validation, and nothing can    *)
(* change the fields or unmark a field before its answer comes: only an    *)
(* ajax submission's response re-activates the form, and only an ajax      *)
(* submission clears visited.  So the answer's onlyVisited filter keeps    *)
(* every error on a field, and the callback submits only over none.        *)

\* The strengthening: no ajax submission is ever sent; every validation
\* in flight is scoped to visited fields; one whose callback submits was
\* sent with every field visited, and still is.
ValidatedSubmitInv ==
    /\ TypeOK
    /\ \A r \in SubmitReqs : pending[r] = 0
    /\ \A r \in ValidateReqs : pending[r] > 0 => r.onlyVisited
    /\ \A r \in ValidateReqs :
          pending[r] > 0 /\ r.onValid /\ AjaxValidationOnSubmit
             => fields \subseteq visited

\* A validation request is never a submission request.
LEMMA CheckReqNotSubmit ==
    \A cb \in BOOLEAN, r \in SubmitReqs : CheckReq(cb) # r
BY DEF CheckReq, SubmitReqs

LEMMA ValidatedSubmitInit == Init => ValidatedSubmitInv
BY TypeInit DEF Init, ValidatedSubmitInv, Req

LEMMA ValidatedSubmitStep ==
    ASSUME ~AjaxPost
    PROVE  ValidatedSubmitInv /\ [Next]_vars => ValidatedSubmitInv'
<1> SUFFICES ASSUME ValidatedSubmitInv, [Next]_vars PROVE ValidatedSubmitInv'
  OBVIOUS
<1>1. TypeOK'
  BY TypeStep DEF ValidatedSubmitInv
<1> DEFINE Rest(q, r) == [q EXCEPT ![r] = @ - 1]
\* A step that only takes requests out of the bag, and leaves the fields
\* and the visited fields alone, keeps the invariant.
<1>2. ASSUME NEW r \in Req, pending[r] > 0, pending' = Rest(pending, r),
             fields' = fields, visited \subseteq visited'
      PROVE  ValidatedSubmitInv'
  BY <1>1, <1>2 DEF ValidatedSubmitInv, TypeOK
<1>3. CASE SubmitForm
  <2>1. CASE AjaxValidationOnSubmit
    <3>1. /\ visited' = fields
          /\ pending' = [pending EXCEPT ![CheckReq(TRUE)] = @ + 1]
          /\ fields' = fields
      BY <1>3, <2>1 DEF SubmitForm, VisitAllFields, AjaxSubmit
    <3>2. CheckReq(TRUE) \in ValidateReqs /\ CheckReq(TRUE).onlyVisited
      BY ReqType DEF CheckReq
    <3>3. QED
      BY <1>1, <3>1, <3>2, CheckReqNotSubmit DEF ValidatedSubmitInv, TypeOK, Req
  <2>2. CASE ~AjaxValidationOnSubmit
    <3>1. pending' = pending /\ visited' = visited /\ fields' = fields
      BY <1>3, <2>2 DEF SubmitForm, VisitAllFields, SubmitNow
    <3>2. QED BY <1>1, <3>1 DEF ValidatedSubmitInv
  <2>3. QED BY <2>1, <2>2
<1>4. ASSUME NEW n \in Names, Blur(n) PROVE ValidatedSubmitInv'
  <2>0. PICK k \in 1..MaxInFlight : pending' = [pending EXCEPT ![CheckReq(FALSE)] = @ + k]
    BY <1>4, BlurSends DEF ValidatedSubmitInv
  <2>1. /\ visited' = visited \cup {n}
        /\ pending' = [pending EXCEPT ![CheckReq(FALSE)] = @ + k]
        /\ fields' = fields
    BY <1>4, <2>0 DEF Blur
  <2>2. CheckReq(FALSE) \in ValidateReqs /\ CheckReq(FALSE).onlyVisited
        /\ ~CheckReq(FALSE).onValid
    BY ReqType DEF CheckReq
  <2>3. QED
    BY <1>1, <2>1, <2>2, CheckReqNotSubmit DEF ValidatedSubmitInv, TypeOK, Req
<1>5. ASSUME NEW r \in Req, NEW errs \in SUBSET ErrNames,
             ValidationResponse(r, errs)
      PROVE  ValidatedSubmitInv'
  <2>1. pending[r] > 0 /\ pending' = Rest(pending, r) /\ fields' = fields
        /\ visited' = visited
    BY <1>5 DEF ValidationResponse, SubmitNow
  <2>2. QED BY <2>1, <1>2
<1>6. ASSUME NEW r \in Req, NEW resp \in SubmitResponses,
             SubmitResponse(r, resp)
      PROVE  ValidatedSubmitInv'
  BY <1>6 DEF SubmitResponse, VisitAllFields, EnableForm, ValidatedSubmitInv
<1>7. ASSUME NEW r \in Req, NEW status \in Statuses, Failure(r, status)
      PROVE  ValidatedSubmitInv'
  <2>1. pending[r] > 0 /\ pending' = Rest(pending, r) /\ fields' = fields
        /\ visited' = visited
    BY <1>7 DEF Failure
  <2>2. QED BY <2>1, <1>2
<1>8. CASE UNCHANGED vars
  BY <1>1, <1>8 DEF vars, ValidatedSubmitInv
<1>9. QED
  BY <1>3, <1>4, <1>5, <1>6, <1>7, <1>8 DEF Next, Respond

\* Every step of the invariant's states satisfies the action property.
LEMMA ValidatedSubmitAction ==
    ASSUME ~AjaxPost
    PROVE  ValidatedSubmitInv /\ [Next]_vars
             => [AjaxValidationOnSubmit /\ SubmissionStarts
                   => lastErrors' \cap fields = {}]_vars
<1> SUFFICES ASSUME ValidatedSubmitInv, [Next]_vars,
                    AjaxValidationOnSubmit, SubmissionStarts
             PROVE  lastErrors' \cap fields = {}
  OBVIOUS
<1>1. ValidatedSubmitInv'
  BY ValidatedSubmitStep
<1>2. ~\E r \in SubmitReqs : pending'[r] > pending[r]
  BY <1>1 DEF ValidatedSubmitInv
<1>3. page = "open" /\ page' = "left" /\ enabled /\ ~enabled'
  BY <1>2 DEF SubmissionStarts
<1>4. CASE SubmitForm
  BY <1>3, <1>4 DEF SubmitForm, SubmitNow, DisableForm
<1>5. ASSUME NEW n \in Names, Blur(n) PROVE FALSE
  BY <1>3, <1>5 DEF Blur
<1>6. ASSUME NEW r \in Req, NEW errs \in SUBSET ErrNames,
             ValidationResponse(r, errs)
      PROVE  lastErrors' \cap fields = {}
  <2> DEFINE shown == ActivateErrors(errs, r.onlyVisited)
  <2>1. shown = {} /\ r.onValid /\ lastErrors' = errs
    BY <1>3, <1>6 DEF ValidationResponse
  <2>2. r \in ValidateReqs /\ pending[r] > 0
    BY <1>6 DEF ValidationResponse
  <2>3. r.onlyVisited /\ fields \subseteq visited
    BY <2>1, <2>2 DEF ValidatedSubmitInv
  <2>4. QED
    BY <2>1, <2>3 DEF ActivateErrors
<1>7. ASSUME NEW r \in Req, NEW resp \in SubmitResponses,
             SubmitResponse(r, resp)
      PROVE  FALSE
  BY <1>7 DEF SubmitResponse, VisitAllFields, EnableForm, ValidatedSubmitInv
<1>8. ASSUME NEW r \in Req, NEW status \in Statuses, Failure(r, status)
      PROVE  FALSE
  BY <1>3, <1>8 DEF Failure
<1>9. CASE UNCHANGED vars
  BY <1>3, <1>9 DEF vars
<1>10. QED
  BY <1>4, <1>5, <1>6, <1>7, <1>8, <1>9 DEF Next, Respond

\* With ajax validation before a regular submit, a submission starts only
\* from a validation answer that reported no error on a field of the form
\* (the run validate_post checks this on a small instance).
THEOREM ValidatedSubmit ==
    ASSUME ~AjaxPost
    PROVE  Spec => NoSubmitOverFieldErrors
BY ValidatedSubmitInit, ValidatedSubmitStep, ValidatedSubmitAction, PTL
   DEF Spec, NoSubmitOverFieldErrors

-----------------------------------------------------------------------------
(* One submission at a time.                                               *)
(*                                                                         *)
(* Unless an ajax submission is started from a validation callback        *)
(* (ajaxPost together with ajaxValidationOnSubmit, the double submission  *)
(* MC_ReForm_double_submit.cfg shows), the only step that sends an ajax    *)
(* submission is submitForm() of an enabled form, and it disables the     *)
(* form; only the submission's own response enables it again.  So while  *)
(* the form is enabled no submission is in flight, and submitForm() never *)
(* sends a second one.                                                     *)

\* The strengthening: SubmissionExclusive, and no validation whose
\* callback submits is in flight when the submission would be an ajax one.
ExclusiveInv ==
    /\ TypeOK
    /\ SubmissionExclusive
    /\ AjaxPost => \A r \in ValidateReqs : pending[r] > 0 => ~r.onValid

LEMMA ExclusiveInit == Init => ExclusiveInv
BY TypeInit DEF Init, ExclusiveInv, SubmissionExclusive, InFlight, Req

\* A step that takes request r out of the bag, sends nothing, and leaves
\* the form enabled only if it was, keeps the invariant.
LEMMA ExclusiveRemove ==
    ASSUME ExclusiveInv, TypeOK', NEW r \in Req, pending[r] > 0,
           pending' = [pending EXCEPT ![r] = @ - 1], enabled' => enabled
    PROVE  ExclusiveInv'
BY DEF ExclusiveInv, SubmissionExclusive, InFlight, TypeOK

LEMMA ExclusiveStep ==
    ASSUME ~(AjaxPost /\ AjaxValidationOnSubmit)
    PROVE  ExclusiveInv /\ [Next]_vars => ExclusiveInv'
<1> SUFFICES ASSUME ExclusiveInv, [Next]_vars PROVE ExclusiveInv'
  OBVIOUS
<1>1. TypeOK'
  BY TypeStep DEF ExclusiveInv
<1>2. CASE SubmitForm
  <2>1. CASE AjaxValidationOnSubmit
    <3>1. /\ pending' = [pending EXCEPT ![CheckReq(TRUE)] = @ + 1]
          /\ UNCHANGED enabled
          /\ ~AjaxPost
      BY <1>2, <2>1 DEF SubmitForm, AjaxSubmit
    <3>2. CheckReq(TRUE) \in ValidateReqs
      BY ReqType
    <3>3. QED
      BY <1>1, <3>1, <3>2, CheckReqNotSubmit
      DEF ExclusiveInv, SubmissionExclusive, InFlight, TypeOK, Req
  <2>2. CASE ~AjaxValidationOnSubmit /\ AjaxPost
    <3> DEFINE sr == SubmitReq(allFields)
    <3>1. /\ enabled /\ ~enabled'
          /\ pending' = [pending EXCEPT ![sr] = @ + 1]
      BY <1>2, <2>2 DEF SubmitForm, SubmitNow, DisableForm, AjaxSubmit
    <3>2. sr \in SubmitReqs
      BY ReqType DEF TypeOK, ExclusiveInv
    <3>3. \A s \in SubmitReqs : pending[s] = 0
      BY <3>1 DEF ExclusiveInv, SubmissionExclusive, InFlight, TypeOK, Req
    <3>4. \A s \in SubmitReqs : pending'[s] > 0 => s = sr /\ pending'[s] = 1
      BY <3>1, <3>2, <3>3 DEF ExclusiveInv, TypeOK, Req
    <3>5. \A v \in ValidateReqs : pending'[v] = pending[v]
      BY <3>1, <3>2, CheckReqNotSubmit DEF ExclusiveInv, TypeOK, Req, ValidateReqs, SubmitReqs
    <3>6. QED
      BY <1>1, <3>1, <3>4, <3>5 DEF ExclusiveInv, SubmissionExclusive, InFlight, TypeOK, Req
  <2>3. CASE ~AjaxValidationOnSubmit /\ ~AjaxPost
    <3>1. pending' = pending /\ ~enabled'
      BY <1>2, <2>3 DEF SubmitForm, SubmitNow, DisableForm
    <3>2. QED
      BY <1>1, <2>3, <3>1 DEF ExclusiveInv, SubmissionExclusive, InFlight
  <2>4. QED BY <2>1, <2>2, <2>3
<1>3. ASSUME NEW n \in Names, Blur(n) PROVE ExclusiveInv'
  <2>0. PICK k \in 1..MaxInFlight : pending' = [pending EXCEPT ![CheckReq(FALSE)] = @ + k]
    BY <1>3, BlurSends DEF ExclusiveInv
  <2>1. /\ pending' = [pending EXCEPT ![CheckReq(FALSE)] = @ + k]
        /\ UNCHANGED enabled
    BY <1>3, <2>0 DEF Blur
  <2>2. CheckReq(FALSE) \in ValidateReqs /\ ~CheckReq(FALSE).onValid
    BY ReqType DEF CheckReq
  <2>3. QED
    BY <1>1, <2>1, <2>2, CheckReqNotSubmit
    DEF ExclusiveInv, SubmissionExclusive, InFlight, TypeOK, Req
<1>4. ASSUME NEW r \in Req, NEW errs \in SUBSET ErrNames,
             ValidationResponse(r, errs)
      PROVE  ExclusiveInv'
  <2> DEFINE shown == ActivateErrors(errs, r.onlyVisited)
  <2>1. r \in ValidateReqs /\ pending[r] > 0
    BY <1>4 DEF ValidationResponse
  <2>2. CASE shown = {} /\ r.onValid
    <3>1. ~AjaxPost
      BY <2>1, <2>2 DEF ExclusiveInv
    <3>2. pending' = [pending EXCEPT ![r] = @ - 1] /\ ~enabled'
      BY <1>4, <2>2, <3>1 DEF ValidationResponse, SubmitNow, DisableForm
    <3>3. QED BY <1>1, <2>1, <3>2, ExclusiveRemove DEF Req
  <2>3. CASE ~(shown = {} /\ r.onValid)
    <3>1. pending' = [pending EXCEPT ![r] = @ - 1] /\ UNCHANGED enabled
      BY <1>4, <2>3 DEF ValidationResponse
    <3>2. QED BY <1>1, <2>1, <3>1, ExclusiveRemove DEF Req
  <2>4. QED BY <2>2, <2>3
<1>5. ASSUME NEW r \in Req, NEW resp \in SubmitResponses,
             SubmitResponse(r, resp)
      PROVE  ExclusiveInv'
  <2>1. /\ r \in SubmitReqs /\ pending[r] > 0
        /\ pending' = [pending EXCEPT ![r] = @ - 1]
    BY <1>5 DEF SubmitResponse
  <2>2. \A s \in SubmitReqs : pending'[s] = 0
    BY <2>1 DEF ExclusiveInv, SubmissionExclusive, InFlight, TypeOK, Req
  <2>3. \A v \in ValidateReqs : pending'[v] = pending[v]
    BY <2>1 DEF ExclusiveInv, TypeOK, Req, ValidateReqs, SubmitReqs
  <2>4. QED
    BY <1>1, <2>2, <2>3 DEF ExclusiveInv, SubmissionExclusive, InFlight
<1>6. ASSUME NEW r \in Req, NEW status \in Statuses, Failure(r, status)
      PROVE  ExclusiveInv'
  <2>1. pending[r] > 0 /\ pending' = [pending EXCEPT ![r] = @ - 1]
        /\ UNCHANGED enabled
    BY <1>6 DEF Failure
  <2>2. QED BY <1>1, <2>1, ExclusiveRemove
<1>7. CASE UNCHANGED vars
  BY <1>1, <1>7 DEF vars, ExclusiveInv, SubmissionExclusive, InFlight
<1>8. QED
  BY <1>2, <1>3, <1>4, <1>5, <1>6, <1>7 DEF Next, Respond

\* Spec 3: unless the form both validates on submit and posts by ajax, at
\* most one ajax submission is ever in flight, and none while the form is
\* enabled (the run direct checks this on a small instance; the run
\* double_submit shows the excluded combination breaking it).
THEOREM Exclusive ==
    ASSUME ~(AjaxPost /\ AjaxValidationOnSubmit)
    PROVE  Spec => []SubmissionExclusive
<1>1. ExclusiveInv => SubmissionExclusive
  BY DEF ExclusiveInv
<1>2. QED BY <1>1, ExclusiveInit, ExclusiveStep, PTL DEF Spec

-----------------------------------------------------------------------------
(* The refinement.  Each step of ReForm is a step of FormSubmission under  *)
(* FormPhase and SubmissionInFlight, or leaves both unchanged:             *)
(*   submitForm() with ajaxPost               SendAjax                    *)
(*   submitForm() with a regular submit       SubmitRegular               *)
(*   a validation callback that submits       Redirect (page left)        *)
(*   the submission's response                Answer                      *)
(*   a failed submission                      Lose                        *)
(*   a failed validation that redirects       Redirect                    *)
(* and blurs, validations and other answers are stutters.  Answer needs    *)
(* ExclusiveInv: the answered submission was the only one in flight, and  *)
(* the form was disabled while it was.                                     *)

\* A step that keeps the page, the form's enabled flag and the ajax
\* submissions in flight is a stutter of FormSubmission.
LEMMA SubmissionStutter ==
    ASSUME TypeOK, page' = page, enabled' = enabled,
           \A s \in SubmitReqs : pending'[s] = pending[s]
    PROVE  UNCHANGED Submission!vars
BY DEF Submission!vars, FormPhase, SubmissionInFlight, InFlight

LEMMA RefinementStep ==
    ASSUME ~(AjaxPost /\ AjaxValidationOnSubmit)
    PROVE  ExclusiveInv /\ ExclusiveInv' /\ [Next]_vars
             => [Submission!Next]_Submission!vars
<1> SUFFICES ASSUME ExclusiveInv, ExclusiveInv', [Next]_vars
             PROVE  [Submission!Next]_Submission!vars
  OBVIOUS
<1> USE DEF ExclusiveInv
<1>1. CASE SubmitForm
  <2>1. CASE AjaxValidationOnSubmit
    <3>1. /\ pending' = [pending EXCEPT ![CheckReq(TRUE)] = @ + 1]
          /\ UNCHANGED <<enabled, page>>
      BY <1>1, <2>1 DEF SubmitForm, AjaxSubmit
    <3>2. \A s \in SubmitReqs : pending'[s] = pending[s]
      BY <3>1, ReqType, CheckReqNotSubmit DEF TypeOK, Req
    <3>3. QED BY <3>1, <3>2, SubmissionStutter
  <2>2. CASE ~AjaxValidationOnSubmit /\ AjaxPost
    <3>1. SubmitReq(allFields) \in SubmitReqs
      BY ReqType DEF TypeOK
    <3>2. /\ page = "open" /\ enabled
          /\ page' = "open" /\ ~enabled'
          /\ pending'[SubmitReq(allFields)] > 0
      BY <1>1, <2>2, <3>1 DEF SubmitForm, SubmitNow, DisableForm, AjaxSubmit, TypeOK, Req
    <3>3. Submission!SendAjax
      BY <3>1, <3>2 DEF Submission!SendAjax, FormPhase, SubmissionInFlight, InFlight
    <3>4. QED BY <3>3 DEF Submission!Next
  <2>3. CASE ~AjaxValidationOnSubmit /\ ~AjaxPost
    <3>1. /\ page = "open" /\ enabled /\ page' = "left"
          /\ pending' = pending
      BY <1>1, <2>3 DEF SubmitForm, SubmitNow, DisableForm
    <3>2. Submission!SubmitRegular
      BY <3>1 DEF Submission!SubmitRegular, FormPhase, SubmissionInFlight, InFlight
    <3>3. QED BY <3>2 DEF Submission!Next
  <2>4. QED BY <2>1, <2>2, <2>3
<1>2. ASSUME NEW n \in Names, Blur(n) PROVE [Submission!Next]_Submission!vars
  <2>0. PICK k \in 1..MaxInFlight : pending' = [pending EXCEPT ![CheckReq(FALSE)] = @ + k]
    BY <1>2, BlurSends
  <2>1. /\ pending' = [pending EXCEPT ![CheckReq(FALSE)] = @ + k]
        /\ UNCHANGED <<enabled, page>>
    BY <1>2, <2>0 DEF Blur
  <2>2. \A s \in SubmitReqs : pending'[s] = pending[s]
    BY <2>1, ReqType, CheckReqNotSubmit DEF TypeOK, Req
  <2>3. QED BY <2>1, <2>2, SubmissionStutter
<1>3. ASSUME NEW r \in Req, NEW errs \in SUBSET ErrNames,
             ValidationResponse(r, errs)
      PROVE  [Submission!Next]_Submission!vars
  <2> DEFINE shown == ActivateErrors(errs, r.onlyVisited)
  <2>1. /\ r \in ValidateReqs /\ page = "open"
        /\ pending' = [pending EXCEPT ![r] = @ - 1]
    BY <1>3 DEF ValidationResponse, SubmitNow, AjaxSubmit
  <2>2. \A s \in SubmitReqs : pending'[s] = pending[s]
    BY <2>1 DEF TypeOK, Req, ValidateReqs, SubmitReqs
  <2>3. CASE shown = {} /\ r.onValid
    <3>1. ~AjaxPost
      BY <1>3, <2>1, <2>3 DEF ValidationResponse
    <3>2. page' = "left"
      BY <1>3, <2>3, <3>1 DEF ValidationResponse, SubmitNow
    <3>3. Submission!Redirect
      BY <2>1, <2>2, <3>2 DEF Submission!Redirect, FormPhase, SubmissionInFlight, InFlight
    <3>4. QED BY <3>3 DEF Submission!Next
  <2>4. CASE ~(shown = {} /\ r.onValid)
    <3>1. UNCHANGED <<enabled, page>>
      BY <1>3, <2>4 DEF ValidationResponse
    <3>2. QED BY <2>2, <3>1, SubmissionStutter
  <2>5. QED BY <2>3, <2>4
<1>4. ASSUME NEW r \in Req, NEW resp \in SubmitResponses,
             SubmitResponse(r, resp)
      PROVE  [Submission!Next]_Submission!vars
  <2>1. /\ r \in SubmitReqs /\ pending[r] > 0
        /\ page = "open" /\ page' = "open" /\ enabled'
    BY <1>4 DEF SubmitResponse, EnableForm
  <2>2. ~enabled
    BY <2>1 DEF SubmissionExclusive, InFlight
  <2>3. ~SubmissionInFlight'
    <3>1. pending' = [pending EXCEPT ![r] = @ - 1]
      BY <1>4 DEF SubmitResponse
    <3>2. \A s \in SubmitReqs : pending'[s] = 0
      BY <2>1, <3>1 DEF SubmissionExclusive, InFlight, TypeOK, Req
    <3>3. QED BY <3>2 DEF SubmissionInFlight, InFlight
  <2>4. Submission!Answer
    BY <2>1, <2>2, <2>3 DEF Submission!Answer, FormPhase, SubmissionInFlight, InFlight
  <2>5. QED BY <2>4 DEF Submission!Next
<1>5. ASSUME NEW r \in Req, NEW status \in Statuses, Failure(r, status)
      PROVE  [Submission!Next]_Submission!vars
  <2>1. /\ page = "open" /\ pending[r] > 0
        /\ pending' = [pending EXCEPT ![r] = @ - 1]
        /\ page' \in {"open", "left"} /\ UNCHANGED enabled
    BY <1>5 DEF Failure
  <2>2. CASE r \in SubmitReqs
    <3>1. SubmissionInFlight /\ ~SubmissionInFlight'
      <4>1. \A s \in SubmitReqs : pending'[s] = 0
        BY <2>1, <2>2 DEF SubmissionExclusive, InFlight, TypeOK, Req
      <4>2. QED BY <2>1, <2>2, <4>1 DEF SubmissionInFlight, InFlight
    <3>2. Submission!Lose
      BY <2>1, <3>1 DEF Submission!Lose, FormPhase
    <3>3. QED BY <3>2 DEF Submission!Next
  <2>3. CASE r \in ValidateReqs
    <3>1. \A s \in SubmitReqs : pending'[s] = pending[s]
      BY <2>1, <2>3 DEF TypeOK, Req, ValidateReqs, SubmitReqs
    <3>2. CASE page' = "open"
      BY <2>1, <3>1, <3>2, SubmissionStutter
    <3>3. CASE page' = "left"
      <4>1. Submission!Redirect
        BY <2>1, <3>1, <3>3 DEF Submission!Redirect, FormPhase, SubmissionInFlight, InFlight
      <4>2. QED BY <4>1 DEF Submission!Next
    <3>4. QED BY <2>1, <3>2, <3>3
  <2>4. QED BY <2>2, <2>3 DEF Req
<1>6. CASE UNCHANGED vars
  BY <1>6, SubmissionStutter DEF vars
<1>7. QED
  BY <1>1, <1>2, <1>3, <1>4, <1>5, <1>6 DEF Next, Respond

\* Spec 3 and 8: unless the form both validates on submit and posts by
\* ajax, every behaviour of submitForm() and its callbacks is a behaviour
\* of FormSubmission (the safety part; the run direct also checks the
\* eventual answer of its Spec on a small instance).
THEOREM Implementation ==
    ASSUME ~(AjaxPost /\ AjaxValidationOnSubmit)
    PROVE  Spec => Submission!SafeSpec
<1>1. Spec => []ExclusiveInv
  BY ExclusiveInit, ExclusiveStep, PTL DEF Spec
<1>2. Init => Submission!Init
  BY DEF Init, Submission!Init, FormPhase, SubmissionInFlight, InFlight, Req
<1>3. QED
  BY <1>1, <1>2, RefinementStep, PTL DEF Spec, Submission!SafeSpec

=============================================================================
