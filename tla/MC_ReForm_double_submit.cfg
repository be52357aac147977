\* Ajax validation before an ajax submit: two clicks before the
\* validation answers.
CONSTANTS
    a = a  b = b  c = c  none = none
    Names <- MCNames
    NoName <- none
    ErrNames <- MCErrNames
    OuterMarkup <- MCOuterMarkup
    Markups <- MCMarkups
    InitMarkup <- MCInitMarkup
    LiveValidation = FALSE
    AjaxValidationOnSubmit = TRUE
    AjaxPost = TRUE
    ActivateOnAjaxSubmitSuccess = TRUE
    AttrReadonlyIsTrue = TRUE
    NetworkFails = FALSE
    MaxInFlight = 2
SPECIFICATION Spec
INVARIANT SubmissionExclusive
