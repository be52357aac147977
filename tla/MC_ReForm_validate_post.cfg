\* Ajax validation before a regular submit, live validation, failing
\* network.  The page may navigate away and stop there.
CONSTANTS
    a = a  b = b  c = c  none = none
    Names <- MCNames
    NoName <- none
    ErrNames <- MCErrNames
    OuterMarkup <- MCOuterMarkup
    Markups <- MCMarkups
    InitMarkup <- MCInitMarkup
    LiveValidation = TRUE
    AjaxValidationOnSubmit = TRUE
    AjaxPost = FALSE
    ActivateOnAjaxSubmitSuccess = TRUE
    AttrReadonlyIsTrue = TRUE
    NetworkFails = TRUE
    MaxInFlight = 2
SPECIFICATION Spec
PROPERTY NoSubmitOverFieldErrors
CHECK_DEADLOCK FALSE
