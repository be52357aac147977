\* Direct ajax submission on a network where a request may fail.
CONSTANTS
    a = a  b = b  c = c  none = none
    Names <- MCNames
    NoName <- none
    ErrNames <- MCErrNames
    OuterMarkup <- MCOuterMarkup
    Markups <- MCMarkups
    InitMarkup <- MCInitMarkup
    LiveValidation = TRUE
    AjaxValidationOnSubmit = FALSE
    AjaxPost = TRUE
    ActivateOnAjaxSubmitSuccess = TRUE
    AttrReadonlyIsTrue = TRUE
    NetworkFails = TRUE
    MaxInFlight = 2
SPECIFICATION Spec
PROPERTY EventuallyReenabled
CHECK_DEADLOCK FALSE
