\* Direct ajax submission with live validation on a reliable network.
CONSTANTS
    a = a  b = b  c = c  none = none
    Names <- MCNames
    NoName <- none
    ErrNames <- MCErrNames
    OuterMarkup <- MCOuterMarkup
    Markups <- MCMarkups
    InitMarkup <- MCInitMarkup
    LiveValidation = TRUE
    AjaxValidationOnSubmit = FALSE
    AjaxPost = TRUE
    ActivateOnAjaxSubmitSuccess = TRUE
    AttrReadonlyIsTrue = TRUE
    NetworkFails = FALSE
    MaxInFlight = 2
SPECIFICATION Spec
INVARIANT TypeOK SubmissionExclusive
PROPERTY EventuallyReenabled ImplementsFormSubmission
