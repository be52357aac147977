\* Strings of up to three characters, patterns and replacements of up to
\* two; the loop may build strings of up to five.  The call returns or the
\* browser stops the script: both end the run.
CONSTANTS
    Chars <- MCChars
    MaxIn = 3
    MaxPat = 2
    MaxLen = 5
SPECIFICATION Spec
PROPERTY AlwaysReturns
CHECK_DEADLOCK FALSE
