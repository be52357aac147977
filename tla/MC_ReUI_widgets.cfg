\* Clicks and reCheckboxVal calls on boxes with a value attribute, radio
\* label clicks and reRadioVal calls.
CONSTANTS
    Absent = Absent_
    Absent_ = Absent_
    Boxes <- MCBoxes
    Radios <- MCRadios
    Group <- MCGroup
    Plugin <- MCPlugin
    ValueAttr <- MCValueAttr
    UnvalueAttr <- MCUnvalueAttr
SPECIFICATION Spec
INVARIANT TypeOK HiddenMatchesLabel RadioLabelsMatch
