\* reCheckboxVal on a box without a value attribute.
CONSTANTS
    Absent = Absent_
    Absent_ = Absent_
    Boxes <- MCBoxes
    Radios <- MCRadios
    Group <- MCGroup
    Plugin <- MCPlugin
    ValueAttr <- MCValueAttrAbsent
    UnvalueAttr <- MCUnvalueAttr
SPECIFICATION Spec
INVARIANT HiddenMatchesLabel
