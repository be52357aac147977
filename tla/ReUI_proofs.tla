----------------------------- MODULE ReUI_proofs -----------------------------
(* Proofs of the ReUI invariants for every set of boxes and radios.        *)
EXTENDS ReUI, TLAPS

\* _reCheckboxCheck writes one of the attribute strings, given a checkValue
\* that is absent or one and a checkUnvalue that is one.
LEMMA CheckType ==
    ASSUME NEW value \in ValArgs, NEW b \in Boxes,
           NEW cv \in AttrStrings \cup {Absent}, NEW cu \in AttrStrings,
           hidden \in [Boxes -> AttrStrings], checked \in [Boxes -> BOOLEAN]
    PROVE  /\ ReCheckboxCheck(value, b, cv, cu).c \in BOOLEAN
           /\ ReCheckboxCheck(value, b, cv, cu).h \in AttrStrings
BY DEF ReCheckboxCheck, Truthy, ValArgs, AttrStrings

\* The attribute values the handlers pass are absent or attribute strings.
LEMMA AttrFacts ==
    ASSUME NEW b \in Boxes
    PROVE  /\ ClickValue(b) \in AttrStrings \cup {Absent}
           /\ HiddenCheckValue(b) \in AttrStrings
           /\ HiddenCheckUnvalue(b) \in AttrStrings
           /\ ClickUnvalue(b) \in AttrStrings
BY UIAssumption DEF ClickValue, HiddenCheckValue, InMarkup, HiddenCheckUnvalue,
                    ClickUnvalue, Truthy, AttrStrings

\* cssCheckbox() writes one of the attribute strings.
LEMMA CssValueType ==
    ASSUME NEW b \in Boxes, NEW on \in BOOLEAN
    PROVE  CssCheckboxValue(b, on) \in AttrStrings
BY UIAssumption DEF CssCheckboxValue, CssUnvalue, Truthy, AttrStrings

\* Every step keeps the types.
LEMMA TypeStep == TypeOK /\ [Next]_vars => TypeOK'
<1> SUFFICES ASSUME TypeOK, [Next]_vars PROVE TypeOK'
  OBVIOUS
<1>1. ASSUME NEW b \in Boxes, ClickBox(b) PROVE TypeOK'
  <2>1. (IF checked[b] THEN "false" ELSE "true") \in ValArgs
    BY DEF TypeOK, ValArgs
  <2> QED  BY <1>1, <2>1, AttrFacts, CheckType DEF ClickBox, TypeOK
<1>2. ASSUME NEW b \in Boxes, NEW v \in ValArgs, ReCheckboxVal(b, v) PROVE TypeOK'
  <2>1. HiddenCheckValue(b) \in AttrStrings \cup {Absent}
    BY AttrFacts
  <2> QED  BY <1>2, <2>1, AttrFacts, CheckType DEF ReCheckboxVal, TypeOK
<1>3. ASSUME NEW r \in Radios, ReRadioCheck(r) PROVE TypeOK'
  BY <1>3 DEF ReRadioCheck, TypeOK
<1>4. CASE UNCHANGED vars
  BY <1>4 DEF vars, TypeOK
<1>5. ASSUME NEW b \in Boxes, CssLabelClick(b) PROVE TypeOK'
  BY <1>5, CssValueType DEF CssLabelClick, TypeOK
<1>6. ASSUME NEW r \in Radios, CssRadioClick(r) PROVE TypeOK'
  BY <1>6 DEF CssRadioClick, TypeOK
<1> QED  BY <1>1, <1>2, <1>3, <1>4, <1>5, <1>6 DEF Next

\* The label classes, the hidden values and the radio flags keep their types
\* under every click and call.
THEOREM TypeCorrect == Spec => []TypeOK
<1>1. Init => TypeOK
  <2> SUFFICES ASSUME Init PROVE TypeOK
    OBVIOUS
  <2>1. PICK native \in [Boxes -> BOOLEAN] :
            /\ checked = native
            /\ hidden = [b \in Boxes |->
                          IF Plugin[b] = "reUI"
                            THEN ReCheckboxCheck(IF native[b] THEN "true" ELSE "false", b,
                                                 ClickValue(b), ClickUnvalue(b)).h
                            ELSE CssCheckboxValue(b, native[b])]
    BY DEF Init, InitBoxes
  <2>2. hidden \in [Boxes -> AttrStrings]
    <3> SUFFICES ASSUME NEW b \in Boxes
                 PROVE  hidden[b] \in AttrStrings
      BY <2>1
    <3>1. ReCheckboxCheck(IF native[b] THEN "true" ELSE "false", b,
                          ClickValue(b), ClickUnvalue(b)).h \in AttrStrings
      <4>1. (IF native[b] THEN "true" ELSE "false") \in ValArgs
        BY DEF ValArgs
      <4> QED  BY <4>1, AttrFacts, <2>1 DEF ReCheckboxCheck, Truthy, AttrStrings
    <3>2. CssCheckboxValue(b, native[b]) \in AttrStrings
      BY CssValueType
    <3> QED  BY <2>1, <3>1, <3>2
  <2>3. rchecked \in [Radios -> BOOLEAN] /\ rlabel = rchecked
    BY DEF Init, InitRadios
  <2> QED  BY <2>1, <2>2, <2>3 DEF TypeOK
<1>2. TypeOK /\ [Next]_vars => TypeOK'
  BY TypeStep
<1> QED  BY <1>1, <1>2, PTL DEF Spec

\* Radio label clicks of both scripts and reRadioVal keep every label in step with its
\* radio and at most one radio of a name checked.
THEOREM RadioCorrect == Spec => []RadioLabelsMatch
<1>1. Init => RadioLabelsMatch
  BY DEF Init, InitRadios, RadioLabelsMatch
<1>2. RadioLabelsMatch /\ [Next]_vars => RadioLabelsMatch'
  <2> SUFFICES ASSUME RadioLabelsMatch, [Next]_vars PROVE RadioLabelsMatch'
    OBVIOUS
  <2>1. ASSUME NEW r \in Radios, ReRadioCheck(r) PROVE RadioLabelsMatch'
    BY <2>1 DEF ReRadioCheck, RadioLabelsMatch
  <2>2. ASSUME NEW b \in Boxes, ClickBox(b) PROVE RadioLabelsMatch'
    BY <2>2 DEF ClickBox, RadioLabelsMatch
  <2>3. ASSUME NEW b \in Boxes, NEW v \in ValArgs, ReCheckboxVal(b, v) PROVE RadioLabelsMatch'
    BY <2>3 DEF ReCheckboxVal, RadioLabelsMatch
  <2>4. CASE UNCHANGED vars
    BY <2>4 DEF vars, RadioLabelsMatch
  <2>5. ASSUME NEW r \in Radios, CssRadioClick(r) PROVE RadioLabelsMatch'
    BY <2>5 DEF CssRadioClick, RadioLabelsMatch
  <2>6. ASSUME NEW b \in Boxes, CssLabelClick(b) PROVE RadioLabelsMatch'
    BY <2>6 DEF CssLabelClick, RadioLabelsMatch
  <2> QED  BY <2>1, <2>2, <2>3, <2>4, <2>5, <2>6 DEF Next
<1> QED  BY <1>1, <1>2, PTL DEF Spec
\* When every checkbox has a value attribute (possibly empty), the hidden
\* input always submits the value its label shows: reCheckboxVal, which
\* reads checkValue back from the hidden input, then writes what the click
\* handler writes.  A cssCheckbox box needs no such condition.
THEOREM ValuesCorrect ==
    (\A b \in Boxes : ValueAttr[b] # Absent) => (Spec => []HiddenMatchesLabel)
<1> SUFFICES ASSUME \A b \in Boxes : ValueAttr[b] # Absent
             PROVE  Spec => []HiddenMatchesLabel
  OBVIOUS
<1>0. \A b \in Boxes : HiddenCheckValue(b) = ClickValue(b)
  BY DEF HiddenCheckValue, InMarkup, ClickValue
<1>1. Init => HiddenMatchesLabel
  BY DEF Init, InitBoxes, HiddenMatchesLabel, ReCheckboxCheck, OnValue, OffValue,
         ClickValue, ClickUnvalue, CssCheckboxValue, CssUnvalue, HiddenCheckUnvalue
<1>2. TypeOK /\ HiddenMatchesLabel /\ [Next]_vars => HiddenMatchesLabel'
  <2> SUFFICES ASSUME TypeOK, HiddenMatchesLabel, [Next]_vars PROVE HiddenMatchesLabel'
    OBVIOUS
  <2>1. ASSUME NEW b \in Boxes, ClickBox(b) PROVE HiddenMatchesLabel'
    BY <2>1 DEF TypeOK, ClickBox, HiddenMatchesLabel, ReCheckboxCheck, OnValue, OffValue,
                ClickValue, ClickUnvalue
  <2>2. ASSUME NEW b \in Boxes, NEW v \in ValArgs, ReCheckboxVal(b, v)
        PROVE  HiddenMatchesLabel'
    BY <2>2, <1>0 DEF TypeOK, ReCheckboxVal, HiddenMatchesLabel, ReCheckboxCheck, OnValue,
                      OffValue, ClickValue, ValArgs
  <2>3. ASSUME NEW r \in Radios, ReRadioCheck(r) PROVE HiddenMatchesLabel'
    BY <2>3 DEF ReRadioCheck, HiddenMatchesLabel
  <2>4. CASE UNCHANGED vars
    BY <2>4 DEF vars, HiddenMatchesLabel
  <2>5. ASSUME NEW b \in Boxes, CssLabelClick(b) PROVE HiddenMatchesLabel'
    BY <2>5 DEF TypeOK, CssLabelClick, HiddenMatchesLabel, CssCheckboxValue, CssUnvalue,
                OnValue, OffValue, HiddenCheckUnvalue
  <2>6. ASSUME NEW r \in Radios, CssRadioClick(r) PROVE HiddenMatchesLabel'
    BY <2>6 DEF CssRadioClick, HiddenMatchesLabel
  <2> QED  BY <2>1, <2>2, <2>3, <2>4, <2>5, <2>6 DEF Next
<1> QED  BY <1>1, <1>2, TypeCorrect, PTL DEF Spec
=============================================================================
