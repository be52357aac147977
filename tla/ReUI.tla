-------------------------------- MODULE ReUI --------------------------------
(***************************************************************************)
(* The CSS checkboxes and radios of jquery.reUI.js                         *)
(* (src/jodd-joy/src/main/webapp/jquery.reUI.js).  reCheckbox() replaces   *)
(* each checkbox by a hidden input, which carries the value the form       *)
(* submits, and a label, whose class "checked" shows the state; reRadio()  *)
(* hides each radio and makes its label show "radioChecked".  The state    *)
(* is the label classes, the hidden values and the radios' checked flags;  *)
(* an attribute value is a string, and Absent is an attribute that is not *)
(* there (jQuery's attr() returns undefined).                              *)
(* The older jquery.checkbox2.js (src/mod/jodd-joy/www) does the same for   *)
(* its containers with cssCheckbox(), without the Val functions; Plugin    *)
(* tells which of the two set up a widget's container.                     *)
(***************************************************************************)
EXTENDS FiniteSets

CONSTANTS
    Boxes,        \* the checkboxes of the container (their ids)
    ValueAttr,    \* ValueAttr[b]: the value attribute of checkbox b
    UnvalueAttr,  \* UnvalueAttr[b]: its unvalue attribute
    Radios,       \* the radios of the container (their ids)
    Group,        \* Group[r]: the name attribute of radio r
    Plugin,       \* Plugin[x]: "reUI" or "checkbox2", the script of x's container
    Absent        \* an attribute that is not there

\* The attribute strings that occur: the page's own, the ones the script
\* writes, and "undefined", which is what concatenating an absent
\* attribute into markup gives.
AttrStrings == {"", "v", "u", "off", "true", "false", "undefined"}

ASSUME UIAssumption ==
    /\ Absent \notin AttrStrings
    /\ ValueAttr \in [Boxes -> {Absent, "", "v"}]
    /\ UnvalueAttr \in [Boxes -> {Absent, "", "u"}]
    /\ Group \in [Radios -> STRING]
    /\ Plugin \in [Boxes \cup Radios -> {"reUI", "checkbox2"}]
    \* the radios of one name are in one container
    /\ \A r, s \in Radios : Group[r] = Group[s] => Plugin[r] = Plugin[s]

\* `if (x)` on an attribute: an absent one and '' are falsy.
Truthy(x) == x \notin {Absent, ""}

\* The string an attribute value becomes when concatenated into markup.
InMarkup(x) == IF x = Absent THEN "undefined" ELSE x

\* The value reCheckboxVal passes: the JS value true, false, or anything
\* else (the string "true", 1, ...).
ValArgs == {"true", "false", "other"}

VARIABLES
    checked,    \* checked[b]: b's label has the class "checked"
    hidden,     \* hidden[b]: the value attribute of b's hidden input
    rchecked,   \* rchecked[r]: radio r's checked flag
    rlabel      \* rlabel[r]: r's label has the class "radioChecked"

vars == <<checked, hidden, rchecked, rlabel>>

-----------------------------------------------------------------------------

\* The attributes reCheckbox writes on b's hidden input: checkValue is the
\* checkbox's value attribute and checkUnvalue its unvalue one, 'off' when
\* falsy, both as they come out of the markup string.
HiddenCheckValue(b) == InMarkup(ValueAttr[b])
HiddenCheckUnvalue(b) == IF Truthy(UnvalueAttr[b]) THEN UnvalueAttr[b] ELSE "off"

\* _reCheckboxCheck that writes checkValue for false as well as for true.
ReCheckboxCheckSwapped(value, b, cv, cu) ==
    CASE value = "true"  -> [c |-> TRUE,  h |-> IF Truthy(cv) THEN cv ELSE "true"]
      [] value = "false" -> [c |-> FALSE, h |-> IF Truthy(cv) THEN cv ELSE "false"]
      [] OTHER           -> [c |-> checked[b], h |-> hidden[b]]

\* _reCheckboxCheck(value, label, checkInput, checkValue, checkUnvalue) on
\* box b: the new [checked, hidden] of b.  Only the values true and false
\* (===) do anything.
ReCheckboxCheck(value, b, cv, cu) ==
    CASE value = "true"  -> [c |-> TRUE,  h |-> IF Truthy(cv) THEN cv ELSE "true"]
      [] value = "false" -> [c |-> FALSE, h |-> IF Truthy(cv) THEN cu ELSE "false"]
      [] OTHER           -> [c |-> checked[b], h |-> hidden[b]]

\* What the label click handler and reCheckbox pass as checkValue and
\* checkUnvalue: the values read from the checkbox itself.
ClickValue(b) == ValueAttr[b]
\* checkUnvalue without its 'off' default.
ClickUnvalueRaw(b) == UnvalueAttr[b]
ClickUnvalue(b) == HiddenCheckUnvalue(b)

\* cssCheckbox() of checkbox2: the unvalue attribute, 'off' when falsy,
\* and the value it writes on the hidden input for a box that is checked
\* (on) or not: `checkValue ? checkValue : true` and
\* `checkValue ? checkUnvalue : false`.
CssUnvalue(b) == IF Truthy(UnvalueAttr[b]) THEN UnvalueAttr[b] ELSE "off"
CssCheckboxValue(b, on) ==
    CASE Truthy(ValueAttr[b]) /\ on  -> ValueAttr[b]
      [] Truthy(ValueAttr[b]) /\ ~on -> CssUnvalue(b)
      [] ~Truthy(ValueAttr[b])       -> IF on THEN "true" ELSE "false"

\* reCheckbox(), and cssCheckbox(): for a box checked as the page loads,
\* the label gets "checked", and the hidden input gets the value
\* _reCheckboxCheck writes, or the one checkbox2 writes inline (the
\* "value='" + check.checked + "'" of the markup is overwritten at once).
InitBoxes ==
    \E native \in [Boxes -> BOOLEAN] :
        /\ checked = native
        /\ hidden = [b \in Boxes |->
                       IF Plugin[b] = "reUI"
                         THEN ReCheckboxCheck(IF native[b] THEN "true" ELSE "false", b,
                                              ClickValue(b), ClickUnvalue(b)).h
                         ELSE CssCheckboxValue(b, native[b])]

\* reRadio(): the browser leaves at most one radio of a name checked; the
\* label of a checked one gets "radioChecked".
InitRadios ==
    /\ rchecked \in {f \in [Radios -> BOOLEAN] :
                        \A r, s \in Radios : f[r] /\ f[s] /\ Group[r] = Group[s] => r = s}
    /\ rlabel = rchecked

Init == InitBoxes /\ InitRadios

\* The label click handler of box b: the opposite of hasClass("checked").
ClickBox(b) ==
    /\ Plugin[b] = "reUI"
    /\ LET new == ReCheckboxCheck(IF checked[b] THEN "false" ELSE "true", b,
                                  ClickValue(b), ClickUnvalue(b))
       IN  /\ checked' = [checked EXCEPT ![b] = new.c]
           /\ hidden' = [hidden EXCEPT ![b] = new.h]
           /\ UNCHANGED <<rchecked, rlabel>>

\* reCheckboxVal(id, value): the hidden input of box b, with checkValue and
\* checkUnvalue read back from the hidden input's attributes.
ReCheckboxVal(b, value) ==
    /\ Plugin[b] = "reUI"
    /\ LET new == ReCheckboxCheck(value, b, HiddenCheckValue(b), HiddenCheckUnvalue(b))
       IN  /\ checked' = [checked EXCEPT ![b] = new.c]
           /\ hidden' = [hidden EXCEPT ![b] = new.h]
           /\ UNCHANGED <<rchecked, rlabel>>

\* _reRadioCheck that only marks the chosen radio.
ReRadioCheckNoClear(r) ==
    /\ Plugin[r] = "reUI"
    /\ rchecked' = [rchecked EXCEPT ![r] = TRUE]
    /\ rlabel' = [rlabel EXCEPT ![r] = TRUE]
    /\ UNCHANGED <<checked, hidden>>

\* _reRadioCheck(name, radioId): every radio of that name is checked, and
\* its label marked, exactly when its id is radioId.  A label click and
\* reRadioVal(radioId) both call it with the name of radio r.
ReRadioCheck(r) ==
    /\ Plugin[r] = "reUI"
    /\ rchecked' = [s \in Radios |-> IF Group[s] = Group[r] THEN s = r ELSE rchecked[s]]
    /\ rlabel' = [s \in Radios |-> IF Group[s] = Group[r] THEN s = r ELSE rlabel[s]]
    /\ UNCHANGED <<checked, hidden>>

\* cssCheckbox()'s label click handler that toggles the class only.
CssLabelClickNoValue(b) ==
    /\ Plugin[b] = "checkbox2"
    /\ checked' = [checked EXCEPT ![b] = ~@]
    /\ UNCHANGED <<hidden, rchecked, rlabel>>

\* The label click handler cssCheckbox() attaches to box b: the class
\* "checked" toggled and the matching value written.
CssLabelClick(b) ==
    /\ Plugin[b] = "checkbox2"
    /\ checked' = [checked EXCEPT ![b] = ~@]
    /\ hidden' = [hidden EXCEPT ![b] = CssCheckboxValue(b, ~checked[b])]
    /\ UNCHANGED <<rchecked, rlabel>>

\* The label click handler cssCheckbox() attaches to radio r: its own loop
\* over the radios named like r, with the one whose id is r's checked.
CssRadioClick(r) ==
    /\ Plugin[r] = "checkbox2"
    /\ rchecked' = [s \in Radios |-> IF Group[s] = Group[r] THEN s = r ELSE rchecked[s]]
    /\ rlabel' = [s \in Radios |-> IF Group[s] = Group[r] THEN s = r ELSE rlabel[s]]
    /\ UNCHANGED <<checked, hidden>>

Next ==
    \/ \E b \in Boxes : ClickBox(b)
    \/ \E b \in Boxes : CssLabelClick(b)
    \/ \E r \in Radios : CssRadioClick(r)
    \/ \E b \in Boxes, v \in ValArgs : ReCheckboxVal(b, v)
    \/ \E r \in Radios : ReRadioCheck(r)

Spec == Init /\ [][Next]_vars

-----------------------------------------------------------------------------
(* Properties. *)

TypeOK ==
    /\ checked \in [Boxes -> BOOLEAN]
    /\ hidden \in [Boxes -> AttrStrings]
    /\ rchecked \in [Radios -> BOOLEAN]
    /\ rlabel \in [Radios -> BOOLEAN]

\* The value a box submits when its label shows checked, and when not: the
\* box's value and unvalue (or 'off') when it has a value, true and false
\* otherwise, as the page's initialization and the label click write them.
OnValue(b) == IF Truthy(ValueAttr[b]) THEN ValueAttr[b] ELSE "true"
OffValue(b) == IF Truthy(ValueAttr[b]) THEN HiddenCheckUnvalue(b) ELSE "false"

\* The hidden input submits the value the label shows, whichever of the
\* click handler and reCheckboxVal set it last.
HiddenMatchesLabel ==
    \A b \in Boxes : hidden[b] = IF checked[b] THEN OnValue(b) ELSE OffValue(b)

\* Each radio's label shows radioChecked exactly when the radio is checked,
\* and at most one radio of a name is checked, after any sequence of
\* label clicks and reRadioVal calls.
RadioLabelsMatch ==
    /\ \A r \in Radios : rlabel[r] = rchecked[r]
    /\ \A r, s \in Radios : rchecked[r] /\ rchecked[s] /\ Group[r] = Group[s] => r = s

=============================================================================
