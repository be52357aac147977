# TLA+ models of the Jodd Joy browser widgets

This directory holds TLA+ models of the browser-side scripts of the
repository:
- the Re:Form form controller (`src/mod/jodd-joy/www/reform.js`);
- the Re:Pager table pager (`src/jodd-joy/src/main/webapp/repager.js`, and its
  older copy `src/mod/jodd-joy/www/repager.js`);
- the page-wide services of `src/mod/jodd-joy/www/app.js` that both widgets use;
- the Array and String extensions of `src/mod/jodd-joy/www/jsext.js`;
- the checkbox and radio skinning of `src/jodd-joy/src/main/webapp/jquery.reUI.js`
  (and its older copy `src/mod/jodd-joy/www/jquery.checkbox2.js`).

It also holds the TLC configurations that check the models on small instances,
and TLAPS proofs of their main invariants for every instance.

## 1. The system

Every script runs on the browser's single event loop, and each handler runs to
completion. What makes these widgets hard is `form.ajaxSubmit(options)`.

- **Requests are asynchronous.** `ajaxSubmit` returns at once. Its `success`
  callback runs later, as an event of its own. Nothing in the code limits how
  many requests are in flight, so clicks, blurs and answers interleave freely.
- **Answers come in any order.** Their order is the server's and the network's.
- **A failed request skips the widget.** No widget passes an `error` callback.
  A failure reaches only the global `ajaxError` handler of app.js, which:
  - ignores status 0 and 200;
  - redirects on 403, 404 and 500;
  - raises the native alert on any other status and stays on the page.

### Inventory

**Re:Form** (`ReForm`)
- State:
  - `fields`, the named, non-read-only inputs of the form;
  - `allFields`;
  - `visited`;
  - `enabled`;
  - the `errorClass` marks on fields;
  - the content of `formDiv`.
- Operations:
  - the submit click, which calls `submitForm`;
  - a blur on a field (the handler `activate` attaches);
  - the success callback of `validateForm`;
  - the success callback of `_submitFormNow`;
  - a failed request.

  `activate`, `removeAllValidationErrors`, `activateErrors`,
  `visitAllFields`, `disableForm`, `enableForm` and `setFormParameter` are
  steps inside those operations.
- Hard behaviours:
  - several validations and submissions in flight at once;
  - answers applied in any order;
  - `visited` reset while blurs keep running;
  - the `'[{'` sniff of the submission answer;
  - the form left disabled after a failure;
  - one more blur handler on every field outside the formDiv after each
    reload.
- Correctness:
  - at most one submission at a time, and only while disabled;
  - no submission over a validation error;
  - `visited` ⊆ `fields`;
  - `usedFieldNames` lists the fields;
  - the form is re-enabled after a submission;
  - taken together, the controller follows the submission protocol of
    spec sections 3 and 8 (`FormSubmission`).

**Re:Pager** (`RePager`)
- State:
  - `pager.page` and `pager.sort`;
  - the sort classes of the sortable headers;
  - the rows the body shows;
  - the requests in flight.
- Operations:
  - a page link (`goto(p)`);
  - a header click;
  - the success callback (an empty answer retries `goto(1)`);
  - a failure;
  - time passing.
- Hard behaviours:
  - answers out of order;
  - the retry loop;
  - the `pleaseWait()` call.
- Correctness:
  - the headers show the sort that is sent;
  - the body shows the pager's page once the answers are in;
  - the caption shows while a request is slow.

**app.js services** (`App`)
- `ajaxError` decides what a failure does.
- `pleaseWait` keeps a global timer `pwt` and the `#wait` caption.


**jsext.js** (`JsArray`, `JsStrings`, `ReplaceAll`)
- Methods added to `Array.prototype`: `remove`, `removeRange`, `contains`,
  `addUnique`, `clear` (and pure one-liners), and replacements of the
  built-in `indexOf` and `lastIndexOf` that every script on the page then
  uses.
- Methods added to `String.prototype`: `startsWith`, `endsWith`, `replaceAll`.
- Hard behaviours: `remove` splices while its index moves on; `removeRange`
  mixes `||` fallbacks with negative indexes; `indexOf` computes its start
  from a negative or missing `fromIndex` in one expression; `replaceAll` rescans after
  every replacement and need not stop.

**reUI** (`ReUI`)
- State: the label classes `checked` and `radioChecked`, the hidden input that
  replaces each checkbox and carries the submitted value, the radios' flags.
- Operations: the checkbox label click, `reCheckboxVal(id, value)`, the radio
  label click and `reRadioVal(id)`.
- Hard behaviours: the hidden input's `checkValue` attribute is written by
  string concatenation and read back by `reCheckboxVal`.
- `cssCheckbox()` of jquery.checkbox2.js skins its own containers with its
  own click handlers; the constant `Plugin` says which script set up each
  widget, so the two kinds of handlers run side by side in one model.

**Not modelled**
- the validation-URL derivation of the Re:Form constructor and `unwrapTag`
  of app.js (string conversions; their hazards are listed);
- `slideshow.js`, a configuration of the jQuery cycle plugin;
- the Kotlin test fixture `Tester33.kt` (a one-call JDBC type whose entity
  column is a non-null `Status33`, so nothing there is worth a model).

`PROJECT.json` lists each of these with the reason.

## 2. Modules

| module | models | holds |
|---|---|---|
| `App` | app.js `ajaxError`, `pleaseWait`, `setTimer`/`clearTimer` | operators only, composed by the widget modules |
| `ReForm` | reform.js and the `ajaxError` handler | the form controller |
| `MC_ReForm` | – | a TLC instance of `ReForm` |
| `FormSubmission` | spec sections 3 and 8 | the abstract submission protocol `ReForm` implements |
| `ReForm_proofs` | – | TLAPS proofs for `ReForm`, the refinement included |
| `RePager` | webapp repager.js with app.js | the pager |
| `MC_RePager` | – | a TLC instance of `RePager` |
| `RePager_proofs` | – | TLAPS proofs for `RePager` |
| `JsArray`, `MC_JsArray` | jsext.js Array methods | one array object, the last call, a step per loop iteration |
| `JsArray_proofs` | – | TLAPS proofs for `JsArray` |
| `JsStrings` | the native String methods the scripts call, jsext.js `startsWith`, `endsWith` | operators only |
| `ReplaceAll`, `MC_ReplaceAll` | jsext.js `replaceAll` | one call, a step per loop iteration |
| `ReUI`, `MC_ReUI` | jquery.reUI.js (and jquery.checkbox2.js) | the checkboxes and radios of one container |
| `ReUI_proofs` | – | TLAPS proofs for `ReUI` |


### ReForm

**Constants**
- The field names `Names`, and the name '' (`NoName`).
- The names a server may report (`ErrNames`). This may include names that are
  not fields.
- The elements outside the `formDiv` (`OuterMarkup`). `activate` scans the
  whole form, but `formDiv.html()` replaces only the div, so these elements
  survive a reload.
- The contents the `formDiv` may be given (`Markups`).
- The options that change control flow:
  - `liveValidation`, `ajaxValidationOnSubmit`, `ajaxPost`,
    `activateOnAjaxSubmitSuccess`;
  - `AttrReadonlyIsTrue`: whether `attr('readonly')` returns `true` (jQuery
    before 1.6) or a string.

**Requests in flight**
- They are a bag, `pending[r]`.
- A validation request records whether it has the submit continuation.
- A submission request carries its `usedFieldNames` value.

**Actions**

| action | code |
|---|---|
| `SubmitForm` | `submitForm` |
| `Blur(n)` | the blur handler |
| `ValidationResponse(r, errs)` | `validateForm`'s callback, which ends in `_submitFormNow` when no error applied |
| `SubmitResponse(r, resp)` | `_submitFormNow`'s callback, which ends with `activate` when markup comes back and always with `enableForm` |
| `Failure(r, status)` | the `ajaxError` handler |

- Each action is the whole handler.
- `SubmitNow` is `_submitFormNow`:
  - `disableForm`;
  - then either the regular submit (the page is `"left"`), or the reset of
    `visited` and one more request.
- `Activate(m)` is `activate`: the fields rescanned, `allFields` left empty
  (line 96 appends to the DOM element), and with `liveValidation` one more
  blur handler on each field. The formDiv's fields are new elements and
  have one handler; the fields outside it (`OuterFields`) keep theirs, so
  `outerHandlers` counts up with every reload. A blur on such a field sends
  `outerHandlers` validations at once. The count saturates at
  `HandlerBound = MaxInFlight + 1`: a blur that would send more than
  `MaxInFlight` validations cannot be taken in the model anyway, so every
  count above the bound behaves as the bound, and the saturation loses no
  behaviour within the bound on requests in flight.
- `RemoveAllValidationErrors` is `removeAllValidationErrors`: the error
  class comes off the current fields only, and `activateErrors` then adds
  the marks of the answer.
- `Spec` gives weak fairness to each request's answer. The browser completes or
  fails every request it sent. The user's clicks and blurs get no fairness.

**The abstract protocol.** `FormSubmission` states what spec sections 3 and
8 promise, without fields, validations or options: the form is `"idle"`,
`"busy"` or `"left"`, and `inflight` says whether an ajax submission is
out. `ReForm` defines the refinement mapping and checks
`ImplementsFormSubmission == Submission!Spec`, where
`Submission == INSTANCE FormSubmission WITH phase <- FormPhase, inflight <- SubmissionInFlight`.

| ReForm | FormSubmission |
|---|---|
| `page = "left"` / `enabled` / neither | `phase` = `"left"` / `"idle"` / `"busy"` |
| a submission request in `pending` | `inflight` |
| `submitForm` that calls `_submitFormNow` with `ajaxPost` | `SendAjax` |
| `submitForm` that submits the regular way | `SubmitRegular` |
| a validation answer that submits the regular way | `Redirect` |
| the submission's success callback | `Answer` |
| a failed submission | `Lose` |
| a failed validation that redirects | `Redirect` |
| every other step (blurs, validations, clicks on a disabled form) | a stutter |

### RePager

**Constants**
- The number of sortable columns `NCols`.
- The page numbers the links ask for (`MaxPage`).
- The header classes as the page loads (`InitClasses`). `PagerAssumption`
  states that at most one column has a class, which is what a server rendering
  one sort produces.

**Variables**
- `page`, `sort` and `cls`;
- the bag `pending`;
- `body`, the request whose rows are shown. At first it is the server's page 1
  in the initial sort.
- `wait`, which is `pwt` and the caption;
- `late`, true once 500 ms have passed since the last `goto`;
- `left`, true once an `ajaxError` redirect has happened.

**Actions**

| action | code |
|---|---|
| `GotoPage(p)` | a page link; `p = 0` is a falsy argument |
| `ClickSort(i)` | the whole header click handler, ending in `goto()` |
| `Response(r, empty)` | the success callback |
| `Failure` | `ajaxError` |
| `Tick` | time passing; it runs the timer callback if a timer is set |

The older `www/repager.js` is the same code without sorting. It is `RePager`
with `NCols = 0`.

### JsArray

- `arr` is the array (index i is position i + 1); a slot the language leaves
  empty when `length` grows is the model value `Hole`. `call` records the last
  method and its arguments, so that action properties can name it.
- A method without a loop is one action: `ArrayRemoveRange` (slice, set
  `length`, push; a negative length throws a RangeError and leaves the
  array), `ArrayAddUnique` and `ArrayClear`.
- A method with a loop is one action per iteration, with `pc` the method
  whose loop runs and `i` its loop variable: `CallRemove`, `RemoveIter`
  (the test `item == this[i]` and `splice(i, 1)`, then `i++`) and
  `RemoveReturn`; `CallIndexOf(o, from)` (the start index `IndexOfStart`
  of the `for` initializer), `IndexOfIter` and `IndexOfReturn`;
  `CallLastIndexOf(n)`, `LastIndexOfIter` and `LastIndexOfReturn` (the
  test of `while (i--)` is `LastIndexOfEnds`). The page's scripts run one
  at a time, so no other method starts while a loop runs: the calls are
  guarded by `Idle` (`pc = "idle"`, on an array of at most `MaxLen`
  items). `clear` is allowed on an array of any length, so a `removeRange`
  that grows the array past the bound is not a dead end.
- Indexes range one past either end.

### ReplaceAll

- The locals `c` and `i` are variables; `Loop` is one iteration of the
  `while`, `Return` the failed test. A `c` longer than `MaxLen` stands for a
  loop the browser stops (`pc = "stopped"`).
- `Spec` has weak fairness: the engine runs the loop without pause.

### ReUI

- `Absent` is an attribute that is not there. The hidden input's
  `checkValue` is `InMarkup(value)`: an absent value becomes the string
  `"undefined"`.
- `Init` is the state after `reCheckbox()` and `reRadio()` on a page in which
  any boxes are checked and at most one radio of a name is.
- `ClickBox`, `ReCheckboxVal(b, v)` (v the JS value true, false or anything
  else) and `ReRadioCheck(r)` (a label click or `reRadioVal`).
- `Plugin[x]` is `"reUI"` or `"checkbox2"`: the script whose handlers
  widget x has. The reUI actions are guarded by `"reUI"`; `CssLabelClick(b)`
  and `CssRadioClick(r)` are the click handlers of `cssCheckbox()`, and
  `CssCheckboxValue(b, on)` the value it writes (`checkValue ? checkValue :
  true` and `checkValue ? checkUnvalue : false`). `InitBoxes` writes that
  value for a checkbox2 box, which overwrites the markup's
  `value='" + check.checked + "'` at once.

## 3. Runs

Every cfg instantiates the `MC_` module.
- **ReForm:**
  - two field names and one name that is no field;
  - field `a` outside the formDiv;
  - a formDiv holding field `b` and an unnamed input, or a read-only `b`;
  - at most two equal requests in flight.
- **RePager:**
  - two columns and two pages;
  - column 1 sorted ascending;
  - one of each request in flight, and up to 15 distinct requests in all.

These bounds produce every case the properties distinguish:
- a field outside and inside the div;
- a reload that changes the fields;
- a read-only field;
- an unnamed input;
- an error on a non-field;
- two exchanges in flight;
- two sort columns;
- two pages.

`CHECK_DEADLOCK FALSE` is set only where the page can navigate away (regular
submit or an `ajaxError` redirect). The page's scripts really do stop there.

| run | expect | what it shows |
|---|---|---|
| reform_direct | pass | `TypeOK`; `SubmissionExclusive` (at most one ajax submission in flight, each once, never while enabled); `EventuallyReenabled`; `ImplementsFormSubmission`, the refinement with its fairness. Live validation and direct ajax submit, no failures. |
| reform_validate_post | pass | `NoSubmitOverFieldErrors`: with validation before a regular submit, the page navigates only on an answer with no error on a field. This holds with live validation and failures in any order, because `visitAllFields` makes every such error apply. |
| reform_double_submit | violation | a second click while the pre-submit validation is in flight starts two submissions (`disableForm` only runs in `_submitFormNow`) |
| reform_stuck | violation | a failed submission the error handler ignores or only alerts about leaves the form disabled for good |
| repager_sort | pass | `SortMatchesHeader` under page links, clicks, empty answers and failures |
| repager_stale | violation | two requests answered in the other order: the body shows a page the pager is not at |
| jsarray_calls | pass | `RemoveKeepsOthers` (remove keeps every other element, in order), `RemoveRangeAsDocumented` (removeRange removes exactly from..to for a from inside the array), `IndexOfAsStandard` and `LastIndexOfAsStandard` (the overrides answer as ECMAScript's methods, checked against `SelectInSubSeq` and `SelectLastInSeq`) over arrays of up to 3 items of 2 values, indexes -4..4 |
| jsarray_remove | violation | `remove(v)` on `<<v, v>>` leaves `<<v>>` |
| replaceall_returns | pass | `ShorterReplacementReturns`: for strings up to 3 over `a b`, patterns up to 2, replaceAll returns when the replacement is no longer than the pattern and differs from it |
| replaceall_loops | violation | an empty pattern, or a replacement containing the pattern, loops for ever |
| reui_widgets | pass | `TypeOK`, `HiddenMatchesLabel`, `RadioLabelsMatch` for four reUI boxes (every combination of an empty or set value and an absent or set unvalue), radios 3 + 1, and a checkbox2 box and two checkbox2 radios |
| reui_noval | violation | `reCheckboxVal(id, true)` on a box without a value attribute submits `"undefined"` |

Each property of a passing run has a mutant in `PROJECT.json`. The mutant is a
plausible bug in the mapped code, and TLC finds the property violated with it:
- a dropped guard (`submitForm` without its `enabled` test, `goto` without
  `if (!p)`);
- a missing step (no `visitAllFields`, no `enableForm` after an error list, no
  removal of the other headers' classes);
- a dropped filter (`activateErrors` without the field check);
- jsext: a splice of two, `removeRange` without its `|| this.length`
  fallback, a `replaceAll` loop that does not search again;
- jsext: an `indexOf` that clamps a negative `fromIndex` to 0 instead of
  counting from the end, a `lastIndexOf` loop written `while (--i)`;
- reUI: `checkUnvalue` without its `'off'` default, the unchecked branch
  writing `checkValue`, `_reRadioCheck` without clearing the others;
- ReForm's refinement: `submitForm` without its `enabled` test.

## 4. Proofs

TLAPS proves these for every value of the constants that satisfies the module's
assumption.

**`ReForm_proofs`**
- `TypeCorrect`: `Spec => []TypeOK`.
  - `TypeOK` includes `errored \subseteq fields`.
  - The proof is one step per action, with the lemmas `ScanType`,
    `AjaxSubmitType`, `ReqType` and `DivContentType`.
- `ValidatedSubmit`: assuming a regular (non-ajax) submit,
  `Spec => NoSubmitOverFieldErrors`.
  - The action property is not inductive on its own.
  - The proof rests on the inductive invariant `ValidatedSubmitInv`:
    - no ajax submission is ever in flight;
    - every validation in flight is scoped to the visited fields;
    - while a validation with the submit continuation is in flight, every
      field is visited. This is the only place the continuation is created,
      right after `visitAllFields`, and `visited` only grows until the page
      leaves.
  - From this, a validation answer that starts the submission had every field
    visited. So it applied every error on a field, and since none applied, it
    had none.
  - TLC checked `ValidatedSubmitInv` as an invariant of both ReForm
    configurations before it was proved.

- `Exclusive`: unless `ajaxPost` and `ajaxValidationOnSubmit` are both on,
  `Spec => []SubmissionExclusive`.
  - The inductive invariant `ExclusiveInv` adds to `TypeOK` and
    `SubmissionExclusive` that with `ajaxPost` no validation in flight
    carries the submit continuation. Without it, a validation answer could
    start a second submission (the reform_double_submit run shows exactly
    this when both options are on).
  - The lemma `ExclusiveRemove` covers every step that only takes a request
    out of the bag and does not enable the form; `BlurSends` states that a
    blur adds some k between 1 and `MaxInFlight` validations (k is the
    number of handlers of the field).
- `Implementation`: under the same hypothesis, `Spec =>
  Submission!SafeSpec`: every behaviour of the controller is a behaviour
  of the safety part of `FormSubmission`.
  - `Init` maps to the abstract `Init`.
  - `RefinementStep`: every step, under `ExclusiveInv` before and after,
    is a `FormSubmission` step or a stutter (`SubmissionStutter`: a step
    that keeps `page`, `enabled` and the submission entries of the bag).
    `ExclusiveInv` is what makes `SubmitResponse` an `Answer`: the answered
    submission was the only one, so none is left in flight.

**`RePager_proofs`**
- `TypeCorrect`.
- `SortCorrect`: `Spec => []SortMatchesHeader`.
  - The initial case uses the assumption on `InitClasses` and the lemma
    `InitSortSingle`: with one sorted column, the initializing loop finds it.
  - The step case uses the fact that only `ClickSort` changes the sort or the
    classes, and it sets both together.

**`ReUI_proofs`**
- `TypeCorrect`, on the lemmas `CheckType` and `AttrFacts` (what
  `_reCheckboxCheck` writes is an attribute string).
- `RadioCorrect`: `Spec => []RadioLabelsMatch`. It is inductive as it stands:
  `_reRadioCheck` sets a whole group at once.
- `ValuesCorrect`: if every box has a value attribute, `Spec =>
  []HiddenMatchesLabel`. `HiddenMatchesLabel` is inductive together with
  `TypeOK`; the key fact is that `InMarkup` is then the identity, so
  `reCheckboxVal` reads back the box's own value. Without the hypothesis the
  reui_noval run shows it fails.

**`JsArray_proofs`**
- `TypeCorrect`: `Spec => []TypeOK`. The array stays a sequence of items
  and `Hole`s, `call` a record of its method, and `i` a natural number.
  - It is proved through `TypeInv`, which adds `CallRunning`: while a loop
    runs, `call` is the call that started it. Without it, the record a
    loop returns, built from `call.item` and `call.from`, is not typed.
  - Lemmas on the operators: `SubSeqType`, `SpliceType`,
    `SliceFromType` and `SetLengthType` say what the `splice`, `slice` and
    `length =` operators return.
- `RemoveRangeCorrect`: `Spec => RemoveRangeAsDocumented`, for arrays of
  every length.
  - The lemma `RemoveRangeResult` carries the argument. The new length is
    `from` (counted from the end when negative), which makes the first
    part `SubSeq(a, 1, from)`. The slice starts at `to + 1`, or reaches past
    the end when `to` is -1, because of `|| this.length`.
  - `CallRunning` is what shows that no step other than a `removeRange`
    call leaves a `removeRange` call in `call`.
- `IndexOfCorrect` and `LastIndexOfCorrect`: `Spec => IndexOfAsStandard`
  and `Spec => LastIndexOfAsStandard`.
  - The loops are steps of the model, so what they compute is a state
    invariant rather than an induction over the array.
  - `IndexOfInv`: `i` has moved up from `IndexOfStart(arr, call.from)` past
    no index holding the item, and beyond the length only if it started
    there.
  - `LastIndexOfInv`: `i` is within `0..Len(arr)` and no index above it
    holds the item.
  - `LoopStep` proves both inductive. At the return, `IndexOfResult` and
    `LastIndexOfResult` show the result is the `Min` or `Max` of the
    indexes holding the item, which the `SequencesExt` reference
    definitions return (the lemmas `MinIs` and `MaxIs`).
  - TLC checked `Inv` as an invariant of the jsarray_calls configuration
    before it was proved.

**Left to TLC**
- The liveness properties `EventuallyReenabled` and the fairness part of
  `ImplementsFormSubmission` (that the mapped `WF(Answer \/ Lose)` follows
  from the fairness of the browser's answers). TLAPS does not handle
  liveness under fairness or `ENABLED`.
- The violated properties.
- `RemoveKeepsOthers`: its statement compares `SelectSeq` filters of two
  arrays, and `SelectSeq` is a recursive function over the sequence. That
  `splice` keeps the filter of the other items is induction over the
  array, which the installed provers cannot do.
- Everything about `ReplaceAll`: its reference definitions are `RECURSIVE`
  operators and rest on `JsStrings`' `CHOOSE` searches over strings.
  Its property `ShorterReplacementReturns` is also a liveness property.
- The runs check all of these for every input up to the bounds above.

## 5. Not modelled, and why

- **Field values, messages, ids and the error-message divs.** They do not
  change control flow. An error list is the set of names it reports.
- **Duplicate error names in one answer.** Line 142 skips a field already
  marked; the set semantics give the same marks.
- **`onAjaxSubmitSuccess`.** It is a user callback with arbitrary effects.
- **A second widget sharing the global `pwt`.** In this repository no caller
  passes `true` to `pleaseWait`, so no timer is ever set.
- **Disagreements with the spec that no run states.** While modelling,
  `ReForm` also showed that blur validations run while other exchanges are in
  flight, that `visited` can name a field a reload removed, that errors on
  names outside the form are dropped, and that `usedFieldNames` is always
  empty; `RePager` showed that the caption of `pleaseWait` never shows. They
  are listed as hazards in `PROJECT.json`, where the note says what the model
  does there.
- **The rest of jsext**: one-expression wrappers of native methods, the
  regular-expression trims, and methods no script here calls.
- **The slideshow.** Its behaviour is the cycle plugin's, which is not in the
  repository.
- **The radio selector's quoting** (`:radio[name=...]` unquoted): names are
  abstract values, so a name jQuery cannot parse is a hazard, not a run.
