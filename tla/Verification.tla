---------------------------- MODULE Verification ----------------------------
(***************************************************************************)
(* The verification engine: how the recorded element is found again on the *)
(* page, what each kind of operation asserts of it, the verdict over all   *)
(* operations, and the checks beside it: the repairs of accessibility      *)
(* issues, the masking of screenshots and their retention.  A page is a    *)
(* sequence of elements in document order.                                 *)
(***************************************************************************)
EXTENDS ChangeOperations

\* What a selector matches, as places in the page, in document order.
NotFound == 0
Matching(page, Test(_)) == SelectSeq([i \in DOMAIN page |-> i], LAMBDA i : Test(page[i]))
First(s) == IF s = <<>> THEN NotFound ELSE s[1]

\* The ancestors that the two fingerprints hash: all of them where the element is recorded; where it is verified
\* the walk up stops at the body, and html is only there for a child of the body.
recordedAncestry(e) == e.under
buildAncestry(e) == IF Len(e.under) > 2 THEN Tail(e.under) ELSE e.under
Fingerprint(ancestry, e) == <<ancestry, e.tag, e.source, e.role>>
computeFingerprint(e) == Fingerprint(buildAncestry(e), e)

\* A durable identity: the occurrence of the selector, with its fingerprint and, where it is known, its source.
resolveDurableElement(page, c) ==
  LET matches == Matching(page, LAMBDA e : c.selector \in e.selectors)
      i == IF c.occurrence + 1 \in DOMAIN matches THEN matches[c.occurrence + 1] ELSE NotFound
  IN  IF i # NotFound /\ computeFingerprint(page[i]) = c.fingerprint /\ c.source \in {page[i].source, Missing} THEN i ELSE NotFound

bySource(page, c) ==
  IF c.source = Missing THEN NotFound
  ELSE First(Matching(page, LAMBDA e : e.source = c.source /\ c.fingerprint \in {computeFingerprint(e), Missing}))
byRoleName(page, c) ==
  IF Missing \in {c.role, c.name} THEN NotFound
  ELSE First(Matching(page, LAMBDA e : e.role = c.role /\ e.name = c.name /\ c.tag \in {e.tag, Missing}))
bySelector(page, c) == IF c.selector = Missing THEN NotFound ELSE First(Matching(page, LAMBDA e : c.selector \in e.selectors))
byFingerprint(page, c) ==
  IF c.fingerprint = Missing THEN NotFound
  ELSE First(Matching(page, LAMBDA e : computeFingerprint(e) = c.fingerprint /\ c.tag \in {e.tag, Missing}))

FirstFound(s) == First(SelectSeq(s, LAMBDA i : i # NotFound))

\* An occurrence that does not resolve is not searched for in any other way.
resolveTarget(page, c) ==
  IF c.occurrence = Null THEN FirstFound(<<bySource(page, c), byRoleName(page, c), bySelector(page, c), byFingerprint(page, c)>>)
  ELSE IF Missing \in {c.selector, c.fingerprint} THEN NotFound
  ELSE resolveDurableElement(page, c)

\* How the members of a group are found: by source, by selector, by runtime id.
resolveRef(page, ref) ==
  FirstFound(<<bySource(page, [ref EXCEPT !.fingerprint = Missing]),
               bySelector(page, ref), First(Matching(page, LAMBDA e : e.id = ref.id))>>)

-----------------------------------------------------------------------------
(* What each kind asserts: <<aspect, name, value>> of the element found *)

StyleKinds == {"style-edit", "resize-element"}
TextKinds == {"text-edit", "breakpoint-text-edit"}
ClassSwaps == {"class-replace", "breakpoint-class-edit"}
\* Kinds of which only a note is left, that passes, and kinds for which there is no plan: creating it throws.
NotedKinds == {"set-component-prop", "pseudo-style-edit", "screenshot-crop-ref", "suggested-diff"}
UnplannedKinds == {"remove-style", "set-attribute", "position-element", "insert-element", "remove-element",
                   "duplicate-element", "wrap-elements", "unwrap-element"}
GroupKinds == {"align-elements", "distribute-elements", "multi-select-group"}

assertComputedStyle(property, value) == <<"css", property, value>>
assertClass(name, present) == <<"class", name, IF present THEN "there" ELSE Empty>>
assertText(value) == <<"text", Empty, value>>
assertSiblingOrder(at) == <<"index", Empty, at>>
assertParent(container) == <<"parent", Empty, container>>

buildCoreOperationAssertions(op) ==
  CASE op.kind \in StyleKinds -> {assertComputedStyle(op.name, op.to)}
    [] op.kind = "text-edit" -> {assertText(op.to)}
    [] op.kind \in {"class-add", "class-remove"} -> {assertClass(op.name, op.kind = "class-add")}
    [] op.kind = "class-replace" -> {assertClass(op.from, FALSE), assertClass(op.to, TRUE)}
    [] op.kind = "reorder-child" -> {assertSiblingOrder(op.to)}
    [] OTHER -> {}
buildMetadataOperationAssertions(op) ==
  CASE op.kind = "breakpoint-style-edit" -> {assertComputedStyle(op.name, op.to)}
    [] op.kind = "breakpoint-text-edit" -> {assertText(op.to)}
    [] op.kind = "breakpoint-class-edit" -> {assertClass(op.from, FALSE), assertClass(op.to, TRUE)}
    [] OTHER -> {}
\* The sizing of a child is looked for in its width, whatever its axis.
buildLayoutAssertions(op) ==
  CASE op.kind = "group-reorder" -> {assertSiblingOrder(op.to)}
    [] op.kind = "grid-reorder" /\ op.name = "dom-order" -> {assertSiblingOrder(op.to)}
    [] op.kind = "grid-reorder" -> {assertComputedStyle("grid-row-start", op.to), assertComputedStyle("grid-column-start", op.to)}
    [] op.kind = "grid-span" -> {assertComputedStyle(IF op.name = "column" THEN "grid-column-end" ELSE "grid-row-end", op.to)}
    [] op.kind = "set-child-sizing" /\ op.to # Empty -> {assertComputedStyle("width", op.to)}
    [] OTHER -> {}
buildReparentAssertions(op) == {assertParent(op.other), assertSiblingOrder(op.to)}

assertionsForOperation(op) ==
  buildCoreOperationAssertions(op) \cup buildMetadataOperationAssertions(op) \cup buildLayoutAssertions(op)
  \cup CASE op.kind = "set-container-layout" -> {assertComputedStyle(op.name, op.to)}
         [] op.kind = "reparent-element" -> buildReparentAssertions(op)
         [] op.kind = "group-reparent" -> {assertParent(op.other)}
         [] OTHER -> {}

Holds(e, a) == e.shows[<<a[1], a[2]>>] = a[3]

\* The members as they are read: by their place in the document, and by row and column, rows within a pixel.
ROW_TOLERANCE == 1
Reads(a, b) ==
  IF (IF a.y > b.y THEN a.y - b.y ELSE b.y - a.y) > ROW_TOLERANCE THEN a.y < b.y
  ELSE a.x < b.x \/ (a.x = b.x /\ a.index < b.index)
readingOrderPreserved(es) == \A i, j \in DOMAIN es : es[i].index < es[j].index => Reads(es[i], es[j])

assertGroup(page, op) ==
  LET at == [i \in DOMAIN op.to |-> resolveRef(page, op.to[i])] IN
  /\ NotFound \notin Range(at)
  /\ op.kind # "multi-select-group" => readingOrderPreserved([i \in DOMAIN at |-> page[at[i]]])

\* A pair: container, members and witnesses are found by their durable identities and are exactly the items in
\* flow, and the sizes are those of the operation, within a pixel.
WithinTolerance(a, b) == Near(a, b, 1)
resolveFlexPair(page, op) ==
  LET Find(ref) == resolveDurableElement(page, ref) IN
  [box |-> Find(op.container), pair |-> [i \in 1..2 |-> Find(op.members[i].element)],
   witnesses |-> [i \in DOMAIN op.witnesses |-> Find(op.witnesses[i].element)]]
FoundIn(f) == Range(f.pair) \cup Range(f.witnesses)

assertStructure(page, f) ==
  /\ f.box \notin FoundIn(f) /\ Cardinality(FoundIn(f)) = 2 + Len(f.witnesses)
  /\ page[f.box].display = "flex" /\ ~page[f.box].text
  /\ FoundIn(f) = {i \in DOMAIN page : page[i].parent = page[f.box].id /\ page[i].inFlow}

buildFlexResizeGeometryAssertions(page, op, f) ==
  LET change == [i \in 1..2 |-> page[f.pair[i]].main - op.members[i].before] IN
  /\ \A i \in 1..2 : WithinTolerance(page[f.pair[i]].main, op.members[i].after)
  /\ WithinTolerance(change[1], op.delta) /\ WithinTolerance(change[2], -op.delta) /\ WithinTolerance(change[1] + change[2], 0)
  /\ WithinTolerance(op.members[1].after + op.members[2].after, op.members[1].before + op.members[2].before)
  /\ WithinTolerance(page[f.box].main, op.containerAfter)
  /\ \A i \in DOMAIN f.witnesses : WithinTolerance(page[f.witnesses[i]].main, op.witnesses[i].after)

assertPair(page, op, target) ==
  LET f == resolveFlexPair(page, op) IN
  /\ NotFound \notin FoundIn(f) \cup {f.box} /\ target = f.pair[1]
  /\ assertStructure(page, f)
  /\ \A i \in 1..2 : page[f.pair[i]].flex = op.members[i].flex
  /\ buildFlexResizeGeometryAssertions(page, op, f)

-----------------------------------------------------------------------------
(* Verdicts *)

STABILITY_WINDOW == 2
\* Mutant: a mutation does not start the window again.
waitForHmrComplete_Once(mutations, start, timeout) == [at |-> start + STABILITY_WINDOW, stable |-> TRUE]

\* The page is stable at the first poll with no mutation in the window before it; the last poll is at the timeout.
\* The time before the wait starts counts for nothing.
waitForHmrComplete(mutations, start, timeout) ==
  LET Polls == {start + p : p \in {q \in 1..timeout : q % STABILITY_WINDOW = 0 \/ q = timeout}}
      Quiet == {p \in Polls : \A m \in {start} \cup {t \in mutations : start <= t /\ t <= p} : p - m >= STABILITY_WINDOW}
  IN  [at |-> IF Quiet = {} THEN start + timeout ELSE Min(Quiet), stable |-> Quiet # {}]

\* Only the operation's target or element is a candidate: the child, container or members of the other kinds are not,
\* unless the operation is also `named`, with the target that the format leaves optional.
NamesItsElement == OPERATION_KINDS \ ({"reorder-child", "grid-reorder", "grid-span", "set-container-layout", "set-child-sizing",
                                       "group-reorder", "group-reparent"} \cup GroupKinds \cup UnplannedKinds)
NoCandidate == [id |-> Missing, source |-> Missing, selector |-> Missing, occurrence |-> Null, fingerprint |-> Missing,
                role |-> Missing, name |-> Missing, tag |-> Missing]
candidateFromOperation(op) ==
  IF op.kind \in NamesItsElement \/ op.named THEN [op.target EXCEPT !.role = Missing, !.name = Missing, !.tag = Missing] ELSE NoCandidate

runVerification(page, op, candidate, cleared, stable) ==
  LET target == resolveTarget(page, candidate) IN
  cleared /\ stable /\ target # NotFound
  /\ CASE op.kind = "resize-flex-pair" -> assertPair(page, op, target)
       [] op.kind \in GroupKinds -> assertGroup(page, op)
       [] OTHER -> \A a \in assertionsForOperation(op) : Holds(page[target], a)

\* A page over time: as it was until the hot update, and as it is from then on.
PageAt(seen, t) == IF seen.updated # Null /\ seen.updated <= t THEN seen.after ELSE seen.page

\* Nothing to verify fails.  The preview is cleared for each operation, which then waits for the page in its turn; the
\* first without a plan throws.
runContentVerification(seen, ops, cleared, timeout) ==
  LET Verify(so, op) ==
        LET wait == waitForHmrComplete(seen.mutations, so.at, timeout) IN
        [at |-> wait.at,
         passed |-> so.passed /\ runVerification(PageAt(seen, wait.at), op, candidateFromOperation(op), cleared, wait.stable)]
  IN  CASE \E op \in Range(ops) : op.kind \in UnplannedKinds -> "throws"
        [] ops # <<>> /\ FoldLeft(Verify, [at |-> 0, passed |-> TRUE], ops).passed -> "pass"
        [] OTHER -> "fail"

-----------------------------------------------------------------------------
(* Accessibility issues, each with the assertion that must hold once it is repaired *)

NATIVELY_FOCUSABLE_TAGS == {"a", "button", "input"}
LABELABLE_TAGS == {"input"}
IMPLICIT_ROLE(tag) == CASE tag = "a" -> "link" [] tag = "button" -> "button" [] tag = "input" -> "textbox" [] OTHER -> Missing

isKeyboardFocusable(e) ==
  IF e.tag \in NATIVELY_FOCUSABLE_TAGS THEN e.tag = "a" => e.href \notin {Missing, Empty}
  ELSE e.tabindex \in {"0", "1"}
hasAccessibleName(e) == {e.label, e.labelledby, e.content} \ {Missing, Empty} # {}

keyboardIssues(e) ==
  {issue \in {"clickable-widget-not-keyboard-accessible", "link-without-href-not-focusable", "interactive-widget-missing-role"} :
     CASE issue = "clickable-widget-not-keyboard-accessible" -> e.click /\ e.tag \notin NATIVELY_FOCUSABLE_TAGS /\ ~isKeyboardFocusable(e)
       [] issue = "link-without-href-not-focusable" -> e.tag = "a" /\ e.href \in {Missing, Empty}
       [] OTHER -> e.click /\ e.tag \notin NATIVELY_FOCUSABLE_TAGS /\ e.role \in {Missing, Empty}}
roleNameIssues(e) ==
  {issue \in {"missing-accessible-name", "role-contradicts-implicit"} :
     IF issue = "missing-accessible-name" THEN e.tag \in NATIVELY_FOCUSABLE_TAGS /\ ~hasAccessibleName(e)
     ELSE e.role \notin {Missing, Empty, IMPLICIT_ROLE(e.tag)} /\ IMPLICIT_ROLE(e.tag) # Missing}
labelIssues(e) ==
  IF e.tag \in LABELABLE_TAGS /\ ~e.associated /\ {e.label, e.labelledby} \subseteq {Missing, Empty} /\ ~e.hidden
  THEN {"missing-label-control-association"} ELSE {}
focusIssues(e, es) ==
  IF Len(es) >= 2 /\ e.tabindex = "-1" /\ e.tag \in NATIVELY_FOCUSABLE_TAGS THEN {"interactive-element-removed-from-tab-sequence"} ELSE {}
\* By tabindex, where those of none come first, and by order: is any element away from its place?
Sorted(ranks) == \A i, j \in DOMAIN ranks : i < j => ranks[i] <= ranks[j]
Rank(e) == CASE e.tabindex = "1" -> 1 [] e.tabindex = "-1" -> -1 [] OTHER -> 0
focusOrderDiverges(es) == (\E e \in Range(es) : Rank(e) > 0) /\ ~Sorted([i \in DOMAIN es |-> Rank(es[i])])
detectCssOrderUsage(es) == ~Sorted([i \in DOMAIN es |-> es[i].order])

collectAccessibilitySuggestions(e, es) ==
  keyboardIssues(e) \cup roleNameIssues(e) \cup labelIssues(e) \cup focusIssues(e, es)
  \cup {issue \in {"focus-order-diverges-from-dom", "dom-visual-order-desync"} :
          IF issue = "dom-visual-order-desync" THEN detectCssOrderUsage(es) ELSE focusOrderDiverges(es)}

buildFocusableAssertion(e) ==
  ~e.inert /\ (e.tag \in NATIVELY_FOCUSABLE_TAGS \cup {"details"} \/ e.tabindex \notin {Missing, "-1"} \/ e.href # Missing)
AttributePresent(v) == v \notin {Missing, Empty}
assertName(e, name) == (IF e.label # Missing THEN e.label ELSE e.content) = name

\* The assertion of an issue of the element `flagged`, asked of the element e that it has become.
verificationAssertion(issue, flagged, e) ==
  CASE issue = "clickable-widget-not-keyboard-accessible" -> buildFocusableAssertion(e)
    [] issue = "link-without-href-not-focusable" -> AttributePresent(e.href)
    [] issue = "interactive-widget-missing-role" -> AttributePresent(e.role)
    [] issue = "missing-label-control-association" -> AttributePresent(e.label)
    [] issue = "missing-accessible-name" -> assertName(e, Empty)
    [] issue = "role-contradicts-implicit" -> (IF e.role # Missing THEN e.role ELSE IMPLICIT_ROLE(e.tag)) = flagged.role
    [] issue = "dom-visual-order-desync" -> e.order = 0
    [] OTHER -> e.tabindex = "0"

-----------------------------------------------------------------------------
(* Screenshots: a region is [x, w, why], `why` what makes it private *)

CredentialMarks == {"password", "credential name", "credential autocomplete"}
classifyRegion(r) ==
  CASE "data-private" \in r.why -> "data-private"
    [] "data-private-token" \in r.why -> "hidden-token"
    [] "input" \notin r.why -> Missing
    [] "password" \in r.why -> "credential-field"
    [] {"hidden", "token name"} \subseteq r.why -> "hidden-token"
    [] CredentialMarks \cap r.why # {} -> "credential-field"
    [] OTHER -> Missing
discoverRedactableRegions(rs) == {r \in rs : classifyRegion(r) # Missing}
rectIntersects(a, b) == a.x < b.x + b.w /\ b.x < a.x + a.w

\* What is private after the capture and no mask touches.
recheckCapture(masked, after) == {r \in discoverRedactableRegions(after) : ~\E m \in masked : rectIntersects(m, r)}

\* The overlay is hidden for the capture and is back also when the capture throws.
captureScreenshotCrop(optIn, before, after, throws) ==
  LET masked == discoverRedactableRegions(before)
      Outcome(what, overlay) == [outcome |-> what, overlay |-> overlay, masked |-> masked]
  IN  CASE ~optIn -> [Outcome("opt-in-required", <<>>) EXCEPT !.masked = {}]
        [] optIn /\ throws -> Outcome("throws", <<"suppress", "restore">>)
        [] recheckCapture(masked, after) # {} -> Outcome("post-capture-recheck-failed", <<"suppress", "restore">>)
        [] OTHER -> Outcome("captured", <<"suppress", "restore">>)

\* The rows that have expired and whose file could be deleted; a row is [id, expires].
computeExpiry(capturedAt, retention) == capturedAt + retention
runRetentionCleanup(rows, now, locked) == {r \in rows : r.expires <= now /\ r.id \notin locked}
-----------------------------------------------------------------------------
(* Properties *)

\* Whether the source has taken the operation, as the element e shows; of a noted kind nothing is read.
Took(op, e) ==
  CASE op.kind \in ClassSwaps -> e.shows[<<"class", op.from>>] = Empty /\ e.shows[<<"class", op.to>>] = "there"
    [] op.kind \in {"class-add", "class-remove"} -> e.shows[<<"class", op.name>>] = After(op)
    [] op.kind = "reparent-element" -> e.shows[<<"parent", Empty>>] = op.other /\ e.shows[<<"index", Empty>>] = After(op)
    [] op.kind = "group-reparent" -> e.shows[<<"parent", Empty>>] = op.other
    [] op.kind \in TextKinds -> e.shows[<<"text", Empty>>] = After(op)
    [] op.kind \in {"reorder-child", "group-reorder"} -> e.shows[<<"index", Empty>>] = After(op)
    [] OTHER -> e.shows[<<"css", op.name>>] = After(op)

Hints(c) == {<<"source", c.source>>, <<"selector", c.selector>>, <<"fingerprint", c.fingerprint>>}
HintsAt(e) ==
  {<<"source", e.source>>, <<"fingerprint", computeFingerprint(e)>>} \cup {<<"selector", s>> : s \in e.selectors}
Known(c) == {h \in Hints(c) : h[2] # Missing}
\* The recorded element is on the page with all that was recorded of it, and no other element has any of that.
Recognisable(page, c) ==
  /\ Known(c) # {}
  /\ \A e \in Range(page) : IF e.id = c.id THEN Known(c) \subseteq HintsAt(e) ELSE Known(c) \cap HintsAt(e) = {}
  /\ \E e \in Range(page) : e.id = c.id

\* A verdict is earned: a pass means that there was something to verify, the preview was cleared, and for every
\* operation there was a moment, after a window without a mutation, at which its own element had taken it - so not
\* before a hot update that came while the page was not yet still.  Of the kinds of which only a note is left, a pass
\* says that their element is there and no more.  Where the page came to rest, was not still before its update, and
\* every operation was taken, operations that have a plan and name their element pass.  (An update that starts only
\* when the page has been still for a window comes too late: the verdict is then that of the page before it.)
\* A pair passes only while what the two share is kept and nothing else is in their
\* line, a group only while all members are found and are read in the order of the document.
VerdictIsEarned ==
  /\ asked.about = "verdict" =>
       LET x == asked.x
           verdict == runContentVerification(x.seen, x.operations, x.cleared, x.timeout)
           Still(t) == STABILITY_WINDOW <= t /\ x.seen.mutations \cap (t - STABILITY_WINDOW + 1)..t = {}
           TookAt(op, t) ==
             \E e \in Range(PageAt(x.seen, t)) : e.id = op.target.id /\ (op.kind \in NotedKinds \/ Took(op, e))
           Settled == {t \in 1..x.timeout : t % STABILITY_WINDOW = 0 /\ Still(t) /\ x.seen.mutations \subseteq 0..t}
           InTime == \A t \in 1..x.timeout : Still(t) /\ x.seen.updated # Null => x.seen.updated <= t
           Named == \A op \in Range(x.operations) : op.kind \in NamesItsElement \/ (op.named /\ op.kind \notin UnplannedKinds)
       IN  (\A op \in Range(x.operations), page \in {x.seen.page, x.seen.after} : Recognisable(page, op.target)) =>
             /\ verdict = "pass" =>
                  /\ x.operations # <<>> /\ x.cleared
                  /\ \A i \in DOMAIN x.operations : \E t \in 1..(i * x.timeout) : Still(t) /\ TookAt(x.operations[i], t)
             /\ /\ x.operations # <<>> /\ x.cleared /\ Named /\ InTime
                /\ \E t \in Settled : \A op \in Range(x.operations) : TookAt(op, t)
                => verdict = "pass"
  /\ asked.about = "pair verdict" =>
       LET x == asked.x
           Line == {e \in Range(x.page) : e.inFlow /\ e.parent = x.op.container.id}
           Pair == {e \in Line : e.id \in {x.op.members[i].element.id : i \in 1..2}}
           passes == runVerification(x.page, x.op, candidateFromOperation(x.op), TRUE, TRUE)
       IN  /\ passes =>
                /\ Cardinality(Pair) = 2 /\ Cardinality(Line) = 2 + Len(x.op.witnesses)
                /\ WithinTolerance(FoldSet(LAMBDA e, sum : e.main + sum, 0, Pair), x.op.members[1].before + x.op.members[2].before)
           /\ x.asRecorded => passes
  /\ asked.about = "group verdict" =>
       LET x == asked.x IN
       runVerification(x.page, x.op, candidateFromOperation(x.op), TRUE, TRUE) =>
         \A i, j \in DOMAIN x.op.to :
           \E a, b \in Range(x.page) :
             /\ a.id = x.op.to[i].id /\ b.id = x.op.to[j].id
             /\ x.op.kind # "multi-select-group" /\ a.y + ROW_TOLERANCE < b.y => a.index < b.index

\* What a suggested repair adds to the element.
Repaired(issue, e) ==
  CASE issue = "clickable-widget-not-keyboard-accessible" -> [e EXCEPT !.tabindex = "0"]
    [] issue = "link-without-href-not-focusable" -> [e EXCEPT !.href = "#"]
    [] issue = "interactive-widget-missing-role" -> [e EXCEPT !.role = "button"]
    [] OTHER -> [e EXCEPT !.label = "Name"]
CheckedIssues == {"clickable-widget-not-keyboard-accessible", "link-without-href-not-focusable",
                  "interactive-widget-missing-role", "missing-label-control-association"}

Cells(r) == r.x..(r.x + r.w - 1)

\* What is suggested or captured is checked: the assertion of these issues fails on the element as it was flagged and
\* passes on the repaired one, which has the issue no more.  A capture that is kept was opted in to; what was private
\* before it and is where it was is masked in full, and nothing that became private or moved is wholly unmasked - that
\* it may show in part is what the recheck lets pass (screenshot-redaction.ts:136).  The overlay comes back whatever
\* happens.  A file that cannot be deleted keeps its row, and the next sweep that can leaves nothing that has expired
\* and takes nothing that has not.
ChecksAreReal ==
  /\ asked.about = "repair" =>
       \A issue \in collectAccessibilitySuggestions(asked.x.element, <<asked.x.element, asked.x.next>>) \cap CheckedIssues :
         LET e == asked.x.element
             fixed == Repaired(issue, e)
         IN  /\ e.tag # "details" => ~verificationAssertion(issue, e, e)
             /\ ~e.inert => verificationAssertion(issue, e, fixed)
             /\ issue \notin collectAccessibilitySuggestions(fixed, <<fixed, asked.x.next>>)
  /\ asked.about = "capture" =>
       LET x == asked.x
           result == captureScreenshotCrop(x.optIn, x.before, x.after, x.throws)
           Masked == UNION {Cells(m) : m \in result.masked}
       IN  /\ result.outcome = "captured" =>
                /\ x.optIn
                /\ \A r \in x.after : classifyRegion(r) # Missing =>
                     /\ Cells(r) \cap Masked # {}
                     /\ r \in x.before => Cells(r) \subseteq Masked
           /\ result.overlay # <<>> => result.overlay[Len(result.overlay)] = "restore"
           /\ x.before = x.after => result.outcome # "post-capture-recheck-failed"
  /\ asked.about = "retention" =>
       LET x == asked.x
           left == x.rows \ runRetentionCleanup(x.rows, x.now, x.locked)
           Expired(now) == {r \in x.rows : r.captured + x.retention <= now}
       IN  /\ x.rows \ left \subseteq Expired(x.now)
           /\ \A r \in x.rows : r.id \in x.locked => r \in left
           /\ left \ runRetentionCleanup(left, x.now + 1, {}) = x.rows \ Expired(x.now + 1)

\* A fingerprint that differs from the captured one means that the document has changed.
FingerprintIsCurrent ==
  asked.about = "fingerprint" => computeFingerprint(asked.x) = Fingerprint(recordedAncestry(asked.x), asked.x)

\* A verdict of the content script, and what is suggested or captured beside it, is
\* earned on the page that was edited (content-verification.ts, accessibility-suggestions.ts,
\* screenshot-policy.ts).
VerdictsAreReal == VerdictIsEarned /\ ChecksAreReal
=============================================================================
