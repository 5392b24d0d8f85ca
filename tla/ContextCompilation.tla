------------------------- MODULE ContextCompilation -------------------------
(***************************************************************************)
(* What an agent is told: a selection and a change set are compiled into a *)
(* context that fits a budget, private values are masked in it by rules    *)
(* about elements and then by patterns in every text, and a report lists   *)
(* what was masked.  A text is a sequence of pieces: words, or a value     *)
(* assigned to a key that is private or not.                               *)
(***************************************************************************)
EXTENDS Verification

Piece(as, private, value) == [as |-> as, private |-> private, value |-> value]
Plain(value) == <<Piece("words", FALSE, value)>>
Masks == {"[pattern]", "[high-entropy]", "[key]", "[rule]"}
isRedactedValue(v) == v \in Masks
Masked == Plain("[rule]")
alreadyRedacted(text) == text # <<>> /\ isRedactedValue(text[1].value)

\* A key is the sequence of its words.
SENSITIVE_WORDS == {"token", "password"}
SENSITIVE_WORD_PAIRS == {<<"api", "key">>}
NON_CREDENTIAL_COMPOUNDS == {<<"token", "budget">>}
isSensitiveKey(words) ==
  /\ words \notin NON_CREDENTIAL_COMPOUNDS
  /\ \E i \in DOMAIN words : \/ words[i] \in SENSITIVE_WORDS /\ (i = 1 \/ words[i - 1] # "not")
                             \/ i > 1 /\ <<words[i - 1], words[i]>> \in SENSITIVE_WORD_PAIRS

\* "random" stands for a long token of high entropy.
applyTextRules(v) == CASE v = "patterned" -> "[pattern]" [] v = "random" -> "[high-entropy]" [] OTHER -> v
looksLikeSecret(v) == v \in {"random", "prefixed"}
redactSensitiveAssignments(p) == IF p.as # "words" /\ p.private /\ ~isRedactedValue(p.value) THEN [p EXCEPT !.value = "[key]"] ELSE p
redactString(text) == [i \in DOMAIN text |-> redactSensitiveAssignments([text[i] EXCEPT !.value = applyTextRules(@)])]

\* An object is a function from paths, sequences of keys, to texts; all under a private key becomes one text.
Cut(path) ==
  LET at == {i \in DOMAIN path : isSensitiveKey(path[i])} IN IF at = {} THEN path ELSE SubSeq(path, 1, Min(at))
UnderPrivateKey(path) == \E i \in DOMAIN path : isSensitiveKey(path[i])
redactObject(doc) == [q \in {Cut(p) : p \in DOMAIN doc} |-> IF UnderPrivateKey(q) THEN Plain("[key]") ELSE redactString(doc[q])]

\* Why a text changed is guessed from the text.
attributeString(text) ==
  CASE \E i \in DOMAIN text : text[i].value = "patterned" -> "pattern"
    [] \E i \in DOMAIN text : looksLikeSecret(text[i].value) -> "high-entropy"
    [] OTHER -> "unknown"
createPrivacyReport(doc, redacted) ==
  LET Entry(q) == [field |-> q, why |-> IF UnderPrivateKey(q) THEN "sensitive-key" ELSE attributeString(doc[q])]
  IN  SetToSeq({Entry(q) : q \in {q \in DOMAIN redacted : q \notin DOMAIN doc \/ doc[q] # redacted[q]}})

-----------------------------------------------------------------------------
(* Rules about elements: a target is [tag, attributes, text], its attributes a function to texts *)

Rule(id, tag, has, attributes, action) == [id |-> id, tag |-> tag, has |-> has, attributes |-> attributes, action |-> action]
CREDENTIAL_AUTOCOMPLETE_TOKENS == <<"username", "current-password", "new-password", "password">>
DEFAULT_REDACTION_SELECTORS ==
  <<Rule("password-input", "input", {}, {<<"type", "password">>}, "mask-value")>>
  \o [i \in DOMAIN CREDENTIAL_AUTOCOMPLETE_TOKENS |->
        Rule("autocomplete", "input", {}, {<<"autocomplete", CREDENTIAL_AUTOCOMPLETE_TOKENS[i]>>}, "mask-value")]
  \o <<Rule("hidden-form-field", "input", {}, {<<"type", "hidden">>}, "mask-value"),
       Rule("data-private", Missing, {"data-private"}, {}, "exclude")>>

\* Mutant: the user's rules take the place of the defaults.
resolveSelectorRules_Replaces(rules) == IF rules # <<>> THEN rules ELSE DEFAULT_REDACTION_SELECTORS
resolveSelectorRules(rules) == DEFAULT_REDACTION_SELECTORS \o rules

Includes(text, word) ==
  \E i \in DOMAIN text : text[i].value = word \/ (word = "password" /\ text[i].value \in {"current-password", "new-password"})
descriptorMatches(target, rule) ==
  /\ rule.tag \in {Missing, target.tag}
  /\ rule.has \subseteq DOMAIN target.attributes
  /\ \A a \in rule.attributes : a[1] \in DOMAIN target.attributes /\ Includes(target.attributes[a[1]], a[2])

InTarget(name) == <<<<"target">>, <<name>>>>
Report(name, why) == <<[field |-> InTarget(name), why |-> why]>>
MaskText(s, id) ==
  IF s.target.text = <<>> \/ alreadyRedacted(s.target.text) THEN s
  ELSE [target |-> [s.target EXCEPT !.text = Masked], report |-> s.report \o Report("text", id)]
MaskValue(s, id) ==
  IF "value" \notin DOMAIN s.target.attributes \/ alreadyRedacted(s.target.attributes["value"]) THEN s
  ELSE [target |-> [s.target EXCEPT !.attributes["value"] = Masked], report |-> s.report \o Report("value", id)]
Exclude(s, rule) ==
  LET names == DOMAIN s.target.attributes
      triggers == IF rule.has # {} THEN rule.has ELSE {a[1] : a \in rule.attributes}
  IN  IF names \cap triggers = {} THEN s
      ELSE [target |-> [s.target EXCEPT !.attributes = [n \in names \ triggers |-> @[n]]], report |-> s.report \o Report("attributes", rule.id)]

\* All rules are matched against the target as it came; attributes with a private name come first.
redactTarget(target, rules) ==
  LET private == {n \in DOMAIN target.attributes : isSensitiveKey(<<n>>) /\ ~alreadyRedacted(target.attributes[n])}
      start == [target |-> [target EXCEPT !.attributes = [n \in DOMAIN @ |-> IF n \in private THEN Masked ELSE @[n]]],
                report |-> SetToSeq({[field |-> InTarget(n), why |-> "sensitive-attribute"] : n \in private})]
      Apply(s, rule) == MaskText(IF rule.action = "mask-value" THEN MaskValue(s, rule.id) ELSE Exclude(s, rule), rule.id)
  IN  FoldLeft(Apply, start, SelectSeq(rules, LAMBDA r : descriptorMatches(target, r)))

\* The target's own texts, by place: its attributes are a list, so their names are no keys.
TextsOf(target) == [n \in DOMAIN target.attributes \cup {"text"} |-> IF n = "text" THEN target.text ELSE target.attributes[n]]
redactTexts(target) == [target EXCEPT !.attributes = [n \in DOMAIN @ |-> redactString(@[n])], !.text = redactString(@)]
TextReport(target) ==
  LET changed == {n \in DOMAIN TextsOf(target) : redactString(TextsOf(target)[n]) # TextsOf(target)[n]}
  IN  SetToSeq({[field |-> InTarget(n), why |-> attributeString(TextsOf(target)[n])] : n \in changed})

\* The one way out, used for contexts: [target, fields, report, total] and whatever else.
redactContext(context, rules) ==
  LET first == redactTarget(context.target, resolveSelectorRules(rules))
      report == context.report \o first.report \o TextReport(first.target)
                \o createPrivacyReport(context.fields, redactObject(context.fields))
  IN  [context EXCEPT !.target = redactTexts(first.target), !.fields = redactObject(@), !.report = report, !.total = Len(report)]

-----------------------------------------------------------------------------
(* The budget *)

SNIPPET_TRUNCATE_LENGTH == 2
shortenSnippet(n) == IF n <= SNIPPET_TRUNCATE_LENGTH THEN n ELSE SNIPPET_TRUNCATE_LENGTH + 1
DetailOf(op) == IF op.kind = "resize-flex-pair" THEN 0 ELSE op.detail

\* The length of what is written: a token is two characters here.
estimate(c) ==
  (1 + Len(c.report) + Len(c.warnings) + Len(c.plan) + c.layout + c.style
   + FoldLeft(+, 0, [i \in DOMAIN c.candidates |-> 1 + c.candidates[i].snippet])
   + FoldLeft(+, 0, [i \in DOMAIN c.operations |-> 1 + c.operations[i].detail]) + 1) \div 2

REDUCTION_STEPS == <<"privacyReport", "warnings", "verificationPlan", "layout", "target", "source", "operations">>
reduce(c, section) ==
  CASE section = "privacyReport" -> [c EXCEPT !.report = <<>>]
    [] section = "warnings" -> [c EXCEPT !.warnings = <<>>]
    [] section = "verificationPlan" -> [c EXCEPT !.plan = <<>>]
    [] section = "layout" -> [c EXCEPT !.layout = 0]
    [] section = "target" -> [c EXCEPT !.style = 0]
    [] section = "source" -> [c EXCEPT !.candidates = [i \in DOMAIN @ |-> [@[i] EXCEPT !.snippet = shortenSnippet(@)]]]
    [] section = "operations" -> [c EXCEPT !.operations = [i \in DOMAIN @ |-> [@[i] EXCEPT !.detail = @ - DetailOf(c.operations[i])]]]

\* Sections are cut in this order until the rest fits; the source is noted as cut also where its snippets are short.
truncate(c, maxTokens) ==
  LET Step(s, section) ==
        LET next == reduce(s, section) IN
        IF estimate(s) <= maxTokens \/ (next = s /\ section # "source") THEN s
        ELSE [next EXCEPT !.truncated = Append(@, section)]
  IN  FoldLeft(Step, c, REDUCTION_STEPS)

-----------------------------------------------------------------------------
(* Compilation *)

ConfidenceRank(c) == CASE c = "high" -> 0 [] c = "medium" -> 1 [] c = "low" -> 2
pickBestIndex(candidates) ==
  LET Best(i) == \A j \in DOMAIN candidates : ConfidenceRank(candidates[i].confidence) <= ConfidenceRank(candidates[j].confidence)
  IN  IF candidates = <<>> THEN Null ELSE Min({i \in DOMAIN candidates : Best(i)})

\* Which element an operation is about, and whether anything about it is told besides.
summarizeLayout(op) ==
  CASE op.kind \in {"set-container-layout", "group-reorder", "group-reparent"} -> op.other
    [] OTHER -> op.target
summarizeStructural(op) == IF op.kind \in {"duplicate-element", "wrap-elements", "unwrap-element"} THEN op.other ELSE op.target
summarizeFlexPairResize(op) == [kind |-> op.kind, label |-> op.target, detail |-> 3]
buildLegacySummary(op, label) == [kind |-> op.kind, label |-> label, detail |-> 2]
summarizeOperation(op) ==
  CASE op.kind = "resize-flex-pair" -> summarizeFlexPairResize(op)
    [] op.kind \in UNION Opposites \cup {"duplicate-element"} -> buildLegacySummary(op, summarizeStructural(op))
    [] OTHER -> buildLegacySummary(op, summarizeLayout(op))

\* One line per assertion; an operation that has no plan is pending.
projectVerificationPlan(ops) ==
  FlattenSeq([i \in DOMAIN ops |->
    CASE ops[i].kind \in UnplannedKinds -> <<<<ops[i].kind, "pending">>>>
      [] ops[i].kind \in {"resize-flex-pair"} \cup GroupKinds \cup (NotedKinds \ {"screenshot-crop-ref", "suggested-diff"}) -> <<<<ops[i].kind, "run">>>>
      [] OTHER -> SetToSeq({<<ops[i].kind, a[1]>> : a \in assertionsForOperation(ops[i])})])

BREAKPOINT_KINDS == {"breakpoint-style-edit", "breakpoint-class-edit", "breakpoint-text-edit"}
\* A breakpoint that is given is told with the number of edits in its scope, else that of the first such edit.
resolveBreakpoint(explicit, ops) ==
  LET scoped == SelectSeq(ops, LAMBDA op : op.kind \in BREAKPOINT_KINDS) IN
  CASE explicit # Missing -> [viewport |-> explicit, scoped |-> Len(scoped)]
    [] scoped # <<>> -> [viewport |-> scoped[1].name, scoped |-> Len(scoped)]
    [] OTHER -> [viewport |-> Missing, scoped |-> 0]

\* The element's own selector, then those of its ancestors that differ.
collectSelectors(selectors) ==
  LET Add(found, s) == IF s = Missing \/ s \in ToSet(found) THEN found ELSE Append(found, s) IN FoldLeft(Add, <<>>, selectors)

compileContext(x) ==
  LET first == redactTarget(x.selection, resolveSelectorRules(x.rules))
      Base == [target |-> first.target, selectors |-> collectSelectors(x.selectors), fields |-> x.fields, report |-> first.report, total |-> Len(first.report),
               operations |-> [i \in DOMAIN x.operations |-> summarizeOperation(x.operations[i])],
               candidates |-> x.candidates, best |-> pickBestIndex(x.candidates), layout |-> x.layout, style |-> x.style,
               plan |-> projectVerificationPlan(x.operations), warnings |-> x.warnings, truncated |-> <<>>,
               breakpoint |-> resolveBreakpoint(x.breakpoint, x.operations),
               screenshot |-> IF x.optIn THEN x.screenshot ELSE Missing]
  IN  truncate(Base, x.maxTokens)

\* The report that goes with a change set, with or without a selection.
computeChangesetPrivacyReport(x) ==
  LET first == redactTarget(x.selection, resolveSelectorRules(x.rules)) IN
  first.report \o TextReport(first.target) \o createPrivacyReport(x.fields, redactObject(x.fields))

\* A snapshot is compiled and redacted in one go and has no budget.
redactVisionContextSnapshot(s, rules) == redactContext(s, rules)
compileVisionContextSnapshot(x) ==
  redactVisionContextSnapshot([target |-> x.selection, fields |-> x.fields, report |-> <<>>, total |-> 0], x.rules)

\* What the document says of the report, and its sections.
renderPrivacyReport(c) == [total |-> c.total, none |-> c.report = <<>>]
RequiredSections == {"Selected Target", "Operations", "Source", "Layout", "Verification Plan", "Privacy Report", "Metadata"}
OptionalSections(c) ==
  {s \in {"Breakpoint Context", "Screenshot Reference", "Warnings"} :
     CASE s = "Breakpoint Context" -> c.breakpoint.viewport # Missing
       [] s = "Screenshot Reference" -> c.screenshot # Missing
       [] OTHER -> c.warnings # <<>>}
renderMarkdown(c) == RequiredSections \cup OptionalSections(c)

-----------------------------------------------------------------------------
(* Properties *)

Secrets == {"patterned", "random"}
\* A piece may still be read: it holds a secret, or the value of a private key.
Readable(text) == \E i \in DOMAIN text : text[i].value \in Secrets \/ (text[i].as # "words" /\ text[i].private /\ text[i].value \notin Masks)
PrivateField(t) ==
  t.tag = "input" /\ \/ "type" \in DOMAIN t.attributes /\ (Includes(t.attributes["type"], "password") \/ Includes(t.attributes["type"], "hidden"))
                     \/ /\ "autocomplete" \in DOMAIN t.attributes
                        /\ Includes(t.attributes["autocomplete"], "password") \/ Includes(t.attributes["autocomplete"], "username")

\* What leaves is masked and the report is true: whatever rules the user adds, the value of a private field, an
\* attribute with a private name, the text of a private element and every secret in a text are unreadable; what the
\* report lists is what differs from what came, its total is its length, going through the redaction again changes
\* nothing, and the report made for the change set alone lists the same as that of the snapshot.  The context's
\* report is emptied when the budget asks for it.
LeavesMasked ==
  asked.about = "context" =>
    LET x == asked.x
        context == compileContext(x)
        sent == redactContext(context, x.rules)
        snapshot == compileVisionContextSnapshot(x)
        Kept(t) == DOMAIN t.attributes
        DocChanged(d) == {q \in DOMAIN d : q \notin DOMAIN x.fields \/ d[q] # x.fields[q]}
        Changed(t) == {n \in Kept(t) : t.attributes[n] # x.selection.attributes[n]} \cup {n \in {"text"} : t.text # x.selection.text}
                      \cup {n \in {"attributes"} : Kept(t) # DOMAIN x.selection.attributes}
        Listed(r) == {r[i].field : i \in DOMAIN r}
    IN  /\ \A out \in {sent.target, snapshot.target} :
             /\ \A n \in DOMAIN TextsOf(out) : ~Readable(TextsOf(out)[n])
             /\ \A n \in Kept(out) : isSensitiveKey(<<n>>) => alreadyRedacted(out.attributes[n])
             /\ "value" \in Kept(out) /\ PrivateField(x.selection) => alreadyRedacted(out.attributes["value"])
             /\ "data-private" \in DOMAIN x.selection.attributes =>
                  "data-private" \notin Kept(out) /\ (x.selection.text # <<>> => out.text = Masked)
        /\ \A d \in {sent.fields, snapshot.fields}, q \in DOMAIN sent.fields :
             q \in DOMAIN d /\ ~Readable(d[q]) /\ (UnderPrivateKey(q) => d[q] = Plain("[key]"))
        /\ Listed(snapshot.report) = {InTarget(n) : n \in Changed(snapshot.target)} \cup DocChanged(snapshot.fields)
        /\ context.truncated = <<>> => Listed(sent.report) = Listed(snapshot.report) /\ (renderPrivacyReport(sent).none => sent.total = 0)
        /\ redactContext(sent, x.rules) = sent
        /\ ToSet(computeChangesetPrivacyReport(x)) = ToSet(snapshot.report) /\ snapshot.total = Len(snapshot.report)
        /\ "Screenshot Reference" \in renderMarkdown(sent) => x.optIn

\* The budget cuts as little as it can, the least important first: each section that was cut was cut while the rest
\* did not yet fit, those that could have been cut before it were, the cut context fits or nothing is left to cut,
\* and the operations, what each is about, the detail of a resized pair, how the element can be found and the best
\* candidate are always told.
CutAsLittleAsNeeded ==
  asked.about = "context" =>
    LET x == asked.x
        full == compileContext([x EXCEPT !.maxTokens = 1000])
        context == compileContext(x)
        n == Len(context.truncated)
        place(section) == CHOOSE i \in DOMAIN REDUCTION_STEPS : REDUCTION_STEPS[i] = section
        Before(k) == FoldLeft(reduce, full, SubSeq(REDUCTION_STEPS, 1, k))
    IN  /\ n > 0 => estimate(Before(place(context.truncated[n]) - 1)) > x.maxTokens
        /\ [context EXCEPT !.truncated = <<>>] = IF n = 0 THEN full ELSE Before(place(context.truncated[n]))
        /\ estimate(context) > x.maxTokens => estimate(context) = estimate(Before(Len(REDUCTION_STEPS)))
        /\ Len(context.operations) = Len(x.operations) /\ Len(context.candidates) = Len(x.candidates)
        /\ \A i \in DOMAIN x.operations :
             /\ context.operations[i].label \in {x.operations[i].target, x.operations[i].other}
             /\ x.operations[i].kind = "resize-flex-pair" => context.operations[i] = summarizeOperation(x.operations[i])
        /\ IsInjective(context.selectors) /\ ToSet(context.selectors) = ToSet(x.selectors) \ {Missing}
        /\ context.best # Null =>
             \A j \in DOMAIN x.candidates : ConfidenceRank(x.candidates[context.best].confidence) <= ConfidenceRank(x.candidates[j].confidence)

\* The context that leaves for an agent is masked, reported and cut as the policy and the
\* budget say (redaction-engine.ts, token-budget.ts).
ContextIsSafe == LeavesMasked /\ CutAsLittleAsNeeded
=============================================================================
