----------------------------- MODULE SourceMaps -----------------------------
(***************************************************************************)
(* Where the selected element comes from: the style rules that match it    *)
(* and the scripts of the page name source maps, which are fetched within  *)
(* caps, parsed and searched.  A text is what it holds: the references to  *)
(* maps, a map, or lines of selectors.  A path is the sequence of its      *)
(* segments; a compound selector is the sequence of its simple selectors,  *)
(* each one column wide.                                                   *)
(***************************************************************************)
EXTENDS ChangeOperations

(* The map itself: a mapping is a sequence of lines, a line of segments, a *)
(* segment of base 64 digits (-1 is a character that is none).             *)

Signed(n) == IF n % 2 = 1 THEN -(n \div 2) ELSE n \div 2
decodeVlqSegment(digits) ==
  LET Step(s, d) ==
        IF s.bad \/ d < 0 THEN [s EXCEPT !.bad = TRUE]
        ELSE LET sum == s.sum + (d % 32) * 32 ^ s.shift IN
             IF d >= 32 THEN [s EXCEPT !.sum = sum, !.shift = @ + 1]
             ELSE [s EXCEPT !.values = Append(@, Signed(sum)), !.sum = 0, !.shift = 0]
      end == FoldLeft(Step, [values |-> <<>>, sum |-> 0, shift |-> 0, bad |-> FALSE], digits)
  IN  IF end.shift > 0 /\ ~end.bad THEN Append(end.values, Signed(end.sum)) ELSE end.values

\* Columns count from the start of a generated line, the other numbers from their last value.
decodeMappings(lines) ==
  LET Piece4(v) == IF Len(v) >= 5 THEN 4 ELSE IF Len(v) = 4 THEN 3 ELSE 0
      AddSegment(s, digits) ==
        LET v == decodeVlqSegment(digits)
            at == [k \in 1..4 |-> IF k <= Piece4(v) THEN s.at[k] + v[k + 1] ELSE s.at[k]]
        IN  IF v = <<>> THEN s
            ELSE [s EXCEPT !.column = @ + v[1], !.at = at, !.line = Append(@, <<s.column + v[1]>> \o SubSeq(at, 1, Piece4(v)))]
      AddLine(s, line) ==
        LET t == FoldLeft(AddSegment, [column |-> 0, at |-> s.at, line |-> <<>>], line) IN [at |-> t.at, lines |-> Append(s.lines, t.line)]
  IN  FoldLeft(AddLine, [at |-> <<0, 0, 0, 0>>, lines |-> <<>>], lines).lines

NoRoot == [scheme |-> FALSE, absolute |-> FALSE, segments |-> <<>>]
joinSourceRoot(root, path) ==
  IF root = NoRoot \/ path.scheme \/ path.absolute THEN path ELSE [root EXCEPT !.segments = @ \o path.segments]

\* What may be absent is a sequence of at most one.  Names that are no strings are left out, texts that are none keep their place.
parseSourceMap(map) ==
  IF map.version # 3 THEN <<>>
  ELSE LET named == SelectSeq(map.sources, LAMBDA s : s # <<>>)
       IN  <<[sources |-> [i \in DOMAIN named |-> joinSourceRoot(map.root, named[i][1])],
              sourcesContent |-> map.contents, segments |-> decodeMappings(map.mappings)]>>

\* The last compound of a selector without pseudo-classes and attributes.
normalizeSelectorNeedle(selector) == SelectSeq(Last(selector), LAMBDA part : part \notin {"pseudo", "attribute"})

\* A text is a sequence of lines, a line a sequence of [at, compound, head]: a head is followed by { or a comma.
findSelectorInContent(content, needle) ==
  LET places == {<<l, k>> : l \in DOMAIN content, k \in UNION {DOMAIN content[i] : i \in DOMAIN content}}
      at == {p \in places : p[2] \in DOMAIN content[p[1]] /\ content[p[1]][p[2]].head /\ IsSuffix(needle, content[p[1]][p[2]].compound)}
      first == CHOOSE p \in at : \A q \in at : p[1] < q[1] \/ (p[1] = q[1] /\ p[2] <= q[2])
      head == content[first[1]][first[2]]
  IN  IF at = {} THEN <<>>
      ELSE <<[line |-> first[1] - 1, column |-> head.at + Len(head.compound) - Len(needle), end |-> head.at + Len(head.compound)]>>

\* The source with the range and the range.
findSelectorRange(map, selector) ==
  LET needle == normalizeSelectorNeedle(selector)
      RangeIn(i) == findSelectorInContent(map.sourcesContent[i][1], needle)
      with == {i \in DOMAIN map.sourcesContent : map.sourcesContent[i] # <<>> /\ i \in DOMAIN map.sources /\ RangeIn(i) # <<>>}
  IN  IF needle = <<>> \/ with = {} THEN <<>> ELSE <<[source |-> map.sources[Min(with)], range |-> RangeIn(Min(with))[1]]>>

isBundlerRuntimeNoise(s) ==
  \/ s[1] = "(webpack)"
  \/ s[1] = "webpack" /\ Len(s) > 1 /\ s[2] \in {"bootstrap", "runtime", "sharing", "container"}
  \/ \E i \in 1..(Len(s) - 1) : s[i] = "@vite"
  \/ \E i \in 1..(Len(s) - 2) : SubSeq(s, i, i + 2) = <<"vite", "dist", "client">>
isOsAbsolutePath(s) == s[1] \in {"home", "Users"}

\* The virtual scheme, the project before "/./", leading dots and a root that is not the machine's go.
normalizeMapSourcePath(path) ==
  LET s == path.segments
      inProject == ~path.absolute /\ Len(s) > 2 /\ s[2] = "."
      t == IF inProject THEN SubSeq(s, 3, Len(s)) ELSE s
      dots == {i \in DOMAIN t : i < Len(t) /\ \A j \in 1..i : t[j] = "."}
      u == IF path.absolute \/ dots = {} THEN t ELSE SubSeq(t, Max(dots) + 1, Len(t))
  IN  IF u = <<>> \/ isBundlerRuntimeNoise(u) THEN <<>>
      ELSE <<[scheme |-> FALSE, absolute |-> path.absolute /\ isOsAbsolutePath(u), segments |-> u]>>

-----------------------------------------------------------------------------
(* Confidence *)

qualifiesMapHigh(f) ==
  f.hasMap /\ f.hasRange /\ ~f.modulePathOnly /\ f.evidence \cap {"text-search", "marker", "module-path-only", "absent"} = {}
assignMapOriginConfidence(f) ==
  CASE "text-search" \in f.evidence -> [confidence |-> IF f.hasMap THEN "medium" ELSE "none", warnings |-> {"text-search"}]
    [] "text-search" \notin f.evidence /\ "marker" \in f.evidence -> [confidence |-> "none", warnings |-> {"marker"}]
    [] OTHER ->
         IF ~f.hasMap \/ "absent" \in f.evidence THEN [confidence |-> "none", warnings |-> {}]
         ELSE IF f.modulePathOnly \/ "module-path-only" \in f.evidence THEN [confidence |-> "medium", warnings |-> {"module-path-only"}]
         ELSE IF (f.hasRange \/ "map-with-range" \in f.evidence) /\ qualifiesMapHigh([f EXCEPT !.hasRange = TRUE])
           THEN [confidence |-> "high", warnings |-> {}]
         ELSE [confidence |-> "medium", warnings |-> {"map-without-range"}]

enforceMapOriginNeverWrongHigh(o) ==
  LET d == assignMapOriginConfidence([hasMap |-> o.mapUrl # Missing \/ o.relativePath # <<>>, hasRange |-> o.range # <<>>,
                                      modulePathOnly |-> o.kind = "js" \/ "module-path-only" \in o.warnings, evidence |-> {}])
  IN  IF o.confidence # "high" \/ d.confidence = "high" THEN o
      ELSE [o EXCEPT !.confidence = "medium", !.warnings = @ \cup d.warnings \cup {"never-wrong-high"}]

-----------------------------------------------------------------------------
(* Fetching under caps.  `web` says what a URL answers; the pass `s` holds  *)
(* its budget, what it has read and the origins it has found.               *)

NoBudget == [loaded |-> 0, bytes |-> 0, now |-> 0, truncated |-> FALSE, fetched |-> <<>>, texts |-> <<>>, maps |-> <<>>, origins |-> <<>>]

canStartMapFetch(s, caps) == ~s.truncated /\ s.loaded < caps.maps /\ s.now < caps.wallClock
fitsMapBytes(s, caps, bytes) == bytes <= caps.bytesPerMap /\ s.bytes + bytes <= caps.bytesTotal
acceptMapBytes_Silent(s, caps, bytes) ==
  IF fitsMapBytes(s, caps, bytes) THEN [s EXCEPT !.loaded = @ + 1, !.bytes = @ + bytes] ELSE s

acceptMapBytes(s, caps, bytes) ==
  IF fitsMapBytes(s, caps, bytes) THEN [s EXCEPT !.loaded = @ + 1, !.bytes = @ + bytes] ELSE [s EXCEPT !.truncated = TRUE]
\* The pass after the fetch, and the text if there is one.
fetchTextCapped(s, web, caps, url, counted) ==
  LET r == web[url]
      after == [s EXCEPT !.now = @ + r.took, !.fetched = Append(@, url)]
      counting == counted /\ r.outcome = "ok"
  IN  IF counted /\ ~canStartMapFetch(s, caps) THEN [pass |-> [s EXCEPT !.truncated = TRUE], text |-> <<>>]
      ELSE [pass |-> IF counting THEN acceptMapBytes(after, caps, r.bytes) ELSE after,
            text |-> IF r.outcome = "ok" /\ r.bytes > 0 /\ (counting => fitsMapBytes(after, caps, r.bytes)) THEN <<r.text>> ELSE <<>>]

\* A reference is [url, relative]; the last one of a text counts, and a relative one needs a base.
extractSourceMappingUrl(text) == IF text.refs = <<>> THEN <<>> ELSE <<Last(text.refs)>>
resolveMapUrl(ref, base) == IF ref = <<>> \/ (ref[1].relative /\ base = Missing) THEN Missing ELSE ref[1].url

\* An input is a rule or a script: [href, text, mapUrl] and, of a rule, its selector.
discoverMapUrl(s, web, caps, input) ==
  LET cached == input.href \in DOMAIN s.texts
      fetching == input.mapUrl = <<>> /\ input.text = <<>> /\ input.href # Missing /\ ~cached
      fetch == fetchTextCapped(s, web, caps, input.href, FALSE)
      text == CASE input.text # <<>> -> input.text [] fetching -> fetch.text
                [] OTHER -> IF cached THEN s.texts[input.href] ELSE <<>>
      given == resolveMapUrl(input.mapUrl, input.href)
  IN  [pass |-> IF fetching THEN [fetch.pass EXCEPT !.texts = @ @@ (input.href :> fetch.text)] ELSE s,
       url |-> IF input.mapUrl # <<>> THEN (IF given = Missing THEN input.mapUrl[1].url ELSE given)
               ELSE IF text = <<>> THEN Missing ELSE resolveMapUrl(extractSourceMappingUrl(text[1]), input.href)]
discoverScriptMapUrl(s, web, caps, script) == discoverMapUrl(s, web, caps, script)

\* Whatever the fetch brings is remembered under its URL, a failure too.
MapOf(text) == IF text = <<>> \/ text[1].map = <<>> THEN <<>> ELSE parseSourceMap(text[1].map[1])
Remembered(fetch, url) == [fetch.pass EXCEPT !.maps = @ @@ (url :> MapOf(fetch.text))]
loadMap(s, web, caps, url) == IF url \in DOMAIN s.maps THEN s ELSE Remembered(fetchTextCapped(s, web, caps, url, TRUE), url)
loadScriptMap(s, web, caps, url) == loadMap(s, web, caps, url)
firstSourceAsRelative(sources) == IF sources = <<>> THEN <<>> ELSE <<sources[1]>>
Evidence(range, js) == [hasMap |-> TRUE, hasRange |-> range, modulePathOnly |-> js, evidence |-> {}]
RuleOrigin(rule, url, map) ==
  LET found == findSelectorRange(map, rule.selector)
      d == assignMapOriginConfidence(Evidence(found # <<>>, FALSE))
  IN  enforceMapOriginNeverWrongHigh(
        [sourceUrl |-> rule.href, mapUrl |-> url, kind |-> "css", confidence |-> d.confidence, warnings |-> d.warnings,
         relativePath |-> IF found # <<>> THEN <<found[1].source>> ELSE firstSourceAsRelative(map.sources),
         range |-> IF found # <<>> THEN <<[found[1].range EXCEPT !.line = @ + 1]>> ELSE <<>>])
\* One input after another: where its map is, then the map, then its origins.
PassOver(inputs, Discover(_, _), Load(_, _), AddOrigins(_, _, _)) ==
  LET WithMap(t, input, url) == IF t.maps[url] = <<>> THEN t ELSE [t EXCEPT !.origins = AddOrigins(@, input, [url |-> url, map |-> t.maps[url][1]])]
      WithUrl(found, input) == IF found.url = Missing THEN found.pass ELSE WithMap(Load(found.pass, found.url), input, found.url)
      Resolve(s, input) == IF s.truncated THEN s ELSE WithUrl(Discover(s, input), input)
  IN  FoldLeft(Resolve, NoBudget, inputs)
resolveCssOrigins(rules, web, caps) ==
  PassOver(rules, LAMBDA s, rule : discoverMapUrl(s, web, caps, rule), LAMBDA s, url : loadMap(s, web, caps, url),
           LAMBDA origins, rule, of : Append(origins, RuleOrigin(rule, of.url, of.map)))

ScriptOrigin(script, url, path) ==
  LET d == assignMapOriginConfidence(Evidence(FALSE, TRUE))
  IN  enforceMapOriginNeverWrongHigh(
        [sourceUrl |-> script.href, mapUrl |-> url, kind |-> "js", confidence |-> d.confidence, warnings |-> d.warnings,
         relativePath |-> path, range |-> <<>>])
resolveJsOrigins(scripts, web, caps) ==
  LET AddPath(origins, script, url, path) ==
        IF path = <<>> \/ \E i \in DOMAIN origins : origins[i].relativePath = path THEN origins
        ELSE Append(origins, ScriptOrigin(script, url, path))
  IN  PassOver(scripts, LAMBDA s, script : discoverScriptMapUrl(s, web, caps, script),
               LAMBDA s, url : loadScriptMap(s, web, caps, url),
               LAMBDA origins, script, of :
                 FoldLeft(LAMBDA o, path : AddPath(o, script, of.url, normalizeMapSourcePath(path)), origins, of.map.sources))

-----------------------------------------------------------------------------
(* The page: style sheets [href, readable, text, rules], script elements    *)
(* [src, text].                                                             *)

RefOf(href) == IF href = "" THEN Missing ELSE href
readInlineStylesheetText(sheet) == IF sheet.href = "" /\ sheet.element THEN sheet.text ELSE <<>>
collectMatchingCssRules(sheets) ==
  LET RulesOf(sheet) ==
        IF ~sheet.readable THEN <<>>
        ELSE LET matching == SelectSeq(sheet.rules, LAMBDA r : r.style /\ r.matches)
             IN  [i \in DOMAIN matching |-> [selector |-> matching[i].selector, href |-> RefOf(sheet.href),
                                             text |-> readInlineStylesheetText(sheet), mapUrl |-> <<>>]]
  IN  FlattenSeq([i \in DOMAIN sheets |-> RulesOf(sheets[i])])
scriptsFromElements(elements) ==
  LET some == SelectSeq(elements, LAMBDA e : e.src # "" \/ e.text # <<>>)
  IN  [i \in DOMAIN some |-> [href |-> RefOf(some[i].src), text |-> some[i].text, mapUrl |-> <<>>]]
mergeOriginResults(css, js) == [origins |-> css.origins \o js.origins, originsTruncated |-> css.truncated \/ js.truncated]
\* Both passes over the page; their results are put together with mergeOriginResults.
resolveSelectionOrigins(page, web, caps) ==
  [css |-> resolveCssOrigins(collectMatchingCssRules(page.sheets), web, caps),
   js |-> resolveJsOrigins(scriptsFromElements(page.scripts), web, caps)]

-----------------------------------------------------------------------------
(* Properties *)

NoCaps == [maps |-> 1000, bytesPerMap |-> 1000, bytesTotal |-> 1000, wallClock |-> 1000]

\* A pass keeps to its caps, asks for no URL twice, and tells the first of the origins that there
\* would be without caps, all of them unless it says that some are left out.
CapsAreTold(got, all, caps) ==
  /\ got.loaded <= caps.maps /\ got.bytes <= caps.bytesTotal
  /\ \A i, j \in DOMAIN got.fetched : got.fetched[i] = got.fetched[j] => i = j
  /\ IsPrefix(got.origins, all.origins)
  /\ ~got.truncated => got.origins = all.origins

\* Where the texts of a map hold a head that ends in the selector of a rule: source, line, place in the line.
HeadsOf(rule, map) ==
  LET needle == normalizeSelectorNeedle(rule.selector)
      texts == [i \in {k \in DOMAIN map.sources \cap DOMAIN map.contents : map.contents[k] # <<>>} |-> map.contents[i][1]]
      lines == UNION {{<<i, l>> : l \in DOMAIN texts[i]} : i \in DOMAIN texts}
      heads == UNION {{<<p[1], p[2], k>> : k \in DOMAIN texts[p[1]][p[2]]} : p \in lines}
      At(p) == texts[p[1]][p[2]][p[3]]
  IN  {p \in heads : needle # <<>> /\ At(p).head /\ IsSuffix(needle, At(p).compound)}
Sooner(p, q) == \E n \in 1..3 : p[n] < q[n] /\ \A m \in 1..(n - 1) : p[m] = q[m]

\* The origin o is that of the rule: it is of the map that the rule's own sheet refers to; it is of high confidence
\* exactly where a text of that map holds such a head, and then names the first of them.
IsOf(o, rule, web) ==
  LET map == web[o.mapUrl].text.map[1]
      sheet == IF rule.text # <<>> THEN rule.text[1] ELSE web[rule.href].text
      heads == HeadsOf(rule, map)
      Named(p) ==
        LET head == map.contents[p[1]][1][p[2]][p[3]]
            to == head.at + Len(head.compound)
        IN  /\ o.relativePath[1] = joinSourceRoot(map.root, map.sources[p[1]][1])
            /\ o.range[1] = [line |-> p[2], column |-> to - Len(normalizeSelectorNeedle(rule.selector)), end |-> to]
  IN  /\ o.sourceUrl = rule.href /\ o.mapUrl = Last(sheet.refs).url
      /\ (\A k \in DOMAIN map.sources : map.sources[k] # <<>>) =>
           /\ o.confidence = "high" <=> heads # {}
           /\ heads # {} => \E p \in heads : Named(p) /\ \A q \in heads : ~Sooner(q, p)

\* What is said of the passes over the rules and the scripts, and of their sum: `got` within the
\* caps, `every` without.
OriginsAreTold(x, got, every, all) ==
  LET rules == collectMatchingCssRules(x.page.sheets)
      origins == got.css.origins
  IN  /\ CapsAreTold(got.css, every.css, x.caps)
      /\ CapsAreTold(got.js, every.js, x.caps)
      /\ \A i, j \in DOMAIN got.js.origins : got.js.origins[i].relativePath = got.js.origins[j].relativePath => i = j
      /\ all.originsTruncated \/ Len(all.origins) = Len(every.css.origins) + Len(every.js.origins)
      /\ \A i \in DOMAIN all.origins : all.origins[i].confidence = "high" => all.origins[i].kind = "css"
      /\ \E of \in [DOMAIN origins -> DOMAIN rules] :
           /\ \A i, j \in DOMAIN origins : i < j => of[i] < of[j]
           /\ \A i \in DOMAIN origins : IsOf(origins[i], rules[of[i]], x.web)

\* The origins of a selection: what is left out for the caps is told; a file is named once among the scripts; and the
\* origins of the rules are each of a rule of its own, in order, of high confidence exactly where the map holds a head
\* that ends in the rule's last compound, and then at the first of them.  That is the rule's own place only where no
\* other head ends so: for .btn it may be the place of .x.btn, or of a rule of the same selector under another media
\* query, with high confidence all the same (the README of map-origins, 46-56, says that high is never wrong).
\* A map that lists its sources by strings is assumed (otherwise texts are paired with the names of other files).
OriginsAreTrue ==
  asked.about = "origins" =>
    \A results \in {[caps \in {asked.x.caps, NoCaps} |-> resolveSelectionOrigins(asked.x.page, asked.x.web, caps)]} :
      OriginsAreTold(asked.x, results[asked.x.caps], results[NoCaps],
                     mergeOriginResults(results[asked.x.caps].css, results[asked.x.caps].js))

\* What a generator writes for the absolute positions: every number as the difference to the last one.
Digits(n) == IF n < 32 THEN <<n>> ELSE <<32 + (n % 32), n \div 32>>
WriteVlq(v) == Digits(IF v < 0 THEN 1 - 2 * v ELSE 2 * v)
WriteMappings(lines) ==
  LET WriteSegment(s, seg) ==
        LET fields == Len(seg) - 1
            last == [k \in 1..4 |-> IF k <= fields THEN seg[k + 1] ELSE s.at[k]]
        IN  [column |-> seg[1], at |-> last,
             line |-> Append(s.line, WriteVlq(seg[1] - s.column) \o FlattenSeq([k \in 1..fields |-> WriteVlq(seg[k + 1] - s.at[k])]))]
      WriteLine(s, line) ==
        LET t == FoldLeft(WriteSegment, [column |-> 0, at |-> s.at, line |-> <<>>], line) IN [at |-> t.at, lines |-> Append(s.lines, t.line)]
  IN  FoldLeft(WriteLine, [at |-> <<0, 0, 0, 0>>, lines |-> <<>>], lines).lines

\* Reading a map's mappings gives the positions that were written, over lines and sources.
MappingsAreRead == asked.about = "mappings" => decodeMappings(WriteMappings(asked.x)) = asked.x

\* What is read from a page's source maps is what was written there, every origin is that of
\* its own rule and says so with confidence only where the map holds its selector, and what
\* the caps leave out is told (resolve-selection-origins.ts, source-map.ts).
OriginsAreRead == OriginsAreTrue /\ MappingsAreRead
==============================================================================
