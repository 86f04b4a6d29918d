---------------------------- MODULE CaptureChanges ----------------------------
(***************************************************************************)
(* What one website check is compared with and what it decides:            *)
(* capture_changes.py, with title_evidence.py, title_filter.py, the layout *)
(* comparison of page_structure.py and the protocol deduplication of       *)
(* screenshots.py.  Everything here is a function of its arguments; the    *)
(* history it is applied to is CaptureHistory.                             *)
(*                                                                         *)
(* A page has a title, the wording of its text, its form and key elements, *)
(* and a place in the space of layouts: a number, two layouts matching     *)
(* when they are at most one apart (compare_layout is a similarity with a  *)
(* threshold: matching is not transitive).  A check reads a page           *)
(*   full     to its end, with every fingerprint,                          *)
(*   budget   to its end, but ran out of time for its structure,           *)
(*   partial  not to its end: what it has of the title is all it knows.    *)
(***************************************************************************)
EXTENDS Integers, Sequences

\* compare_layout finds two layouts 95 % alike, or at least 85 %.
Similar(x, y) == x - y \in -1..1
Close(x, y)   == x - y \in -2..2

\* A title is "none", "address" (only the scanned name) or has meaning.
Meaningful(title) == title \notin {"none", "address"}

\* A check that has not happened: what an absent row gives to every get().
NoProbe ==
  [status |-> "none", place |-> "none", title |-> "none", depth |-> "partial",
   words |-> "none", forms |-> "none", layout |-> 0,
   skip |-> "none", base |-> 0, twin |-> "none"]

NoRow == [run |-> 0, day |-> 0, route |-> "none", status |-> "none", title |-> "none", probe |-> NoProbe]

IsRow(row) == row.run # 0

-------------------------------------------------------------------------------
(* Evidence in one saved check.                                            *)

Responds(p) == p.status = "http_response"

\* The final answer was a 2xx.
Succeeds(p) == Responds(p) /\ p.place # "error"

TitleStatus(p) ==
  IF ~Responds(p) THEN "unavailable"
  ELSE IF p.title # "none" THEN "found"
  ELSE IF p.depth = "partial" THEN "unread" ELSE "missing"

Complete(p) == Succeeds(p) /\ TitleStatus(p) # "unread"

\* A full text is only there when the scan asked for text.
TextComplete(p) == Succeeds(p) /\ p.depth # "partial" /\ p.words # "none"

ContentOf(p) == <<p.words, p.forms>>

StructureKnown(p) == Responds(p) /\ p.depth = "full"

HtmlTitle(p) == Complete(p) /\ Meaningful(p.title)

BrowserTitle(row) == row.status = "captured" /\ Meaningful(row.title)

AddressOnly(row) ==
  \/ Complete(row.probe) /\ row.probe.title = "address"
  \/ row.status = "captured" /\ row.title = "address"

\* The static title first, then a verified screenshot's; an address is neither.
ObservedTitle(row) ==
  CASE HtmlTitle(row.probe) ->
         [title |-> row.probe.title, status |-> "found"]
    [] ~HtmlTitle(row.probe) /\ BrowserTitle(row) ->
         [title |-> row.title, status |-> "found"]
    [] ~HtmlTitle(row.probe) /\ ~BrowserTitle(row) ->
         [title  |-> "none",
          status |-> IF AddressOnly(row) THEN "address_only"
                     ELSE IF TitleStatus(row.probe) = "found" THEN "unavailable"
                     ELSE TitleStatus(row.probe)]

StructureComparison(now, then) ==
  CASE ~(StructureKnown(now) /\ StructureKnown(then))  -> "unavailable"
    [] StructureKnown(now) /\ StructureKnown(then) ->
         IF ~Similar(now.layout, then.layout) \/ now.forms # then.forms THEN "changed"
         ELSE IF now.layout = then.layout THEN "unchanged" ELSE "largely_unchanged"

Substantial(now, then) == StructureComparison(now, then) = "changed" /\ ~Close(now.layout, then.layout)

FormChanged(now, then) == TextComplete(now) /\ TextComplete(then) /\ now.forms # then.forms

-------------------------------------------------------------------------------
(* compare.  A baseline is a record of rows, one per kind of evidence,     *)
(* with the routes of its text and its image.                              *)

Quiet == {"unchanged", "text_only_update", "minor_content_update"}

UnchangedSkips == {"unchanged_title", "unchanged_content", "unchanged_structure",
                   "text_only_update", "minor_content_update"}

TitleOld(b) ==
  IF IsRow(b.title) THEN b.title
  ELSE IF Complete(b.previous.probe) THEN b.previous ELSE NoRow

\* The row the content is compared with: the one of its kind, or the last.
Old(b, setup) ==
  LET own == IF setup.comparison = "text" THEN b.text ELSE TitleOld(b)
  IN  IF IsRow(own) THEN own ELSE b.previous

\* _title_changed, against the title known when the check was compared.
TitleChanged(known, title) ==
  /\ title.status = "found"
  /\ known.status \in {"missing", "found"}
  /\ title.title # known.title

Probed(p) == [NoRow EXCEPT !.probe = p]

\* The page is the same site in the same place through the same route.
StableStructure(b, setup, p) ==
  LET then == Old(b, setup).probe IN
  /\ setup.comparison = "text" /\ TextComplete(p) /\ TextComplete(then)
  /\ StructureComparison(p, then) \in {"unchanged", "largely_unchanged"}
  /\ p.place = then.place
  /\ ObservedTitle(TitleOld(b)).status \in {"found", "missing", "address_only"}
  /\ ObservedTitle(Probed(p)).title = ObservedTitle(TitleOld(b)).title
  /\ ObservedTitle(Probed(p)).title = ObservedTitle(b.text).title
  /\ b.textRoute = setup.route

TextChange(b, setup, p) ==
  LET then   == Old(b, setup).probe
      how    == StructureComparison(p, then)
      stable == StableStructure(b, setup, p)
      worded == p.words # then.words
  IN  IF how = "changed" THEN "structure_changed"
      ELSE IF stable /\ how = "largely_unchanged" THEN "minor_content_update"
      ELSE IF worded THEN IF stable THEN "text_only_update" ELSE "text_changed"
      ELSE IF ContentOf(p) # ContentOf(then) THEN "structure_changed" ELSE "unchanged"

TitleChange(b, p) ==
  IF ObservedTitle(TitleOld(b)).status \in {"found", "missing", "address_only"} THEN "unchanged"
  ELSE IF ObservedTitle(Probed(p)).status = "found" THEN "first_title_observation" ELSE "unknown"

\* content_change: what the page's content did, whatever its title did.  A check that
\* failed left no preflight to compare with: the next is a first observation again.
ContentChange(b, setup, p) ==
  LET text == setup.comparison = "text" IN
  CASE ~(IF text THEN TextComplete(p) ELSE Complete(p)) -> "unknown"
    [] (IF text THEN TextComplete(p) ELSE Complete(p)) ->
         IF Old(b, setup).probe = NoProbe THEN "first_observation"
         ELSE IF ~text THEN TitleChange(b, p)
         ELSE IF TextComplete(Old(b, setup).probe) THEN TextChange(b, setup, p)
         ELSE "first_text_observation"

WebChange(b, setup, p) ==
  IF Complete(p) /\ TitleChanged(ObservedTitle(TitleOld(b)), ObservedTitle(Probed(p)))
  THEN "title_changed" ELSE ContentChange(b, setup, p)

ConnectionChange(b, p) ==
  IF {p.status, b.connection.probe.status} = {"http_response", "no_http_response"}
  THEN IF Responds(p) THEN "became_available" ELSE "became_unavailable" ELSE "none"

\* The old image still stands for a page whose wording alone moved on.
Lineage(b, setup, p) ==
  LET then == Old(b, setup).probe IN
  /\ StableStructure(b, setup, p)
  /\ \/ then.base = b.image.run /\ then.skip \in UnchangedSkips \ {"unchanged_title"}
     \/ /\ TextComplete(b.image.probe) /\ ContentOf(b.image.probe) = ContentOf(then)
        /\ ObservedTitle(b.image).title = ObservedTitle(b.text).title
        /\ b.image.probe.place = then.place

SameContent(p, q) == TextComplete(q) /\ ContentOf(p) = ContentOf(q)

\* Faulty: the layout is only compared with the last check, not with the image.
ImageOfSamePlace(b, setup, p) ==
  /\ IF setup.comparison = "title" THEN Complete(b.image.probe) ELSE TextComplete(b.image.probe)
  /\ ObservedTitle(b.image).title = ObservedTitle(Probed(p)).title
  /\ p.place = b.image.probe.place

\* The saved screenshot is one of this page.
ImageMatches(b, setup, p) ==
  LET shot == b.image.probe IN
  /\ IF setup.comparison = "title" THEN Complete(shot)
     ELSE /\ TextComplete(shot)
          /\ IF StructureKnown(shot)
             THEN StructureComparison(p, shot) \in {"unchanged", "largely_unchanged"}
             ELSE SameContent(p, shot) \/ Lineage(b, setup, p)
  /\ ObservedTitle(b.image).title = ObservedTitle(Probed(p)).title
  /\ p.place = shot.place

\* A small step from the last check can still be a large one from the image.
Drifted(b, setup, p) ==
  setup.comparison = "text" /\ StructureComparison(p, b.image.probe) = "changed"

First(ladder) ==
  ladder[CHOOSE i \in DOMAIN ladder : ladder[i][1] /\ \A j \in 1..(i - 1) : ~ladder[j][1]][2]

\* Why the browser has to look, in the order the code asks; "none" when it need not.
Recapture(b, setup, p, web, today, files) ==
  LET shot  == b.image
      known == IF setup.comparison = "text" THEN TextComplete(p) ELSE Complete(p)
  IN First(<<
       <<setup.mode # "changes",                  "full_report">>,
       <<web \notin Quiet \cup {"unknown"},       web>>,
       <<web = "unknown" /\ ~known,               "current_uncertain">>,
       <<web = "unknown",                         "previous_unavailable">>,
       <<~IsRow(shot),                            "image_baseline_missing">>,
       <<~ImageMatches(b, setup, p),              "image_baseline_mismatch">>,
       <<b.route # setup.route,                   "proxy_route_changed">>,
       <<shot.run \notin files,                   "image_baseline_unavailable">>,
       <<today < shot.day,                        "image_baseline_future_date">>,
       <<setup.refresh > 0 /\ today - shot.day >= setup.refresh, "periodic_refresh">>,
       <<TRUE,                                    "none">> >>)

SkipReason(b, setup, p, web) ==
  IF web \in {"text_only_update", "minor_content_update"} THEN web
  ELSE IF setup.comparison = "title" THEN "unchanged_title"
  ELSE IF SameContent(p, b.image.probe) THEN "unchanged_content" ELSE "unchanged_structure"

\* What compare writes into the check, and its answer: queue the browser or not.
Decision(b, setup, p, found, why) ==
  LET judged == Responds(p) /\ setup.mode = "changes" /\ found \in Quiet /\ IsRow(b.image)
      web    == IF judged /\ Drifted(b, setup, p) THEN "structure_changed" ELSE found
      reason == IF why = "none" THEN SkipReason(b, setup, p, web) ELSE why
  IN [web |-> web, content |-> ContentChange(b, setup, p), reason |-> reason,
      queued |-> Responds(p) /\ why # "none",
      skip |-> IF why = "none" THEN reason ELSE "none",
      base |-> IF why = "none" THEN b.image.run ELSE 0,
      twin |-> "none", wasTwin |-> b.previous.probe.twin,
      known |-> ObservedTitle(TitleOld(b)),
      major |-> \/ FormChanged(p, Old(b, setup).probe)
                \/ Substantial(p, Old(b, setup).probe)
                \/ judged /\ setup.comparison = "text" /\ Substantial(p, b.image.probe),
      connection |-> ConnectionChange(b, p), hidden |-> FALSE]

Decided(b, setup, p, web, today, files) ==
  Decision(b, setup, p, web, IF Responds(p) THEN Recapture(b, setup, p, web, today, files) ELSE p.status)

Compare(b, setup, p, today, files) == Decided(b, setup, p, WebChange(b, setup, p), today, files)

-------------------------------------------------------------------------------
(* Around compare: title rules, the two protocols of a host, the browser.  *)

\* _apply_preflight: a matching title rule overrides whatever compare said.
Excluded(setup, p) == Responds(p) /\ TitleStatus(p) = "found" /\ p.title \in setup.rules

ApplyPreflight(setup, p, d) ==
  IF Excluded(setup, p)
  THEN [d EXCEPT !.skip = "title_rule", !.reason = "title_rule", !.queued = FALSE] ELSE d

ChangeLabels == {"first_observation", "first_title_observation", "first_text_observation",
                 "text_changed", "structure_changed", "text_only_update", "minor_content_update",
                 "title_changed"}

Other(scheme) == IF scheme = "http" THEN "https" ELSE "http"

\* Both bodies were read to their end at the same place and are the same HTML.
SameBody(p, q) ==
  /\ Responds(p) /\ Responds(q) /\ "partial" \notin {p.depth, q.depth}
  /\ <<p.place, p.title, p.words, p.forms, p.layout>> = <<q.place, q.title, q.words, q.forms, q.layout>>

\* Faulty: the preference for HTTPS hides what changed over HTTP.
AlwaysHttps(setup, d) == "https"

\* The protocol the pair is captured through when both are queued.
SharedSource(setup, d) ==
  LET told(s) == setup.mode = "changes" /\ d[s].web \in ChangeLabels
  IN  IF told("http") /\ ~told("https") THEN "http" ELSE "https"

\* Faulty: any page with the body of a page at rest is at rest.
PairedWithQuiet(setup, d, candidate) ==
  d[candidate].queued /\ ~d[Other(candidate)].queued /\ d[Other(candidate)].skip \in UnchangedSkips

\* The twin was skipped as a duplicate before, and its image still stands.
PairedBaseline(setup, d, candidate) ==
  LET source == Other(candidate) IN
  /\ d[candidate].queued /\ ~d[source].queued
  /\ setup.mode = "changes"
  /\ d[candidate].web \in Quiet /\ d[candidate].reason = "image_baseline_missing"
  /\ d[candidate].wasTwin = source
  /\ d[source].skip \in UnchangedSkips

DuplicateOf(setup, d, source) ==
  [d EXCEPT ![Other(source)].skip = "duplicate_body", ![Other(source)].reason = "duplicate_body",
            ![Other(source)].twin = source, ![Other(source)].queued = FALSE]

Deduplicate(setup, d, visit) ==
  IF ~SameBody(visit["http"], visit["https"]) THEN d
  ELSE IF d["http"].queued /\ d["https"].queued THEN DuplicateOf(setup, d, SharedSource(setup, d))
  ELSE IF PairedBaseline(setup, d, "http") THEN DuplicateOf(setup, d, "https")
  ELSE IF PairedBaseline(setup, d, "https") THEN DuplicateOf(setup, d, "http")
  ELSE d

\* resolved_change: the comparison of the check, corrected by what the browser saw.
ResolvedChange(d, row) ==
  LET title  == ObservedTitle(row)
      change == IF d.web = "title_changed" THEN d.content ELSE d.web
  IN  IF TitleChanged(d.known, title) THEN "title_changed"
      ELSE IF change = "first_title_observation" /\ title.status # "found" THEN "title_unavailable"
      ELSE change

\* review_priority: what the report leads with, and what it keeps as context.
Priority(d, row) ==
  LET change == ResolvedChange(d, row) IN
  IF change \in {"first_observation", "first_title_observation", "first_text_observation"} THEN "new"
  ELSE IF change = "title_changed" \/ d.major THEN "major"
  ELSE IF change \in {"text_only_update", "minor_content_update", "text_changed",
                      "structure_changed", "title_unavailable"} THEN "context"
  ELSE "other"

ContentChangeKinds == {"first_observation", "first_title_observation", "first_text_observation",
                       "text_changed", "structure_changed", "title_changed"}

\* report_entries in changes mode.
Entry(d, row) ==
  /\ Responds(row.probe) /\ ~d.hidden
  /\ d.skip \notin UnchangedSkips \cup {"title_rule", "duplicate_body"}
  /\ ResolvedChange(d, row) \in ContentChangeKinds
  /\ Priority(d, row) \in {"new", "major"}

\* website_text_notes: the context list, with the twin of what is in it.
Noted(d, row) ==
  /\ Responds(row.probe) /\ ~d.hidden
  /\ d.skip \notin {"title_rule", "duplicate_body"}
  /\ Priority(d, row) = "context"

===============================================================================
