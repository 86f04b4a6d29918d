---------------------------- MODULE CaptureHistory ----------------------------
(***************************************************************************)
(* The website checks of one host over many scans: capture_baselines and   *)
(* the captures of finish_run (store.py), the order of GowitnessCapture    *)
(* .capture (screenshots.py), and what deleting a report takes away.  What *)
(* one check decides is in CaptureChanges.                                 *)
(*                                                                         *)
(* A scan takes its baselines when it starts, checks both protocols,       *)
(* queues a browser for what qualifies, and is published or dropped.  Only *)
(* published scans are evidence.                                           *)
(***************************************************************************)
EXTENDS CaptureChanges, FiniteSets

CONSTANTS
  Visits,    \* what a scan can find: a reading of the page for each protocol
  Setups,    \* what a scan can be asked to do: mode, comparison, refresh, rules, route
  MaxScans,  \* bound: published scans; one more may run after the last
  MaxDay,    \* bound: days that pass
  MaxLosses  \* bound: image folders lost outside the program

Schemes == {"http", "https"}

\* What a check can find: the connections it tried in turn, then the page at their end;
\* shown is the title a browser sees there.
Pages ==
  [status : {"none"}, reach : Seq(STRING) \ {<<>>}, place : STRING, title : STRING, shown : STRING,
   words : STRING, forms : STRING, layout : Int, depth : {"full", "budget", "partial"}]

ASSUME CaptureAssumption ==
  /\ MaxScans \in Nat /\ MaxDay \in Nat /\ MaxLosses \in Nat
  /\ Visits \subseteq [Schemes -> Pages]
  /\ Setups \subseteq [mode : {"changes", "full"}, comparison : {"text", "title"}, refresh : Nat,
                       rules : SUBSET STRING, route : STRING]

VARIABLES
  today,
  reports,   \* the published scans: day, route, and a row for each protocol
  lastRun,   \* run ids given so far
  files,     \* runs whose saved images are on disk
  lost,      \* bound counter
  scan       \* the scan under way

vars == <<today, reports, lastRun, files, lost, scan>>

Runs == DOMAIN reports

NoScan == [phase |-> "none"]
Idle   == scan.phase = "none"

\* What a published row keeps of its decision is what a later scan reads.
Evidence(run, day, setup, row, d) ==
  [row EXCEPT !.run = run, !.day = day, !.route = setup.route,
              !.probe.skip = d.skip, !.probe.base = d.base, !.probe.twin = d.twin]

Init ==
  /\ today = 0 /\ reports = <<>> /\ lastRun = 0
  /\ files = {} /\ lost = 0 /\ scan = NoScan

-------------------------------------------------------------------------------
(* capture_baselines.                                                      *)

\* Faulty: the text baseline is whatever was checked last.
CountsAnyText(kind, row) ==
  CASE kind \in {"previous", "text"} -> TRUE
    [] kind = "connection" -> row.probe.status \in {"http_response", "no_http_response"}
    [] kind = "title"      -> HtmlTitle(row.probe) \/ BrowserTitle(row)
    [] kind = "image"      -> row.status = "captured"

\* Faulty: a check that could not tell counts as one that could.
CountsUncertain(kind, row) ==
  CASE kind \in {"previous", "connection"} -> TRUE
    [] kind = "title"      -> HtmlTitle(row.probe) \/ BrowserTitle(row)
    [] kind = "text"       -> TextComplete(row.probe)
    [] kind = "image"      -> row.status = "captured"

\* The condition of each selector.
Counts(kind, row) ==
  CASE kind = "previous"   -> TRUE
    [] kind = "connection" -> row.probe.status \in {"http_response", "no_http_response"}
    [] kind = "title"      -> HtmlTitle(row.probe) \/ BrowserTitle(row)
    [] kind = "text"       -> TextComplete(row.probe)
    [] kind = "image"      -> row.status = "captured"

\* Runs are ranked by their start, then by their row; ids follow the rows.
Later(r, q) == \/ reports[r].day > reports[q].day
               \/ reports[r].day = reports[q].day /\ r > q

Latest(kind, scheme) ==
  LET holds == {r \in Runs : Counts(kind, reports[r].rows[scheme])}
  IN  IF holds = {} THEN NoRow
      ELSE reports[CHOOSE r \in holds : \A q \in holds \ {r} : Later(r, q)].rows[scheme]

Baselines(scheme) ==
  [previous |-> Latest("previous", scheme), connection |-> Latest("connection", scheme),
   title |-> Latest("title", scheme),
   text |-> Latest("text", scheme), image |-> Latest("image", scheme),
   route |-> Latest("image", scheme).route, textRoute |-> Latest("text", scheme).route]

-------------------------------------------------------------------------------
(* A scan.                                                                 *)

StartScan(setup) ==
  /\ Idle
  /\ scan' = [phase |-> "checking", day |-> today, setup |-> setup,
              baselines |-> [s \in Schemes |-> Baselines(s)]]
  /\ UNCHANGED <<today, reports, lastRun, files, lost>>

\* Faulty: no answer is no website, whatever stood in between.
AnyRefusal(reach, route) ==
  IF reach[Len(reach)] = "answer" THEN "http_response"
  ELSE IF reach[Len(reach)] = "refused" THEN "no_http_response" ELSE "unknown"

\* _probe_one: an attempt with the certificate checked and, when that is what failed, one
\* without.  An answer counts from either; only a server that refuses the first one
\* directly is known to have no website, a name that does not resolve is not.
ProbeStatus(reach, route) ==
  CASE reach[Len(reach)] = "answer" -> "http_response"
    [] reach = <<"refused">> /\ route = "direct" -> "no_http_response"
    [] OTHER -> "unknown"

Reached(setup, page) == [page EXCEPT !.status = ProbeStatus(page.reach, setup.route)]

\* What a check brings back of the page at the end of its redirects: as much as it read
\* before a limit, an error or its deadline, and words only for a text comparison.
Collected(setup, page) ==
  [NoProbe EXCEPT !.status = page.status, !.place = page.place, !.title = page.title,
                  !.depth = page.depth, !.forms = page.forms, !.layout = page.layout,
                  !.words = IF setup.comparison = "text" THEN page.words ELSE "none"]

\* One protocol's check against its own baselines.
Check(b, setup, p) == ApplyPreflight(setup, p, Compare(b, setup, p, today, files))

\* The probe of both protocols, the decision on each, and the decision on the pair.
CheckWebsites(visit) ==
  /\ scan.phase = "checking"
  /\ LET seen    == [s \in Schemes |-> Reached(scan.setup, visit[s])]
         decided == [s \in Schemes |-> Check(scan.baselines[s], scan.setup, Collected(scan.setup, seen[s]))]
     IN scan' = [phase |-> "browsing", day |-> scan.day, setup |-> scan.setup, visit |-> seen,
                 decisions |-> Deduplicate(scan.setup, decided, seen),
                 rows |-> [s \in Schemes |->
                   [NoRow EXCEPT !.probe = Collected(scan.setup, seen[s]),
                                 !.title = seen[s].title, !.status = "skipped"]]]
  /\ UNCHANGED <<today, reports, lastRun, files, lost>>

\* The check itself fails, or the whole stage does: the rows are published as failed
\* attempts that say nothing about the site.
CheckFails ==
  /\ scan.phase = "checking"
  /\ scan' = [phase |-> "publishing", day |-> scan.day, setup |-> scan.setup,
              decisions |-> [s \in Schemes |-> [skip |-> "none", base |-> 0, twin |-> "none",
                                                connection |-> "none"]],
              rows |-> [s \in Schemes |-> [NoRow EXCEPT !.status = "failed"]]]
  /\ UNCHANGED <<today, reports, lastRun, files, lost>>

Queued == {s \in Schemes : scan.decisions[s].queued}

\* _validate_metadata: one result with a safe image makes the row a capture.
Validated(row, page, taken) ==
  IF taken THEN [row EXCEPT !.status = "captured", !.day = today, !.title = page.shown]
  ELSE [row EXCEPT !.status = "failed"]

\* Gowitness visits what is queued, if it and its browser are there at all.  Some visits
\* leave nothing usable, and some a title but no acceptable image: a title rule hides
\* those too.
Browse(shots, rejected) ==
  /\ scan.phase = "browsing" /\ shots \subseteq Queued /\ rejected \subseteq Queued \ shots
  /\ scan' = [scan EXCEPT !.phase = "publishing",
       !.rows = [s \in Schemes |->
         IF s \in Queued THEN Validated(scan.rows[s], scan.visit[s], s \in shots) ELSE scan.rows[s]],
       !.decisions = [s \in Schemes |->
         IF s \in shots \cup rejected /\ scan.visit[s].shown \in scan.setup.rules
         THEN [scan.decisions[s] EXCEPT !.hidden = TRUE] ELSE scan.decisions[s]]]
  /\ UNCHANGED <<today, reports, lastRun, files, lost>>

\* finish_run inserts the captures of the run it accepts.
Publish ==
  LET run == lastRun + 1 IN
  /\ scan.phase = "publishing" /\ lastRun < MaxScans
  /\ lastRun' = run
  /\ reports' = [r \in Runs \cup {run} |->
       IF r \in Runs THEN reports[r]
       ELSE [day |-> scan.day, route |-> scan.setup.route,
             rows |-> [s \in Schemes |->
               Evidence(run, scan.rows[s].day, scan.setup, scan.rows[s], scan.decisions[s])]]]
  /\ files' = IF \E s \in Schemes : scan.rows[s].status = "captured" THEN files \cup {run} ELSE files
  /\ scan' = NoScan
  /\ UNCHANGED <<today, lost>>

\* A scan that fails or is stopped publishes nothing.
Abandon ==
  /\ scan.phase \in {"checking", "browsing", "publishing"}
  /\ scan' = NoScan
  /\ UNCHANGED <<today, reports, lastRun, files, lost>>

\* Faulty: the saved images of a deleted report stay behind.
DeleteRowsOnly(run) ==
  /\ Idle /\ run \in Runs
  /\ reports' = [r \in Runs \ {run} |-> reports[r]]
  /\ UNCHANGED <<today, lastRun, files, lost, scan>>

\* delete_report refuses while a scan of the project runs.
DeleteReport(run) ==
  /\ Idle /\ run \in Runs
  /\ reports' = [r \in Runs \ {run} |-> reports[r]]
  /\ files' = files \ {run}
  /\ UNCHANGED <<today, lastRun, lost, scan>>

\* External: someone clears a run's folder.
LoseImages(run) ==
  /\ Idle /\ run \in files /\ lost < MaxLosses
  /\ files' = files \ {run} /\ lost' = lost + 1
  /\ UNCHANGED <<today, reports, lastRun, scan>>

NextDay ==
  /\ Idle /\ Runs # {} /\ today < MaxDay
  /\ today' = today + 1
  /\ UNCHANGED <<reports, lastRun, files, lost, scan>>

Next ==
  \/ \E setup \in Setups : StartScan(setup)
  \/ \E visit \in Visits : CheckWebsites(visit)
  \/ CheckFails
  \/ \E shots, rejected \in SUBSET Schemes : Browse(shots, rejected)
  \/ Publish
  \/ Abandon
  \/ \E run \in 1..MaxScans : DeleteReport(run) \/ LoseImages(run)
  \/ NextDay

Spec == Init /\ [][Next]_vars

-------------------------------------------------------------------------------
(* Properties.                                                             *)

Row(run, scheme) == reports[run].rows[scheme]

\* The shapes of the variables, and that every published row names its run.
TypeOK ==
  /\ today \in 0..MaxDay /\ lastRun \in 0..MaxScans /\ lost \in 0..MaxLosses
  /\ Runs \subseteq 1..lastRun /\ files \subseteq Runs
  /\ scan.phase \in {"none", "checking", "browsing", "publishing"}
  /\ \A r \in Runs, s \in Schemes :
       /\ Row(r, s).run = r /\ Row(r, s).status \in {"captured", "failed", "skipped"}
       /\ Row(r, s).status = "skipped" <=>
            Row(r, s).probe # NoProbe /\ ~(Row(r, s).probe.skip = "none" /\ Responds(Row(r, s).probe))
       /\ Row(r, s).day <= today

\* A saved screenshot that shows a page: the same title at the same place over the
\* same route, young enough, on disk, and the same layout as far as anyone could tell.
Shows(row, page, setup) ==
  /\ row.status = "captured" /\ row.route = setup.route /\ row.run \in files
  /\ setup.refresh = 0 \/ today - row.day < setup.refresh
  /\ ObservedTitle(row).title = ObservedTitle(Probed(Collected(setup, page))).title
  /\ row.probe.place = page.place
  /\ setup.comparison = "text" =>
       row.probe.forms = page.forms /\ (StructureKnown(row.probe) => Similar(row.probe.layout, page.layout))

\* A page that responds and is not visited again in a changes scan has a screenshot that
\* shows it, its own or that of the protocol with the same body, however many small
\* changes, failed browsers, deleted reports and lost files lie between
\* (docs and comments of compare: small updates must not accumulate).
NothingGoesUnseen ==
  scan.phase = "browsing" /\ scan.setup.mode = "changes" =>
    \A s \in Schemes :
      LET page == scan.visit[s]
          same == {s} \cup {t \in {Other(s)} : SameBody(page, scan.visit[t])}
      IN  \/ ~Responds(page) \/ Excluded(scan.setup, page)
          \/ \E t \in same : t \in Queued \/ \E r \in Runs : Shows(Row(r, t), page, scan.setup)

SamePage(p, q) == <<p.place, p.title, p.words, p.forms, p.layout>> = <<q.place, q.title, q.words, q.forms, q.layout>>

\* A page that was screenshot and has not changed is left alone: timeouts, outages,
\* error pages and failed browsers in between do not cost another visit.  A page without
\* any text gives a text comparison nothing to hold on to, and is visited every time.
QuietPagesStayQuiet ==
  scan.phase = "browsing" /\ scan.setup.mode = "changes" =>
    \A s \in Schemes, r \in Runs :
      LET p == scan.rows[s].probe IN
      /\ p.depth = "full" /\ HtmlTitle(p)
      /\ scan.setup.comparison = "text" => p.words # "none"
      /\ Shows(Row(r, s), scan.visit[s], scan.setup)
      /\ SamePage(Row(r, s).probe, p) /\ Row(r, s).probe.depth = "full"
      /\ \A q \in Runs : q > r =>
           Row(q, s).status # "captured" /\ ~Complete(Row(q, s).probe)
      => s \notin Queued

\* Two complete readings show other words, other forms or a layout that does not match.
ReadsDifferently(p, q) ==
  \/ ContentOf(p) # ContentOf(q)
  \/ StructureKnown(p) /\ StructureKnown(q) /\ ~Similar(p.layout, q.layout)

\* The protocol reads as it did when it was last read to its end.
ReadsAsBefore(scheme) ==
  \E r \in Runs : /\ TextComplete(Row(r, scheme).probe)
                  /\ ~ReadsDifferently(scan.rows[scheme].probe, Row(r, scheme).probe)
                  /\ \A q \in Runs : q > r => ~TextComplete(Row(q, scheme).probe)

\* A protocol without an image of its own, left to its twin by the last scan too, whose
\* wording alone moved on to that of the twin, which is left alone and reads as it did.
LeftToTwin(scheme, before) ==
  /\ Other(scheme) \notin Queued /\ ReadsAsBefore(Other(scheme))
  /\ \A r \in Runs : Row(r, scheme).status # "captured"
  /\ \E r \in Runs : Row(r, scheme).probe.twin = Other(scheme) /\ \A q \in Runs : q <= r
  /\ StructureComparison(scan.rows[scheme].probe, before) \in {"unchanged", "largely_unchanged"}

\* A page that reads differently from the last time it was read to its end is in the
\* report of a changes scan, as an entry or as a note, its own or its twin's, unless a
\* title rule excludes it.  Only a page that is left to its twin like this is not told of.
ChangesAreTold ==
  scan.phase = "publishing" /\ scan.setup.mode = "changes" =>
    \A s \in Schemes, r \in Runs :
      LET p == scan.rows[s].probe
          told(t) == Entry(scan.decisions[t], scan.rows[t]) \/ Noted(scan.decisions[t], scan.rows[t])
      IN
      /\ TextComplete(p) /\ TextComplete(Row(r, s).probe) /\ ReadsDifferently(p, Row(r, s).probe)
      /\ \A q \in Runs : q > r => ~TextComplete(Row(q, s).probe)
      /\ ~Excluded(scan.setup, scan.visit[s]) /\ ~scan.decisions[s].hidden
      => \/ told(s)
         \/ /\ scan.decisions[s].twin = Other(s)
            /\ told(Other(s)) \/ scan.decisions[Other(s)].hidden \/ LeftToTwin(s, Row(r, s).probe)

\* A meaningful title that differs from the last one known leads the report of a changes
\* scan, under the protocol or its twin; a twin that already had this title, or had none
\* but its address or none at all to compare, keeps it as a note.
TitleChangesLead ==
  scan.phase = "publishing" /\ scan.setup.mode = "changes" =>
    \A s \in Schemes, r \in Runs :
      LET p == scan.rows[s].probe
          leads(t) == Entry(scan.decisions[t], scan.rows[t])
      IN
      /\ HtmlTitle(p) /\ HtmlTitle(Row(r, s).probe) /\ p.title # Row(r, s).probe.title
      /\ \A q \in Runs : q > r => ObservedTitle(Row(q, s)).status # "found"
      /\ ~Excluded(scan.setup, scan.visit[s]) /\ ~scan.decisions[s].hidden
      => \/ leads(s)
         \/ /\ scan.decisions[s].twin = Other(s)
            /\ \/ leads(Other(s)) \/ scan.decisions[Other(s)].hidden
               \/ /\ \/ scan.decisions[Other(s)].known.title = p.title
                     \/ scan.decisions[Other(s)].known.status \in {"unavailable", "address_only"}
                  /\ Noted(scan.decisions[Other(s)], scan.rows[Other(s)])

\* The report says that a site stopped or began to respond exactly when the last check
\* that could tell said the opposite; checks that could not tell, or failed themselves, do
\* not count.  A site is only said to have stopped when its server refused a direct
\* connection: not for its certificate, its name, a slow answer or a proxy.
AvailabilityIsTold ==
  scan.phase = "publishing" =>
    \A s \in Schemes :
      LET sure(p) == p.status \in {"http_response", "no_http_response"}
          now     == scan.rows[s].probe
          change  == scan.decisions[s].connection
      IN /\ change # "none" <=>
              /\ sure(now)
              /\ \E r \in Runs :
                   /\ sure(Row(r, s).probe) /\ Responds(Row(r, s).probe) # Responds(now)
                   /\ \A q \in Runs : q > r => ~sure(Row(q, s).probe)
         /\ change = "became_unavailable" =>
              scan.visit[s].reach = <<"refused">> /\ scan.setup.route = "direct"
===============================================================================
