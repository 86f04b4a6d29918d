------------------------- MODULE CaptureHistoryProofs -------------------------
(***************************************************************************)
(* What CaptureHistory promises for any pages, setups, scans and days.     *)
(*                                                                         *)
(* Nothing but the scan itself moves while it is under way: reports, files *)
(* and the day stand still until it is published or dropped.  So the state *)
(* of a scan is a function of the reports and of what the scan was asked   *)
(* and found (ScanInv), and its properties are facts about the functions   *)
(* of CaptureChanges.                                                      *)
(***************************************************************************)
EXTENDS CaptureHistory, WellFoundedInduction, TLAPS

\* The two protocols as the scan sees them, and what it decides on each alone.
SeenBy(setup, visit)   == [s \in Schemes |-> Reached(setup, visit[s])]
ProbeOf(setup, visit, s) == Collected(setup, Reached(setup, visit[s]))
Judged(setup, visit, s) == Check(Baselines(s), setup, ProbeOf(setup, visit, s))
JudgedBy(setup, visit) == [s \in Schemes |-> Judged(setup, visit, s)]

\* The scan once it started, failed its check, checked, and came back from the browser.
Started(setup) ==
  [phase |-> "checking", day |-> today, setup |-> setup,
   baselines |-> [s \in Schemes |-> Baselines(s)]]
Undecided == [skip |-> "none", base |-> 0, twin |-> "none", connection |-> "none"]
Broken(setup) ==
  [phase |-> "publishing", day |-> today, setup |-> setup,
   decisions |-> [s \in Schemes |-> Undecided],
   rows |-> [s \in Schemes |-> [NoRow EXCEPT !.status = "failed"]]]
RowOf(setup, visit, s) ==
  [NoRow EXCEPT !.probe = ProbeOf(setup, visit, s), !.title = Reached(setup, visit[s]).title,
                !.status = "skipped"]
Decisions(setup, visit) == Deduplicate(setup, JudgedBy(setup, visit), SeenBy(setup, visit))
Checked(setup, visit) ==
  [phase |-> "browsing", day |-> today, setup |-> setup, visit |-> SeenBy(setup, visit),
   decisions |-> Decisions(setup, visit),
   rows |-> [s \in Schemes |-> RowOf(setup, visit, s)]]
Chosen(setup, visit) == {s \in Schemes : Decisions(setup, visit)[s].queued}
RowAfter(setup, visit, shots, s) ==
  IF s \in Chosen(setup, visit)
  THEN Validated(RowOf(setup, visit, s), Reached(setup, visit[s]), s \in shots)
  ELSE RowOf(setup, visit, s)
DecisionAfter(setup, visit, shown, s) ==
  IF s \in shown /\ Reached(setup, visit[s]).shown \in setup.rules
  THEN [Decisions(setup, visit)[s] EXCEPT !.hidden = TRUE] ELSE Decisions(setup, visit)[s]
Visited(setup, visit, shots, shown) ==
  [phase |-> "publishing", day |-> today, setup |-> setup, visit |-> SeenBy(setup, visit),
   decisions |-> [s \in Schemes |-> DecisionAfter(setup, visit, shown, s)],
   rows |-> [s \in Schemes |-> RowAfter(setup, visit, shots, s)]]

\* The scan is in one of these states.
ScanInv ==
  \/ scan = NoScan
  \/ \E setup \in Setups : scan = Started(setup) \/ scan = Broken(setup)
  \/ \E setup \in Setups, visit \in Visits : scan = Checked(setup, visit)
  \/ \E setup \in Setups, visit \in Visits, shots, shown \in SUBSET Schemes :
       /\ shots \subseteq Chosen(setup, visit) /\ shown \subseteq Chosen(setup, visit)
       /\ scan = Visited(setup, visit, shots, shown)

\* Reports are in the order of their days.
DaysInv ==
  /\ \A r \in Runs : reports[r].day \in 0..today
  /\ \A r, q \in Runs : q < r => reports[q].day <= reports[r].day
  /\ \A r \in Runs, s \in Schemes : Row(r, s).day \in 0..today /\ Row(r, s).probe.layout \in Int

\* A check that was skipped on the strength of a screenshot's page has its forms.
FormsInv ==
  \A r \in Runs, s \in Schemes :
    /\ Row(r, s).probe.base \in 0..lastRun
    /\ Row(r, s).probe.skip \in UnchangedSkips \ {"unchanged_title"} =>
         \A q \in Runs : Row(r, s).probe.base = q => Row(r, s).probe.forms = Row(q, s).probe.forms

IInv == TypeOK /\ DaysInv /\ FormsInv /\ ScanInv

-------------------------------------------------------------------------------
(* The functions of CaptureChanges.                                        *)

\* A set of numbers that is not empty has a least one.
LEMMA LeastOne ==
  ASSUME NEW T \in SUBSET Nat, T # {}
  PROVE  \E i \in T : \A j \in T : i <= j
  <1> DEFINE Less == {ss \in Nat \X Nat : ss[1] < ss[2]}
  <1>1. IsWellFoundedOn(Less, Nat)
    BY NatLessThanWellFounded DEF OpToRel
  <1>2. \A i, j \in Nat : j < i => <<j, i>> \in Less
    OBVIOUS
  <1> HIDE DEF Less
  <1>3. \E i \in T : \A j \in T : <<j, i>> \notin Less
    <2>1. T \subseteq Nat
      OBVIOUS
    <2>2. QED
      BY <1>1, <2>1, WFMin, Zenon
  <1>4. PICK i \in T : \A j \in T : <<j, i>> \notin Less
    BY <1>3
  <1>5. ASSUME NEW j \in T PROVE i <= j
    <2>1. i \in Nat /\ j \in Nat /\ <<j, i>> \notin Less
      BY <1>4
    <2>2. ~(j < i)
      BY <1>2, <2>1
    <2>3. QED
      BY <2>1, <2>2
  <1>6. QED
    BY <1>5

\* The ladder of compare stops at the first condition that holds, if one does.
LEMMA FirstAt ==
  ASSUME NEW n \in Nat, NEW ladder, DOMAIN ladder = 1..n, NEW i \in 1..n,
         ladder[i][1], \A j \in 1..(i - 1) : ~ladder[j][1]
  PROVE  First(ladder) = ladder[i][2]
  <1> DEFINE At(k) == ladder[k][1] /\ \A j \in 1..(k - 1) : ~ladder[j][1]
  <1>1. \A k \in 1..n : At(k) => k = i
    <2> SUFFICES ASSUME NEW k \in 1..n, At(k), k # i PROVE FALSE
      OBVIOUS
    <2>1. CASE k < i
      <3>1. k \in 1..(i - 1)
        BY <2>1
      <3>2. QED
        BY <3>1
    <2>2. CASE i < k
      <3>1. i \in 1..(k - 1)
        BY <2>2
      <3>2. QED
        BY <3>1
    <2>3. QED
      BY <2>1, <2>2
  <1>2. At(i)
    OBVIOUS
  <1>3. (CHOOSE k \in DOMAIN ladder : At(k)) = i
    BY <1>1, <1>2, Zenon
  <1>4. QED
    BY <1>3 DEF First

LEMMA FirstStops ==
  ASSUME NEW n \in Nat, NEW ladder, DOMAIN ladder = 1..n, NEW k \in 1..n, ladder[k][1]
  PROVE  \E i \in 1..n : /\ ladder[i][1] /\ \A j \in 1..(i - 1) : ~ladder[j][1]
                        /\ First(ladder) = ladder[i][2]
  <1> DEFINE T == {i \in 1..n : ladder[i][1]}
  <1>1. T \subseteq Nat /\ T # {}
    OBVIOUS
  <1>2. PICK i \in T : \A j \in T : i <= j
    BY <1>1, LeastOne
  <1>3. \A j \in 1..(i - 1) : ~ladder[j][1]
    BY <1>2
  <1>4. QED
    BY <1>2, <1>3, FirstAt

\* A probe that is known to have changed is never "none", nor a browser's reason.
WebChanges == ChangeLabels \cup {"unchanged", "unknown"}

LEMMA WebChangeValues ==
  ASSUME NEW b, NEW setup, NEW p
  PROVE  /\ WebChange(b, setup, p) \in WebChanges
         /\ setup.comparison # "text" =>
              WebChange(b, setup, p) \notin {"text_only_update", "minor_content_update"}
  <1>1. TextChange(b, setup, p) \in WebChanges
    BY DEF TextChange, WebChanges, ChangeLabels
  <1>2. TitleChange(b, p) \in {"unchanged", "first_title_observation", "unknown"}
    BY DEF TitleChange
  <1>3. ContentChange(b, setup, p) \in WebChanges
    BY <1>1, <1>2 DEF ContentChange, WebChanges, ChangeLabels
  <1>4. setup.comparison # "text" =>
          ContentChange(b, setup, p) \notin {"text_only_update", "minor_content_update"}
    BY <1>2 DEF ContentChange
  <1>5. QED
    BY <1>3, <1>4 DEF WebChange, WebChanges, ChangeLabels

\* The questions compare asks before it leaves the browser out.
Known(setup, p) == IF setup.comparison = "text" THEN TextComplete(p) ELSE Complete(p)

AtRest(b, setup, p, web, day, saved) ==
  /\ setup.mode = "changes"
  /\ web \in Quiet
  /\ IsRow(b.image)
  /\ ImageMatches(b, setup, p)
  /\ b.route = setup.route
  /\ b.image.run \in saved
  /\ ~(day < b.image.day)
  /\ ~(setup.refresh > 0 /\ day - b.image.day >= setup.refresh)

\* The browser is left out exactly when none of them asks for it.
LEMMA RecaptureCases ==
  ASSUME NEW b, NEW setup, NEW p, NEW web \in WebChanges, NEW day, NEW saved
  PROVE  Recapture(b, setup, p, web, day, saved) = "none" <=> AtRest(b, setup, p, web, day, saved)
  <1> DEFINE shot == b.image
             c1 == setup.mode # "changes"
             c2 == web \notin Quiet \cup {"unknown"}
             c3 == web = "unknown" /\ ~Known(setup, p)
             c4 == web = "unknown"
             c5 == ~IsRow(shot)
             c6 == ~ImageMatches(b, setup, p)
             c7 == b.route # setup.route
             c8 == shot.run \notin saved
             c9 == day < shot.day
             c10 == setup.refresh > 0 /\ day - shot.day >= setup.refresh
             ladder ==
               << <<c1, "full_report">>, <<c2, web>>, <<c3, "current_uncertain">>,
                  <<c4, "previous_unavailable">>, <<c5, "image_baseline_missing">>,
                  <<c6, "image_baseline_mismatch">>, <<c7, "proxy_route_changed">>,
                  <<c8, "image_baseline_unavailable">>, <<c9, "image_baseline_future_date">>,
                  <<c10, "periodic_refresh">>, <<TRUE, "none">> >>
  <1>1. Recapture(b, setup, p, web, day, saved) = First(ladder)
    BY DEF Recapture, Known
  <1>2. AtRest(b, setup, p, web, day, saved) <=>
          ~c1 /\ ~c2 /\ ~c3 /\ ~c4 /\ ~c5 /\ ~c6 /\ ~c7 /\ ~c8 /\ ~c9 /\ ~c10
    BY DEF AtRest, WebChanges, Quiet
  <1> HIDE DEF c1, c2, c3, c4, c5, c6, c7, c8, c9, c10
  <1>3. /\ DOMAIN ladder = 1..11
        /\ ladder[1][1] = c1 /\ ladder[2][1] = c2 /\ ladder[3][1] = c3 /\ ladder[4][1] = c4
        /\ ladder[5][1] = c5 /\ ladder[6][1] = c6 /\ ladder[7][1] = c7 /\ ladder[8][1] = c8
        /\ ladder[9][1] = c9 /\ ladder[10][1] = c10 /\ ladder[11][1] = TRUE
    OBVIOUS
  <1>4. /\ ladder[1][2] = "full_report" /\ ladder[2][2] = web /\ ladder[3][2] = "current_uncertain"
        /\ ladder[4][2] = "previous_unavailable" /\ ladder[5][2] = "image_baseline_missing"
        /\ ladder[6][2] = "image_baseline_mismatch" /\ ladder[7][2] = "proxy_route_changed"
        /\ ladder[8][2] = "image_baseline_unavailable" /\ ladder[9][2] = "image_baseline_future_date"
        /\ ladder[10][2] = "periodic_refresh" /\ ladder[11][2] = "none"
    OBVIOUS
  <1>5. web # "none"
    BY DEF WebChanges, ChangeLabels
  <1> HIDE DEF ladder
  <1>6. ASSUME ~c1, ~c2, ~c3, ~c4, ~c5, ~c6, ~c7, ~c8, ~c9, ~c10 PROVE First(ladder) = "none"
    <2>1. \A j \in 1..(11 - 1) : j \in {1, 2, 3, 4, 5, 6, 7, 8, 9, 10}
      OBVIOUS
    <2>2. \A j \in 1..(11 - 1) : ~ladder[j][1]
      BY <1>3, <1>6, <2>1
    <2>3. QED
      BY <1>3, <1>4, <2>2, FirstAt, 11 \in Nat, 11 \in 1..11
  <1>7. ASSUME First(ladder) = "none"
        PROVE  ~c1 /\ ~c2 /\ ~c3 /\ ~c4 /\ ~c5 /\ ~c6 /\ ~c7 /\ ~c8 /\ ~c9 /\ ~c10
    <2>1. PICK i \in 1..11 : /\ ladder[i][1] /\ \A j \in 1..(i - 1) : ~ladder[j][1]
                            /\ First(ladder) = ladder[i][2]
      <3> DEFINE last == 11
      <3>1. last \in Nat /\ DOMAIN ladder = 1..last /\ last \in 1..last
        BY <1>3
      <3>2. ladder[last][1]
        BY <1>3
      <3> HIDE DEF last
      <3>3. \E i \in 1..last : /\ ladder[i][1] /\ \A j \in 1..(i - 1) : ~ladder[j][1]
                               /\ First(ladder) = ladder[i][2]
        BY <3>1, <3>2, FirstStops
      <3>4. QED
        BY <3>3 DEF last
    <2>2. i \in {1, 2, 3, 4, 5, 6, 7, 8, 9, 10} \/ i = 11
      OBVIOUS
    <2>3. i = 11
      BY <1>4, <1>5, <1>7, <2>1, <2>2
    <2>4. \A j \in {1, 2, 3, 4, 5, 6, 7, 8, 9, 10} : j \in 1..(11 - 1)
      OBVIOUS
    <2>5. \A j \in {1, 2, 3, 4, 5, 6, 7, 8, 9, 10} : ~ladder[j][1]
      BY <2>1, <2>3, <2>4
    <2>6. QED
      BY <1>3, <2>5
  <1>8. QED
    BY <1>1, <1>2, <1>6, <1>7

-------------------------------------------------------------------------------
(* What a check decides.                                                   *)

Web(setup, visit, s) == WebChange(Baselines(s), setup, ProbeOf(setup, visit, s))
Why(setup, visit, s) ==
  LET p == ProbeOf(setup, visit, s)
  IN  IF Responds(p) THEN Recapture(Baselines(s), setup, p, Web(setup, visit, s), today, files)
      ELSE p.status
Resting(setup, visit, s) ==
  AtRest(Baselines(s), setup, ProbeOf(setup, visit, s), Web(setup, visit, s), today, files)
Barred(setup, visit, s) == Excluded(setup, ProbeOf(setup, visit, s))

LEMMA OtherOne ==
  ASSUME NEW s \in Schemes
  PROVE  /\ Other(s) \in Schemes /\ Other(s) # s
         /\ \/ s = "http" /\ Other(s) = "https"
            \/ s = "https" /\ Other(s) = "http"
  BY DEF Other, Schemes

\* What a probe brings back of a page, before anything was compared.
ProbeKeys == {"status", "place", "title", "depth", "words", "forms", "layout", "skip", "base", "twin"}

ProbeFacts(setup, visit, s, p, page) ==
  /\ visit[s] \in Pages /\ p.layout \in Int /\ p.depth \in {"full", "budget", "partial"}
  /\ p.status = ProbeStatus(visit[s].reach, setup.route)
  /\ p.status \in {"http_response", "no_http_response", "unknown"}
  /\ p.skip = "none" /\ p.base = 0 /\ p.twin = "none"
  /\ p.words = IF setup.comparison = "text" THEN visit[s].words ELSE "none"
  /\ page.status = p.status /\ page.reach = visit[s].reach /\ page.shown = visit[s].shown
  /\ page.place = p.place /\ page.title = p.title /\ page.depth = p.depth
  /\ page.forms = p.forms /\ page.layout = p.layout /\ page.words = visit[s].words
  /\ DOMAIN p = ProbeKeys

LEMMA ProbeFields ==
  ASSUME NEW setup \in Setups, NEW visit \in Visits, NEW s \in Schemes
  PROVE  ProbeFacts(setup, visit, s, ProbeOf(setup, visit, s), Reached(setup, visit[s]))
  <1> DEFINE p    == ProbeOf(setup, visit, s)
             page == Reached(setup, visit[s])
  <1>1. visit[s] \in Pages /\ setup.comparison \in {"text", "title"}
    BY CaptureAssumption
  <1>2. /\ page.status = ProbeStatus(visit[s].reach, setup.route)
        /\ page.reach = visit[s].reach /\ page.shown = visit[s].shown /\ page.place = visit[s].place
        /\ page.title = visit[s].title /\ page.depth = visit[s].depth /\ page.forms = visit[s].forms
        /\ page.layout = visit[s].layout /\ page.words = visit[s].words
    BY <1>1 DEF Reached, Pages
  <1>3. ProbeStatus(visit[s].reach, setup.route) \in {"http_response", "no_http_response", "unknown"}
    BY DEF ProbeStatus
  <1>4. p = Collected(setup, page)
    BY DEF ProbeOf
  <1>5. /\ p.status = page.status /\ p.place = page.place /\ p.title = page.title
        /\ p.depth = page.depth /\ p.forms = page.forms /\ p.layout = page.layout
        /\ p.words = IF setup.comparison = "text" THEN page.words ELSE "none"
        /\ p.skip = "none" /\ p.base = 0 /\ p.twin = "none"
    BY <1>4 DEF Collected, NoProbe
  <1>6. DOMAIN p = ProbeKeys
    BY <1>4 DEF Collected, NoProbe, ProbeKeys
  <1>7. visit[s].layout \in Int /\ visit[s].depth \in {"full", "budget", "partial"}
    BY <1>1 DEF Pages
  <1> HIDE DEF p, page
  <1>8. ProbeFacts(setup, visit, s, p, page)
    BY <1>1, <1>2, <1>3, <1>5, <1>6, <1>7 DEF ProbeFacts
  <1>9. QED
    BY <1>8 DEF p, page

\* What is decided on a protocol alone.
DecisionKeys == {"web", "content", "reason", "queued", "skip", "base", "twin", "wasTwin",
                 "known", "major", "connection", "hidden"}

JudgedFacts(setup, visit, s, j) ==
  /\ DOMAIN j = DecisionKeys
  /\ j.queued <=> /\ Responds(ProbeOf(setup, visit, s)) /\ Why(setup, visit, s) # "none"
                  /\ ~Barred(setup, visit, s)
  /\ j.queued \in BOOLEAN
  /\ j.skip = IF Barred(setup, visit, s) THEN "title_rule"
              ELSE IF Why(setup, visit, s) = "none"
              THEN SkipReason(Baselines(s), setup, ProbeOf(setup, visit, s), j.web) ELSE "none"
  /\ j.base = IF Why(setup, visit, s) = "none" THEN Baselines(s).image.run ELSE 0
  /\ j.twin = "none" /\ j.hidden = FALSE
  /\ j.connection = ConnectionChange(Baselines(s), ProbeOf(setup, visit, s))
  /\ j.wasTwin = Baselines(s).previous.probe.twin
  /\ j.known = ObservedTitle(TitleOld(Baselines(s)))
  /\ j.content = ContentChange(Baselines(s), setup, ProbeOf(setup, visit, s))
  /\ \/ j.web = Web(setup, visit, s)
     \/ j.web = "structure_changed" /\ setup.comparison = "text"
  /\ j.reason = IF Barred(setup, visit, s) THEN "title_rule"
                ELSE IF Why(setup, visit, s) = "none" THEN j.skip ELSE Why(setup, visit, s)

LEMMA JudgedFields ==
  ASSUME NEW setup \in Setups, NEW visit \in Visits, NEW s \in Schemes
  PROVE  JudgedFacts(setup, visit, s, Judged(setup, visit, s))
  <1> DEFINE b == Baselines(s)
             p == ProbeOf(setup, visit, s)
             j == Judged(setup, visit, s)
             d == Decision(b, setup, p, Web(setup, visit, s), Why(setup, visit, s))
  <1>1. j = ApplyPreflight(setup, p, d)
    BY DEF Judged, Check, Compare, Decided, Web, Why
  <1>2. /\ DOMAIN d = DecisionKeys
        /\ d.queued = (Responds(p) /\ Why(setup, visit, s) # "none")
        /\ d.skip = (IF Why(setup, visit, s) = "none" THEN d.reason ELSE "none")
        /\ d.base = (IF Why(setup, visit, s) = "none" THEN b.image.run ELSE 0)
        /\ d.twin = "none" /\ d.hidden = FALSE /\ d.connection = ConnectionChange(b, p)
        /\ d.wasTwin = b.previous.probe.twin /\ d.known = ObservedTitle(TitleOld(b))
        /\ d.content = ContentChange(b, setup, p)
        /\ d.reason = IF Why(setup, visit, s) = "none" THEN SkipReason(b, setup, p, d.web)
                      ELSE Why(setup, visit, s)
        /\ d.web = Web(setup, visit, s) \/ (d.web = "structure_changed" /\ Drifted(b, setup, p))
    BY DEF Decision, DecisionKeys
  <1>3. Drifted(b, setup, p) => setup.comparison = "text"
    BY DEF Drifted
  <1> HIDE DEF d, j
  <1>4. ASSUME Barred(setup, visit, s) PROVE JudgedFacts(setup, visit, s, j)
    <2>1. j = [d EXCEPT !.skip = "title_rule", !.reason = "title_rule", !.queued = FALSE]
      BY <1>1, <1>4 DEF ApplyPreflight, Barred
    <2>2. QED
      BY <1>2, <1>3, <1>4, <2>1 DEF DecisionKeys, JudgedFacts
  <1>5. ASSUME ~Barred(setup, visit, s) PROVE JudgedFacts(setup, visit, s, j)
    <2>1. j = d
      BY <1>1, <1>5 DEF ApplyPreflight, Barred
    <2>2. QED
      BY <1>2, <1>3, <1>5, <2>1 DEF DecisionKeys, JudgedFacts
  <1>6. JudgedFacts(setup, visit, s, j)
    BY <1>4, <1>5
  <1>7. QED
    BY <1>6 DEF j

\* A protocol left to the other one.
Doubled(j, source) ==
  [j EXCEPT !.skip = "duplicate_body", !.reason = "duplicate_body", !.twin = source, !.queued = FALSE]

LEMMA DuplicateOfEach ==
  ASSUME NEW setup, NEW d, DOMAIN d = Schemes, NEW source \in Schemes, NEW s \in Schemes
  PROVE  DuplicateOf(setup, d, source)[s] = IF s = source THEN d[s] ELSE Doubled(d[s], source)
  <1>1. Other(source) \in Schemes /\ Other(source) # source
    BY DEF Other, Schemes
  <1>2. s = source \/ s = Other(source)
    BY DEF Other, Schemes
  <1>3. QED
    BY <1>1, <1>2 DEF DuplicateOf, Doubled

\* The decision on the pair leaves a protocol's own, or hands it to the other one: both
\* were to be captured, or the other one is at rest and was its twin before.
LEMMA DecisionCases ==
  ASSUME NEW setup \in Setups, NEW visit \in Visits, NEW s \in Schemes,
         NEW j, j = Judged(setup, visit, s), NEW o, o = Judged(setup, visit, Other(s)),
         NEW d, d = Decisions(setup, visit)
  PROVE  \/ d[s] = j
         \/ /\ d[s] = Doubled(j, Other(s)) /\ j.queued /\ d[Other(s)] = o
            /\ SameBody(SeenBy(setup, visit)[s], SeenBy(setup, visit)[Other(s)])
            /\ \/ o.queued
               \/ /\ ~o.queued /\ o.skip \in UnchangedSkips /\ j.web \in Quiet
                  /\ setup.mode = "changes" /\ j.wasTwin = Other(s)
                  /\ j.reason = "image_baseline_missing"
  <1> DEFINE each == JudgedBy(setup, visit)
             seen == SeenBy(setup, visit)
  <1>1. DOMAIN each = Schemes /\ \A t \in Schemes : each[t] = Judged(setup, visit, t)
    BY DEF JudgedBy
  <1>2. \/ s = "http" /\ Other(s) = "https"
        \/ s = "https" /\ Other(s) = "http"
    BY OtherOne
  <1>3. each[s] = j /\ each[Other(s)] = o
    BY <1>1, <1>2 DEF Schemes
  <1>4. Other("http") = "https" /\ Other("https") = "http" /\ {"http", "https"} = Schemes
    BY DEF Other, Schemes
  <1>5. SameBody(seen["http"], seen["https"]) <=> SameBody(seen["https"], seen["http"])
    BY DEF SameBody
  <1>6. SharedSource(setup, each) \in {"http", "https"}
    BY DEF SharedSource
  <1>7. d = Deduplicate(setup, each, seen)
    BY DEF Decisions
  <1> HIDE DEF each, seen
  <1>8. \A source, t \in {"http", "https"} : DuplicateOf(setup, each, source)[t] =
           IF t = source THEN each[t] ELSE Doubled(each[t], source)
    BY <1>1, <1>4, DuplicateOfEach
  <1>9. ASSUME d # each PROVE SameBody(seen[s], seen[Other(s)])
    BY <1>2, <1>5, <1>7, <1>9 DEF Deduplicate
  <1>10. CASE d = each
    BY <1>3, <1>10
  <1>11. CASE d # each /\ each["http"].queued /\ each["https"].queued
    <2>1. d = DuplicateOf(setup, each, SharedSource(setup, each))
      BY <1>7, <1>11 DEF Deduplicate
    <2>2. PICK source \in {"http", "https"} : d = DuplicateOf(setup, each, source)
      BY <1>6, <2>1
    <2>3. \A t \in {"http", "https"} : d[t] = IF t = source THEN each[t] ELSE Doubled(each[t], source)
      BY <1>8, <2>2
    <2>4. each[s].queued /\ each[Other(s)].queued
      BY <1>2, <1>11
    <2>5. CASE s = source
      BY <1>2, <1>3, <2>3, <2>5
    <2>6. CASE s # source
      <3>1. source = Other(s) /\ Other(s) # s
        BY <1>2, <2>6
      <3>2. d[s] = Doubled(j, Other(s)) /\ d[Other(s)] = o
        BY <1>2, <1>3, <2>3, <3>1
      <3>3. j.queued /\ o.queued
        BY <1>3, <2>4
      <3>4. SameBody(SeenBy(setup, visit)[s], SeenBy(setup, visit)[Other(s)])
        BY <1>9, <1>11 DEF seen
      <3>5. QED
        BY <3>2, <3>3, <3>4
    <2>7. QED
      BY <2>5, <2>6
  <1>12. CASE d # each /\ ~(each["http"].queued /\ each["https"].queued)
    <2>1. \/ PairedBaseline(setup, each, "http") /\ d = DuplicateOf(setup, each, "https")
          \/ PairedBaseline(setup, each, "https") /\ d = DuplicateOf(setup, each, "http")
      BY <1>7, <1>12 DEF Deduplicate
    <2>2. QED
      BY <1>2, <1>3, <1>4, <1>8, <1>9, <1>12, <2>1 DEF PairedBaseline, seen
  <1>13. QED
    BY <1>10, <1>11, <1>12

-------------------------------------------------------------------------------
(* The scan under way.                                                     *)

\* Nothing a scan is a function of moves while it is under way.
LEMMA BaselinesStay ==
  ASSUME UNCHANGED <<today, reports, files>>, NEW s
  PROVE  Baselines(s)' = Baselines(s)
  <1>1. \A kind : Latest(kind, s)' = Latest(kind, s)
    BY DEF Latest, Later, Runs
  <1>2. QED
    BY <1>1 DEF Baselines

LEMMA DecisionsStay ==
  ASSUME UNCHANGED <<today, reports, files>>, NEW setup, NEW visit
  PROVE  Decisions(setup, visit)' = Decisions(setup, visit)
  <1>1. \A s \in Schemes : Judged(setup, visit, s)' = Judged(setup, visit, s)
    BY BaselinesStay DEF Judged, Check
  <1>2. JudgedBy(setup, visit)' = JudgedBy(setup, visit)
    BY <1>1 DEF JudgedBy
  <1>3. QED
    BY <1>2 DEF Decisions

LEMMA ScanStays ==
  ASSUME UNCHANGED <<today, reports, files>>, NEW setup, NEW visit, NEW shots, NEW shown
  PROVE  /\ Started(setup)' = Started(setup) /\ Broken(setup)' = Broken(setup)
         /\ Checked(setup, visit)' = Checked(setup, visit)
         /\ Chosen(setup, visit)' = Chosen(setup, visit)
         /\ Visited(setup, visit, shots, shown)' = Visited(setup, visit, shots, shown)
  <1>1. Decisions(setup, visit)' = Decisions(setup, visit)
    BY DecisionsStay
  <1>2. Chosen(setup, visit)' = Chosen(setup, visit)
    BY <1>1 DEF Chosen
  <1>3. Started(setup)' = Started(setup) /\ Broken(setup)' = Broken(setup)
    BY BaselinesStay DEF Started, Broken
  <1>4. Checked(setup, visit)' = Checked(setup, visit)
    BY <1>1 DEF Checked
  <1>5. \A s \in Schemes : RowAfter(setup, visit, shots, s)' = RowAfter(setup, visit, shots, s)
    BY <1>2 DEF RowAfter, Validated
  <1>6. \A s \in Schemes : DecisionAfter(setup, visit, shown, s)' = DecisionAfter(setup, visit, shown, s)
    BY <1>1 DEF DecisionAfter
  <1>7. Visited(setup, visit, shots, shown)' = Visited(setup, visit, shots, shown)
    BY <1>5, <1>6 DEF Visited
  <1>8. QED
    BY <1>2, <1>3, <1>4, <1>7

\* The fields of a scan in each of its phases.
LEMMA StartedFields ==
  ASSUME NEW setup
  PROVE  /\ Started(setup).phase = "checking" /\ Started(setup).setup = setup
         /\ Started(setup).day = today
         /\ \A s \in Schemes : Started(setup).baselines[s] = Baselines(s)
  BY DEF Started

LEMMA BrokenFields ==
  ASSUME NEW setup
  PROVE  /\ Broken(setup).phase = "publishing" /\ Broken(setup).setup = setup
         /\ Broken(setup).day = today
         /\ \A s \in Schemes : /\ Broken(setup).decisions[s] = Undecided
                               /\ Broken(setup).rows[s] = [NoRow EXCEPT !.status = "failed"]
  BY DEF Broken

LEMMA CheckedFields ==
  ASSUME NEW setup, NEW visit
  PROVE  /\ Checked(setup, visit).phase = "browsing" /\ Checked(setup, visit).setup = setup
         /\ Checked(setup, visit).day = today
         /\ Checked(setup, visit).decisions = Decisions(setup, visit)
         /\ \A s \in Schemes : /\ Checked(setup, visit).rows[s] = RowOf(setup, visit, s)
                               /\ Checked(setup, visit).visit[s] = Reached(setup, visit[s])
  BY DEF Checked, SeenBy

LEMMA VisitedFields ==
  ASSUME NEW setup, NEW visit, NEW shots, NEW shown, NEW v, v = Visited(setup, visit, shots, shown)
  PROVE  /\ v.phase = "publishing" /\ v.setup = setup /\ v.day = today
         /\ \A s \in Schemes : /\ v.decisions[s] = DecisionAfter(setup, visit, shown, s)
                               /\ v.rows[s] = RowAfter(setup, visit, shots, s)
                               /\ v.visit[s] = Reached(setup, visit[s])
  BY DEF Visited, SeenBy

\* A scan in a phase is one of that phase.
LEMMA ScanPhases ==
  ASSUME ScanInv
  PROVE  /\ scan.phase \in {"none", "checking", "browsing", "publishing"}
         /\ scan.phase = "none" => scan = NoScan
         /\ scan.phase = "checking" => \E setup \in Setups : scan = Started(setup)
         /\ scan.phase = "browsing" => \E setup \in Setups, visit \in Visits : scan = Checked(setup, visit)
         /\ scan.phase = "publishing" =>
              \/ \E setup \in Setups : scan = Broken(setup)
              \/ \E setup \in Setups, visit \in Visits, shots, shown \in SUBSET Schemes :
                   /\ shots \subseteq Chosen(setup, visit) /\ shown \subseteq Chosen(setup, visit)
                   /\ scan = Visited(setup, visit, shots, shown)
  <1>1. CASE scan = NoScan
    BY <1>1 DEF NoScan
  <1>2. ASSUME NEW setup \in Setups, scan = Started(setup) PROVE scan.phase = "checking"
    BY <1>2, StartedFields
  <1>3. ASSUME NEW setup \in Setups, scan = Broken(setup) PROVE scan.phase = "publishing"
    BY <1>3, BrokenFields
  <1>4. ASSUME NEW setup \in Setups, NEW visit \in Visits, scan = Checked(setup, visit)
        PROVE  scan.phase = "browsing"
    BY <1>4, CheckedFields
  <1>5. ASSUME NEW setup \in Setups, NEW visit \in Visits, NEW shots \in SUBSET Schemes,
               NEW shown \in SUBSET Schemes, scan = Visited(setup, visit, shots, shown)
        PROVE  scan.phase = "publishing"
    BY <1>5, VisitedFields
  <1>6. QED
    BY <1>1, <1>2, <1>3, <1>4, <1>5 DEF ScanInv

LEMMA StartKeeps ==
  ASSUME NEW setup \in Setups, StartScan(setup)
  PROVE  ScanInv'
  <1>1. scan' = Started(setup)
    BY DEF StartScan, Started
  <1>2. Started(setup)' = Started(setup)
    BY ScanStays DEF StartScan
  <1>3. QED
    BY <1>1, <1>2 DEF ScanInv

LEMMA CheckKeeps ==
  ASSUME ScanInv, NEW visit \in Visits, CheckWebsites(visit)
  PROVE  ScanInv'
  <1>1. PICK setup \in Setups : scan = Started(setup)
    BY ScanPhases DEF CheckWebsites
  <1>2. /\ scan.setup = setup /\ scan.day = today
        /\ \A s \in Schemes : scan.baselines[s] = Baselines(s)
    BY <1>1, StartedFields
  <1> DEFINE seen == [s \in Schemes |-> Reached(scan.setup, visit[s])]
             decided == [s \in Schemes |-> Check(scan.baselines[s], scan.setup, Collected(scan.setup, seen[s]))]
  <1>3. seen = SeenBy(setup, visit)
    BY <1>2 DEF SeenBy
  <1>4. decided = JudgedBy(setup, visit)
    BY <1>2 DEF JudgedBy, Judged, ProbeOf
  <1>5. [s \in Schemes |-> [NoRow EXCEPT !.probe = Collected(scan.setup, seen[s]),
                                         !.title = seen[s].title, !.status = "skipped"]]
          = [s \in Schemes |-> RowOf(setup, visit, s)]
    BY <1>2 DEF RowOf, ProbeOf
  <1>6. scan' = [phase |-> "browsing", day |-> scan.day, setup |-> scan.setup, visit |-> seen,
                 decisions |-> Deduplicate(scan.setup, decided, seen),
                 rows |-> [s \in Schemes |->
                   [NoRow EXCEPT !.probe = Collected(scan.setup, seen[s]),
                                 !.title = seen[s].title, !.status = "skipped"]]]
    BY DEF CheckWebsites
  <1>7. scan' = Checked(setup, visit)
    <2> HIDE DEF seen, decided
    <2>1. QED
      BY <1>2, <1>3, <1>4, <1>5, <1>6 DEF Checked, Decisions
  <1>8. Checked(setup, visit)' = Checked(setup, visit)
    BY ScanStays DEF CheckWebsites
  <1>9. QED
    BY <1>7, <1>8 DEF ScanInv

LEMMA FailsKeeps ==
  ASSUME ScanInv, CheckFails
  PROVE  ScanInv'
  <1>1. PICK setup \in Setups : scan = Started(setup)
    BY ScanPhases DEF CheckFails
  <1>2. scan.setup = setup /\ scan.day = today
    BY <1>1, StartedFields
  <1>3. scan' = Broken(setup)
    BY <1>2 DEF CheckFails, Broken, Undecided
  <1>4. Broken(setup)' = Broken(setup)
    BY ScanStays DEF CheckFails
  <1>5. QED
    BY <1>3, <1>4 DEF ScanInv

LEMMA BrowseKeeps ==
  ASSUME ScanInv, NEW shots \in SUBSET Schemes, NEW rejected \in SUBSET Schemes, Browse(shots, rejected)
  PROVE  ScanInv'
  <1>1. PICK setup \in Setups, visit \in Visits : scan = Checked(setup, visit)
    BY ScanPhases DEF Browse
  <1>2. Queued = Chosen(setup, visit)
    BY <1>1, CheckedFields DEF Queued, Chosen
  <1>3. /\ scan.setup = setup /\ scan.decisions = Decisions(setup, visit)
        /\ \A s \in Schemes : /\ scan.rows[s] = RowOf(setup, visit, s)
                              /\ scan.visit[s] = Reached(setup, visit[s])
    BY <1>1, CheckedFields
  <1> DEFINE rows == [s \in Schemes |->
               IF s \in Queued THEN Validated(scan.rows[s], scan.visit[s], s \in shots) ELSE scan.rows[s]]
             decisions == [s \in Schemes |->
               IF s \in shots \cup rejected /\ scan.visit[s].shown \in scan.setup.rules
               THEN [scan.decisions[s] EXCEPT !.hidden = TRUE] ELSE scan.decisions[s]]
  <1>4. rows = [s \in Schemes |-> RowAfter(setup, visit, shots, s)]
    BY <1>2, <1>3 DEF RowAfter
  <1>5. decisions = [s \in Schemes |-> DecisionAfter(setup, visit, shots \cup rejected, s)]
    BY <1>3 DEF DecisionAfter
  <1>6. scan' = [scan EXCEPT !.phase = "publishing", !.rows = rows, !.decisions = decisions]
    BY DEF Browse
  <1> HIDE DEF rows, decisions
  <1>7. scan' = Visited(setup, visit, shots, shots \cup rejected)
    BY <1>1, <1>4, <1>5, <1>6 DEF Checked, Visited
  <1>8. shots \subseteq Chosen(setup, visit) /\ shots \cup rejected \subseteq Chosen(setup, visit)
    BY <1>2 DEF Browse
  <1>9. UNCHANGED <<today, reports, files>>
    BY DEF Browse
  <1>10. /\ Visited(setup, visit, shots, shots \cup rejected)' = Visited(setup, visit, shots, shots \cup rejected)
         /\ Chosen(setup, visit)' = Chosen(setup, visit)
    BY <1>9, ScanStays
  <1>11. QED
    BY <1>7, <1>8, <1>10 DEF ScanInv

-------------------------------------------------------------------------------
(* What a scan publishes.                                                  *)

LEMMA SkipReasons ==
  ASSUME NEW b, NEW setup, NEW p, NEW web
  PROVE  SkipReason(b, setup, p, web) \in UnchangedSkips
  BY DEF SkipReason, UnchangedSkips

\* The browser is left out of a page that responds exactly if the page is at rest.
LEMMA WhyNone ==
  ASSUME NEW setup \in Setups, NEW visit \in Visits, NEW s \in Schemes
  PROVE  Why(setup, visit, s) = "none" <=>
           Responds(ProbeOf(setup, visit, s)) /\ Resting(setup, visit, s)
  <1>1. ProbeOf(setup, visit, s).status # "none"
    BY ProbeFields DEF ProbeFacts
  <1>2. Web(setup, visit, s) \in WebChanges
    BY WebChangeValues DEF Web
  <1>3. QED
    BY <1>1, <1>2, RecaptureCases DEF Why, Resting

\* The decision on a protocol, with the pair considered.
DecisionFacts(setup, visit, s, p, j, d) ==
  /\ d.queued <=> Responds(p) /\ d.skip = "none"
  /\ d.queued \in BOOLEAN
  /\ d.hidden = FALSE /\ d.web = j.web /\ d.content = j.content /\ d.known = j.known
  /\ d.major = j.major /\ d.connection = ConnectionChange(Baselines(s), p)
  /\ DOMAIN d = DecisionKeys
  /\ d.skip \in UnchangedSkips =>
       /\ d = j /\ Responds(p) /\ Resting(setup, visit, s)
       /\ d.base = Baselines(s).image.run
       /\ d.skip = SkipReason(Baselines(s), setup, p, d.web)

LEMMA DecisionFields ==
  ASSUME NEW setup \in Setups, NEW visit \in Visits, NEW s \in Schemes
  PROVE  DecisionFacts(setup, visit, s, ProbeOf(setup, visit, s), Judged(setup, visit, s),
                       Decisions(setup, visit)[s])
  <1> DEFINE p == ProbeOf(setup, visit, s)
             j == Judged(setup, visit, s)
             d == Decisions(setup, visit)[s]
  <1>0. JudgedFacts(setup, visit, s, j)
    BY JudgedFields
  <1>8. d = j \/ (d = Doubled(j, Other(s)) /\ j.queued)
    BY DecisionCases
  <1>4. Barred(setup, visit, s) => Responds(p)
    BY DEF Barred, Excluded
  <1>5. Why(setup, visit, s) = "none" <=> Responds(p) /\ Resting(setup, visit, s)
    BY WhyNone
  <1> HIDE DEF p, j, d
  <1>1. /\ DOMAIN j = DecisionKeys
        /\ j.queued <=> Responds(p) /\ Why(setup, visit, s) # "none" /\ ~Barred(setup, visit, s)
        /\ j.queued \in BOOLEAN
        /\ j.skip = IF Barred(setup, visit, s) THEN "title_rule"
                    ELSE IF Why(setup, visit, s) = "none"
                    THEN SkipReason(Baselines(s), setup, p, j.web) ELSE "none"
        /\ j.base = IF Why(setup, visit, s) = "none" THEN Baselines(s).image.run ELSE 0
        /\ j.hidden = FALSE /\ j.connection = ConnectionChange(Baselines(s), p)
    BY <1>0 DEF JudgedFacts, p
  <1>2. SkipReason(Baselines(s), setup, p, j.web) \in UnchangedSkips
    BY SkipReasons
  <1>3. \A x \in UnchangedSkips : x \notin {"none", "title_rule", "duplicate_body"}
    BY DEF UnchangedSkips
  <1>6. ASSUME d = j PROVE DecisionFacts(setup, visit, s, p, j, d)
    BY <1>1, <1>2, <1>3, <1>4, <1>5, <1>6 DEF DecisionFacts
  <1>7. ASSUME d = Doubled(j, Other(s)), j.queued PROVE DecisionFacts(setup, visit, s, p, j, d)
    <2>1. /\ d.skip = "duplicate_body" /\ d.queued = FALSE /\ DOMAIN d = DOMAIN j
          /\ d.hidden = j.hidden /\ d.web = j.web /\ d.content = j.content /\ d.known = j.known
          /\ d.major = j.major /\ d.connection = j.connection
      BY <1>1, <1>7 DEF Doubled, DecisionKeys
    <2>2. QED
      BY <1>1, <1>3, <2>1 DEF DecisionFacts
  <1>9. DecisionFacts(setup, visit, s, p, j, d)
    BY <1>6, <1>7, <1>8
  <1>10. QED
    BY <1>9 DEF p, j, d

\* A row that comes back from the browser, or did not need one.
RowKeys == {"run", "day", "route", "status", "title", "probe"}

RowFacts(setup, visit, shots, s, row) ==
  /\ DOMAIN row = RowKeys /\ row.probe = ProbeOf(setup, visit, s)
  /\ s \in shots => row.status = "captured" /\ row.day = today /\ row.title = visit[s].shown
  /\ s \in Chosen(setup, visit) \ shots => row.status = "failed" /\ row.day = 0
  /\ s \notin Chosen(setup, visit) => row.status = "skipped" /\ row.day = 0

LEMMA RowFields ==
  ASSUME NEW setup \in Setups, NEW visit \in Visits, NEW s \in Schemes,
         NEW shots \in SUBSET Chosen(setup, visit)
  PROVE  RowFacts(setup, visit, shots, s, RowAfter(setup, visit, shots, s))
  <1> DEFINE old == RowOf(setup, visit, s)
             p   == ProbeOf(setup, visit, s)
             row == RowAfter(setup, visit, shots, s)
  <1>1. /\ DOMAIN old = RowKeys
        /\ old.probe = p /\ old.status = "skipped" /\ old.day = 0
    BY DEF RowOf, NoRow, RowKeys
  <1>2. Reached(setup, visit[s]).shown = visit[s].shown
    BY ProbeFields DEF ProbeFacts
  <1> HIDE DEF old, row
  <1>3. ASSUME s \in shots PROVE RowFacts(setup, visit, shots, s, row)
    <2>1. row = [old EXCEPT !.status = "captured", !.day = today, !.title = visit[s].shown]
      BY <1>2, <1>3 DEF RowAfter, Validated, old, row
    <2>2. QED
      BY <1>1, <1>3, <2>1 DEF RowFacts, RowKeys
  <1>4. ASSUME s \in Chosen(setup, visit) \ shots PROVE RowFacts(setup, visit, shots, s, row)
    <2>1. row = [old EXCEPT !.status = "failed"]
      BY <1>4 DEF RowAfter, Validated, old, row
    <2>2. QED
      BY <1>1, <1>4, <2>1 DEF RowFacts, RowKeys
  <1>5. ASSUME s \notin Chosen(setup, visit) PROVE RowFacts(setup, visit, shots, s, row)
    <2>1. row = old
      BY <1>5 DEF RowAfter, old, row
    <2>2. QED
      BY <1>1, <1>5, <2>1 DEF RowFacts, RowKeys
  <1>6. RowFacts(setup, visit, shots, s, row)
    BY <1>3, <1>4, <1>5
  <1>7. QED
    BY <1>6 DEF row

\* The browser only changes what is hidden.
AfterFacts(setup, visit, shown, s, d, e) ==
  /\ e.skip = d.skip /\ e.base = d.base /\ e.twin = d.twin /\ e.web = d.web
  /\ e.content = d.content /\ e.known = d.known /\ e.major = d.major /\ e.connection = d.connection
  /\ e.queued = d.queued
  /\ e.hidden <=> s \in shown /\ visit[s].shown \in setup.rules

LEMMA DecisionAfterFields ==
  ASSUME NEW setup \in Setups, NEW visit \in Visits, NEW s \in Schemes, NEW shown
  PROVE  AfterFacts(setup, visit, shown, s, Decisions(setup, visit)[s], DecisionAfter(setup, visit, shown, s))
  <1> DEFINE d == Decisions(setup, visit)[s]
             e == DecisionAfter(setup, visit, shown, s)
  <1>1. d.hidden = FALSE /\ DOMAIN d = DecisionKeys
    BY DecisionFields DEF DecisionFacts
  <1>2. Reached(setup, visit[s]).shown = visit[s].shown
    BY ProbeFields DEF ProbeFacts
  <1>3. /\ s \in shown /\ visit[s].shown \in setup.rules => e = [d EXCEPT !.hidden = TRUE]
        /\ ~(s \in shown /\ visit[s].shown \in setup.rules) => e = d
    BY <1>2 DEF DecisionAfter
  <1> HIDE DEF d, e
  <1>4. AfterFacts(setup, visit, shown, s, d, e)
    BY <1>1, <1>3 DEF AfterFacts, DecisionKeys
  <1>5. QED
    BY <1>4 DEF d, e

\* A published row keeps what the scan has of it.
EvidenceFacts(run, day, setup, row, d, e) ==
  /\ e.run = run /\ e.day = day /\ e.route = setup.route /\ e.status = row.status
  /\ e.title = row.title
  /\ e.probe.skip = d.skip /\ e.probe.base = d.base /\ e.probe.twin = d.twin
  /\ e.probe.status = row.probe.status /\ e.probe.place = row.probe.place
  /\ e.probe.title = row.probe.title /\ e.probe.depth = row.probe.depth
  /\ e.probe.words = row.probe.words /\ e.probe.forms = row.probe.forms
  /\ e.probe.layout = row.probe.layout
  /\ e.probe = [row.probe EXCEPT !.skip = d.skip, !.base = d.base, !.twin = d.twin]

LEMMA EvidenceFields ==
  ASSUME NEW run, NEW day, NEW setup, NEW row, NEW d, DOMAIN row = RowKeys, DOMAIN row.probe = ProbeKeys
  PROVE  EvidenceFacts(run, day, setup, row, d, Evidence(run, day, setup, row, d))
  <1> DEFINE probe == [row.probe EXCEPT !.skip = d.skip, !.base = d.base, !.twin = d.twin]
             e == Evidence(run, day, setup, row, d)
  <1>1. /\ e.run = run /\ e.day = day /\ e.route = setup.route /\ e.status = row.status
        /\ e.title = row.title /\ e.probe = probe
    BY DEF Evidence, RowKeys
  <1>2. /\ probe.skip = d.skip /\ probe.base = d.base /\ probe.twin = d.twin
        /\ probe.status = row.probe.status /\ probe.place = row.probe.place
        /\ probe.title = row.probe.title /\ probe.depth = row.probe.depth
        /\ probe.words = row.probe.words /\ probe.forms = row.probe.forms
        /\ probe.layout = row.probe.layout
    BY DEF ProbeKeys
  <1>3. probe = [row.probe EXCEPT !.skip = d.skip, !.base = d.base, !.twin = d.twin]
    OBVIOUS
  <1> HIDE DEF probe, e
  <1>4. EvidenceFacts(run, day, setup, row, d, e)
    BY <1>1, <1>2, <1>3 DEF EvidenceFacts
  <1>5. QED
    BY <1>4 DEF e

-------------------------------------------------------------------------------
(* The baselines.                                                          *)

\* A baseline is the newest row of its kind: reports are in the order of their days.
LatestFacts(kind, s, row) ==
  \/ row = NoRow /\ \A r \in Runs : ~Counts(kind, Row(r, s))
  \/ \E r \in Runs : /\ row = Row(r, s) /\ Counts(kind, Row(r, s))
                     /\ \A q \in Runs : q > r => ~Counts(kind, Row(q, s))

LEMMA LatestRow ==
  ASSUME TypeOK, DaysInv, NEW kind, NEW s \in Schemes
  PROVE  LatestFacts(kind, s, Latest(kind, s))
  <1> DEFINE holds == {r \in Runs : Counts(kind, reports[r].rows[s])}
             top(r) == \A q \in holds \ {r} : Later(r, q)
  <1>1. /\ Runs \subseteq 1..lastRun /\ lastRun \in Nat
        /\ \A r \in Runs : reports[r].day \in Int
        /\ \A r, q \in Runs : q < r => reports[q].day <= reports[r].day
    BY DEF TypeOK, DaysInv
  <1>2. CASE holds = {}
    <2>1. Latest(kind, s) = NoRow
      BY <1>2 DEF Latest
    <2>2. QED
      BY <1>2, <2>1 DEF LatestFacts, Row
  <1>3. CASE holds # {}
    <2> DEFINE T == {lastRun - r : r \in holds}
    <2>1. T \in SUBSET Nat /\ T # {}
      <3>1. \A r \in holds : lastRun - r \in Nat
        BY <1>1
      <3>2. QED
        BY <1>3, <3>1
    <2>2. PICK i \in T : \A j \in T : i <= j
      BY <2>1, LeastOne
    <2>3. PICK m \in holds : i = lastRun - m
      BY <2>2
    <2>4. \A q \in holds : q <= m
      <3> SUFFICES ASSUME NEW q \in holds PROVE q <= m
        OBVIOUS
      <3>1. lastRun - m <= lastRun - q
        BY <2>2, <2>3
      <3>2. m \in Int /\ q \in Int /\ lastRun \in Int
        BY <1>1
      <3>3. QED
        BY <3>1, <3>2
    <2>5. \A q \in holds \ {m} : q < m
      BY <1>1, <2>4
    <2>6. top(m)
      BY <1>1, <2>5 DEF Later
    <2>7. ASSUME NEW x \in holds, top(x) PROVE x = m
      <3> SUFFICES ASSUME x # m PROVE FALSE
        OBVIOUS
      <3>1. Later(x, m) /\ x < m /\ x \in Int /\ m \in Int
        BY <1>1, <2>3, <2>5, <2>7
      <3>2. reports[x].day <= reports[m].day /\ reports[x].day \in Int /\ reports[m].day \in Int
        BY <1>1, <3>1
      <3>3. QED
        BY <3>1, <3>2 DEF Later
    <2>8. (CHOOSE r \in holds : top(r)) = m
      BY <2>6, <2>7
    <2>9. Latest(kind, s) = Row(m, s)
      BY <1>3, <2>8 DEF Latest, Row
    <2>10. \A q \in Runs : q > m => ~Counts(kind, Row(q, s))
      BY <1>1, <2>4 DEF Row
    <2>11. QED
      BY <2>3, <2>9, <2>10 DEF LatestFacts, Row
  <1>4. QED
    BY <1>2, <1>3

LEMMA BaselineRows ==
  ASSUME TypeOK, DaysInv, NEW s \in Schemes
  PROVE  /\ LatestFacts("previous", s, Baselines(s).previous)
         /\ LatestFacts("connection", s, Baselines(s).connection)
         /\ LatestFacts("title", s, Baselines(s).title)
         /\ LatestFacts("text", s, Baselines(s).text)
         /\ LatestFacts("image", s, Baselines(s).image)
         /\ Baselines(s).route = Baselines(s).image.route
         /\ Baselines(s).textRoute = Baselines(s).text.route
  BY LatestRow DEF Baselines

\* A row that is there is one of the reports.
LEMMA RowsAre ==
  ASSUME TypeOK, NEW kind, NEW s \in Schemes, NEW row, LatestFacts(kind, s, row)
  PROVE  /\ IsRow(row) <=> row # NoRow
         /\ IsRow(row) => /\ row.run \in Runs /\ row = Row(row.run, s) /\ Counts(kind, row)
                          /\ \A q \in Runs : q > row.run => ~Counts(kind, Row(q, s))
         /\ ~IsRow(row) => \A r \in Runs : ~Counts(kind, Row(r, s))
  <1>1. \A r \in Runs : Row(r, s).run = r /\ r # 0
    BY DEF TypeOK
  <1>2. NoRow.run = 0
    BY DEF NoRow
  <1>3. QED
    BY <1>1, <1>2 DEF LatestFacts, IsRow

\* The row a page's content is compared with is one of the reports too, if it was read.
LEMMA OldIsRow ==
  ASSUME TypeOK, DaysInv, NEW s \in Schemes, NEW setup \in Setups, TextComplete(Old(Baselines(s), setup).probe),
         setup.comparison = "text"
  PROVE  \E r \in Runs : Old(Baselines(s), setup) = Row(r, s)
  <1>1. ~TextComplete(NoRow.probe)
    BY DEF TextComplete, Succeeds, Responds, NoRow, NoProbe
  <1>2. Old(Baselines(s), setup) \in {Baselines(s).text, Baselines(s).previous}
    BY DEF Old
  <1>3. QED
    BY <1>1, <1>2, BaselineRows DEF LatestFacts

LEMMA SimilarBoth ==
  ASSUME NEW x \in Int, NEW y \in Int, Similar(x, y)
  PROVE  Similar(y, x)
  BY DEF Similar

\* A page at rest has the forms of its screenshot's, and a layout like its.
LEMMA RestingForms ==
  ASSUME TypeOK, DaysInv, FormsInv, NEW setup \in Setups, NEW visit \in Visits, NEW s \in Schemes,
         Resting(setup, visit, s), setup.comparison = "text",
         NEW p, p = ProbeOf(setup, visit, s), NEW shot, shot = Baselines(s).image
  PROVE  /\ p.forms = shot.probe.forms
         /\ StructureKnown(shot.probe) => Similar(shot.probe.layout, p.layout)
  <1> DEFINE b    == Baselines(s)
             then == Old(b, setup).probe
  <1>1. LatestFacts("image", s, shot) /\ IsRow(shot) /\ ImageMatches(b, setup, p)
    BY BaselineRows DEF Resting, AtRest
  <1>2. shot.run \in Runs /\ shot = Row(shot.run, s)
    BY <1>1, RowsAre
  <1>3. p.layout \in Int /\ shot.probe.layout \in Int
    BY <1>2, ProbeFields DEF ProbeFacts, DaysInv
  <1>4. CASE StructureKnown(shot.probe)
    <2>1. StructureComparison(p, shot.probe) \in {"unchanged", "largely_unchanged"}
      BY <1>1, <1>4 DEF ImageMatches
    <2>2. p.forms = shot.probe.forms /\ Similar(p.layout, shot.probe.layout)
      BY <2>1 DEF StructureComparison
    <2>3. QED
      BY <1>3, <2>2, SimilarBoth
  <1>5. CASE ~StructureKnown(shot.probe) /\ SameContent(p, shot.probe)
    BY <1>5 DEF SameContent, ContentOf
  <1>6. CASE ~StructureKnown(shot.probe) /\ Lineage(b, setup, p)
    <2>1. StableStructure(b, setup, p)
      BY <1>6 DEF Lineage
    <2>2. TextComplete(then) /\ p.forms = then.forms
      BY <2>1 DEF StableStructure, StructureComparison
    <2>3. PICK r \in Runs : Old(b, setup) = Row(r, s)
      BY <2>2, OldIsRow
    <2>4. \/ then.base = shot.run /\ then.skip \in UnchangedSkips \ {"unchanged_title"}
          \/ ContentOf(shot.probe) = ContentOf(then)
      BY <1>6 DEF Lineage
    <2>5. then = Row(r, s).probe /\ Row(shot.run, s) = shot
      BY <1>2, <2>3
    <2> HIDE DEF then
    <2>6. ASSUME then.base = shot.run, then.skip \in UnchangedSkips \ {"unchanged_title"}
          PROVE  then.forms = shot.probe.forms
      BY <1>2, <2>5, <2>6 DEF FormsInv
    <2>7. ASSUME ContentOf(shot.probe) = ContentOf(then) PROVE then.forms = shot.probe.forms
      BY <2>7 DEF ContentOf
    <2>8. QED
      BY <1>6, <2>2, <2>4, <2>6, <2>7
  <1>7. QED
    BY <1>1, <1>4, <1>5, <1>6 DEF ImageMatches

-------------------------------------------------------------------------------
(* Publishing.                                                             *)

\* The screenshot a decision rests on is that of a report, if there is one.
LEMMA DecisionBase ==
  ASSUME TypeOK, DaysInv, NEW setup \in Setups, NEW visit \in Visits, NEW s \in Schemes
  PROVE  Decisions(setup, visit)[s].base \in 0..lastRun
  <1> DEFINE j == Judged(setup, visit, s)
             d == Decisions(setup, visit)[s]
             shot == Baselines(s).image
  <1>1. JudgedFacts(setup, visit, s, j)
    BY JudgedFields
  <1>2. d = j \/ d = Doubled(j, Other(s))
    BY DecisionCases
  <1>3. LatestFacts("image", s, shot)
    BY BaselineRows
  <1> HIDE DEF j, d, shot
  <1>4. shot.run \in 0..lastRun
    <2>1. NoRow.run = 0
      BY DEF NoRow
    <2>2. \A r \in Runs : Row(r, s).run \in 1..lastRun
      BY DEF TypeOK
    <2>3. lastRun \in Nat
      BY DEF TypeOK
    <2>4. shot = NoRow \/ \E r \in Runs : shot = Row(r, s)
      BY <1>3 DEF LatestFacts
    <2>5. QED
      BY <2>1, <2>2, <2>3, <2>4
  <1>5. d.base = j.base
    BY <1>1, <1>2 DEF Doubled, JudgedFacts, DecisionKeys
  <1>6. j.base = shot.run \/ j.base = 0
    BY <1>1 DEF JudgedFacts, shot
  <1>7. lastRun \in Nat
    BY DEF TypeOK
  <1>8. d.base \in 0..lastRun
    BY <1>4, <1>5, <1>6, <1>7
  <1>9. QED
    BY <1>8 DEF d

\* What the row of a protocol that joins the reports is known by.
NewRowFacts(s, e) ==
  /\ e.run = lastRun + 1 /\ e.status \in {"captured", "failed", "skipped"}
  /\ e.status = "skipped" <=> e.probe # NoProbe /\ ~(e.probe.skip = "none" /\ Responds(e.probe))
  /\ e.day \in 0..today /\ e.probe.layout \in Int
  /\ e.probe.base \in 0..lastRun
  /\ e.probe.skip \in UnchangedSkips \ {"unchanged_title"} =>
       /\ e.probe.base \in Runs
       /\ e.probe.forms = Row(e.probe.base, s).probe.forms

LEMMA BrokenRow ==
  ASSUME TypeOK, NEW setup \in Setups, NEW s \in Schemes
  PROVE  NewRowFacts(s, Evidence(lastRun + 1, Broken(setup).rows[s].day, setup,
                                 Broken(setup).rows[s], Broken(setup).decisions[s]))
  <1> DEFINE row == Broken(setup).rows[s]
             d   == Broken(setup).decisions[s]
             e   == Evidence(lastRun + 1, row.day, setup, row, d)
  <1>1. row = [NoRow EXCEPT !.status = "failed"] /\ d = Undecided
    BY BrokenFields
  <1>2. /\ DOMAIN row = RowKeys /\ row.probe = NoProbe /\ row.status = "failed" /\ row.day = 0
        /\ DOMAIN row.probe = ProbeKeys
    BY <1>1 DEF NoRow, RowKeys, NoProbe, ProbeKeys
  <1>3. d.skip = "none" /\ d.base = 0 /\ d.twin = "none"
    BY <1>1 DEF Undecided
  <1> HIDE DEF row, d
  <1>4. EvidenceFacts(lastRun + 1, row.day, setup, row, d, e)
    BY <1>2, EvidenceFields
  <1>5. [NoProbe EXCEPT !.skip = "none", !.base = 0, !.twin = "none"] = NoProbe
    <2>1. \A f, k : f = [x \in DOMAIN f |-> f[x]] => [f EXCEPT ![k] = f[k]] = f
      OBVIOUS
    <2>2. NoProbe = [x \in DOMAIN NoProbe |-> NoProbe[x]]
      BY DEF NoProbe
    <2>3. NoProbe["skip"] = "none" /\ NoProbe["base"] = 0 /\ NoProbe["twin"] = "none"
      BY DEF NoProbe
    <2>4. QED
      BY <2>1, <2>2, <2>3
  <1>6. NoProbe.layout = 0 /\ NoProbe.skip = "none" /\ NoProbe.base = 0
    BY DEF NoProbe
  <1> HIDE DEF e
  <1>7. e.probe = NoProbe /\ e.run = lastRun + 1 /\ e.day = 0 /\ e.status = "failed"
    BY <1>2, <1>3, <1>4, <1>5 DEF EvidenceFacts
  <1>8. lastRun \in Nat /\ today \in Nat
    BY DEF TypeOK
  <1>9. "none" \notin UnchangedSkips
    BY DEF UnchangedSkips
  <1>10. NewRowFacts(s, e)
    BY <1>6, <1>7, <1>8, <1>9 DEF NewRowFacts
  <1>11. QED
    BY <1>10 DEF e, row, d

\* Only a text comparison finds a page at rest on more than its title.
LEMMA RestsOnText ==
  ASSUME NEW setup \in Setups, NEW visit \in Visits, NEW s \in Schemes,
         Decisions(setup, visit)[s].skip \in UnchangedSkips \ {"unchanged_title"}
  PROVE  setup.comparison = "text"
  <1> DEFINE j == Judged(setup, visit, s)
             d == Decisions(setup, visit)[s]
             p == ProbeOf(setup, visit, s)
  <1>1. JudgedFacts(setup, visit, s, j)
    BY JudgedFields
  <1>2. DecisionFacts(setup, visit, s, p, j, d)
    BY DecisionFields
  <1>3. d.skip = SkipReason(Baselines(s), setup, p, d.web) /\ d.web = j.web
    BY <1>2 DEF DecisionFacts
  <1>4. setup.comparison # "text" => Web(setup, visit, s) \notin {"text_only_update", "minor_content_update"}
    BY WebChangeValues DEF Web
  <1>5. \/ j.web = Web(setup, visit, s)
        \/ j.web = "structure_changed" /\ setup.comparison = "text"
    BY <1>1 DEF JudgedFacts
  <1>6. setup.comparison \in {"text", "title"}
    BY CaptureAssumption
  <1>7. d.skip \in UnchangedSkips \ {"unchanged_title"}
    OBVIOUS
  <1> HIDE DEF j, d, p
  <1>8. QED
    BY <1>3, <1>4, <1>5, <1>6, <1>7 DEF SkipReason

LEMMA VisitedRow ==
  ASSUME TypeOK, DaysInv, FormsInv, NEW setup \in Setups, NEW visit \in Visits, NEW s \in Schemes,
         NEW shots \in SUBSET Chosen(setup, visit), NEW shown
  PROVE  NewRowFacts(s, Evidence(lastRun + 1, RowAfter(setup, visit, shots, s).day, setup,
                                 RowAfter(setup, visit, shots, s), DecisionAfter(setup, visit, shown, s)))
  <1> DEFINE row == RowAfter(setup, visit, shots, s)
             d   == Decisions(setup, visit)[s]
             a   == DecisionAfter(setup, visit, shown, s)
             p   == ProbeOf(setup, visit, s)
             j   == Judged(setup, visit, s)
             e   == Evidence(lastRun + 1, row.day, setup, row, a)
             shot == Baselines(s).image
  <1>1. /\ RowFacts(setup, visit, shots, s, row) /\ AfterFacts(setup, visit, shown, s, d, a)
        /\ DecisionFacts(setup, visit, s, p, j, d)
        /\ ProbeFacts(setup, visit, s, p, Reached(setup, visit[s]))
    BY RowFields, DecisionAfterFields, DecisionFields, ProbeFields
  <1>2. s \in Chosen(setup, visit) <=> d.queued
    BY DEF Chosen
  <1>3. d.base \in 0..lastRun
    BY DecisionBase
  <1>4. d.skip \in UnchangedSkips \ {"unchanged_title"} => setup.comparison = "text"
    BY RestsOnText
  <1>5. Resting(setup, visit, s) /\ setup.comparison = "text" => p.forms = shot.probe.forms
    BY RestingForms
  <1>6. Resting(setup, visit, s) => shot.run \in Runs /\ shot = Row(shot.run, s)
    BY BaselineRows, RowsAre DEF Resting, AtRest
  <1> HIDE DEF row, d, a, p, j, shot
  <1>7. DOMAIN row = RowKeys /\ DOMAIN row.probe = ProbeKeys /\ row.probe = p
    BY <1>1 DEF RowFacts, ProbeFacts, p
  <1>8. EvidenceFacts(lastRun + 1, row.day, setup, row, a, e)
    BY <1>7, EvidenceFields
  <1> HIDE DEF e
  <1>9. /\ e.run = lastRun + 1 /\ e.day = row.day /\ e.status = row.status
        /\ e.probe.skip = d.skip /\ e.probe.base = d.base /\ e.probe.status = p.status
        /\ e.probe.forms = p.forms /\ e.probe.layout = p.layout
    BY <1>1, <1>7, <1>8 DEF EvidenceFacts, AfterFacts
  <1>10. today \in Nat /\ lastRun \in Nat
    BY DEF TypeOK
  <1>11. e.day \in 0..today /\ e.status \in {"captured", "failed", "skipped"}
    BY <1>1, <1>9, <1>10 DEF RowFacts
  <1>12. e.status = "skipped" <=> ~d.queued
    BY <1>1, <1>2, <1>9 DEF RowFacts
  <1>13. e.probe # NoProbe
    BY <1>1, <1>9 DEF ProbeFacts, NoProbe
  <1>14. d.queued <=> Responds(e.probe) /\ e.probe.skip = "none"
    BY <1>1, <1>9 DEF DecisionFacts, Responds
  <1>15. e.probe.layout \in Int
    BY <1>1, <1>9 DEF ProbeFacts
  <1>16. ASSUME e.probe.skip \in UnchangedSkips \ {"unchanged_title"}
         PROVE  e.probe.base \in Runs /\ e.probe.forms = Row(e.probe.base, s).probe.forms
    <2>1. Resting(setup, visit, s) /\ d.base = shot.run
      BY <1>1, <1>9, <1>16 DEF DecisionFacts, shot
    <2>2. QED
      BY <1>4, <1>5, <1>6, <1>9, <1>16, <2>1
  <1>17. NewRowFacts(s, e)
    BY <1>3, <1>9, <1>11, <1>12, <1>13, <1>14, <1>15, <1>16 DEF NewRowFacts
  <1>18. QED
    BY <1>17 DEF e, row, a

LEMMA NewRow ==
  ASSUME TypeOK, DaysInv, FormsInv, ScanInv, scan.phase = "publishing", NEW s \in Schemes
  PROVE  NewRowFacts(s, Evidence(lastRun + 1, scan.rows[s].day, scan.setup, scan.rows[s], scan.decisions[s]))
  <1>1. ASSUME NEW setup \in Setups, scan = Broken(setup)
        PROVE  NewRowFacts(s, Evidence(lastRun + 1, scan.rows[s].day, scan.setup, scan.rows[s], scan.decisions[s]))
    <2>1. scan.setup = setup
      BY <1>1, BrokenFields
    <2>2. QED
      BY <1>1, <2>1, BrokenRow
  <1>2. ASSUME NEW setup \in Setups, NEW visit \in Visits, NEW shots \in SUBSET Schemes,
               NEW shown \in SUBSET Schemes, shots \subseteq Chosen(setup, visit),
               scan = Visited(setup, visit, shots, shown)
        PROVE  NewRowFacts(s, Evidence(lastRun + 1, scan.rows[s].day, scan.setup, scan.rows[s], scan.decisions[s]))
    <2>1. /\ scan.setup = setup /\ scan.rows[s] = RowAfter(setup, visit, shots, s)
          /\ scan.decisions[s] = DecisionAfter(setup, visit, shown, s)
      BY <1>2, VisitedFields
    <2>2. QED
      BY <1>2, <2>1, VisitedRow
  <1>3. QED
    BY <1>1, <1>2, ScanPhases

-------------------------------------------------------------------------------
(* The invariant.                                                          *)

LEMMA PublishKeeps ==
  ASSUME IInv, Publish
  PROVE  IInv'
  <1> USE DEF IInv
  <1> DEFINE run == lastRun + 1
             rows == [s \in Schemes |-> Evidence(run, scan.rows[s].day, scan.setup, scan.rows[s], scan.decisions[s])]
             new  == [day |-> scan.day, route |-> scan.setup.route, rows |-> rows]
  <1>1. /\ scan.phase = "publishing" /\ lastRun < MaxScans /\ lastRun' = run /\ scan' = NoScan
        /\ today' = today /\ lost' = lost /\ files' \in {files, files \cup {run}}
        /\ reports' = [r \in Runs \cup {run} |-> IF r \in Runs THEN reports[r] ELSE new]
    BY DEF Publish
  <1>2. \A s \in Schemes : NewRowFacts(s, rows[s])
    BY <1>1, NewRow
  <1>3. scan.day = today
    BY <1>1, ScanPhases, BrokenFields, VisitedFields
  <1>4. new.day = today /\ new.rows = rows
    BY <1>3
  <1>5. /\ lastRun \in Nat /\ today \in Nat /\ today \in 0..MaxDay /\ lost \in 0..MaxLosses
        /\ Runs \subseteq 1..lastRun /\ files \subseteq Runs /\ run \in Nat /\ MaxScans \in Nat
    BY CaptureAssumption DEF TypeOK
  <1>6. run \notin Runs
    BY <1>5
  <1> HIDE DEF run, rows, new
  <1>7. Runs' = Runs \cup {run}
    BY <1>1 DEF Runs
  <1>8. \A r \in Runs : reports'[r] = reports[r]
    BY <1>1
  <1>9. reports'[run] = new
    BY <1>1, <1>6
  <1>10. \A r \in Runs : \A s : Row(r, s)' = Row(r, s)
    BY <1>8 DEF Row
  <1>11. \A r, s : r = run => Row(r, s)' = rows[s]
    <2>1. \A s : reports'[run].rows[s] = rows[s]
      BY <1>4, <1>9
    <2>2. \A r, s : Row(r, s)' = reports'[r].rows[s]
      BY DEF Row
    <2>3. QED
      BY <2>1, <2>2
  <1>12. TypeOK'
    <2>1. today' \in 0..MaxDay /\ lost' \in 0..MaxLosses
      BY <1>1, <1>5
    <2>2. lastRun' \in 0..MaxScans
      BY <1>1, <1>5 DEF run
    <2>3. Runs' \subseteq 1..lastRun'
      BY <1>1, <1>5, <1>7 DEF run
    <2>4. files' \subseteq Runs'
      BY <1>1, <1>5, <1>7
    <2>5. scan'.phase = "none"
      BY <1>1 DEF NoScan
    <2>6. ASSUME NEW r \in Runs', NEW s \in Schemes
          PROVE  /\ Row(r, s)'.run = r /\ Row(r, s)'.status \in {"captured", "failed", "skipped"}
                 /\ Row(r, s)'.status = "skipped" <=>
                      Row(r, s)'.probe # NoProbe /\ ~(Row(r, s)'.probe.skip = "none" /\ Responds(Row(r, s)'.probe))
                 /\ Row(r, s)'.day <= today'
      <3>1. CASE r \in Runs
        BY <1>1, <1>10, <3>1 DEF TypeOK
      <3>2. CASE r = run
        <4>1. Row(r, s)' = rows[s] /\ rows[s].day \in 0..today /\ today' = today
          BY <1>1, <1>2, <1>11, <3>2 DEF NewRowFacts
        <4>2. rows[s].day <= today
          BY <1>5, <4>1
        <4>3. QED
          BY <1>2, <3>2, <4>1, <4>2 DEF NewRowFacts, run
      <3>3. QED
        BY <1>7, <3>1, <3>2
    <2> HIDE DEF IInv
    <2>7. QED
      BY <2>1, <2>2, <2>3, <2>4, <2>5, <2>6 DEF TypeOK
  <1>13. DaysInv'
    <2>1. \A r \in Runs' : reports'[r].day \in 0..today'
      BY <1>1, <1>4, <1>5, <1>7, <1>8, <1>9 DEF DaysInv
    <2>2. ASSUME NEW r \in Runs', NEW q \in Runs', q < r PROVE reports'[q].day <= reports'[r].day
      <3>1. CASE r \in Runs /\ q \in Runs
        BY <1>8, <2>2, <3>1 DEF DaysInv
      <3>2. CASE r = run /\ q \in Runs
        <4>1. reports'[r].day = today /\ reports'[q].day \in 0..today
          BY <1>4, <1>8, <1>9, <3>2 DEF DaysInv
        <4>2. QED
          BY <1>5, <4>1
      <3>3. ~(q = run)
        BY <1>5, <1>7, <2>2 DEF run
      <3>4. QED
        BY <1>7, <3>1, <3>2, <3>3
    <2>3. ASSUME NEW r \in Runs', NEW s \in Schemes
          PROVE  Row(r, s)'.day \in 0..today' /\ Row(r, s)'.probe.layout \in Int
      <3>1. CASE r \in Runs
        BY <1>1, <1>10, <3>1 DEF DaysInv
      <3>2. CASE r = run
        BY <1>1, <1>2, <1>11, <3>2 DEF NewRowFacts
      <3>3. QED
        BY <1>7, <3>1, <3>2
    <2>4. QED
      BY <2>1, <2>2, <2>3 DEF DaysInv
  <1>14. FormsInv'
    <2>1. ASSUME NEW r \in Runs', NEW s \in Schemes
          PROVE  /\ Row(r, s)'.probe.base \in 0..lastRun
                 /\ Row(r, s)'.probe.skip \in UnchangedSkips \ {"unchanged_title"} =>
                      \A q \in Runs : Row(r, s)'.probe.base = q => Row(r, s)'.probe.forms = Row(q, s).probe.forms
      <3>1. CASE r \in Runs
        BY <1>10, <3>1 DEF FormsInv
      <3>2. CASE r = run
        BY <1>2, <1>11, <3>2 DEF NewRowFacts
      <3>3. QED
        BY <1>7, <3>1, <3>2
    <2>2. \A q \in Runs' \ Runs : q \notin 0..lastRun
      BY <1>5, <1>7 DEF run
    <2>3. ASSUME NEW r \in Runs', NEW s \in Schemes
          PROVE  /\ Row(r, s)'.probe.base \in 0..lastRun'
                 /\ Row(r, s)'.probe.skip \in UnchangedSkips \ {"unchanged_title"} =>
                      \A q \in Runs' : Row(r, s)'.probe.base = q => Row(r, s)'.probe.forms = Row(q, s)'.probe.forms
      <3>1. Row(r, s)'.probe.base \in 0..lastRun'
        BY <1>1, <1>5, <2>1 DEF run
      <3>2. ASSUME Row(r, s)'.probe.skip \in UnchangedSkips \ {"unchanged_title"},
                   NEW q \in Runs', Row(r, s)'.probe.base = q
            PROVE  Row(r, s)'.probe.forms = Row(q, s)'.probe.forms
        <4>1. q \in Runs
          BY <2>1, <2>2, <3>2
        <4>2. Row(r, s)'.probe.forms = Row(q, s).probe.forms
          BY <2>1, <3>2, <4>1
        <4>3. QED
          BY <1>10, <4>1, <4>2
      <3>3. QED
        BY <3>1, <3>2
    <2>4. QED
      BY <2>3 DEF FormsInv
  <1>15. ScanInv'
    BY <1>1 DEF ScanInv
  <1>16. QED
    BY <1>12, <1>13, <1>14, <1>15

\* A scan under way moves nothing else.
LEMMA ReportsStay ==
  ASSUME TypeOK, DaysInv, FormsInv, UNCHANGED <<today, reports, lastRun, files, lost>>,
         scan'.phase \in {"none", "checking", "browsing", "publishing"}
  PROVE  TypeOK' /\ DaysInv' /\ FormsInv'
  <1>1. \A r, s : Row(r, s)' = Row(r, s)
    BY DEF Row
  <1>2. QED
    BY <1>1 DEF TypeOK, DaysInv, FormsInv, Runs

LEMMA Invariant == Spec => []IInv
  <1>1. Init => IInv
    <2> SUFFICES ASSUME Init PROVE IInv
      OBVIOUS
    <2>1. /\ today = 0 /\ lastRun = 0 /\ Runs = {} /\ files = {} /\ lost = 0 /\ scan = NoScan
      BY DEF Init, Runs
    <2>2. TypeOK
      BY <2>1, CaptureAssumption DEF TypeOK, NoScan
    <2>3. DaysInv /\ FormsInv /\ ScanInv
      BY <2>1 DEF DaysInv, FormsInv, ScanInv
    <2>4. QED
      BY <2>2, <2>3 DEF IInv
  <1>2. IInv /\ [Next]_vars => IInv'
    <2> SUFFICES ASSUME IInv, [Next]_vars PROVE IInv'
      OBVIOUS
    <2>1. TypeOK /\ DaysInv /\ FormsInv /\ ScanInv
      BY DEF IInv
    <2>2. ASSUME NEW setup \in Setups, StartScan(setup) PROVE IInv'
      <3>1. ScanInv' /\ UNCHANGED <<today, reports, lastRun, files, lost>>
        BY <2>2, StartKeeps DEF StartScan
      <3>2. scan'.phase \in {"none", "checking", "browsing", "publishing"}
        BY <2>2 DEF StartScan
      <3>3. QED
        BY <2>1, <3>1, <3>2, ReportsStay DEF IInv
    <2>3. ASSUME NEW visit \in Visits, CheckWebsites(visit) PROVE IInv'
      <3>1. ScanInv' /\ UNCHANGED <<today, reports, lastRun, files, lost>>
        BY <2>1, <2>3, CheckKeeps DEF CheckWebsites
      <3>2. scan'.phase \in {"none", "checking", "browsing", "publishing"}
        BY <2>3 DEF CheckWebsites
      <3>3. QED
        BY <2>1, <3>1, <3>2, ReportsStay DEF IInv
    <2>4. CASE CheckFails
      <3>1. ScanInv' /\ UNCHANGED <<today, reports, lastRun, files, lost>>
        BY <2>1, <2>4, FailsKeeps DEF CheckFails
      <3>2. scan'.phase \in {"none", "checking", "browsing", "publishing"}
        BY <2>4 DEF CheckFails
      <3>3. QED
        BY <2>1, <3>1, <3>2, ReportsStay DEF IInv
    <2>5. ASSUME NEW shots \in SUBSET Schemes, NEW rejected \in SUBSET Schemes, Browse(shots, rejected)
          PROVE  IInv'
      <3>1. ScanInv' /\ UNCHANGED <<today, reports, lastRun, files, lost>>
        BY <2>1, <2>5, BrowseKeeps DEF Browse
      <3>2. PICK setup \in Setups, visit \in Visits : scan = Checked(setup, visit)
        BY <2>1, <2>5, ScanPhases DEF Browse
      <3>3. scan'.phase = "publishing"
        BY <2>5, <3>2 DEF Browse, Checked
      <3>4. QED
        BY <2>1, <3>1, <3>3, ReportsStay DEF IInv
    <2>6. CASE Publish
      BY <2>6, PublishKeeps
    <2>7. CASE Abandon
      <3>1. ScanInv' /\ UNCHANGED <<today, reports, lastRun, files, lost>>
        BY <2>7 DEF Abandon, ScanInv
      <3>2. scan'.phase \in {"none", "checking", "browsing", "publishing"}
        BY <2>7 DEF Abandon, NoScan
      <3>3. QED
        BY <2>1, <3>1, <3>2, ReportsStay DEF IInv
    <2>8. Idle => scan = NoScan
      BY <2>1, ScanPhases DEF Idle
    <2>9. ASSUME NEW run \in 1..MaxScans, DeleteReport(run) PROVE IInv'
      <3>1. /\ scan = NoScan /\ scan' = scan /\ today' = today /\ lastRun' = lastRun /\ lost' = lost
            /\ files' = files \ {run} /\ reports' = [r \in Runs \ {run} |-> reports[r]]
        BY <2>8, <2>9 DEF DeleteReport
      <3>2. Runs' = Runs \ {run}
        BY <3>1 DEF Runs
      <3>3. \A r \in Runs' : reports'[r] = reports[r]
        BY <3>1, <3>2
      <3>4. \A r \in Runs' : \A s : Row(r, s)' = Row(r, s)
        BY <3>3 DEF Row
      <3>5. TypeOK'
        <4>1. \A r \in Runs', s \in Schemes :
                /\ Row(r, s)'.run = r /\ Row(r, s)'.status \in {"captured", "failed", "skipped"}
                /\ Row(r, s)'.status = "skipped" <=>
                     Row(r, s)'.probe # NoProbe /\ ~(Row(r, s)'.probe.skip = "none" /\ Responds(Row(r, s)'.probe))
                /\ Row(r, s)'.day <= today'
          BY <2>1, <3>1, <3>2, <3>4 DEF TypeOK
        <4>2. /\ today' \in 0..MaxDay /\ lastRun' \in 0..MaxScans /\ lost' \in 0..MaxLosses
              /\ Runs' \subseteq 1..lastRun' /\ files' \subseteq Runs'
              /\ scan'.phase \in {"none", "checking", "browsing", "publishing"}
          BY <2>1, <3>1, <3>2 DEF TypeOK
        <4>3. QED
          BY <4>1, <4>2 DEF TypeOK
      <3>6. DaysInv'
        BY <2>1, <3>1, <3>2, <3>3, <3>4 DEF DaysInv
      <3>7. FormsInv'
        BY <2>1, <3>1, <3>2, <3>4 DEF FormsInv
      <3>8. ScanInv'
        BY <3>1 DEF ScanInv
      <3>9. QED
        BY <3>5, <3>6, <3>7, <3>8 DEF IInv
    <2>10. ASSUME NEW run \in 1..MaxScans, LoseImages(run) PROVE IInv'
      <3>1. /\ scan = NoScan /\ scan' = scan /\ today' = today /\ lastRun' = lastRun
            /\ files' = files \ {run} /\ lost' = lost + 1 /\ lost < MaxLosses /\ reports' = reports
        BY <2>8, <2>10 DEF LoseImages
      <3>2. Runs' = Runs /\ \A r, s : Row(r, s)' = Row(r, s)
        BY <3>1 DEF Runs, Row
      <3>3. lost' \in 0..MaxLosses
        BY <2>1, <3>1, CaptureAssumption DEF TypeOK
      <3>4. TypeOK'
        BY <2>1, <3>1, <3>2, <3>3 DEF TypeOK
      <3>5. DaysInv' /\ FormsInv' /\ ScanInv'
        BY <2>1, <3>1, <3>2 DEF DaysInv, FormsInv, ScanInv
      <3>6. QED
        BY <3>4, <3>5 DEF IInv
    <2>11. CASE NextDay
      <3>1. /\ scan = NoScan /\ scan' = scan /\ today' = today + 1 /\ today < MaxDay /\ lastRun' = lastRun
            /\ files' = files /\ lost' = lost /\ reports' = reports
        BY <2>8, <2>11 DEF NextDay
      <3>2. Runs' = Runs /\ \A r, s : Row(r, s)' = Row(r, s)
        BY <3>1 DEF Runs, Row
      <3>3. today \in Nat /\ MaxDay \in Nat /\ today' \in 0..MaxDay
        BY <2>1, <3>1, CaptureAssumption DEF TypeOK
      <3>4. \A r \in Runs, s \in Schemes : Row(r, s).day \in Int /\ Row(r, s).day <= today
        BY <2>1, <3>3 DEF DaysInv
      <3>5. \A r \in Runs, s \in Schemes : Row(r, s)'.day <= today'
        BY <3>1, <3>2, <3>3, <3>4
      <3>6. TypeOK'
        BY <2>1, <3>1, <3>2, <3>3, <3>5 DEF TypeOK
      <3>7. \A x \in 0..today : x \in 0..today'
        BY <3>1, <3>3
      <3>8. DaysInv'
        BY <2>1, <3>1, <3>2, <3>7 DEF DaysInv
      <3>9. FormsInv' /\ ScanInv'
        BY <2>1, <3>1, <3>2 DEF FormsInv, ScanInv
      <3>10. QED
        BY <3>6, <3>8, <3>9 DEF IInv
    <2>12. CASE UNCHANGED vars
      <3>1. UNCHANGED <<today, reports, lastRun, files, lost>> /\ scan' = scan
        BY <2>12 DEF vars
      <3>2. ScanInv'
        <4>1. \A setup, visit, shots, shown :
                /\ Started(setup)' = Started(setup) /\ Broken(setup)' = Broken(setup)
                /\ Checked(setup, visit)' = Checked(setup, visit)
                /\ Chosen(setup, visit)' = Chosen(setup, visit)
                /\ Visited(setup, visit, shots, shown)' = Visited(setup, visit, shots, shown)
          BY <3>1, ScanStays
        <4>2. QED
          BY <2>1, <3>1, <4>1 DEF ScanInv
      <3>3. scan'.phase \in {"none", "checking", "browsing", "publishing"}
        BY <2>1, <3>1 DEF TypeOK
      <3>4. QED
        BY <2>1, <3>1, <3>2, <3>3, ReportsStay DEF IInv
    <2>13. QED
      BY <2>2, <2>3, <2>4, <2>5, <2>6, <2>7, <2>9, <2>10, <2>11, <2>12 DEF Next
  <1>3. QED
    BY <1>1, <1>2, PTL DEF Spec

\* The variables have their shapes, and every published row names its run and says of its
\* check what the check decided.
THEOREM TypeCorrect == Spec => []TypeOK
  <1>1. IInv => TypeOK
    BY DEF IInv
  <1>2. QED
    BY <1>1, Invariant, PTL

-------------------------------------------------------------------------------
(* What the report says.                                                   *)

Sure(p) == p.status \in {"http_response", "no_http_response"}

\* The newest check that could tell, if any, is the one a check is held against.
LEMMA ConnectionTold ==
  ASSUME TypeOK, DaysInv, NEW s \in Schemes, NEW p,
         p.status \in {"http_response", "no_http_response", "unknown"}
  PROVE  /\ ConnectionChange(Baselines(s), p) # "none" <=>
              /\ Sure(p)
              /\ \E r \in Runs : /\ Sure(Row(r, s).probe) /\ Responds(Row(r, s).probe) # Responds(p)
                                 /\ \A q \in Runs : q > r => ~Sure(Row(q, s).probe)
         /\ ConnectionChange(Baselines(s), p) = "became_unavailable" => p.status = "no_http_response"
  <1> DEFINE c == Baselines(s).connection
  <1>1. LatestFacts("connection", s, c)
    BY BaselineRows
  <1>2. \A row : Counts("connection", row) <=> Sure(row.probe)
    BY DEF Counts, Sure
  <1>3. ConnectionChange(Baselines(s), p) =
          IF {p.status, c.probe.status} = {"http_response", "no_http_response"}
          THEN IF Responds(p) THEN "became_available" ELSE "became_unavailable" ELSE "none"
    BY DEF ConnectionChange
  <1> HIDE DEF c
  <1>4. {p.status, c.probe.status} = {"http_response", "no_http_response"} <=>
          Sure(p) /\ Sure(c.probe) /\ Responds(c.probe) # Responds(p)
    BY DEF Sure, Responds
  <1>5. ConnectionChange(Baselines(s), p) # "none" <=>
          Sure(p) /\ Sure(c.probe) /\ Responds(c.probe) # Responds(p)
    BY <1>3, <1>4
  <1>6. ConnectionChange(Baselines(s), p) = "became_unavailable" => p.status = "no_http_response"
    BY <1>3, <1>4 DEF Sure, Responds
  <1>7. CASE c = NoRow /\ \A r \in Runs : ~Counts("connection", Row(r, s))
    <2>1. ~Sure(c.probe)
      BY <1>7 DEF NoRow, NoProbe, Sure
    <2>2. QED
      BY <1>2, <1>5, <1>6, <1>7, <2>1
  <1>8. ASSUME NEW r \in Runs, c = Row(r, s), Counts("connection", Row(r, s)),
               \A q \in Runs : q > r => ~Counts("connection", Row(q, s))
        PROVE  Sure(c.probe) /\ Responds(c.probe) # Responds(p) <=>
                 \E t \in Runs : /\ Sure(Row(t, s).probe) /\ Responds(Row(t, s).probe) # Responds(p)
                                 /\ \A q \in Runs : q > t => ~Sure(Row(q, s).probe)
    <2>1. Sure(Row(r, s).probe) /\ \A q \in Runs : q > r => ~Sure(Row(q, s).probe)
      BY <1>2, <1>8
    <2>2. ASSUME NEW t \in Runs, Sure(Row(t, s).probe), \A q \in Runs : q > t => ~Sure(Row(q, s).probe)
          PROVE  t = r
      <3>1. t \in Int /\ r \in Int
        BY DEF TypeOK
      <3>2. ~(t > r) /\ ~(r > t)
        BY <2>1, <2>2
      <3>3. QED
        BY <3>1, <3>2
    <2>3. QED
      BY <1>8, <2>1, <2>2
  <1>9. ASSUME NEW r \in Runs, c = Row(r, s), Counts("connection", Row(r, s)),
               \A q \in Runs : q > r => ~Counts("connection", Row(q, s))
        PROVE  ConnectionChange(Baselines(s), p) # "none" <=>
                 /\ Sure(p)
                 /\ \E t \in Runs : /\ Sure(Row(t, s).probe) /\ Responds(Row(t, s).probe) # Responds(p)
                                    /\ \A q \in Runs : q > t => ~Sure(Row(q, s).probe)
    BY <1>5, <1>8, <1>9, Zenon
  <1>10. QED
    BY <1>1, <1>6, <1>7, <1>9 DEF LatestFacts

LEMMA AvailabilityOf ==
  ASSUME IInv
  PROVE  AvailabilityIsTold
  <1> SUFFICES ASSUME scan.phase = "publishing", NEW s \in Schemes
      PROVE  LET now    == scan.rows[s].probe
                 change == scan.decisions[s].connection
             IN /\ change # "none" <=>
                     /\ Sure(now)
                     /\ \E r \in Runs :
                          /\ Sure(Row(r, s).probe) /\ Responds(Row(r, s).probe) # Responds(now)
                          /\ \A q \in Runs : q > r => ~Sure(Row(q, s).probe)
                /\ change = "became_unavailable" =>
                     scan.visit[s].reach = <<"refused">> /\ scan.setup.route = "direct"
    BY DEF AvailabilityIsTold, Sure
  <1> DEFINE now    == scan.rows[s].probe
             change == scan.decisions[s].connection
  <1>1. TypeOK /\ DaysInv /\ ScanInv
    BY DEF IInv
  <1>2. ASSUME NEW setup \in Setups, scan = Broken(setup) PROVE change = "none" /\ ~Sure(now)
    <2>1. scan.decisions[s] = Undecided /\ scan.rows[s] = [NoRow EXCEPT !.status = "failed"]
      BY <1>2, BrokenFields
    <2>2. QED
      BY <2>1 DEF Undecided, NoRow, NoProbe, Sure
  <1>3. ASSUME NEW setup \in Setups, NEW visit \in Visits, NEW shots \in SUBSET Schemes,
               NEW shown \in SUBSET Schemes, shots \subseteq Chosen(setup, visit),
               scan = Visited(setup, visit, shots, shown)
        PROVE  /\ change # "none" <=>
                    /\ Sure(now)
                    /\ \E r \in Runs :
                         /\ Sure(Row(r, s).probe) /\ Responds(Row(r, s).probe) # Responds(now)
                         /\ \A q \in Runs : q > r => ~Sure(Row(q, s).probe)
               /\ change = "became_unavailable" =>
                    scan.visit[s].reach = <<"refused">> /\ scan.setup.route = "direct"
    <2> DEFINE p == ProbeOf(setup, visit, s)
               d == Decisions(setup, visit)[s]
    <2>1. /\ scan.setup = setup /\ scan.rows[s] = RowAfter(setup, visit, shots, s)
          /\ scan.decisions[s] = DecisionAfter(setup, visit, shown, s)
          /\ scan.visit[s] = Reached(setup, visit[s])
      BY <1>3, VisitedFields
    <2>2. /\ RowFacts(setup, visit, shots, s, RowAfter(setup, visit, shots, s))
          /\ AfterFacts(setup, visit, shown, s, d, DecisionAfter(setup, visit, shown, s))
          /\ DecisionFacts(setup, visit, s, p, Judged(setup, visit, s), d)
          /\ ProbeFacts(setup, visit, s, p, Reached(setup, visit[s]))
      BY <1>3, RowFields, DecisionAfterFields, DecisionFields, ProbeFields
    <2> HIDE DEF p, d
    <2>3. now = p /\ change = ConnectionChange(Baselines(s), p)
      BY <2>1, <2>2 DEF RowFacts, AfterFacts, DecisionFacts, p
    <2>4. /\ p.status \in {"http_response", "no_http_response", "unknown"}
          /\ p.status = ProbeStatus(visit[s].reach, setup.route)
          /\ scan.visit[s].reach = visit[s].reach
      BY <2>1, <2>2 DEF ProbeFacts
    <2>5. p.status = "no_http_response" => visit[s].reach = <<"refused">> /\ setup.route = "direct"
      BY <2>4 DEF ProbeStatus
    <2>6. /\ change # "none" <=>
               /\ Sure(p)
               /\ \E r \in Runs : /\ Sure(Row(r, s).probe) /\ Responds(Row(r, s).probe) # Responds(p)
                                  /\ \A q \in Runs : q > r => ~Sure(Row(q, s).probe)
          /\ change = "became_unavailable" => p.status = "no_http_response"
      BY <1>1, <2>3, <2>4, ConnectionTold
    <2>7. QED
      BY <2>1, <2>3, <2>4, <2>5, <2>6
  <1> HIDE DEF now, change
  <1>4. \/ \E setup \in Setups : scan = Broken(setup)
        \/ \E setup \in Setups, visit \in Visits, shots, shown \in SUBSET Schemes :
             /\ shots \subseteq Chosen(setup, visit) /\ shown \subseteq Chosen(setup, visit)
             /\ scan = Visited(setup, visit, shots, shown)
    BY <1>1, ScanPhases
  <1>5. CASE \E setup \in Setups : scan = Broken(setup)
    BY <1>2, <1>5 DEF now, change
  <1>6. CASE \E setup \in Setups, visit \in Visits, shots, shown \in SUBSET Schemes :
             /\ shots \subseteq Chosen(setup, visit) /\ shown \subseteq Chosen(setup, visit)
             /\ scan = Visited(setup, visit, shots, shown)
    BY <1>3, <1>6 DEF now, change
  <1>7. QED
    BY <1>4, <1>5, <1>6

\* The report says that a site stopped or began to respond exactly when the last check that
\* could tell said the opposite, over any history of scans, failures and deletions; and
\* only a directly refused connection is a site that stopped (_connection_change and the
\* connection baseline of capture_baselines, _probe_one).
THEOREM AvailabilityTold == Spec => []AvailabilityIsTold
  <1>1. IInv => AvailabilityIsTold
    BY AvailabilityOf
  <1>2. QED
    BY <1>1, Invariant, PTL

-------------------------------------------------------------------------------
(* What is seen.                                                           *)

\* Two pages that no screenshot tells apart.
Alike(setup, page, p) ==
  /\ ObservedTitle(Probed(Collected(setup, page))).title = ObservedTitle(Probed(p)).title
  /\ page.place = p.place /\ page.forms = p.forms /\ page.layout = p.layout

\* The screenshot a page rests on shows it, and whatever is like it.
LEMMA RestingShows ==
  ASSUME TypeOK, DaysInv, FormsInv, NEW setup \in Setups, NEW visit \in Visits, NEW s \in Schemes,
         Resting(setup, visit, s), NEW page, Alike(setup, page, ProbeOf(setup, visit, s))
  PROVE  \E r \in Runs : Shows(Row(r, s), page, setup)
  <1> DEFINE shot == Baselines(s).image
             p    == ProbeOf(setup, visit, s)
  <1>1. /\ LatestFacts("image", s, shot) /\ IsRow(shot) /\ ImageMatches(Baselines(s), setup, p)
        /\ shot.route = setup.route /\ shot.run \in files
        /\ ~(setup.refresh > 0 /\ today - shot.day >= setup.refresh)
    BY BaselineRows DEF Resting, AtRest
  <1>2. shot.run \in Runs /\ shot = Row(shot.run, s) /\ Counts("image", shot)
    BY <1>1, RowsAre
  <1>3. shot.status = "captured"
    BY <1>2 DEF Counts
  <1>4. /\ ObservedTitle(shot).title = ObservedTitle(Probed(p)).title
        /\ p.place = shot.probe.place
    BY <1>1 DEF ImageMatches
  <1>5. setup.comparison = "text" =>
          /\ p.forms = shot.probe.forms
          /\ StructureKnown(shot.probe) => Similar(shot.probe.layout, p.layout)
    BY RestingForms
  <1>6. setup.refresh = 0 \/ today - shot.day < setup.refresh
    <2>1. setup.refresh \in Nat
      BY CaptureAssumption
    <2>2. today \in Int /\ shot.day \in Int
      <3>1. today \in Int
        BY DEF TypeOK
      <3>2. \A r \in Runs : Row(r, s).day \in 0..today
        BY DEF DaysInv
      <3>3. shot.day \in 0..today
        BY <1>2, <3>2
      <3>4. QED
        BY <3>1, <3>3
    <2>3. QED
      BY <1>1, <2>1, <2>2
  <1> HIDE DEF shot, p
  <1>7. Shows(shot, page, setup)
    BY <1>1, <1>3, <1>4, <1>5, <1>6 DEF Shows, Alike, p
  <1>8. QED
    BY <1>2, <1>7

\* A page is like itself as it was probed, and like its twin with the same body.
LEMMA LikeItself ==
  ASSUME NEW setup \in Setups, NEW visit \in Visits, NEW s \in Schemes
  PROVE  Alike(setup, Reached(setup, visit[s]), ProbeOf(setup, visit, s))
  <1>1. ProbeFacts(setup, visit, s, ProbeOf(setup, visit, s), Reached(setup, visit[s]))
    BY ProbeFields
  <1>2. QED
    BY <1>1 DEF Alike, ProbeFacts, ProbeOf

\* The title a probe is known by.
LEMMA ProbedTitle ==
  ASSUME NEW p
  PROVE  ObservedTitle(Probed(p)).title = IF HtmlTitle(p) THEN p.title ELSE "none"
  <1> DEFINE row == Probed(p)
  <1>1. row.probe = p /\ row.status = "none"
    BY DEF Probed, NoRow
  <1>2. ~BrowserTitle(row)
    BY <1>1 DEF BrowserTitle
  <1> HIDE DEF row
  <1>3. CASE HtmlTitle(p)
    <2>1. ObservedTitle(row) = [title |-> p.title, status |-> "found"]
      BY <1>1, <1>3 DEF ObservedTitle
    <2>2. QED
      BY <1>3, <2>1 DEF row
  <1>4. CASE ~HtmlTitle(p)
    <2>1. ObservedTitle(row).title = "none"
      BY <1>1, <1>2, <1>4 DEF ObservedTitle
    <2>2. QED
      BY <1>4, <2>1 DEF row
  <1>5. QED
    BY <1>3, <1>4

LEMMA LikeTwin ==
  ASSUME NEW setup \in Setups, NEW visit \in Visits, NEW s \in Schemes, NEW t \in Schemes,
         SameBody(SeenBy(setup, visit)[s], SeenBy(setup, visit)[t])
  PROVE  Alike(setup, Reached(setup, visit[s]), ProbeOf(setup, visit, t))
  <1> DEFINE a == ProbeOf(setup, visit, s)
             c == ProbeOf(setup, visit, t)
             x == Reached(setup, visit[s])
             y == Reached(setup, visit[t])
  <1>1. ProbeFacts(setup, visit, s, a, x) /\ ProbeFacts(setup, visit, t, c, y)
    BY ProbeFields
  <1>2. SameBody(x, y)
    BY DEF SeenBy
  <1>3. Collected(setup, x) = a
    BY DEF ProbeOf
  <1> HIDE DEF a, c, x, y
  <1>4. /\ a.status = "http_response" /\ c.status = "http_response"
        /\ a.depth # "partial" /\ c.depth # "partial"
        /\ a.place = c.place /\ a.title = c.title /\ a.forms = c.forms /\ a.layout = c.layout
        /\ x.place = a.place /\ x.forms = a.forms /\ x.layout = a.layout
    BY <1>1, <1>2 DEF ProbeFacts, SameBody, Responds
  <1>5. HtmlTitle(a) <=> HtmlTitle(c)
    BY <1>4 DEF HtmlTitle, Complete, Succeeds, Responds, TitleStatus
  <1>6. ObservedTitle(Probed(a)).title = ObservedTitle(Probed(c)).title
    BY <1>4, <1>5, ProbedTitle
  <1>7. Alike(setup, x, c)
    BY <1>3, <1>4, <1>6 DEF Alike
  <1>8. QED
    BY <1>7 DEF x, c

LEMMA NothingUnseenOf ==
  ASSUME IInv
  PROVE  NothingGoesUnseen
  <1>1. TypeOK /\ DaysInv /\ FormsInv /\ ScanInv
    BY DEF IInv
  <1> SUFFICES ASSUME scan.phase = "browsing", scan.setup.mode = "changes", NEW s \in Schemes,
                      Responds(scan.visit[s]), ~Excluded(scan.setup, scan.visit[s])
      PROVE  \E t \in {s} \cup {t \in {Other(s)} : SameBody(scan.visit[s], scan.visit[t])} :
               t \in Queued \/ \E r \in Runs : Shows(Row(r, t), scan.visit[s], scan.setup)
    BY DEF NothingGoesUnseen
  <1>2. PICK setup \in Setups, visit \in Visits : scan = Checked(setup, visit)
    BY <1>1, ScanPhases
  <1>3. /\ scan.setup = setup /\ scan.decisions = Decisions(setup, visit)
        /\ \A t \in Schemes : scan.visit[t] = Reached(setup, visit[t])
    BY <1>2, CheckedFields
  <1>4. Other(s) \in Schemes
    BY OtherOne
  <1> DEFINE p == ProbeOf(setup, visit, s)
             j == Judged(setup, visit, s)
             o == Judged(setup, visit, Other(s))
             d == Decisions(setup, visit)
  <1>5. ASSUME NEW t \in Schemes, d[t].queued PROVE t \in Queued
    BY <1>3, <1>5 DEF Queued
  <1>6. /\ ProbeFacts(setup, visit, s, p, scan.visit[s])
        /\ JudgedFacts(setup, visit, s, j)
        /\ DecisionFacts(setup, visit, s, p, j, d[s])
        /\ DecisionFacts(setup, visit, Other(s), ProbeOf(setup, visit, Other(s)), o, d[Other(s)])
    BY <1>3, <1>4, ProbeFields, JudgedFields, DecisionFields
  <1>7. \/ d[s] = j
        \/ /\ d[s] = Doubled(j, Other(s)) /\ d[Other(s)] = o
           /\ SameBody(SeenBy(setup, visit)[s], SeenBy(setup, visit)[Other(s)])
           /\ o.queued \/ o.skip \in UnchangedSkips
    BY DecisionCases
  <1> HIDE DEF p, j, o, d
  <1>8. Responds(p) /\ ~Barred(setup, visit, s)
    BY <1>3, <1>6 DEF ProbeFacts, Barred, Excluded, Responds, TitleStatus, p
  <1>9. CASE d[s] = j
    <2>1. CASE j.queued
      BY <1>5, <1>9, <2>1
    <2>2. CASE ~j.queued
      <3>1. Why(setup, visit, s) = "none"
        BY <1>6, <1>8, <2>2 DEF JudgedFacts, p
      <3>2. Resting(setup, visit, s)
        BY <3>1, WhyNone
      <3>3. \E r \in Runs : Shows(Row(r, s), scan.visit[s], scan.setup)
        BY <1>1, <1>3, <3>2, LikeItself, RestingShows
      <3>4. QED
        BY <3>3
    <2>3. QED
      BY <2>1, <2>2
  <1>10. CASE /\ d[Other(s)] = o
              /\ SameBody(SeenBy(setup, visit)[s], SeenBy(setup, visit)[Other(s)])
              /\ o.queued \/ o.skip \in UnchangedSkips
    <2>1. SameBody(scan.visit[s], scan.visit[Other(s)])
      BY <1>3, <1>4, <1>10 DEF SeenBy
    <2>2. CASE o.queued
      BY <1>4, <1>5, <1>10, <2>1, <2>2
    <2>3. CASE o.skip \in UnchangedSkips
      <3>1. Resting(setup, visit, Other(s))
        BY <1>6, <1>10, <2>3 DEF DecisionFacts
      <3>2. Alike(setup, Reached(setup, visit[s]), ProbeOf(setup, visit, Other(s)))
        BY <1>4, <1>10, LikeTwin
      <3>3. \E r \in Runs : Shows(Row(r, Other(s)), scan.visit[s], scan.setup)
        BY <1>1, <1>3, <1>4, <3>1, <3>2, RestingShows
      <3>4. QED
        BY <2>1, <3>3
    <2>4. QED
      BY <1>10, <2>2, <2>3
  <1>11. QED
    BY <1>7, <1>9, <1>10

\* A page that responds and is not visited again in a changes scan has a screenshot that
\* shows it, whatever small changes, failures and deletions lie in between: a wording that
\* moved on step by step still has the forms, and where it is known the layout, of the
\* screenshot it rests on (compare, _image_matches, _deduplicate_identical_schemes).
THEOREM NothingUnseen == Spec => []NothingGoesUnseen
  <1>1. IInv => NothingGoesUnseen
    BY NothingUnseenOf
  <1>2. QED
    BY <1>1, Invariant, PTL

-------------------------------------------------------------------------------
(* What is left alone.                                                     *)

\* The row r is the newest one that a browser or a complete check stands behind.
NewestSeen(s, r) ==
  /\ r \in Runs /\ Row(r, s).status = "captured"
  /\ HtmlTitle(Row(r, s).probe)
  /\ \A q \in Runs : q > r => Row(q, s).status # "captured" /\ ~Complete(Row(q, s).probe)

\* A baseline whose kind the row r meets, and no later one, is that row.
LEMMA BaselineIs ==
  ASSUME TypeOK, NEW kind, NEW s \in Schemes, NEW row, LatestFacts(kind, s, row),
         NEW r \in Runs, Counts(kind, Row(r, s)),
         \A q \in Runs : q > r => ~Counts(kind, Row(q, s))
  PROVE  row = Row(r, s)
  <1>1. PICK t \in Runs : /\ row = Row(t, s) /\ Counts(kind, Row(t, s))
                          /\ \A q \in Runs : q > t => ~Counts(kind, Row(q, s))
    BY DEF LatestFacts
  <1>2. t \in Int /\ r \in Int
    BY DEF TypeOK
  <1>3. ~(t > r) /\ ~(r > t)
    BY <1>1
  <1>4. t = r
    BY <1>2, <1>3
  <1>5. QED
    BY <1>1, <1>4

LEMMA CompleteText ==
  ASSUME NEW p, TextComplete(p)
  PROVE  Complete(p)
  BY DEF TextComplete, Complete, Succeeds, Responds, TitleStatus

LEMMA SeenBaselines ==
  ASSUME TypeOK, DaysInv, NEW s \in Schemes, NEW r, NewestSeen(s, r)
  PROVE  /\ Baselines(s).image = Row(r, s) /\ Baselines(s).title = Row(r, s)
         /\ TextComplete(Row(r, s).probe) => Baselines(s).text = Row(r, s)
         /\ IsRow(Baselines(s).previous) /\ IsRow(Row(r, s)) /\ TitleOld(Baselines(s)) = Row(r, s)
  <1>1. /\ r \in Runs /\ Row(r, s).status = "captured" /\ HtmlTitle(Row(r, s).probe)
        /\ \A q \in Runs : q > r => Row(q, s).status # "captured" /\ ~Complete(Row(q, s).probe)
    BY DEF NewestSeen
  <1>2. Baselines(s).image = Row(r, s)
    <2>1. Counts("image", Row(r, s)) /\ \A q \in Runs : q > r => ~Counts("image", Row(q, s))
      BY <1>1 DEF Counts
    <2>2. LatestFacts("image", s, Baselines(s).image)
      BY BaselineRows
    <2>3. QED
      BY <1>1, <2>1, <2>2, BaselineIs
  <1>3. Baselines(s).title = Row(r, s)
    <2>1. Counts("title", Row(r, s))
      BY <1>1 DEF Counts
    <2>2. \A q \in Runs : q > r => ~Counts("title", Row(q, s))
      BY <1>1 DEF Counts, HtmlTitle, BrowserTitle
    <2>3. QED
      BY <1>1, <2>1, <2>2, BaselineRows, BaselineIs
  <1>4. TextComplete(Row(r, s).probe) => Baselines(s).text = Row(r, s)
    <2> SUFFICES ASSUME TextComplete(Row(r, s).probe) PROVE Baselines(s).text = Row(r, s)
      OBVIOUS
    <2>1. Counts("text", Row(r, s))
      BY DEF Counts
    <2>2. \A q \in Runs : q > r => ~Counts("text", Row(q, s))
      BY <1>1, CompleteText DEF Counts
    <2>3. QED
      BY <1>1, <2>1, <2>2, BaselineRows, BaselineIs
  <1>5. IsRow(Baselines(s).previous)
    <2>1. Counts("previous", Row(r, s))
      BY DEF Counts
    <2>2. LatestFacts("previous", s, Baselines(s).previous)
      BY BaselineRows
    <2>3. QED
      BY <1>1, <2>1, <2>2, RowsAre
  <1>6. IsRow(Row(r, s))
    BY <1>1 DEF TypeOK, IsRow
  <1>7. QED
    BY <1>2, <1>3, <1>4, <1>5, <1>6 DEF TitleOld

\* A saved check that reads the same title at the same place was complete itself.
LEMMA SameIsComplete ==
  ASSUME TypeOK, NEW s \in Schemes, NEW r \in Runs, Row(r, s).status = "captured",
         NEW p, HtmlTitle(p), SamePage(Row(r, s).probe, p)
  PROVE  HtmlTitle(Row(r, s).probe)
  <1> DEFINE q == Row(r, s).probe
  <1>1. q.place = p.place /\ q.title = p.title
    BY DEF SamePage
  <1>2. Succeeds(p) /\ p.title \notin {"none", "address"}
    BY DEF HtmlTitle, Complete, Meaningful
  <1>3. q # NoProbe
    BY <1>1, <1>2 DEF NoProbe
  <1>4. Responds(q)
    BY <1>3 DEF TypeOK
  <1>5. TitleStatus(q) = "found"
    BY <1>1, <1>2, <1>4 DEF TitleStatus
  <1> HIDE DEF q
  <1>6. HtmlTitle(q)
    BY <1>1, <1>2, <1>4, <1>5 DEF HtmlTitle, Complete, Meaningful, Succeeds
  <1>7. QED
    BY <1>6 DEF q

\* A check that has not happened had no answer.
LEMMA NoProbeSilent == ~Responds(NoProbe)
  BY DEF Responds, NoProbe

\* Nothing changed is what compare finds of a page that reads as it did.
Rereads(b, setup, p, row) ==
  /\ setup.comparison \in {"text", "title"}
  /\ HtmlTitle(p) /\ HtmlTitle(row.probe) /\ SamePage(row.probe, p)
  /\ p.layout \in Int /\ p.depth = "full" /\ row.probe.depth = "full"
  /\ setup.comparison = "text" => p.words # "none"
  /\ IsRow(b.previous) /\ IsRow(row) /\ TitleOld(b) = row
  /\ setup.comparison = "text" => b.text = row

FindsNothing(b, setup, p, row) ==
  /\ WebChange(b, setup, p) \in Quiet
  /\ StructureKnown(row.probe) /\ StructureComparison(p, row.probe) = "unchanged"
  /\ setup.comparison = "text" => TextComplete(row.probe)
  /\ ObservedTitle(row).title = ObservedTitle(Probed(p)).title

LEMMA SameIsQuiet ==
  ASSUME NEW setup, NEW b, NEW p, NEW row, Rereads(b, setup, p, row)
  PROVE  FindsNothing(b, setup, p, row)
  <1> USE DEF Rereads
  <1> DEFINE q == row.probe
  <1>1. q.place = p.place /\ q.title = p.title /\ q.words = p.words /\ q.forms = p.forms /\ q.layout = p.layout
    BY DEF SamePage
  <1>2. Complete(p) /\ Complete(q) /\ Succeeds(p) /\ Succeeds(q) /\ Responds(p) /\ Responds(q)
    BY DEF HtmlTitle, Complete, Succeeds
  <1>3. StructureKnown(q) /\ StructureComparison(p, q) = "unchanged"
    <2>1. StructureKnown(p) /\ StructureKnown(q)
      BY <1>2 DEF StructureKnown
    <2>2. Similar(p.layout, q.layout)
      BY <1>1 DEF Similar
    <2>3. QED
      BY <1>1, <2>1, <2>2 DEF StructureComparison
  <1>4. setup.comparison = "text" => TextComplete(p) /\ TextComplete(q)
    BY <1>1, <1>2 DEF TextComplete
  <1>5. ObservedTitle(row) = [title |-> q.title, status |-> "found"]
    BY DEF ObservedTitle
  <1>6. ObservedTitle(Probed(p)).title = p.title
    BY ProbedTitle
  <1>7. ~TitleChanged(ObservedTitle(TitleOld(b)), ObservedTitle(Probed(p)))
    BY <1>1, <1>5, <1>6 DEF TitleChanged
  <1>8. WebChange(b, setup, p) = ContentChange(b, setup, p)
    BY <1>7 DEF WebChange
  <1>9. CASE setup.comparison = "text"
    <2>1. Old(b, setup) = row
      BY <1>9 DEF Old
    <2>2. ContentChange(b, setup, p) = TextChange(b, setup, p)
      BY <1>2, <1>4, <1>9, <2>1, NoProbeSilent DEF ContentChange
    <2>3. ContentOf(p) = ContentOf(q)
      BY <1>1 DEF ContentOf
    <2>4. TextChange(b, setup, p) = "unchanged"
      BY <1>1, <1>3, <2>1, <2>3 DEF TextChange
    <2>5. QED
      BY <1>1, <1>3, <1>4, <1>5, <1>6, <1>8, <1>9, <2>2, <2>4 DEF Quiet, FindsNothing
  <1>10. CASE setup.comparison = "title"
    <2>1. TitleChange(b, p) = "unchanged"
      BY <1>5 DEF TitleChange
    <2>2. Old(b, setup) = row
      BY <1>10 DEF Old
    <2>3. ContentChange(b, setup, p) = TitleChange(b, p)
      BY <1>2, <1>10, <2>2, NoProbeSilent DEF ContentChange
    <2>4. QED
      BY <1>1, <1>3, <1>5, <1>6, <1>8, <1>10, <2>1, <2>3 DEF Quiet, FindsNothing
  <1>11. QED
    BY <1>9, <1>10

LEMMA QuietOf ==
  ASSUME IInv
  PROVE  QuietPagesStayQuiet
  <1>1. TypeOK /\ DaysInv /\ FormsInv /\ ScanInv
    BY DEF IInv
  <1> SUFFICES ASSUME scan.phase = "browsing", scan.setup.mode = "changes", NEW s \in Schemes,
                      NEW r \in Runs,
                      scan.rows[s].probe.depth = "full", HtmlTitle(scan.rows[s].probe),
                      scan.setup.comparison = "text" => scan.rows[s].probe.words # "none",
                      Shows(Row(r, s), scan.visit[s], scan.setup),
                      SamePage(Row(r, s).probe, scan.rows[s].probe), Row(r, s).probe.depth = "full",
                      \A q \in Runs : q > r => Row(q, s).status # "captured" /\ ~Complete(Row(q, s).probe)
      PROVE  s \notin Queued
    BY DEF QuietPagesStayQuiet
  <1>2. PICK setup \in Setups, visit \in Visits : scan = Checked(setup, visit)
    BY <1>1, ScanPhases
  <1> DEFINE p   == ProbeOf(setup, visit, s)
             b   == Baselines(s)
             row == Row(r, s)
             d   == Decisions(setup, visit)[s]
             j   == Judged(setup, visit, s)
  <1>3. /\ scan.setup = setup /\ scan.decisions[s] = d /\ scan.rows[s] = RowOf(setup, visit, s)
        /\ scan.visit[s] = Reached(setup, visit[s])
    BY <1>2, CheckedFields
  <1>4. scan.rows[s].probe = p
    BY <1>3 DEF RowOf, NoRow
  <1>5. setup.comparison \in {"text", "title"} /\ setup.refresh \in Nat
    BY CaptureAssumption
  <1>6. ProbeFacts(setup, visit, s, p, scan.visit[s]) /\ JudgedFacts(setup, visit, s, j)
    BY <1>3, ProbeFields, JudgedFields
  <1>7. d = j \/ d = Doubled(j, Other(s))
    BY DecisionCases
  <1>8. row.status = "captured" /\ row.route = setup.route /\ row.run \in files
    BY <1>3 DEF Shows
  <1>9. HtmlTitle(row.probe)
    BY <1>1, <1>4, <1>8, SameIsComplete
  <1>10. NewestSeen(s, r)
    BY <1>8, <1>9 DEF NewestSeen
  <1>11. setup.comparison = "text" => TextComplete(row.probe)
    <2>1. row.probe.words = p.words /\ row.probe.depth = "full"
      BY <1>4 DEF SamePage
    <2>2. Succeeds(row.probe)
      BY <1>9 DEF HtmlTitle, Complete
    <2>3. setup.comparison = "text" => p.words # "none"
      BY <1>3, <1>4
    <2> HIDE DEF p, row
    <2>4. QED
      BY <2>1, <2>2, <2>3 DEF TextComplete
  <1>12. /\ b.image = row /\ b.title = row
         /\ setup.comparison = "text" => b.text = row
         /\ IsRow(b.previous) /\ IsRow(row) /\ TitleOld(b) = row /\ b.route = b.image.route
    BY <1>1, <1>10, <1>11, SeenBaselines, BaselineRows
  <1>13. p.layout \in Int /\ p.depth = "full" /\ row.probe.depth = "full" /\ HtmlTitle(p) /\ SamePage(row.probe, p)
    BY <1>4, <1>6 DEF ProbeFacts
  <1>14. setup.comparison = "text" => p.words # "none"
    BY <1>3, <1>4
  <1>15. /\ setup.refresh = 0 \/ today - row.day < setup.refresh
         /\ row.probe.place = scan.visit[s].place
    BY <1>3 DEF Shows
  <1>16. row.day \in 0..today /\ today \in Nat
    <2>1. today \in Nat
      BY <1>1 DEF TypeOK
    <2>2. \A q \in Runs : Row(q, s).day \in 0..today
      BY <1>1 DEF DaysInv
    <2>3. QED
      BY <2>1, <2>2
  <1> HIDE DEF p, b, row, d, j
  <1>17. FindsNothing(b, setup, p, row)
    <2>1. Rereads(b, setup, p, row)
      BY <1>5, <1>9, <1>12, <1>13, <1>14 DEF Rereads
    <2>2. QED
      BY <2>1, SameIsQuiet
  <1>18. ImageMatches(b, setup, p)
    <2>1. Complete(row.probe) /\ p.place = row.probe.place
      BY <1>6, <1>9, <1>15 DEF HtmlTitle, ProbeFacts
    <2>2. QED
      BY <1>5, <1>12, <1>17, <2>1 DEF ImageMatches, FindsNothing
  <1>19. ~(today < row.day) /\ ~(setup.refresh > 0 /\ today - row.day >= setup.refresh)
    <2>1. row.day \in Int /\ row.day <= today
      BY <1>16
    <2>2. QED
      BY <1>5, <1>15, <1>16, <2>1
  <1>20. AtRest(b, setup, p, WebChange(b, setup, p), today, files)
    BY <1>3, <1>8, <1>12, <1>17, <1>18, <1>19 DEF AtRest, FindsNothing
  <1>21. Responds(p)
    BY <1>13 DEF HtmlTitle, Complete, Succeeds
  <1>22. Why(setup, visit, s) = "none"
    BY <1>20, <1>21, WhyNone DEF Resting, Web, p, b
  <1>23. DOMAIN j = DecisionKeys /\ ~j.queued
    BY <1>6, <1>22 DEF JudgedFacts
  <1>24. ~d.queued
    BY <1>7, <1>23 DEF Doubled, DecisionKeys
  <1>25. QED
    BY <1>3, <1>24 DEF Queued

\* A page that was screenshot and reads as it did is left alone in a changes scan: timeouts,
\* outages, error pages and failed browsers in between do not cost another visit
\* (capture_baselines looks past what is not evidence; compare).
THEOREM QuietStays == Spec => []QuietPagesStayQuiet
  <1>1. IInv => QuietPagesStayQuiet
    BY QuietOf
  <1>2. QED
    BY <1>1, Invariant, PTL

-------------------------------------------------------------------------------
(* What the report tells of a page.                                        *)

SmallUpdates == {"text_only_update", "minor_content_update"}

\* What the comparison of a text finds.
LEMMA TextKinds ==
  ASSUME NEW b, NEW setup, NEW p
  PROVE  /\ TextChange(b, setup, p) \in SmallUpdates \cup {"structure_changed", "text_changed", "unchanged"}
         /\ TextChange(b, setup, p) \in SmallUpdates => StableStructure(b, setup, p)
         /\ TextChange(b, setup, p) = "unchanged" => ~ReadsDifferently(p, Old(b, setup).probe)
  <1> DEFINE then   == Old(b, setup).probe
             how    == StructureComparison(p, then)
             stable == StableStructure(b, setup, p)
             worded == p.words # then.words
  <1>1. TextChange(b, setup, p) =
          IF how = "changed" THEN "structure_changed"
          ELSE IF stable /\ how = "largely_unchanged" THEN "minor_content_update"
          ELSE IF worded THEN IF stable THEN "text_only_update" ELSE "text_changed"
          ELSE IF ContentOf(p) # ContentOf(then) THEN "structure_changed" ELSE "unchanged"
    BY DEF TextChange
  <1>2. StructureKnown(p) /\ StructureKnown(then) /\ ~Similar(p.layout, then.layout) => how = "changed"
    BY DEF StructureComparison
  <1> HIDE DEF then, how, stable, worded
  <1>3. TextChange(b, setup, p) = "unchanged" => ~ReadsDifferently(p, then)
    BY <1>1, <1>2 DEF ReadsDifferently
  <1>4. QED
    BY <1>1, <1>3 DEF SmallUpdates, then, stable

\* Which labels the comparison of a page gives, and what they stand for.
LEMMA WebKinds ==
  ASSUME NEW b, NEW setup, NEW p
  PROVE  /\ WebChange(b, setup, p) = "title_changed" <=>
              Complete(p) /\ TitleChanged(ObservedTitle(TitleOld(b)), ObservedTitle(Probed(p)))
         /\ WebChange(b, setup, p) # "title_changed" => WebChange(b, setup, p) = ContentChange(b, setup, p)
         /\ ContentChange(b, setup, p) \in SmallUpdates =>
              /\ setup.comparison = "text" /\ TextComplete(p) /\ TextComplete(Old(b, setup).probe)
              /\ StableStructure(b, setup, p)
         /\ ContentChange(b, setup, p) = "first_title_observation" => ObservedTitle(Probed(p)).status = "found"
         /\ (setup.comparison = "text" /\ TextComplete(p) /\ TextComplete(Old(b, setup).probe)) =>
              ContentChange(b, setup, p) = TextChange(b, setup, p)
         /\ setup.comparison = "text" /\ ContentChange(b, setup, p) = "unchanged" =>
              /\ TextComplete(p) /\ TextComplete(Old(b, setup).probe)
              /\ TextChange(b, setup, p) = "unchanged"
  <1> DEFINE text  == setup.comparison = "text"
             known == IF text THEN TextComplete(p) ELSE Complete(p)
             c     == ContentChange(b, setup, p)
  <1>1. c = IF ~known THEN "unknown" ELSE IF Old(b, setup).probe = NoProbe THEN "first_observation"
            ELSE IF ~text THEN TitleChange(b, p)
            ELSE IF TextComplete(Old(b, setup).probe) THEN TextChange(b, setup, p)
            ELSE "first_text_observation"
    <2>1. CASE known
      BY <2>1 DEF ContentChange
    <2>2. CASE ~known
      BY <2>2 DEF ContentChange
    <2>3. QED
      BY <2>1, <2>2
  <1>2. /\ TextChange(b, setup, p) \in SmallUpdates \cup {"structure_changed", "text_changed", "unchanged"}
        /\ TextChange(b, setup, p) \in SmallUpdates => StableStructure(b, setup, p)
    BY TextKinds
  <1>3. /\ TitleChange(b, p) \in {"unchanged", "first_title_observation", "unknown"}
        /\ TitleChange(b, p) = "first_title_observation" => ObservedTitle(Probed(p)).status = "found"
    BY DEF TitleChange
  <1>4. WebChange(b, setup, p) =
          IF Complete(p) /\ TitleChanged(ObservedTitle(TitleOld(b)), ObservedTitle(Probed(p)))
          THEN "title_changed" ELSE c
    BY DEF WebChange
  <1> HIDE DEF c
  <1>5. c # "title_changed"
    BY <1>1, <1>2, <1>3 DEF SmallUpdates
  <1>6. c \in SmallUpdates =>
          /\ text /\ TextComplete(p) /\ TextComplete(Old(b, setup).probe) /\ StableStructure(b, setup, p)
    BY <1>1, <1>2, <1>3 DEF SmallUpdates
  <1>7. c = "first_title_observation" => ObservedTitle(Probed(p)).status = "found"
    BY <1>1, <1>2, <1>3 DEF SmallUpdates
  <1>8. text /\ c = "unchanged" =>
          /\ TextComplete(p) /\ TextComplete(Old(b, setup).probe)
          /\ TextChange(b, setup, p) = "unchanged"
    BY <1>1
  <1>9. text /\ TextComplete(p) /\ TextComplete(Old(b, setup).probe)
          => c = TextChange(b, setup, p)
    BY <1>1, NoProbeSilent DEF TextComplete, Succeeds
  <1>10. QED
    BY <1>4, <1>5, <1>6, <1>7, <1>8, <1>9 DEF c

\* A small update never leads the report, and what rests on a screenshot has not drifted
\* away from it.
LEMMA SmallStaysSmall ==
  ASSUME NEW setup \in Setups, NEW visit \in Visits, NEW s \in Schemes
  PROVE  /\ Judged(setup, visit, s).web \in SmallUpdates => ~Judged(setup, visit, s).major
         /\ Resting(setup, visit, s) => Judged(setup, visit, s).web = Web(setup, visit, s)
  <1> DEFINE b     == Baselines(s)
             p     == ProbeOf(setup, visit, s)
             found == Web(setup, visit, s)
             d     == Decision(b, setup, p, found, Why(setup, visit, s))
             j     == Judged(setup, visit, s)
             judged == Responds(p) /\ setup.mode = "changes" /\ found \in Quiet /\ IsRow(b.image)
  <1>1. j = ApplyPreflight(setup, p, d)
    BY DEF Judged, Check, Compare, Decided, Web, Why
  <1>2. /\ d.web = (IF judged /\ Drifted(b, setup, p) THEN "structure_changed" ELSE found)
        /\ d.major = (\/ FormChanged(p, Old(b, setup).probe)
                      \/ Substantial(p, Old(b, setup).probe)
                      \/ judged /\ setup.comparison = "text" /\ Substantial(p, b.image.probe))
        /\ DOMAIN d = DecisionKeys
    BY DEF Decision, DecisionKeys
  <1> HIDE DEF d
  <1>3. j.web = d.web /\ j.major = d.major
    BY <1>1, <1>2 DEF ApplyPreflight, DecisionKeys
  <1> HIDE DEF j
  <1>4. ASSUME d.web \in SmallUpdates PROVE ~d.major
    <2>1. found \in SmallUpdates /\ ~(judged /\ Drifted(b, setup, p))
      BY <1>2, <1>4 DEF SmallUpdates
    <2>2. found = WebChange(b, setup, p)
      BY DEF Web
    <2>3. found = ContentChange(b, setup, p)
      BY <2>1, <2>2, WebKinds DEF SmallUpdates
    <2>4. setup.comparison = "text" /\ StableStructure(b, setup, p)
      BY <2>1, <2>3, WebKinds
    <2>5. StructureComparison(p, Old(b, setup).probe) \in {"unchanged", "largely_unchanged"}
      BY <2>4 DEF StableStructure
    <2>6. p.forms = Old(b, setup).probe.forms
      BY <2>5 DEF StructureComparison
    <2>7. ~FormChanged(p, Old(b, setup).probe) /\ ~Substantial(p, Old(b, setup).probe)
      BY <2>5, <2>6 DEF FormChanged, Substantial
    <2>8. Substantial(p, b.image.probe) => Drifted(b, setup, p)
      BY <2>4 DEF Substantial, Drifted
    <2>9. QED
      BY <1>2, <2>1, <2>7, <2>8
  <1>5. ASSUME Resting(setup, visit, s) PROVE d.web = found
    <2>1. ImageMatches(b, setup, p)
      BY <1>5 DEF Resting, AtRest
    <2>2. CASE StructureKnown(b.image.probe)
      <3>1. setup.comparison = "text" => StructureComparison(p, b.image.probe) \in {"unchanged", "largely_unchanged"}
        BY <2>1, <2>2 DEF ImageMatches
      <3>2. ~Drifted(b, setup, p)
        BY <3>1 DEF Drifted
      <3>3. QED
        BY <1>2, <3>2
    <2>3. CASE ~StructureKnown(b.image.probe)
      <3>1. StructureComparison(p, b.image.probe) = "unavailable"
        BY <2>3 DEF StructureComparison
      <3>2. ~Drifted(b, setup, p)
        BY <3>1 DEF Drifted
      <3>3. QED
        BY <1>2, <3>2
    <2>4. QED
      BY <2>2, <2>3
  <1>6. QED
    BY <1>3, <1>4, <1>5 DEF j

\* What the report is drawn from, once the browser is back.
OutcomeFacts(setup, visit, s, p, j, d, e, row) ==
  /\ row.probe = p
  /\ ~d.queued => row.status = "skipped"
  /\ e.web = j.web /\ e.content = ContentChange(Baselines(s), setup, p)
  /\ e.known = ObservedTitle(TitleOld(Baselines(s))) /\ e.major = j.major
  /\ e.skip = d.skip /\ e.queued = d.queued /\ e.twin = d.twin
  /\ HtmlTitle(p) => ObservedTitle(row) = [title |-> p.title, status |-> "found"]
  /\ row.status = "skipped" /\ ObservedTitle(row).status = "found" => HtmlTitle(p)

LEMMA OutcomeFields ==
  ASSUME NEW setup \in Setups, NEW visit \in Visits, NEW s \in Schemes,
         NEW shots \in SUBSET Chosen(setup, visit), NEW shown
  PROVE  OutcomeFacts(setup, visit, s, ProbeOf(setup, visit, s), Judged(setup, visit, s),
                      Decisions(setup, visit)[s], DecisionAfter(setup, visit, shown, s),
                      RowAfter(setup, visit, shots, s))
  <1> DEFINE p   == ProbeOf(setup, visit, s)
             j   == Judged(setup, visit, s)
             d   == Decisions(setup, visit)[s]
             e   == DecisionAfter(setup, visit, shown, s)
             row == RowAfter(setup, visit, shots, s)
  <1>1. /\ JudgedFacts(setup, visit, s, j) /\ DecisionFacts(setup, visit, s, p, j, d)
        /\ AfterFacts(setup, visit, shown, s, d, e) /\ RowFacts(setup, visit, shots, s, row)
    BY JudgedFields, DecisionFields, DecisionAfterFields, RowFields
  <1>2. s \in Chosen(setup, visit) <=> d.queued
    BY DEF Chosen
  <1>3. row.probe = p
    BY <1>1 DEF RowFacts
  <1>4. /\ j.known = ObservedTitle(TitleOld(Baselines(s)))
        /\ j.content = ContentChange(Baselines(s), setup, p)
    BY <1>1 DEF JudgedFacts
  <1> HIDE DEF p, j, d, e, row
  <1>5. ~d.queued => row.status = "skipped"
    BY <1>1, <1>2 DEF RowFacts
  <1>6. HtmlTitle(p) => ObservedTitle(row) = [title |-> p.title, status |-> "found"]
    BY <1>3 DEF ObservedTitle
  <1>7. ASSUME row.status = "skipped", ObservedTitle(row).status = "found" PROVE HtmlTitle(p)
    <2> SUFFICES ASSUME ~HtmlTitle(p) PROVE FALSE
      OBVIOUS
    <2>1. ~BrowserTitle(row)
      BY <1>7 DEF BrowserTitle
    <2>2. ObservedTitle(row).status = IF AddressOnly(row) THEN "address_only"
                                      ELSE IF TitleStatus(p) = "found" THEN "unavailable" ELSE TitleStatus(p)
      BY <1>3, <2>1 DEF ObservedTitle
    <2>3. QED
      BY <1>7, <2>2
  <1>8. OutcomeFacts(setup, visit, s, p, j, d, e, row)
    BY <1>1, <1>3, <1>4, <1>5, <1>6, <1>7 DEF OutcomeFacts, AfterFacts, DecisionFacts
  <1>9. QED
    BY <1>8 DEF p, j, d, e, row

\* A title that changed, as the check itself saw, leads wherever the browser went.
LEMMA TitleTold ==
  ASSUME NEW setup, NEW visit, NEW s, NEW p, NEW j, NEW d, NEW e, NEW row,
         OutcomeFacts(setup, visit, s, p, j, d, e, row),
         d.skip = "none", Responds(p), ~e.hidden, HtmlTitle(p),
         TitleChanged(ObservedTitle(TitleOld(Baselines(s))), ObservedTitle(Probed(p)))
  PROVE  Entry(e, row)
  <1>1. ObservedTitle(Probed(p)) = [title |-> p.title, status |-> "found"]
    BY DEF ObservedTitle, Probed, NoRow
  <1>2. TitleChanged(e.known, ObservedTitle(row))
    BY <1>1 DEF OutcomeFacts
  <1>3. ResolvedChange(e, row) = "title_changed"
    BY <1>2 DEF ResolvedChange
  <1>4. Priority(e, row) = "major"
    BY <1>3 DEF Priority
  <1>5. e.skip = "none" /\ row.probe = p
    BY DEF OutcomeFacts
  <1>6. QED
    BY <1>3, <1>4, <1>5 DEF Entry, UnchangedSkips, ContentChangeKinds

\* What compare found of a queued page, if it found anything, is in the report.
LEMMA QueuedTold ==
  ASSUME NEW setup \in Setups, NEW visit \in Visits, NEW s \in Schemes,
         NEW d, NEW e, NEW row,
         OutcomeFacts(setup, visit, s, ProbeOf(setup, visit, s), Judged(setup, visit, s), d, e, row),
         d.skip = "none", Responds(ProbeOf(setup, visit, s)), ~e.hidden,
         Judged(setup, visit, s).web \in ChangeLabels
  PROVE  Entry(e, row) \/ Noted(e, row)
  <1> DEFINE p == ProbeOf(setup, visit, s)
             j == Judged(setup, visit, s)
             b == Baselines(s)
             web == Web(setup, visit, s)
  <1>1. /\ web = "title_changed" <=>
             Complete(p) /\ TitleChanged(ObservedTitle(TitleOld(b)), ObservedTitle(Probed(p)))
        /\ web # "title_changed" => web = ContentChange(b, setup, p)
        /\ ContentChange(b, setup, p) = "first_title_observation" => ObservedTitle(Probed(p)).status = "found"
    BY WebKinds DEF Web
  <1>2. j.web = web \/ j.web = "structure_changed"
    BY JudgedFields DEF JudgedFacts
  <1>3. j.web \in SmallUpdates => ~j.major
    BY SmallStaysSmall
  <1>4. ObservedTitle(Probed(p)).status = "found" => HtmlTitle(p)
    <2>1. ~BrowserTitle(Probed(p)) /\ Probed(p).probe = p
      BY DEF BrowserTitle, Probed, NoRow
    <2>2. CASE ~HtmlTitle(p)
      <3>1. ObservedTitle(Probed(p)).status = IF AddressOnly(Probed(p)) THEN "address_only"
                     ELSE IF TitleStatus(p) = "found" THEN "unavailable" ELSE TitleStatus(p)
        BY <2>1, <2>2 DEF ObservedTitle
      <3>2. QED
        BY <3>1
    <2>3. QED
      BY <2>2
  <1> HIDE DEF p, j, b, web
  <1>5. CASE j.web = "title_changed"
    <2>1. TitleChanged(ObservedTitle(TitleOld(b)), ObservedTitle(Probed(p)))
      BY <1>1, <1>2, <1>5
    <2>2. HtmlTitle(p)
      BY <1>4, <2>1 DEF TitleChanged
    <2>3. QED
      BY <2>1, <2>2, TitleTold DEF p, b, j
  <1>6. CASE j.web # "title_changed"
    <2>1. e.web = j.web /\ e.major = j.major /\ e.skip = "none" /\ row.probe = p
      BY DEF OutcomeFacts, p, j
    <2>2. ResolvedChange(e, row) = IF TitleChanged(e.known, ObservedTitle(row)) THEN "title_changed"
            ELSE IF j.web = "first_title_observation" /\ ObservedTitle(row).status # "found"
            THEN "title_unavailable" ELSE j.web
      BY <1>6, <2>1 DEF ResolvedChange
    <2>3. j.web = "first_title_observation" => ObservedTitle(row).status = "found"
      <3>1. j.web = "first_title_observation" => HtmlTitle(p)
        BY <1>1, <1>2, <1>4
      <3>2. HtmlTitle(p) => ObservedTitle(row) = [title |-> p.title, status |-> "found"]
        BY DEF OutcomeFacts, p
      <3>3. QED
        BY <3>1, <3>2
    <2>4. ResolvedChange(e, row) \in {"title_changed", j.web}
      BY <2>2, <2>3
    <2>5. Responds(row.probe) /\ j.web \in ChangeLabels
      BY <2>1 DEF p, j
    <2>6. CASE j.web \in {"first_observation", "first_title_observation", "first_text_observation"}
      BY <2>1, <2>4, <2>5, <2>6 DEF Entry, Priority, UnchangedSkips, ContentChangeKinds
    <2>7. CASE j.web \in SmallUpdates
      BY <1>3, <2>1, <2>4, <2>5, <2>7 DEF Entry, Noted, Priority, UnchangedSkips, ContentChangeKinds, SmallUpdates
    <2>8. CASE j.web \in {"text_changed", "structure_changed"}
      BY <2>1, <2>4, <2>5, <2>8 DEF Entry, Noted, Priority, UnchangedSkips, ContentChangeKinds
    <2>9. QED
      BY <1>6, <2>5, <2>6, <2>7, <2>8 DEF ChangeLabels, SmallUpdates
  <1>7. QED
    BY <1>5, <1>6

\* A small update of a page at rest is a note.
LEMMA RestingNoted ==
  ASSUME NEW setup \in Setups, NEW visit \in Visits, NEW s \in Schemes, NEW d, NEW e, NEW row,
         OutcomeFacts(setup, visit, s, ProbeOf(setup, visit, s), Judged(setup, visit, s), d, e, row),
         d.skip \in UnchangedSkips, Responds(ProbeOf(setup, visit, s)), ~d.queued, ~e.hidden,
         Resting(setup, visit, s), Web(setup, visit, s) \in SmallUpdates
  PROVE  Noted(e, row)
  <1> DEFINE p == ProbeOf(setup, visit, s)
             j == Judged(setup, visit, s)
             b == Baselines(s)
             web == Web(setup, visit, s)
  <1>1. j.web = web /\ ~j.major
    BY SmallStaysSmall
  <1>2. ~(Complete(p) /\ TitleChanged(ObservedTitle(TitleOld(b)), ObservedTitle(Probed(p))))
    BY WebKinds DEF Web, SmallUpdates
  <1>3. ObservedTitle(Probed(p)).title = IF HtmlTitle(p) THEN p.title ELSE "none"
    BY ProbedTitle
  <1>4. HtmlTitle(p) => ObservedTitle(Probed(p)) = [title |-> p.title, status |-> "found"]
    BY DEF ObservedTitle, Probed, NoRow
  <1>5. HtmlTitle(p) => Complete(p)
    BY DEF HtmlTitle
  <1>6. /\ e.web = j.web /\ e.major = j.major /\ e.skip = d.skip /\ row.probe = p
        /\ e.known = ObservedTitle(TitleOld(b)) /\ row.status = "skipped"
        /\ HtmlTitle(p) => ObservedTitle(row) = [title |-> p.title, status |-> "found"]
        /\ ObservedTitle(row).status = "found" => HtmlTitle(p)
    BY DEF OutcomeFacts
  <1> HIDE DEF p, j, b
  <1>7. ~TitleChanged(e.known, ObservedTitle(row))
    <2>1. CASE HtmlTitle(p)
      BY <1>2, <1>4, <1>5, <1>6, <2>1
    <2>2. CASE ~HtmlTitle(p)
      BY <1>6, <2>2 DEF TitleChanged
    <2>3. QED
      BY <2>1, <2>2
  <1>8. web \in SmallUpdates
    OBVIOUS
  <1> HIDE DEF web
  <1>9. ResolvedChange(e, row) = web
    BY <1>1, <1>6, <1>7, <1>8 DEF ResolvedChange, SmallUpdates
  <1>10. Priority(e, row) = "context"
    BY <1>1, <1>6, <1>8, <1>9 DEF Priority, SmallUpdates
  <1>11. Responds(row.probe)
    BY <1>6 DEF p
  <1>12. QED
    BY <1>6, <1>10, <1>11 DEF Noted, UnchangedSkips

\* The protocol that stands for a pair has something to tell if the other one has.
LEMMA SharedTells ==
  ASSUME NEW setup \in Setups, NEW visit \in Visits, NEW s \in Schemes, setup.mode = "changes",
         Judged(setup, visit, s).queued, Judged(setup, visit, Other(s)).queued,
         Decisions(setup, visit)[s].skip = "duplicate_body",
         Judged(setup, visit, s).web \in ChangeLabels
  PROVE  Judged(setup, visit, Other(s)).web \in ChangeLabels
  <1> DEFINE each == JudgedBy(setup, visit)
             d    == Decisions(setup, visit)
             source == SharedSource(setup, each)
  <1>1. DOMAIN each = Schemes /\ \A t \in Schemes : each[t] = Judged(setup, visit, t)
    BY DEF JudgedBy
  <1>2. \/ s = "http" /\ Other(s) = "https"
        \/ s = "https" /\ Other(s) = "http"
    BY OtherOne
  <1>3. each[s].queued /\ each[Other(s)].queued /\ each[s].web \in ChangeLabels
    BY <1>1, <1>2 DEF Schemes
  <1>4. each[s].skip # "duplicate_body"
    <2>1. JudgedFacts(setup, visit, s, Judged(setup, visit, s))
      BY JudgedFields
    <2>2. Judged(setup, visit, s).skip = "none"
      BY <2>1 DEF JudgedFacts
    <2>3. QED
      BY <1>1, <2>2
  <1>5. d = Deduplicate(setup, each, SeenBy(setup, visit))
    BY DEF Decisions
  <1>6. each["http"].queued /\ each["https"].queued
    BY <1>2, <1>3
  <1>7. source \in Schemes
    BY DEF SharedSource, Schemes
  <1> HIDE DEF each, d
  <1>8. d # each
    BY <1>4 DEF d
  <1>9. d = DuplicateOf(setup, each, source)
    BY <1>5, <1>6, <1>8 DEF Deduplicate
  <1>10. source # s
    <2>1. source = s => d[s] = each[s]
      BY <1>1, <1>7, <1>9, DuplicateOfEach
    <2>2. QED
      BY <1>4, <2>1 DEF d
  <1>11. each[Other(s)].web \in ChangeLabels
    BY <1>2, <1>3, <1>7, <1>10 DEF SharedSource, Schemes
  <1>12. QED
    BY <1>1, <1>2, <1>11 DEF Schemes

\* The report has an entry or a note for the protocol.
Told(setup, visit, shots, shown, s) ==
  \/ Entry(DecisionAfter(setup, visit, shown, s), RowAfter(setup, visit, shots, s))
  \/ Noted(DecisionAfter(setup, visit, shown, s), RowAfter(setup, visit, shots, s))

Hidden(setup, visit, shown, s) == DecisionAfter(setup, visit, shown, s).hidden

\* LeftToTwin of a scan.
LeftAlone(setup, visit, s, before) ==
  /\ ~Decisions(setup, visit)[Other(s)].queued
  /\ \E t \in Runs :
       /\ TextComplete(Row(t, Other(s)).probe)
       /\ ~ReadsDifferently(ProbeOf(setup, visit, Other(s)), Row(t, Other(s)).probe)
       /\ \A q \in Runs : q > t => ~TextComplete(Row(q, Other(s)).probe)
  /\ \A t \in Runs : Row(t, s).status # "captured"
  /\ \E t \in Runs : Row(t, s).probe.twin = Other(s) /\ \A q \in Runs : q <= t
  /\ StructureComparison(ProbeOf(setup, visit, s), before) \in {"unchanged", "largely_unchanged"}

\* A check says that its image is missing only if there is none.
LEMMA MissingImage ==
  ASSUME NEW setup \in Setups, NEW visit \in Visits, NEW s \in Schemes,
         Why(setup, visit, s) = "image_baseline_missing"
  PROVE  ~IsRow(Baselines(s).image)
  <1> DEFINE p    == ProbeOf(setup, visit, s)
             b    == Baselines(s)
             web  == Web(setup, visit, s)
             shot == b.image
             missing == ~IsRow(shot)
             known == IF setup.comparison = "text" THEN TextComplete(p) ELSE Complete(p)
             ladder ==
               << <<setup.mode # "changes", "full_report">>,
                  <<web \notin Quiet \cup {"unknown"}, web>>,
                  <<web = "unknown" /\ ~known, "current_uncertain">>,
                  <<web = "unknown", "previous_unavailable">>,
                  <<missing, "image_baseline_missing">>,
                  <<~ImageMatches(b, setup, p), "image_baseline_mismatch">>,
                  <<b.route # setup.route, "proxy_route_changed">>,
                  <<shot.run \notin files, "image_baseline_unavailable">>,
                  <<today < shot.day, "image_baseline_future_date">>,
                  <<setup.refresh > 0 /\ today - shot.day >= setup.refresh, "periodic_refresh">>,
                  <<TRUE, "none">> >>
             last == 11
  <1>1. p.status # "image_baseline_missing"
    BY ProbeFields DEF ProbeFacts
  <1>2. First(ladder) = "image_baseline_missing"
    BY <1>1 DEF Why, Recapture
  <1>3. web # "image_baseline_missing"
    BY WebChangeValues DEF Web, WebChanges, ChangeLabels
  <1>4. /\ last \in Nat /\ last \in 1..last /\ DOMAIN ladder = 1..last /\ ladder[last][1] = TRUE
        /\ ladder[5][1] = missing
        /\ ladder[1][2] = "full_report" /\ ladder[2][2] = web /\ ladder[3][2] = "current_uncertain"
        /\ ladder[4][2] = "previous_unavailable" /\ ladder[6][2] = "image_baseline_mismatch"
        /\ ladder[7][2] = "proxy_route_changed" /\ ladder[8][2] = "image_baseline_unavailable"
        /\ ladder[9][2] = "image_baseline_future_date" /\ ladder[10][2] = "periodic_refresh"
        /\ ladder[11][2] = "none"
    OBVIOUS
  <1>5. \A i \in 1..last : i \in {1, 2, 3, 4, 5, 6, 7, 8, 9, 10, 11}
    OBVIOUS
  <1> HIDE DEF ladder, missing, last, web
  <1>6. PICK i \in 1..last : ladder[i][1] /\ First(ladder) = ladder[i][2]
    BY <1>4, FirstStops
  <1>7. i = 5
    BY <1>2, <1>3, <1>4, <1>5, <1>6
  <1>8. missing
    BY <1>4, <1>6, <1>7
  <1>9. QED
    BY <1>8 DEF missing

LEMMA ChangesFor ==
  ASSUME TypeOK, DaysInv, NEW setup \in Setups, NEW visit \in Visits, NEW s \in Schemes,
         NEW shots \in SUBSET Chosen(setup, visit), NEW shown, NEW r \in Runs,
         setup.mode = "changes", TextComplete(ProbeOf(setup, visit, s)),
         TextComplete(Row(r, s).probe), ReadsDifferently(ProbeOf(setup, visit, s), Row(r, s).probe),
         \A q \in Runs : q > r => ~TextComplete(Row(q, s).probe),
         ~Barred(setup, visit, s), ~Hidden(setup, visit, shown, s)
  PROVE  \/ Told(setup, visit, shots, shown, s)
         \/ /\ Decisions(setup, visit)[s].twin = Other(s)
            /\ \/ Told(setup, visit, shots, shown, Other(s)) \/ Hidden(setup, visit, shown, Other(s))
               \/ LeftAlone(setup, visit, s, Row(r, s).probe)
  <1> DEFINE p == ProbeOf(setup, visit, s)
             b == Baselines(s)
             j == Judged(setup, visit, s)
             o == Judged(setup, visit, Other(s))
             d == Decisions(setup, visit)
             web == Web(setup, visit, s)
  <1>1. Other(s) \in Schemes
    BY OtherOne
  <1>2. b.text = Row(r, s)
    <2>1. Counts("text", Row(r, s)) /\ \A q \in Runs : q > r => ~Counts("text", Row(q, s))
      BY DEF Counts
    <2>2. LatestFacts("text", s, b.text)
      BY BaselineRows
    <2>3. QED
      BY <2>1, <2>2, BaselineIs
  <1>3. IsRow(b.text) /\ IsRow(b.previous)
    <2>1. Counts("previous", Row(r, s))
      BY DEF Counts
    <2>2. LatestFacts("previous", s, b.previous)
      BY BaselineRows
    <2>3. IsRow(b.previous)
      BY <2>1, <2>2, RowsAre
    <2>4. IsRow(Row(r, s))
      BY DEF TypeOK, IsRow
    <2>5. QED
      BY <1>2, <2>3, <2>4
  <1>4. setup.comparison = "text"
    BY ProbeFields DEF ProbeFacts, TextComplete
  <1>5. Old(b, setup) = Row(r, s)
    BY <1>2, <1>3, <1>4 DEF Old
  <1>6. /\ ContentChange(b, setup, p) = TextChange(b, setup, p)
        /\ web = "title_changed" \/ web = ContentChange(b, setup, p)
    BY <1>3, <1>4, <1>5, WebKinds DEF Web
  <1>7. web \in SmallUpdates \cup {"structure_changed", "text_changed", "title_changed"}
    BY <1>5, <1>6, TextKinds DEF SmallUpdates
  <1>8. JudgedFacts(setup, visit, s, j)
    BY JudgedFields
  <1>9. j.web = web \/ j.web = "structure_changed"
    BY <1>8 DEF JudgedFacts
  <1>10. j.web \in ChangeLabels
    BY <1>7, <1>9 DEF ChangeLabels, SmallUpdates
  <1>11. ASSUME NEW t \in Schemes
         PROVE  /\ DecisionFacts(setup, visit, t, ProbeOf(setup, visit, t), Judged(setup, visit, t), d[t])
                /\ OutcomeFacts(setup, visit, t, ProbeOf(setup, visit, t), Judged(setup, visit, t), d[t],
                                DecisionAfter(setup, visit, shown, t), RowAfter(setup, visit, shots, t))
    BY DecisionFields, OutcomeFields
  <1>12. ASSUME NEW t \in Schemes, d[t].queued, Judged(setup, visit, t).web \in ChangeLabels,
                ~Hidden(setup, visit, shown, t)
         PROVE  Told(setup, visit, shots, shown, t)
    <2>1. d[t].skip = "none" /\ Responds(ProbeOf(setup, visit, t))
      BY <1>11, <1>12 DEF DecisionFacts
    <2>2. QED
      BY <1>11, <1>12, <2>1, QueuedTold DEF Told, Hidden
  <1>13. ASSUME NEW t \in Schemes, d[t].skip \in UnchangedSkips, Web(setup, visit, t) \in SmallUpdates,
                ~Hidden(setup, visit, shown, t)
         PROVE  Told(setup, visit, shots, shown, t)
    <2>1. Responds(ProbeOf(setup, visit, t)) /\ Resting(setup, visit, t)
      BY <1>11, <1>13 DEF DecisionFacts
    <2>2. ~d[t].queued
      BY <1>11, <1>13 DEF DecisionFacts, UnchangedSkips
    <2>3. QED
      BY <1>11, <1>13, <2>1, <2>2, RestingNoted DEF Told, Hidden
  <1>14. CASE d[s] = j
    <2>1. CASE j.queued
      BY <1>10, <1>12, <1>14, <2>1
    <2>2. CASE ~j.queued
      <3>1. Why(setup, visit, s) = "none"
        <4>1. Responds(p)
          BY DEF TextComplete, Succeeds
        <4>2. QED
          BY <1>8, <2>2, <4>1 DEF JudgedFacts
      <3>2. web \in Quiet
        BY <3>1, WhyNone DEF Resting, AtRest
      <3>3. web \in SmallUpdates
        BY <1>7, <3>2 DEF Quiet, SmallUpdates
      <3>4. j.skip \in UnchangedSkips
        BY <1>8, <3>1, SkipReasons DEF JudgedFacts
      <3>5. QED
        BY <1>13, <1>14, <3>3, <3>4
    <2>3. QED
      BY <2>1, <2>2
  <1>15. CASE /\ d[s] = Doubled(j, Other(s)) /\ j.queued /\ d[Other(s)] = o
              /\ \/ o.queued
                 \/ /\ ~o.queued /\ o.skip \in UnchangedSkips /\ j.web \in Quiet
                    /\ setup.mode = "changes" /\ j.wasTwin = Other(s)
                    /\ j.reason = "image_baseline_missing"
    <2>1. d[s].twin = Other(s) /\ d[s].skip = "duplicate_body"
      <3>1. DOMAIN j = DecisionKeys
        BY <1>8 DEF JudgedFacts
      <3> HIDE DEF j, d
      <3>2. QED
        BY <1>15, <3>1 DEF Doubled, DecisionKeys
    <2>2. CASE o.queued
      <3>1. o.web \in ChangeLabels
        BY <1>10, <1>15, <2>1, <2>2, SharedTells
      <3>2. QED
        BY <1>1, <1>12, <1>15, <2>1, <2>2, <3>1
    <2>3. CASE ~o.queued /\ o.skip \in UnchangedSkips
      <3>1. Resting(setup, visit, Other(s))
        BY <1>1, <1>11, <1>15, <2>3 DEF DecisionFacts
      <3>2. Web(setup, visit, Other(s)) \in Quiet
        BY <3>1 DEF Resting, AtRest
      <3>3. CASE Web(setup, visit, Other(s)) \in SmallUpdates
        BY <1>1, <1>13, <1>15, <2>1, <2>3, <3>3
      <3>4. CASE Web(setup, visit, Other(s)) = "unchanged"
        <4> DEFINE c == Baselines(Other(s))
                   x == ProbeOf(setup, visit, Other(s))
        <4>1. ContentChange(c, setup, x) = "unchanged"
          BY <3>4, WebKinds DEF Web
        <4>2. /\ TextComplete(Old(c, setup).probe)
              /\ TextChange(c, setup, x) = "unchanged"
          BY <1>4, <4>1, WebKinds
        <4>3. ~ReadsDifferently(x, Old(c, setup).probe)
          BY <4>2, TextKinds
        <4>4. LatestFacts("text", Other(s), c.text) /\ LatestFacts("previous", Other(s), c.previous)
          BY <1>1, BaselineRows
        <4>5. IsRow(c.text)
          <5> SUFFICES ASSUME ~IsRow(c.text) PROVE FALSE
            OBVIOUS
          <5>1. Old(c, setup) = c.previous
            BY <1>4 DEF Old
          <5>2. c.previous.run \in Runs /\ c.previous = Row(c.previous.run, Other(s))
            <6>1. c.previous # NoRow
              BY <4>2, <5>1, NoProbeSilent DEF NoRow, TextComplete, Succeeds
            <6>2. QED
              BY <1>1, <4>4, <6>1, RowsAre
          <5>3. Counts("text", Row(c.previous.run, Other(s)))
            BY <4>2, <5>1, <5>2 DEF Counts
          <5>4. \A q \in Runs : ~Counts("text", Row(q, Other(s)))
            BY <1>1, <4>4, RowsAre
          <5>5. QED
            BY <5>2, <5>3, <5>4
        <4>6. Old(c, setup) = c.text
          BY <1>4, <4>5 DEF Old
        <4>7. /\ c.text.run \in Runs /\ c.text = Row(c.text.run, Other(s))
              /\ \A q \in Runs : q > c.text.run => ~Counts("text", Row(q, Other(s)))
          BY <1>1, <4>4, <4>5, RowsAre
        <4>8. \A q \in Runs : Counts("text", Row(q, Other(s))) <=> TextComplete(Row(q, Other(s)).probe)
          BY DEF Counts
        <4>9. web \in SmallUpdates /\ StructureComparison(p, Row(r, s).probe) \in {"unchanged", "largely_unchanged"}
          <5>1. j.web \in Quiet
            BY <1>15, <2>3
          <5>2. web \in SmallUpdates
            BY <1>7, <1>9, <5>1 DEF Quiet, SmallUpdates
          <5>3. StableStructure(b, setup, p)
            BY <1>6, <5>2, WebKinds DEF SmallUpdates
          <5>4. QED
            BY <1>5, <5>2, <5>3 DEF StableStructure
        <4>10. \A t \in Runs : Row(t, s).status # "captured"
          <5>1. j.reason = "image_baseline_missing"
            BY <1>15, <2>3
          <5>2. Why(setup, visit, s) = "image_baseline_missing"
            <6>1. j.skip = "none" \/ j.skip \in UnchangedSkips \/ j.skip = "title_rule"
              BY <1>8, SkipReasons DEF JudgedFacts
            <6>2. j.reason \in {"title_rule", j.skip, Why(setup, visit, s)}
              BY <1>8 DEF JudgedFacts
            <6>3. QED
              BY <5>1, <6>1, <6>2 DEF UnchangedSkips
          <5>3. ~IsRow(b.image) /\ LatestFacts("image", s, b.image)
            BY <5>2, MissingImage, BaselineRows
          <5>4. \A t \in Runs : ~Counts("image", Row(t, s))
            BY <5>3, RowsAre
          <5>5. QED
            BY <5>4 DEF Counts
        <4>11. \E t \in Runs : Row(t, s).probe.twin = Other(s) /\ \A q \in Runs : q <= t
          <5>1. j.wasTwin = Other(s)
            BY <1>15, <2>3
          <5>2. b.previous.probe.twin = Other(s)
            BY <1>8, <5>1 DEF JudgedFacts
          <5>3. LatestFacts("previous", s, b.previous) /\ \A q \in Runs : Counts("previous", Row(q, s))
            BY BaselineRows DEF Counts
          <5>4. PICK t \in Runs : b.previous = Row(t, s) /\ \A q \in Runs : ~(q > t)
            BY <5>3 DEF LatestFacts
          <5>5. \A q \in Runs : q \in Int
            <6>1. Runs \subseteq 1..lastRun
              BY DEF TypeOK
            <6>2. QED
              BY <6>1
          <5>6. \A q \in Runs : q <= t
            BY <5>4, <5>5
          <5>7. QED
            BY <5>2, <5>4, <5>6
        <4> HIDE DEF c, x
        <4>12. \E t \in Runs : /\ TextComplete(Row(t, Other(s)).probe)
                              /\ ~ReadsDifferently(x, Row(t, Other(s)).probe)
                              /\ \A q \in Runs : q > t => ~TextComplete(Row(q, Other(s)).probe)
          BY <4>2, <4>3, <4>6, <4>7, <4>8
        <4>13. ~d[Other(s)].queued
          BY <1>15, <2>3
        <4>14. QED
          BY <2>1, <4>9, <4>10, <4>11, <4>12, <4>13 DEF x, LeftAlone
      <3>5. QED
        BY <3>2, <3>3, <3>4 DEF Quiet, SmallUpdates
    <2>4. QED
      BY <1>15, <2>2, <2>3
  <1>16. QED
    BY <1>14, <1>15, DecisionCases

LEMMA ChangesOf ==
  ASSUME IInv
  PROVE  ChangesAreTold
  <1>1. TypeOK /\ DaysInv /\ ScanInv
    BY DEF IInv
  <1> SUFFICES ASSUME scan.phase = "publishing", scan.setup.mode = "changes", NEW s \in Schemes,
                      NEW r \in Runs,
                      TextComplete(scan.rows[s].probe), TextComplete(Row(r, s).probe),
                      ReadsDifferently(scan.rows[s].probe, Row(r, s).probe),
                      \A q \in Runs : q > r => ~TextComplete(Row(q, s).probe),
                      ~Excluded(scan.setup, scan.visit[s]), ~scan.decisions[s].hidden
      PROVE  LET told(t) == Entry(scan.decisions[t], scan.rows[t]) \/ Noted(scan.decisions[t], scan.rows[t])
             IN \/ told(s)
                \/ /\ scan.decisions[s].twin = Other(s)
                   /\ told(Other(s)) \/ scan.decisions[Other(s)].hidden \/ LeftToTwin(s, Row(r, s).probe)
    BY DEF ChangesAreTold
  <1>2. ~\E setup \in Setups : scan = Broken(setup)
    <2> SUFFICES ASSUME NEW setup \in Setups, scan = Broken(setup) PROVE FALSE
      OBVIOUS
    <2>1. scan.rows[s].probe = NoProbe
      BY BrokenFields DEF NoRow
    <2>2. ~TextComplete(NoProbe)
      BY DEF TextComplete, Succeeds, Responds, NoProbe
    <2>3. QED
      BY <2>1, <2>2
  <1>3. PICK setup \in Setups, visit \in Visits, shots \in SUBSET Schemes, shown \in SUBSET Schemes :
          /\ shots \subseteq Chosen(setup, visit) /\ shown \subseteq Chosen(setup, visit)
          /\ scan = Visited(setup, visit, shots, shown)
    BY <1>1, <1>2, ScanPhases
  <1>4. /\ scan.setup = setup
        /\ \A t \in Schemes : /\ scan.decisions[t] = DecisionAfter(setup, visit, shown, t)
                              /\ scan.rows[t] = RowAfter(setup, visit, shots, t)
                              /\ scan.visit[t] = Reached(setup, visit[t])
    BY <1>3, VisitedFields
  <1>5. ASSUME NEW t \in Schemes
        PROVE  /\ scan.rows[t].probe = ProbeOf(setup, visit, t)
               /\ scan.decisions[t].twin = Decisions(setup, visit)[t].twin
               /\ scan.decisions[t].queued = Decisions(setup, visit)[t].queued
    <2>1. OutcomeFacts(setup, visit, t, ProbeOf(setup, visit, t), Judged(setup, visit, t),
                       Decisions(setup, visit)[t], DecisionAfter(setup, visit, shown, t),
                       RowAfter(setup, visit, shots, t))
      BY <1>3, OutcomeFields
    <2>2. QED
      BY <1>4, <2>1 DEF OutcomeFacts
  <1>6. Other(s) \in Schemes
    BY OtherOne
  <1>7. ProbeFacts(setup, visit, s, ProbeOf(setup, visit, s), Reached(setup, visit[s]))
    BY ProbeFields
  <1>8. ~Barred(setup, visit, s)
    BY <1>4, <1>7 DEF ProbeFacts, Barred, Excluded, Responds, TitleStatus
  <1>9. ~Hidden(setup, visit, shown, s)
    BY <1>4 DEF Hidden
  <1>10. \/ Told(setup, visit, shots, shown, s)
         \/ /\ Decisions(setup, visit)[s].twin = Other(s)
            /\ \/ Told(setup, visit, shots, shown, Other(s)) \/ Hidden(setup, visit, shown, Other(s))
               \/ LeftAlone(setup, visit, s, Row(r, s).probe)
    BY <1>1, <1>3, <1>4, <1>5, <1>8, <1>9, ChangesFor
  <1>11. Other(s) \in Queued <=> Decisions(setup, visit)[Other(s)].queued
    BY <1>5, <1>6 DEF Queued
  <1>12. LeftAlone(setup, visit, s, Row(r, s).probe) => LeftToTwin(s, Row(r, s).probe)
    BY <1>5, <1>6, <1>11 DEF LeftAlone, LeftToTwin, ReadsAsBefore
  <1>13. QED
    BY <1>4, <1>5, <1>6, <1>10, <1>12 DEF Told, Hidden

\* A page that reads differently from its last complete reading is in the report of a
\* changes scan, its own or its twin's, unless a title rule excludes it or the twin, left
\* alone, reads as it did (compare, resolved_change, review_priority, report_entries,
\* website_text_notes, the pair of protocols).
THEOREM ChangesTold == Spec => []ChangesAreTold
  <1>1. IInv => ChangesAreTold
    BY ChangesOf
  <1>2. QED
    BY <1>1, Invariant, PTL

\* A title baseline is a row with a title, and the title a check is compared with is known,
\* missing, the address, or not to be had; it is never one that was not read.
LEMMA TitleCounts ==
  ASSUME NEW row
  PROVE  Counts("title", row) <=> ObservedTitle(row).status = "found"
  <1>1. CASE HtmlTitle(row.probe)
    BY <1>1 DEF Counts, ObservedTitle
  <1>2. CASE ~HtmlTitle(row.probe) /\ BrowserTitle(row)
    BY <1>2 DEF Counts, ObservedTitle
  <1>3. CASE ~HtmlTitle(row.probe) /\ ~BrowserTitle(row)
    <2>1. ObservedTitle(row).status = IF AddressOnly(row) THEN "address_only"
                                      ELSE IF TitleStatus(row.probe) = "found" THEN "unavailable"
                                      ELSE TitleStatus(row.probe)
      BY <1>3 DEF ObservedTitle
    <2>2. QED
      BY <1>3, <2>1 DEF Counts
  <1>4. QED
    BY <1>1, <1>2, <1>3

LEMMA KnownStatus ==
  ASSUME TypeOK, DaysInv, NEW s \in Schemes
  PROVE  ObservedTitle(TitleOld(Baselines(s))).status \in {"found", "missing", "address_only", "unavailable"}
  <1> DEFINE b == Baselines(s)
  <1>1. CASE IsRow(b.title)
    <2>1. Counts("title", b.title)
      BY <1>1, BaselineRows, RowsAre
    <2>2. QED
      BY <1>1, <2>1, TitleCounts DEF TitleOld
  <1>2. ASSUME NEW row, Complete(row.probe) \/ row = NoRow
        PROVE  ObservedTitle(row).status \in {"found", "missing", "address_only", "unavailable"}
    <2>1. TitleStatus(row.probe) \in {"found", "missing", "unavailable"}
      <3>1. CASE Complete(row.probe)
        BY <3>1 DEF Complete, TitleStatus
      <3>2. CASE row = NoRow
        BY <3>2 DEF TitleStatus, Responds, NoRow, NoProbe
      <3>3. QED
        BY <1>2, <3>1, <3>2
    <2>2. CASE HtmlTitle(row.probe)
      BY <2>2 DEF ObservedTitle
    <2>3. CASE ~HtmlTitle(row.probe) /\ BrowserTitle(row)
      BY <2>3 DEF ObservedTitle
    <2>4. CASE ~HtmlTitle(row.probe) /\ ~BrowserTitle(row)
      <3>1. ObservedTitle(row).status = IF AddressOnly(row) THEN "address_only"
                                        ELSE IF TitleStatus(row.probe) = "found" THEN "unavailable"
                                        ELSE TitleStatus(row.probe)
        BY <2>4 DEF ObservedTitle
      <3>2. QED
        BY <2>1, <3>1
    <2>5. QED
      BY <2>2, <2>3, <2>4
  <1>3. CASE ~IsRow(b.title)
    BY <1>2, <1>3 DEF TitleOld
  <1>4. QED
    BY <1>1, <1>3

LEMMA TitlesFor ==
  ASSUME TypeOK, DaysInv, NEW setup \in Setups, NEW visit \in Visits, NEW s \in Schemes,
         NEW shots \in SUBSET Chosen(setup, visit), NEW shown, NEW r \in Runs,
         setup.mode = "changes", HtmlTitle(ProbeOf(setup, visit, s)), HtmlTitle(Row(r, s).probe),
         ProbeOf(setup, visit, s).title # Row(r, s).probe.title,
         \A q \in Runs : q > r => ObservedTitle(Row(q, s)).status # "found",
         ~Barred(setup, visit, s), ~Hidden(setup, visit, shown, s)
  PROVE  \/ Entry(DecisionAfter(setup, visit, shown, s), RowAfter(setup, visit, shots, s))
         \/ /\ Decisions(setup, visit)[s].twin = Other(s)
            /\ \/ Entry(DecisionAfter(setup, visit, shown, Other(s)), RowAfter(setup, visit, shots, Other(s)))
               \/ Hidden(setup, visit, shown, Other(s))
               \/ /\ \/ DecisionAfter(setup, visit, shown, Other(s)).known.title = ProbeOf(setup, visit, s).title
                     \/ DecisionAfter(setup, visit, shown, Other(s)).known.status \in {"unavailable", "address_only"}
                  /\ Noted(DecisionAfter(setup, visit, shown, Other(s)), RowAfter(setup, visit, shots, Other(s)))
  <1> DEFINE p == ProbeOf(setup, visit, s)
             x == ProbeOf(setup, visit, Other(s))
             b == Baselines(s)
             j == Judged(setup, visit, s)
             o == Judged(setup, visit, Other(s))
             d == Decisions(setup, visit)
             web == Web(setup, visit, s)
  <1>1. Other(s) \in Schemes
    BY OtherOne
  <1>2. b.title = Row(r, s)
    <2>1. Counts("title", Row(r, s)) /\ \A q \in Runs : q > r => ~Counts("title", Row(q, s))
      BY TitleCounts DEF Counts
    <2>2. LatestFacts("title", s, b.title)
      BY BaselineRows
    <2>3. QED
      BY <2>1, <2>2, BaselineIs
  <1>3. TitleOld(b) = Row(r, s)
    <2>1. IsRow(Row(r, s))
      BY DEF TypeOK, IsRow
    <2>2. QED
      BY <1>2, <2>1 DEF TitleOld
  <1>4. \A t \in Schemes : HtmlTitle(ProbeOf(setup, visit, t)) =>
          ObservedTitle(Probed(ProbeOf(setup, visit, t))) = [title |-> ProbeOf(setup, visit, t).title, status |-> "found"]
    BY DEF ObservedTitle, Probed, NoRow
  <1>5. ObservedTitle(Row(r, s)) = [title |-> Row(r, s).probe.title, status |-> "found"]
    BY DEF ObservedTitle
  <1>6. TitleChanged(ObservedTitle(TitleOld(b)), ObservedTitle(Probed(p)))
    <2>1. ObservedTitle(Probed(p)) = [title |-> p.title, status |-> "found"]
      BY <1>4
    <2>2. p.title # Row(r, s).probe.title
      OBVIOUS
    <2> HIDE DEF p, b
    <2>3. QED
      BY <1>3, <1>5, <2>1, <2>2 DEF TitleChanged
  <1>7. Complete(p) /\ Responds(p)
    BY DEF HtmlTitle, Complete, Succeeds
  <1>8. web = "title_changed"
    BY <1>6, <1>7, WebKinds DEF Web
  <1>9. JudgedFacts(setup, visit, s, j)
    BY JudgedFields
  <1>10. j.web = web \/ j.web = "structure_changed"
    BY <1>9 DEF JudgedFacts
  <1>11. j.web \in ChangeLabels /\ j.web \notin Quiet
    BY <1>8, <1>10 DEF ChangeLabels, Quiet
  <1>12. ASSUME NEW t \in Schemes
         PROVE  /\ DecisionFacts(setup, visit, t, ProbeOf(setup, visit, t), Judged(setup, visit, t), d[t])
                /\ OutcomeFacts(setup, visit, t, ProbeOf(setup, visit, t), Judged(setup, visit, t), d[t],
                                DecisionAfter(setup, visit, shown, t), RowAfter(setup, visit, shots, t))
    BY DecisionFields, OutcomeFields
  <1>13. ASSUME NEW t \in Schemes, d[t].queued, ~Hidden(setup, visit, shown, t), HtmlTitle(ProbeOf(setup, visit, t)),
                TitleChanged(ObservedTitle(TitleOld(Baselines(t))), ObservedTitle(Probed(ProbeOf(setup, visit, t))))
         PROVE  Entry(DecisionAfter(setup, visit, shown, t), RowAfter(setup, visit, shots, t))
    <2>1. d[t].skip = "none" /\ Responds(ProbeOf(setup, visit, t))
      BY <1>12, <1>13 DEF DecisionFacts
    <2>2. ~DecisionAfter(setup, visit, shown, t).hidden
      BY <1>13 DEF Hidden
    <2>3. QED
      BY <1>12, <1>13, <2>1, <2>2, TitleTold
  <1>14. CASE d[s] = j
    <2>1. Why(setup, visit, s) # "none"
      <3>1. ~Resting(setup, visit, s)
        BY <1>8 DEF Resting, AtRest, Quiet
      <3>2. QED
        BY <3>1, WhyNone
    <2>2. d[s].queued
      BY <1>7, <1>9, <1>14, <2>1 DEF JudgedFacts
    <2>3. QED
      BY <1>6, <1>13, <2>2
  <1>15. CASE /\ d[s] = Doubled(j, Other(s)) /\ j.queued /\ d[Other(s)] = o
              /\ SameBody(SeenBy(setup, visit)[s], SeenBy(setup, visit)[Other(s)])
              /\ \/ o.queued
                 \/ /\ ~o.queued /\ o.skip \in UnchangedSkips /\ j.web \in Quiet
                    /\ setup.mode = "changes" /\ j.wasTwin = Other(s)
                    /\ j.reason = "image_baseline_missing"
    <2>1. d[s].twin = Other(s) /\ d[s].skip = "duplicate_body"
      <3>1. DOMAIN j = DecisionKeys
        BY <1>9 DEF JudgedFacts
      <3> HIDE DEF j, d
      <3>2. QED
        BY <1>15, <3>1 DEF Doubled, DecisionKeys
    <2>2. o.queued /\ d[Other(s)].queued
      BY <1>11, <1>15
    <2>3. o.web \in ChangeLabels
      BY <1>11, <1>15, <2>1, <2>2, SharedTells
    <2>4. HtmlTitle(x) /\ x.title = p.title
      <3>1. SameBody(Reached(setup, visit[s]), Reached(setup, visit[Other(s)]))
        BY <1>1, <1>15 DEF SeenBy
      <3>2. /\ ProbeFacts(setup, visit, s, p, Reached(setup, visit[s]))
            /\ ProbeFacts(setup, visit, Other(s), x, Reached(setup, visit[Other(s)]))
        BY <1>1, ProbeFields
      <3>3. HtmlTitle(p)
        OBVIOUS
      <3> HIDE DEF p, x
      <3>4. /\ x.status = "http_response" /\ x.depth # "partial"
            /\ x.place = p.place /\ x.title = p.title
        BY <3>1, <3>2 DEF ProbeFacts, SameBody, Responds
      <3>5. QED
        BY <3>3, <3>4 DEF HtmlTitle, Complete, Succeeds, Responds, TitleStatus
    <2> DEFINE e   == DecisionAfter(setup, visit, shown, Other(s))
               row == RowAfter(setup, visit, shots, Other(s))
               known == ObservedTitle(TitleOld(Baselines(Other(s))))
    <2>5. e.known = known
      BY <1>1, <1>12 DEF OutcomeFacts
    <2>6. CASE Hidden(setup, visit, shown, Other(s))
      BY <2>1, <2>6
    <2>7. CASE ~Hidden(setup, visit, shown, Other(s)) /\ TitleChanged(known, ObservedTitle(Probed(x)))
      BY <1>1, <1>13, <2>1, <2>2, <2>4, <2>7
    <2>8. CASE ~Hidden(setup, visit, shown, Other(s)) /\ ~TitleChanged(known, ObservedTitle(Probed(x)))
      <3>1. Entry(e, row) \/ Noted(e, row)
        <4>1. d[Other(s)].skip = "none" /\ Responds(x)
          BY <1>1, <1>12, <2>2 DEF DecisionFacts
        <4>2. ~e.hidden
          BY <2>8 DEF Hidden
        <4>3. QED
          BY <1>1, <1>12, <2>3, <4>1, <4>2, QueuedTold
      <3>2. known.status \in {"found", "missing", "address_only", "unavailable"}
        BY <1>1, KnownStatus
      <3>3. ObservedTitle(Probed(x)) = [title |-> x.title, status |-> "found"]
        BY <1>1, <1>4, <2>4
      <3>4. known.title = p.title \/ known.status \in {"unavailable", "address_only"}
        <4> HIDE DEF known, x, p
        <4>1. QED
          BY <2>4, <2>8, <3>2, <3>3 DEF TitleChanged
      <3>5. QED
        BY <2>1, <2>5, <3>1, <3>4
    <2>9. QED
      BY <2>6, <2>7, <2>8
  <1>16. QED
    BY <1>14, <1>15, DecisionCases

LEMMA TitlesOf ==
  ASSUME IInv
  PROVE  TitleChangesLead
  <1>1. TypeOK /\ DaysInv /\ ScanInv
    BY DEF IInv
  <1> SUFFICES ASSUME scan.phase = "publishing", scan.setup.mode = "changes", NEW s \in Schemes,
                      NEW r \in Runs,
                      HtmlTitle(scan.rows[s].probe), HtmlTitle(Row(r, s).probe),
                      scan.rows[s].probe.title # Row(r, s).probe.title,
                      \A q \in Runs : q > r => ObservedTitle(Row(q, s)).status # "found",
                      ~Excluded(scan.setup, scan.visit[s]), ~scan.decisions[s].hidden
      PROVE  LET leads(t) == Entry(scan.decisions[t], scan.rows[t])
             IN \/ leads(s)
                \/ /\ scan.decisions[s].twin = Other(s)
                   /\ \/ leads(Other(s)) \/ scan.decisions[Other(s)].hidden
                      \/ /\ \/ scan.decisions[Other(s)].known.title = scan.rows[s].probe.title
                            \/ scan.decisions[Other(s)].known.status \in {"unavailable", "address_only"}
                         /\ Noted(scan.decisions[Other(s)], scan.rows[Other(s)])
    BY DEF TitleChangesLead
  <1>2. ~\E setup \in Setups : scan = Broken(setup)
    <2> SUFFICES ASSUME NEW setup \in Setups, scan = Broken(setup) PROVE FALSE
      OBVIOUS
    <2>1. scan.rows[s].probe = NoProbe
      BY BrokenFields DEF NoRow
    <2>2. ~HtmlTitle(NoProbe)
      BY DEF HtmlTitle, Complete, Succeeds, Responds, NoProbe
    <2>3. QED
      BY <2>1, <2>2
  <1>3. PICK setup \in Setups, visit \in Visits, shots \in SUBSET Schemes, shown \in SUBSET Schemes :
          /\ shots \subseteq Chosen(setup, visit) /\ shown \subseteq Chosen(setup, visit)
          /\ scan = Visited(setup, visit, shots, shown)
    BY <1>1, <1>2, ScanPhases
  <1>4. /\ scan.setup = setup
        /\ \A t \in Schemes : /\ scan.decisions[t] = DecisionAfter(setup, visit, shown, t)
                              /\ scan.rows[t] = RowAfter(setup, visit, shots, t)
                              /\ scan.visit[t] = Reached(setup, visit[t])
    BY <1>3, VisitedFields
  <1>5. /\ scan.rows[s].probe = ProbeOf(setup, visit, s)
        /\ scan.decisions[s].twin = Decisions(setup, visit)[s].twin
    <2>1. OutcomeFacts(setup, visit, s, ProbeOf(setup, visit, s), Judged(setup, visit, s),
                       Decisions(setup, visit)[s], DecisionAfter(setup, visit, shown, s),
                       RowAfter(setup, visit, shots, s))
      BY <1>3, OutcomeFields
    <2>2. QED
      BY <1>4, <2>1 DEF OutcomeFacts
  <1>6. Other(s) \in Schemes
    BY OtherOne
  <1>7. ProbeFacts(setup, visit, s, ProbeOf(setup, visit, s), Reached(setup, visit[s]))
    BY ProbeFields
  <1>8. ~Barred(setup, visit, s)
    BY <1>4, <1>7 DEF ProbeFacts, Barred, Excluded, Responds, TitleStatus
  <1>9. ~Hidden(setup, visit, shown, s)
    BY <1>4 DEF Hidden
  <1>10. \/ Entry(DecisionAfter(setup, visit, shown, s), RowAfter(setup, visit, shots, s))
         \/ /\ Decisions(setup, visit)[s].twin = Other(s)
            /\ \/ Entry(DecisionAfter(setup, visit, shown, Other(s)), RowAfter(setup, visit, shots, Other(s)))
               \/ Hidden(setup, visit, shown, Other(s))
               \/ /\ \/ DecisionAfter(setup, visit, shown, Other(s)).known.title = ProbeOf(setup, visit, s).title
                     \/ DecisionAfter(setup, visit, shown, Other(s)).known.status \in {"unavailable", "address_only"}
                  /\ Noted(DecisionAfter(setup, visit, shown, Other(s)), RowAfter(setup, visit, shots, Other(s)))
    BY <1>1, <1>3, <1>4, <1>5, <1>8, <1>9, TitlesFor
  <1>11. QED
    BY <1>4, <1>5, <1>6, <1>10 DEF Hidden

\* A meaningful title that differs from the last one known leads the report of a changes
\* scan, under the protocol or its twin; a twin that already had this title, or had none to
\* compare it with, keeps it as a note (_title_changed, review_priority, report_entries).
THEOREM TitlesLead == Spec => []TitleChangesLead
  <1>1. IInv => TitleChangesLead
    BY TitlesOf
  <1>2. QED
    BY <1>1, Invariant, PTL
===============================================================================
