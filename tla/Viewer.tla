-------------------------------- MODULE Viewer --------------------------------
(***************************************************************************)
(* app.js: the page that shows one run of the recorder.  Every answer      *)
(* comes to a page that has gone on: the user has selected another run,    *)
(* view or baseline, or the poll has fetched the run again.                *)
(*                                                                         *)
(* A run is shown as of a version, the number of changes that were         *)
(* recorded when the recorder answered.  Events, graphs, comparisons and   *)
(* analyses are modelled by the run they are of.                           *)
(***************************************************************************)
EXTENDS Naturals, FiniteSets

CONSTANTS Runs, NoRun,
          MaxVersion,    \* bound of the model: changes to a run
          MaxRequests    \* bound of the model: requests under way

ASSUME NoRunAssumption == NoRun \notin Runs
ASSUME BoundsAssumption == MaxVersion \in Nat /\ MaxRequests \in Nat

Views == {"timeline", "graph", "policies", "comparison"}
MaybeRun == Runs \cup {NoRun}

VARIABLES version,     \* of each run at the recorder
          settled,     \* completed, and nothing was imported: it is not polled
          requests,    \* of this page, with the answer once there is one
          listed,      \* the run list has been rendered
          open,        \* state.run
          graph, comparison,
          event, edge, \* the runs of the selected event and edge
          view, baseline, replaying,
          panel,       \* what was rendered last, and of which run
          analysis,    \* the run of the diagnosis, NoRun when it is hidden
          url          \* what a reload would request

recorder == <<version, settled>>
selection == <<event, edge>>
page == <<open, graph, comparison, selection, view, baseline, replaying, panel, analysis, url>>
loading == <<requests, listed>>
vars == <<recorder, loading, page>>

NoTrace == [run |-> NoRun, version |-> 0, settled |-> FALSE]

\* what: "runs", "run", "graph", "compare" or "analysis"; flag: the first list,
\* a forced refresh, or a selection that keeps the selected event.
Request(what, run, other, flag) ==
    [what |-> what, run |-> run, other |-> other, flag |-> flag, answer |-> NoTrace]

Init ==
    /\ version = [r \in Runs |-> 1]
    /\ settled = [r \in Runs |-> FALSE]
    /\ requests = {Request("runs", NoRun, NoRun, "first")}
    /\ listed = FALSE
    /\ open = NoTrace
    /\ graph = NoTrace
    /\ comparison = [run |-> NoRun, baseline |-> NoRun]
    /\ edge = NoRun
    /\ view \in Views
    /\ baseline \in MaybeRun
    /\ replaying = FALSE
    /\ panel = [what |-> "empty", run |-> NoRun]
    /\ analysis = NoRun
    /\ \E r \in MaybeRun : \E e \in {NoRun, r} :
          event = e /\ url = [run |-> r, event |-> e, view |-> view]

-----------------------------------------------------------------------------
(* The recorder.                                                           *)

\* An event, an import, or the completion of the run.
Change(r) ==
    /\ version[r] < MaxVersion
    /\ version' = [version EXCEPT ![r] = @ + 1]
    /\ \E e \in BOOLEAN : settled' = [settled EXCEPT ![r] = e]
    /\ UNCHANGED <<loading, page>>

Serve(q) ==
    /\ q \in requests
    /\ q.run # NoRun /\ q.answer = NoTrace
    /\ requests' = (requests \ {q}) \cup
           {[q EXCEPT !.answer = [run |-> q.run, version |-> version[q.run],
                                  settled |-> settled[q.run]]]}
    /\ UNCHANGED <<recorder, listed, page>>

Served(q, what) == q \in requests /\ q.what = what /\ q.answer # NoTrace

Asking(left, new) ==
    /\ Cardinality(left \cup new) <= MaxRequests
    /\ requests' = left \cup new

-----------------------------------------------------------------------------
(* showView and syncUrl.                                                   *)

SyncUrl == url' = [run |-> open'.run, event |-> event', view |-> view']

Show(what) == panel' = [what |-> what, run |-> open'.run]

\* showView of the run that is open by then, given the requests left.  A cached
\* graph is rendered, a missing one requested; a baseline is found in the list.
ShowView(v, left) ==
    /\ view' = v
    /\ replaying' = FALSE
    /\ IF open'.run = NoRun
       THEN requests' = left /\ UNCHANGED <<baseline, panel, url>>
       ELSE /\ SyncUrl
            /\ CASE v \in {"timeline", "policies"} ->
                       Show(v) /\ requests' = left /\ UNCHANGED baseline
                 [] v = "graph" /\ graph' # NoTrace ->
                       Show("graph") /\ requests' = left /\ UNCHANGED baseline
                 [] v = "graph" /\ graph' = NoTrace ->
                       /\ Show("loading")
                       /\ Asking(left, {Request("graph", open'.run, NoRun, "")})
                       /\ UNCHANGED baseline
                 [] v = "comparison" ->
                       LET candidates == Runs \ {open'.run}
                       IN /\ Show("shell")
                          /\ baseline' \in IF baseline \in candidates THEN {baseline}
                                           ELSE IF candidates = {} THEN {NoRun} ELSE candidates
                          /\ Asking(left, {Request("compare", open'.run, b, "") :
                                              b \in {baseline'} \ {NoRun}})

\* Mutant of ClickView: the replay goes on under the other view.
ClickViewReplaying(v) ==
    /\ UNCHANGED <<open, graph, comparison, selection, analysis>>
    /\ view' = v
    /\ UNCHANGED replaying
    /\ IF open.run = NoRun THEN UNCHANGED <<requests, baseline, panel, url>>
       ELSE SyncUrl /\ Show(v) /\ UNCHANGED <<requests, baseline>>
    /\ UNCHANGED <<recorder, listed>>

ClickView(v) ==
    /\ UNCHANGED <<open, graph, comparison, selection, analysis>>
    /\ ShowView(v, requests)
    /\ UNCHANGED <<recorder, listed>>

-----------------------------------------------------------------------------
(* refreshRuns and selectRun.                                              *)

\* The poll, every eight seconds, and the button; the first list is taken to have
\* arrived by then.
Refresh(force) ==
    /\ \A q \in requests : q.flag # "first"
    /\ Asking(requests, {Request("runs", NoRun, NoRun, IF force THEN "force" ELSE "")})
    /\ UNCHANGED <<recorder, listed, page>>

\* Mutant of Newest: every answer counts.
Every == requests

\* A new generation: what was requested of a run before will be ignored.
Newest == {q \in requests : q.what # "run"}

SelectRun(r, keep, left) ==
    /\ replaying' = FALSE
    /\ Asking(left \cap Newest, {Request("run", r, NoRun, IF keep THEN "keep" ELSE "")})

ClickRun(r) ==
    /\ listed
    /\ SelectRun(r, FALSE, requests)
    /\ UNCHANGED <<recorder, listed, open, graph, comparison, selection, view, baseline, panel,
                   analysis, url>>

\* The list arrives.  A run that is open is fetched again while it can change.
ListArrives(q) ==
    /\ q \in requests
    /\ q.what = "runs"
    /\ listed' = TRUE
    /\ CASE q.flag = "first" ->
                \/ url.run # NoRun /\ SelectRun(url.run, TRUE, requests \ {q})
                \/ url.run = NoRun /\ \E r \in Runs : SelectRun(r, FALSE, requests \ {q})
         [] q.flag # "first" /\ open.run # NoRun /\ (~ open.settled \/ q.flag = "force") ->
                SelectRun(open.run, TRUE, requests \ {q})
         [] OTHER -> requests' = requests \ {q} /\ UNCHANGED replaying
    /\ UNCHANGED <<recorder, open, graph, comparison, selection, view, baseline, panel, analysis,
                   url>>

\* Mutant of RunArrives: the view is not shown again.
RunArrivesQuietly(q) ==
    /\ Served(q, "run")
    /\ open' = q.answer
    /\ graph' = NoTrace
    /\ requests' = requests \ {q}
    /\ UNCHANGED <<recorder, listed, comparison, selection, view, baseline, replaying, panel,
                   analysis, url>>

RunArrives(q) ==
    /\ Served(q, "run")
    /\ open' = q.answer
    /\ graph' = NoTrace
    /\ comparison' = [run |-> NoRun, baseline |-> NoRun]
    /\ edge' = NoRun
    /\ event' = IF q.flag = "keep" THEN event ELSE NoRun
    /\ analysis' = NoRun
    /\ ShowView(view, requests \ {q})
    /\ UNCHANGED <<recorder, listed>>

-----------------------------------------------------------------------------
(* What the views load.                                                    *)

\* Mutants of Wanted: the view, or the run, is not looked at again.
WantedInAnyView(q, v) == open.run = q.run
WantedOfAnyRun(q, v) == view = v /\ open # NoTrace

\* The run is still open, and its view selected.
Wanted(q, v) == open.run = q.run /\ view = v

GraphArrives(q) ==
    /\ Served(q, "graph")
    /\ requests' = requests \ {q}
    /\ IF Wanted(q, "graph")
       THEN graph' = q.answer /\ panel' = [what |-> "graph", run |-> q.run]
       ELSE UNCHANGED <<graph, panel>>
    /\ UNCHANGED <<recorder, listed, open, comparison, selection, view, baseline, replaying,
                   analysis, url>>

ComparisonArrives(q) ==
    /\ Served(q, "compare")
    /\ requests' = requests \ {q}
    /\ IF Wanted(q, "comparison") /\ baseline = q.other
       THEN /\ comparison' = [run |-> q.run, baseline |-> q.other]
            /\ panel' = [what |-> "comparison", run |-> q.run]
       ELSE UNCHANGED <<comparison, panel>>
    /\ UNCHANGED <<recorder, listed, open, graph, selection, view, baseline, replaying, analysis,
                   url>>

\* The baseline is chosen in the comparison, or its results are refreshed.
Compare(b) ==
    /\ panel.what \in {"shell", "comparison"}
    /\ b # open.run
    /\ baseline' = b
    /\ Asking(requests, {Request("compare", open.run, b, "")})
    /\ UNCHANGED <<recorder, listed, open, graph, comparison, selection, view, replaying, panel,
                   analysis, url>>

Analyze ==
    /\ open.run # NoRun
    /\ Asking(requests, {Request("analysis", open.run, NoRun, "")})
    /\ UNCHANGED <<recorder, listed, page>>

\* Mutant of AnalysisArrives: whatever run is open.
AnalysisArrivesLate(q) ==
    /\ Served(q, "analysis")
    /\ requests' = requests \ {q}
    /\ analysis' = q.run
    /\ UNCHANGED <<recorder, listed, open, graph, comparison, selection, view, baseline,
                   replaying, panel, url>>

AnalysisArrives(q) ==
    /\ Served(q, "analysis")
    /\ requests' = requests \ {q}
    /\ analysis' = IF open.run = q.run THEN q.run ELSE analysis
    /\ UNCHANGED <<recorder, listed, open, graph, comparison, selection, view, baseline,
                   replaying, panel, url>>

CloseAnalysis ==
    /\ analysis' = NoRun
    /\ UNCHANGED <<recorder, loading, open, graph, comparison, selection, view, baseline,
                   replaying, panel, url>>

\* A request fails or times out.  A graph that is still wanted becomes unavailable.
Fail(q) ==
    /\ q \in requests
    /\ requests' = requests \ {q}
    /\ UNCHANGED <<recorder, listed, open, graph, comparison, selection, view, baseline, replaying,
                   analysis, url>>
    /\ IF q.what = "graph" /\ Wanted(q, "graph") THEN Show("unavailable") ELSE UNCHANGED panel

-----------------------------------------------------------------------------
(* selectEvent and the replay.                                             *)

\* The event clicked on is one of the run it was rendered for.  A graph that fits
\* the window is rendered again.
SelectEvent(r, e) ==
    /\ UNCHANGED <<recorder, loading, open, graph, comparison, view, baseline, analysis>>
    /\ event' = r
    /\ edge' = e
    /\ panel' = IF view = "graph" /\ graph # NoTrace THEN [what |-> "graph", run |-> graph.run]
                ELSE panel
    /\ SyncUrl

ClickEvent ==
    /\ panel.what \in {"timeline", "policies", "graph", "comparison"}
    /\ SelectEvent(panel.run, NoRun)
    /\ UNCHANGED replaying

ClickEvidence == analysis # NoRun /\ SelectEvent(analysis, NoRun) /\ UNCHANGED replaying

ClickEdge == panel.what = "graph" /\ SelectEvent(graph.run, graph.run) /\ UNCHANGED replaying

CloseInspector == open.run # NoRun /\ SelectEvent(NoRun, NoRun) /\ UNCHANGED replaying

\* replayStep: the next event, and the timeline over whatever is in the panel.
ReplayStep ==
    /\ UNCHANGED <<recorder, loading, open, graph, comparison, view, baseline, analysis>>
    /\ event' = open.run
    /\ edge' = NoRun
    /\ Show("timeline")
    /\ SyncUrl

\* Play, step, or move the slider; the last event ends the replay.
Replay ==
    /\ panel.what = "timeline"
    /\ ReplayStep
    /\ replaying' \in BOOLEAN

ReplayTick == replaying /\ ReplayStep /\ replaying' \in BOOLEAN

-----------------------------------------------------------------------------

Clicks ==
    \/ \E r \in Runs : ClickRun(r) \/ Compare(r)
    \/ \E v \in Views : ClickView(v)
    \/ ClickEvent \/ ClickEvidence \/ ClickEdge \/ CloseInspector
    \/ Analyze \/ CloseAnalysis \/ Replay

Arrivals ==
    \E q \in requests :
        ListArrives(q) \/ RunArrives(q) \/ GraphArrives(q) \/ ComparisonArrives(q)
            \/ AnalysisArrives(q) \/ Fail(q)

Next ==
    \/ Clicks
    \/ Arrivals
    \/ \E force \in BOOLEAN : Refresh(force)
    \/ ReplayTick
    \/ \E r \in Runs : Change(r)
    \/ \E q \in requests : Serve(q)

Spec == Init /\ [][Next]_vars

-----------------------------------------------------------------------------
(* Properties.                                                             *)

\* What the page shows is something it has: nothing dereferences null.
TypeOK ==
    /\ version \in [Runs -> Nat]
    /\ settled \in [Runs -> BOOLEAN]
    /\ open.run \in MaybeRun /\ graph.run \in MaybeRun /\ comparison.run \in MaybeRun
    /\ event \in MaybeRun /\ edge \in MaybeRun /\ analysis \in MaybeRun
    /\ view \in Views
    /\ baseline \in MaybeRun
    /\ replaying \in BOOLEAN
    /\ panel.what # "empty" => open.run # NoRun
    /\ panel.what = "graph" => graph # NoTrace
    /\ panel.what = "comparison" => comparison.run # NoRun

\* The trace on the page is never replaced by an older one of its run, however
\* polls, refreshes and clicks overtake each other.
TraceNeverGoesBack ==
    [][open.run # NoRun /\ open'.run = open.run => open'.version >= open.version]_vars

\* Whatever arrives late, the panel, the graph, the comparison, the diagnosis, the
\* edge and the URL are those of the run in the heading.
PageIsOfOneRun ==
    open.run # NoRun =>
        /\ {panel.run, graph.run, comparison.run, analysis, edge} \subseteq {open.run, NoRun}
        /\ url = [run |-> open.run, event |-> event, view |-> view]

\* The panel is one of the selected view, and the replay, which draws over it,
\* runs in the timeline only.
PanelIsOfView ==
    /\ replaying => panel.what = "timeline"
    /\ panel.what \in
          CASE view = "timeline" -> {"empty", "timeline"}
            [] view = "policies" -> {"empty", "policies"}
            [] view = "graph" -> {"empty", "loading", "graph", "unavailable"}
            [] view = "comparison" -> {"empty", "shell", "comparison"}
=============================================================================
