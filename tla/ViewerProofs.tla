----------------------------- MODULE ViewerProofs -----------------------------
(***************************************************************************)
(* What TLAPS proves of the viewer for every number of runs, of their      *)
(* versions and of requests under way.                                     *)
(***************************************************************************)
EXTENDS Viewer, TLAPS

USE NoRunAssumption, BoundsAssumption

-----------------------------------------------------------------------------
(* The inductive invariant.                                                *)

Trace == [run : MaybeRun, version : Nat, settled : BOOLEAN]

Requested == [what : {"runs", "run", "graph", "compare", "analysis"}, run : MaybeRun,
              other : MaybeRun, flag : {"first", "force", "keep", ""}, answer : Trace]

\* An answer is of the run that was asked for, as the recorder had it.
RequestsInOrder ==
    \A q \in requests :
        /\ q \in Requested
        /\ q.answer = NoTrace \/ (q.answer.run = q.run /\ q.run # NoRun)
        /\ q.answer # NoTrace => q.answer.version <= version[q.run]
        /\ q.what # "runs" => q.run # NoRun

\* The page waits for one run at most, and for nothing older than what it shows.
NewestRun ==
    /\ \A p, q \in requests : p.what = "run" /\ q.what = "run" => p = q
    /\ open.run # NoRun => open.version <= version[open.run]
    /\ \A q \in requests :
          q.what = "run" /\ q.answer # NoTrace /\ q.run = open.run =>
              open.version <= q.answer.version

RecorderType == version \in [Runs -> Nat] /\ settled \in [Runs -> BOOLEAN]

PageType ==
    /\ open \in Trace /\ graph \in Trace
    /\ open = NoTrace \/ open.run # NoRun
    /\ graph = NoTrace \/ graph.run # NoRun
    /\ comparison.run \in MaybeRun
    /\ event \in MaybeRun /\ edge \in MaybeRun /\ analysis \in MaybeRun
    /\ view \in Views
    /\ baseline \in MaybeRun
    /\ replaying \in BOOLEAN
    /\ url.run \in MaybeRun

\* The panels of a view, the empty page aside.
Fits(v, what) ==
    /\ v = "timeline" => what = "timeline"
    /\ v = "policies" => what = "policies"
    /\ v = "graph" => what \in {"loading", "graph", "unavailable"}
    /\ v = "comparison" => what \in {"shell", "comparison"}

Fitting == panel.what = "empty" \/ Fits(view, panel.what)

\* The panel has what it shows; before a run is open, it shows nothing.
PanelInOrder ==
    /\ panel.what # "empty" => open.run # NoRun
    /\ panel.what = "graph" => graph # NoTrace
    /\ panel.what = "comparison" => comparison.run # NoRun
    /\ open.run = NoRun => graph = NoTrace /\ analysis = NoRun
    /\ replaying => panel.what = "timeline"
    /\ Fitting

PageInOrder == PageType /\ PanelInOrder /\ PageIsOfOneRun

IInv ==
    /\ RecorderType
    /\ RequestsInOrder
    /\ NewestRun
    /\ PageInOrder

-----------------------------------------------------------------------------

LEMMA NoTraceFacts == NoTrace \in Trace /\ NoTrace.run = NoRun
  BY DEF NoTrace, Trace, MaybeRun

\* A request as it is sent.
Fresh(q) ==
    /\ q \in Requested
    /\ q.answer = NoTrace
    /\ q.what # "runs" => q.run # NoRun

LEMMA ListRequest ==
    ASSUME NEW flag \in {"first", "force", ""}
    PROVE  Fresh(Request("runs", NoRun, NoRun, flag)) /\ Request("runs", NoRun, NoRun, flag).what = "runs"
  BY NoTraceFacts DEF Request, Requested, Fresh, MaybeRun

LEMMA RunRequest ==
    ASSUME NEW r \in Runs, NEW flag \in {"keep", ""}
    PROVE  Fresh(Request("run", r, NoRun, flag)) /\ Request("run", r, NoRun, flag).what = "run"
  BY NoTraceFacts DEF Request, Requested, Fresh, MaybeRun

LEMMA ViewRequest ==
    ASSUME NEW r \in Runs, NEW other \in MaybeRun, NEW what \in {"graph", "compare", "analysis"}
    PROVE  Fresh(Request(what, r, other, "")) /\ Request(what, r, other, "").what = what
  BY NoTraceFacts DEF Request, Requested, Fresh, MaybeRun

\* Every request under way was there before, or is new and has no answer yet.
LEMMA RequestsGrow ==
    ASSUME RequestsInOrder, UNCHANGED version, \A q \in requests' : q \in requests \/ Fresh(q)
    PROVE  RequestsInOrder'
  BY DEF RequestsInOrder, Fresh

LEMMA FittingPanel ==
    ASSUME view \in Views
    PROVE  PanelIsOfView <=> (replaying => panel.what = "timeline") /\ Fitting
<1>1. CASE view = "timeline"
  BY <1>1 DEF PanelIsOfView, Fitting, Fits
<1>2. CASE view = "policies"
  BY <1>2 DEF PanelIsOfView, Fitting, Fits
<1>3. CASE view = "graph"
  BY <1>3 DEF PanelIsOfView, Fitting, Fits
<1>4. CASE view = "comparison"
  BY <1>4 DEF PanelIsOfView, Fitting, Fits
<1> QED
  BY <1>1, <1>2, <1>3, <1>4 DEF Views

\* showView asks for nothing but a graph or a comparison of the open run, and leaves
\* a panel of the view, or an empty page as it was.
LEMMA ShowViewFacts ==
    ASSUME NEW v \in Views, NEW left, ShowView(v, left), open' \in Trace, baseline \in MaybeRun
    PROVE  /\ view' = v /\ replaying' = FALSE /\ baseline' \in MaybeRun
           /\ open'.run = NoRun => requests' = left /\ UNCHANGED <<panel, url>>
           /\ open'.run # NoRun =>
                 /\ url' = [run |-> open'.run, event |-> event', view |-> v]
                 /\ panel'.run = open'.run
                 /\ Fits(v, panel'.what) /\ panel'.what \notin {"empty", "comparison"}
                 /\ panel'.what = "graph" => graph' # NoTrace
           /\ \A q \in requests' : q \in left \/ (Fresh(q) /\ q.what \in {"graph", "compare"})
<1>1. view' = v /\ replaying' = FALSE
  BY DEF ShowView
<1>2. CASE open'.run = NoRun
  BY <1>1, <1>2 DEF ShowView
<1>3. CASE open'.run # NoRun
  <2>0. open'.run \in Runs /\ NoRun \in MaybeRun
    BY <1>3 DEF Trace, MaybeRun
  <2>1. url' = [run |-> open'.run, event |-> event', view |-> v]
    BY <1>1, <1>3 DEF ShowView, SyncUrl
  <2>2. CASE v \in {"timeline", "policies"}
    <3>1. Show(v) /\ requests' = left /\ UNCHANGED baseline
      BY <1>3, <2>2 DEF ShowView
    <3> QED
      BY <1>1, <1>3, <2>1, <2>2, <3>1 DEF Show, Fits
  <2>3. CASE v = "graph" /\ graph' # NoTrace
    <3>1. Show("graph") /\ requests' = left /\ UNCHANGED baseline
      BY <1>3, <2>3 DEF ShowView
    <3> QED
      BY <1>1, <1>3, <2>1, <2>3, <3>1 DEF Show, Fits
  <2>4. CASE v = "graph" /\ graph' = NoTrace
    <3>1. Show("loading") /\ Asking(left, {Request("graph", open'.run, NoRun, "")}) /\ UNCHANGED baseline
      BY <1>3, <2>4 DEF ShowView
    <3>2. Fresh(Request("graph", open'.run, NoRun, ""))
          /\ Request("graph", open'.run, NoRun, "").what = "graph"
      BY <2>0, ViewRequest
    <3>3. \A q \in requests' : q \in left \/ (Fresh(q) /\ q.what \in {"graph", "compare"})
      BY <3>1, <3>2 DEF Asking
    <3> QED
      BY <1>1, <1>3, <2>1, <2>4, <3>1, <3>3 DEF Show, Fits
  <2>5. CASE v = "comparison"
    <3> DEFINE candidates == Runs \ {open'.run}
    <3>1. /\ Show("shell")
          /\ baseline' \in IF baseline \in candidates THEN {baseline}
                           ELSE IF candidates = {} THEN {NoRun} ELSE candidates
          /\ Asking(left, {Request("compare", open'.run, b, "") : b \in {baseline'} \ {NoRun}})
      BY <1>3, <2>5 DEF ShowView
    <3>2. open'.run \in MaybeRun /\ baseline' \in MaybeRun
      BY <3>1 DEF Trace, MaybeRun
    <3>3. Fresh(Request("compare", open'.run, baseline', ""))
          /\ Request("compare", open'.run, baseline', "").what = "compare"
      BY <2>0, <3>2, ViewRequest
    <3>4. \A q \in requests' : q \in left \/ (Fresh(q) /\ q.what \in {"graph", "compare"})
      BY <3>1, <3>3 DEF Asking
    <3> QED
      BY <1>1, <1>3, <2>1, <2>5, <3>1, <3>2, <3>4 DEF Show, Fits
  <2> QED
    BY <2>2, <2>3, <2>4, <2>5 DEF Views
<1> QED
  BY <1>2, <1>3

LEMMA AnswerFacts ==
    ASSUME RequestsInOrder, NEW q, NEW what, Served(q, what)
    PROVE  /\ q \in requests /\ q.what = what
           /\ q.answer \in Trace /\ q.answer # NoTrace
           /\ q.run \in Runs /\ q.answer.run = q.run
           /\ q.answer.version \in Nat /\ q.answer.version <= version[q.run]
<1>1. q \in requests /\ q.what = what /\ q.answer # NoTrace
  BY DEF Served
<1>2. q \in Requested /\ q.answer.run = q.run /\ q.run # NoRun /\ q.answer.version <= version[q.run]
  BY <1>1 DEF RequestsInOrder
<1> QED
  BY <1>1, <1>2 DEF Requested, Trace, MaybeRun

-----------------------------------------------------------------------------
(* Steps of the requests.                                                  *)

\* Nothing but a run that is asked for, or arrives, changes what the page waits for.
LEMMA NewestStays ==
    ASSUME RequestsInOrder, NewestRun, UNCHANGED <<version, open>>,
           \A q \in requests' : q \in requests \/ (Fresh(q) /\ q.what # "run")
    PROVE  NewestRun'
  BY DEF NewestRun

LEMMA SelectRunStep ==
    ASSUME RequestsInOrder, NewestRun, UNCHANGED <<version, open>>,
           NEW r \in Runs, NEW keep, NEW left \in SUBSET requests, SelectRun(r, keep, left)
    PROVE  RequestsInOrder' /\ NewestRun'
<1> DEFINE new == Request("run", r, NoRun, IF keep THEN "keep" ELSE "")
<1>1. requests' = (left \cap Newest) \cup {new}
  BY DEF SelectRun, Asking
<1>2. Fresh(new)
  BY RunRequest
<1>3. RequestsInOrder'
  <2> HIDE DEF new
  <2> QED
    BY <1>1, <1>2, RequestsGrow
<1>4. \A q \in requests' : q.what = "run" => q = new
  <2> HIDE DEF new
  <2> QED
    BY <1>1 DEF Newest
<1>5. NewestRun'
  <2> HIDE DEF new
  <2> QED
    BY <1>2, <1>4 DEF NewestRun, Fresh
<1> QED
  BY <1>3, <1>5

LEMMA ServeStep ==
    ASSUME RecorderType, RequestsInOrder, NewestRun, NEW q, Serve(q)
    PROVE  RequestsInOrder' /\ NewestRun'
<1> DEFINE answer == [run |-> q.run, version |-> version[q.run], settled |-> settled[q.run]]
<1> DEFINE served == [q EXCEPT !.answer = answer]
<1>1. /\ q \in requests /\ q.run # NoRun /\ q.answer = NoTrace
      /\ requests' = (requests \ {q}) \cup {served}
      /\ UNCHANGED <<version, open>>
  BY DEF Serve, recorder, page
<1>2. q \in Requested /\ q.run \in Runs
  BY <1>1 DEF RequestsInOrder, Requested, MaybeRun
<1>3. version[q.run] \in Nat /\ settled[q.run] \in BOOLEAN
  BY <1>2 DEF RecorderType
<1>4. answer \in Trace /\ answer.run = q.run /\ answer.version = version[q.run]
  BY <1>2, <1>3 DEF Trace, MaybeRun
<1>5. /\ served \in Requested /\ served.what = q.what /\ served.run = q.run
      /\ served.answer.run = q.run /\ served.answer.version = version[q.run]
  <2> HIDE DEF answer
  <2> QED
    BY <1>2, <1>4 DEF Requested
<1> HIDE DEF served
<1>6. RequestsInOrder'
  BY <1>1, <1>3, <1>5 DEF RequestsInOrder
<1>7. /\ \A a, b \in requests' : a.what = "run" /\ b.what = "run" => a = b
      /\ \A a \in requests' : a.what = "run" /\ a.answer # NoTrace /\ a.run = open.run =>
              open.version <= a.answer.version
  BY <1>1, <1>2, <1>5 DEF NewestRun
<1> QED
  BY <1>1, <1>6, <1>7 DEF NewestRun

LEMMA ChangeStep ==
    ASSUME RecorderType, RequestsInOrder, NewestRun, PageType, NEW r \in Runs, Change(r)
    PROVE  RecorderType' /\ RequestsInOrder' /\ NewestRun'
<1>1. /\ version' = [version EXCEPT ![r] = @ + 1]
      /\ \E e \in BOOLEAN : settled' = [settled EXCEPT ![r] = e]
      /\ UNCHANGED <<requests, open>>
  BY DEF Change, loading, page
<1>2. RecorderType'
  BY <1>1 DEF RecorderType
<1>3. \A s \in Runs : version[s] \in Nat /\ version'[s] \in Nat /\ version'[s] >= version[s]
  BY <1>1 DEF RecorderType
<1>4. RequestsInOrder'
  <2> SUFFICES ASSUME NEW q \in requests, q.answer # NoTrace
               PROVE  q.answer.version <= version'[q.run]
    BY <1>1 DEF RequestsInOrder
  <2>1. q.run \in Runs /\ q.answer.version \in Nat /\ q.answer.version <= version[q.run]
    BY DEF RequestsInOrder, Requested, Trace, MaybeRun
  <2> QED
    BY <1>3, <2>1
<1>5. open.run # NoRun => open.version <= version'[open.run]
  <2> SUFFICES ASSUME open.run # NoRun
               PROVE  open.version <= version'[open.run]
    OBVIOUS
  <2>1. open.run \in Runs /\ open.version \in Nat /\ open.version <= version[open.run]
    BY DEF NewestRun, PageType, Trace, MaybeRun
  <2> QED
    BY <1>3, <2>1
<1> QED
  BY <1>1, <1>2, <1>4, <1>5 DEF NewestRun

-----------------------------------------------------------------------------
(* Steps of the page.                                                      *)

\* A request is sent or served, and the page stays, but for a replay that ends.
LEMMA PageStays ==
    ASSUME PageInOrder, UNCHANGED replaying \/ replaying' = FALSE,
           UNCHANGED <<open, graph, comparison, selection, view, baseline, panel, analysis, url>>
    PROVE  PageInOrder'
<1>1. PageType'
  BY DEF PageInOrder, PageType, selection
<1>2. PanelInOrder'
  BY DEF PageInOrder, PageType, PanelInOrder, Fitting
<1>3. PageIsOfOneRun'
  BY DEF PageInOrder, PageIsOfOneRun, selection
<1> QED
  BY <1>1, <1>2, <1>3 DEF PageInOrder

LEMMA GraphStep ==
    ASSUME RequestsInOrder, PageInOrder, NEW q, GraphArrives(q)
    PROVE  PageInOrder'
<1>1. /\ q.answer \in Trace /\ q.answer # NoTrace /\ q.run \in Runs /\ q.answer.run = q.run
  BY AnswerFacts DEF GraphArrives
<1>2. UNCHANGED <<open, comparison, event, edge, view, baseline, replaying, analysis, url>>
  BY DEF GraphArrives, selection
<1>3. CASE Wanted(q, "graph")
  <2>1. /\ graph' = q.answer /\ panel' = [what |-> "graph", run |-> q.run]
        /\ open.run = q.run /\ view = "graph" /\ open.run # NoRun
    BY <1>1, <1>3 DEF GraphArrives, Wanted
  <2>2. ~ replaying
    BY <2>1 DEF PageInOrder, PanelInOrder, Fitting, Fits
  <2>3. PageType'
    BY <1>1, <1>2, <2>1 DEF PageInOrder, PageType
  <2>4. PanelInOrder'
    BY <1>1, <1>2, <2>1, <2>2 DEF PageInOrder, PanelInOrder, Fitting, Fits
  <2>5. PageIsOfOneRun'
    BY <1>1, <1>2, <2>1 DEF PageInOrder, PageIsOfOneRun
  <2> QED
    BY <2>3, <2>4, <2>5 DEF PageInOrder
<1>4. CASE UNCHANGED <<graph, panel>>
  BY <1>2, <1>4, PageStays DEF selection
<1> QED
  BY <1>3, <1>4 DEF GraphArrives

LEMMA ComparisonStep ==
    ASSUME RequestsInOrder, PageInOrder, NEW q, ComparisonArrives(q)
    PROVE  PageInOrder'
<1>1. q.run \in Runs
  BY AnswerFacts DEF ComparisonArrives
<1>2. UNCHANGED <<open, graph, event, edge, view, baseline, replaying, analysis, url>>
  BY DEF ComparisonArrives, selection
<1>3. CASE Wanted(q, "comparison") /\ baseline = q.other
  <2>1. /\ comparison' = [run |-> q.run, baseline |-> q.other]
        /\ panel' = [what |-> "comparison", run |-> q.run]
        /\ open.run = q.run /\ view = "comparison" /\ open.run # NoRun
    BY <1>1, <1>3 DEF ComparisonArrives, Wanted
  <2>2. ~ replaying
    BY <2>1 DEF PageInOrder, PanelInOrder, Fitting, Fits
  <2>3. PageType'
    BY <1>1, <1>2, <2>1 DEF PageInOrder, PageType, MaybeRun
  <2>4. PanelInOrder'
    BY <1>1, <1>2, <2>1, <2>2 DEF PageInOrder, PanelInOrder, Fitting, Fits
  <2>5. PageIsOfOneRun'
    BY <1>1, <1>2, <2>1 DEF PageInOrder, PageIsOfOneRun
  <2> QED
    BY <2>3, <2>4, <2>5 DEF PageInOrder
<1>4. CASE UNCHANGED <<comparison, panel>>
  BY <1>2, <1>4, PageStays DEF selection
<1> QED
  BY <1>3, <1>4 DEF ComparisonArrives

LEMMA FailStep ==
    ASSUME RequestsInOrder, PageInOrder, NEW q, Fail(q)
    PROVE  PageInOrder'
<1>1. /\ UNCHANGED <<open, graph, comparison, event, edge, view, baseline, replaying, analysis, url>>
      /\ q \in requests
  BY DEF Fail, selection
<1>2. CASE q.what = "graph" /\ Wanted(q, "graph")
  <2>1. /\ panel' = [what |-> "unavailable", run |-> open.run]
        /\ view = "graph" /\ open.run # NoRun
    BY <1>1, <1>2 DEF Fail, Wanted, Show, RequestsInOrder
  <2>2. ~ replaying
    BY <2>1 DEF PageInOrder, PanelInOrder, Fitting, Fits
  <2>3. PageType'
    BY <1>1 DEF PageInOrder, PageType
  <2>4. PanelInOrder'
    BY <1>1, <2>1, <2>2 DEF PageInOrder, PanelInOrder, Fitting, Fits
  <2>5. PageIsOfOneRun'
    BY <1>1, <2>1 DEF PageInOrder, PageIsOfOneRun
  <2> QED
    BY <2>3, <2>4, <2>5 DEF PageInOrder
<1>3. CASE UNCHANGED panel
  BY <1>1, <1>3, PageStays DEF selection
<1> QED
  BY <1>2, <1>3 DEF Fail

\* The diagnosis is shown or hidden, or another baseline chosen.
LEMMA PanelStays ==
    ASSUME RequestsInOrder, PageInOrder,
           \/ CloseAnalysis
           \/ \E q \in requests : AnalysisArrives(q)
           \/ \E b \in Runs : Compare(b)
    PROVE  PageInOrder'
<1>1. UNCHANGED <<open, graph, comparison, event, edge, view, replaying, panel, url>>
  BY DEF CloseAnalysis, AnalysisArrives, Compare, selection
<1>2. baseline' \in MaybeRun /\ analysis' \in {analysis, NoRun, open.run}
  BY DEF CloseAnalysis, AnalysisArrives, Compare, MaybeRun, PageInOrder, PageType
<1>3. open.run \in MaybeRun /\ NoRun \in MaybeRun
  BY DEF PageInOrder, PageType, Trace, MaybeRun
<1>4. PageType'
  BY <1>1, <1>2, <1>3 DEF PageInOrder, PageType
<1>5. PanelInOrder'
  BY <1>1, <1>2 DEF PageInOrder, PanelInOrder, Fitting
<1>6. PageIsOfOneRun'
  BY <1>1, <1>2 DEF PageInOrder, PageIsOfOneRun
<1> QED
  BY <1>4, <1>5, <1>6 DEF PageInOrder

LEMMA SelectEventStep ==
    ASSUME PageInOrder, NEW r \in MaybeRun, NEW e \in MaybeRun, SelectEvent(r, e),
           open.run # NoRun, e \in {open.run, NoRun}, UNCHANGED replaying
    PROVE  PageInOrder'
<1>1. /\ UNCHANGED <<open, graph, comparison, view, baseline, analysis, replaying>>
      /\ event' = r /\ edge' = e
      /\ url' = [run |-> open.run, event |-> event', view |-> view]
      /\ panel' = IF view = "graph" /\ graph # NoTrace THEN [what |-> "graph", run |-> graph.run]
                  ELSE panel
  BY DEF SelectEvent, SyncUrl
<1>2. PageType'
  <2>1. url'.run = open.run /\ open.run \in MaybeRun
    BY <1>1 DEF PageInOrder, PageType, Trace
  <2> QED
    BY <1>1, <2>1 DEF PageInOrder, PageType
<1>3. view = "graph" => ~ replaying
  BY DEF PageInOrder, PanelInOrder, Fitting, Fits
<1>4. CASE view = "graph" /\ graph # NoTrace
  <2>1. panel' = [what |-> "graph", run |-> graph.run]
    BY <1>1, <1>4
  <2>2. PanelInOrder'
    BY <1>1, <1>3, <1>4, <2>1 DEF PageInOrder, PanelInOrder, Fitting, Fits
  <2>3. PageIsOfOneRun'
    BY <1>1, <2>1 DEF PageInOrder, PageIsOfOneRun
  <2> QED
    BY <1>2, <2>2, <2>3 DEF PageInOrder
<1>5. CASE panel' = panel
  <2>1. PanelInOrder'
    BY <1>1, <1>5 DEF PageInOrder, PanelInOrder, Fitting
  <2>2. PageIsOfOneRun'
    BY <1>1, <1>5 DEF PageInOrder, PageIsOfOneRun
  <2> QED
    BY <1>2, <2>1, <2>2 DEF PageInOrder
<1> QED
  BY <1>1, <1>4, <1>5

LEMMA SelectionStep ==
    ASSUME PageInOrder, ClickEvent \/ ClickEvidence \/ ClickEdge \/ CloseInspector
    PROVE  PageInOrder'
<1>1. /\ NoRun \in MaybeRun /\ open.run \in MaybeRun
      /\ panel.what # "empty" \/ analysis # NoRun => open.run # NoRun
      /\ open.run # NoRun => {panel.run, graph.run, analysis} \subseteq {open.run, NoRun}
  BY DEF PageInOrder, PageType, PanelInOrder, PageIsOfOneRun, Trace, MaybeRun
<1>2. CASE ClickEvent
  <2>1. panel.what # "empty" /\ SelectEvent(panel.run, NoRun) /\ UNCHANGED replaying
    BY <1>2 DEF ClickEvent
  <2>2. panel.run \in MaybeRun /\ open.run # NoRun
    BY <1>1, <2>1
  <2> QED
    BY <1>1, <2>1, <2>2, SelectEventStep
<1>3. CASE ClickEvidence
  BY <1>1, <1>3, SelectEventStep DEF ClickEvidence
<1>4. CASE ClickEdge
  BY <1>1, <1>4, SelectEventStep DEF ClickEdge
<1>5. CASE CloseInspector
  BY <1>1, <1>5, SelectEventStep DEF CloseInspector
<1> QED
  BY <1>2, <1>3, <1>4, <1>5

LEMMA ReplayingStep ==
    ASSUME PageInOrder, Replay \/ ReplayTick
    PROVE  PageInOrder'
<1>1. panel.what = "timeline" /\ ReplayStep /\ replaying' \in BOOLEAN
  BY DEF Replay, ReplayTick, PageInOrder, PanelInOrder
<1>2. /\ UNCHANGED <<open, graph, comparison, view, baseline, analysis>>
      /\ event' = open.run /\ edge' = NoRun
      /\ panel' = [what |-> "timeline", run |-> open.run]
      /\ url' = [run |-> open.run, event |-> event', view |-> view]
  BY <1>1 DEF ReplayStep, Show, SyncUrl
<1>3. open.run # NoRun /\ view = "timeline"
  BY <1>1 DEF PageInOrder, PageType, PanelInOrder, Fitting, Fits, Views
<1>4. PageType'
  BY <1>1, <1>2 DEF PageInOrder, PageType, Trace, MaybeRun
<1>5. PanelInOrder'
  BY <1>2, <1>3 DEF PageInOrder, PanelInOrder, Fitting, Fits
<1>6. PageIsOfOneRun'
  BY <1>2 DEF PageInOrder, PageIsOfOneRun
<1> QED
  BY <1>4, <1>5, <1>6 DEF PageInOrder

LEMMA ClickViewStep ==
    ASSUME PageInOrder, NEW v \in Views, ClickView(v)
    PROVE  PageInOrder'
<1>1. /\ UNCHANGED <<open, graph, comparison, event, edge, analysis>>
      /\ ShowView(v, requests) /\ open' \in Trace /\ baseline \in MaybeRun
  BY DEF ClickView, selection, PageInOrder, PageType
<1>2. /\ view' = v /\ replaying' = FALSE /\ baseline' \in MaybeRun
      /\ open.run = NoRun => UNCHANGED <<panel, url>>
      /\ open.run # NoRun =>
            /\ url' = [run |-> open'.run, event |-> event', view |-> v]
            /\ panel'.run = open.run
            /\ Fits(v, panel'.what) /\ panel'.what \notin {"empty", "comparison"}
            /\ panel'.what = "graph" => graph' # NoTrace
  BY <1>1, ShowViewFacts
<1>3. PageType'
  <2>1. url'.run \in MaybeRun
    <3>1. CASE open.run = NoRun
      BY <1>2, <3>1 DEF PageInOrder, PageType
    <3>2. CASE open.run # NoRun
      <4>1. url'.run = open'.run
        BY <1>2, <3>2
      <4> QED
        BY <1>1, <4>1 DEF Trace
    <3> QED
      BY <3>1, <3>2
  <2> QED
    BY <1>1, <1>2, <2>1 DEF PageInOrder, PageType
<1>4. PanelInOrder'
  BY <1>1, <1>2 DEF PageInOrder, PanelInOrder, Fitting
<1>5. PageIsOfOneRun'
  BY <1>1, <1>2 DEF PageInOrder, PageIsOfOneRun
<1> QED
  BY <1>3, <1>4, <1>5 DEF PageInOrder

\* A run arrives, and everything of the last one leaves the page.
LEMMA RunArrivesStep ==
    ASSUME RequestsInOrder, NewestRun, PageInOrder, UNCHANGED version, NEW q, RunArrives(q)
    PROVE  RequestsInOrder' /\ NewestRun' /\ PageInOrder'
<1>1. /\ q \in requests /\ q.what = "run"
      /\ q.answer \in Trace /\ q.answer # NoTrace
      /\ q.run \in Runs /\ q.answer.run = q.run
      /\ q.answer.version \in Nat /\ q.answer.version <= version[q.run]
  BY AnswerFacts DEF RunArrives
<1>2. /\ open' = q.answer /\ graph' = NoTrace
      /\ comparison' = [run |-> NoRun, baseline |-> NoRun]
      /\ edge' = NoRun /\ event' \in {event, NoRun} /\ analysis' = NoRun
      /\ ShowView(view, requests \ {q})
  BY DEF RunArrives
<1>3. open' \in Trace /\ open'.run # NoRun /\ view \in Views /\ baseline \in MaybeRun
  BY <1>1, <1>2 DEF PageInOrder, PageType
<1>4. /\ view' = view /\ replaying' = FALSE /\ baseline' \in MaybeRun
      /\ url' = [run |-> open'.run, event |-> event', view |-> view]
      /\ panel'.run = open'.run
      /\ Fits(view, panel'.what) /\ panel'.what \notin {"empty", "comparison"}
      /\ panel'.what = "graph" => graph' # NoTrace
      /\ \A p \in requests' :
            p \in requests \ {q} \/ (Fresh(p) /\ p.what \in {"graph", "compare"})
  BY <1>2, <1>3, ShowViewFacts
<1>5. RequestsInOrder'
  BY <1>4, RequestsGrow
<1>6. \A p \in requests' : p.what # "run"
  BY <1>1, <1>4 DEF NewestRun
<1>7. NewestRun'
  BY <1>1, <1>2, <1>6 DEF NewestRun
<1>8. PageType'
  <2>1. url'.run = open'.run /\ open'.run \in MaybeRun
    BY <1>3, <1>4 DEF Trace
  <2>2. event' \in MaybeRun /\ edge' \in MaybeRun /\ analysis' \in MaybeRun
    BY <1>2 DEF PageInOrder, PageType, MaybeRun
  <2>3. comparison'.run \in MaybeRun
    BY <1>2 DEF MaybeRun
  <2> QED
    BY <1>2, <1>3, <1>4, <2>1, <2>2, <2>3, NoTraceFacts DEF PageType
<1>9. PanelInOrder'
  BY <1>2, <1>3, <1>4 DEF PanelInOrder, Fitting
<1>10. PageIsOfOneRun'
  BY <1>2, <1>3, <1>4, NoTraceFacts DEF PageIsOfOneRun
<1> QED
  BY <1>5, <1>7, <1>8, <1>9, <1>10 DEF PageInOrder

\* The list arrives, and the run in the URL, the first one, or the open one is asked for.
LEMMA ListStep ==
    ASSUME RequestsInOrder, NewestRun, PageInOrder, UNCHANGED version, NEW q, ListArrives(q)
    PROVE  RequestsInOrder' /\ NewestRun' /\ PageInOrder'
<1>1. /\ UNCHANGED <<open, graph, comparison, selection, view, baseline, panel, analysis, url>>
      /\ \/ url.run # NoRun /\ SelectRun(url.run, TRUE, requests \ {q})
         \/ \E r \in Runs : SelectRun(r, FALSE, requests \ {q})
         \/ open.run # NoRun /\ SelectRun(open.run, TRUE, requests \ {q})
         \/ requests' = requests \ {q} /\ UNCHANGED replaying
  BY DEF ListArrives
<1>2. CASE \E r \in Runs, keep \in BOOLEAN : SelectRun(r, keep, requests \ {q})
  <2>1. PICK r \in Runs, keep \in BOOLEAN : SelectRun(r, keep, requests \ {q})
    BY <1>2
  <2>2. RequestsInOrder' /\ NewestRun'
    BY <1>1, <2>1, SelectRunStep
  <2>3. replaying' = FALSE
    BY <2>1 DEF SelectRun
  <2> QED
    BY <1>1, <2>2, <2>3, PageStays
<1>3. CASE requests' = requests \ {q} /\ UNCHANGED replaying
  BY <1>1, <1>3, RequestsGrow, NewestStays, PageStays
<1>4. open.run # NoRun => open.run \in Runs
  BY DEF PageInOrder, PageType, Trace, MaybeRun
<1>5. url.run # NoRun => url.run \in Runs
  BY DEF PageInOrder, PageType, MaybeRun
<1> QED
  BY <1>1, <1>2, <1>3, <1>4, <1>5

-----------------------------------------------------------------------------

LEMMA IInvInit == Init => IInv
<1> SUFFICES ASSUME Init
             PROVE  IInv
  OBVIOUS
<1>1. requests = {Request("runs", NoRun, NoRun, "first")} /\ open = NoTrace /\ graph = NoTrace
  BY DEF Init
<1>2. RecorderType
  BY DEF Init, RecorderType
<1>3. Fresh(Request("runs", NoRun, NoRun, "first"))
      /\ Request("runs", NoRun, NoRun, "first").what = "runs"
  BY ListRequest
<1>4. RequestsInOrder
  BY <1>1, <1>3 DEF RequestsInOrder, Fresh
<1>5. NewestRun
  BY <1>1, <1>3, NoTraceFacts DEF NewestRun
<1>6. PageType
  <2>1. url.run \in MaybeRun /\ event \in MaybeRun
    BY DEF Init, MaybeRun
  <2> QED
    BY <2>1, NoTraceFacts DEF Init, PageType, MaybeRun
<1>7. PanelInOrder /\ PageIsOfOneRun
  BY NoTraceFacts DEF Init, PanelInOrder, Fitting, PageIsOfOneRun
<1> QED
  BY <1>2, <1>4, <1>5, <1>6, <1>7 DEF IInv, PageInOrder

\* Steps that send requests, or take them away, and leave the run on the page.
LEMMA AskingStep ==
    ASSUME IInv, UNCHANGED <<recorder, open>>,
           \A q \in requests' : q \in requests \/ (Fresh(q) /\ q.what # "run"),
           PageInOrder'
    PROVE  IInv'
<1>1. RecorderType'
  BY DEF IInv, RecorderType, recorder
<1>2. RequestsInOrder' /\ NewestRun'
  BY RequestsGrow, NewestStays DEF IInv, recorder
<1> QED
  BY <1>1, <1>2 DEF IInv

LEMMA ClicksStep ==
    ASSUME IInv, Clicks
    PROVE  IInv'
<1>0. open.run \in MaybeRun /\ (open.run # NoRun => open.run \in Runs)
      /\ (panel.what # "empty" => open.run # NoRun)
  BY DEF IInv, PageInOrder, PageType, PanelInOrder, Trace, MaybeRun
<1>1. ASSUME NEW r \in Runs, ClickRun(r)
      PROVE  IInv'
  <2>1. /\ UNCHANGED <<recorder, open, graph, comparison, selection, view, baseline, panel,
                       analysis, url>>
        /\ SelectRun(r, FALSE, requests) /\ replaying' = FALSE
    BY <1>1 DEF ClickRun, SelectRun
  <2>2. RequestsInOrder' /\ NewestRun'
    BY <2>1, SelectRunStep DEF IInv, recorder
  <2> QED
    BY <2>1, <2>2, PageStays DEF IInv, RecorderType, recorder
<1>2. ASSUME NEW b \in Runs, Compare(b)
      PROVE  IInv'
  <2>1. /\ UNCHANGED <<recorder, open>>
        /\ requests' = requests \cup {Request("compare", open.run, b, "")}
        /\ open.run \in Runs /\ b \in MaybeRun
    BY <1>0, <1>2 DEF Compare, Asking, MaybeRun
  <2>2. PageInOrder'
    BY <1>2, PanelStays DEF IInv
  <2>3. Fresh(Request("compare", open.run, b, "")) /\ Request("compare", open.run, b, "").what = "compare"
    BY <2>1, ViewRequest
  <2> QED
    BY <2>1, <2>2, <2>3, AskingStep
<1>3. ASSUME NEW v \in Views, ClickView(v)
      PROVE  IInv'
  <2>1. UNCHANGED <<recorder, open>> /\ ShowView(v, requests)
    BY <1>3 DEF ClickView
  <2>2. \A q \in requests' : q \in requests \/ (Fresh(q) /\ q.what \in {"graph", "compare"})
    BY <2>1, ShowViewFacts DEF IInv, PageInOrder, PageType
  <2>3. PageInOrder'
    BY <1>3, ClickViewStep DEF IInv
  <2> QED
    BY <2>1, <2>2, <2>3, AskingStep
<1>4. CASE ClickEvent \/ ClickEvidence \/ ClickEdge \/ CloseInspector
  <2>1. UNCHANGED <<recorder, open, requests>>
    BY <1>4 DEF ClickEvent, ClickEvidence, ClickEdge, CloseInspector, SelectEvent, loading
  <2> QED
    BY <1>4, <2>1, SelectionStep, AskingStep DEF IInv
<1>5. CASE Analyze
  <2>1. /\ UNCHANGED <<recorder, page>>
        /\ requests' = requests \cup {Request("analysis", open.run, NoRun, "")}
        /\ open.run \in Runs /\ NoRun \in MaybeRun
    BY <1>0, <1>5 DEF Analyze, Asking, MaybeRun
  <2>2. PageInOrder'
    BY <2>1, PageStays DEF IInv, page
  <2>3. Fresh(Request("analysis", open.run, NoRun, ""))
        /\ Request("analysis", open.run, NoRun, "").what = "analysis"
    BY <2>1, ViewRequest
  <2> QED
    BY <2>1, <2>2, <2>3, AskingStep DEF page
<1>6. CASE CloseAnalysis
  <2>1. UNCHANGED <<recorder, open, requests>>
    BY <1>6 DEF CloseAnalysis, loading
  <2> QED
    BY <1>6, <2>1, PanelStays, AskingStep DEF IInv
<1>7. CASE Replay
  <2>1. UNCHANGED <<recorder, open, requests>>
    BY <1>7 DEF Replay, ReplayStep, loading
  <2> QED
    BY <1>7, <2>1, ReplayingStep, AskingStep DEF IInv
<1> QED
  BY <1>1, <1>2, <1>3, <1>4, <1>5, <1>6, <1>7 DEF Clicks

LEMMA ArrivalsStep ==
    ASSUME IInv, Arrivals
    PROVE  IInv'
<1> PICK q \in requests :
        \/ ListArrives(q) \/ RunArrives(q) \/ GraphArrives(q) \/ ComparisonArrives(q)
        \/ AnalysisArrives(q) \/ Fail(q)
  BY DEF Arrivals
<1>1. UNCHANGED recorder
  BY DEF ListArrives, RunArrives, GraphArrives, ComparisonArrives, AnalysisArrives, Fail
<1>2. RecorderType' /\ UNCHANGED version
  BY <1>1 DEF IInv, RecorderType, recorder
<1>3. CASE ListArrives(q)
  BY <1>2, <1>3, ListStep DEF IInv
<1>4. CASE RunArrives(q)
  BY <1>2, <1>4, RunArrivesStep DEF IInv
<1>5. CASE GraphArrives(q)
  <2>1. UNCHANGED open /\ requests' = requests \ {q}
    BY <1>5 DEF GraphArrives
  <2> QED
    BY <1>1, <1>5, <2>1, GraphStep, AskingStep DEF IInv
<1>6. CASE ComparisonArrives(q)
  <2>1. UNCHANGED open /\ requests' = requests \ {q}
    BY <1>6 DEF ComparisonArrives
  <2> QED
    BY <1>1, <1>6, <2>1, ComparisonStep, AskingStep DEF IInv
<1>7. CASE AnalysisArrives(q)
  <2>1. UNCHANGED open /\ requests' = requests \ {q}
    BY <1>7 DEF AnalysisArrives
  <2> QED
    BY <1>1, <1>7, <2>1, PanelStays, AskingStep DEF IInv
<1>8. CASE Fail(q)
  <2>1. UNCHANGED open /\ requests' = requests \ {q}
    BY <1>8 DEF Fail
  <2> QED
    BY <1>1, <1>8, <2>1, FailStep, AskingStep DEF IInv
<1> QED
  BY <1>3, <1>4, <1>5, <1>6, <1>7, <1>8

LEMMA IInvStep == IInv /\ [Next]_vars => IInv'
<1> SUFFICES ASSUME IInv, [Next]_vars
             PROVE  IInv'
  OBVIOUS
<1>1. CASE UNCHANGED vars
  <2>1. UNCHANGED <<recorder, open, requests, page>>
    BY <1>1 DEF vars, loading, page
  <2>2. PageInOrder'
    BY <2>1, PageStays DEF IInv, page
  <2> QED
    BY <2>1, <2>2, AskingStep
<1>2. CASE Clicks
  BY <1>2, ClicksStep
<1>3. CASE Arrivals
  BY <1>3, ArrivalsStep
<1>4. ASSUME NEW force \in BOOLEAN, Refresh(force)
      PROVE  IInv'
  <2> DEFINE new == Request("runs", NoRun, NoRun, IF force THEN "force" ELSE "")
  <2>1. UNCHANGED <<recorder, page>> /\ requests' = requests \cup {new}
    BY <1>4 DEF Refresh, Asking
  <2>2. Fresh(new) /\ new.what = "runs"
    BY ListRequest
  <2> HIDE DEF new
  <2>3. PageInOrder'
    BY <2>1, PageStays DEF IInv, page
  <2> QED
    BY <2>1, <2>2, <2>3, AskingStep DEF page
<1>5. CASE ReplayTick
  <2>1. UNCHANGED <<recorder, open, requests>>
    BY <1>5 DEF ReplayTick, ReplayStep, loading
  <2> QED
    BY <1>5, <2>1, ReplayingStep, AskingStep DEF IInv
<1>6. ASSUME NEW r \in Runs, Change(r)
      PROVE  IInv'
  <2>1. UNCHANGED page
    BY <1>6 DEF Change
  <2>2. PageInOrder'
    BY <2>1, PageStays DEF IInv, page
  <2> QED
    BY <1>6, <2>2, ChangeStep DEF IInv, PageInOrder
<1>7. ASSUME NEW q \in requests, Serve(q)
      PROVE  IInv'
  <2>1. UNCHANGED <<recorder, page>>
    BY <1>7 DEF Serve
  <2>2. PageInOrder' /\ RecorderType'
    BY <2>1, PageStays DEF IInv, page, recorder, RecorderType
  <2> QED
    BY <1>7, <2>2, ServeStep DEF IInv
<1> QED
  BY <1>1, <1>2, <1>3, <1>4, <1>5, <1>6, <1>7 DEF Next

LEMMA Inductive == Spec => []IInv
<1> QED
  BY IInvInit, IInvStep, PTL DEF Spec

-----------------------------------------------------------------------------
(* The theorems.                                                           *)

\* The page keeps its types, and has what it shows.
THEOREM TypeCorrect == Spec => []TypeOK
<1>1. IInv => TypeOK
  BY DEF IInv, RecorderType, PageInOrder, PageType, PanelInOrder, TypeOK, Trace
<1> QED
  BY <1>1, Inductive, PTL

\* Whatever arrives late, the whole page is of the run in its heading.
THEOREM PagesAreOfOneRun == Spec => []PageIsOfOneRun
<1>1. IInv => PageIsOfOneRun
  BY DEF IInv, PageInOrder
<1> QED
  BY <1>1, Inductive, PTL

\* The panel is one of the selected view, and only the timeline is replayed.
THEOREM PanelsAreOfView == Spec => []PanelIsOfView
<1>1. IInv => PanelIsOfView
  BY FittingPanel DEF IInv, PageInOrder, PageType, PanelInOrder
<1> QED
  BY <1>1, Inductive, PTL

\* However answers overtake each other, the trace on the page does not go back.
THEOREM TracesNeverGoBack == Spec => TraceNeverGoesBack
<1>1. ASSUME IInv, Next, open.run # NoRun, open'.run = open.run
      PROVE  open'.version >= open.version
  <2>0. open.version \in Nat
    BY <1>1 DEF IInv, PageInOrder, PageType, Trace
  <2>1. ASSUME NEW q \in requests, RunArrives(q)
        PROVE  open'.version >= open.version
    <3>1. /\ q.what = "run" /\ q.answer # NoTrace /\ q.answer.run = q.run
          /\ q.answer.version \in Nat /\ open' = q.answer
      BY <1>1, <2>1, AnswerFacts DEF IInv, RunArrives
    <3> QED
      BY <1>1, <2>0, <3>1 DEF IInv, NewestRun
  <2>2. CASE ~ \E q \in requests : RunArrives(q)
    <3>1. UNCHANGED open
      <4>1. CASE Clicks
        BY <4>1 DEF Clicks, ClickRun, Compare, ClickView, ClickEvent, ClickEvidence, ClickEdge,
                    CloseInspector, SelectEvent, Analyze, CloseAnalysis, Replay, ReplayStep, page
      <4>2. CASE Arrivals
        BY <2>2, <4>2 DEF Arrivals, ListArrives, GraphArrives, ComparisonArrives,
                          AnalysisArrives, Fail
      <4>3. CASE \/ \E force \in BOOLEAN : Refresh(force)
                 \/ ReplayTick
                 \/ \E r \in Runs : Change(r)
                 \/ \E q \in requests : Serve(q)
        BY <4>3 DEF Refresh, ReplayTick, ReplayStep, Change, Serve, page
      <4> QED
        BY <1>1, <4>1, <4>2, <4>3 DEF Next
    <3> QED
      BY <2>0, <3>1
  <2> QED
    BY <2>1, <2>2
<1>2. IInv /\ [Next]_vars =>
         [open.run # NoRun /\ open'.run = open.run => open'.version >= open.version]_vars
  BY <1>1
<1> QED
  BY <1>2, Inductive, PTL DEF Spec, TraceNeverGoesBack
=============================================================================
