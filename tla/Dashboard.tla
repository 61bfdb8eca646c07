----------------------------- MODULE Dashboard -----------------------------
(***************************************************************************)
(* What the dashboard and the statistics of the API make of the table      *)
(* (internal/dashboard, internal/api/handler.go): the aggregations, the    *)
(* page, the fragments that the subscriber renders and broadcasts, and the *)
(* browser tab that shows them.  The table changes between any two of the  *)
(* statements; an event may be lost, a statement may fail, a connection    *)
(* may break.  The hub is a bounded channel here; Hub opens it up.         *)
(***************************************************************************)
EXTENDS Reports, Statistics

CONSTANTS ListLimit,     \* 50
          DLQLimit,      \* 100
          Pages,         \* the values of ?page=, 0 for none
          Cap,           \* 256
          MaxUpsets      \* bound on failed and cut statements, broken
                         \* connections and filtered lists together

ASSUME ListAssumption == ListLimit \in Nat \ {0} /\ DLQLimit \in Nat

VARIABLES event,         \* messages in the subscriber's channel
          render,        \* the three that query for the tab
          wire,          \* broadcasts on their way to the tab
          linked,        \* the hub knows the tab
          view,          \* the fragments the tab shows
          upsets         \* how many of those there were

tabVars == <<event, render, wire, linked, view, upsets>>
vars == <<tableVars, walk, tabVars>>

\* Mutant: a multiple of the limit has one page too many.
HandlerPagesOver(total) == IF total > ListLimit THEN total \div ListLimit + 1 ELSE 1

\* The three computations of the number of pages: TotalPages is the one of the
\* API, which is 0 for an empty list.
FragmentPages(total) == IF TotalPages(total, ListLimit) < 1 THEN 1 ELSE TotalPages(total, ListLimit)
HandlerPages(total) == IF total > ListLimit THEN (total + ListLimit - 1) \div ListLimit ELSE 1

----------------------------------------------------------------------------
(* What a tab should show of a table, stated without the code's loops.     *)
Newest(ids, n) == {i \in ids : Cardinality({j \in ids : j >= i}) <= n}

Rows(table, ids) == [i \in ids |-> <<table[i].queue, table[i].status>>]

PagesFor(total) ==
  CHOOSE n \in 1 .. total + 1 : n * ListLimit >= total /\ (n > 1 => (n - 1) * ListLimit < total)

\* The first page of all jobs, with a total that was counted before.
ShownList(table, total) ==
  [rows |-> Rows(table, Newest(DOMAIN table, ListLimit)), total |-> total, pages |-> PagesFor(total)]

Shown(table, time) ==
  [stats |-> StatusCounts(table),
   jobs |-> ShownList(table, Cardinality(DOMAIN table)),
   dlq |-> Rows(table, Newest({i \in DOMAIN table : table[i].status = "dead"}, DLQLimit)),
   chart |-> ChartOf(table, time)]

----------------------------------------------------------------------------
(* Rendering: the subscriber for the feed, DashboardPageHandler for the    *)
(* page and JobListHandler for the list.  Each goes through its statements *)
(* one by one and collects fragments; step 0 is before the first.          *)
Steps == [feed |-> <<"stats", "count", "jobs", "dlq", "chart">>,
          page |-> <<"count", "jobs", "dlq", "stats", "chart">>,
          list |-> <<"count", "jobs">>]

Idle == [step |-> 0, filter |-> <<>>, page |-> 1, total |-> 0, html |-> <<>>]
Begun(filter, page) == [Idle EXCEPT !.step = 1, !.filter = filter, !.page = page]

Busy(r) == render[r].step \in 1 .. Len(Steps[r])
Rendered(r) == render[r].step = Len(Steps[r]) + 1
Step(r) == Steps[r][render[r].step]

\* allHTML with one more fragment.
With(html, fragment, content) ==
  [f \in DOMAIN html \cup {fragment} |-> IF f = fragment THEN content ELSE html[f]]

DeadFilter == [status |-> "dead"]

ListPage(r) == SelectJobs(jobs, render[r].filter, render[r].page, ListLimit)
DLQPage == SelectJobs(jobs, DeadFilter, 1, DLQLimit)

\* A page of the list, with the total of the statement before.
JobList(r, ids) ==
  [rows |-> Rows(jobs, ids),
   total |-> render[r].total,
   pages |-> IF r = "page" THEN HandlerPages(render[r].total) ELSE FragmentPages(render[r].total)]

Collect(r, fragment, content) ==
  render' = [render EXCEPT ![r].step = @ + 1, ![r].html = With(@, fragment, content)]

RenderStatsFragment(r) ==
  /\ Step(r) = "stats"
  /\ \E stats \in GetQueueStats(jobs) : Collect(r, "stats", Totals(stats))

\* ListJobs: the COUNT, then the SELECT.
RenderJobListFragment(r) ==
  \/ /\ Step(r) = "count"
     /\ render' = [render EXCEPT ![r].step = @ + 1, ![r].total = CountJobs(jobs, render[r].filter)]
  \/ Step(r) = "jobs" /\ Collect(r, "jobs", JobList(r, ListPage(r)))

RenderDLQFragment(r) == Step(r) = "dlq" /\ Collect(r, "dlq", Rows(jobs, DLQPage))

RenderChartDataFragment(r) ==
  /\ Step(r) = "chart"
  /\ \E stats \in GetTimeSeries(jobs, now) : Collect(r, "chart", buildChartData(stats))

Render(r) ==
  /\ Busy(r)
  /\ \/ RenderStatsFragment(r) \/ RenderJobListFragment(r)
     \/ RenderDLQFragment(r) \/ RenderChartDataFragment(r)
  /\ UNCHANGED <<event, wire, linked, view, upsets>>

\* Rows that could not be read are missing, and nothing says so; GetTimeSeries
\* alone looks at rows.Err and fails.
RenderCut(r) ==
  /\ Busy(r) /\ upsets < MaxUpsets
  /\ upsets' = upsets + 1
  /\ \/ /\ Step(r) = "stats"
        /\ \E stats \in GetQueueStats(jobs) : \E n \in 0 .. Len(stats) - 1 :
             Collect(r, "stats", Totals(SubSeq(stats, 1, n)))
     \/ /\ Step(r) = "jobs"
        /\ \E ids \in Cut(ListPage(r)) : Collect(r, "jobs", JobList(r, ids))
     \/ /\ Step(r) = "dlq"
        /\ \E ids \in Cut(DLQPage) : Collect(r, "dlq", Rows(jobs, ids))
  /\ UNCHANGED <<event, wire, linked, view>>

\* What the page shows in the place of what it could not read.
Missing == [stats |-> NoCounts, jobs |-> [rows |-> <<>>, total |-> 0, pages |-> 1],
            dlq |-> <<>>, chart |-> EmptyChart]

\* A statement fails: the feed goes on without the fragment, the page with an
\* empty one, the list not at all.
RenderFails(r) ==
  /\ Busy(r) /\ upsets < MaxUpsets
  /\ upsets' = upsets + 1
  /\ LET fragment == IF Step(r) = "count" THEN "jobs" ELSE Step(r)
         after == render[r].step + (IF Step(r) = "count" THEN 2 ELSE 1)
         html == With(render[r].html, fragment, Missing[fragment])
     IN  render' = [render EXCEPT ![r] =
           CASE r = "feed" -> [@ EXCEPT !.step = after]
             [] r = "page" -> [@ EXCEPT !.step = after, !.html = html]
             [] OTHER -> Idle]
  /\ UNCHANGED <<event, wire, linked, view>>

----------------------------------------------------------------------------
(* The subscriber.                                                         *)
ReceiveEvent ==
  /\ render["feed"].step = 0 /\ event > 0
  /\ event' = event - 1
  /\ render' = [render EXCEPT !["feed"] = Begun(<<>>, 1)]
  /\ UNCHANGED <<wire, linked, view, upsets>>

\* Mutant: the ticker refreshes everything but the statistics.
TickerFiresPartly ==
  /\ render["feed"].step = 0
  /\ render' = [render EXCEPT !["feed"] = [Begun(<<>>, 1) EXCEPT !.step = 2]]
  /\ UNCHANGED <<event, wire, linked, view, upsets>>

TickerFires ==
  /\ render["feed"].step = 0
  /\ render' = [render EXCEPT !["feed"] = Begun(<<>>, 1)]
  /\ UNCHANGED <<event, wire, linked, view, upsets>>

\* The hub drops a client whose channel is full; what is in the channel still
\* reaches it.
Broadcast ==
  /\ Rendered("feed")
  /\ LET html == render["feed"].html
         sent == linked /\ DOMAIN html # {}
     IN  /\ wire' = IF sent /\ Len(wire) < Cap THEN Append(wire, html) ELSE wire
         /\ linked' = (linked /\ ~(sent /\ Len(wire) = Cap))
  /\ render' = [render EXCEPT !["feed"] = Idle]
  /\ UNCHANGED <<event, view, upsets>>

----------------------------------------------------------------------------
(* The tab.  A fragment replaces the one with its id.                      *)
Swap(html) == [f \in DOMAIN html \cup DOMAIN view |-> IF f \in DOMAIN html THEN html[f] ELSE view[f]]

Loaded == DOMAIN view # {}

PageShown ==
  /\ Rendered("page")
  /\ view' = render["page"].html
  /\ render' = [render EXCEPT !["page"] = Idle]
  /\ UNCHANGED <<event, wire, linked, upsets>>

\* ws-connect, again after a connection has ended.
Connect ==
  /\ Loaded /\ ~linked /\ wire = <<>>
  /\ linked' = TRUE
  /\ UNCHANGED <<event, render, wire, view, upsets>>

Receive ==
  /\ wire # <<>>
  /\ view' = Swap(Head(wire))
  /\ wire' = Tail(wire)
  /\ UNCHANGED <<event, render, linked, upsets>>

ConnectionBreaks ==
  /\ linked /\ upsets < MaxUpsets
  /\ upsets' = upsets + 1
  /\ linked' = FALSE /\ wire' = <<>>
  /\ UNCHANGED <<event, render, view>>

AskList(filter, page) ==
  /\ Loaded /\ render["list"].step = 0 /\ upsets < MaxUpsets
  /\ upsets' = upsets + 1
  /\ render' = [render EXCEPT !["list"] = Begun(filter, ClampPage(page))]
  /\ UNCHANGED <<event, wire, linked, view>>

ListShown ==
  /\ Rendered("list")
  /\ view' = Swap(render["list"].html)
  /\ render' = [render EXCEPT !["list"] = Idle]
  /\ UNCHANGED <<event, wire, linked, upsets>>

----------------------------------------------------------------------------
Init ==
  /\ TableInit
  /\ event = 0 /\ wire = <<>> /\ linked = FALSE /\ view = <<>>
  /\ render = [feed |-> Idle, page |-> Begun(<<>>, 1), list |-> Idle]
  /\ upsets = 0

\* It follows most writes, and the message may not arrive.
PublishJobEvent == event' \in IF reader = "tab" THEN {event, event + 1} ELSE {event}

Write ==
  /\ TableNext /\ PublishJobEvent
  /\ UNCHANGED <<render, wire, linked, view, upsets>>

FeedStep == ReceiveEvent \/ TickerFires \/ Render("feed") \/ Broadcast
PageStep == Render("page") \/ PageShown
ListStep == Render("list") \/ ListShown
TabStep == Connect \/ Receive

\* The steps for a tab matter to nobody else.
TabNext ==
  \/ FeedStep \/ PageStep \/ ListStep \/ TabStep
  \/ \E r \in DOMAIN Steps : RenderFails(r) \/ RenderCut(r)
  \/ ConnectionBreaks
  \/ \E f \in Filters, p \in Pages : AskList(f, p)

Next ==
  \/ Write
  \/ Tick /\ UNCHANGED tabVars
  \/ reader = "api" /\ WalkNext /\ UNCHANGED tabVars
  \/ reader = "tab" /\ TabNext /\ UNCHANGED <<tableVars, walk>>

Spec == Init /\ [][Next]_vars

ForTab(A) == reader = "tab" /\ A /\ UNCHANGED <<tableVars, walk>>

\* Goroutines and the browser run on; the ticker fires for ever.
Fairness ==
  /\ WF_vars(ForTab(FeedStep)) /\ WF_vars(ForTab(PageStep))
  /\ WF_vars(ForTab(ListStep)) /\ WF_vars(ForTab(TabStep))

LiveSpec == Spec /\ Fairness

----------------------------------------------------------------------------
(* The statistics of GetStats, GetQueues and GetQueueByName are the counts *)
(* of the table, whatever order the database returns the groups in.        *)
StatsExact ==
  /\ \A stats \in GetQueueStats(jobs) :
       /\ Totals(stats) = StatusCounts(jobs)
       /\ GetQueues(stats) = [q \in {jobs[i].queue : i \in DOMAIN jobs} |-> QueueStatusCounts(jobs, q)]
  /\ \A q \in {row.queue : row \in NewRows} : \A stats \in GetQueueStatsByName(jobs, q) :
       GetQueueByName(stats) = QueueStatusCounts(jobs, q)

(* buildChartData has one point for each minute of the last hour in which  *)
(* a job ended, in their order, with the counts of that minute: the labels *)
(* "15:04" of the up to 61 minutes that an hour touches do not collide.    *)
ChartExact == \A stats \in GetTimeSeries(jobs, now) : buildChartData(stats) = ChartOf(jobs, now)

(* What the subscriber and the page render of a statement is, at that very *)
(* instant, what the tab should show of the table: the sums and the chart, *)
(* the newest jobs and the newest dead ones.  The list's number of pages   *)
(* is the one its total asks for, though the total may be of an earlier    *)
(* instant, and both ways of computing it agree.                           *)
RenderExact ==
  [][\A r \in {"feed", "page"} : Render(r) /\ Step(r) # "count" =>
       render'[r].html[Step(r)] = [Shown(jobs, now) EXCEPT !.jobs = ShownList(jobs, render[r].total)][Step(r)]
    ]_vars

(* The tab shows the table again and again, in every fragment (the comment *)
(* of StartSubscriber: a full refresh every five seconds against lost      *)
(* messages), whatever messages were lost, statements failed or were cut,  *)
(* connections broke and filtered lists arrived late.  Once the writes     *)
(* stop, it is what the tab shows.                                         *)
Fresh == []<>(reader = "tab" => view = Shown(jobs, now))
=============================================================================
