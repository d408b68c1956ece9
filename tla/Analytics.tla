-------------------------------- MODULE Analytics --------------------------------
(***************************************************************************)
(* Analytics (services/analytics.py, api/v1/analytics.py), as one session  *)
(* sees it: events and the hourly snapshots made of them, the dashboards   *)
(* and reports that query the snapshots.  Time counts half hours; the      *)
(* window of a dashboard or a report covers all of it.                     *)
(***************************************************************************)
EXTENDS TenantRows, Integers

CONSTANTS
    EventNames, Visitors,
    MaxEvents, MaxTime, MaxDashboards, MaxReports   \* bounds

ASSUME AnalyticsAssumption ==
    {MaxEvents, MaxTime, MaxDashboards, MaxReports} \subseteq Nat

VARIABLES
    events,         \* rows of analytics_events
    snapshots,      \* rows of metric_snapshots
    dashboards,     \* rows of dashboards, each with one widget
    reports         \* rows of scheduled_reports

analyticsVars == <<events, snapshots, dashboards, reports>>

Time == 0 .. MaxTime
Anonymous == "anonymous"
AnalyticsEvent == [tenant : Tenants, name : EventNames, time : Time,
                   user : Visitors \cup {Anonymous}, processed : BOOLEAN]
MetricSnapshot == [tenant : Tenants, name : EventNames, time : Time]

\* A row that has been deleted is gone; its number is not used again.
Dashboard == [tenant : Tenants, deleted : BOOLEAN, metric : EventNames,
              data : -1 .. MaxEvents]   \* of the widget, in the row; -1: none
ScheduledReport == [tenant : Tenants, deleted : BOOLEAN, scheduled : BOOLEAN, generated : BOOLEAN]

AnalyticsTypeOK ==
    /\ events \in Seq(AnalyticsEvent) /\ snapshots \in Seq(MetricSnapshot)
    /\ dashboards \in Seq(Dashboard) /\ reports \in Seq(ScheduledReport)

AnalyticsInit == events = <<>> /\ snapshots = <<>> /\ dashboards = <<>> /\ reports = <<>>

-----------------------------------------------------------------------------
\* Mutant: the snapshot keeps the event's own time.
WholeTime(time) == time

\* The start of an event's hour.
Hour(time) == time - (time % 2)

\* _aggregate_event, of some events in turn.
Aggregated(new) == snapshots' = snapshots \o [i \in DOMAIN new |->
    [tenant |-> new[i].tenant, name |-> new[i].name, time |-> Hour(new[i].time)]]

EventRow(t, name, time, user) ==
    [tenant |-> t, name |-> name, time |-> time, user |-> user, processed |-> TRUE]

TrackEvent(t) == \E name \in EventNames, time \in Time, user \in Visitors \cup {Anonymous} :
    LET new == <<EventRow(t, name, time, user)>> IN
    /\ Len(events) < MaxEvents
    /\ events' = events \o new /\ Aggregated(new)
    /\ UNCHANGED <<dashboards, reports>>

\* track_events_bulk inserts all events before it makes their snapshots; an event
\* without a time gets that of the batch.
TrackEventsBatch(t) == \E names \in [1 .. 2 -> EventNames], time \in Time :
    LET new == [i \in 1 .. 2 |-> EventRow(t, names[i], time, Anonymous)] IN
    /\ Len(events) + 2 <= MaxEvents
    /\ events' = events \o new /\ Aggregated(new)
    /\ UNCHANGED <<dashboards, reports>>

\* query_metrics sums the snapshots whose hour begins in the window, and
\* get_events_summary counts the events in it.
QueryMetrics(t, name, from, to) == Cardinality({s \in OfTenant(snapshots, t) :
    snapshots[s].name = name /\ snapshots[s].time \in from .. to})
EventsSummary(t, name, from, to) == Cardinality({e \in OfTenant(events, t) :
    events[e].name = name /\ events[e].time \in from .. to})
ActiveUsers(t) == {events[e].user : e \in OfTenant(events, t)} \ {Anonymous}

-----------------------------------------------------------------------------
WidgetData(t, metric) == QueryMetrics(t, metric, 0, MaxTime)

CreateDashboard(t) == \E metric \in EventNames :
    /\ Len(dashboards) < MaxDashboards
    /\ dashboards' = Inserted(dashboards, [tenant |-> t, deleted |-> FALSE,
        metric |-> metric, data |-> -1])
    /\ UNCHANGED <<events, snapshots, reports>>

\* get_dashboard puts the computed values into the row itself: a read writes.
ComputedDashboard(t, d) == [dashboards EXCEPT ![d].data = WidgetData(t, dashboards[d].metric)]
GetDashboard(t, d) ==
    /\ Gets(dashboards, d, t)
    /\ dashboards' = ComputedDashboard(t, d)
    /\ UNCHANGED <<events, snapshots, reports>>

\* A PATCH with other widgets, which have no data yet.
UpdateDashboard(t, d) == \E metric \in EventNames :
    /\ Gets(dashboards, d, t)
    /\ dashboards' = [dashboards EXCEPT ![d].metric = metric, ![d].data = -1]
    /\ UNCHANGED <<events, snapshots, reports>>

DeleteDashboard(t, d) ==
    /\ Gets(dashboards, d, t)
    /\ dashboards' = SoftDeleted(dashboards, d)
    /\ UNCHANGED <<events, snapshots, reports>>

\* The list shows the rows as they are.
ListDashboards(t, page, limit) == Page(Listed(dashboards, t), page, limit)

-----------------------------------------------------------------------------
\* ReportService: its operations but the list have no handler.
CreateReport(t) ==
    /\ Len(reports) < MaxReports
    /\ reports' = Inserted(reports,
        [tenant |-> t, deleted |-> FALSE, scheduled |-> FALSE, generated |-> FALSE])
    /\ UNCHANGED <<events, snapshots, dashboards>>

DeleteReport(t, r) ==
    /\ Gets(reports, r, t)
    /\ reports' = SoftDeleted(reports, r)
    /\ UNCHANGED <<events, snapshots, dashboards>>

GenerateReport(t, r) ==
    /\ Gets(reports, r, t)
    /\ reports' = [reports EXCEPT ![r].generated = TRUE]
    /\ UNCHANGED <<events, snapshots, dashboards>>

\* schedule_report stores the schedule, which nothing reads.
ScheduleReport(t, r) ==
    /\ Gets(reports, r, t)
    /\ reports' = [reports EXCEPT ![r].scheduled = TRUE]
    /\ UNCHANGED <<events, snapshots, dashboards>>

GetReport(t, r) == Gets(reports, r, t)
ListReports(t, page, limit) == Page(Listed(reports, t), page, limit)

-----------------------------------------------------------------------------
EventsNext == \E t \in Tenants :
    \/ TrackEvent(t) \/ TrackEventsBatch(t) \/ CreateDashboard(t)
    \/ \E d \in 1 .. MaxDashboards :
        GetDashboard(t, d) \/ UpdateDashboard(t, d) \/ DeleteDashboard(t, d)

ReportsNext == \E t \in Tenants :
    \/ CreateReport(t)
    \/ \E r \in 1 .. MaxReports : DeleteReport(t, r) \/ GenerateReport(t, r) \/ ScheduleReport(t, r)

\* A report is a row of its own.
AnalyticsNext == EventsNext \/ ReportsNext

AnalyticsSpec == AnalyticsInit /\ [][AnalyticsNext]_analyticsVars

-----------------------------------------------------------------------------
\* The two ways to count agree on whole hours and nowhere else: the metric of a
\* window is the number of events from the first full hour of the window to the
\* end of its last hour.
MetricsAreEvents == \A t \in Tenants, name \in EventNames, from, to \in Time :
    QueryMetrics(t, name, from, to) =
        EventsSummary(t, name, IF from % 2 = 0 THEN from ELSE from + 1, Hour(to) + 1)

\* What is shown: the metrics are the events, what a get finds of the reports is
\* what the list shows, and a list shows of a widget the value of the last get, which later
\* events have left behind.
AnalyticsViewsAgree == MetricsAreEvents /\ \A t \in Tenants :
    /\ {r \in DOMAIN reports : GetReport(t, r)} = Walk(LAMBDA p, l : ListReports(t, p, l), MaxReports)
    /\ \A d \in Walk(LAMBDA p, l : ListDashboards(t, p, l), MaxDashboards) :
        dashboards[d].data <= ComputedDashboard(t, d)[d].data
    /\ Cardinality(ActiveUsers(t)) <= Cardinality(OfTenant(events, t))
=============================================================================
