----------------------------- MODULE OverviewPage -----------------------------
(***************************************************************************)
(* web/src/pages/Overview.tsx: the requests of a day.  A load fetches the  *)
(* day's overview and the log together; the next one does not wait for it. *)
(***************************************************************************)
EXTENDS ConsoleCalls

CONSTANTS Days, Today

ASSUME TodayAssumption == Today \in Days

VARIABLE overview  \* the state of the component

OverviewInit == [date |-> Today, data |-> None, loading |-> TRUE, selected |-> None]

OverviewType ==
  [date : Days, data : Days \cup {None}, loading : BOOLEAN, selected : Days \cup {None}]

TodaysCall(date) == Call("overview", Today, "page")

OverviewCall(date) == Call("overview", date, "page")

\* load for a date: of two under way the earlier is out of date.
LoadOverview(s, date) ==
  /\ calls[s] = None /\ "overview" \in plan
  /\ calls' = [Outdated(calls, {"overview"}, Statuses) EXCEPT
                 ![s] = OverviewCall(date)]
  /\ UNCHANGED <<cookie, heard>>

PickDate(s, date) ==
  /\ date # overview.date
  /\ LoadOverview(s, date)
  /\ overview' = [overview EXCEPT !.date = date, !.loading = TRUE]

Refresh(s) ==
  /\ ~overview.loading
  /\ LoadOverview(s, overview.date)
  /\ overview' = [overview EXCEPT !.loading = TRUE]

\* A row is clicked; an entry is of one day.
Select ==
  /\ overview.data # None
  /\ overview' = [overview EXCEPT !.selected = overview.data]
  /\ UNCHANGED <<browser, heard>>

ServeOverview(s) ==
  /\ Admitted(s, "overview")
  /\ Reply(s, calls[s].arg)
  /\ UNCHANGED <<cookie, server, heard>>

\* The selected entry is looked for in the new list, which may be without it.
Found(selected, date) == IF selected = date THEN {selected, None} ELSE {None}

OverviewAnswered(s) ==
  /\ Answered(s, "overview") /\ calls[s].to = "page"
  /\ \E entry \in Found(overview.selected, calls[s].view) :
       overview' =
         IF Ok(s)
         THEN [overview EXCEPT !.data = calls[s].view, !.selected = entry, !.loading = FALSE]
         ELSE [overview EXCEPT !.loading = FALSE]
  /\ IF Ok(s) THEN Learn(s) ELSE heard' = [heard EXCEPT !.missed = TRUE]
  /\ calls' = Done(calls, s)
  /\ UNCHANGED cookie

OverviewUser(s) ==
  \/ \E date \in Days : PickDate(s, date)
  \/ Refresh(s)

-----------------------------------------------------------------------------
\* When nothing is under way the page shows the day that is picked, unless
\* the load for it failed or an earlier load was answered after it; what is
\* selected is of the day that is shown (Overview.tsx:14-33).
ShownDay ==
  /\ Quiet /\ ~overview.loading /\ ~heard.late /\ ~heard.missed
       => overview.data = overview.date
  /\ overview.selected \in {overview.data, None}
=============================================================================
