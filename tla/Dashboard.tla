----------------------------- MODULE Dashboard -----------------------------
(***************************************************************************)
(* The dashboard page over the event table.  It keeps a map of the rows it *)
(* knows and a table of the rows it shows, and feeds them from the initial *)
(* load, a poll every second, a reload after an overflow and the live      *)
(* stream, which may delay, reorder and drop events.  The user may pause   *)
(* the table or scroll away from its top, which freezes it.  A skeleton is *)
(* rendered in place of the table while initialLoading is set.             *)
(*                                                                         *)
(* Sources: frontend/src/routes/(private)/+page.svelte, getAll of          *)
(* internal/api/handler/events.go and internal/events/repository.go.       *)
(*                                                                         *)
(* The script is single-threaded: what runs between two awaits is one      *)
(* step.  The counters above the table and the older pages a user scrolls  *)
(* to are left out: they do not feed back into the newest rows, though the *)
(* table is not rendered while the counters add up to 0.  An answer of 401 *)
(* that cannot be repaired leaves the page.                                *)
(***************************************************************************)
EXTENDS EventStore

CONSTANTS
  FirstPage,  \* LIMIT of the first page
  EventCap    \* eventCap

ASSUME DashboardAssumption ==
  /\ FirstPage \in Nat \ {0}
  /\ EventCap \in Nat /\ EventCap >= FirstPage

\* The calls that load something, at most one of each at a time: initialLoading and
\* polling see to that for the first two, and it is a bound for the third.
Loads == {"init", "poll", "reload"}

VARIABLES
  feed,        \* rows as they were sent to the hub, which no client has received
  stream,      \* the EventSource: not yet opened, open, lost, or given up
  overflow,    \* overflowTimeout is set
  load,        \* call -> what it has asked for and been answered, or None
  eventMap,    \* id -> the row as the page knows it, or None
  events,      \* id -> the row as the table shows it, or None
  isPaused, scrolledAway,
  pendingRebuild, rebuildPending,
  initialLoading

view == <<isPaused, scrolledAway>>
shown == <<eventMap, events, view, pendingRebuild, rebuildPending>>
server == <<store, feed>>
vars == <<server, faults, stream, overflow, load, shown, initialLoading>>

\* The table must not move under the user.
Frozen == isPaused \/ scrolledAway

Maybe(S) == S \cup {None}

TypeOK ==
  /\ StoreTypeOK
  /\ feed \subseteq Ids \X Row
  /\ stream \in {"closed", "open", "lost", "dead"}
  /\ \A l \in Loads : load[l] # None => load[l].what \in {"stats", "page"}
  /\ eventMap \in [Ids -> Maybe(Row)] /\ events \in [Ids -> Maybe(Row)]
  /\ Cardinality({i \in Ids : events[i] # None}) <= EventCap
  /\ {isPaused, scrolledAway, pendingRebuild, rebuildPending, overflow,
      initialLoading} \subseteq BOOLEAN

Request(what) == [what |-> what, answer |-> None]

Init ==
  /\ StoreInit
  /\ feed = {} /\ stream = "closed" /\ overflow = FALSE
  /\ load = [l \in Loads |-> IF l = "init" THEN Request("stats") ELSE None]
  /\ eventMap = [i \in Ids |-> None] /\ events = [i \in Ids |-> None]
  /\ isPaused = FALSE /\ scrolledAway = FALSE
  /\ pendingRebuild = FALSE /\ rebuildPending = FALSE
  /\ initialLoading = TRUE

-----------------------------------------------------------------------------
(* The server *)

\* The possible sets of the n newest of the rows S.
Newest(S, n) == First(S, n, Younger)

\* EventRepo.getAll: the possible pages, each a function from ids to rows.
getAll == {[i \in T |-> rows[i]] : T \in Newest(Present, FirstPage)}

\* Handlers send the row they have inserted, workers the row they have recorded;
\* a claim is not announced.
Announced == {<<i, rows'[i]>> : i \in {j \in Ids : rows'[j] # rows[j]}}

page == <<stream, overflow, load, shown, initialLoading>>

Write ==
  /\ \/ /\ \E i \in Ids : InsertRow(i) \/ RecordRow(i)
        /\ feed' = feed \cup Announced
     \/ \E i \in Ids : ClaimRow(i) /\ UNCHANGED feed
  /\ UNCHANGED <<horizon, cleaning, excess, faults, page>>

\* A pass of runCleanup that evicts; module Search has its statements one by one.
Clean ==
  /\ Cardinality(Present) > MaxRows
  /\ \E S \in First(Present, Cardinality(Present) - MaxRows, ReceivedBefore) : Delete(S)
  /\ UNCHANGED <<horizon, cleaning, excess, faults, feed, page>>

\* The server answers a request.
Serve(l) ==
  /\ load[l] # None /\ load[l].what = "page" /\ load[l].answer = None
  /\ \E a \in getAll : load' = [load EXCEPT ![l] = [what |-> "page", answer |-> a]]
  /\ UNCHANGED <<server, faults, stream, overflow, shown, initialLoading>>

-----------------------------------------------------------------------------
(* The map and the table *)

\* upsertEvent for every row of d: the map, and the table, of which the rows are
\* patched while the page is paused.
Known(d) == [i \in Ids |-> IF i \in DOMAIN d THEN d[i] ELSE eventMap[i]]

\* Mutant of Patched: the table is patched at once, paused or not.
Patched_Always(d) ==
  [i \in Ids |-> IF i \in DOMAIN d /\ events[i] # None THEN d[i] ELSE events[i]]

Patched(d) ==
  [i \in Ids |-> IF i \in DOMAIN d /\ isPaused /\ eventMap[i] # None /\ events[i] # None
                 THEN d[i] ELSE events[i]]

\* Mutant of Rebuild: the table is not cut at eventCap.
Rebuild_Uncapped(frozen, m, e) ==
  /\ eventMap' = m
  /\ events' = IF frozen THEN e ELSE m
  /\ pendingRebuild' = frozen

\* rebuildEventsArray with the map m and the table e: a frozen table is left as it
\* is; otherwise it takes the newest rows of the map and the others are forgotten.
Rebuild(frozen, m, e) ==
  IF frozen THEN eventMap' = m /\ events' = e /\ pendingRebuild' = TRUE
  ELSE \E kept \in Newest({i \in Ids : m[i] # None}, EventCap) :
         /\ eventMap' = [i \in Ids |-> IF i \in kept THEN m[i] ELSE None]
         /\ events' = eventMap'
         /\ pendingRebuild' = FALSE

-----------------------------------------------------------------------------
(* The loads *)

Ask(l, what) == load' = [load EXCEPT ![l] = Request(what)]
Done(l) == load' = [load EXCEPT ![l] = None]

\* loadStats returns to the initial load or to the poll, which go on with the
\* first page.
StatsArrive(l) ==
  /\ load[l] # None /\ load[l].what = "stats"
  /\ Ask(l, "page")
  /\ UNCHANGED <<server, faults, stream, overflow, shown, initialLoading>>

\* The end of loadEvents, failed or not, in the initial load: the stream is opened.
EndInitial(l) ==
  /\ initialLoading' = (initialLoading /\ l # "init")
  /\ stream' = IF l = "init" THEN "open" ELSE stream

\* loadPage returns to one of its callers.
PageArrives(l) ==
  /\ load[l] # None /\ load[l].answer # None
  /\ LET d == load[l].answer IN Rebuild(Frozen, Known(d), Patched(d))
  /\ Done(l)
  /\ UNCHANGED <<server, faults, overflow, view, rebuildPending>>
  /\ EndInitial(l)

\* A call fails.  If it is the first of the initial load, which is not caught
\* before connect, the stream is never opened and initialLoading stays.
LoadFails(l) ==
  /\ Fault
  /\ load[l] # None
  /\ Done(l)
  /\ IF load[l].what = "page" THEN EndInitial(l) ELSE UNCHANGED <<stream, initialLoading>>
  /\ UNCHANGED <<server, overflow, shown>>

\* Mutant of PollTick: polling is not reset after an error.
PollTick_Once ==
  /\ load["poll"] = None /\ faults = 0
  /\ Ask("poll", "stats")
  /\ UNCHANGED <<server, faults, stream, overflow, shown, initialLoading>>

\* The interval fires while no poll is in flight.
PollTick ==
  /\ load["poll"] = None
  /\ Ask("poll", "stats")
  /\ UNCHANGED <<server, faults, stream, overflow, shown, initialLoading>>

-----------------------------------------------------------------------------
(* The stream *)

\* An event arrives.  Batches of several are events without a rebuild between.
Receive(x) ==
  /\ stream = "open" /\ x \in feed
  /\ feed' = feed \ {x}
  /\ LET d == [i \in {x[1]} |-> x[2]]
     IN  eventMap' = Known(d) /\ events' = Patched(d)
  /\ rebuildPending' = (rebuildPending \/ ~isPaused)
  /\ UNCHANGED <<store, faults, stream, overflow, load, view, pendingRebuild, initialLoading>>

\* An event is dropped on its way, with or without an overflow frame.
Drop(x) ==
  /\ x \in feed
  /\ feed' = feed \ {x}
  /\ \/ UNCHANGED <<overflow, faults>>
     \/ stream = "open" /\ overflow' = TRUE /\ Fault
  /\ UNCHANGED <<store, stream, load, shown, initialLoading>>

\* scheduleRebuild's timer.
RebuildTimer ==
  /\ rebuildPending
  /\ Rebuild(Frozen, eventMap, events)
  /\ rebuildPending' = FALSE
  /\ UNCHANGED <<server, faults, stream, overflow, load, view, initialLoading>>

\* The overflow timer loads the first page.
OverflowTimer ==
  /\ overflow /\ load["reload"] = None
  /\ overflow' = FALSE
  /\ Ask("reload", "page")
  /\ UNCHANGED <<server, faults, stream, shown, initialLoading>>

\* The connection breaks; three seconds later /api/me is asked and the stream is
\* opened again, or not if that call throws.
StreamError ==
  /\ Fault
  /\ stream = "open"
  /\ stream' \in {"lost", "dead"}
  /\ UNCHANGED <<server, overflow, load, shown, initialLoading>>

Reconnect ==
  /\ stream = "lost"
  /\ stream' = "open"
  /\ UNCHANGED <<server, faults, overflow, load, shown, initialLoading>>

-----------------------------------------------------------------------------
(* The user *)

Keep == UNCHANGED <<eventMap, events, pendingRebuild>>

\* Mutant of togglePause: the table is left to the next event.
togglePause_NoRebuild ==
  /\ isPaused' = ~isPaused
  /\ Keep
  /\ UNCHANGED <<server, faults, stream, overflow, load, scrolledAway, rebuildPending,
                 initialLoading>>

togglePause ==
  /\ isPaused' = ~isPaused
  /\ IF isPaused THEN Rebuild(scrolledAway, eventMap, events) ELSE Keep
  /\ UNCHANGED <<server, faults, stream, overflow, load, scrolledAway, rebuildPending,
                 initialLoading>>

\* The table, once it is rendered, reports that the user has left its top, or is
\* back.
handleScrollAway ==
  /\ ~initialLoading
  /\ scrolledAway' = ~scrolledAway
  /\ IF scrolledAway /\ pendingRebuild /\ ~isPaused
     THEN Rebuild(FALSE, eventMap, events) ELSE Keep
  /\ UNCHANGED <<server, faults, stream, overflow, load, isPaused, rebuildPending,
                 initialLoading>>

-----------------------------------------------------------------------------

Next ==
  \/ Write \/ Clean
  \/ \E l \in Loads : Serve(l) \/ StatsArrive(l) \/ PageArrives(l) \/ LoadFails(l)
  \/ PollTick
  \/ \E x \in feed : Receive(x) \/ Drop(x)
  \/ RebuildTimer \/ OverflowTimer
  \/ StreamError \/ Reconnect
  \/ togglePause \/ handleScrollAway

\* The server answers by its timeouts and the browser runs callbacks and timers.
\* The stream owes nothing, nor does the user.
Fairness ==
  /\ \A l \in Loads : WF_vars(Serve(l) \/ StatsArrive(l) \/ PageArrives(l))
  /\ WF_vars(PollTick) /\ WF_vars(RebuildTimer)

Spec == Init /\ [][Next]_vars /\ Fairness

-----------------------------------------------------------------------------

\* "Pause and resume the stream at any time without missing updates": whatever
\* the user did before, a table that is not frozen and waits for no timer holds
\* everything the page knows.
ShowsWhatIsKnown == ~Frozen /\ ~rebuildPending => events = eventMap

\* While the table is frozen no row appears or disappears, and a row changes only
\* if the page is paused, never because of scrolling alone.
FrozenView ==
  [][Frozen /\ Frozen' =>
       /\ \A i \in Ids : (events[i] = None) = (events'[i] = None)
       /\ ~isPaused => events' = events]_vars

\* The first call of the initial load has failed.  Nothing resets initialLoading any
\* more: the page renders its skeleton for good, whatever the polls load.
Abandoned == initialLoading /\ load["init"] = None

\* "The DB is the source of truth": once the user lets the table go, it comes to hold
\* the newest page of the table of events, whatever the stream dropped, delayed or
\* delivered after a newer answer; and the table takes the place of the skeleton
\* for good, unless a failing call has abandoned the initial load.
FirstPageConverges ==
  <>[](~Frozen) =>
    <>[](/\ \E S \in Newest(Present, FirstPage) : \A i \in S : events[i] = rows[i]
         /\ initialLoading => Abandoned /\ faults > 0)

=============================================================================
