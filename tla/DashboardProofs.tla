-------------------------- MODULE DashboardProofs --------------------------
(***************************************************************************)
(* Proofs about the dashboard's table, for any number of rows and faults   *)
(* and whatever the stream and the server do.                              *)
(***************************************************************************)
EXTENDS Dashboard, FiniteSetTheorems, TLAPS

\* A table that lags behind the map is one that will be rebuilt: it is paused and
\* resuming rebuilds it, a rebuild is noted for when the user scrolls back, or a
\* timer is running.  Nothing is noted while the table is free.
Caught ==
  /\ {isPaused, scrolledAway, pendingRebuild, rebuildPending} \subseteq BOOLEAN
  /\ isPaused \/ pendingRebuild \/ rebuildPending \/ events = eventMap
  /\ ~Frozen => ~pendingRebuild

LEMMA CaughtInit == Init => Caught
  BY DEF Init, Caught, Frozen

\* A rebuild settles the matter, for a table that is frozen or not.
LEMMA Rebuilds ==
  ASSUME NEW f \in BOOLEAN, NEW m, NEW e, Rebuild(f, m, e)
  PROVE  /\ pendingRebuild' = f
         /\ f => eventMap' = m /\ events' = e
         /\ ~f => events' = eventMap'
  BY DEF Rebuild

LEMMA CaughtNext == Caught /\ [Next]_vars => Caught'
<1> SUFFICES ASSUME Caught, [Next]_vars PROVE Caught'
  OBVIOUS
<1> USE DEF Caught, Frozen, view
<1>1. ASSUME UNCHANGED shown PROVE Caught'
  BY <1>1 DEF shown
<1>2. CASE Write \/ Clean
  BY <1>2, <1>1 DEF Write, Clean, page, shown
<1>3. ASSUME NEW l \in Loads, Serve(l) \/ StatsArrive(l) \/ LoadFails(l) PROVE Caught'
  BY <1>3, <1>1 DEF Serve, StatsArrive, LoadFails
<1>4. ASSUME NEW l \in Loads, PageArrives(l) PROVE Caught'
  <2>1. \E m, e : Rebuild(Frozen, m, e)
    BY <1>4 DEF PageArrives
  <2>2. UNCHANGED <<isPaused, scrolledAway, rebuildPending>>
    BY <1>4 DEF PageArrives
  <2> QED BY <2>1, <2>2, Rebuilds
<1>5. CASE PollTick \/ OverflowTimer \/ StreamError \/ Reconnect
  BY <1>5, <1>1 DEF PollTick, OverflowTimer, StreamError, Reconnect
<1>6. ASSUME NEW x \in feed, Receive(x) PROVE Caught'
  BY <1>6 DEF Receive
<1>7. ASSUME NEW x \in feed, Drop(x) PROVE Caught'
  BY <1>7, <1>1 DEF Drop
<1>8. CASE RebuildTimer
  BY <1>8, Rebuilds DEF RebuildTimer
<1>9. CASE togglePause
  BY <1>9, Rebuilds DEF togglePause, Keep
<1>10. CASE handleScrollAway
  BY <1>10, Rebuilds DEF handleScrollAway, Keep
<1>11. CASE UNCHANGED vars
  BY <1>11, <1>1 DEF vars
<1> QED
  BY <1>2, <1>3, <1>4, <1>5, <1>6, <1>7, <1>8, <1>9, <1>10, <1>11 DEF Next

LEMMA AlwaysCaught == Spec => []Caught
<1>1. Spec => Init /\ [][Next]_vars
  BY DEF Spec
<1> QED BY <1>1, CaughtInit, CaughtNext, PTL

\* Whatever the user did before, a table that is not frozen and waits for no
\* timer shows everything the page knows.
THEOREM NothingMissed == Spec => []ShowsWhatIsKnown
<1>1. Caught => ShowsWhatIsKnown
  BY DEF Caught, ShowsWhatIsKnown, Frozen
<1> QED BY <1>1, AlwaysCaught, PTL

-----------------------------------------------------------------------------
(* What reaches the page are rows, so that patching never removes one. *)

Cells == Row \cup {Unborn, Deleted}

Served ==
  /\ rows \in [Ids -> Cells]
  /\ \A x \in feed : x[2] \in Row
  /\ load = [l \in Loads |-> load[l]]
  /\ \A l \in Loads : load[l] # None /\ load[l].answer # None =>
       \A i \in DOMAIN load[l].answer : load[l].answer[i] \in Row
  /\ events = [i \in Ids |-> events[i]]

LEMMA ServedInit == Init => Served
<1> SUFFICES ASSUME Init PROVE Served
  OBVIOUS
<1>1. rows \in [Ids -> Cells] /\ feed = {} /\ events = [i \in Ids |-> events[i]]
  BY DEF Init, StoreInit, Cells
<1>2. /\ \A l \in Loads : load[l] # None => load[l].answer = None
      /\ load = [l \in Loads |-> load[l]]
  BY DEF Init, Request
<1> QED BY <1>1, <1>2 DEF Served

LEMMA ClaimedIsRow ==
  ASSUME NEW w \in Row, NEW s \in Statuses
  PROVE  [w EXCEPT !.status = s] \in Row
  BY DEF Row

\* The writers keep rows rows.
LEMMA WritesRows ==
  ASSUME rows \in [Ids -> Cells], NEW i \in Ids
  PROVE  /\ InsertRow(i) \/ RecordRow(i) =>
              /\ rows' \in [Ids -> Cells] /\ rows'[i] \in Row
              /\ \A j \in Ids : rows'[j] # rows[j] => j = i
         /\ ClaimRow(i) => rows' \in [Ids -> Cells]
<1>1. ASSUME InsertRow(i)
      PROVE  rows' = [rows EXCEPT ![i] = Inserted] /\ Inserted \in Row
  BY <1>1 DEF InsertRow, Inserted, Row, Statuses
<1>2. ASSUME RecordRow(i)
      PROVE  \E r \in Row : rows' = [rows EXCEPT ![i] = r]
  <2>1. rows[i] \in Row
    BY <1>2 DEF RecordRow, Present, Cells
  <2>2. PICK code \in Codes : rows' = [rows EXCEPT ![i] = Recorded(rows[i], code)]
    BY <1>2 DEF RecordRow
  <2>3. Recorded(rows[i], code) \in Row
    BY <2>1 DEF Recorded, Row, Statuses
  <2> QED BY <2>2, <2>3
<1>3. ASSUME ClaimRow(i) PROVE rows' \in [Ids -> Cells]
  <2>1. rows[i] \in Row
    BY <1>3 DEF ClaimRow, Present, Cells
  <2>2. "processing" \in Statuses /\ "retrying" \in Statuses
    BY DEF Statuses
  <2>3. /\ [rows[i] EXCEPT !.status = "processing"] \in Row
        /\ [rows[i] EXCEPT !.status = "retrying"] \in Row
    BY <2>1, <2>2, ClaimedIsRow
  <2> QED BY <1>3, <2>3 DEF ClaimRow, Cells
<1> QED BY <1>1, <1>2, <1>3 DEF Cells

LEMMA DeletesRows ==
  ASSUME rows \in [Ids -> Cells], NEW S, Delete(S)
  PROVE  rows' \in [Ids -> Cells]
  BY DEF Delete, Cells

LEMMA PagesHoldRows ==
  ASSUME rows \in [Ids -> Cells], NEW a \in getAll
  PROVE  \A i \in DOMAIN a : a[i] \in Row
<1>1. PICK T \in Newest(Present, FirstPage) : a = [i \in T |-> rows[i]]
  BY DEF getAll
<1>2. T \subseteq Present
  BY DEF Newest, First
<1> QED BY <1>1, <1>2 DEF Present, Cells

LEMMA RebuildKeepsFunction ==
  ASSUME NEW f \in BOOLEAN, NEW m, NEW e, Rebuild(f, m, e), e = [i \in Ids |-> e[i]]
  PROVE  events' = [i \in Ids |-> events'[i]]
<1>1. CASE f
  BY <1>1 DEF Rebuild
<1>2. CASE ~f
  <2>1. PICK kept : events' = [i \in Ids |-> IF i \in kept THEN m[i] ELSE None]
    BY <1>2 DEF Rebuild
  <2> QED BY <2>1
<1> QED BY <1>1, <1>2

LEMMA ServedNext == Served /\ Caught /\ [Next]_vars => Served'
<1> SUFFICES ASSUME Served, Caught, [Next]_vars PROVE Served'
  OBVIOUS
<1> DEFINE Asked == /\ load = [l \in Loads |-> load[l]]
                    /\ \A l \in Loads : load[l] # None /\ load[l].answer # None =>
                         \A i \in DOMAIN load[l].answer : load[l].answer[i] \in Row
           Stored == rows \in [Ids -> Cells] /\ \A x \in feed : x[2] \in Row
           Table == events = [i \in Ids |-> events[i]]
<1>a. Frozen \in BOOLEAN /\ scrolledAway \in BOOLEAN
  BY DEF Caught, Frozen
<1>b. Stored /\ Asked /\ Table
  BY DEF Served
<1>c. ASSUME Stored', Asked', Table' PROVE Served'
  BY <1>c DEF Served
<1>1. ASSUME NEW l \in Loads, Done(l) \/ \E what : Ask(l, what) PROVE Asked'
  BY <1>1, <1>b DEF Done, Ask, Request
<1>2. ASSUME UNCHANGED server PROVE Stored'
  BY <1>2, <1>b DEF server, store
<1>3. ASSUME UNCHANGED load PROVE Asked'
  BY <1>3, <1>b
<1>4. ASSUME UNCHANGED shown PROVE Table'
  BY <1>4, <1>b DEF shown
<1> HIDE DEF Asked, Table
<1>5. CASE Write
  <2>1. Asked' /\ Table'
    BY <1>5, <1>3, <1>4 DEF Write, page
  <2>2. PICK i \in Ids : \/ (InsertRow(i) \/ RecordRow(i)) /\ feed' = feed \cup Announced
                         \/ ClaimRow(i) /\ UNCHANGED feed
    BY <1>5 DEF Write
  <2>3. Stored'
    BY <2>2, <1>b, WritesRows DEF Announced
  <2> QED BY <2>1, <2>3, <1>c
<1>6. CASE Clean
  <2>1. Asked' /\ Table' /\ UNCHANGED feed
    BY <1>6, <1>3, <1>4 DEF Clean, page
  <2>2. PICK S : Delete(S)
    BY <1>6 DEF Clean
  <2> QED BY <2>1, <2>2, <1>b, <1>c, DeletesRows
<1>7. ASSUME NEW l \in Loads, Serve(l) PROVE Served'
  <2>1. PICK a \in getAll : load' = [load EXCEPT ![l] = [what |-> "page", answer |-> a]]
    BY <1>7 DEF Serve
  <2>2. \A i \in DOMAIN a : a[i] \in Row
    BY <1>b, PagesHoldRows
  <2>3. Asked'
    BY <2>1, <2>2, <1>b DEF Asked
  <2>4. UNCHANGED <<server, shown>>
    BY <1>7 DEF Serve
  <2> QED BY <2>3, <2>4, <1>2, <1>4, <1>c
<1>8. ASSUME NEW l \in Loads, StatsArrive(l) \/ LoadFails(l) PROVE Served'
  BY <1>8, <1>1, <1>2, <1>4, <1>c DEF StatsArrive, LoadFails
<1>9. ASSUME NEW l \in Loads, PageArrives(l) PROVE Served'
  <2>1. PICK d, m : Rebuild(Frozen, m, Patched(d))
    BY <1>9 DEF PageArrives
  <2>2. Patched(d) = [i \in Ids |-> Patched(d)[i]]
    BY DEF Patched
  <2>3. Table'
    BY <2>1, <2>2, <1>a, RebuildKeepsFunction DEF Table
  <2> QED BY <1>9, <2>3, <1>1, <1>2, <1>c DEF PageArrives
<1>10. CASE PollTick \/ OverflowTimer
  <2>1. "poll" \in Loads /\ "reload" \in Loads
    BY DEF Loads
  <2> QED BY <1>10, <2>1, <1>1, <1>2, <1>4, <1>c DEF PollTick, OverflowTimer
<1>11. CASE StreamError \/ Reconnect
  BY <1>11, <1>2, <1>3, <1>4, <1>c DEF StreamError, Reconnect
<1>12. ASSUME NEW x \in feed, Receive(x) PROVE Served'
  <2>1. Stored' /\ Asked'
    BY <1>12, <1>3, <1>b DEF Receive, store
  <2>2. \E d : events' = Patched(d)
    BY <1>12 DEF Receive
  <2>3. Table'
    BY <2>2 DEF Patched, Table
  <2> QED BY <2>1, <2>3, <1>c
<1>13. ASSUME NEW x \in feed, Drop(x) PROVE Served'
  BY <1>13, <1>3, <1>4, <1>b, <1>c DEF Drop, store
<1>14. CASE RebuildTimer \/ togglePause \/ handleScrollAway
  <2>1. UNCHANGED server /\ UNCHANGED load
    BY <1>14 DEF RebuildTimer, togglePause, handleScrollAway
  <2>2. \/ \E f \in BOOLEAN : Rebuild(f, eventMap, events)
        \/ UNCHANGED events
    BY <1>14, <1>a DEF RebuildTimer, togglePause, handleScrollAway, Keep
  <2>3. Table'
    BY <2>2, <1>b, RebuildKeepsFunction DEF Table
  <2> QED BY <2>1, <2>3, <1>2, <1>3, <1>c
<1>15. CASE UNCHANGED vars
  BY <1>15, <1>2, <1>3, <1>4, <1>c DEF vars
<1> QED
  BY <1>5, <1>6, <1>7, <1>8, <1>9, <1>10, <1>11, <1>12, <1>13, <1>14, <1>15 DEF Next

LEMMA AlwaysServed == Spec => [](Served /\ Caught)
<1>1. Spec => Init /\ [][Next]_vars
  BY DEF Spec
<1> QED BY <1>1, ServedInit, ServedNext, CaughtInit, CaughtNext, PTL

\* One step of a table that stays frozen.
StaysPut ==
  Frozen /\ Frozen' =>
    /\ \A i \in Ids : (events[i] = None) = (events'[i] = None)
    /\ ~isPaused => events' = events

\* Patching with rows keeps a row where there was one, and nothing where there was
\* nothing; while the page is not paused it changes nothing.
LEMMA Patches ==
  ASSUME NEW d, \A i \in DOMAIN d : d[i] \in Row, events = [i \in Ids |-> events[i]]
  PROVE  /\ \A i \in Ids : (events[i] = None) = (Patched(d)[i] = None)
         /\ ~isPaused => Patched(d) = events
  BY StoreMarkers DEF Patched

LEMMA StaysPutNext == Served /\ Caught /\ [Next]_vars => StaysPut
<1> SUFFICES ASSUME Served, Caught, [Next]_vars, Frozen, Frozen'
             PROVE  /\ \A i \in Ids : (events[i] = None) = (events'[i] = None)
                    /\ ~isPaused => events' = events
  BY DEF StaysPut
<1> DEFINE Goal == /\ \A i \in Ids : (events[i] = None) = (events'[i] = None)
                   /\ ~isPaused => events' = events
<1> USE DEF view
<1>a. Frozen \in BOOLEAN /\ scrolledAway \in BOOLEAN /\ isPaused \in BOOLEAN
  BY DEF Caught, Frozen
<1>1. ASSUME UNCHANGED events PROVE Goal
  BY <1>1
<1>2. ASSUME NEW m, NEW e, Rebuild(Frozen, m, e) PROVE events' = e
  BY <1>2, <1>a, Rebuilds
<1>3. CASE Write \/ Clean
  BY <1>3, <1>1 DEF Write, Clean, page, shown
<1>4. ASSUME NEW l \in Loads, Serve(l) \/ StatsArrive(l) \/ LoadFails(l) PROVE Goal
  BY <1>4, <1>1 DEF Serve, StatsArrive, LoadFails, shown
<1>5. ASSUME NEW l \in Loads, PageArrives(l) PROVE Goal
  <2> DEFINE d == load[l].answer
  <2>1. \A i \in DOMAIN d : d[i] \in Row
    BY <1>5 DEF PageArrives, Served
  <2>2. events' = Patched(d)
    BY <1>5, <1>2 DEF PageArrives
  <2> HIDE DEF d
  <2> QED BY <2>1, <2>2, Patches DEF Served
<1>6. CASE PollTick \/ OverflowTimer \/ StreamError \/ Reconnect
  BY <1>6, <1>1 DEF PollTick, OverflowTimer, StreamError, Reconnect, shown
<1>7. ASSUME NEW x \in feed, Receive(x) PROVE Goal
  <2> DEFINE d == [i \in {x[1]} |-> x[2]]
  <2>1. \A i \in DOMAIN d : d[i] \in Row
    BY DEF Served
  <2>2. events' = Patched(d)
    BY <1>7 DEF Receive
  <2> HIDE DEF d
  <2> QED BY <2>1, <2>2, Patches DEF Served
<1>8. ASSUME NEW x \in feed, Drop(x) PROVE Goal
  BY <1>8, <1>1 DEF Drop, shown
<1>9. CASE RebuildTimer
  BY <1>9, <1>1, <1>2 DEF RebuildTimer
\* Resuming rebuilds a table that the user has scrolled away from: it keeps it.
<1>10. CASE togglePause
  <2>1. ASSUME isPaused PROVE events' = events
    <3>1. scrolledAway /\ Rebuild(scrolledAway, eventMap, events)
      BY <1>10, <2>1, <1>a DEF togglePause, Frozen
    <3> QED BY <3>1, <1>a, Rebuilds
  <2>2. ASSUME ~isPaused PROVE events' = events
    BY <1>10, <2>2 DEF togglePause, Keep
  <2> QED BY <2>1, <2>2, <1>1
\* Coming back to the top rebuilds only if the page is not paused, and then the
\* table is frozen no longer.
<1>11. CASE handleScrollAway
  BY <1>11, <1>a, <1>1 DEF handleScrollAway, Keep, Frozen
<1>12. CASE UNCHANGED vars
  BY <1>12, <1>1 DEF vars, shown
<1> QED
  BY <1>3, <1>4, <1>5, <1>6, <1>7, <1>8, <1>9, <1>10, <1>11, <1>12 DEF Next

\* While the table is frozen no row appears or disappears, and a row changes only
\* if the page is paused, never because of scrolling alone.
THEOREM FrozenStays == Spec => FrozenView
<1>1. Spec => Init /\ [][Next]_vars
  BY DEF Spec
<1>2. Served /\ Caught /\ [Next]_vars => [StaysPut]_vars
  BY StaysPutNext
<1>3. Spec => [][StaysPut]_vars
  BY <1>1, <1>2, AlwaysServed, PTL
<1> QED BY <1>3 DEF FrozenView, StaysPut

-----------------------------------------------------------------------------
(* Types *)

Tables == [Ids -> Maybe(Row)]

\* The table is cut at eventCap.
Capped(e) == Cardinality({i \in Ids : e[i] # None}) <= EventCap

LEMMA KnownRows ==
  ASSUME NEW d, \A i \in DOMAIN d : d[i] \in Row, eventMap \in Tables, events \in Tables, Capped(events)
  PROVE  Known(d) \in Tables /\ Patched(d) \in Tables /\ Capped(Patched(d))
<1>1. Known(d) \in Tables
  BY DEF Known, Tables, Maybe
<1>2. Patched(d) \in Tables
  BY DEF Patched, Tables, Maybe
<1>3. \A i \in Ids : (events[i] = None) = (Patched(d)[i] = None)
  <2>1. events = [i \in Ids |-> events[i]]
    BY DEF Tables
  <2> QED BY <2>1, Patches
<1>4. {i \in Ids : Patched(d)[i] # None} = {i \in Ids : events[i] # None}
  BY <1>3
<1> QED BY <1>1, <1>2, <1>4 DEF Capped

LEMMA RebuildRows ==
  ASSUME NEW f \in BOOLEAN, NEW m \in Tables, NEW e \in Tables, Capped(e), Rebuild(f, m, e)
  PROVE  eventMap' \in Tables /\ events' \in Tables /\ Capped(events')
<1>1. CASE f
  BY <1>1 DEF Rebuild
<1>2. CASE ~f
  <2> DEFINE S == {i \in Ids : m[i] # None}
  <2>1. PICK kept \in Newest(S, EventCap) :
           /\ eventMap' = [i \in Ids |-> IF i \in kept THEN m[i] ELSE None]
           /\ events' = eventMap'
    BY <1>2 DEF Rebuild
  <2>2. /\ kept \subseteq S /\ Cardinality(kept) = IF Cardinality(S) < EventCap THEN Cardinality(S) ELSE EventCap
    BY DEF Newest, First
  <2>3. IsFiniteSet(S) /\ Cardinality(S) \in Nat
    BY StoreAssumption, FS_Subset, FS_CardinalityType
  <2>4. IsFiniteSet(kept) /\ Cardinality(kept) <= EventCap
    BY <2>2, <2>3, FS_Subset, DashboardAssumption
  <2>5. eventMap' \in Tables /\ events' \in Tables
    BY <2>1 DEF Tables, Maybe
  <2>6. {i \in Ids : events'[i] # None} \subseteq kept
    BY <2>1
  <2>7. /\ Cardinality({i \in Ids : events'[i] # None}) <= Cardinality(kept)
        /\ Cardinality({i \in Ids : events'[i] # None}) \in Nat /\ Cardinality(kept) \in Nat
    BY <2>4, <2>6, FS_Subset, FS_CardinalityType
  <2> QED BY <2>4, <2>5, <2>7, DashboardAssumption DEF Capped
<1> QED BY <1>1, <1>2

\* The conjuncts of TypeOK by the part of the program they are about.
ServerTypes ==
  /\ StoreTypeOK /\ rows \in [Ids -> Cells] /\ feed \subseteq Ids \X Row
LinkTypes ==
  /\ stream \in {"closed", "open", "lost", "dead"}
  /\ {overflow, initialLoading} \subseteq BOOLEAN
  /\ load = [l \in Loads |-> load[l]]
  /\ \A l \in Loads : load[l] # None => load[l].what \in {"stats", "page"}
TableTypes == eventMap \in Tables /\ events \in Tables /\ Capped(events)

TypeInv == ServerTypes /\ LinkTypes /\ TableTypes /\ Served /\ Caught

LEMMA TypeInvInit == Init => TypeInv
<1> SUFFICES ASSUME Init PROVE ServerTypes /\ LinkTypes /\ TableTypes
  BY CaughtInit, ServedInit DEF TypeInv
<1>1. ServerTypes
  BY DEF Init, ServerTypes, StoreInit, StoreTypeOK, Cells
<1>2. LinkTypes
  BY DEF Init, LinkTypes, Request, Loads
<1>3. TableTypes
  <2>1. eventMap \in Tables /\ events \in Tables
    BY DEF Init, Tables, Maybe
  <2>2. {i \in Ids : events[i] # None} = {}
    BY DEF Init
  <2> QED BY <2>1, <2>2, FS_EmptySet, DashboardAssumption DEF TableTypes, Capped
<1> QED BY <1>1, <1>2, <1>3

LEMMA TypeInvIsTypeOK == TypeInv => TypeOK
  BY DEF TypeInv, TypeOK, ServerTypes, LinkTypes, TableTypes, Tables, Capped, Caught

LEMMA TypeInvNext == TypeInv /\ [Next]_vars => TypeInv'
<1> SUFFICES ASSUME TypeInv, [Next]_vars PROVE TypeInv'
  OBVIOUS
<1> USE DEF view
<1>a. ServerTypes /\ LinkTypes /\ TableTypes /\ Served /\ Caught
  BY DEF TypeInv
<1>b. ASSUME ServerTypes', LinkTypes', TableTypes' PROVE TypeInv'
  BY <1>b, <1>a, ServedNext, CaughtNext DEF TypeInv
<1>c. Frozen \in BOOLEAN /\ scrolledAway \in BOOLEAN
  BY <1>a DEF Caught, Frozen
<1>1. ASSUME UNCHANGED server, UNCHANGED faults \/ Fault PROVE ServerTypes'
  BY <1>1, <1>a DEF ServerTypes, server, store, StoreTypeOK, Fault
<1>2. ASSUME UNCHANGED <<stream, overflow, load, initialLoading>> PROVE LinkTypes'
  BY <1>2, <1>a DEF LinkTypes
<1>3. ASSUME UNCHANGED shown PROVE TableTypes'
  BY <1>3, <1>a DEF TableTypes, shown
<1>4. ASSUME NEW f \in BOOLEAN, Rebuild(f, eventMap, events) PROVE TableTypes'
  BY <1>4, <1>a, RebuildRows DEF TableTypes
<1>5. ASSUME NEW l \in Loads, Done(l) \/ Ask(l, "stats") \/ Ask(l, "page")
      PROVE  /\ load' = [k \in Loads |-> load'[k]]
             /\ \A k \in Loads : load'[k] # None => load'[k].what \in {"stats", "page"}
  BY <1>5, <1>a DEF LinkTypes, Done, Ask, Request
<1>6. CASE Write
  <2>1. LinkTypes' /\ TableTypes'
    BY <1>6, <1>2, <1>3 DEF Write, page
  <2>2. UNCHANGED <<horizon, cleaning, excess, faults>>
    BY <1>6 DEF Write
  <2>3. PICK i \in Ids : \/ (InsertRow(i) \/ RecordRow(i)) /\ feed' = feed \cup Announced
                         \/ ClaimRow(i) /\ UNCHANGED feed
    BY <1>6 DEF Write
  <2>4. rows \in [Ids -> Cells] /\ feed \subseteq Ids \X Row
    BY <1>a DEF ServerTypes
  <2>5. rows' \in [Ids -> Cells] /\ feed' \subseteq Ids \X Row
    BY <2>3, <2>4, WritesRows DEF Announced
  <2>6. StoreTypeOK'
    BY <2>2, <2>5, <1>a DEF ServerTypes, StoreTypeOK, Cells
  <2> QED BY <2>1, <2>5, <2>6, <1>b DEF ServerTypes
<1>7. CASE Clean
  <2>1. LinkTypes' /\ TableTypes' /\ UNCHANGED feed
    BY <1>7, <1>2, <1>3 DEF Clean, page
  <2>2. UNCHANGED <<horizon, cleaning, excess, faults>> /\ \E S : Delete(S)
    BY <1>7 DEF Clean
  <2>3. rows' \in [Ids -> Cells]
    BY <2>2, <1>a, DeletesRows DEF ServerTypes
  <2>4. StoreTypeOK'
    BY <2>2, <2>3, <1>a DEF ServerTypes, StoreTypeOK, Cells
  <2> QED BY <2>1, <2>3, <2>4, <1>a, <1>b DEF ServerTypes
<1>8. ASSUME NEW l \in Loads, Serve(l) PROVE TypeInv'
  <2>1. ServerTypes' /\ TableTypes' /\ UNCHANGED <<stream, overflow, initialLoading>>
    BY <1>8, <1>1, <1>3 DEF Serve
  <2>2. PICK a : load' = [load EXCEPT ![l] = [what |-> "page", answer |-> a]]
    BY <1>8 DEF Serve
  <2>3. LinkTypes'
    BY <2>1, <2>2, <1>a DEF LinkTypes
  <2> QED BY <2>1, <2>3, <1>b
<1>9. ASSUME NEW l \in Loads, StatsArrive(l) PROVE TypeInv'
  <2>1. ServerTypes' /\ TableTypes' /\ UNCHANGED <<stream, overflow, initialLoading>> /\ Ask(l, "page")
    BY <1>9, <1>1, <1>3 DEF StatsArrive
  <2>2. LinkTypes'
    BY <2>1, <1>5, <1>a DEF LinkTypes
  <2> QED BY <2>1, <2>2, <1>b
<1>10. ASSUME NEW l \in Loads, EndInitial(l) \/ UNCHANGED <<stream, initialLoading>>,
              Done(l), UNCHANGED overflow
       PROVE  LinkTypes'
  <2>1. /\ stream' \in {"closed", "open", "lost", "dead"}
        /\ initialLoading' \in BOOLEAN /\ overflow' \in BOOLEAN
    BY <1>10, <1>a DEF EndInitial, LinkTypes
  <2> QED BY <2>1, <1>5, <1>10 DEF LinkTypes
<1>11. ASSUME NEW l \in Loads, PageArrives(l) PROVE TypeInv'
  <2>1. ServerTypes' /\ LinkTypes'
    BY <1>11, <1>1, <1>10 DEF PageArrives
  <2> DEFINE d == load[l].answer
  <2>2. \A i \in DOMAIN d : d[i] \in Row
    BY <1>11, <1>a DEF PageArrives, Served
  <2>3. Rebuild(Frozen, Known(d), Patched(d))
    BY <1>11 DEF PageArrives
  <2> HIDE DEF d
  <2>4. TableTypes'
    BY <2>2, <2>3, <1>a, <1>c, KnownRows, RebuildRows DEF TableTypes
  <2> QED BY <2>1, <2>4, <1>b
<1>12. ASSUME NEW l \in Loads, LoadFails(l) PROVE TypeInv'
  <2>1. ServerTypes' /\ TableTypes'
    BY <1>12, <1>1, <1>3 DEF LoadFails
  <2>2. LinkTypes'
    BY <1>12, <1>10 DEF LoadFails
  <2> QED BY <2>1, <2>2, <1>b
<1>13. CASE PollTick \/ OverflowTimer
  <2>1. ServerTypes' /\ TableTypes' /\ UNCHANGED <<stream, initialLoading>>
    BY <1>13, <1>1, <1>3 DEF PollTick, OverflowTimer
  <2>2. overflow' \in BOOLEAN /\ (Ask("poll", "stats") \/ Ask("reload", "page"))
    BY <1>13, <1>a DEF PollTick, OverflowTimer, LinkTypes
  <2>3. "poll" \in Loads /\ "reload" \in Loads
    BY DEF Loads
  <2>4. LinkTypes'
    BY <2>1, <2>2, <2>3, <1>5, <1>a DEF LinkTypes
  <2> QED BY <2>1, <2>4, <1>b
<1>14. ASSUME NEW x \in feed, Receive(x) PROVE TypeInv'
  <2>1. LinkTypes'
    BY <1>14, <1>2 DEF Receive
  <2>2. ServerTypes'
    BY <1>14, <1>a DEF Receive, store, ServerTypes, StoreTypeOK
  <2> DEFINE d == [i \in {x[1]} |-> x[2]]
  <2>3. \A i \in DOMAIN d : d[i] \in Row
    BY <1>a DEF Served
  <2>4. eventMap' = Known(d) /\ events' = Patched(d)
    BY <1>14 DEF Receive
  <2> HIDE DEF d
  <2>5. TableTypes'
    BY <2>3, <2>4, <1>a, KnownRows DEF TableTypes
  <2> QED BY <2>1, <2>2, <2>5, <1>b
<1>15. ASSUME NEW x \in feed, Drop(x) PROVE TypeInv'
  <2>1. TableTypes'
    BY <1>15, <1>3 DEF Drop
  <2>2. ServerTypes'
    BY <1>15, <1>a DEF Drop, store, ServerTypes, StoreTypeOK, Fault
  <2>3. LinkTypes'
    BY <1>15, <1>a DEF Drop, LinkTypes
  <2> QED BY <2>1, <2>2, <2>3, <1>b
<1>16. CASE RebuildTimer \/ togglePause \/ handleScrollAway
  <2>1. ServerTypes' /\ LinkTypes'
    BY <1>16, <1>1, <1>2 DEF RebuildTimer, togglePause, handleScrollAway
  <2>2. \/ \E f \in BOOLEAN : Rebuild(f, eventMap, events)
        \/ UNCHANGED <<eventMap, events>>
    BY <1>16, <1>c DEF RebuildTimer, togglePause, handleScrollAway, Keep
  <2>3. TableTypes'
    BY <2>2, <1>4, <1>a DEF TableTypes
  <2> QED BY <2>1, <2>3, <1>b
<1>17. CASE StreamError \/ Reconnect
  <2>1. ServerTypes' /\ TableTypes'
    BY <1>17, <1>1, <1>3 DEF StreamError, Reconnect
  <2>2. LinkTypes'
    BY <1>17, <1>a DEF StreamError, Reconnect, LinkTypes
  <2> QED BY <2>1, <2>2, <1>b
<1>18. CASE UNCHANGED vars
  BY <1>18, <1>1, <1>2, <1>3, <1>b DEF vars
<1> QED
  BY <1>6, <1>7, <1>8, <1>9, <1>11, <1>12, <1>13, <1>14, <1>15, <1>16, <1>17, <1>18 DEF Next

\* The page never holds anything but rows of the table of events, and its own table
\* never exceeds eventCap, however rows are patched while it is frozen.
THEOREM TypeCorrect == Spec => []TypeOK
<1>1. Spec => Init /\ [][Next]_vars
  BY DEF Spec
<1> QED BY <1>1, TypeInvInit, TypeInvNext, TypeInvIsTypeOK, PTL

-----------------------------------------------------------------------------
(* Answers *)

\* The table has r as row i, or it has eventCap rows and none of them is older.  The
\* table is the array events, which the page renders once initialLoading is reset.
Shows(i, r) ==
  \/ events'[i] = r
  \/ /\ Cardinality({j \in Ids : events'[j] # None}) = EventCap
     /\ \A j \in Ids : events'[j] # None => ~Younger(i, j)

\* "The DB is the source of truth": every row of a page that arrives replaces what
\* the stream or an earlier answer said of it.  It is in the table at once, unless
\* eventCap rows that are no older are; a frozen table keeps it for the rebuild it
\* owes.
AnswerTaken ==
  \A l \in Loads :
    /\ load[l] # None /\ load[l].answer # None
    /\ load'[l] = None /\ faults' = faults
    => \A i \in DOMAIN load[l].answer :
         IF Frozen THEN eventMap'[i] = load[l].answer[i] /\ pendingRebuild'
                   ELSE Shows(i, load[l].answer[i])

AnswersShown == [][AnswerTaken]_vars

\* A call that has been answered has asked for a page, and pages are of rows.
Answered ==
  \A l \in Loads : load[l] # None /\ load[l].answer # None =>
    load[l].what # "stats" /\ DOMAIN load[l].answer \subseteq Ids

LEMMA AnsweredInit == Init => Answered
  BY DEF Init, Answered, Request

LEMMA AnsweredNext == Served /\ Answered /\ [Next]_vars => Answered'
<1> SUFFICES ASSUME Served, Answered, [Next]_vars PROVE Answered'
  OBVIOUS
<1>0. load = [l \in Loads |-> load[l]]
  BY DEF Served
<1>1. ASSUME UNCHANGED load PROVE Answered'
  BY <1>1 DEF Answered
<1>2. ASSUME NEW l \in Loads, NEW what, Ask(l, what) PROVE Answered'
  <2>1. load'[l].answer = None /\ \A k \in Loads \ {l} : load'[k] = load[k]
    BY <1>0, <1>2 DEF Ask, Request
  <2> QED BY <2>1 DEF Answered
<1>3. ASSUME NEW l \in Loads, Done(l) PROVE Answered'
  <2>1. load'[l] = None /\ \A k \in Loads \ {l} : load'[k] = load[k]
    BY <1>0, <1>3 DEF Done
  <2> QED BY <2>1 DEF Answered
<1>4. ASSUME NEW l \in Loads, Serve(l) PROVE Answered'
  <2>1. PICK a \in getAll : load' = [load EXCEPT ![l] = [what |-> "page", answer |-> a]]
    BY <1>4 DEF Serve
  <2>2. PICK T \in Newest(Present, FirstPage) : a = [i \in T |-> rows[i]]
    BY DEF getAll
  <2>3. DOMAIN a \subseteq Ids
    BY <2>2 DEF Newest, First, Present
  <2>4. /\ load'[l].what = "page" /\ load'[l].answer = a
        /\ \A k \in Loads \ {l} : load'[k] = load[k]
    BY <1>0, <2>1
  <2> QED BY <2>3, <2>4 DEF Answered
<1>5. ASSUME NEW l \in Loads, StatsArrive(l) \/ PageArrives(l) \/ LoadFails(l) PROVE Answered'
  BY <1>2, <1>3, <1>5 DEF StatsArrive, PageArrives, LoadFails
<1>6. CASE PollTick \/ OverflowTimer
  BY <1>2, <1>6 DEF PollTick, OverflowTimer, Loads
<1>7. CASE Write \/ Clean \/ RebuildTimer \/ StreamError \/ Reconnect \/ togglePause \/ handleScrollAway
  BY <1>1, <1>7 DEF Write, Clean, page, RebuildTimer, StreamError, Reconnect, togglePause, handleScrollAway
<1>8. ASSUME NEW x \in feed, Receive(x) \/ Drop(x) PROVE Answered'
  BY <1>1, <1>8 DEF Receive, Drop
<1>9. CASE UNCHANGED vars
  BY <1>1, <1>9 DEF vars
<1> QED BY <1>4, <1>5, <1>6, <1>7, <1>8, <1>9 DEF Next

\* A rebuild shows a row it is given, or as many rows as the table may have.
LEMMA RebuildShows ==
  ASSUME NEW m, NEW e, Rebuild(FALSE, m, e), NEW i \in Ids, m[i] # None
  PROVE  Shows(i, m[i])
<1> DEFINE S == {j \in Ids : m[j] # None}
<1>1. PICK kept \in Newest(S, EventCap) :
         events' = [j \in Ids |-> IF j \in kept THEN m[j] ELSE None]
  BY DEF Rebuild
<1>2. /\ kept \subseteq S
      /\ Cardinality(kept) = IF Cardinality(S) < EventCap THEN Cardinality(S) ELSE EventCap
      /\ \A t \in kept, s \in S \ kept : ~Younger(s, t)
  BY DEF Newest, First
<1>3. CASE i \in kept
  BY <1>1, <1>3 DEF Shows
<1>4. CASE i \notin kept
  <2>1. i \in S \ kept
    BY <1>4
  <2>2. IsFiniteSet(S)
    BY StoreAssumption, FS_Subset
  <2>3. Cardinality(kept) # Cardinality(S)
    BY <1>2, <2>1, <2>2, FS_Subset
  <2>4. Cardinality(kept) = EventCap
    BY <1>2, <2>3
  <2>5. {j \in Ids : events'[j] # None} = kept
    BY <1>1, <1>2
  <2>6. \A j \in Ids : events'[j] # None => ~Younger(i, j)
    BY <1>2, <2>1, <2>5
  <2> QED BY <2>4, <2>5, <2>6 DEF Shows
<1> QED BY <1>3, <1>4

LEMMA AnswerTakenNext == TypeInv /\ Answered /\ [Next]_vars => AnswerTaken
<1> SUFFICES ASSUME TypeInv, Answered, [Next]_vars, NEW l \in Loads,
                    load[l] # None, load[l].answer # None,
                    load'[l] = None, faults' = faults,
                    NEW i \in DOMAIN load[l].answer
             PROVE  IF Frozen THEN eventMap'[i] = load[l].answer[i] /\ pendingRebuild'
                              ELSE Shows(i, load[l].answer[i])
  BY DEF AnswerTaken
<1> DEFINE d == load[l].answer
<1>0. load = [k \in Loads |-> load[k]] /\ faults \in Nat /\ ~Fault /\ Frozen \in BOOLEAN
  BY DEF TypeInv, Served, ServerTypes, StoreTypeOK, Fault, Caught, Frozen
<1>1. load[l].what # "stats" /\ i \in Ids /\ d[i] \in Row
  BY DEF Answered, TypeInv, Served
<1>2. load'[l] # load[l]
  OBVIOUS
<1>3. PageArrives(l)
  <2>1. ASSUME NEW k \in Loads, k # l,
               \/ \E v : load' = [load EXCEPT ![k] = v]
        PROVE  FALSE
    BY <1>0, <1>2, <2>1
  <2>2. ASSUME NEW k \in Loads, Serve(k) \/ StatsArrive(k) \/ PageArrives(k) \/ LoadFails(k)
        PROVE  PageArrives(l)
    <3>1. CASE k = l
      BY <1>0, <1>1, <2>2, <3>1 DEF Serve, StatsArrive, LoadFails
    <3>2. CASE k # l
      <4>1. \E v : load' = [load EXCEPT ![k] = v]
        BY <2>2 DEF Serve, StatsArrive, PageArrives, LoadFails, Ask, Done
      <4> QED BY <2>1, <3>2, <4>1
    <3> QED BY <3>1, <3>2
  <2>3. CASE PollTick
    <3>1. l # "poll" /\ load' = [load EXCEPT !["poll"] = Request("stats")]
      BY <2>3 DEF PollTick, Ask
    <3> QED BY <1>0, <1>2, <3>1
  <2>4. CASE OverflowTimer
    <3>1. l # "reload" /\ load' = [load EXCEPT !["reload"] = Request("page")]
      BY <2>4 DEF OverflowTimer, Ask
    <3> QED BY <1>0, <1>2, <3>1
  <2>5. CASE Write \/ Clean \/ RebuildTimer \/ StreamError \/ Reconnect \/ togglePause \/ handleScrollAway
    BY <1>2, <2>5 DEF Write, Clean, page, RebuildTimer, StreamError, Reconnect, togglePause, handleScrollAway
  <2>6. ASSUME NEW x \in feed, Receive(x) \/ Drop(x) PROVE FALSE
    BY <1>2, <2>6 DEF Receive, Drop
  <2>7. CASE UNCHANGED vars
    BY <1>2, <2>7 DEF vars
  <2> QED BY <2>2, <2>3, <2>4, <2>5, <2>6, <2>7 DEF Next
<1>4. Rebuild(Frozen, Known(d), Patched(d))
  BY <1>3 DEF PageArrives
<1>5. Known(d)[i] = d[i]
  BY <1>1 DEF Known
<1>6. CASE Frozen
  BY <1>0, <1>4, <1>5, <1>6, Rebuilds
<1>7. CASE ~Frozen
  <2>1. Rebuild(FALSE, Known(d), Patched(d))
    BY <1>0, <1>4, <1>7
  <2>2. Known(d)[i] # None
    BY <1>1, <1>5, StoreMarkers
  <2>3. Shows(i, Known(d)[i])
    BY <1>1, <2>1, <2>2, RebuildShows
  <2> QED BY <1>5, <1>7, <2>3
<1> QED BY <1>6, <1>7

\* Whatever the stream delivered before or after it, a page that arrives is taken
\* over row by row; no row of it is lost to a pause or a scroll.  It is the part of
\* FirstPageConverges that does not depend on fairness.
THEOREM PagesAreTaken == Spec => AnswersShown
<1>1. Spec => Init /\ [][Next]_vars
  BY DEF Spec
<1>2. Spec => [](TypeInv /\ Answered)
  <2>1. TypeInv /\ Answered /\ [Next]_vars => TypeInv' /\ Answered'
    BY TypeInvNext, AnsweredNext DEF TypeInv
  <2> QED BY <1>1, <2>1, TypeInvInit, AnsweredInit, PTL
<1>3. TypeInv /\ Answered /\ [Next]_vars => [AnswerTaken]_vars
  BY AnswerTakenNext
<1> QED BY <1>1, <1>2, <1>3, PTL DEF AnswersShown

=============================================================================
