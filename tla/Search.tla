------------------------------- MODULE Search -------------------------------
(***************************************************************************)
(* The search page over the event table: a form, a first page of results   *)
(* and further pages that are read by offset and appended, while rows      *)
(* arrive, change and are deleted between the pages and answers come back  *)
(* late.                                                                   *)
(*                                                                         *)
(* Sources: lookup and filter of internal/events/repository.go, Search of  *)
(* internal/events/service.go, internal/model/search.go, search of         *)
(* internal/api/handler/events.go, and the page itself,                    *)
(* frontend/src/routes/(private)/search/+page.svelte.                      *)
(*                                                                         *)
(* Strings are abstract: None stands for one that is empty after trimming, *)
(* TooLong holds those with more than 255 characters.                      *)
(***************************************************************************)
EXTENDS EventStore, Sequences

CONSTANTS
  Provider, EventId, EventType,  \* row -> columns that never change
  Texts,      \* row -> the search strings its payload contains
  TooLong,    \* strings of more than 255 characters
  Forms,      \* contents of the form a user may type
  PageLimit,  \* limit of the page, and the default of Search
  MaxInputs   \* bound: edits and searches

ASSUME SearchAssumption ==
  /\ PageLimit \in Nat \ {0}
  /\ \A f \in Forms : {f.from, f.to} \subseteq Nat \cup {None}

\* The three callers of executeSearch.
Kinds == {"lookup", "filter", "more"}

Requests == [f : Forms, type : {"lookup", "filter"}, offset : Nat, limit : {PageLimit}]
Responses == [code : {200, 400, 500}, more : BOOLEAN, events : Seq(Ids)]

\* The absence of a value is not a value.
ASSUME SearchNone == None \notin Nat \cup Kinds \cup Requests \cup Responses

VARIABLES
  form,      \* what the user has entered
  inputs,    \* edits and searches so far
  shown,     \* displayedEvents
  offset, hasMore, lastSearchType,
  request,   \* kind -> the payload in flight, None if not loading
  response,  \* kind -> its answer, None before the server has answered
  watch,     \* history: the request whose first page was read last
  joined,    \* history: rows that began to match it since
  left,      \* history: some row ceased to match it since
  mixed      \* history: the results shown are not those of one request

page == <<shown, offset, hasMore, lastSearchType>>
calls == <<request, response>>
history == <<watch, joined, left, mixed>>
user == <<form, inputs>>
vars == <<store, faults, user, page, calls, history>>

-----------------------------------------------------------------------------
(* The form *)

quickLookupActive(f) == f.webhookId # None \/ f.eventId # None

filtersActive(f) ==
  \/ f.providers # {} \/ f.statuses # {}
  \/ \E v \in {f.eventType, f.code, f.from, f.to, f.text} : v # None
  \/ f.hasRetries \/ f.hasError

\* buildFormState.
Payload(f, type, o) ==
  [f |-> f, type |-> type, offset |-> o, limit |-> PageLimit]

\* validateLookup and validateFilter of the page; they return before anything
\* is sent.
PageAcceptsLookup(f) ==
  /\ quickLookupActive(f)
  /\ {f.webhookId, f.eventId} \cap TooLong = {}

PageAcceptsFilter(f) ==
  /\ f.providers # {} /\ f.statuses # {}
  /\ f.code # None => f.code >= 100 /\ f.code <= 511
  /\ (f.from = None) = (f.to = None)
  /\ f.from # None => ~(f.to < f.from)
  /\ {f.text, f.eventType} \cap TooLong = {}

-----------------------------------------------------------------------------
(* The server *)

validateLookup(f) ==
  /\ f.webhookId # None \/ f.eventId # None
  /\ {f.webhookId, f.eventId} \cap TooLong = {}

\* Mutant of validateFilter: a missing code counts as code 0.
validateFilter_NoNil(f) ==
  /\ f.providers # {} /\ f.statuses # {}
  /\ f.code # None /\ f.code >= 100 /\ f.code <= 511
  /\ (f.from = None) = (f.to = None)
  /\ f.from # None => f.from < f.to
  /\ {f.text, f.eventType} \cap TooLong = {}

validateFilter(f) ==
  /\ f.providers # {} /\ f.statuses # {}
  /\ f.code # None => f.code >= 100 /\ f.code <= 511
  /\ (f.from = None) = (f.to = None)
  /\ f.from # None => f.from < f.to
  /\ {f.text, f.eventType} \cap TooLong = {}

Validate(r) ==
  \/ r.type = "lookup" /\ validateLookup(r.f)
  \/ r.type = "filter" /\ validateFilter(r.f)

\* The WHERE clauses of lookup and filter.
Looked(f, i) == i = f.webhookId \/ (f.eventId # None /\ EventId[i] = f.eventId)

Filtered(f, i) ==
  /\ Provider[i] \in f.providers
  /\ f.eventType # None => EventType[i] = f.eventType
  /\ rows[i].status \in f.statuses
  /\ f.code # None => rows[i].code = f.code
  /\ f.from # None => f.from <= CreatedAt[i] /\ CreatedAt[i] <= f.to
  /\ f.text # None => f.text \in Texts[i]
  /\ f.hasRetries => rows[i].retries > 0
  /\ f.hasError => rows[i].error

Matching(r) ==
  {i \in Present : IF r.type = "lookup" THEN Looked(r.f, i) ELSE Filtered(r.f, i)}

\* The possible results of ORDER BY created_at DESC.
Sorted(S) ==
  {q \in [1..Cardinality(S) -> S] :
     \A a, b \in DOMAIN q : a < b => q[a] # q[b] /\ ~Younger(q[b], q[a])}

Least(a, b) == IF a < b THEN a ELSE b

\* Mutant of Found: the rows are read without the extra one.
Found_NoExtra(r, q) ==
  LET limit == IF r.limit <= 0 THEN PageLimit ELSE r.limit
      found == SubSeq(q, r.offset + 1, Least(Len(q), r.offset + limit))
  IN  [code |-> 200, more |-> Len(found) > limit,
       events |-> SubSeq(found, 1, Least(Len(found), limit))]

\* Search: LIMIT and OFFSET on the sorted rows q, with one row more than the page
\* holds to see whether there are others.
Found(r, q) ==
  LET limit == IF r.limit <= 0 THEN PageLimit ELSE r.limit
      found == SubSeq(q, r.offset + 1, Least(Len(q), r.offset + limit + 1))
  IN  [code |-> 200, more |-> Len(found) > limit,
       events |-> SubSeq(found, 1, Least(Len(found), limit))]

Refused(code) == [code |-> code, more |-> FALSE, events |-> <<>>]

\* The handler: 400 for what Validate refuses, else one query.
Answers(r) ==
  IF Validate(r) THEN {Found(r, q) : q \in Sorted(Matching(r))} ELSE {Refused(400)}

-----------------------------------------------------------------------------

Init ==
  /\ StoreInit
  /\ form \in Forms /\ inputs = 0
  /\ shown = <<>> /\ offset = 0 /\ hasMore = FALSE /\ lastSearchType = None
  /\ request = [k \in Kinds |-> None]
  /\ response = [k \in Kinds |-> None]
  /\ watch = None /\ joined = {} /\ left = FALSE /\ mixed = FALSE

TypeOK ==
  /\ StoreTypeOK
  /\ form \in Forms /\ inputs \in Nat
  /\ shown \in Seq(Ids)
  /\ offset % PageLimit = 0 /\ hasMore \in BOOLEAN
  /\ lastSearchType \in {"lookup", "filter", None}
  /\ \A k \in Kinds : request[k] # None => request[k] \in Requests
  /\ \A k \in Kinds : response[k] # None => request[k] # None /\ response[k] \in Responses
  /\ joined \subseteq Ids /\ left \in BOOLEAN /\ mixed \in BOOLEAN

Input == inputs < MaxInputs /\ inputs' = inputs + 1

\* The user edits the form.  A later page would be read with the new contents.
Edit(f) ==
  /\ Input
  /\ f # form
  /\ form' = f
  /\ mixed' = (mixed \/ lastSearchType # None)
  /\ UNCHANGED <<store, faults, page, calls, watch, joined, left>>

Submit(k) ==
  /\ Input
  /\ request' = [request EXCEPT ![k] = Payload(form, k, 0)]
  /\ offset' = 0
  /\ lastSearchType' = k
  /\ mixed' = (\E other \in Kinds : request[other] # None)
  /\ UNCHANGED <<store, faults, form, shown, hasMore, response, watch, joined, left>>

handleLookup ==
  /\ quickLookupActive(form) /\ ~filtersActive(form)
  /\ request["lookup"] = None
  /\ PageAcceptsLookup(form)
  /\ Submit("lookup")

handleFilter ==
  /\ quickLookupActive(form) \/ filtersActive(form)
  /\ request["filter"] = None
  /\ PageAcceptsFilter(form)
  /\ Submit("filter")

\* Mutant of loadMore: the next page starts one row further on.
loadMore_Skips ==
  /\ lastSearchType # None /\ hasMore /\ shown # <<>>
  /\ request["more"] = None
  /\ request' = [request EXCEPT !["more"] = Payload(form, lastSearchType, offset + PageLimit + 1)]
  /\ mixed' = (mixed \/ \E k \in Kinds : request[k] # None)
  /\ UNCHANGED <<store, faults, user, page, response, watch, joined, left>>

\* Mutant of loadMore: the next page starts at the last row shown.
loadMore_Repeats ==
  /\ lastSearchType # None /\ hasMore /\ shown # <<>>
  /\ request["more"] = None
  /\ request' = [request EXCEPT !["more"] = Payload(form, lastSearchType, offset)]
  /\ mixed' = (mixed \/ \E k \in Kinds : request[k] # None)
  /\ UNCHANGED <<store, faults, user, page, response, watch, joined, left>>

\* The table asks for the next page when its last rows come into view.
loadMore ==
  /\ lastSearchType # None /\ hasMore /\ shown # <<>>
  /\ request["more"] = None
  /\ request' = [request EXCEPT !["more"] = Payload(form, lastSearchType, offset + PageLimit)]
  /\ mixed' = (mixed \/ \E k \in Kinds : request[k] # None)
  /\ UNCHANGED <<store, faults, user, page, response, watch, joined, left>>

Outstanding(k) == request[k] # None /\ response[k] = None

\* The server handles the request.
Serve(k) ==
  /\ Outstanding(k)
  /\ \E a \in Answers(request[k]) : response' = [response EXCEPT ![k] = a]
  /\ IF k = "more" THEN UNCHANGED <<watch, joined, left>>
     ELSE watch' = request[k] /\ joined' = {} /\ left' = FALSE
  /\ UNCHANGED <<store, faults, user, page, request, mixed>>

\* The statement fails, the connection breaks, or the session cannot be renewed.
ServeFails(k) ==
  /\ Fault
  /\ Outstanding(k)
  /\ response' = [response EXCEPT ![k] = Refused(500)]
  /\ UNCHANGED <<store, user, page, request, history>>

\* The rest of handleLookup and handleFilter.
ShowFirst(k) ==
  IF response[k].code = 200
  THEN /\ shown' = response[k].events /\ hasMore' = response[k].more
       /\ UNCHANGED <<offset, lastSearchType, mixed>>
  ELSE mixed' = TRUE /\ UNCHANGED page

\* The rest of loadMore.
ShowMore ==
  IF response["more"].code = 200
  THEN /\ shown' = shown \o response["more"].events
       /\ offset' = request["more"].offset
       /\ hasMore' = response["more"].more
       /\ UNCHANGED <<lastSearchType, mixed>>
  ELSE UNCHANGED <<page, mixed>>

\* finally: the caller is no longer loading.
Done(k) ==
  /\ request' = [request EXCEPT ![k] = None]
  /\ response' = [response EXCEPT ![k] = None]

\* The answer arrives in the page.
Resolve(k) ==
  /\ response[k] # None
  /\ IF k = "more" THEN ShowMore ELSE ShowFirst(k)
  /\ Done(k)
  /\ UNCHANGED <<store, faults, user, watch, joined, left>>

\* Which rows match the watched request is noted whenever the table changes.
Track ==
  /\ UNCHANGED <<user, page, calls, watch, mixed>>
  /\ IF watch = None THEN UNCHANGED <<joined, left>>
     ELSE LET before == Matching(watch)
              after == Matching(watch)'
          IN  joined' = joined \cup (after \ before) /\ left' = (left \/ before \ after # {})

Write ==
  /\ \E i \in Ids : InsertRow(i) \/ ClaimRow(i) \/ RecordRow(i)
  /\ UNCHANGED <<horizon, cleaning, excess, faults>>
  /\ Track

Clean == (CleanupStep \/ Age) /\ Track

Next ==
  \/ \E f \in Forms : Edit(f)
  \/ handleLookup \/ handleFilter \/ loadMore
  \/ \E k \in Kinds : Serve(k) \/ ServeFails(k) \/ Resolve(k)
  \/ Write \/ Clean

Spec == Init /\ [][Next]_vars /\ CleanupFairness

-----------------------------------------------------------------------------

\* While nothing else has touched the result list, created_at tells the rows
\* apart that it may hold.
Pure ==
  /\ ~mixed /\ watch # None /\ lastSearchType = watch.type /\ request[watch.type] = None
  /\ \A i, j \in Ids \ {i \in Ids : rows[i] = Unborn} : CreatedAt[i] = CreatedAt[j] => i = j

\* The server refuses what the page has accepted only for a time range whose ends
\* are equal; a later page, which the page does not check, only if the form was
\* edited.  Everything else is answered unless the server fails.
AnsweredUnlessFault ==
  \A k \in Kinds : response[k] # None =>
    /\ response[k].code = 400 =>
         \/ request[k].f.from # None /\ request[k].f.from = request[k].f.to
         \/ k = "more" /\ mixed
    /\ response[k].code = 500 => faults > 0

\* Offset paging shows a row twice only if some row began to match after the
\* first page was read.
PagesUnique ==
  Pure /\ joined = {} => \A a, b \in DOMAIN shown : shown[a] = shown[b] => a = b

\* Offset paging skips a row only if some row ceased to match after the first
\* page was read: whatever matched then and still does is shown, unless it is
\* older than everything shown and the page offers to load more.
PagesComplete ==
  Pure /\ ~left =>
    \A i \in Matching(watch) \ joined :
      \/ \E a \in DOMAIN shown : shown[a] = i
      \/ hasMore /\ \A a \in DOMAIN shown : Younger(shown[a], i)

=============================================================================
