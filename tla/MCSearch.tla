------------------------------ MODULE MCSearch ------------------------------
(***************************************************************************)
(* Three rows with the same event id from different providers, and forms   *)
(* that find all of them, look them up, or are at the edge of what is      *)
(* accepted.                                                               *)
(***************************************************************************)
EXTENDS Search

MCIds == 1..3
MCCreatedAt == <<1, 2, 3>>
MCReceivedAt == <<1, 2, 3>>
MCProvider == <<"Stripe", "Github", "Shopify">>
MCEventId == [i \in MCIds |-> "evt"]
MCEventType == [i \in MCIds |-> "charge"]
MCTexts == [i \in MCIds |-> {"paid"}]

Empty == [webhookId |-> None, eventId |-> None, providers |-> {}, statuses |-> {},
          eventType |-> None, code |-> None, from |-> None, to |-> None, text |-> None,
          hasRetries |-> FALSE, hasError |-> FALSE]

All == [Empty EXCEPT !.providers = {"Stripe", "Github", "Shopify"}, !.statuses = {"queued", "delivered"}]

MCForms ==
  {All,
   [All EXCEPT !.from = 1, !.to = 1],
   [Empty EXCEPT !.eventId = "evt"]}

=============================================================================
