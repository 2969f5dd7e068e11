------------------------------- MODULE Outbox -------------------------------
(***************************************************************************)
(* What the delivery pipeline promises, without workers, batches, claims,  *)
(* retries or clocks: an event is stored before anybody tries to deliver   *)
(* it, one attempt at a time is made for it, it counts as delivered only   *)
(* after the destination has accepted it, and it is then left alone.  An   *)
(* operator who replays an event gives up the last two promises for it.    *)
(*                                                                         *)
(* Delivery implements this specification, see ImplementsOutbox there.     *)
(***************************************************************************)
CONSTANT Events

VARIABLES
  phase,     \* event -> "absent", "open", "delivered" or "gone"
  taken,     \* events for which an attempt is under way
  accepted,  \* events the destination has accepted
  replayed   \* events an operator has asked to replay

vars == <<phase, taken, accepted, replayed>>

Init ==
  /\ phase = [e \in Events |-> "absent"]
  /\ taken = {}
  /\ accepted = {}
  /\ replayed = {}

\* The event is committed to the database.
Store(e) ==
  /\ phase[e] = "absent"
  /\ phase' = [phase EXCEPT ![e] = "open"]
  /\ UNCHANGED <<taken, accepted, replayed>>

\* Attempts begin, for stored events that are not delivered and for which, a
\* replay apart, no other attempt is under way.
Take(S) ==
  /\ \A e \in S : phase[e] = "open" /\ (e \in taken => e \in replayed)
  /\ taken' = taken \cup S
  /\ UNCHANGED <<phase, accepted, replayed>>

\* The destination accepts an event, with or without our knowing.
Accept(e) ==
  /\ e \in taken
  /\ accepted' = accepted \cup {e}
  /\ UNCHANGED <<phase, taken, replayed>>

\* Attempts for the events of S end and are recorded, those of D as successful.
\* A replayed event may be in the hands of somebody else still.
Finish(S, D) ==
  /\ S \subseteq taken /\ D \subseteq S \cap accepted
  /\ \A e \in S : phase[e] \in {"open", "delivered"}
  /\ phase' = [e \in Events |-> IF e \in D THEN "delivered"
                               ELSE IF e \in S THEN "open" ELSE phase[e]]
  /\ taken' \subseteq taken /\ S \cap taken' \subseteq replayed
  /\ UNCHANGED <<accepted, replayed>>

\* Attempts end without a trace.
Abandon ==
  /\ taken' \subseteq taken
  /\ UNCHANGED <<phase, accepted, replayed>>

Replay(e) ==
  /\ phase[e] \in {"open", "delivered"}
  /\ phase' = [phase EXCEPT ![e] = "open"]
  /\ replayed' = replayed \cup {e}
  /\ UNCHANGED <<taken, accepted>>

\* Old events are deleted, whatever has become of them.
Discard(S) ==
  /\ \A e \in S : phase[e] \in {"open", "delivered"}
  /\ phase' = [e \in Events |-> IF e \in S THEN "gone" ELSE phase[e]]
  /\ UNCHANGED <<taken, accepted, replayed>>

Next ==
  \/ \E e \in Events : Store(e) \/ Accept(e) \/ Replay(e)
  \/ \E S \in SUBSET Events : Take(S) \/ Discard(S)
  \/ \E S, D \in SUBSET Events : Finish(S, D)
  \/ Abandon

Spec == Init /\ [][Next]_vars

=============================================================================
