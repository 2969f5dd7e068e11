------------------------------ MODULE EventHub ------------------------------
(***************************************************************************)
(* The live feed: handlers and workers Send events into a bounded channel, *)
(* one goroutine batches them and hands every batch to the subscribers,    *)
(* and one handler per connected dashboard writes the batches to its       *)
(* client.  Nothing in the pipeline blocks on a slow client: what does not *)
(* fit is dropped.                                                         *)
(*                                                                         *)
(* Source: internal/events/service.go (Start, drainBroadcast, flush,       *)
(* Subscribe, Send, Dropped) and internal/api/handler/events.go (SSE,      *)
(* streamBatch).                                                           *)
(*                                                                         *)
(* An event is the number of its Send.  s.mu is held over several steps    *)
(* only while the hub drains the channel; every other critical section is  *)
(* one step.                                                               *)
(***************************************************************************)
EXTENDS Integers, Sequences

CONSTANTS
  Clients,       \* dashboards that connect and disconnect
  MaxSent,       \* bound on the number of Sends
  BroadcastCap,  \* maxBufferSize
  BatchCap,      \* maxBatchSize
  ChannelCap     \* maxHooksPerChannel

ASSUME HubAssumption ==
  /\ MaxSent \in Nat
  /\ BroadcastCap \in Nat \ {0} /\ BatchCap \in Nat \ {0} /\ ChannelCap \in Nat \ {0}

VARIABLES
  sent,         \* number of Sends so far
  broadcast,    \* s.broadcast, a buffered channel
  buffer,       \* s.buffer
  dropped,      \* s.dropped
  hub,          \* where the goroutine of Start is
  batch,        \* its local batch in flush
  subscribers,  \* keys of s.subscribers, by the client they serve
  channel,      \* client -> batches in its channel
  pc,           \* client -> where its SSE handler is
  hand,         \* client -> the batch its handler is writing
  last,         \* history: the newest event the connection has received
  alone,        \* history: it has been the only subscriber since it connected
  missed,       \* history: events cut from batches while it was subscribed
  told          \* history: the sum of the overflow counts it received

hubVars == <<broadcast, buffer, dropped, hub, batch>>
subVars == <<subscribers, channel>>
history == <<last, alone, missed, told>>
vars == <<sent, hubVars, subVars, pc, hand, history>>

EventSeqs == Seq(1 .. MaxSent)

TypeOK ==
  /\ sent \in 0 .. MaxSent
  /\ broadcast \in EventSeqs /\ Len(broadcast) <= BroadcastCap
  /\ buffer \in EventSeqs
  /\ dropped \in 0 .. MaxSent
  /\ hub \in {"select", "drain", "flush", "batch"}
  /\ batch \in EventSeqs /\ Len(batch) <= BatchCap
  /\ subscribers \subseteq Clients
  /\ \A c \in Clients :
       /\ channel[c] \in Seq(EventSeqs) /\ Len(channel[c]) <= ChannelCap
       /\ hand[c] \in EventSeqs
       /\ pc[c] \in {"off", "select", "write", "wrote", "leave"}
       /\ last[c] \in 0 .. MaxSent
       /\ alone[c] \in BOOLEAN
       /\ missed[c] \in 0 .. MaxSent
       /\ told[c] \in 0 .. MaxSent

Init ==
  /\ sent = 0
  /\ broadcast = <<>>
  /\ buffer = <<>>
  /\ dropped = 0
  /\ hub = "select"
  /\ batch = <<>>
  /\ subscribers = {}
  /\ channel = [c \in Clients |-> <<>>]
  /\ pc = [c \in Clients |-> "off"]
  /\ hand = [c \in Clients |-> <<>>]
  /\ last = [c \in Clients |-> 0]
  /\ alone = [c \in Clients |-> FALSE]
  /\ missed = [c \in Clients |-> 0]
  /\ told = [c \in Clients |-> 0]

-----------------------------------------------------------------------------
(* The hub *)

\* An event that finds the channel full is dropped, and not counted.
Send ==
  /\ sent < MaxSent
  /\ sent' = sent + 1
  /\ broadcast' = IF Len(broadcast) < BroadcastCap THEN Append(broadcast, sent + 1)
                                                   ELSE broadcast
  /\ UNCHANGED <<buffer, dropped, hub, batch, subVars, pc, hand, history>>

TakeOne ==
  /\ broadcast # <<>>
  /\ buffer' = Append(buffer, Head(broadcast))
  /\ broadcast' = Tail(broadcast)
  /\ UNCHANGED <<sent, dropped, hub, batch, subVars, pc, hand, history>>

\* The select of Start takes an event, or the ticker.
Consume == hub = "select" /\ TakeOne

TickerPulse ==
  /\ hub = "select"
  /\ hub' = "drain"
  /\ UNCHANGED <<sent, broadcast, buffer, dropped, batch, subVars, pc, hand, history>>

\* drainBroadcast holds the mutex until it finds the channel empty.
DrainOne == hub = "drain" /\ TakeOne

DrainDone ==
  /\ hub = "drain"
  /\ broadcast = <<>>
  /\ hub' = "flush"
  /\ UNCHANGED <<sent, broadcast, buffer, dropped, batch, subVars, pc, hand, history>>

MutexFree == hub # "drain"

\* As Excess, but the comparison with maxBatchSize is off by one.
Excess_OffByOne == IF Len(buffer) > BatchCap + 1 THEN Len(buffer) - BatchCap ELSE 0

Excess == IF Len(buffer) > BatchCap THEN Len(buffer) - BatchCap ELSE 0

\* As FlushCapture, but the oldest events are kept and the newest come later.
FlushCapture_KeepsRest ==
  /\ hub = "flush"
  /\ buffer # <<>>
  /\ batch' = SubSeq(buffer, Excess + 1, Len(buffer))
  /\ dropped' = dropped + Excess
  /\ missed' = [c \in Clients |-> IF c \in subscribers THEN missed[c] + Excess
                                                       ELSE missed[c]]
  /\ buffer' = SubSeq(buffer, 1, Excess)
  /\ hub' = "batch"
  /\ UNCHANGED <<sent, broadcast, subVars, pc, hand, last, alone, told>>

\* As FlushCapture, but the count of an earlier flush is overwritten.
FlushCapture_Overwrites ==
  /\ hub = "flush"
  /\ buffer # <<>>
  /\ batch' = SubSeq(buffer, Excess + 1, Len(buffer))
  /\ dropped' = Excess
  /\ missed' = [c \in Clients |-> IF c \in subscribers THEN missed[c] + Excess
                                                       ELSE missed[c]]
  /\ buffer' = <<>>
  /\ hub' = "batch"
  /\ UNCHANGED <<sent, broadcast, subVars, pc, hand, last, alone, told>>

\* The first critical section of flush keeps the newest events and counts the
\* others.
FlushCapture ==
  /\ hub = "flush"
  /\ buffer # <<>>
  /\ batch' = SubSeq(buffer, Excess + 1, Len(buffer))
  /\ dropped' = dropped + Excess
  /\ missed' = [c \in Clients |-> IF c \in subscribers THEN missed[c] + Excess
                                                       ELSE missed[c]]
  /\ buffer' = <<>>
  /\ hub' = "batch"
  /\ UNCHANGED <<sent, broadcast, subVars, pc, hand, last, alone, told>>

FlushNothing ==
  /\ hub = "flush"
  /\ buffer = <<>>
  /\ hub' = "select"
  /\ UNCHANGED <<sent, broadcast, buffer, dropped, batch, subVars, pc, hand, history>>

\* As FlushBroadcast, but the send waits for room in every channel.
FlushBroadcast_Blocking ==
  /\ hub = "batch"
  /\ \A c \in subscribers : Len(channel[c]) < ChannelCap
  /\ channel' = [c \in Clients |-> IF c \in subscribers THEN Append(channel[c], batch)
                                                        ELSE channel[c]]
  /\ batch' = <<>>
  /\ hub' = "select"
  /\ UNCHANGED <<sent, broadcast, buffer, dropped, subscribers, pc, hand, history>>

\* The second critical section offers the batch to every subscriber; one whose
\* channel is full loses it.
FlushBroadcast ==
  /\ hub = "batch"
  /\ channel' = [c \in Clients |->
                   IF c \in subscribers /\ Len(channel[c]) < ChannelCap
                   THEN Append(channel[c], batch) ELSE channel[c]]
  /\ batch' = <<>>
  /\ hub' = "select"
  /\ UNCHANGED <<sent, broadcast, buffer, dropped, subscribers, pc, hand, history>>

HubStep ==
  \/ Consume \/ TickerPulse \/ DrainOne \/ DrainDone
  \/ FlushCapture \/ FlushNothing \/ FlushBroadcast

-----------------------------------------------------------------------------
(* One SSE handler per client *)

\* Every connection has a channel of its own.
Subscribe(c) ==
  /\ pc[c] = "off"
  /\ MutexFree
  /\ subscribers' = subscribers \cup {c}
  /\ channel' = [channel EXCEPT ![c] = <<>>]
  /\ pc' = [pc EXCEPT ![c] = "select"]
  /\ last' = [last EXCEPT ![c] = 0]
  /\ alone' = [d \in Clients |-> d = c /\ subscribers = {}]
  /\ missed' = [missed EXCEPT ![c] = 0]
  /\ told' = [told EXCEPT ![c] = 0]
  /\ UNCHANGED <<sent, hubVars, hand>>

TakeBatch(c) ==
  /\ pc[c] = "select"
  /\ channel[c] # <<>>
  /\ hand' = [hand EXCEPT ![c] = Head(channel[c])]
  /\ channel' = [channel EXCEPT ![c] = Tail(@)]
  /\ pc' = [pc EXCEPT ![c] = "write"]
  /\ UNCHANGED <<sent, hubVars, subscribers, history>>

\* The data frame of streamBatch reaches the client.
WriteBatch(c) ==
  /\ pc[c] = "write"
  /\ last' = [last EXCEPT ![c] = hand[c][Len(hand[c])]]
  /\ hand' = [hand EXCEPT ![c] = <<>>]
  /\ pc' = [pc EXCEPT ![c] = "wrote"]
  /\ UNCHANGED <<sent, hubVars, subVars, alone, missed, told>>

\* Dropped() swaps the counter for zero; a positive count becomes an overflow
\* frame.
SignalOverflow(c) ==
  /\ pc[c] = "wrote"
  /\ dropped' = 0
  /\ told' = [told EXCEPT ![c] = @ + dropped]
  /\ pc' = [pc EXCEPT ![c] = "select"]
  /\ UNCHANGED <<sent, broadcast, buffer, hub, batch, subVars, hand, last, alone, missed>>

\* The overflow frame cannot be written: the count is gone.
SignalFails(c) ==
  /\ pc[c] = "wrote"
  /\ dropped > 0
  /\ dropped' = 0
  /\ pc' = [pc EXCEPT ![c] = "leave"]
  /\ UNCHANGED <<sent, broadcast, buffer, hub, batch, subVars, hand, history>>

\* The client goes away, or a heartbeat or a batch cannot be written.
Disconnect(c) ==
  /\ pc[c] \in {"select", "write"}
  /\ hand' = [hand EXCEPT ![c] = <<>>]
  /\ pc' = [pc EXCEPT ![c] = "leave"]
  /\ UNCHANGED <<sent, hubVars, subVars, history>>

\* As Unsubscribe, but the closed channel stays among the subscribers.
Unsubscribe_NoDelete(c) ==
  /\ pc[c] = "leave"
  /\ MutexFree
  /\ pc' = [pc EXCEPT ![c] = "off"]
  /\ channel' = [channel EXCEPT ![c] = <<>>]
  /\ UNCHANGED <<sent, hubVars, subscribers, hand, history>>

\* The deferred unsub removes the channel and closes it.
Unsubscribe(c) ==
  /\ pc[c] = "leave"
  /\ MutexFree
  /\ subscribers' = subscribers \ {c}
  /\ channel' = [channel EXCEPT ![c] = <<>>]
  /\ pc' = [pc EXCEPT ![c] = "off"]
  /\ UNCHANGED <<sent, hubVars, hand, history>>

ClientStep(c) ==
  \/ Subscribe(c) \/ TakeBatch(c) \/ WriteBatch(c) \/ SignalOverflow(c)
  \/ SignalFails(c) \/ Disconnect(c) \/ Unsubscribe(c)

Next == Send \/ HubStep \/ \E c \in Clients : ClientStep(c)

Spec == Init /\ [][Next]_vars

\* The goroutine of Start runs as long as the application does.  Clients owe
\* nothing.
FairSpec == Spec /\ WF_vars(HubStep) /\ WF_vars(TickerPulse)

-----------------------------------------------------------------------------
(* Properties *)

Events(s) == {s[i] : i \in DOMAIN s}

Ascending(s) == \A i, j \in DOMAIN s : i < j => s[i] < s[j]
Precedes(s, t) == \A x \in Events(s), y \in Events(t) : x < y

\* What a connection has received last, and the queues of what it is receiving,
\* is about to receive and may still receive.
Stages(c) ==
  <<IF last[c] = 0 THEN <<>> ELSE <<last[c]>>, hand[c]>>
    \o channel[c] \o <<batch, buffer, broadcast>>

\* Whatever is dropped and whoever reconnects, a connection receives events in
\* the order in which they were sent, and none of them twice.
InSendOrder ==
  \A c \in subscribers :
    LET q == Stages(c)
    IN  \A i \in DOMAIN q :
          Ascending(q[i]) /\ \A j \in DOMAIN q : i < j => Precedes(q[i], q[j])

\* flush never sends on the closed channel of a connection that has ended,
\* which would end the program: the subscribers are the connections whose
\* handler has not yet run unsub.
SendsToOpenChannels ==
  [][\A c \in Clients : Len(channel'[c]) > Len(channel[c]) => pc[c] # "off"]_vars

\* A dashboard that has had the hub to itself and has caught up was told of
\* every event cut from a batch since it connected, those of batches that its
\* full channel lost included.  With a second dashboard it need not be: Dropped
\* resets one counter for all, and whichever handler asks first takes the count.
OverflowSignalled ==
  \A c \in subscribers :
    alone[c] /\ pc[c] = "select" /\ channel[c] = <<>> /\ hub # "batch" => told[c] >= missed[c]

\* An event that got into the channel leaves the hub, even if no client reads.
HubNeverBlocks ==
  \A n \in 1 .. MaxSent :
    n \in Events(broadcast) ~> n \notin Events(broadcast) \cup Events(buffer) \cup Events(batch)

=============================================================================
