--------------------------- MODULE EventHubProofs ---------------------------
(***************************************************************************)
(* Proofs about the live feed, for any number of dashboards and any        *)
(* capacities of the channels.                                             *)
(***************************************************************************)
EXTENDS EventHub, SequenceTheorems, TLAPS

Batches == EventSeqs \ {<<>>}

\* The events that have not reached a batch.
Held == Len(buffer) + Len(broadcast)

\* Every event is in one place at a time, so the places together hold no more
\* than were sent, and batches are never empty.
Counted ==
  /\ sent \in 0 .. MaxSent
  /\ broadcast \in EventSeqs /\ Len(broadcast) <= BroadcastCap
  /\ buffer \in EventSeqs
  /\ dropped \in Nat /\ dropped + Held <= sent
  /\ hub \in {"select", "drain", "flush", "batch"}
  /\ batch \in EventSeqs /\ Len(batch) <= BatchCap
  /\ hub = "batch" => batch # <<>>

\* One connection: a subscriber until its handler has run unsub.
Connection(c) ==
  /\ c \in subscribers <=> pc[c] # "off"
  /\ channel[c] \in Seq(Batches) /\ Len(channel[c]) <= ChannelCap
  /\ hand[c] \in EventSeqs /\ (pc[c] = "write" => hand[c] # <<>>)
  /\ pc[c] \in {"off", "select", "write", "wrote", "leave"}
  /\ last[c] \in 0 .. MaxSent
  /\ alone[c] \in BOOLEAN
  /\ missed[c] \in Nat /\ missed[c] + Held <= sent
  /\ told[c] \in Nat /\ told[c] + dropped + Held <= sent

Shapes ==
  /\ subscribers \subseteq Clients
  /\ \A f \in {channel, hand, pc, last, alone, missed, told} : f = [c \in Clients |-> f[c]]

Typed == Counted /\ Shapes /\ \A c \in Clients : Connection(c)

LEMMA TypedInit == Init => Typed
<1> SUFFICES ASSUME Init PROVE Typed
  OBVIOUS
<1> USE HubAssumption
<1>1. <<>> \in EventSeqs /\ Len(<<>>) = 0 /\ <<>> \in Seq(Batches)
  BY DEF EventSeqs
<1>2. Held = 0
  BY <1>1 DEF Init, Held
<1>3. Counted
  BY <1>1, <1>2 DEF Init, Counted
<1>4. Shapes
  BY DEF Init, Shapes
<1>5. ASSUME NEW c \in Clients PROVE Connection(c)
  BY <1>1, <1>2 DEF Init, Connection
<1> QED BY <1>3, <1>4, <1>5 DEF Typed

LEMMA TypedIsTypeOK == Typed => TypeOK
<1> SUFFICES ASSUME Typed PROVE TypeOK
  OBVIOUS
<1>1. ASSUME NEW s \in Seq(Batches) PROVE s \in Seq(EventSeqs)
  BY DEF Batches
<1>2. \A s \in EventSeqs : Len(s) \in Nat
  BY DEF EventSeqs
<1>3. MaxSent \in Nat
  BY HubAssumption
<1>4. Held \in Nat
  BY <1>2 DEF Typed, Counted, Held
<1>5. sent \in 0 .. MaxSent /\ dropped \in 0 .. MaxSent
  BY <1>3, <1>4 DEF Typed, Counted
<1>6. ASSUME NEW c \in Clients
      PROVE  /\ channel[c] \in Seq(EventSeqs) /\ Len(channel[c]) <= ChannelCap
             /\ missed[c] \in 0 .. MaxSent /\ told[c] \in 0 .. MaxSent
  <2>1. Connection(c)
    BY DEF Typed
  <2>2. /\ missed[c] \in Nat /\ missed[c] + Held <= sent
        /\ told[c] \in Nat /\ told[c] + dropped + Held <= sent
    BY <2>1 DEF Connection
  <2>3. missed[c] <= MaxSent /\ told[c] <= MaxSent
    BY <2>2, <1>3, <1>4, <1>5
  <2> QED BY <2>1, <2>2, <2>3, <1>1, <1>3 DEF Connection
<1>7. ASSUME NEW c \in Clients
      PROVE  /\ hand[c] \in EventSeqs
             /\ pc[c] \in {"off", "select", "write", "wrote", "leave"}
             /\ last[c] \in 0 .. MaxSent
             /\ alone[c] \in BOOLEAN
  BY Zenon DEF Typed, Connection
<1>8. /\ broadcast \in EventSeqs /\ Len(broadcast) <= BroadcastCap
      /\ buffer \in EventSeqs
      /\ hub \in {"select", "drain", "flush", "batch"}
      /\ batch \in EventSeqs /\ Len(batch) <= BatchCap
      /\ subscribers \subseteq Clients
  BY Zenon DEF Typed, Counted, Shapes
<1> QED BY <1>5, <1>6, <1>7, <1>8, Zenon DEF TypeOK

LEMMA Queues ==
  ASSUME NEW S, NEW q \in Seq(S)
  PROVE  /\ Len(q) \in Nat /\ (q = <<>> <=> Len(q) = 0)
         /\ \A e \in S : /\ Append(q, e) \in Seq(S) /\ Len(Append(q, e)) = Len(q) + 1
                        /\ Append(q, e) # <<>>
         /\ q # <<>> => /\ Head(q) \in S /\ q[Len(q)] \in S
                       /\ Tail(q) \in Seq(S) /\ Len(Tail(q)) = Len(q) - 1
         /\ <<>> \in Seq(S)
<1>1. Len(q) \in Nat /\ (q = <<>> <=> Len(q) = 0) /\ <<>> \in Seq(S)
  BY EmptySeq
<1>2. ASSUME q # <<>> PROVE q[Len(q)] \in S
  BY <1>1, <1>2, LenProperties
<1> QED BY <1>1, <1>2, AppendProperties, HeadTailProperties

\* What flush cuts off, and what it keeps.
LEMMA Cut ==
  ASSUME Typed, buffer # <<>>
  PROVE  /\ Excess \in Nat /\ Excess <= Len(buffer)
         /\ SubSeq(buffer, Excess + 1, Len(buffer)) \in Batches
         /\ Len(SubSeq(buffer, Excess + 1, Len(buffer))) <= BatchCap
<1> DEFINE n == Len(buffer)
           s == SubSeq(buffer, Excess + 1, n)
<1>1. buffer \in Seq(1 .. MaxSent)
  BY DEF Typed, Counted, EventSeqs
<1>2. n \in Nat /\ n # 0
  BY <1>1
<1>3. Excess \in Nat /\ Excess < n /\ n - Excess <= BatchCap
  BY <1>2, HubAssumption DEF Excess
<1>4. Excess + 1 \in Int /\ n \in Int /\ \A i \in Excess + 1 .. n : buffer[i] \in 1 .. MaxSent
  <2>1. ASSUME NEW i \in Excess + 1 .. n PROVE i \in 1 .. n
    BY <1>2, <1>3
  <2>2. \A i \in 1 .. n : buffer[i] \in 1 .. MaxSent
    BY <1>1, LenProperties
  <2>3. Excess + 1 \in Int /\ n \in Int
    BY <1>2, <1>3
  <2> QED BY <2>1, <2>2, <2>3
<1>5. s \in Seq(1 .. MaxSent) /\ Len(s) = IF Excess + 1 <= n THEN n - (Excess + 1) + 1 ELSE 0
  BY <1>4, SubSeqProperties
<1>6. Len(s) = n - Excess /\ Len(s) # 0
  BY <1>2, <1>3, <1>5
<1> HIDE DEF s
<1>7. s \in Batches /\ Len(s) <= BatchCap
  BY <1>3, <1>5, <1>6, EmptySeq DEF Batches, EventSeqs
<1> QED BY <1>2, <1>3, <1>7 DEF s

\* A connection that a step leaves alone stays sound as long as no event is
\* counted that was not sent.
LEMMA Untouched ==
  ASSUME Typed, Held' \in Nat, dropped' \in Nat, sent' \in Nat,
         Held' + sent <= Held + sent',
         dropped' + Held' + sent <= dropped + Held + sent',
         NEW c \in Clients,
         (c \in subscribers') = (c \in subscribers),
         channel'[c] = channel[c], pc'[c] = pc[c], hand'[c] = hand[c], last'[c] = last[c],
         alone'[c] \in BOOLEAN, missed'[c] = missed[c], told'[c] = told[c]
  PROVE  Connection(c)'
<1>1. Connection(c) /\ Counted
  BY DEF Typed
<1>2. /\ missed[c] \in Nat /\ missed[c] + Held <= sent
      /\ told[c] \in Nat /\ told[c] + dropped + Held <= sent
  BY <1>1 DEF Connection
<1>3. sent \in Nat /\ dropped \in Nat
  BY <1>1, HubAssumption DEF Counted
<1>4. Held \in Nat
  <2>1. buffer \in Seq(1 .. MaxSent) /\ broadcast \in Seq(1 .. MaxSent)
    BY <1>1 DEF Counted, EventSeqs
  <2> QED BY <2>1 DEF Held
<1>5. missed'[c] + Held' <= sent' /\ told'[c] + dropped' + Held' <= sent'
  <2>1. ASSUME NEW m \in Nat, NEW h \in Nat, NEW s \in Nat, NEW h2 \in Nat, NEW s2 \in Nat,
               m + h <= s, h2 + s <= h + s2
        PROVE  m + h2 <= s2
    BY <2>1
  <2>2. missed[c] + Held' <= sent'
    BY <2>1, <1>2, <1>3, <1>4
  <2>3. dropped + Held \in Nat /\ dropped' + Held' \in Nat
    <3>1. \A a, b \in Nat : a + b \in Nat
      OBVIOUS
    <3> QED BY <3>1, <1>3, <1>4
  <2>4. told[c] + (dropped + Held) <= sent
    BY <1>2, <1>3, <1>4
  <2>5. told[c] + (dropped' + Held') <= sent'
    BY <2>1, <2>3, <2>4, <1>2, <1>3
  <2>6. told[c] + dropped' + Held' <= sent'
    BY <2>5, <1>2
  <2> QED BY <2>2, <2>6
<1> QED BY <1>1, <1>2, <1>5, Zenon DEF Connection

LEMMA Numbers ==
  ASSUME Typed
  PROVE  /\ sent \in Nat /\ dropped \in Nat /\ Held \in Nat
         /\ Len(buffer) \in Nat /\ Len(broadcast) \in Nat
         /\ dropped + Held <= sent
<1>1. buffer \in Seq(1 .. MaxSent) /\ broadcast \in Seq(1 .. MaxSent)
  BY DEF Typed, Counted, EventSeqs
<1> QED BY <1>1, HubAssumption DEF Typed, Counted, Held

\* A step of the hub that does not touch the connections.
LEMMA HubOnly ==
  ASSUME Typed, Counted', Held' \in Nat, dropped' \in Nat, sent' \in Nat,
         Held' + sent <= Held + sent',
         dropped' + Held' + sent <= dropped + Held + sent',
         UNCHANGED <<subVars, pc, hand, history>>
  PROVE  Typed'
<1>1. Shapes'
  BY DEF Typed, Shapes, subVars, history
<1>2. ASSUME NEW c \in Clients PROVE Connection(c)'
  <2>1. alone[c] \in BOOLEAN
    BY DEF Typed, Connection
  <2> QED BY <2>1, Untouched DEF subVars, history
<1> QED BY <1>1, <1>2 DEF Typed

LEMMA SendTyped == ASSUME Typed, Send PROVE Typed'
<1>1. broadcast \in Seq(1 .. MaxSent) /\ buffer \in Seq(1 .. MaxSent)
  BY DEF Typed, Counted, EventSeqs
<1>2. sent + 1 \in 1 .. MaxSent /\ sent' = sent + 1
  BY Numbers, HubAssumption DEF Send
<1>3. /\ broadcast' \in Seq(1 .. MaxSent) /\ Len(broadcast') <= BroadcastCap
      /\ Len(broadcast') \in Nat /\ Len(broadcast') <= Len(broadcast) + 1
  <2>1. CASE Len(broadcast) < BroadcastCap
    <3>1. broadcast' = Append(broadcast, sent + 1)
      BY <2>1 DEF Send
    <3>2. broadcast' \in Seq(1 .. MaxSent) /\ Len(broadcast') = Len(broadcast) + 1
      BY <3>1, <1>1, <1>2, Queues
    <3> QED BY <3>2, <2>1, Numbers, HubAssumption
  <2>2. CASE ~(Len(broadcast) < BroadcastCap)
    <3>1. broadcast' = broadcast
      BY <2>2 DEF Send
    <3> QED BY <3>1, <1>1, Numbers DEF Typed, Counted
  <2> QED BY <2>1, <2>2
<1>4. Held' \in Nat /\ Held' <= Held + 1
  BY <1>3, Numbers DEF Send, Held
<1>5. UNCHANGED <<buffer, dropped, hub, batch>> /\ UNCHANGED <<subVars, pc, hand, history>>
  BY DEF Send
<1>6. dropped' + Held' <= sent'
  BY <1>2, <1>4, <1>5, Numbers
<1>7. Counted'
  BY <1>2, <1>3, <1>5, <1>6 DEF Typed, Counted, EventSeqs
<1>8. /\ Held' + sent <= Held + sent' /\ sent' \in Nat /\ dropped' \in Nat
      /\ dropped' + Held' + sent <= dropped + Held + sent'
  BY <1>2, <1>4, <1>5, Numbers
<1> QED BY <1>4, <1>5, <1>7, <1>8, HubOnly

LEMMA TakeOneTyped == ASSUME Typed, TakeOne PROVE Typed'
<1>1. broadcast \in Seq(1 .. MaxSent) /\ buffer \in Seq(1 .. MaxSent)
  BY DEF Typed, Counted, EventSeqs
<1>2. /\ Head(broadcast) \in 1 .. MaxSent
      /\ broadcast' \in Seq(1 .. MaxSent) /\ Len(broadcast') = Len(broadcast) - 1
      /\ Len(broadcast') \in Nat
  BY <1>1, Queues DEF TakeOne
<1>3. buffer' \in Seq(1 .. MaxSent) /\ Len(buffer') = Len(buffer) + 1
  BY <1>1, <1>2, Queues DEF TakeOne
<1>4. Held' = Held
  BY <1>2, <1>3, Numbers DEF Held
<1>5. UNCHANGED <<sent, dropped, hub, batch>> /\ UNCHANGED <<subVars, pc, hand, history>>
  BY DEF TakeOne
<1>6. Len(broadcast') <= BroadcastCap
  BY <1>2, Numbers, HubAssumption DEF Typed, Counted
<1>7. Counted'
  BY <1>2, <1>3, <1>4, <1>5, <1>6 DEF Typed, Counted, EventSeqs
<1>8. /\ Held' + sent <= Held + sent' /\ sent' \in Nat /\ dropped' \in Nat /\ Held' \in Nat
      /\ dropped' + Held' + sent <= dropped + Held + sent'
  BY <1>4, <1>5, Numbers
<1> QED BY <1>5, <1>7, <1>8, HubOnly

\* A step of the hub that only moves on.
LEMMA MoveTyped ==
  ASSUME Typed, TickerPulse \/ DrainDone \/ FlushNothing
  PROVE  Typed'
<1>1. /\ UNCHANGED <<sent, broadcast, buffer, dropped, batch>>
      /\ UNCHANGED <<subVars, pc, hand, history>>
      /\ hub' \in {"select", "drain", "flush"}
  BY DEF TickerPulse, DrainDone, FlushNothing
<1>2. Held' = Held
  BY <1>1 DEF Held
<1>3. Counted'
  BY <1>1, <1>2 DEF Typed, Counted
<1>4. /\ Held' + sent <= Held + sent' /\ sent' \in Nat /\ dropped' \in Nat /\ Held' \in Nat
      /\ dropped' + Held' + sent <= dropped + Held + sent'
  BY <1>1, <1>2, Numbers
<1> QED BY <1>1, <1>3, <1>4, HubOnly

LEMMA CaptureTyped == ASSUME Typed, FlushCapture PROVE Typed'
<1>1. /\ Excess \in Nat /\ Excess <= Len(buffer)
      /\ batch' \in Batches /\ Len(batch') <= BatchCap
  BY Cut DEF FlushCapture
<1>2. /\ dropped' = dropped + Excess /\ buffer' = <<>> /\ hub' = "batch"
      /\ missed' = [c \in Clients |-> IF c \in subscribers THEN missed[c] + Excess
                                                            ELSE missed[c]]
      /\ UNCHANGED <<sent, broadcast, subscribers, channel, pc, hand, last, alone, told>>
  BY DEF FlushCapture, subVars
<1>3. <<>> \in EventSeqs /\ Len(<<>>) = 0
  BY EmptySeq DEF EventSeqs
<1>4. Held' = Len(broadcast) /\ Held' \in Nat
  BY <1>2, <1>3, Numbers DEF Held
<1>5. Held' + Excess <= Held
  BY <1>1, <1>4, Numbers DEF Held
<1>6. dropped' \in Nat /\ dropped' + Held' <= dropped + Held
  BY <1>1, <1>2, <1>4, <1>5, Numbers
<1>7. dropped' + Held' <= sent'
  BY <1>2, <1>4, <1>6, Numbers
<1>8. Counted'
  BY <1>1, <1>2, <1>3, <1>6, <1>7 DEF Typed, Counted, Batches
<1>9. Shapes'
  BY <1>2 DEF Typed, Shapes
<1>10. ASSUME NEW c \in Clients PROVE Connection(c)'
  <2>1. Connection(c)
    BY DEF Typed
  <2>2. /\ missed[c] \in Nat /\ missed[c] + Held <= sent
        /\ told[c] \in Nat /\ told[c] + dropped + Held <= sent
    BY <2>1 DEF Connection
  <2>3. missed'[c] \in Nat /\ missed'[c] <= missed[c] + Excess
    BY <1>1, <1>2, <2>2
  <2>4. missed'[c] + Held' <= sent'
    <3>1. ASSUME NEW m \in Nat, NEW m2 \in Nat, NEW h \in Nat, NEW h2 \in Nat,
                 NEW e \in Nat, NEW s \in Nat, m2 <= m + e, h2 + e <= h, m + h <= s
          PROVE  m2 + h2 <= s
      BY <3>1
    <3>2. sent' = sent
      BY <1>2
    <3> QED BY SMTT(30), <3>1, <3>2, <1>1, <1>4, <1>5, <2>2, <2>3, Numbers
  <2>5. told'[c] = told[c] /\ sent' = sent
    BY <1>2
  <2>6. told[c] + dropped' + Held' <= sent
    <3>1. ASSUME NEW t \in Nat, NEW d \in Nat, NEW d2 \in Nat, NEW h \in Nat,
                 NEW h2 \in Nat, NEW s \in Nat, d2 + h2 <= d + h, t + d + h <= s
          PROVE  t + d2 + h2 <= s
      BY <3>1
    <3> QED BY <3>1, <1>4, <1>6, <2>2, Numbers
  <2> QED BY <2>1, <2>2, <2>3, <2>4, <2>5, <2>6, <1>2, Zenon DEF Connection
<1> QED BY <1>8, <1>9, <1>10 DEF Typed

\* A step that leaves the counts of events alone.
LEMMA SameCounts ==
  ASSUME Typed, UNCHANGED <<sent, broadcast, buffer>>, dropped' \in Nat, dropped' <= dropped
  PROVE  /\ Held' = Held /\ Held' \in Nat /\ sent' \in Nat
         /\ Held' + sent <= Held + sent'
         /\ dropped' + Held' + sent <= dropped + Held + sent'
         /\ dropped' + Held' <= sent'
<1>1. Held' = Held
  BY DEF Held
<1> QED BY <1>1, Numbers

LEMMA BroadcastTyped == ASSUME Typed, FlushBroadcast PROVE Typed'
<1>1. /\ UNCHANGED <<sent, broadcast, buffer, dropped, subscribers, pc, hand>>
      /\ UNCHANGED <<last, alone, missed, told>>
      /\ hub = "batch" /\ batch' = <<>> /\ hub' = "select"
      /\ channel' = [c \in Clients |->
                        IF c \in subscribers /\ Len(channel[c]) < ChannelCap
                        THEN Append(channel[c], batch) ELSE channel[c]]
  BY DEF FlushBroadcast, history
<1>2. batch \in Batches
  BY <1>1 DEF Typed, Counted, Batches
<1>3. <<>> \in EventSeqs /\ Len(<<>>) <= BatchCap
  BY EmptySeq, HubAssumption DEF EventSeqs
<1>4. Held' = Held
  BY <1>1 DEF Held
<1>5. Counted'
  BY <1>1, <1>3, <1>4 DEF Typed, Counted
<1>6. Shapes'
  BY <1>1 DEF Typed, Shapes
<1>7. ASSUME NEW c \in Clients PROVE Connection(c)'
  <2>1. Connection(c)
    BY DEF Typed
  <2>2. channel[c] \in Seq(Batches) /\ Len(channel[c]) <= ChannelCap
    BY <2>1 DEF Connection
  <2>3. channel'[c] \in Seq(Batches) /\ Len(channel'[c]) <= ChannelCap
    <3>1. CASE c \in subscribers /\ Len(channel[c]) < ChannelCap
      <4>1. channel'[c] = Append(channel[c], batch)
        BY <1>1, <3>1
      <4>2. channel'[c] \in Seq(Batches) /\ Len(channel'[c]) = Len(channel[c]) + 1
        BY <4>1, <2>2, <1>2, Queues
      <4>3. Len(channel[c]) \in Nat
        BY <2>2, Queues
      <4> QED BY <4>2, <4>3, <3>1, HubAssumption
    <3>2. CASE ~(c \in subscribers /\ Len(channel[c]) < ChannelCap)
      BY <1>1, <2>2, <3>2
    <3> QED BY <3>1, <3>2
  <2> QED BY <2>1, <2>3, <1>1, <1>4, Zenon DEF Connection
<1> QED BY <1>5, <1>6, <1>7 DEF Typed

\* A step of one client that does not touch the others.
LEMMA ClientOnly ==
  ASSUME Typed, NEW c \in Clients, UNCHANGED <<sent, broadcast, buffer, hub, batch>>,
         dropped' \in Nat, dropped' <= dropped, Shapes', Connection(c)',
         \A d \in Clients \ {c} :
           /\ (d \in subscribers') = (d \in subscribers)
           /\ channel'[d] = channel[d] /\ pc'[d] = pc[d] /\ hand'[d] = hand[d]
           /\ last'[d] = last[d] /\ missed'[d] = missed[d] /\ told'[d] = told[d]
           /\ alone'[d] \in BOOLEAN
  PROVE  Typed'
<1>1. Counted'
  BY SameCounts DEF Typed, Counted
<1>2. ASSUME NEW d \in Clients PROVE Connection(d)'
  <2>1. CASE d = c
    BY <2>1
  <2>2. CASE d # c
    <3>1. /\ Held' \in Nat /\ sent' \in Nat
          /\ Held' + sent <= Held + sent'
          /\ dropped' + Held' + sent <= dropped + Held + sent'
      BY SameCounts
    <3> QED BY <3>1, <2>2, Untouched
  <2> QED BY <2>1, <2>2
<1> QED BY <1>1, <1>2 DEF Typed

LEMMA ClientTyped == ASSUME Typed, NEW c \in Clients, ClientStep(c) PROVE Typed'
<1> USE DEF hubVars, subVars, history
<1>1. Connection(c) /\ Shapes /\ dropped \in Nat /\ \A d \in Clients : alone[d] \in BOOLEAN
  BY Numbers DEF Typed, Connection
<1>2. /\ missed[c] \in Nat /\ missed[c] + Held <= sent
      /\ told[c] \in Nat /\ told[c] + dropped + Held <= sent
  BY <1>1 DEF Connection
<1>3. subscribers \subseteq Clients
  BY <1>1 DEF Shapes
<1>4. /\ channel = [d \in Clients |-> channel[d]] /\ hand = [d \in Clients |-> hand[d]]
      /\ pc = [d \in Clients |-> pc[d]] /\ last = [d \in Clients |-> last[d]]
      /\ alone = [d \in Clients |-> alone[d]] /\ missed = [d \in Clients |-> missed[d]]
      /\ told = [d \in Clients |-> told[d]]
  BY <1>1 DEF Shapes
<1>5. <<>> \in EventSeqs /\ <<>> \in Seq(Batches) /\ Len(<<>>) <= ChannelCap
  BY EmptySeq, HubAssumption DEF EventSeqs
<1>6. ASSUME UNCHANGED <<sent, broadcast, buffer>>, dropped' \in Nat, dropped' <= dropped
      PROVE  /\ missed[c] + Held' <= sent' /\ told[c] + dropped' + Held' <= sent'
             /\ 0 + Held' <= sent' /\ 0 + dropped' + Held' <= sent'
  <2>1. Held' = Held /\ sent' = sent
    BY <1>6 DEF Held
  <2>2. ASSUME NEW h \in Nat, NEW d \in Nat, NEW x \in Nat, NEW m \in Nat, NEW t \in Nat,
               NEW s \in Nat, x <= d, m + h <= s, t + d + h <= s
        PROVE  m + h <= s /\ t + x + h <= s /\ 0 + h <= s /\ 0 + x + h <= s
    BY <2>2
  <2>3. /\ Held \in Nat /\ dropped \in Nat /\ sent \in Nat
        /\ missed[c] \in Nat /\ told[c] \in Nat
        /\ missed[c] + Held <= sent /\ told[c] + dropped + Held <= sent
    BY <1>2, Numbers
  <2>4. dropped' \in Nat /\ dropped' <= dropped
    BY <1>6
  <2>5. /\ missed[c] + Held <= sent /\ told[c] + dropped' + Held <= sent
        /\ 0 + Held <= sent /\ 0 + dropped' + Held <= sent
    BY <2>2, <2>3, <2>4, Zenon
  <2> QED BY <2>1, <2>5
<1>7. CASE Subscribe(c)
  <2>1. /\ UNCHANGED <<sent, broadcast, buffer, dropped, hub, batch, hand>>
        /\ subscribers' = subscribers \cup {c}
        /\ channel' = [channel EXCEPT ![c] = <<>>]
        /\ pc' = [pc EXCEPT ![c] = "select"]
        /\ last' = [last EXCEPT ![c] = 0]
        /\ alone' = [d \in Clients |-> d = c /\ subscribers = {}]
        /\ missed' = [missed EXCEPT ![c] = 0]
        /\ told' = [told EXCEPT ![c] = 0]
    BY <1>7 DEF Subscribe
  <2>2. Shapes'
    BY <2>1, <1>3, <1>4 DEF Shapes
  <2>3. /\ c \in subscribers' /\ channel'[c] = <<>> /\ pc'[c] = "select" /\ last'[c] = 0
        /\ alone'[c] \in BOOLEAN /\ missed'[c] = 0 /\ told'[c] = 0 /\ hand'[c] = hand[c]
    BY <2>1, <1>4
  <2>4. dropped' \in Nat /\ dropped' <= dropped
    BY <2>1, <1>1
  <2>5. 0 + Held' <= sent' /\ 0 + dropped' + Held' <= sent'
    BY <2>1, <2>4, <1>6
  <2>6. 0 \in Nat /\ 0 \in 0 .. MaxSent
    BY HubAssumption
  <2>7. Connection(c)'
    BY <2>3, <2>5, <2>6, <1>1, <1>5 DEF Connection
  <2>8. \A d \in Clients : alone'[d] \in BOOLEAN
    BY <2>1
  <2>9. \A d \in Clients \ {c} :
           /\ (d \in subscribers') = (d \in subscribers)
           /\ channel'[d] = channel[d] /\ pc'[d] = pc[d] /\ hand'[d] = hand[d]
           /\ last'[d] = last[d] /\ missed'[d] = missed[d] /\ told'[d] = told[d]
    <3> SUFFICES ASSUME NEW d \in Clients, d # c
                 PROVE  /\ (d \in subscribers') = (d \in subscribers)
                        /\ channel'[d] = channel[d] /\ pc'[d] = pc[d] /\ hand'[d] = hand[d]
                        /\ last'[d] = last[d] /\ missed'[d] = missed[d] /\ told'[d] = told[d]
      OBVIOUS
    <3>1. (d \in subscribers') = (d \in subscribers)
      BY <2>1
    <3>2. /\ channel'[d] = channel[d] /\ pc'[d] = pc[d] /\ hand'[d] = hand[d]
          /\ last'[d] = last[d] /\ missed'[d] = missed[d] /\ told'[d] = told[d]
      BY <2>1, <1>4
    <3> QED BY <3>1, <3>2
  <2> QED BY <2>1, <2>2, <2>4, <2>7, <2>8, <2>9, ClientOnly
<1>8. ASSUME UNCHANGED <<sent, broadcast, buffer, hub, batch>>,
             dropped' \in Nat, dropped' <= dropped, UNCHANGED <<alone, missed>>, Shapes',
             \A d \in Clients \ {c} :
               /\ (d \in subscribers') = (d \in subscribers)
               /\ channel'[d] = channel[d] /\ pc'[d] = pc[d] /\ hand'[d] = hand[d]
               /\ last'[d] = last[d] /\ told'[d] = told[d],
             c \in subscribers' <=> pc'[c] # "off",
             channel'[c] \in Seq(Batches) /\ Len(channel'[c]) <= ChannelCap,
             hand'[c] \in EventSeqs /\ (pc'[c] = "write" => hand'[c] # <<>>),
             pc'[c] \in {"off", "select", "write", "wrote", "leave"},
             last'[c] \in 0 .. MaxSent,
             told'[c] \in Nat /\ told'[c] + dropped' + Held' <= sent'
      PROVE  Typed'
  <2>1. missed'[c] \in Nat /\ missed'[c] + Held' <= sent'
    BY <1>8, <1>2, <1>6
  <2>2. Connection(c)'
    BY <1>8, <1>1, <2>1, Zenon DEF Connection
  <2> QED BY <1>8, <1>1, <2>2, ClientOnly
<1> DEFINE Ready == UNCHANGED <<sent, broadcast, buffer, hub, batch, alone, missed>>
<1>9. CASE TakeBatch(c)
  <2>1. /\ pc[c] = "select" /\ channel[c] # <<>> /\ Ready /\ UNCHANGED dropped
        /\ UNCHANGED <<subscribers, last, told>>
        /\ hand' = [hand EXCEPT ![c] = Head(channel[c])]
        /\ channel' = [channel EXCEPT ![c] = Tail(channel[c])]
        /\ pc' = [pc EXCEPT ![c] = "write"]
    BY <1>9 DEF TakeBatch
  <2>2. Shapes'
    BY <2>1, <1>3, <1>4 DEF Shapes
  <2>3. channel[c] \in Seq(Batches) /\ Len(channel[c]) <= ChannelCap
    BY <1>1 DEF Connection
  <2>4. /\ Head(channel[c]) \in Batches
        /\ Tail(channel[c]) \in Seq(Batches) /\ Len(Tail(channel[c])) <= ChannelCap
    BY <2>1, <2>3, Queues, HubAssumption
  <2>5. /\ hand'[c] = Head(channel[c]) /\ channel'[c] = Tail(channel[c]) /\ pc'[c] = "write"
        /\ \A d \in Clients \ {c} :
              channel'[d] = channel[d] /\ pc'[d] = pc[d] /\ hand'[d] = hand[d]
    BY <2>1, <1>4
  <2>6. hand'[c] \in EventSeqs /\ hand'[c] # <<>>
    BY <2>4, <2>5 DEF Batches
  <2>7. c \in subscribers /\ last[c] \in 0 .. MaxSent
    BY <2>1, <1>1 DEF Connection
  <2>8. dropped' \in Nat /\ dropped' <= dropped /\ told[c] + dropped' + Held' <= sent'
    BY <2>1, <1>1, <1>6
  <2> QED BY <2>1, <2>2, <2>4, <2>5, <2>6, <2>7, <2>8, <1>2, <1>8
<1>10. CASE WriteBatch(c)
  <2>1. /\ pc[c] = "write" /\ Ready /\ UNCHANGED dropped
        /\ UNCHANGED <<subscribers, channel, told>>
        /\ last' = [last EXCEPT ![c] = hand[c][Len(hand[c])]]
        /\ hand' = [hand EXCEPT ![c] = <<>>]
        /\ pc' = [pc EXCEPT ![c] = "wrote"]
    BY <1>10 DEF WriteBatch
  <2>2. Shapes'
    BY <2>1, <1>3, <1>4 DEF Shapes
  <2>3. hand[c] \in Seq(1 .. MaxSent) /\ hand[c] # <<>>
    BY <2>1, <1>1 DEF Connection, EventSeqs
  <2>4. hand[c][Len(hand[c])] \in 1 .. MaxSent
    BY <2>3, Queues
  <2>5. hand[c][Len(hand[c])] \in 0 .. MaxSent
    BY <2>4, HubAssumption
  <2>6. /\ hand'[c] = <<>> /\ last'[c] = hand[c][Len(hand[c])] /\ pc'[c] = "wrote"
        /\ \A d \in Clients \ {c} :
              last'[d] = last[d] /\ pc'[d] = pc[d] /\ hand'[d] = hand[d]
    BY <2>1, <1>4
  <2>7. c \in subscribers /\ channel[c] \in Seq(Batches) /\ Len(channel[c]) <= ChannelCap
    BY <2>1, <1>1 DEF Connection
  <2>8. dropped' \in Nat /\ dropped' <= dropped /\ told[c] + dropped' + Held' <= sent'
    BY <2>1, <1>1, <1>6
  <2> QED BY <2>1, <2>2, <2>5, <2>6, <2>7, <2>8, <1>2, <1>5, <1>8
<1>11. CASE SignalOverflow(c)
  <2>1. /\ pc[c] = "wrote" /\ Ready /\ dropped' = 0
        /\ UNCHANGED <<subscribers, channel, hand, last>>
        /\ told' = [told EXCEPT ![c] = told[c] + dropped]
        /\ pc' = [pc EXCEPT ![c] = "select"]
    BY <1>11 DEF SignalOverflow
  <2>2. Shapes'
    BY <2>1, <1>3, <1>4 DEF Shapes
  <2>3. /\ told'[c] = told[c] + dropped /\ pc'[c] = "select"
        /\ \A d \in Clients \ {c} : told'[d] = told[d] /\ pc'[d] = pc[d]
    BY <2>1, <1>4
  <2>4. /\ c \in subscribers /\ channel[c] \in Seq(Batches) /\ Len(channel[c]) <= ChannelCap
        /\ hand[c] \in EventSeqs /\ last[c] \in 0 .. MaxSent
    BY <2>1, <1>1 DEF Connection
  <2>5. Held' = Held /\ sent' = sent
    BY <2>1 DEF Held
  <2>6. told'[c] \in Nat /\ told'[c] + dropped' + Held' <= sent'
    BY <2>1, <2>3, <2>5, <1>1, <1>2, Numbers
  <2>7. dropped' \in Nat /\ dropped' <= dropped
    BY <2>1, <1>1
  <2> QED BY <2>1, <2>2, <2>3, <2>4, <2>6, <2>7, <1>8
<1>12. CASE SignalFails(c) \/ Disconnect(c)
  <2>1. /\ pc[c] \in {"select", "write", "wrote"} /\ Ready /\ dropped' \in {0, dropped}
        /\ UNCHANGED <<subscribers, channel, last, told>>
        /\ hand' \in {hand, [hand EXCEPT ![c] = <<>>]}
        /\ pc' = [pc EXCEPT ![c] = "leave"]
    BY <1>12 DEF SignalFails, Disconnect
  <2>2. Shapes'
    <3>1. hand' = [d \in Clients |-> hand'[d]]
      BY <2>1, <1>4
    <3> QED BY <2>1, <3>1, <1>3, <1>4 DEF Shapes
  <2>3. /\ pc'[c] = "leave" /\ hand'[c] \in {hand[c], <<>>}
        /\ \A d \in Clients \ {c} : hand'[d] = hand[d] /\ pc'[d] = pc[d]
    <3>1. CASE hand' = hand
      BY <2>1, <1>4, <3>1
    <3>2. CASE hand' = [hand EXCEPT ![c] = <<>>]
      BY <2>1, <1>4, <3>2
    <3> QED BY <2>1, <3>1, <3>2
  <2>4. /\ c \in subscribers /\ channel[c] \in Seq(Batches) /\ Len(channel[c]) <= ChannelCap
        /\ hand[c] \in EventSeqs /\ last[c] \in 0 .. MaxSent
    BY <2>1, <1>1 DEF Connection
  <2>5. dropped' \in Nat /\ dropped' <= dropped
    BY <2>1, <1>1
  <2>6. told[c] + dropped' + Held' <= sent'
    BY <2>1, <2>5, <1>6
  <2> QED BY <2>1, <2>2, <2>3, <2>4, <2>5, <2>6, <1>2, <1>5, <1>8
<1>13. CASE Unsubscribe(c)
  <2>1. /\ pc[c] = "leave" /\ Ready /\ UNCHANGED <<dropped, hand, last, told>>
        /\ subscribers' = subscribers \ {c}
        /\ channel' = [channel EXCEPT ![c] = <<>>]
        /\ pc' = [pc EXCEPT ![c] = "off"]
    BY <1>13 DEF Unsubscribe
  <2>2. Shapes'
    BY <2>1, <1>3, <1>4 DEF Shapes
  <2>3. /\ pc'[c] = "off" /\ channel'[c] = <<>>
        /\ \A d \in Clients \ {c} : channel'[d] = channel[d] /\ pc'[d] = pc[d]
    BY <2>1, <1>4
  <2>4. \A d \in Clients \ {c} : (d \in subscribers') = (d \in subscribers)
    BY <2>1
  <2>5. hand[c] \in EventSeqs /\ last[c] \in 0 .. MaxSent
    BY <1>1 DEF Connection
  <2>6. dropped' \in Nat /\ dropped' <= dropped /\ told[c] + dropped' + Held' <= sent'
    BY <2>1, <1>1, <1>6
  <2> QED BY <2>1, <2>2, <2>3, <2>4, <2>5, <2>6, <1>2, <1>5, <1>8
<1> QED BY <1>7, <1>9, <1>10, <1>11, <1>12, <1>13 DEF ClientStep

LEMMA TypedNext == Typed /\ [Next]_vars => Typed'
<1> SUFFICES ASSUME Typed, [Next]_vars PROVE Typed'
  OBVIOUS
<1>1. CASE HubStep
  BY <1>1, TakeOneTyped, MoveTyped, CaptureTyped, BroadcastTyped DEF HubStep, Consume, DrainOne
<1>2. CASE UNCHANGED vars
  BY <1>2 DEF vars, hubVars, subVars, history, Typed, Counted, Shapes, Connection, Held
<1> QED BY <1>1, <1>2, SendTyped, ClientTyped DEF Next

LEMMA AlwaysTyped == Spec => []Typed
  BY TypedInit, TypedNext, PTL DEF Spec

\* The channels, the buffer and the counter of dropped events stay within their
\* limits, and the counter never counts more than was sent.
THEOREM TypeCorrect == Spec => []TypeOK
  BY AlwaysTyped, TypedIsTypeOK, PTL

-----------------------------------------------------------------------------

\* One step: only the channel of a connection that is open grows.
OnlyOpenGrow == \A c \in Clients : Len(channel'[c]) > Len(channel[c]) => pc[c] # "off"

LEMMA OnlyOpenGrowNext == Typed /\ [Next]_vars => OnlyOpenGrow
<1> SUFFICES ASSUME Typed, [Next]_vars, NEW c \in Clients, Len(channel'[c]) > Len(channel[c])
             PROVE  pc[c] # "off"
  BY DEF OnlyOpenGrow
<1> USE DEF subVars
<1>1. /\ channel[c] \in Seq(Batches) /\ (c \in subscribers <=> pc[c] # "off")
      /\ channel = [d \in Clients |-> channel[d]]
  BY DEF Typed, Connection, Shapes
<1>2. Len(channel[c]) \in Nat /\ Len(<<>>) = 0
  BY <1>1, Queues, EmptySeq
<1>3. ASSUME channel'[c] = channel[c] PROVE FALSE
  BY <1>2, <1>3
<1>4. CASE Send \/ Consume \/ TickerPulse \/ DrainOne \/ DrainDone \/ FlushCapture \/ FlushNothing
  BY <1>3, <1>4 DEF Send, Consume, TickerPulse, DrainOne, DrainDone, FlushCapture,
                    FlushNothing, TakeOne
<1>5. CASE FlushBroadcast
  <2>1. CASE c \in subscribers
    BY <2>1, <1>1
  <2>2. CASE c \notin subscribers
    BY <2>2, <1>5, <1>3 DEF FlushBroadcast
  <2> QED BY <2>1, <2>2
<1>6. ASSUME NEW d \in Clients, ClientStep(d) PROVE pc[c] # "off"
  <2>1. CASE d # c
    BY <2>1, <1>1, <1>3, <1>6 DEF ClientStep, Subscribe, TakeBatch, WriteBatch,
          SignalOverflow, SignalFails, Disconnect, Unsubscribe
  <2>2. CASE d = c
    <3>1. CASE TakeBatch(c)
      BY <3>1 DEF TakeBatch
    <3>2. CASE Subscribe(c) \/ Unsubscribe(c)
      <4>1. channel'[c] = <<>>
        BY <3>2, <1>1 DEF Subscribe, Unsubscribe
      <4> QED BY <4>1, <1>2
    <3>3. CASE WriteBatch(c) \/ SignalOverflow(c) \/ SignalFails(c) \/ Disconnect(c)
      BY <3>3 DEF WriteBatch, SignalOverflow, SignalFails, Disconnect
    <3> QED BY <2>2, <1>6, <3>1, <3>2, <3>3 DEF ClientStep
  <2> QED BY <2>1, <2>2
<1>7. CASE UNCHANGED vars
  BY <1>7, <1>3 DEF vars
<1> QED BY <1>4, <1>5, <1>6, <1>7 DEF Next, HubStep

\* flush never sends on the closed channel of a connection that has ended.
THEOREM NeverSendsOnClosed == Spec => SendsToOpenChannels
<1>1. Typed /\ [Next]_vars => [OnlyOpenGrow]_vars
  BY OnlyOpenGrowNext
<1>2. Spec => [][OnlyOpenGrow]_vars
  BY <1>1, AlwaysTyped, PTL DEF Spec
<1> QED BY <1>2 DEF SendsToOpenChannels, OnlyOpenGrow

-----------------------------------------------------------------------------

\* While a dashboard has the hub to itself, what it was told and what is still on
\* the counter cover what was cut.  Once it has caught up nothing is left on the
\* counter that it was not told: every cut is followed by a batch in its channel.
Covered(c) ==
  alone[c] /\ pc[c] # "off" =>
    /\ subscribers = {c}
    /\ pc[c] # "leave" => told[c] + dropped >= missed[c]
    /\ pc[c] = "select" /\ channel[c] = <<>> /\ hub # "batch" => told[c] >= missed[c]

LEMMA CoveredInit == ASSUME Init, NEW c \in Clients PROVE Covered(c)
  BY DEF Init, Covered

LEMMA CoveredNext ==
  ASSUME Typed, [Next]_vars, NEW c \in Clients, Covered(c)
  PROVE  Covered(c)'
<1> USE DEF hubVars, subVars, history
<1>1. /\ channel = [d \in Clients |-> channel[d]] /\ pc = [d \in Clients |-> pc[d]]
      /\ missed = [d \in Clients |-> missed[d]] /\ told = [d \in Clients |-> told[d]]
  BY DEF Typed, Shapes
<1>2. /\ \A d \in Clients : d \in subscribers <=> pc[d] # "off"
      /\ channel[c] \in Seq(Batches) /\ alone[c] \in BOOLEAN
      /\ missed[c] \in Nat /\ told[c] \in Nat /\ dropped \in Nat
  BY Numbers DEF Typed, Connection
<1>3. CASE Send \/ TakeOne \/ TickerPulse \/ DrainDone \/ FlushNothing \/ UNCHANGED vars
  BY <1>3 DEF Send, TakeOne, TickerPulse, DrainDone, FlushNothing, vars, Covered
<1>4. CASE FlushCapture
  <2>1. Excess \in Nat
    BY <1>4, Cut DEF FlushCapture
  <2>2. /\ hub' = "batch" /\ dropped' = dropped + Excess
        /\ missed'[c] = IF c \in subscribers THEN missed[c] + Excess ELSE missed[c]
        /\ UNCHANGED <<subscribers, pc, alone, told>>
    BY SMTT(30), <1>4 DEF FlushCapture
  <2>3. told[c] + dropped >= missed[c] => told[c] + dropped' >= missed'[c]
    BY <2>1, <2>2, <1>2
  <2> QED BY <2>2, <2>3 DEF Covered
<1>5. CASE FlushBroadcast
  <2>1. UNCHANGED <<dropped, subscribers, pc, alone, missed, told>>
    BY <1>5 DEF FlushBroadcast
  <2>2. ASSUME c \in subscribers PROVE channel'[c] # <<>>
    <3>1. CASE Len(channel[c]) < ChannelCap
      <4>1. batch \in Batches
        BY <1>5 DEF FlushBroadcast, Typed, Counted, Batches
      <4>2. channel'[c] = Append(channel[c], batch)
        BY <1>5, <2>2, <3>1 DEF FlushBroadcast
      <4> QED BY <4>1, <4>2, <1>2, Queues
    <3>2. CASE ~(Len(channel[c]) < ChannelCap)
      <4>1. channel'[c] = channel[c]
        BY <1>5, <3>2 DEF FlushBroadcast
      <4>2. Len(channel[c]) # 0
        BY <3>2, HubAssumption
      <4> QED BY <4>1, <4>2, <1>2, Queues
    <3> QED BY <3>1, <3>2
  <2> QED BY <2>1, <2>2, <1>2 DEF Covered
<1>6. CASE Subscribe(c)
  <2>1. /\ subscribers' = subscribers \cup {c} /\ alone'[c] = (subscribers = {})
        /\ missed'[c] = 0 /\ told'[c] = 0 /\ UNCHANGED dropped
    BY <1>6, <1>1 DEF Subscribe
  <2>2. told'[c] >= missed'[c] /\ told'[c] + dropped' >= missed'[c]
    BY <2>1, <1>2
  <2>3. alone'[c] => subscribers' = {c}
    BY <2>1
  <2> QED BY <2>2, <2>3 DEF Covered
<1>7. CASE TakeBatch(c) \/ WriteBatch(c)
  <2>1. /\ pc[c] \in {"select", "write"} /\ pc'[c] \in {"write", "wrote"}
        /\ UNCHANGED <<dropped, subscribers, alone, missed, told>>
    BY <1>7, <1>1 DEF TakeBatch, WriteBatch
  <2> QED BY <2>1 DEF Covered
<1>8. CASE SignalOverflow(c)
  <2>1. /\ pc[c] = "wrote" /\ told'[c] = told[c] + dropped /\ dropped' = 0
        /\ UNCHANGED <<subscribers, alone, missed>>
    BY <1>8, <1>1 DEF SignalOverflow
  <2> QED BY <2>1, <1>2 DEF Covered
<1>9. CASE SignalFails(c) \/ Disconnect(c) \/ Unsubscribe(c)
  <2>1. /\ pc[c] # "off" /\ UNCHANGED alone
        /\ \/ pc'[c] = "leave" /\ UNCHANGED subscribers
           \/ pc'[c] = "off"
    BY <1>9, <1>1 DEF SignalFails, Disconnect, Unsubscribe
  <2> QED BY <2>1 DEF Covered
\* Another dashboard can only connect, and then this one is no longer alone.
<1>10. ASSUME NEW d \in Clients, d # c, ClientStep(d) PROVE Covered(c)'
  <2>1. CASE Subscribe(d)
    <3>1. ~alone'[c]
      BY <2>1, <1>10 DEF Subscribe
    <3> QED BY <3>1 DEF Covered
  <2>2. CASE ~Subscribe(d)
    <3>1. pc[d] # "off" /\ d \in subscribers
      BY <2>2, <1>10, <1>2 DEF ClientStep, TakeBatch, WriteBatch, SignalOverflow, SignalFails,
            Disconnect, Unsubscribe
    <3>2. UNCHANGED alone /\ pc'[c] = pc[c]
      BY <2>2, <1>10, <1>1 DEF ClientStep, TakeBatch, WriteBatch, SignalOverflow, SignalFails,
            Disconnect, Unsubscribe
    <3> QED BY <3>1, <3>2, <1>10 DEF Covered
  <2> QED BY <2>1, <2>2
<1> QED
  BY <1>3, <1>4, <1>5, <1>6, <1>7, <1>8, <1>9, <1>10
  DEF Next, HubStep, Consume, DrainOne, ClientStep

\* A dashboard that has had the hub to itself and has caught up was told of every
\* event cut from a batch since it connected.
THEOREM AloneIsTold == Spec => []OverflowSignalled
<1> DEFINE IInv == Typed /\ \A c \in Clients : Covered(c)
<1>1. Init => IInv
  BY TypedInit, CoveredInit
<1>2. IInv /\ [Next]_vars => IInv'
  BY TypedNext, CoveredNext
<1>3. IInv => OverflowSignalled
  <2> SUFFICES ASSUME IInv, NEW c \in subscribers, alone[c], pc[c] = "select",
                      channel[c] = <<>>, hub # "batch"
               PROVE  told[c] >= missed[c]
    BY DEF OverflowSignalled
  <2>1. c \in Clients
    BY DEF Typed, Shapes
  <2> QED BY <2>1 DEF Covered
<1> HIDE DEF IInv
<1> QED BY <1>1, <1>2, <1>3, PTL DEF Spec

-----------------------------------------------------------------------------
(* The order of the events *)

\* The events of a queue that grows or shrinks, and their order.
LEMMA QueueEvents ==
  ASSUME NEW S \in SUBSET Nat, NEW s \in Seq(S)
  PROVE  /\ Events(s) \subseteq S
         /\ s # <<>> => /\ Head(s) \in Events(s) /\ Events(Tail(s)) \subseteq Events(s)
                       /\ s[Len(s)] \in Events(s)
         /\ s # <<>> /\ Ascending(s) => /\ Ascending(Tail(s))
                                      /\ \A y \in Events(Tail(s)) : Head(s) < y
         /\ \A m \in 1 .. Len(s) :
              /\ Events(SubSeq(s, m, Len(s))) \subseteq Events(s)
              /\ Ascending(s) => Ascending(SubSeq(s, m, Len(s)))
<1>1. /\ DOMAIN s = 1 .. Len(s) /\ Len(s) \in Nat /\ \A i \in 1 .. Len(s) : s[i] \in S
      /\ s # <<>> => Len(s) # 0
  BY LenProperties, EmptySeq
<1>2. Events(s) \subseteq S
  BY <1>1 DEF Events
<1>3. ASSUME s # <<>>
      PROVE  /\ Head(s) \in Events(s) /\ Events(Tail(s)) \subseteq Events(s)
             /\ s[Len(s)] \in Events(s)
             /\ Ascending(s) => Ascending(Tail(s)) /\ \A y \in Events(Tail(s)) : Head(s) < y
  <2> DEFINE t == Tail(s)
             n == Len(s)
  <2>1. /\ n \in Nat /\ n # 0 /\ DOMAIN s = 1 .. n /\ Head(s) = s[1]
        /\ DOMAIN t = 1 .. n - 1 /\ \A i \in 1 .. n - 1 : t[i] = s[i + 1] /\ i + 1 \in 1 .. n
    <3>1. Head(s) = s[1] /\ Len(t) = n - 1 /\ t \in Seq(S)
      BY <1>1, <1>3, HeadTailProperties
    <3>2. \A i \in 1 .. Len(t) : t[i] = s[i + 1]
      BY <1>3, HeadTailProperties
    <3>3. DOMAIN t = 1 .. Len(t)
      BY <3>1, LenProperties
    <3> QED BY <1>1, <1>3, <3>1, <3>2, <3>3
  <2> HIDE DEF t, n
  <2>2. Head(s) \in Events(s) /\ Events(t) \subseteq Events(s) /\ s[n] \in Events(s)
    <3>1. 1 \in 1 .. n /\ n \in 1 .. n
      BY <2>1
    <3>2. ASSUME NEW i \in DOMAIN t PROVE t[i] \in Events(s)
      BY <2>1, <3>2 DEF Events
    <3> QED BY <2>1, <3>1, <3>2 DEF Events
  <2>3. ASSUME Ascending(s) PROVE Ascending(t)
    <3> SUFFICES ASSUME NEW i \in 1 .. n - 1, NEW j \in 1 .. n - 1, i < j PROVE t[i] < t[j]
      BY <2>1 DEF Ascending
    <3>1. i + 1 \in DOMAIN s /\ j + 1 \in DOMAIN s /\ i + 1 < j + 1
      BY <2>1
    <3>2. s[i + 1] < s[j + 1]
      BY <2>3, <3>1 DEF Ascending
    <3> QED BY <2>1, <3>2
  <2>4. ASSUME Ascending(s), NEW y \in Events(t) PROVE Head(s) < y
    BY <2>1, <2>4 DEF Ascending, Events
  <2> QED BY <2>2, <2>3, <2>4 DEF t, n
<1>4. ASSUME NEW m \in 1 .. Len(s)
      PROVE  /\ Events(SubSeq(s, m, Len(s))) \subseteq Events(s)
             /\ Ascending(s) => Ascending(SubSeq(s, m, Len(s)))
  <2> DEFINE n == Len(s)
             t == SubSeq(s, m, n)
  <2>1. /\ n \in Nat /\ DOMAIN s = 1 .. n /\ m \in 1 .. n
        /\ DOMAIN t = 1 .. n - m + 1
        /\ \A i \in 1 .. n - m + 1 : t[i] = s[m + i - 1] /\ m + i - 1 \in 1 .. n
    <3>1. n \in Nat /\ DOMAIN s = 1 .. n /\ m \in 1 .. n /\ m \in Int /\ n \in Int
      BY <1>1
    <3>2. \A i \in m .. n : s[i] \in S
      BY <1>1
    <3>3. t \in Seq(S) /\ Len(t) = (IF m <= n THEN n - m + 1 ELSE 0)
          /\ \A i \in 1 .. n - m + 1 : t[i] = s[m + i - 1]
      BY <3>1, <3>2, SubSeqProperties
    <3>4. DOMAIN t = 1 .. Len(t)
      BY <3>3, LenProperties
    <3> QED BY <3>1, <3>3, <3>4
  <2> HIDE DEF t, n
  <2>2. Events(t) \subseteq Events(s)
    BY <2>1 DEF Events
  <2>3. ASSUME Ascending(s), NEW i \in DOMAIN t, NEW j \in DOMAIN t, i < j PROVE t[i] < t[j]
    BY <2>1, <2>3 DEF Ascending
  <2> QED BY <2>2, <2>3 DEF t, n, Ascending
<1> QED BY <1>2, <1>3, <1>4, Zenon

LEMMA AppendEvents ==
  ASSUME NEW s \in EventSeqs, NEW x \in 1 .. MaxSent
  PROVE  /\ Events(Append(s, x)) = Events(s) \cup {x}
         /\ Ascending(s) /\ (\A y \in Events(s) : y < x) => Ascending(Append(s, x))
<1>0. s \in Seq(1 .. MaxSent) /\ DOMAIN s = 1 .. Len(s) /\ Len(s) \in Nat
  BY LenProperties DEF EventSeqs
<1> DEFINE t == Append(s, x)
           n == Len(s)
<1>1. /\ DOMAIN t = 1 .. n + 1 /\ t[n + 1] = x
      /\ \A i \in 1 .. n : t[i] = s[i] /\ i \in 1 .. n + 1
  BY <1>0, AppendProperties, LenProperties
<1>2. \A i \in 1 .. n + 1 : i \in 1 .. n \/ i = n + 1
  BY <1>0
<1> HIDE DEF t, n
<1>3. Events(t) = Events(s) \cup {x}
  BY <1>0, <1>1, <1>2 DEF Events, n
<1>4. ASSUME Ascending(s), \A y \in Events(s) : y < x,
             NEW i \in DOMAIN t, NEW j \in DOMAIN t, i < j
      PROVE  t[i] < t[j]
  <2>1. n \in Nat /\ DOMAIN s = 1 .. n
    BY <1>0 DEF n
  <2>2. i \in 1 .. n
    BY <2>1, <1>1, <1>4
  <2>3. t[i] = s[i] /\ s[i] \in Events(s)
    BY <2>1, <2>2, <1>1 DEF Events
  <2>4. CASE j = n + 1
    BY <2>3, <2>4, <1>1, <1>4
  <2>5. CASE j \in 1 .. n
    BY <2>1, <2>2, <2>3, <2>5, <1>1, <1>4 DEF Ascending
  <2> QED BY <2>4, <2>5, <1>1, <1>2
<1> QED BY <1>3, <1>4 DEF Ascending, t

LEMMA TailEvents ==
  ASSUME NEW s \in EventSeqs, s # <<>>
  PROVE  /\ Head(s) \in 1 .. MaxSent /\ Head(s) \in Events(s)
         /\ Events(Tail(s)) \subseteq Events(s)
         /\ s[Len(s)] \in Events(s)
         /\ Ascending(s) => Ascending(Tail(s)) /\ \A y \in Events(Tail(s)) : Head(s) < y
<1>1. 1 .. MaxSent \in SUBSET Nat
  BY HubAssumption
<1>2. Head(s) \in 1 .. MaxSent
  BY HeadTailProperties DEF EventSeqs
<1> QED BY <1>1, <1>2, QueueEvents, Zenon DEF EventSeqs

LEMMA CutEvents ==
  ASSUME NEW s \in EventSeqs, NEW m \in 1 .. Len(s)
  PROVE  /\ Events(SubSeq(s, m, Len(s))) \subseteq Events(s)
         /\ Ascending(s) => Ascending(SubSeq(s, m, Len(s)))
<1>1. 1 .. MaxSent \in SUBSET Nat
  BY HubAssumption
<1> QED BY <1>1, QueueEvents, Zenon DEF EventSeqs

LEMMA PositiveEvents == \A s \in EventSeqs : Events(s) \subseteq 1 .. MaxSent
<1>1. 1 .. MaxSent \in SUBSET Nat
  BY HubAssumption
<1> QED BY <1>1, QueueEvents, Zenon DEF EventSeqs

LEMMA EventsAreNumbers ==
  ASSUME NEW s \in EventSeqs
  PROVE  Events(s) \subseteq Nat
BY PositiveEvents, HubAssumption

\* The events that are with the hub.
Pending == Events(batch) \cup Events(buffer) \cup Events(broadcast)

\* Three queues of events up to n, one in order after the other.
InOrder(s, t, u, n) ==
  /\ \A x \in Events(s) \cup Events(t) \cup Events(u) : x <= n
  /\ Ascending(s) /\ Ascending(t) /\ Ascending(u)
  /\ Precedes(s, t) /\ Precedes(s, u) /\ Precedes(t, u)

\* The hub has its events in order, the oldest in the batch.
HubOrder == InOrder(batch, buffer, broadcast, sent)

\* s is a batch to write to a connection that has received events up to l, while
\* the hub holds P and n events have been sent.
Due(s, l, P, n) ==
  Ascending(s) /\ \A x \in Events(s) : l < x /\ x <= n /\ \A y \in P : x < y

\* Such a connection is writing h, and q waits in its channel.
Serves(l, h, q, P, n) ==
  /\ l <= n /\ \A y \in P : l < y
  /\ Due(h, l, P, n)
  /\ \A k \in DOMAIN q :
       /\ Due(q[k], l, P, n) /\ Precedes(h, q[k])
       /\ \A m \in DOMAIN q : k < m => Precedes(q[k], q[m])

ClientOrder(c) ==
  /\ pc[c] # "write" => hand[c] = <<>>
  /\ c \in subscribers => Serves(last[c], hand[c], channel[c], Pending, sent)

Ordered == Typed /\ HubOrder /\ \A c \in Clients : ClientOrder(c)

LEMMA NoEvents == Events(<<>>) = {} /\ Ascending(<<>>) /\ DOMAIN <<>> = {}
<1>1. DOMAIN <<>> = {}
  OBVIOUS
<1> QED BY <1>1 DEF Events, Ascending

LEMMA OrderedInit == Init => Ordered
<1> SUFFICES ASSUME Init PROVE Ordered
  OBVIOUS
<1>1. Pending = {}
  BY NoEvents DEF Init, Pending
<1>2. HubOrder
  BY NoEvents DEF Init, HubOrder, InOrder, Precedes
<1>3. \A c \in Clients : ClientOrder(c)
  BY DEF Init, ClientOrder
<1> QED BY <1>2, <1>3, TypedInit DEF Ordered

\* What the queues hold are numbers.
LEMMA HubEvents ==
  ASSUME Typed
  PROVE  /\ batch \in EventSeqs /\ buffer \in EventSeqs /\ broadcast \in EventSeqs
         /\ Events(batch) \subseteq Nat /\ Events(buffer) \subseteq Nat
         /\ Events(broadcast) \subseteq Nat /\ Pending \subseteq Nat /\ sent \in Nat
<1>1. batch \in EventSeqs /\ buffer \in EventSeqs /\ broadcast \in EventSeqs
  BY DEF Typed, Counted
<1> QED BY <1>1, EventsAreNumbers, Numbers DEF Pending

\* The batches in a channel.
LEMMA ChannelEvents ==
  ASSUME NEW q \in Seq(Batches)
  PROVE  /\ Len(q) \in Nat /\ DOMAIN q = 1 .. Len(q)
         /\ \A k \in DOMAIN q : /\ q[k] \in EventSeqs /\ q[k] # <<>>
                               /\ Events(q[k]) \subseteq Nat
<1>1. /\ Len(q) \in Nat /\ DOMAIN q = 1 .. Len(q)
      /\ \A k \in 1 .. Len(q) : q[k] \in Batches
  BY LenProperties
<1>2. \A k \in DOMAIN q : q[k] \in EventSeqs /\ q[k] # <<>>
  BY <1>1 DEF Batches
<1> QED BY <1>1, <1>2, EventsAreNumbers

LEMMA ClientEvents ==
  ASSUME Typed, NEW c \in Clients
  PROVE  /\ hand[c] \in EventSeqs /\ last[c] \in Nat /\ channel[c] \in Seq(Batches)
         /\ pc[c] = "write" => hand[c] # <<>>
<1>1. Connection(c)
  BY DEF Typed
<1> QED BY <1>1, HubAssumption DEF Connection

\* What the steps do to a connection: the hub takes in newer events or loses some,
\* a batch enters the channel, leaves it, is written or is given up.
LEMMA ServesWider ==
  ASSUME NEW l \in Nat, NEW h \in EventSeqs, NEW q \in Seq(Batches), NEW P \in SUBSET Nat,
         NEW n \in Nat, Serves(l, h, q, P, n), NEW R \in SUBSET Nat, NEW m \in Nat,
         n <= m, \A y \in R : y \in P \/ y > n
  PROVE  Serves(l, h, q, R, m)
<1>1. ASSUME NEW s \in EventSeqs, Due(s, l, P, n) PROVE Due(s, l, R, m)
  <2>1. Events(s) \subseteq Nat
    BY EventsAreNumbers
  <2> QED BY <1>1, <2>1 DEF Due
<1>2. l <= m /\ \A y \in R : l < y
  BY DEF Serves
<1> QED BY <1>1, <1>2, ChannelEvents DEF Serves

LEMMA ServesTake ==
  ASSUME NEW l \in Nat, NEW q \in Seq(Batches), q # <<>>, NEW P, NEW n, Serves(l, <<>>, q, P, n)
  PROVE  Serves(l, Head(q), Tail(q), P, n)
<1> DEFINE h == Head(q)
           r == Tail(q)
<1>1. /\ Len(q) \in Nat /\ 1 \in DOMAIN q /\ h = q[1]
      /\ \A k \in DOMAIN r : r[k] = q[k + 1] /\ k + 1 \in DOMAIN q /\ k \in Nat /\ 1 < k + 1
  <2>1. /\ Len(q) \in Nat /\ Len(q) # 0 /\ DOMAIN q = 1 .. Len(q)
    BY LenProperties, EmptySeq
  <2>2. h = q[1] /\ Len(r) = Len(q) - 1 /\ r \in Seq(Batches) /\ \A k \in 1 .. Len(r) : r[k] = q[k + 1]
    BY HeadTailProperties
  <2>3. DOMAIN r = 1 .. Len(r)
    BY <2>2, LenProperties
  <2> QED BY <2>1, <2>2, <2>3
<1> HIDE DEF h, r
<1>2. Due(h, l, P, n)
  BY <1>1 DEF Serves
<1>3. ASSUME NEW k \in DOMAIN r
      PROVE  /\ Due(r[k], l, P, n) /\ Precedes(h, r[k])
             /\ \A m \in DOMAIN r : k < m => Precedes(r[k], r[m])
  BY <1>1 DEF Serves
<1>4. Serves(l, h, r, P, n)
  BY <1>2, <1>3 DEF Serves
<1> QED BY <1>4 DEF h, r

LEMMA ServesWritten ==
  ASSUME NEW l \in Nat, NEW h \in EventSeqs, NEW q \in Seq(Batches), NEW P, NEW n,
         Serves(l, h, q, P, n)
  PROVE  Serves(l, <<>>, q, P, n) /\ (h # <<>> => Serves(h[Len(h)], <<>>, q, P, n))
<1>1. Serves(l, <<>>, q, P, n)
  BY NoEvents DEF Serves, Due, Precedes
<1>2. ASSUME h # <<>> PROVE Serves(h[Len(h)], <<>>, q, P, n)
  <2> DEFINE m == h[Len(h)]
  <2>1. m \in Events(h)
    BY <1>2, TailEvents
  <2> HIDE DEF m
  <2>2. Due(<<>>, m, P, n) /\ m <= n /\ \A y \in P : m < y
    BY <2>1, NoEvents DEF Serves, Due
  <2>3. ASSUME NEW k \in DOMAIN q PROVE Due(q[k], m, P, n)
    BY <2>1 DEF Serves, Due, Precedes
  <2>4. Serves(m, <<>>, q, P, n)
    BY <2>2, <2>3, <1>1 DEF Serves
  <2> QED BY <2>4 DEF m
<1> QED BY <1>1, <1>2

LEMMA ServesOffer ==
  ASSUME NEW l \in Nat, NEW h \in EventSeqs, NEW q \in Seq(Batches), NEW s \in Batches, NEW R, NEW n,
         Serves(l, h, q, Events(s) \cup R, n), Ascending(s), \A x \in Events(s) : x <= n,
         \A x \in Events(s), y \in R : x < y
  PROVE  Serves(l, h, Append(q, s), R, n)
<1> DEFINE r == Append(q, s)
           P == Events(s) \cup R
<1>1. \A k \in DOMAIN r : \/ k \in DOMAIN q /\ r[k] = q[k]
                          \/ k = Len(q) + 1 /\ r[k] = s
  <2>1. /\ r \in Seq(Batches) /\ Len(r) = Len(q) + 1 /\ r[Len(q) + 1] = s
        /\ \A k \in 1 .. Len(q) : r[k] = q[k]
    BY AppendProperties
  <2>2. DOMAIN r = 1 .. Len(r) /\ DOMAIN q = 1 .. Len(q) /\ Len(q) \in Nat
    BY <2>1, LenProperties
  <2> QED BY <2>1, <2>2
<1>2. \A k \in DOMAIN q : k \in Nat /\ k <= Len(q) /\ Len(q) \in Nat
  BY LenProperties
<1> HIDE DEF r
<1>3. ASSUME NEW t, Due(t, l, P, n) PROVE Due(t, l, R, n) /\ Precedes(t, s)
  BY <1>3 DEF Due, Precedes
<1>4. Due(s, l, R, n)
  BY DEF Due, Serves
<1>5. Due(h, l, R, n) /\ Precedes(h, s) /\ l <= n /\ \A y \in R : l < y
  BY <1>3 DEF Serves
<1>6. ASSUME NEW k \in DOMAIN q
      PROVE  Due(q[k], l, R, n) /\ Precedes(q[k], s) /\ Precedes(h, q[k])
  BY <1>3 DEF Serves
<1>7. ASSUME NEW k \in DOMAIN r PROVE Due(r[k], l, R, n) /\ Precedes(h, r[k])
  BY <1>1, <1>4, <1>5, <1>6
<1>8. ASSUME NEW k \in DOMAIN r, NEW m \in DOMAIN r, k < m PROVE Precedes(r[k], r[m])
  <2>1. k \in DOMAIN q /\ r[k] = q[k]
    <3>1. CASE m \in DOMAIN q
      BY <3>1, <1>1, <1>2, <1>8
    <3>2. CASE m = Len(q) + 1
      <4>1. Len(q) \in Nat
        BY LenProperties
      <4> QED BY <4>1, <3>2, <1>1, <1>8
    <3> QED BY <3>1, <3>2, <1>1
  <2>2. CASE m \in DOMAIN q /\ r[m] = q[m]
    BY <2>1, <2>2, <1>8 DEF Serves
  <2>3. CASE r[m] = s
    BY <2>1, <2>3, <1>6
  <2> QED BY <2>2, <2>3, <1>1
<1>9. Serves(l, h, r, R, n)
  BY <1>5, <1>7, <1>8 DEF Serves
<1> QED BY <1>9 DEF r

\* A step of the hub that does not touch the connections, and takes in at most
\* new events.
LEMMA HubKeepsOrder ==
  ASSUME Ordered, Typed', HubOrder', sent <= sent',
         \A y \in Pending' : y \in Pending \/ y > sent,
         UNCHANGED <<subscribers, channel, pc, hand, last>>
  PROVE  Ordered'
<1>1. Typed /\ sent \in Nat /\ sent' \in Nat /\ Pending \subseteq Nat /\ Pending' \subseteq Nat
  <2>1. Typed
    BY DEF Ordered
  <2>2. sent' \in Nat /\ Pending' \subseteq Nat
    <3>1. sent' \in Nat
      BY HubAssumption DEF Typed, Counted
    <3>2. batch' \in EventSeqs /\ buffer' \in EventSeqs /\ broadcast' \in EventSeqs
      BY DEF Typed, Counted, EventSeqs
    <3>3. Events(batch') \subseteq Nat /\ Events(buffer') \subseteq Nat /\ Events(broadcast') \subseteq Nat
      BY <3>2, EventsAreNumbers
    <3> QED BY <3>1, <3>3 DEF Pending, Events
  <2> QED BY <2>1, <2>2, HubEvents
<1>2. ASSUME NEW c \in Clients PROVE ClientOrder(c)'
  <2>1. ClientOrder(c)
    BY DEF Ordered
  <2>2. ASSUME c \in subscribers PROVE Serves(last[c], hand[c], channel[c], Pending', sent')
    BY <2>1, <2>2, <1>1, ClientEvents, ServesWider DEF ClientOrder
  <2> QED BY <2>1, <2>2 DEF ClientOrder
<1> QED BY <1>2 DEF Ordered

\* What the steps of the hub do to three such queues: an event is sent, taken from
\* the channel, cut into a batch, and handed out.
LEMMA QueuesInOrder ==
  ASSUME NEW s \in EventSeqs, NEW t \in EventSeqs, NEW u \in EventSeqs,
         NEW n \in Nat, InOrder(s, t, u, n)
  PROVE  /\ InOrder(s, t, u, n + 1)
         /\ n + 1 \in 1 .. MaxSent => InOrder(s, t, Append(u, n + 1), n + 1)
         /\ u # <<>> => InOrder(s, Append(t, Head(u)), Tail(u), n)
         /\ \A m \in 1 .. Len(t) : InOrder(SubSeq(t, m, Len(t)), <<>>, u, n)
         /\ InOrder(<<>>, t, u, n)
<1>1. Events(s) \subseteq Nat /\ Events(t) \subseteq Nat /\ Events(u) \subseteq Nat
  BY EventsAreNumbers
<1>2. InOrder(s, t, u, n + 1)
  BY <1>1 DEF InOrder
<1>3. ASSUME n + 1 \in 1 .. MaxSent PROVE InOrder(s, t, Append(u, n + 1), n + 1)
  <2> DEFINE v == Append(u, n + 1)
  <2>1. \A y \in Events(u) : y < n + 1
    BY <1>1 DEF InOrder
  <2>2. Events(v) = Events(u) \cup {n + 1} /\ Ascending(v)
    BY <2>1, <1>3, AppendEvents, Zenon DEF InOrder
  <2> HIDE DEF v
  <2>3. InOrder(s, t, v, n + 1)
    BY <2>2, <1>1 DEF InOrder, Precedes
  <2> QED BY <2>3 DEF v
<1>4. ASSUME u # <<>> PROVE InOrder(s, Append(t, Head(u)), Tail(u), n)
  <2> DEFINE h == Head(u)
             r == Tail(u)
             v == Append(t, h)
  <2>1. /\ h \in 1 .. MaxSent /\ h \in Events(u) /\ Events(r) \subseteq Events(u)
        /\ Ascending(r) /\ \A y \in Events(r) : h < y
    BY <1>4, TailEvents, Zenon DEF InOrder
  <2> HIDE DEF h, r
  <2>2. \A y \in Events(t) : y < h
    BY <2>1 DEF InOrder, Precedes
  <2>3. Events(v) = Events(t) \cup {h} /\ Ascending(v)
    BY <2>1, <2>2, AppendEvents, Zenon DEF InOrder
  <2> HIDE DEF v
  <2>4. InOrder(s, v, r, n)
    BY <2>1, <2>3 DEF InOrder, Precedes
  <2> QED BY <2>4 DEF v, h, r
<1>5. ASSUME NEW m \in 1 .. Len(t) PROVE InOrder(SubSeq(t, m, Len(t)), <<>>, u, n)
  <2> DEFINE v == SubSeq(t, m, Len(t))
  <2>1. Events(v) \subseteq Events(t) /\ Ascending(v)
    BY CutEvents, Zenon DEF InOrder
  <2> HIDE DEF v
  <2>2. InOrder(v, <<>>, u, n)
    BY <2>1, NoEvents DEF InOrder, Precedes
  <2> QED BY <2>2 DEF v
<1>6. InOrder(<<>>, t, u, n)
  BY NoEvents DEF InOrder, Precedes
<1> QED BY <1>2, <1>3, <1>4, <1>5, <1>6, Zenon

\* Sending, consuming and draining, and the first half of flush.
LEMMA HubOrdered ==
  ASSUME Ordered, Typed',
         Send \/ TakeOne \/ TickerPulse \/ DrainDone \/ FlushCapture \/ FlushNothing
  PROVE  Ordered'
<1> USE DEF subVars, history
<1>1. Typed /\ InOrder(batch, buffer, broadcast, sent)
  BY DEF Ordered, HubOrder
<1>2. UNCHANGED <<subscribers, channel, pc, hand, last>>
  BY DEF Send, TakeOne, TickerPulse, DrainDone, FlushCapture, FlushNothing
<1>3. ASSUME InOrder(batch', buffer', broadcast', sent'), sent' \in {sent, sent + 1},
             Events(batch') \cup Events(buffer') \cup Events(broadcast')
                \subseteq Pending \cup {x \in Nat : x > sent}
      PROVE  Ordered'
  <2>1. HubOrder'
    BY <1>3 DEF HubOrder
  <2>2. \A y \in Pending' : y \in Pending \/ y > sent
    BY <1>3 DEF Pending, Events
  <2>3. sent <= sent'
    BY <1>1, <1>3, HubEvents
  <2> QED BY <2>1, <2>2, <2>3, <1>2, HubKeepsOrder
<1>4. CASE TickerPulse \/ DrainDone \/ FlushNothing
  <2>1. UNCHANGED <<sent, batch, buffer, broadcast>>
    BY <1>4 DEF TickerPulse, DrainDone, FlushNothing
  <2> QED BY <2>1, <1>1, <1>3 DEF Pending
<1>5. CASE Send
  <2>1. /\ sent' = sent + 1 /\ UNCHANGED <<batch, buffer>>
        /\ sent \in Nat /\ sent + 1 \in 1 .. MaxSent
        /\ broadcast' = broadcast \/ broadcast' = Append(broadcast, sent + 1)
    BY <1>1, <1>5, Numbers, HubAssumption DEF Send
  <2>2. Events(Append(broadcast, sent + 1)) = Events(broadcast) \cup {sent + 1}
    BY <2>1, <1>1, HubEvents, AppendEvents, Zenon
  <2>3. Events(broadcast') \subseteq Events(broadcast) \cup {sent + 1}
    BY <2>1, <2>2, Zenon
  <2>4. /\ InOrder(batch, buffer, broadcast, sent + 1)
        /\ InOrder(batch, buffer, Append(broadcast, sent + 1), sent + 1)
    BY <2>1, <1>1, HubEvents, QueuesInOrder, Zenon
  <2>5. InOrder(batch', buffer', broadcast', sent')
    BY <2>1, <2>4, Zenon
  <2>6. sent + 1 \in {x \in Nat : x > sent}
    BY <2>1
  <2> QED BY <2>1, <2>3, <2>5, <2>6, <1>3 DEF Pending
<1>6. CASE TakeOne
  <2>1. /\ UNCHANGED <<sent, batch>> /\ broadcast # <<>>
        /\ buffer' = Append(buffer, Head(broadcast)) /\ broadcast' = Tail(broadcast)
    BY <1>6 DEF TakeOne
  <2>2. InOrder(batch, Append(buffer, Head(broadcast)), Tail(broadcast), sent)
    BY <2>1, <1>1, HubEvents, QueuesInOrder, Zenon
  <2>3. InOrder(batch', buffer', broadcast', sent')
    BY <2>1, <2>2, Zenon
  <2>4. Head(broadcast) \in 1 .. MaxSent /\ Head(broadcast) \in Events(broadcast)
    BY <2>1, <1>1, HubEvents, TailEvents, Zenon
  <2>5. Events(buffer') = Events(buffer) \cup {Head(broadcast)} /\ Events(broadcast') \subseteq Events(broadcast)
    BY <2>1, <2>4, <1>1, HubEvents, AppendEvents, TailEvents, Zenon
  <2> QED BY <2>1, <2>3, <2>4, <2>5, <1>3 DEF Pending
<1>7. CASE FlushCapture
  <2>1. /\ UNCHANGED <<sent, broadcast>> /\ buffer # <<>>
        /\ batch' = SubSeq(buffer, Excess + 1, Len(buffer)) /\ buffer' = <<>>
    BY <1>7 DEF FlushCapture
  <2>2. Excess + 1 \in 1 .. Len(buffer)
    <3>1. buffer \in Seq(1 .. MaxSent)
      BY <1>1, HubEvents DEF EventSeqs
    <3>2. Len(buffer) \in Nat /\ Len(buffer) # 0
      BY <2>1, <3>1, EmptySeq, LenProperties
    <3> QED BY <3>2, HubAssumption DEF Excess
  <2>3. InOrder(SubSeq(buffer, Excess + 1, Len(buffer)), <<>>, broadcast, sent)
    BY <2>2, <1>1, HubEvents, QueuesInOrder, Zenon
  <2>4. InOrder(batch', buffer', broadcast', sent')
    BY <2>1, <2>3, Zenon
  <2>5. Events(batch') \subseteq Events(buffer) /\ Events(buffer') = {}
    BY <2>1, <2>2, <1>1, HubEvents, CutEvents, NoEvents, Zenon
  <2> QED BY <2>1, <2>4, <2>5, <1>3 DEF Pending
<1> QED BY <1>4, <1>5, <1>6, <1>7

\* The second half of flush.
LEMMA BroadcastOrdered == ASSUME Ordered, Typed', FlushBroadcast PROVE Ordered'
<1>1. Typed /\ InOrder(batch, buffer, broadcast, sent)
  BY DEF Ordered, HubOrder
<1>2. /\ hub = "batch" /\ batch' = <<>>
      /\ UNCHANGED <<sent, buffer, broadcast, subscribers, pc, hand, last>>
  BY DEF FlushBroadcast, history
<1>3. HubOrder'
  <2>1. InOrder(<<>>, buffer, broadcast, sent)
    BY <1>1, HubEvents, QueuesInOrder, Zenon
  <2> QED BY <2>1, <1>2 DEF HubOrder
<1> DEFINE R == Events(buffer) \cup Events(broadcast)
<1>4. /\ Pending' = R /\ Pending = Events(batch) \cup R /\ Pending \in SUBSET Nat
      /\ R \in SUBSET Nat /\ sent \in Nat /\ batch \in Batches
  <2>1. Pending' = R /\ Pending = Events(batch) \cup R
    BY <1>2, NoEvents DEF Pending, Events
  <2>2. batch \in Batches
    BY <1>1, <1>2 DEF Typed, Counted, Batches
  <2> QED BY <2>1, <2>2, <1>1, HubEvents
<1>5. /\ Ascending(batch) /\ \A x \in Events(batch) : x <= sent
      /\ \A x \in Events(batch), y \in R : x < y
  BY <1>1 DEF InOrder, Precedes
<1> HIDE DEF R
<1>6. ASSUME NEW c \in Clients PROVE ClientOrder(c)'
  <2>1. /\ ClientOrder(c) /\ hand[c] \in EventSeqs /\ last[c] \in Nat
        /\ channel[c] \in Seq(Batches)
    BY <1>1, ClientEvents DEF Ordered
  <2>2. channel'[c] = channel[c] \/ channel'[c] = Append(channel[c], batch)
    BY DEF FlushBroadcast
  <2>3. ASSUME c \in subscribers
        PROVE  /\ Serves(last[c], hand[c], channel[c], R, sent)
               /\ Serves(last[c], hand[c], Append(channel[c], batch), R, sent)
    <3>1. Serves(last[c], hand[c], channel[c], Events(batch) \cup R, sent)
      BY <2>1, <2>3, <1>4 DEF ClientOrder
    <3>2. Serves(last[c], hand[c], Append(channel[c], batch), R, sent)
      BY <3>1, <2>1, <1>4, <1>5, ServesOffer
    <3>3. \A y \in R : y \in Events(batch) \cup R \/ y > sent
      OBVIOUS
    <3>4. Events(batch) \cup R \in SUBSET Nat /\ sent <= sent
      BY <1>4
    <3>5. Serves(last[c], hand[c], channel[c], R, sent)
      BY <3>1, <3>3, <3>4, <2>1, <1>4, ServesWider
    <3> QED BY <3>2, <3>5
  <2>4. c \in subscribers => Serves(last[c], hand[c], channel'[c], R, sent)
    BY <2>2, <2>3
  <2> QED BY <2>1, <2>4, <1>2, <1>4 DEF ClientOrder
<1> QED BY <1>3, <1>6 DEF Ordered

\* A step of one connection leaves the hub's events and the other connections alone.
LEMMA ClientOrdered ==
  ASSUME Ordered, Typed', NEW c \in Clients, ClientStep(c)
  PROVE  Ordered'
<1> USE DEF hubVars, subVars, history
<1>1. Typed /\ ClientOrder(c) /\ HubOrder /\ Connection(c)
  BY DEF Ordered, Typed
<1>2. UNCHANGED <<sent, batch, buffer, broadcast>>
  BY DEF ClientStep, Subscribe, TakeBatch, WriteBatch, SignalOverflow, SignalFails, Disconnect,
         Unsubscribe
<1>3. Pending' = Pending /\ HubOrder'
  <2>1. Pending' = Pending
    BY <1>2 DEF Pending
  <2>2. HubOrder'
    BY <1>1, <1>2 DEF HubOrder
  <2> QED BY <2>1, <2>2
<1>4. \A f \in {channel, hand, pc, last} : f = [d \in Clients |-> f[d]]
  BY <1>1 DEF Typed, Shapes
<1>5. ASSUME NEW d \in Clients, d # c PROVE ClientOrder(d)'
  <2>1. /\ channel'[d] = channel[d] /\ hand'[d] = hand[d] /\ pc'[d] = pc[d] /\ last'[d] = last[d]
        /\ d \in subscribers' <=> d \in subscribers
    BY <1>4, <1>5 DEF ClientStep, Subscribe, TakeBatch, WriteBatch, SignalOverflow, SignalFails,
           Disconnect, Unsubscribe
  <2>2. ClientOrder(d)
    BY DEF Ordered
  <2> QED BY <2>1, <2>2, <1>2, <1>3 DEF ClientOrder
<1>6. /\ hand[c] \in EventSeqs /\ last[c] \in Nat /\ channel[c] \in Seq(Batches)
      /\ pc[c] = "write" => hand[c] # <<>>
      /\ c \in subscribers <=> pc[c] # "off"
  BY <1>1, ClientEvents DEF Connection
<1>7. pc[c] # "off" => Serves(last[c], hand[c], channel[c], Pending, sent)
  BY <1>1, <1>6 DEF ClientOrder
<1>8. pc[c] # "write" => hand[c] = <<>>
  BY <1>1 DEF ClientOrder
<1>9. ASSUME pc'[c] # "write" => hand'[c] = <<>>,
             c \in subscribers' => Serves(last'[c], hand'[c], channel'[c], Pending, sent)
      PROVE  Ordered'
  <2>1. ClientOrder(c)'
    BY <1>2, <1>3, <1>9 DEF ClientOrder
  <2> QED BY <2>1, <1>3, <1>5 DEF Ordered
<1>10. CASE Subscribe(c)
  <2>1. /\ pc[c] = "off" /\ hand'[c] = hand[c] /\ last'[c] = 0 /\ channel'[c] = <<>>
    BY <1>10, <1>4 DEF Subscribe
  <2>2. \A y \in Pending : 0 < y
    <3>1. \A s \in EventSeqs : Events(s) \subseteq 1 .. MaxSent
      BY PositiveEvents
    <3> QED BY <3>1, <1>1, HubEvents, HubAssumption DEF Pending
  <2>3. sent \in Nat
    BY <1>1, HubEvents
  <2>4. Serves(0, <<>>, <<>>, Pending, sent)
    BY <2>2, <2>3, NoEvents DEF Serves, Due
  <2> QED BY <2>1, <2>4, <1>8, <1>9
<1>11. CASE TakeBatch(c)
  <2>1. /\ pc[c] = "select" /\ channel[c] # <<>> /\ last'[c] = last[c] /\ pc'[c] = "write"
        /\ hand'[c] = Head(channel[c]) /\ channel'[c] = Tail(channel[c])
    BY <1>11, <1>4 DEF TakeBatch
  <2>2. Serves(last[c], <<>>, channel[c], Pending, sent)
    BY <2>1, <1>7, <1>8
  <2>3. Serves(last[c], Head(channel[c]), Tail(channel[c]), Pending, sent)
    BY <2>1, <2>2, <1>6, ServesTake
  <2> QED BY <2>1, <2>3, <1>9
<1>12. CASE WriteBatch(c)
  <2>1. /\ pc[c] = "write" /\ last'[c] = hand[c][Len(hand[c])] /\ hand'[c] = <<>>
        /\ channel'[c] = channel[c]
    BY <1>12, <1>4 DEF WriteBatch
  <2>2. Serves(hand[c][Len(hand[c])], <<>>, channel[c], Pending, sent)
    BY <2>1, <1>6, <1>7, ServesWritten
  <2> QED BY <2>1, <2>2, <1>9
<1>13. CASE SignalOverflow(c) \/ SignalFails(c) \/ Disconnect(c)
  <2>1. /\ pc[c] # "off" /\ hand'[c] \in {hand[c], <<>>} /\ last'[c] = last[c]
        /\ channel'[c] = channel[c] /\ (pc[c] = "write" => hand'[c] = <<>>)
    BY <1>13, <1>4 DEF SignalOverflow, SignalFails, Disconnect
  <2>2. Serves(last[c], <<>>, channel[c], Pending, sent)
    BY <2>1, <1>6, <1>7, ServesWritten
  <2>3. hand'[c] = <<>>
    BY <2>1, <1>8
  <2> QED BY <2>1, <2>2, <2>3, <1>9
<1>14. CASE Unsubscribe(c)
  <2>1. pc[c] = "leave" /\ hand'[c] = hand[c] /\ c \notin subscribers'
    BY <1>14 DEF Unsubscribe
  <2> QED BY <2>1, <1>8, <1>9
<1> QED BY <1>10, <1>11, <1>12, <1>13, <1>14 DEF ClientStep

LEMMA OrderedNext == Ordered /\ [Next]_vars => Ordered'
<1> SUFFICES ASSUME Ordered, [Next]_vars PROVE Ordered'
  OBVIOUS
<1>1. Typed'
  BY TypedNext DEF Ordered
<1>2. CASE Next
  BY <1>1, <1>2, HubOrdered, BroadcastOrdered, ClientOrdered DEF Next, HubStep, Consume, DrainOne
<1>3. CASE UNCHANGED vars
  <2>1. UNCHANGED <<sent, broadcast, buffer, batch, subscribers, channel, pc, hand, last>>
    BY <1>3 DEF vars, hubVars, subVars, history
  <2>2. Pending' = Pending
    BY <2>1 DEF Pending
  <2> QED BY <2>1, <2>2, <1>1 DEF Ordered, HubOrder, ClientOrder
<1> QED BY <1>2, <1>3

\* A sequence of queues, one in order after the other.
Chain(q) ==
  \A i \in DOMAIN q : Ascending(q[i]) /\ \A j \in DOMAIN q : i < j => Precedes(q[i], q[j])

LEMMA ChainConcat ==
  ASSUME NEW s \in Seq(EventSeqs), NEW t \in Seq(EventSeqs), Chain(s), Chain(t),
         \A i \in DOMAIN s, j \in DOMAIN t : Precedes(s[i], t[j])
  PROVE  s \o t \in Seq(EventSeqs) /\ Chain(s \o t)
         /\ \A i \in DOMAIN (s \o t) : \/ \E k \in DOMAIN s : (s \o t)[i] = s[k]
                                       \/ \E k \in DOMAIN t : (s \o t)[i] = t[k]
<1> DEFINE q == s \o t
           n == Len(s)
<1>1. /\ q \in Seq(EventSeqs) /\ Len(q) = n + Len(t)
      /\ \A i \in 1 .. n + Len(t) : q[i] = IF i <= n THEN s[i] ELSE t[i - n]
  BY ConcatProperties
<1>2. /\ n \in Nat /\ Len(t) \in Nat /\ DOMAIN s = 1 .. n /\ DOMAIN t = 1 .. Len(t)
      /\ DOMAIN q = 1 .. Len(q)
  BY <1>1, LenProperties
<1> HIDE DEF q, n
<1>3. ASSUME NEW i \in DOMAIN q
      PROVE  \/ i \in DOMAIN s /\ i \in Nat /\ i <= n /\ q[i] = s[i]
             \/ i - n \in DOMAIN t /\ i \in Nat /\ i > n /\ q[i] = t[i - n]
  BY <1>1, <1>2
<1>4. ASSUME NEW i \in DOMAIN q PROVE Ascending(q[i])
  BY <1>3 DEF Chain
<1>5. ASSUME NEW i \in DOMAIN q, NEW j \in DOMAIN q, i < j PROVE Precedes(q[i], q[j])
  <2>1. CASE j <= n
    BY <2>1, <1>2, <1>3, <1>5 DEF Chain
  <2>2. CASE i <= n /\ ~(j <= n)
    BY <2>2, <1>2, <1>3, <1>5
  <2>3. CASE ~(i <= n)
    <3>1. /\ i - n \in DOMAIN t /\ q[i] = t[i - n] /\ j - n \in DOMAIN t /\ q[j] = t[j - n]
          /\ i - n < j - n
      BY <2>3, <1>2, <1>3, <1>5
    <3> QED BY <3>1 DEF Chain
  <2> QED BY <2>1, <2>2, <2>3
<1>6. q \in Seq(EventSeqs) /\ Chain(q)
      /\ \A i \in DOMAIN q : \/ \E k \in DOMAIN s : q[i] = s[k]
                             \/ \E k \in DOMAIN t : q[i] = t[k]
  BY <1>1, <1>3, <1>4, <1>5 DEF Chain
<1> QED BY <1>6 DEF q

LEMMA OrderedIsInOrder == Ordered => InSendOrder
<1> SUFFICES ASSUME Ordered, NEW c \in subscribers PROVE Chain(Stages(c))
  BY DEF InSendOrder, Chain
<1> DEFINE f == IF last[c] = 0 THEN <<>> ELSE <<last[c]>>
           a == <<f, hand[c]>>
           z == <<batch, buffer, broadcast>>
           q == channel[c]
<1>1. c \in Clients /\ Typed /\ InOrder(batch, buffer, broadcast, sent)
  BY DEF Ordered, Typed, Shapes, HubOrder
<1>2. Serves(last[c], hand[c], q, Pending, sent)
  BY <1>1 DEF Ordered, ClientOrder
<1>3. /\ hand[c] \in EventSeqs /\ last[c] \in 0 .. MaxSent /\ q \in Seq(Batches)
  BY <1>1 DEF Typed, Connection
<1>4. f \in EventSeqs /\ Events(f) \subseteq {last[c]} /\ Ascending(f)
  <2>1. CASE last[c] = 0
    BY <2>1, NoEvents DEF EventSeqs
  <2>2. CASE last[c] # 0
    <3>1. last[c] \in 1 .. MaxSent
      BY <2>2, <1>3, HubAssumption
    <3>2. <<last[c]>> \in Seq(1 .. MaxSent)
      BY <3>1
    <3>3. DOMAIN <<last[c]>> = {1} /\ <<last[c]>>[1] = last[c]
      OBVIOUS
    <3>4. Events(<<last[c]>>) \subseteq {last[c]} /\ Ascending(<<last[c]>>)
      BY <3>3 DEF Events, Ascending
    <3> QED BY <2>2, <3>2, <3>4 DEF EventSeqs
  <2> QED BY <2>1, <2>2
<1> HIDE DEF f, q
<1>5. /\ a \in Seq(EventSeqs) /\ DOMAIN a = {1, 2} /\ a[1] = f /\ a[2] = hand[c]
  BY <1>3, <1>4
<1>6. /\ z \in Seq(EventSeqs) /\ DOMAIN z = {1, 2, 3}
      /\ z[1] = batch /\ z[2] = buffer /\ z[3] = broadcast
  BY <1>1, HubEvents
<1>7. q \in Seq(EventSeqs)
  BY <1>3 DEF Batches
<1> HIDE DEF a, z
<1>8. Chain(a)
  BY <1>2, <1>4, <1>5 DEF Chain, Serves, Due, Precedes
<1>9. Chain(z)
  BY <1>1, <1>6 DEF Chain, InOrder
<1>10. Chain(q)
  BY <1>2 DEF Chain, Serves, Due
<1>11. \A i \in DOMAIN a, j \in DOMAIN q : Precedes(a[i], q[j])
  BY <1>2, <1>4, <1>5 DEF Serves, Due, Precedes
<1>12. /\ a \o q \in Seq(EventSeqs) /\ Chain(a \o q)
       /\ \A i \in DOMAIN (a \o q) : \/ \E k \in DOMAIN a : (a \o q)[i] = a[k]
                                     \/ \E k \in DOMAIN q : (a \o q)[i] = q[k]
  BY <1>5, <1>7, <1>8, <1>10, <1>11, ChainConcat
<1>13. \A j \in DOMAIN z : Events(z[j]) \subseteq Pending
  BY <1>6 DEF Pending
<1>14. /\ \A i \in DOMAIN a : \A x \in Events(a[i]), y \in Pending : x < y
       /\ \A i \in DOMAIN q : \A x \in Events(q[i]), y \in Pending : x < y
  BY <1>2, <1>4, <1>5 DEF Serves, Due
<1>15. \A i \in DOMAIN (a \o q), j \in DOMAIN z : Precedes((a \o q)[i], z[j])
  BY <1>12, <1>13, <1>14 DEF Precedes
<1>16. Chain((a \o q) \o z)
  BY <1>6, <1>9, <1>12, <1>15, ChainConcat
<1> QED BY <1>16 DEF Stages, a, q, z, f

\* Whatever is dropped and whoever reconnects, a connection receives events in the
\* order in which they were sent, and none of them twice: what it received last, what
\* its handler writes, what waits in its channel, and what the hub still holds, follow
\* one another.
THEOREM ReceivedInSendOrder == Spec => []InSendOrder
BY OrderedInit, OrderedNext, OrderedIsInOrder, PTL DEF Spec

=============================================================================
