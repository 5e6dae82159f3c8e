---------------------------- MODULE OutboxProofs ----------------------------
(***************************************************************************)
(* Theorems about the outbox relay, for every finite set of events and     *)
(* relays, every batch size and every value of the bounds; and, at the     *)
(* end, about the path of an event through relay and consumer (Delivery).  *)
(***************************************************************************)
EXTENDS Delivery, FiniteSetTheorems, TLAPS

-----------------------------------------------------------------------------
(* Sequences.                                                              *)

\* Appending adds the last element to the range and moves nothing.
LEMMA AppendFacts ==
  ASSUME NEW S, NEW s \in Seq(S), NEW e \in S
  PROVE  /\ Append(s, e) \in Seq(S)
         /\ Len(Append(s, e)) = Len(s) + 1
         /\ \A i \in 1..Len(s) : Append(s, e)[i] = s[i]
         /\ Append(s, e)[Len(s) + 1] = e
         /\ Range(Append(s, e)) = Range(s) \cup {e}
<1>1. /\ Append(s, e) \in Seq(S)
      /\ DOMAIN s = 1..Len(s)
      /\ DOMAIN Append(s, e) = 1..(Len(s) + 1)
      /\ Len(Append(s, e)) = Len(s) + 1
      /\ \A i \in 1..Len(s) : Append(s, e)[i] = s[i]
      /\ Append(s, e)[Len(s) + 1] = e
  OBVIOUS
<1>2. Range(Append(s, e)) = Range(s) \cup {e}
  <2>1. ASSUME NEW x \in Range(s)
        PROVE  x \in Range(Append(s, e))
    <3>1. PICK i \in 1..Len(s) : x = s[i]
      BY <1>1 DEF Range
    <3>2. i \in 1..(Len(s) + 1)
      OBVIOUS
    <3>3. QED
      BY <1>1, <3>1, <3>2 DEF Range
  <2>2. e \in Range(Append(s, e))
    <3>1. Len(s) + 1 \in 1..(Len(s) + 1)
      OBVIOUS
    <3>2. QED
      BY <1>1, <3>1 DEF Range
  <2>3. ASSUME NEW x \in Range(Append(s, e))
        PROVE  x \in Range(s) \cup {e}
    <3>1. PICK i \in 1..(Len(s) + 1) : x = Append(s, e)[i]
      BY <1>1 DEF Range
    <3>2. i \in 1..Len(s) \/ i = Len(s) + 1
      OBVIOUS
    <3>3. QED
      BY <1>1, <3>1, <3>2 DEF Range
  <2>4. QED
    BY <2>1, <2>2, <2>3
<1>3. QED
  BY <1>1, <1>2

\* The head and the tail of a batch.
LEMMA TailFacts ==
  ASSUME NEW S, NEW b \in Seq(S), b # << >>
  PROVE  /\ Len(b) \in Nat \ {0}
         /\ Head(b) \in Range(b)
         /\ Head(b) = b[1]
         /\ Head(b) \in S
         /\ Tail(b) \in Seq(S)
         /\ Len(Tail(b)) = Len(b) - 1
         /\ \A i \in 1..(Len(b) - 1) : Tail(b)[i] = b[i + 1]
         /\ Range(Tail(b)) \subseteq Range(b)
<1>1. /\ Len(b) \in Nat \ {0}
      /\ DOMAIN b = 1..Len(b)
      /\ Head(b) = b[1]
      /\ Tail(b) \in Seq(S)
      /\ DOMAIN Tail(b) = 1..(Len(b) - 1)
      /\ Len(Tail(b)) = Len(b) - 1
      /\ \A i \in 1..(Len(b) - 1) : Tail(b)[i] = b[i + 1]
  OBVIOUS
<1>2. 1 \in DOMAIN b
  BY <1>1
<1>3. Head(b) \in Range(b) /\ Head(b) \in S
  BY <1>1, <1>2 DEF Range
<1>4. ASSUME NEW x \in Range(Tail(b))
      PROVE  x \in Range(b)
  <2>1. PICK i \in 1..(Len(b) - 1) : x = Tail(b)[i]
    BY <1>1, <1>4 DEF Range
  <2>2. i + 1 \in DOMAIN b
    BY <1>1, <2>1
  <2>3. QED
    BY <1>1, <2>1, <2>2 DEF Range
<1>5. QED
  BY <1>1, <1>3, <1>4

\* A page holds at most Limit events of S; what it leaves out is not older, and
\* it is sorted.
LEMMA PageFacts ==
  ASSUME OTypeOK, NEW S \in SUBSET Event, NEW q \in Page(S)
  PROVE  /\ q \in Seq(Event)
         /\ Len(q) <= Limit
         /\ Range(q) \subseteq S
         /\ \A i, j \in 1..Len(q) : i < j => createdAt[q[i]] <= createdAt[q[j]]
         /\ \A i \in 1..Len(q), e \in S \ Range(q) :
              createdAt[q[i]] <= createdAt[e]
<1>1. PICK m \in 0..Limit : q \in [1..m -> S]
  BY OutboxAssumption DEF Page, BoundedSeq, SeqOf
<1>2. q \in Seq(S) /\ Len(q) = m /\ DOMAIN q = 1..m
  BY <1>1
<1>3. Range(q) \subseteq S
  BY <1>1, <1>2 DEF Range
<1>4. q \in Seq(Event)
  BY <1>1, <1>2
<1>5. QED
  BY <1>1, <1>2, <1>3, <1>4, OutboxAssumption DEF Page

-----------------------------------------------------------------------------
(* Type correctness.                                                       *)

\* A relay that starts over holds no batch, and keeps the types.
LEMMA IdleType ==
  ASSUME OTypeOK, NEW r \in Relay,
         pc' = [pc EXCEPT ![r] = "idle"],
         batch' = [batch EXCEPT ![r] = << >>],
         UNCHANGED <<status, createdAt, topic, clock, earlier>>,
         connected' \in [Relay -> BOOLEAN], faults' \in Nat
  PROVE  OTypeOK'
<1>1. /\ << >> \in Seq(Event)
      /\ Len(<< >>) = 0
  OBVIOUS
<1>2. /\ pc' \in [Relay -> {"idle", "select", "send", "mark"}]
      /\ batch' \in [Relay -> Seq(Event)]
  BY <1>1 DEF OTypeOK
<1>3. ASSUME NEW p \in Relay
      PROVE  /\ Len(batch'[p]) <= Limit
             /\ pc'[p] \in {"send", "mark"} => batch'[p] # << >>
  <2>1. CASE p = r
    BY <1>1, <2>1, OutboxAssumption DEF OTypeOK
  <2>2. CASE p # r
    BY <2>2 DEF OTypeOK
  <2>3. QED
    BY <2>1, <2>2
<1>4. QED
  BY <1>2, <1>3 DEF OTypeOK

\* Every step of queueEvent keeps the types.
LEMMA QueueType ==
  ASSUME OTypeOK, NEW e \in Event, Queue(e)
  PROVE  OTypeOK'
<1>1. UNCHANGED <<topic, pc, batch, connected, clock>>
  BY DEF Queue, Stamp, Insert, InsertFails, relays
<1>2. CASE Stamp(e)
  <2>1. Accepted \in SUBSET Event /\ "stamped" \in Status
    BY DEF Accepted, Status
  <2>2. QED
    BY <1>1, <1>2, <2>1 DEF Stamp, OTypeOK
<1>3. CASE Insert(e) \/ InsertFails(e)
  <2>1. "pending" \in Status /\ "none" \in Status
    BY DEF Status
  <2>2. status' \in [Event -> Status]
    BY <1>3, <2>1 DEF Insert, InsertFails, OTypeOK
  <2>3. UNCHANGED <<createdAt, earlier>> /\ faults' \in Nat
    BY <1>3 DEF Insert, InsertFails, OTypeOK
  <2>4. QED
    BY <1>1, <2>2, <2>3 DEF OTypeOK
<1>4. QED
  BY <1>2, <1>3 DEF Queue

\* SELECT stores a batch of its type.
LEMMA SelectType ==
  ASSUME OTypeOK, NEW r \in Relay, Select(r)
  PROVE  OTypeOK'
<1>1. PICK q \in Page(Pending) :
        /\ batch' = [batch EXCEPT ![r] = q]
        /\ pc' = [pc EXCEPT ![r] = IF q = << >> THEN "idle" ELSE "send"]
  BY DEF Select
<1>2. q \in Seq(Event) /\ Len(q) <= Limit
  BY PageFacts DEF Pending
<1>3. /\ pc' \in [Relay -> {"idle", "select", "send", "mark"}]
      /\ batch' \in [Relay -> Seq(Event)]
  BY <1>1, <1>2 DEF OTypeOK
<1>4. ASSUME NEW p \in Relay
      PROVE  /\ Len(batch'[p]) <= Limit
             /\ pc'[p] \in {"send", "mark"} => batch'[p] # << >>
  BY <1>1, <1>2 DEF OTypeOK
<1>5. UNCHANGED <<status, createdAt, topic, connected, clock, faults, earlier>>
  BY DEF Select
<1>6. QED
  BY <1>3, <1>4, <1>5 DEF OTypeOK

\* Sending keeps the types.
LEMMA SendType ==
  ASSUME OTypeOK, NEW r \in Relay, Send(r) \/ SendUnacked(r)
  PROVE  OTypeOK'
<1>1. batch[r] \in Seq(Event) /\ batch[r] # << >>
  BY DEF OTypeOK, Send, SendUnacked, At
<1>2. Head(batch[r]) \in Event
  BY <1>1, TailFacts
<1>3. topic' = Append(topic, Head(batch[r])) /\ topic \in Seq(Event)
  BY DEF Send, SendUnacked, OTypeOK
<1>4. topic' \in Seq(Event)
  BY <1>2, <1>3, AppendFacts
<1>5. UNCHANGED <<status, createdAt, batch, connected, clock, earlier>>
  BY DEF Send, SendUnacked, relays
<1>6. faults' \in Nat
  BY DEF Send, SendUnacked, OTypeOK
<1>7. /\ pc' \in [Relay -> {"idle", "select", "send", "mark"}]
      /\ \A p \in Relay : pc'[p] \in {"send", "mark"} => pc[p] \in {"send", "mark"}
  <2>1. CASE Send(r)
    BY <2>1 DEF Send, At, OTypeOK
  <2>2. CASE SendUnacked(r)
    BY <2>2 DEF SendUnacked, relays, OTypeOK
  <2>3. QED
    BY <2>1, <2>2
<1>8. QED
  BY <1>4, <1>5, <1>6, <1>7 DEF OTypeOK

\* The UPDATE keeps the types.
LEMMA MarkType ==
  ASSUME OTypeOK, NEW r \in Relay, Mark(r)
  PROVE  OTypeOK'
<1>1. batch[r] \in Seq(Event) /\ batch[r] # << >>
  BY DEF OTypeOK, Mark, At
<1>2. /\ Head(batch[r]) \in Event
      /\ Tail(batch[r]) \in Seq(Event)
      /\ Len(Tail(batch[r])) <= Len(batch[r])
      /\ Len(Tail(batch[r])) \in Nat /\ Len(batch[r]) \in Nat
  BY <1>1, TailFacts
<1>3. /\ status' \in [Event -> Status]
      /\ batch' \in [Relay -> Seq(Event)]
      /\ pc' \in [Relay -> {"idle", "select", "send", "mark"}]
  BY <1>2 DEF Mark, At, OTypeOK, Status
<1>4. ASSUME NEW p \in Relay
      PROVE  /\ Len(batch'[p]) <= Limit
             /\ pc'[p] \in {"send", "mark"} => batch'[p] # << >>
  <2>1. CASE p = r
    BY <1>2, <2>1, OutboxAssumption DEF OTypeOK, Mark, At
  <2>2. CASE p # r
    BY <2>2 DEF OTypeOK, Mark, At
  <2>3. QED
    BY <2>1, <2>2
<1>5. UNCHANGED <<createdAt, topic, connected, clock, faults, earlier>>
  BY DEF Mark
<1>6. QED
  BY <1>3, <1>4, <1>5 DEF OTypeOK

\* OTypeOK is inductive.
LEMMA TypeStep ==
  ASSUME OTypeOK, [ONext]_ovars
  PROVE  OTypeOK'
<1>1. ASSUME NEW e \in Event, Queue(e) PROVE OTypeOK'
  BY <1>1, QueueType
<1>2. ASSUME NEW r \in Relay, Connect(r) \/ Disconnect(r) PROVE OTypeOK'
  <2>1. /\ UNCHANGED <<status, createdAt, topic, batch, clock, faults, earlier>>
        /\ connected' \in [Relay -> BOOLEAN]
        /\ pc' \in [Relay -> {"idle", "select", "send", "mark"}]
        /\ \A p \in Relay :
             pc'[p] \in {"send", "mark"} => pc[p] \in {"send", "mark"}
    BY <1>2 DEF Connect, Disconnect, At, OTypeOK
  <2>2. QED
    BY <2>1 DEF OTypeOK
<1>3. ASSUME NEW r \in Relay, Select(r) PROVE OTypeOK'
  BY <1>3, SelectType
<1>4. ASSUME NEW r \in Relay, Send(r) \/ SendUnacked(r) PROVE OTypeOK'
  BY <1>4, SendType
<1>5. ASSUME NEW r \in Relay, Mark(r) PROVE OTypeOK'
  BY <1>5, MarkType
<1>6. ASSUME NEW r \in Relay, Fail(r) \/ RelayCrash(r) PROVE OTypeOK'
  <2>1. connected' \in [Relay -> BOOLEAN]
    BY <1>6 DEF Fail, RelayCrash, OTypeOK
  <2>2. faults' \in Nat
    BY <1>6 DEF Fail, RelayCrash, OTypeOK
  <2>3. QED
    BY <1>6, <2>1, <2>2, IdleType DEF Fail, RelayCrash
<1>7. CASE OTick
  BY <1>7 DEF OTick, OTypeOK, relays
<1>8. CASE UNCHANGED ovars
  BY <1>8 DEF ovars, OTypeOK
<1>9. QED
  BY <1>1, <1>2, <1>3, <1>4, <1>5, <1>6, <1>7, <1>8 DEF ONext, Work

\* Every reachable state of the outbox is well typed: no relay holds more than
\* Limit rows, and none stands at a send without one.
THEOREM OutboxTypeCorrect == OSpec => []OTypeOK
<1>1. OInit => OTypeOK
  BY OutboxAssumption DEF OInit, OTypeOK, Status
<1>2. OTypeOK /\ [ONext]_ovars => OTypeOK'
  BY TypeStep
<1>3. QED
  BY <1>1, <1>2, PTL DEF OSpec

-----------------------------------------------------------------------------
(* What is published has been sent.                                        *)

\* PublishedIsSent, made inductive: the rows a relay holds exist, and the one
\* it is about to mark has been sent.
InFlight(r) ==
  /\ Range(batch[r]) \subseteq Accepted
  /\ pc[r] = "mark" => Head(batch[r]) \in Range(topic)

Sound == PublishedIsSent /\ \A r \in Relay : InFlight(r)

\* Rows are only added, and the log only grows.
LEMMA Growth ==
  ASSUME OTypeOK, Sound, [ONext]_ovars
  PROVE  Accepted \subseteq Accepted' /\ Range(topic) \subseteq Range(topic')
<1>1. ASSUME NEW e \in Event, Queue(e)
      PROVE  Accepted \subseteq Accepted' /\ topic' = topic
  BY <1>1 DEF Queue, Stamp, Insert, InsertFails, Accepted, OTypeOK
<1>2. ASSUME NEW r \in Relay, Send(r) \/ SendUnacked(r)
      PROVE  Accepted' = Accepted /\ Range(topic) \subseteq Range(topic')
  <2>1. /\ topic' = Append(topic, Head(batch[r]))
        /\ topic \in Seq(Event)
        /\ batch[r] \in Seq(Event) /\ batch[r] # << >>
        /\ status' = status
    BY <1>2 DEF Send, SendUnacked, At, OTypeOK
  <2>2. Head(batch[r]) \in Event
    BY <2>1, TailFacts
  <2>3. QED
    BY <2>1, <2>2, AppendFacts DEF Accepted
<1>3. ASSUME NEW r \in Relay, Mark(r)
      PROVE  Accepted' = Accepted /\ topic' = topic
  <2>1. batch[r] \in Seq(Event) /\ batch[r] # << >>
    BY <1>3 DEF Mark, At, OTypeOK
  <2>2. Head(batch[r]) \in Range(batch[r])
    BY <2>1, TailFacts
  <2>3. Head(batch[r]) \in Accepted
    BY <2>2 DEF Sound, InFlight
  <2>4. QED
    BY <1>3, <2>3 DEF Mark, Accepted, OTypeOK
<1>4. ASSUME NEW r \in Relay, \/ Connect(r) \/ Select(r) \/ Disconnect(r)
                              \/ Fail(r) \/ RelayCrash(r)
      PROVE  UNCHANGED <<status, topic>>
  BY <1>4 DEF Connect, Select, Disconnect, Fail, RelayCrash
<1>5. CASE OTick \/ UNCHANGED ovars
  BY <1>5 DEF OTick, ovars, Accepted
<1>6. QED
  BY <1>1, <1>2, <1>3, <1>4, <1>5 DEF ONext, Work, Accepted

\* Every step keeps every relay's rows in flight in order.
LEMMA InFlightStep ==
  ASSUME OTypeOK, Sound, [ONext]_ovars, NEW r \in Relay
  PROVE  InFlight(r)'
<1>1. CASE batch'[r] = batch[r] /\ (pc'[r] = pc[r] \/ pc'[r] # "mark")
  BY <1>1, Growth DEF Sound, InFlight
<1>2. CASE batch'[r] = << >> /\ pc'[r] = "idle"
  <2>1. Range(<< >>) = {}
    BY DEF Range
  <2>2. QED
    BY <1>2, <2>1 DEF InFlight
<1>3. CASE Select(r)
  <2>1. PICK q \in Page(Pending) :
          /\ batch' = [batch EXCEPT ![r] = q]
          /\ pc' = [pc EXCEPT ![r] = IF q = << >> THEN "idle" ELSE "send"]
    BY <1>3 DEF Select
  <2>2. Range(q) \subseteq Pending
    BY PageFacts DEF Pending
  <2>3. Pending \subseteq Accepted /\ Accepted' = Accepted
    BY <1>3 DEF Pending, Accepted, Select
  <2>4. batch'[r] = q /\ pc'[r] # "mark"
    BY <2>1 DEF OTypeOK
  <2>5. QED
    BY <2>2, <2>3, <2>4 DEF InFlight
<1>4. CASE Send(r)
  <2>1. /\ topic' = Append(topic, Head(batch[r]))
        /\ topic \in Seq(Event)
        /\ batch[r] \in Seq(Event) /\ batch[r] # << >>
        /\ batch' = batch
    BY <1>4 DEF Send, At, OTypeOK
  <2>2. Head(batch[r]) \in Event
    BY <2>1, TailFacts
  <2>3. Head(batch[r]) \in Range(topic')
    BY <2>1, <2>2, AppendFacts
  <2>4. QED
    BY <2>1, <2>3, Growth DEF Sound, InFlight
<1>5. CASE Mark(r)
  <2>1. batch[r] \in Seq(Event) /\ batch[r] # << >>
    BY <1>5 DEF Mark, At, OTypeOK
  <2>2. batch'[r] = Tail(batch[r]) /\ pc'[r] # "mark"
    BY <1>5 DEF Mark, At, OTypeOK
  <2>3. Range(Tail(batch[r])) \subseteq Range(batch[r])
    BY <2>1, TailFacts
  <2>4. QED
    BY <2>2, <2>3, Growth DEF Sound, InFlight
<1>6. ASSUME NEW p \in Relay,
             \/ Connect(p) \/ Disconnect(p) \/ Fail(p) \/ RelayCrash(p)
             \/ SendUnacked(p)
      PROVE  InFlight(r)'
  BY <1>1, <1>2, <1>6
     DEF Connect, Disconnect, Fail, RelayCrash, SendUnacked, At, relays, OTypeOK
<1>7. ASSUME NEW p \in Relay \ {r}, Select(p) \/ Send(p) \/ Mark(p)
      PROVE  InFlight(r)'
  BY <1>1, <1>7 DEF Select, Send, Mark, At, OTypeOK
<1>8. ASSUME NEW e \in Event, Queue(e) PROVE InFlight(r)'
  BY <1>1, <1>8 DEF Queue, Stamp, Insert, InsertFails, relays
<1>9. CASE OTick \/ UNCHANGED ovars
  BY <1>1, <1>9 DEF OTick, ovars, relays
<1>10. QED
  BY <1>3, <1>4, <1>5, <1>6, <1>7, <1>8, <1>9 DEF ONext, Work

\* Sound is inductive.
LEMMA SoundStep ==
  ASSUME OTypeOK, Sound, [ONext]_ovars
  PROVE  Sound'
<1>1. \A r \in Relay : InFlight(r)'
  BY InFlightStep
<1>2. ASSUME NEW e \in Event, status'[e] = "published"
      PROVE  e \in Range(topic')
  <2>1. CASE status[e] = "published"
    BY <2>1, Growth DEF Sound, PublishedIsSent
  <2>2. CASE status[e] # "published"
    <3>1. \A d \in Event : ~Queue(d)
      BY <1>2, <2>2 DEF Queue, Stamp, Insert, InsertFails, OTypeOK
    <3>2. PICK r \in Relay : Mark(r) /\ Head(batch[r]) = e
      BY <1>2, <2>2, <3>1
         DEF ONext, Work, Connect, Select, Send, Mark, SendUnacked, Disconnect,
             Fail, RelayCrash, OTick, ovars, OTypeOK
    <3>3. e \in Range(topic)
      BY <3>2 DEF Mark, At, Sound, InFlight
    <3>4. QED
      BY <3>3, Growth
  <2>3. QED
    BY <2>1, <2>2
<1>3. Range(topic') \subseteq Accepted'
  <2>1. CASE topic' = topic
    BY <2>1, Growth DEF Sound, PublishedIsSent
  <2>2. CASE topic' # topic
    <3>1. PICK r \in Relay : Send(r) \/ SendUnacked(r)
      BY <2>2 DEF ONext, Work, Queue, Stamp, Insert, InsertFails, Connect,
                  Select, Mark, Disconnect, Fail, RelayCrash, OTick, ovars
    <3>2. /\ topic' = Append(topic, Head(batch[r]))
          /\ topic \in Seq(Event)
          /\ batch[r] \in Seq(Event) /\ batch[r] # << >>
      BY <3>1 DEF Send, SendUnacked, At, OTypeOK
    <3>3. Head(batch[r]) \in Event /\ Head(batch[r]) \in Range(batch[r])
      BY <3>2, TailFacts
    <3>4. Range(topic') = Range(topic) \cup {Head(batch[r])}
      BY <3>2, <3>3, AppendFacts
    <3>5. QED
      BY <3>3, <3>4, Growth DEF Sound, InFlight, PublishedIsSent
  <2>3. QED
    BY <2>1, <2>2
<1>4. QED
  BY <1>1, <1>2, <1>3 DEF Sound, PublishedIsSent

\* Sound holds at the start.
LEMMA SoundInit ==
  ASSUME OInit
  PROVE  Sound
<1>1. Range(<< >>) = {}
  BY DEF Range
<1>2. QED
  BY <1>1 DEF OInit, Sound, InFlight, PublishedIsSent, Accepted

\* An event whose publishedAt is set was taken by the broker, and the broker has
\* nothing that no row stands for, however many relays race, fail and die.
THEOREM PublishedWasSent == OSpec => []PublishedIsSent
<1>1. OInit => OTypeOK /\ Sound
  BY SoundInit, OutboxAssumption DEF OInit, OTypeOK, Status
<1>2. OTypeOK /\ Sound /\ [ONext]_ovars => OTypeOK' /\ Sound'
  BY TypeStep, SoundStep
<1>3. Sound => PublishedIsSent
  BY DEF Sound
<1>4. QED
  BY <1>1, <1>2, <1>3, PTL DEF OSpec

-----------------------------------------------------------------------------
(* The rows implement an at-least-once log.                                *)

\* Every step of the outbox is a step of the log, or is invisible there.
LEMMA LogStep ==
  ASSUME OTypeOK, Sound, [ONext]_ovars
  PROVE  [Log!ANext]_(Log!avars)
<1>1. ASSUME NEW e \in Event, Insert(e) PROVE Log!Accept(e)
  <2>1. e \notin Accepted /\ topic' = topic
    BY <1>1 DEF Insert, Accepted
  <2>2. Accepted' = Accepted \cup {e}
    BY <1>1 DEF Insert, Accepted, OTypeOK
  <2>3. QED
    BY <2>1, <2>2 DEF Log!Accept
<1>2. ASSUME NEW e \in Event, Stamp(e) \/ InsertFails(e)
      PROVE  UNCHANGED Log!avars
  <2>1. Accepted' = Accepted
    BY <1>2 DEF Stamp, InsertFails, Accepted, OTypeOK
  <2>2. QED
    BY <1>2, <2>1 DEF Stamp, InsertFails, Log!avars
<1>3. ASSUME NEW r \in Relay, Send(r) \/ SendUnacked(r)
      PROVE  [Log!ANext]_(Log!avars)
  <2>1. /\ topic' = Append(topic, Head(batch[r]))
        /\ topic \in Seq(Event)
        /\ batch[r] \in Seq(Event) /\ batch[r] # << >>
        /\ Accepted' = Accepted
    BY <1>3 DEF Send, SendUnacked, At, OTypeOK, Accepted
  <2>2. Head(batch[r]) \in Event /\ Head(batch[r]) \in Range(batch[r])
    BY <2>1, TailFacts
  <2>3. Range(topic') = Range(topic) \cup {Head(batch[r])}
    BY <2>1, <2>2, AppendFacts
  <2>4. Head(batch[r]) \in Accepted
    BY <2>2 DEF Sound, InFlight
  <2>5. CASE Head(batch[r]) \in Range(topic)
    BY <2>1, <2>3, <2>5 DEF Log!avars
  <2>6. CASE Head(batch[r]) \notin Range(topic)
    <3>1. Log!Deliver(Head(batch[r]))
      BY <2>1, <2>3, <2>4, <2>6 DEF Log!Deliver
    <3>2. QED
      BY <2>2, <3>1 DEF Log!ANext
  <2>7. QED
    BY <2>5, <2>6
<1>4. ASSUME NEW r \in Relay, Mark(r) PROVE UNCHANGED Log!avars
  <2>1. batch[r] \in Seq(Event) /\ batch[r] # << >>
    BY <1>4 DEF Mark, At, OTypeOK
  <2>2. Head(batch[r]) \in Accepted
    BY <2>1, TailFacts DEF Sound, InFlight
  <2>3. Accepted' = Accepted
    BY <1>4, <2>2 DEF Mark, Accepted, OTypeOK
  <2>4. QED
    BY <1>4, <2>3 DEF Mark, Log!avars
<1>5. ASSUME NEW r \in Relay, \/ Connect(r) \/ Select(r) \/ Disconnect(r)
                              \/ Fail(r) \/ RelayCrash(r)
      PROVE  UNCHANGED Log!avars
  BY <1>5 DEF Connect, Select, Disconnect, Fail, RelayCrash, Log!avars, Accepted
<1>6. CASE OTick \/ UNCHANGED ovars
  BY <1>6 DEF OTick, ovars, Log!avars, Accepted
<1>7. QED
  BY <1>1, <1>2, <1>3, <1>4, <1>5, <1>6 DEF ONext, Work, Queue, Log!ANext

\* The safety half of ImplementsAtLeastOnce: in every behaviour, with any
\* number of relays, failures and deaths, each step of the outbox accepts an
\* event, delivers an accepted one, or is invisible; nothing is taken back.
THEOREM OutboxRefinesAtLeastOnce == OSpec => Log!ASafety
<1>1. OInit => Log!AInit
  <2>1. Range(<< >>) = {}
    BY DEF Range
  <2>2. QED
    BY <2>1 DEF OInit, Log!AInit, Accepted
<1>2. OTypeOK /\ Sound /\ [ONext]_ovars => [Log!ANext]_(Log!avars)
  BY LogStep
<1>3. OInit => OTypeOK /\ Sound
  BY SoundInit, OutboxAssumption DEF OInit, OTypeOK, Status
<1>4. OTypeOK /\ Sound /\ [ONext]_ovars => OTypeOK' /\ Sound'
  BY TypeStep, SoundStep
<1>5. QED
  BY <1>1, <1>2, <1>3, <1>4, PTL DEF OSpec, Log!ASafety

-----------------------------------------------------------------------------
(* Order.                                                                  *)

\* In a relay's batch an event comes after every older event that was stored
\* before it was created, unless that one has been sent already.
Ordered(r) ==
  \A j \in 1..Len(batch[r]) : \A e \in earlier[batch[r][j]] :
    createdAt[e] < createdAt[batch[r][j]] =>
      \/ e \in Range(topic)
      \/ \E i \in 1..(j - 1) : batch[r][i] = e

\* CausalOrder, made inductive.
Chain ==
  /\ \A f \in Event : earlier[f] \subseteq Accepted
  /\ \A r \in Relay : Ordered(r)
  /\ CausalOrder

\* Stamps of stored events, and what was stored before them, do not change.
LEMMA StampsStay ==
  ASSUME OTypeOK, [ONext]_ovars, NEW f \in Accepted
  PROVE  createdAt'[f] = createdAt[f] /\ earlier'[f] = earlier[f]
<1>1. ASSUME NEW e \in Event, Stamp(e)
      PROVE  e # f
  BY <1>1 DEF Stamp, Accepted
<1>2. ASSUME NEW e \in Event, Queue(e)
      PROVE  createdAt'[f] = createdAt[f] /\ earlier'[f] = earlier[f]
  <2>1. CASE Stamp(e)
    <3>1. e # f /\ f \in Event
      BY <1>1, <2>1 DEF Accepted
    <3>2. QED
      BY <2>1, <3>1 DEF Stamp, OTypeOK
  <2>2. CASE Insert(e) \/ InsertFails(e)
    BY <2>2 DEF Insert, InsertFails
  <2>3. QED
    BY <1>2, <2>1, <2>2 DEF Queue
<1>3. QED
  BY <1>2 DEF ONext, Work, Connect, Select, Send, SendUnacked, Mark, Disconnect,
              Fail, RelayCrash, OTick, ovars

\* What was stored before an event was stamped stays stored.
LEMMA EarlierStored ==
  ASSUME OTypeOK, Sound, Chain, [ONext]_ovars
  PROVE  \A f \in Event : earlier'[f] \subseteq Accepted'
<1>1. SUFFICES ASSUME NEW f \in Event PROVE earlier'[f] \subseteq Accepted'
  OBVIOUS
<1>2. ASSUME NEW e \in Event, Stamp(e)
      PROVE  earlier'[f] \subseteq Accepted
  BY <1>2 DEF Stamp, Chain, OTypeOK
<1>3. CASE earlier' = earlier
  BY <1>3, Growth DEF Chain
<1>4. QED
  BY <1>2, <1>3, Growth
     DEF ONext, Work, Queue, Insert, InsertFails, Connect, Select, Send, Mark,
         SendUnacked, Disconnect, Fail, RelayCrash, OTick, ovars

\* The elements of a batch are stored events.
LEMMA BatchStored ==
  ASSUME OTypeOK, Sound, NEW r \in Relay, NEW j \in 1..Len(batch[r])
  PROVE  batch[r][j] \in Accepted /\ batch[r][j] \in Event
<1>1. batch[r] \in Seq(Event)
  BY DEF OTypeOK
<1>2. DOMAIN batch[r] = 1..Len(batch[r])
  BY <1>1
<1>3. QED
  BY <1>2 DEF Sound, InFlight, Range, Accepted

\* A relay whose batch is left alone stays ordered.
LEMMA KeepOrdered ==
  ASSUME OTypeOK, Sound, Chain, [ONext]_ovars, NEW r \in Relay,
         batch'[r] = batch[r]
  PROVE  Ordered(r)'
<1>1. SUFFICES ASSUME NEW j \in 1..Len(batch[r]), NEW e \in earlier'[batch[r][j]],
                      createdAt'[e] < createdAt'[batch[r][j]]
               PROVE  \/ e \in Range(topic')
                      \/ \E i \in 1..(j - 1) : batch[r][i] = e
  BY DEF Ordered
<1>2. batch[r][j] \in Accepted /\ batch[r][j] \in Event
  BY BatchStored
<1>3. /\ e \in earlier[batch[r][j]]
      /\ createdAt'[batch[r][j]] = createdAt[batch[r][j]]
  BY <1>2, StampsStay
<1>4. e \in Accepted
  BY <1>2, <1>3 DEF Chain
<1>5. createdAt[e] < createdAt[batch[r][j]]
  BY <1>1, <1>3, <1>4, StampsStay
<1>6. QED
  BY <1>3, <1>5, Growth DEF Chain, Ordered

\* SELECT leaves no older pending event out, and sorts.
LEMMA SelectOrdered ==
  ASSUME OTypeOK, Sound, Chain, NEW r \in Relay, Select(r)
  PROVE  Ordered(r)'
<1>1. PICK q \in Page(Pending) : batch' = [batch EXCEPT ![r] = q]
  BY DEF Select
<1>2. /\ q \in Seq(Event)
      /\ Range(q) \subseteq Pending
      /\ \A i, j \in 1..Len(q) : i < j => createdAt[q[i]] <= createdAt[q[j]]
      /\ \A i \in 1..Len(q), e \in Pending \ Range(q) :
           createdAt[q[i]] <= createdAt[e]
  BY PageFacts DEF Pending
<1>3. /\ batch'[r] = q
      /\ UNCHANGED <<earlier, createdAt, topic>>
  BY <1>1 DEF Select, OTypeOK
<1>4. DOMAIN q = 1..Len(q) /\ Len(q) \in Nat
  BY <1>2
<1>5. SUFFICES ASSUME NEW j \in 1..Len(q), NEW e \in earlier[q[j]],
                      createdAt[e] < createdAt[q[j]], e \notin Range(topic)
               PROVE  \E i \in 1..(j - 1) : q[i] = e
  BY <1>3 DEF Ordered
<1>6. q[j] \in Event
  BY <1>2
<1>7. e \in Accepted /\ e \in Event
  BY <1>6 DEF Chain, Accepted
<1>8. status[e] # "published"
  BY <1>5, <1>7 DEF Sound, PublishedIsSent
<1>9. e \in Pending
  BY <1>7, <1>8 DEF Accepted, Pending
<1>10. createdAt[e] \in Nat /\ createdAt[q[j]] \in Nat
  BY <1>6, <1>7 DEF OTypeOK
<1>11. e \in Range(q)
  BY <1>2, <1>5, <1>9, <1>10
<1>12. PICK i \in 1..Len(q) : q[i] = e
  BY <1>4, <1>11 DEF Range
<1>13. i < j
  <2>1. i # j
    BY <1>5, <1>10, <1>12
  <2>2. ~(j < i)
    BY <1>2, <1>5, <1>10, <1>12
  <2>3. QED
    BY <2>1, <2>2, <1>4
<1>14. QED
  BY <1>12, <1>13

\* Marking takes off the head, which has been sent.
LEMMA MarkOrdered ==
  ASSUME OTypeOK, Sound, Chain, NEW r \in Relay, Mark(r)
  PROVE  Ordered(r)'
<1> DEFINE b == batch[r]
<1>1. b \in Seq(Event) /\ b # << >>
  BY DEF Mark, At, OTypeOK
<1>2. /\ Len(b) \in Nat \ {0}
      /\ Head(b) = b[1]
      /\ Len(Tail(b)) = Len(b) - 1
      /\ \A i \in 1..(Len(b) - 1) : Tail(b)[i] = b[i + 1]
  BY <1>1, TailFacts
<1>3. Head(b) \in Range(topic)
  BY DEF Mark, At, Sound, InFlight
<1>4. batch'[r] = Tail(b) /\ UNCHANGED <<earlier, createdAt, topic>>
  BY DEF Mark, OTypeOK
<1> HIDE DEF b
<1>5. SUFFICES ASSUME NEW j \in 1..(Len(b) - 1), NEW e \in earlier[Tail(b)[j]],
                      createdAt[e] < createdAt[Tail(b)[j]],
                      e \notin Range(topic)
               PROVE  \E i \in 1..(j - 1) : Tail(b)[i] = e
  BY <1>2, <1>4 DEF Ordered
<1>6. j + 1 \in 1..Len(b) /\ Tail(b)[j] = b[j + 1]
  BY <1>2
<1>7. PICK i \in 1..j : b[i] = e
  <2>1. \E i \in 1..((j + 1) - 1) : b[i] = e
    BY <1>5, <1>6 DEF Chain, Ordered, b
  <2>2. QED
    BY <2>1
<1>8. i # 1
  BY <1>2, <1>3, <1>5, <1>7
<1>9. i - 1 \in 1..(j - 1) /\ i - 1 \in 1..(Len(b) - 1)
  BY <1>2, <1>7, <1>8
<1>10. Tail(b)[i - 1] = e
  <2>1. Tail(b)[i - 1] = b[(i - 1) + 1]
    BY <1>2, <1>9
  <2>2. (i - 1) + 1 = i
    OBVIOUS
  <2>3. QED
    BY <1>7, <2>1, <2>2
<1>11. QED
  BY <1>9, <1>10

\* Every step keeps every batch ordered.
LEMMA OrderedStep ==
  ASSUME OTypeOK, Sound, Chain, [ONext]_ovars, NEW r \in Relay
  PROVE  Ordered(r)'
<1>1. CASE batch'[r] = batch[r]
  BY <1>1, KeepOrdered
<1>2. CASE batch'[r] = << >>
  <2>1. 1..Len(<< >>) = {}
    OBVIOUS
  <2>2. QED
    BY <1>2, <2>1 DEF Ordered
<1>3. CASE Select(r)
  BY <1>3, SelectOrdered
<1>4. CASE Mark(r)
  BY <1>4, MarkOrdered
<1>5. ASSUME NEW p \in Relay, Fail(p) \/ RelayCrash(p)
      PROVE  batch'[r] = batch[r] \/ batch'[r] = << >>
  BY <1>5 DEF Fail, RelayCrash, OTypeOK
<1>6. ASSUME NEW p \in Relay \ {r}, Select(p) \/ Mark(p)
      PROVE  batch'[r] = batch[r]
  BY <1>6 DEF Select, Mark, OTypeOK
<1>7. ASSUME NEW p \in Relay, \/ Connect(p) \/ Send(p) \/ SendUnacked(p)
                              \/ Disconnect(p)
      PROVE  batch' = batch
  BY <1>7 DEF Connect, Send, SendUnacked, Disconnect, relays
<1>8. ASSUME NEW e \in Event, Queue(e) PROVE batch' = batch
  BY <1>8 DEF Queue, Stamp, Insert, InsertFails, relays
<1>9. CASE OTick \/ UNCHANGED ovars
  BY <1>1, <1>9 DEF OTick, ovars, relays
<1>10. QED
  BY <1>1, <1>2, <1>3, <1>4, <1>5, <1>6, <1>7, <1>8, <1>9 DEF ONext, Work

\* Sending the head of an ordered batch keeps the log in causal order.
LEMMA SendInOrder ==
  ASSUME OTypeOK, Sound, Chain, NEW r \in Relay, Send(r) \/ SendUnacked(r)
  PROVE  CausalOrder'
<1> DEFINE h == Head(batch[r])
<1>1. /\ topic' = Append(topic, h)
      /\ topic \in Seq(Event)
      /\ batch[r] \in Seq(Event) /\ batch[r] # << >>
      /\ UNCHANGED <<earlier, createdAt>>
  BY DEF Send, SendUnacked, At, OTypeOK
<1>2. /\ h \in Event
      /\ h = batch[r][1]
      /\ 1 \in 1..Len(batch[r])
  BY <1>1, TailFacts
<1>3. /\ topic' \in Seq(Event)
      /\ Len(topic') = Len(topic) + 1
      /\ \A i \in 1..Len(topic) : topic'[i] = topic[i]
      /\ topic'[Len(topic) + 1] = h
  BY <1>1, <1>2, AppendFacts
<1>4. /\ DOMAIN topic = 1..Len(topic)
      /\ DOMAIN topic' = 1..(Len(topic) + 1)
      /\ Len(topic) \in Nat
  BY <1>1, <1>3
<1>5. SUFFICES ASSUME NEW f \in Event, NEW e \in earlier[f],
                      createdAt[e] < createdAt[f],
                      NEW j \in DOMAIN topic', topic'[j] = f
               PROVE  \E i \in 1..(j - 1) : topic'[i] = e
  BY <1>1 DEF CausalOrder, Before
<1>6. CASE j \in 1..Len(topic)
  <2>1. PICK i \in 1..(j - 1) : topic[i] = e
    BY <1>3, <1>4, <1>5, <1>6 DEF Chain, CausalOrder, Before
  <2>2. i \in 1..Len(topic)
    BY <1>4, <1>6
  <2>3. QED
    BY <1>3, <2>1, <2>2
<1>7. CASE j = Len(topic) + 1
  <2>1. f = batch[r][1]
    BY <1>2, <1>3, <1>5, <1>7
  <2>2. e \in Range(topic)
    BY <1>2, <1>5, <2>1 DEF Chain, Ordered
  <2>3. PICK i \in 1..Len(topic) : topic[i] = e
    BY <1>4, <2>2 DEF Range
  <2>4. QED
    BY <1>3, <1>7, <2>3
<1>8. QED
  BY <1>4, <1>6, <1>7

\* A step that sends nothing keeps the log in causal order.
LEMMA QuietOrder ==
  ASSUME OTypeOK, Sound, Chain, [ONext]_ovars, topic' = topic
  PROVE  CausalOrder'
<1>1. SUFFICES ASSUME NEW f \in Event, NEW e \in earlier'[f],
                      createdAt'[e] < createdAt'[f], f \in Range(topic)
               PROVE  Before(e, f)
  BY DEF CausalOrder, Before, Range
<1>2. f \in Accepted
  BY <1>1 DEF Sound, PublishedIsSent
<1>3. e \in earlier[f] /\ createdAt'[f] = createdAt[f]
  BY <1>1, <1>2, StampsStay
<1>4. e \in Accepted
  BY <1>3 DEF Chain
<1>5. createdAt[e] < createdAt[f]
  BY <1>1, <1>3, <1>4, StampsStay
<1>6. QED
  BY <1>3, <1>5 DEF Chain, CausalOrder

\* Chain is inductive.
LEMMA ChainStep ==
  ASSUME OTypeOK, Sound, Chain, [ONext]_ovars
  PROVE  Chain'
<1>1. CASE topic' = topic
  BY <1>1, QuietOrder, OrderedStep, EarlierStored DEF Chain
<1>2. CASE topic' # topic
  <2>1. PICK r \in Relay : Send(r) \/ SendUnacked(r)
    BY <1>2 DEF ONext, Work, Queue, Stamp, Insert, InsertFails, Connect,
                Select, Mark, Disconnect, Fail, RelayCrash, OTick, ovars
  <2>2. QED
    BY <2>1, SendInOrder, OrderedStep, EarlierStored DEF Chain
<1>3. QED
  BY <1>1, <1>2

\* An event created after another one was stored, at a later time, is never
\* first sent before it: the order of relaying respects causality whatever the
\* relays do.
THEOREM RelayedInCausalOrder == OSpec => []CausalOrder
<1>1. OInit => OTypeOK /\ Sound /\ Chain
  <2>1. ASSUME OInit PROVE OTypeOK /\ Sound
    BY <2>1, SoundInit, OutboxAssumption DEF OInit, OTypeOK, Status
  <2>2. ASSUME OInit PROVE Chain
    BY <2>2 DEF OInit, Chain, Ordered, CausalOrder
  <2>3. QED
    BY <2>1, <2>2
<1>2. OTypeOK /\ Sound /\ Chain /\ [ONext]_ovars => OTypeOK' /\ Sound' /\ Chain'
  BY TypeStep, SoundStep, ChainStep
<1>3. Chain => CausalOrder
  BY DEF Chain
<1>4. QED
  BY <1>1, <1>2, <1>3, PTL DEF OSpec

-----------------------------------------------------------------------------
(* Duplicates.  Every copy of an event is paid for by a relay that will    *)
(* not send it again, or by a fault.                                       *)

\* Relay r holds e and has not sent it since it got it.
Unsent(r, e) ==
  \E i \in 1..Len(batch[r]) : batch[r][i] = e /\ ~(i = 1 /\ pc[r] = "mark")

\* Relay r has sent e and is about to mark it.
Marks(r, e) == pc[r] = "mark" /\ batch[r][1] = e

\* The relays that may send e once more before anything fails: those that
\* hold it, and while it is pending those that may select it again.
MaySend(e) ==
  {r \in Relay : IF status[e] = "published" THEN Unsent(r, e) ELSE ~Marks(r, e)}

Distinct ==
  \A r \in Relay : \A i, j \in 1..Len(batch[r]) :
    batch[r][i] = batch[r][j] => i = j

PaidFor(e) ==
  Copies(e) + Cardinality(MaySend(e)) <= Cardinality(Relay) + faults

\* BoundedDuplicates, made inductive.
Paid == Distinct /\ \A e \in Event : PaidFor(e)

\* A send adds one copy of the event sent and of no other.
LEMMA CopiesAppend ==
  ASSUME NEW h \in Event, topic \in Seq(Event), topic' = Append(topic, h),
         NEW e
  PROVE  /\ Copies(e) \in Nat
         /\ Copies(e)' = IF h = e THEN Copies(e) + 1 ELSE Copies(e)
<1> DEFINE n == Len(topic)
           C == {i \in 1..n : topic[i] = e}
<1>1. /\ n \in Nat /\ DOMAIN topic = 1..n /\ DOMAIN topic' = 1..(n + 1)
      /\ \A i \in 1..n : topic'[i] = topic[i]
      /\ topic'[n + 1] = h
  OBVIOUS
<1>2. IsFiniteSet(C) /\ Cardinality(C) \in Nat
  <2>1. IsFiniteSet(1..n) /\ C \subseteq 1..n
    BY <1>1, FS_Interval
  <2>2. IsFiniteSet(C)
    BY <2>1, FS_Subset
  <2>3. QED
    BY <2>2, FS_CardinalityType
<1>3. Copies(e) = Cardinality(C)
  BY <1>1 DEF Copies
<1>4. n + 1 \notin C
  BY <1>1
<1>5. CASE h = e
  <2>1. {i \in DOMAIN topic' : topic'[i] = e} = C \cup {n + 1}
    BY <1>1, <1>5
  <2>2. Cardinality(C \cup {n + 1}) = Cardinality(C) + 1
    BY <1>2, <1>4, FS_AddElement
  <2>3. QED
    BY <1>2, <1>3, <1>5, <2>1, <2>2 DEF Copies
<1>6. CASE h # e
  <2>1. {i \in DOMAIN topic' : topic'[i] = e} = C
    BY <1>1, <1>6
  <2>2. QED
    BY <1>2, <1>3, <1>6, <2>1 DEF Copies
<1>7. QED
  BY <1>5, <1>6

\* The numbers that PaidFor compares.
LEMMA PaidTypes ==
  ASSUME OTypeOK, NEW e \in Event
  PROVE  /\ Copies(e) \in Nat /\ faults \in Nat
         /\ Cardinality(Relay) \in Nat
         /\ IsFiniteSet(MaySend(e)) /\ Cardinality(MaySend(e)) \in Nat
<1>1. topic \in Seq(Event) /\ faults \in Nat
  BY DEF OTypeOK
<1>2. DOMAIN topic = 1..Len(topic) /\ Len(topic) \in Nat
  BY <1>1
<1>3. Copies(e) \in Nat
  <2> DEFINE C == {i \in DOMAIN topic : topic[i] = e}
  <2>1. IsFiniteSet(1..Len(topic)) /\ C \subseteq 1..Len(topic)
    BY <1>2, FS_Interval
  <2>2. IsFiniteSet(C)
    BY <2>1, FS_Subset
  <2>3. QED
    BY <2>2, FS_CardinalityType DEF Copies
<1>4. IsFiniteSet(MaySend(e))
  BY FS_Subset, OutboxAssumption DEF MaySend
<1>5. QED
  BY <1>1, <1>3, <1>4, FS_CardinalityType, OutboxAssumption

\* Nothing is sent and no relay comes to hold the event: it stays paid for.
LEMMA PaidQuiet ==
  ASSUME OTypeOK, OTypeOK', NEW e \in Event, PaidFor(e),
         Copies(e)' = Copies(e), faults <= faults',
         MaySend(e)' \subseteq MaySend(e)
  PROVE  PaidFor(e)'
<1>1. Cardinality(MaySend(e)') <= Cardinality(MaySend(e))
  BY PaidTypes, FS_Subset
<1>2. Cardinality(MaySend(e)') \in Nat
  BY PaidTypes, FS_Subset, FS_CardinalityType
<1>3. faults' \in Nat
  BY DEF OTypeOK
<1>4. QED
  BY <1>1, <1>2, <1>3, PaidTypes DEF PaidFor

\* A fault pays for one relay that may send the event again.
LEMMA PaidByFault ==
  ASSUME OTypeOK, NEW e \in Event, PaidFor(e), NEW r \in Relay,
         Copies(e)' = Copies(e), faults' = faults + 1,
         MaySend(e)' \subseteq MaySend(e) \cup {r}
  PROVE  PaidFor(e)'
<1>1. /\ IsFiniteSet(MaySend(e) \cup {r})
      /\ Cardinality(MaySend(e) \cup {r}) <= Cardinality(MaySend(e)) + 1
  <2>1. IsFiniteSet(MaySend(e)) /\ Cardinality(MaySend(e)) \in Nat
    BY PaidTypes
  <2>2. /\ IsFiniteSet(MaySend(e) \cup {r})
        /\ \/ Cardinality(MaySend(e) \cup {r}) = Cardinality(MaySend(e))
           \/ Cardinality(MaySend(e) \cup {r}) = Cardinality(MaySend(e)) + 1
    BY <2>1, FS_AddElement
  <2>3. QED
    BY <2>1, <2>2
<1>2. /\ Cardinality(MaySend(e)') <= Cardinality(MaySend(e) \cup {r})
      /\ IsFiniteSet(MaySend(e)')
  BY <1>1, FS_Subset
<1>3. Cardinality(MaySend(e)') \in Nat /\ Cardinality(MaySend(e) \cup {r}) \in Nat
  BY <1>1, <1>2, FS_CardinalityType
<1>4. QED
  BY <1>1, <1>2, <1>3, PaidTypes DEF PaidFor

\* A relay pays for the copy it sends: it is one less that may send the event.
LEMMA PaidBySender ==
  ASSUME OTypeOK, NEW e \in Event, PaidFor(e), NEW r \in MaySend(e),
         Copies(e)' = Copies(e) + 1, UNCHANGED faults,
         MaySend(e)' \subseteq MaySend(e) \ {r}
  PROVE  PaidFor(e)'
<1>1. /\ IsFiniteSet(MaySend(e) \ {r})
      /\ Cardinality(MaySend(e) \ {r}) = Cardinality(MaySend(e)) - 1
  BY PaidTypes, FS_RemoveElement
<1>2. /\ Cardinality(MaySend(e)') <= Cardinality(MaySend(e) \ {r})
      /\ IsFiniteSet(MaySend(e)')
  BY <1>1, FS_Subset
<1>3. Cardinality(MaySend(e)') \in Nat
  BY <1>2, FS_CardinalityType
<1>4. QED
  BY <1>1, <1>2, <1>3, PaidTypes DEF PaidFor

\* A relay that stays where it is cannot come to be one that may send e.
LEMMA StayingRelay ==
  ASSUME OTypeOK, Distinct, NEW e \in Event, NEW p \in Relay,
         pc'[p] = pc[p], batch'[p] = batch[p],
         status[e] = "published" => status'[e] = "published",
         p \in MaySend(e)'
  PROVE  p \in MaySend(e)
<1>1. CASE status'[e] = "published" /\ status[e] # "published"
  <2>1. PICK i \in 1..Len(batch[p]) :
          batch[p][i] = e /\ ~(i = 1 /\ pc[p] = "mark")
    BY <1>1 DEF MaySend, Unsent
  <2>2. pc[p] = "mark" => 1 \in 1..Len(batch[p])
    BY TailFacts DEF OTypeOK
  <2>3. ~Marks(p, e)
    BY <2>1, <2>2 DEF Marks, Distinct
  <2>4. QED
    BY <1>1, <2>3 DEF MaySend
<1>2. CASE status'[e] = "published" <=> status[e] = "published"
  BY <1>2 DEF MaySend, Unsent, Marks
<1>3. QED
  BY <1>1, <1>2

\* What a relay holds stays free of duplicates.
LEMMA DistinctStep ==
  ASSUME OTypeOK, Distinct, [ONext]_ovars
  PROVE  Distinct'
<1> SUFFICES ASSUME NEW r \in Relay, NEW i \in 1..Len(batch'[r]),
                    NEW j \in 1..Len(batch'[r]), batch'[r][i] = batch'[r][j]
             PROVE  i = j
  BY DEF Distinct
<1>1. CASE batch'[r] = batch[r]
  BY <1>1 DEF Distinct
<1>2. CASE batch'[r] = << >>
  BY <1>2
<1>3. CASE Select(r)
  <2>1. PICK q \in Page(Pending) : batch' = [batch EXCEPT ![r] = q]
    BY <1>3 DEF Select
  <2>2. batch'[r] = q /\ q \in Seq(Event)
    BY <2>1, PageFacts DEF Pending, OTypeOK
  <2>3. IsInjective(q)
    BY DEF Page
  <2>4. QED
    BY <2>2, <2>3 DEF IsInjective
<1>4. CASE Mark(r)
  <2>1. batch[r] \in Seq(Event) /\ batch[r] # << >> /\ batch'[r] = Tail(batch[r])
    BY <1>4 DEF Mark, At, OTypeOK
  <2>2. /\ Len(batch[r]) \in Nat
        /\ i \in 1..(Len(batch[r]) - 1) /\ j \in 1..(Len(batch[r]) - 1)
        /\ batch[r][i + 1] = batch[r][j + 1]
    BY <2>1, TailFacts
  <2>3. i + 1 \in 1..Len(batch[r]) /\ j + 1 \in 1..Len(batch[r])
    BY <2>2
  <2>4. i + 1 = j + 1
    BY <2>2, <2>3 DEF Distinct
  <2>5. QED
    BY <2>2, <2>4
<1>5. ASSUME NEW p \in Relay, Fail(p) \/ RelayCrash(p)
      PROVE  batch'[r] = batch[r] \/ batch'[r] = << >>
  BY <1>5 DEF Fail, RelayCrash, OTypeOK
<1>6. ASSUME NEW p \in Relay \ {r}, Select(p) \/ Mark(p)
      PROVE  batch'[r] = batch[r]
  BY <1>6 DEF Select, Mark, OTypeOK
<1>7. ASSUME NEW p \in Relay, \/ Connect(p) \/ Send(p) \/ SendUnacked(p)
                              \/ Disconnect(p)
      PROVE  batch' = batch
  BY <1>7 DEF Connect, Send, SendUnacked, Disconnect, relays
<1>8. ASSUME NEW e \in Event, Queue(e) PROVE batch' = batch
  BY <1>8 DEF Queue, Stamp, Insert, InsertFails, relays
<1>9. CASE OTick \/ UNCHANGED ovars
  BY <1>1, <1>9 DEF OTick, ovars, relays
<1>10. QED
  BY <1>1, <1>2, <1>3, <1>4, <1>5, <1>6, <1>7, <1>8, <1>9 DEF ONext, Work

\* A step of queueEvent, of the clock, or a connection adds no copy and no
\* sender.
LEMMA PaidIdle ==
  ASSUME OTypeOK, OTypeOK', Distinct, NEW e \in Event, PaidFor(e),
         \/ \E d \in Event : Queue(d)
         \/ \E r \in Relay : Connect(r) \/ Disconnect(r)
         \/ OTick \/ UNCHANGED ovars
  PROVE  PaidFor(e)'
<1>1. /\ topic' = topic /\ batch' = batch /\ faults <= faults'
      /\ status[e] = "published" => status'[e] = "published"
      /\ \A p \in Relay : pc'[p] = pc[p] \/ (pc[p] = "idle" /\ pc'[p] = "select")
  <2>1. faults \in Nat
    BY DEF OTypeOK
  <2>2. ASSUME NEW d \in Event, Queue(d)
        PROVE  /\ UNCHANGED <<topic, pc, batch>>
               /\ faults' = faults \/ faults' = faults + 1
               /\ status[e] = "published" => status'[e] = "published"
    BY <2>2 DEF Queue, Stamp, Insert, InsertFails, relays, OTypeOK
  <2>3. ASSUME NEW r \in Relay, Connect(r) \/ Disconnect(r)
        PROVE  /\ UNCHANGED <<topic, batch, faults, status>>
               /\ \A p \in Relay : \/ pc'[p] = pc[p]
                                   \/ pc[p] = "idle" /\ pc'[p] = "select"
    BY <2>3 DEF Connect, Disconnect, At, OTypeOK
  <2>4. OTick \/ UNCHANGED ovars => UNCHANGED <<topic, pc, batch, faults, status>>
    BY DEF OTick, ovars, relays
  <2>5. /\ topic' = topic /\ batch' = batch
        /\ faults' = faults \/ faults' = faults + 1
        /\ status[e] = "published" => status'[e] = "published"
    BY <2>2, <2>3, <2>4
  <2>6. \A p \in Relay : pc'[p] = pc[p] \/ (pc[p] = "idle" /\ pc'[p] = "select")
    <3>1. CASE \E r \in Relay : Connect(r) \/ Disconnect(r)
      BY <2>3, <3>1
    <3>2. CASE ~\E r \in Relay : Connect(r) \/ Disconnect(r)
      <4>1. pc' = pc
        BY <2>2, <2>4, <3>2
      <4>2. QED
        BY <4>1
    <3>3. QED
      BY <3>1, <3>2
  <2>7. QED
    BY <2>1, <2>5, <2>6
<1>2. Copies(e)' = Copies(e)
  BY <1>1 DEF Copies
<1>3. ASSUME NEW p \in MaySend(e)' PROVE p \in MaySend(e)
  <2>1. p \in Relay
    BY DEF MaySend
  <2>2. CASE pc'[p] = pc[p]
    BY <1>1, <2>1, <2>2, StayingRelay
  <2>3. CASE pc[p] = "idle" /\ pc'[p] = "select"
    <3>1. ~Marks(p, e) /\ (Unsent(p, e)' => Unsent(p, e))
      BY <1>1, <2>3 DEF Marks, Unsent
    <3>2. QED
      BY <1>1, <2>1, <3>1 DEF MaySend
  <2>4. QED
    BY <1>1, <2>1, <2>2, <2>3
<1>4. QED
  BY <1>1, <1>2, <1>3, PaidQuiet

\* SELECT adds no sender: it takes pending events, which anybody may send.
LEMMA PaidSelect ==
  ASSUME OTypeOK, OTypeOK', Distinct, NEW e \in Event, PaidFor(e),
         NEW r \in Relay, Select(r)
  PROVE  PaidFor(e)'
<1>1. PICK q \in Page(Pending) : /\ batch' = [batch EXCEPT ![r] = q]
                                 /\ \E x : pc' = [pc EXCEPT ![r] = x]
  BY DEF Select
<1>2. /\ UNCHANGED <<status, topic, faults>>
      /\ pc[r] \in {"select", "idle"}
  BY DEF Select
<1>3. Copies(e)' = Copies(e)
  BY <1>2 DEF Copies
<1>4. ASSUME NEW p \in MaySend(e)' PROVE p \in MaySend(e)
  <2>1. p \in Relay
    BY DEF MaySend
  <2>2. CASE p # r
    BY <1>1, <1>2, <2>1, <2>2, StayingRelay DEF OTypeOK
  <2>3. CASE p = r
    <3>1. batch'[r] = q /\ q \in Seq(Event) /\ Range(q) \subseteq Pending
      BY <1>1, PageFacts DEF Pending, OTypeOK
    <3>2. status[e] = "published" => ~Unsent(p, e)'
      BY <2>3, <3>1 DEF Unsent, Range, Pending
    <3>3. status[e] # "published"
      BY <1>2, <3>2 DEF MaySend
    <3>4. QED
      BY <1>2, <2>3, <3>3 DEF MaySend, Marks
  <2>4. QED
    BY <2>2, <2>3
<1>5. QED
  BY <1>2, <1>3, <1>4, PaidQuiet, PaidTypes

\* The copy a relay sends is paid for by that relay, or by the fault when its
\* acknowledgement is lost.
LEMMA PaidSend ==
  ASSUME OTypeOK, OTypeOK', Distinct, NEW e \in Event, PaidFor(e),
         NEW r \in Relay, Send(r) \/ SendUnacked(r)
  PROVE  PaidFor(e)'
<1> DEFINE h == Head(batch[r])
<1>1. /\ batch[r] \in Seq(Event) /\ batch[r] # << >> /\ topic \in Seq(Event)
      /\ topic' = Append(topic, h) /\ pc[r] = "send"
      /\ UNCHANGED <<status, batch>>
  BY DEF Send, SendUnacked, At, relays, OTypeOK
<1>2. h \in Event /\ h = batch[r][1] /\ 1 \in 1..Len(batch[r])
  BY <1>1, TailFacts
<1>3. Copies(e)' = IF h = e THEN Copies(e) + 1 ELSE Copies(e)
  BY <1>1, <1>2, CopiesAppend
<1>4. CASE SendUnacked(r)
  <2>1. faults' = faults + 1 /\ pc' = pc
    BY <1>4 DEF SendUnacked, relays
  <2>2. MaySend(e)' = MaySend(e)
    BY <1>1, <2>1 DEF MaySend, Unsent, Marks
  <2>3. QED
    BY <1>3, <2>1, <2>2, PaidTypes DEF PaidFor
<1>5. CASE Send(r)
  <2>1. /\ UNCHANGED faults /\ pc'[r] = "mark"
        /\ \A p \in Relay : p # r => pc'[p] = pc[p]
    BY <1>5 DEF Send, At, OTypeOK
  <2>2. ASSUME NEW p \in MaySend(e)', p # r PROVE p \in MaySend(e)
    BY <1>1, <2>1, <2>2, StayingRelay DEF MaySend
  <2>3. CASE h = e
    <3>1. r \in MaySend(e)
      BY <1>1, <1>2, <2>3 DEF MaySend, Marks, Unsent
    <3>2. r \notin MaySend(e)'
      BY <1>1, <1>2, <2>1, <2>3 DEF MaySend, Marks, Unsent, Distinct
    <3>3. QED
      BY <1>3, <2>1, <2>2, <2>3, <3>1, <3>2, PaidBySender
  <2>4. CASE h # e
    <3>1. r \in MaySend(e)' => r \in MaySend(e)
      BY <1>1, <1>2, <2>1, <2>4 DEF MaySend, Marks, Unsent
    <3>2. QED
      BY <1>3, <2>1, <2>2, <2>4, <3>1, PaidQuiet, PaidTypes
  <2>5. QED
    BY <2>3, <2>4
<1>6. QED
  BY <1>4, <1>5

\* The UPDATE adds no copy, and takes the event from those that may select it.
LEMMA PaidMark ==
  ASSUME OTypeOK, OTypeOK', Distinct, NEW e \in Event, PaidFor(e),
         NEW r \in Relay, Mark(r)
  PROVE  PaidFor(e)'
<1> DEFINE b == batch[r]
<1>1. /\ b \in Seq(Event) /\ b # << >> /\ UNCHANGED <<topic, faults>>
      /\ pc[r] = "mark" /\ pc'[r] # "mark" /\ batch'[r] = Tail(b)
      /\ \A p \in Relay : p # r => pc'[p] = pc[p] /\ batch'[p] = batch[p]
  BY DEF Mark, At, OTypeOK
<1>2. /\ Head(b) = b[1] /\ 1 \in 1..Len(b) /\ Len(b) \in Nat
      /\ Len(Tail(b)) = Len(b) - 1
      /\ \A i \in 1..(Len(b) - 1) : Tail(b)[i] = b[i + 1]
  BY <1>1, TailFacts
<1>3. status'[e] = IF b[1] = e THEN "published" ELSE status[e]
  BY <1>2 DEF Mark, OTypeOK
<1>4. Copies(e)' = Copies(e)
  BY <1>1 DEF Copies
<1>5. ASSUME Unsent(r, e)' PROVE Unsent(r, e) /\ b[1] # e
  <2>1. PICK i \in 1..(Len(b) - 1) : b[i + 1] = e
    BY <1>1, <1>2, <1>5 DEF Unsent
  <2>2. i + 1 \in 1..Len(b) /\ i + 1 # 1
    BY <1>2
  <2>3. QED
    BY <1>2, <2>1, <2>2 DEF Unsent, Distinct
<1>6. ASSUME NEW p \in MaySend(e)' PROVE p \in MaySend(e)
  <2>1. p \in Relay
    BY DEF MaySend
  <2>2. CASE p # r
    BY <1>1, <1>3, <2>1, <2>2, StayingRelay
  <2>3. CASE p = r
    BY <1>3, <1>5, <2>3 DEF MaySend, Marks
  <2>4. QED
    BY <2>2, <2>3
<1>7. QED
  BY <1>1, <1>4, <1>6, PaidQuiet, PaidTypes

\* A relay that starts over may send the event again, and its fault pays.
LEMMA PaidFail ==
  ASSUME OTypeOK, Distinct, NEW e \in Event, PaidFor(e),
         NEW r \in Relay, Fail(r) \/ RelayCrash(r)
  PROVE  PaidFor(e)'
<1>1. /\ UNCHANGED <<topic, status>> /\ faults' = faults + 1
      /\ \A p \in Relay : p # r => pc'[p] = pc[p] /\ batch'[p] = batch[p]
  BY DEF Fail, RelayCrash, OTypeOK
<1>2. Copies(e)' = Copies(e)
  BY <1>1 DEF Copies
<1>3. ASSUME NEW p \in MaySend(e)', p # r PROVE p \in MaySend(e)
  BY <1>1, <1>3, StayingRelay DEF MaySend
<1>4. QED
  BY <1>1, <1>2, <1>3, PaidByFault

\* Paid is inductive.
LEMMA PaidStep ==
  ASSUME OTypeOK, Paid, [ONext]_ovars
  PROVE  Paid'
<1>1. OTypeOK' /\ Distinct /\ Distinct'
  BY TypeStep, DistinctStep DEF Paid
<1>2. ASSUME NEW e \in Event PROVE PaidFor(e)'
  <2>1. PaidFor(e)
    BY DEF Paid
  <2>2. QED
    BY <1>1, <2>1, PaidIdle, PaidSelect, PaidSend, PaidMark, PaidFail
       DEF ONext, Work
<1>3. QED
  BY <1>1, <1>2 DEF Paid

\* No event is copied without a cause: a relay sends it once, and it takes
\* another relay, a lost acknowledgement, a failed command or a death for each
\* further copy.  One relay without faults sends every event exactly once.
THEOREM CopiesHaveACause == OSpec => []BoundedDuplicates
<1>1. OInit => OTypeOK /\ Paid
  <2> SUFFICES ASSUME OInit PROVE OTypeOK /\ Paid
    OBVIOUS
  <2>1. OTypeOK
    BY OutboxAssumption DEF OInit, OTypeOK, Status
  <2>2. ASSUME NEW e \in Event PROVE PaidFor(e)
    <3>1. Copies(e) = 0
      BY FS_EmptySet DEF OInit, Copies
    <3>2. MaySend(e) = Relay
      BY DEF OInit, MaySend, Marks
    <3>3. QED
      BY <2>1, <3>1, <3>2, PaidTypes DEF PaidFor, OInit
  <2>3. Distinct
    BY DEF OInit, Distinct
  <2>4. QED
    BY <2>1, <2>2, <2>3 DEF Paid
<1>2. OTypeOK /\ Paid /\ [ONext]_ovars => OTypeOK' /\ Paid'
  BY TypeStep, PaidStep
<1>3. OTypeOK /\ Paid => BoundedDuplicates
  BY PaidTypes DEF Paid, PaidFor, BoundedDuplicates
<1>4. QED
  BY <1>1, <1>2, <1>3, PTL DEF OSpec

-----------------------------------------------------------------------------
(* The path from the row in `outbox_events' to the effect of a consumer.   *)

\* What the consumer is busy with, and what it has done, was stored.
FromRows ==
  /\ at \in [Call -> {"idle", "handle", "insert"}]
  /\ event \in [Call -> Event]
  /\ ran \in [Event -> Nat]
  /\ \A c \in Call : at[c] # "idle" => event[c] \in Accepted
  /\ Effective \subseteq Accepted

PathInv == OTypeOK /\ Sound /\ FromRows

\* Rows that are added leave what the consumer does well founded.
LEMMA FromMoreRows ==
  ASSUME FromRows, UNCHANGED cvars, Accepted \subseteq Accepted'
  PROVE  FromRows'
  BY DEF FromRows, cvars, Effective

\* A step of the relays' side is an acceptance, or invisible.
LEMMA RelaySideStep ==
  ASSUME PathInv, RelaySide
  PROVE  PathInv' /\ [Path!ANext]_(Path!avars)
<1>1. [ONext]_ovars /\ UNCHANGED cvars
  BY DEF RelaySide
<1>2. OTypeOK' /\ Sound' /\ Accepted \subseteq Accepted'
  BY <1>1, TypeStep, SoundStep, Growth DEF PathInv
<1>3. FromRows'
  BY <1>1, <1>2, FromMoreRows DEF PathInv
<1>4. Effective' = Effective
  BY <1>1 DEF Effective, cvars
<1>5. ASSUME NEW e \in Event, Accepted' = Accepted \cup {e}
      PROVE  [Path!ANext]_(Path!avars)
  BY <1>4, <1>5 DEF Path!ANext, Path!Accept, Path!avars
<1>6. Accepted' = Accepted \/ \E e \in Event : Accepted' = Accepted \cup {e}
  <2>1. [Log!ANext]_(Log!avars)
    BY <1>1, LogStep DEF PathInv
  <2>2. QED
    BY <2>1 DEF Log!ANext, Log!Accept, Log!Deliver, Log!avars
<1>7. Accepted' = Accepted => UNCHANGED Path!avars
  BY <1>4 DEF Path!avars
<1>8. QED
  BY <1>2, <1>3, <1>5, <1>6, <1>7 DEF PathInv

\* The consumer leaves the outbox alone.
LEMMA OutboxKept ==
  ASSUME OTypeOK, Sound, UNCHANGED ovars
  PROVE  OTypeOK' /\ Sound' /\ Accepted' = Accepted
  BY TypeStep, SoundStep DEF Accepted, ovars

\* The handler's run delivers an event that was accepted, or one more time one
\* that was delivered.
LEMMA HandleStep ==
  ASSUME PathInv, NEW c \in Call, Consumer!Handle(c), UNCHANGED ovars
  PROVE  PathInv' /\ [Path!ANext]_(Path!avars)
<1>1. OTypeOK' /\ Sound' /\ Accepted' = Accepted
  BY OutboxKept DEF PathInv
<1>2. event[c] \in Accepted /\ event[c] \in Event
  BY DEF PathInv, FromRows, Consumer!Handle
<1>3. /\ at' \in [Call -> {"idle", "handle", "insert"}]
      /\ event' = event
      /\ \A d \in Call : at'[d] # "idle" => at[d] # "idle"
  BY DEF PathInv, FromRows, Consumer!Handle
<1>4. /\ ran' \in [Event -> Nat]
      /\ ran'[event[c]] >= 1
      /\ \A e \in Event : e # event[c] => ran'[e] = ran[e]
  <2>1. ran \in [Event -> Nat] /\ ran' = [ran EXCEPT ![event[c]] = ran[event[c]] + 1]
    BY DEF PathInv, FromRows, Consumer!Handle
  <2>2. ran[event[c]] \in Nat
    BY <1>2, <2>1
  <2>3. QED
    BY <1>2, <2>1, <2>2
<1>5. Effective' = Effective \cup {event[c]}
  BY <1>2, <1>4 DEF Effective
<1>6. FromRows'
  BY <1>1, <1>2, <1>3, <1>4, <1>5 DEF PathInv, FromRows
<1>7. [Path!ANext]_(Path!avars)
  <2>1. CASE event[c] \in Effective
    BY <1>1, <1>5, <2>1 DEF Path!avars
  <2>2. CASE event[c] \notin Effective
    <3>1. Path!Deliver(event[c])
      BY <1>1, <1>2, <1>5, <2>2 DEF Path!Deliver
    <3>2. QED
      BY <1>2, <3>1 DEF Path!ANext
  <2>3. QED
    BY <2>1, <2>2
<1>8. QED
  BY <1>1, <1>6, <1>7 DEF PathInv

\* The other steps of the consumer are invisible.
LEMMA ConsumerStep ==
  ASSUME PathInv, NEW c \in Call,
         \/ Receive(c)
         \/ Consumer!Record(c) \/ Consumer!Duplicate(c)
         \/ Consumer!Break(c) \/ Consumer!RecordUnacked(c),
         UNCHANGED ovars
  PROVE  PathInv' /\ [Path!ANext]_(Path!avars)
<1>1. OTypeOK' /\ Sound' /\ Accepted' = Accepted
  BY OutboxKept DEF PathInv
<1>2. UNCHANGED ran
  BY DEF Receive, Consumer!Consume, Consumer!Skip, Consumer!Record,
     Consumer!Duplicate, Consumer!Break, Consumer!RecordUnacked
<1>3. Effective' = Effective
  BY <1>2 DEF Effective
<1> DEFINE Busy == /\ at' \in [Call -> {"idle", "handle", "insert"}]
                   /\ event' \in [Call -> Event]
                   /\ \A d \in Call : at'[d] # "idle" => event'[d] \in Accepted
<1>4. Busy
  <2>1. ASSUME NEW e \in Range(topic), Consumer!Consume(c, e) \/ Consumer!Skip(c, e)
        PROVE  Busy
    <3>1. e \in Accepted /\ e \in Event
      BY DEF PathInv, Sound, PublishedIsSent, Accepted
    <3>2. QED
      BY <2>1, <3>1 DEF PathInv, FromRows, Consumer!Consume, Consumer!Skip
  <2>2. CASE \/ Consumer!Record(c) \/ Consumer!Duplicate(c)
             \/ Consumer!Break(c) \/ Consumer!RecordUnacked(c)
    BY <2>2 DEF PathInv, FromRows, Consumer!Record, Consumer!Duplicate,
       Consumer!Break, Consumer!RecordUnacked
  <2>3. CASE Receive(c)
    BY <2>1, <2>3 DEF Receive
  <2>4. QED
    BY <2>2, <2>3
<1>5. FromRows'
  BY <1>1, <1>2, <1>3, <1>4 DEF PathInv, FromRows
<1>6. UNCHANGED Path!avars
  BY <1>1, <1>3 DEF Path!avars
<1>7. QED
  BY <1>1, <1>5, <1>6 DEF PathInv

(* The safety half of EndToEnd: relay and consumer together are an         *)
(* at-least-once path.  Each of their steps accepts an event, runs the     *)
(* handler of an accepted one, or is invisible; no handler runs for an     *)
(* event without a row, and no effect is taken back, whatever is           *)
(* redelivered, fails and dies on either side.                             *)
THEOREM EffectsComeFromRows == DSpec => Path!ASafety
<1>1. DInit => PathInv /\ Path!AInit
  <2> SUFFICES ASSUME DInit PROVE PathInv /\ Path!AInit
    OBVIOUS
  <2>1. OTypeOK /\ Sound
    BY SoundInit, OutboxAssumption DEF DInit, OInit, OTypeOK, Status
  <2>2. Accepted = {} /\ Effective = {}
    BY DEF DInit, OInit, Consumer!IInit, Accepted, Effective
  <2>3. FromRows
    BY <2>2 DEF DInit, Consumer!IInit, FromRows
  <2>4. QED
    BY <2>1, <2>2, <2>3 DEF PathInv, Path!AInit
<1>2. PathInv /\ [DNext]_dvars => PathInv' /\ [Path!ANext]_(Path!avars)
  <2> SUFFICES ASSUME PathInv, [DNext]_dvars
               PROVE  PathInv' /\ [Path!ANext]_(Path!avars)
    OBVIOUS
  <2>1. ASSUME NEW c \in Call, Receive(c) \/ Process(c) \/ Interrupt(c)
        PROVE  PathInv' /\ [Path!ANext]_(Path!avars)
    BY <2>1, HandleStep, ConsumerStep
       DEF Receive, Process, Interrupt, Consumer!Step
  <2>2. CASE UNCHANGED dvars
    <3>1. UNCHANGED ovars /\ UNCHANGED cvars
      BY <2>2 DEF dvars
    <3>2. OTypeOK' /\ Sound' /\ Accepted' = Accepted
      BY <3>1, OutboxKept DEF PathInv
    <3>3. FromRows' /\ UNCHANGED Path!avars
      BY <3>1, <3>2, FromMoreRows DEF PathInv, Path!avars, Effective, cvars
    <3>4. QED
      BY <3>2, <3>3 DEF PathInv
  <2>3. QED
    BY <2>1, <2>2, RelaySideStep DEF DNext
<1>3. QED
  BY <1>1, <1>2, PTL DEF DSpec, Path!ASafety
=============================================================================
