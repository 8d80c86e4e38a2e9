-------------------------- MODULE RetransmitProofs --------------------------
(***************************************************************************)
(* What holds of the timers for every number of slots, every limit and     *)
(* every link: the estimate of the round trip is one the link has, and a   *)
(* datagram that is never acknowledged ends the session in bounded time.   *)
(*                                                                         *)
(* The argument, in IInv: a datagram sent once has one copy on the link at *)
(* most, as old as its entry says, so its acknowledgement is a measurement *)
(* (Known). A session that is open has ticked TickGap ago at most, and at  *)
(* that tick sent again whatever had waited MaxRto, so every retry adds at *)
(* most MaxRto + TickGap to the age of an entry (Waited). The retries have  *)
(* no bound of their own, as a NACK counts however often it is repeated,   *)
(* but what is past the limit marks the session dead and the next tick     *)
(* closes it, so the age of an entry has one (Lived).                      *)
(*                                                                         *)
(* Then the other two sides of it. Every retry that nobody asked for adds  *)
(* at least what the doubling series has (Early), so no peer is given up   *)
(* early; and over a link that loses nothing a session whose limits leave  *)
(* time for an answer stays open (Alive).                                  *)
(***************************************************************************)
EXTENDS Retransmit, FiniteSetTheorems, TLAPS

Gap == MaxRto + TickGap

\* As many of them as retries are allowed, and the one that closes.
Limit == (MaxRetries + 1) * Gap

Entry == [sent : Nat, retries : Nat, first : Nat, nacked : BOOLEAN, copies : SUBSET Nat]

Known(e) == e \in Entry /\ (e.retries = 0 => e.copies \subseteq {e.sent})

\* t is the time since the last tick.
Waited(e, t) == e.sent <= MaxRto + t /\ e.first <= e.retries * Gap + e.sent

Lived(e, t) == e.first <= Limit + t

InFlightKnown ==
  /\ inFlight = [s \in DOMAIN inFlight |-> inFlight[s]]
  /\ DOMAIN inFlight \subseteq Slots
  /\ \A s \in DOMAIN inFlight : Known(inFlight[s])

InFlightWaited ==
  \A s \in DOMAIN inFlight :
    /\ IsSpent(inFlight[s]) => dead
    /\ closed = "open" => Waited(inFlight[s], ticked) /\ Lived(inFlight[s], ticked)

Rest ==
  /\ smoothed \in Nat \cup {None} /\ variation \in Nat
  /\ dead \in BOOLEAN /\ closed \in {"open", "Timeout", "Unreachable"}
  /\ ticked \in 0 .. TickGap

IInv == Rest /\ EstimateWithinTrips /\ InFlightKnown /\ InFlightWaited

-----------------------------------------------------------------------------
(* Arithmetic.                                                              *)

\* Multiplication, which the solver needs spelled out.
LEMMA OneMore == ASSUME NEW r \in Nat, NEW g \in Nat PROVE (r + 1) * g = r * g + g
  BY SMT

\* A product of naturals is one.
LEMMA TimesNat == ASSUME NEW r \in Nat, NEW g \in Nat PROVE r * g \in Nat
  OBVIOUS

\* It is monotonic.
LEMMA AtMostTimes ==
  ASSUME NEW r \in Nat, NEW m \in Nat, NEW g \in Nat, r <= m
  PROVE  r * g <= m * g
<1> DEFINE k == m - r
<1>1. k \in Nat /\ m = r + k
  OBVIOUS
<1>2. (r + k) * g = r * g + k * g /\ k * g \in Nat /\ r * g \in Nat
  BY <1>1, SMT
<1> QED BY <1>1, <1>2, SMT

\* The longest a datagram waits between two retries is a number.
LEMMA GapNat == Gap \in Nat
  BY RetransmitAssumption DEF Gap

LEMMA LimitNat == Limit \in Nat
<1>1. MaxRetries + 1 \in Nat
  BY RetransmitAssumption
<1> QED BY <1>1, GapNat, TimesNat DEF Limit

\* Rtt::timeout keeps its limits, and no backoff exceeds max_rto (due).
LEMMA BackoffCapped ==
  ASSUME NEW e \in Entry, Rest
  PROVE  CurrentTimeout \in MinRto .. MaxRto /\ Backoff(e) <= MaxRto /\ Backoff(e) \in Int
<1>1. CurrentTimeout \in MinRto .. MaxRto
  BY RetransmitAssumption DEF CurrentTimeout, Lesser, Rest, None
<1>2. e.retries \in Nat
  BY RetransmitAssumption DEF Entry
<1>3. 2 ^ e.retries \in Int
  BY <1>2, SMT
<1>4. CurrentTimeout * 2 ^ e.retries \in Int
  <2> HIDE DEF CurrentTimeout
  <2>1. CurrentTimeout \in Int
    BY <1>1, RetransmitAssumption
  <2> QED BY <2>1, <1>3, SMT
<1> HIDE DEF CurrentTimeout
<1> QED BY <1>1, <1>4, RetransmitAssumption DEF Backoff, Lesser

-----------------------------------------------------------------------------
(* Entries: new, sent again, and grown older.                               *)

\* An entry that track has just made.
LEMMA NewIsKnown ==
  ASSUME NEW c \in SUBSET {0}, NEW t \in Nat
  PROVE  /\ Known(NewEntry(c)) /\ Waited(NewEntry(c), t) /\ Lived(NewEntry(c), t)
         /\ ~ IsSpent(NewEntry(c))
<1>1. Known(NewEntry(c))
  BY RetransmitAssumption DEF Known, NewEntry, Entry
<1>2. 0 * Gap = 0
  BY GapNat, SMT
<1>3. Waited(NewEntry(c), t) /\ Lived(NewEntry(c), t) /\ ~ IsSpent(NewEntry(c))
  BY <1>2, LimitNat, RetransmitAssumption DEF Waited, Lived, NewEntry, IsSpent
<1> QED BY <1>1, <1>3

\* Again as a plain record.
LEMMA AgainIs ==
  ASSUME NEW e \in Entry, NEW c \in SUBSET Nat, NEW a, a = Again(e, c)
  PROVE  a = [sent |-> 0, retries |-> e.retries + 1, first |-> e.first,
              nacked |-> e.nacked, copies |-> c]
  BY DEF Entry, Again

\* An entry sent again, whether or not it has spent its retries: it has waited one
\* Gap more, and is as old as it was.
LEMMA AgainIsKnown ==
  ASSUME NEW e, Known(e), NEW t \in 0 .. TickGap, Waited(e, t),
         NEW c \in SUBSET {0}, NEW u \in Nat
  PROVE  /\ Known(Again(e, e.copies \cup c))
         /\ Waited(Again(e, e.copies \cup c), u)
         /\ Again(e, e.copies \cup c).first = e.first
<1> DEFINE a == Again(e, e.copies \cup c)
<1>1. e \in Entry /\ e.retries \in Nat
  BY DEF Known, Entry
<1>2. /\ a \in Entry /\ a.sent = 0 /\ a.retries = e.retries + 1 /\ a.first = e.first
  <2>2. e.copies \cup c \in SUBSET Nat
    <3>1. e.copies \subseteq Nat /\ c \subseteq Nat
      BY <1>1 DEF Entry
    <3> QED BY <3>1
  <2>3. a = [sent |-> 0, retries |-> e.retries + 1, first |-> e.first,
             nacked |-> e.nacked, copies |-> e.copies \cup c]
    BY <1>1, <2>2, AgainIs
  <2>4. e.retries + 1 \in Nat
    BY <1>1
  <2>5. e.first \in Nat /\ e.nacked \in BOOLEAN
    BY <1>1 DEF Entry
  <2> HIDE DEF a
  <2> QED BY <2>2, <2>3, <2>4, <2>5 DEF Entry
<1>3. Known(a)
  <2> HIDE DEF a
  <2> QED BY <1>1, <1>2 DEF Known
<1>4. a.first <= a.retries * Gap + a.sent
  <2>1. e.sent <= Gap /\ e.sent \in Nat /\ e.first \in Nat
    BY <1>1, RetransmitAssumption DEF Waited, Gap, Entry
  <2>2. e.first <= e.retries * Gap + e.sent
    BY DEF Waited
  <2>3. (e.retries + 1) * Gap = e.retries * Gap + Gap
    BY <1>1, GapNat, OneMore
  <2>4. e.retries * Gap \in Nat
    BY <1>1, GapNat, TimesNat
  <2> HIDE DEF a
  <2> QED BY <1>2, <2>1, <2>2, <2>3, <2>4, GapNat
<1>5. Waited(a, u)
  <2> HIDE DEF a
  <2> QED BY <1>2, <1>4, RetransmitAssumption DEF Waited
<1> QED BY <1>2, <1>3, <1>5

\* An entry and its copies age together (Advance).
LEMMA OlderIsKnown ==
  ASSUME NEW e, Known(e), NEW a,
         a = [e EXCEPT !.sent = @ + 1, !.first = @ + 1, !.copies = {c + 1 : c \in @}]
  PROVE  /\ Known(a)
         /\ a.retries = e.retries
         /\ \A t \in Nat : Waited(e, t) => Waited(a, t + 1)
         /\ \A t \in Nat : Lived(e, t) => Lived(a, t + 1)
<1>1. e \in Entry
  BY DEF Known
<1>2. /\ a.sent = e.sent + 1 /\ a.first = e.first + 1 /\ a.retries = e.retries
      /\ a.copies = {c + 1 : c \in e.copies} /\ a.nacked = e.nacked
  BY <1>1 DEF Entry
<1>3. a \in Entry
  <2>1. a = [sent |-> e.sent + 1, retries |-> e.retries, first |-> e.first + 1,
             nacked |-> e.nacked, copies |-> {c + 1 : c \in e.copies}]
    BY <1>1 DEF Entry
  <2>2. {c + 1 : c \in e.copies} \in SUBSET Nat
    BY <1>1 DEF Entry
  <2>3. /\ e.sent + 1 \in Nat /\ e.first + 1 \in Nat
        /\ e.retries \in Nat /\ e.nacked \in BOOLEAN
    BY <1>1 DEF Entry
  <2> HIDE <1>2
  <2> QED BY ONLY <2>1, <2>2, <2>3 DEF Entry
<1>4. Known(a)
  BY <1>1, <1>2, <1>3 DEF Known
<1>5. ASSUME NEW t \in Nat, Waited(e, t)
      PROVE  Waited(a, t + 1)
  <2>1. e.retries * Gap \in Nat /\ e.sent \in Nat /\ e.first \in Nat
    BY <1>1, GapNat, RetransmitAssumption, SMT DEF Entry
  <2> QED BY <1>2, <1>5, <2>1, RetransmitAssumption DEF Waited
<1>6. ASSUME NEW t \in Nat, Lived(e, t)
      PROVE  Lived(a, t + 1)
  <2>1. e.first \in Nat
    BY <1>1 DEF Entry
  <2> QED BY <1>2, <1>6, <2>1, LimitNat DEF Lived
<1> QED BY <1>2, <1>4, <1>5, <1>6

\* A NACK marks the entry and changes nothing that counts (on_nack).
LEMMA NackedIsKnown ==
  ASSUME NEW e, Known(e), NEW a, a = [e EXCEPT !.nacked = TRUE]
  PROVE  /\ Known(a)
         /\ a.retries = e.retries
         /\ \A t \in Nat : (Waited(e, t) => Waited(a, t)) /\ (Lived(e, t) => Lived(a, t))
<1>1. e \in Entry
  BY DEF Known
<1>2. a = [sent |-> e.sent, retries |-> e.retries, first |-> e.first,
           nacked |-> TRUE, copies |-> e.copies]
  BY <1>1 DEF Entry
<1>3. /\ e.sent \in Nat /\ e.retries \in Nat /\ e.first \in Nat
      /\ e.copies \in SUBSET Nat
  BY <1>1 DEF Entry
<1>4. a \in Entry
  BY ONLY <1>2, <1>3 DEF Entry
<1>5. a.sent = e.sent /\ a.retries = e.retries /\ a.first = e.first /\ a.copies = e.copies
  BY <1>2
<1> QED BY <1>4, <1>5 DEF Known, Waited, Lived

\* What has retries left has not lived longer than Limit, however late the tick is.
LEMMA UnspentIsYoung ==
  ASSUME NEW e \in Entry, ~ IsSpent(e), NEW t \in 0 .. TickGap, Waited(e, t)
  PROVE  Lived(e, 0)
<1>1. /\ e.sent \in Nat /\ e.first \in Nat /\ e.retries \in Nat
      /\ e.retries <= MaxRetries /\ MaxRetries \in Nat /\ Gap \in Nat
  BY GapNat, RetransmitAssumption DEF Entry, IsSpent
<1>2. e.first <= e.retries * Gap + e.sent /\ e.sent <= Gap
  BY <1>1, RetransmitAssumption DEF Waited, Gap
<1>3. e.retries * Gap <= MaxRetries * Gap
  BY <1>1, AtMostTimes
<1>4. e.retries * Gap \in Nat /\ MaxRetries * Gap \in Nat
  BY <1>1, TimesNat
<1>5. Limit = MaxRetries * Gap + Gap
  BY <1>1, OneMore DEF Limit
<1> HIDE DEF Limit, Gap
<1> QED BY <1>1, <1>2, <1>3, <1>4, <1>5 DEF Lived

\* The datagrams of slots may be sent again and those of fresh for the first
\* time, so that u is the time since the last tick.
Sendable(slots, fresh, u) ==
  /\ ticked \in 0 .. TickGap /\ u \in Nat
  /\ slots \subseteq DOMAIN inFlight /\ fresh \subseteq Slots \ DOMAIN inFlight
  /\ \A s \in slots : Waited(inFlight[s], ticked)
  /\ \A s \in DOMAIN inFlight \ slots : Waited(inFlight[s], u)
  /\ \A s \in DOMAIN inFlight : Lived(inFlight[s], u)

\* What is in flight then.
AfterSent(sent, slots, fresh, u) ==
  /\ sent = [s \in DOMAIN sent |-> sent[s]]
  /\ DOMAIN sent = DOMAIN inFlight \cup fresh /\ DOMAIN sent \subseteq Slots
  /\ \A s \in DOMAIN sent :
       /\ Known(sent[s]) /\ Waited(sent[s], u) /\ Lived(sent[s], u)
       /\ s \in fresh => ~ IsSpent(sent[s])
       /\ s \in DOMAIN inFlight \ slots => sent[s] = inFlight[s]

\* Sent does what AfterSent says.
LEMMA SentIsKnown ==
  ASSUME InFlightKnown, NEW slots, NEW fresh, NEW lost, NEW u, Sendable(slots, fresh, u),
         NEW sent, sent = Sent(slots, fresh, lost)
  PROVE  AfterSent(sent, slots, fresh, u)
<1> USE DEF Sendable
<1>1. /\ sent = [s \in DOMAIN sent |-> sent[s]]
      /\ DOMAIN sent = DOMAIN inFlight \cup fresh /\ DOMAIN sent \subseteq Slots
  BY DEF Sent, InFlightKnown
<1>2. ASSUME NEW s \in DOMAIN sent
      PROVE  /\ Known(sent[s]) /\ Waited(sent[s], u) /\ Lived(sent[s], u)
             /\ s \in fresh => ~ IsSpent(sent[s])
             /\ s \in DOMAIN inFlight \ slots => sent[s] = inFlight[s]
  <2> DEFINE c == IF s \in lost THEN {} ELSE {0}
  <2>1. c \in SUBSET {0}
    OBVIOUS
  <2>2. CASE s \in fresh
    <3>1. sent[s] = NewEntry(c)
      BY <1>1, <2>2 DEF Sent
    <3> HIDE DEF c
    <3> QED BY <2>1, <2>2, <3>1, NewIsKnown
  <2>3. CASE s \in slots
    <3>1. sent[s] = Again(inFlight[s], inFlight[s].copies \cup c)
      BY <1>1, <2>3 DEF Sent
    <3> DEFINE e == inFlight[s]
               a == Again(e, e.copies \cup c)
    <3>2. Known(e) /\ Waited(e, ticked) /\ Lived(e, u)
      BY <2>3 DEF InFlightKnown
    <3>3. Known(a) /\ Waited(a, u) /\ a.first = e.first
      <4> HIDE DEF c, e
      <4>1. ticked \in 0 .. TickGap /\ u \in Nat
        OBVIOUS
      <4> QED BY ONLY <2>1, <3>2, <4>1, AgainIsKnown
    <3>4. sent[s] = a
      BY <3>1
    <3> HIDE DEF a
    <3>5. Lived(a, u)
      BY <3>2, <3>3 DEF Lived
    <3> QED BY <1>1, <2>3, <3>3, <3>4, <3>5
  <2>4. CASE s \in DOMAIN inFlight \ slots
    <3>1. sent[s] = inFlight[s]
      BY <1>1, <2>4 DEF Sent
    <3> QED BY <2>4, <3>1 DEF InFlightKnown
  <2> QED BY <1>1, <2>2, <2>3, <2>4
<1> QED BY <1>1, <1>2 DEF AfterSent

-----------------------------------------------------------------------------
(* The actions.                                                             *)

\* A true measurement leaves the estimate among the trips (Rtt::sample).
LEMMA SampleWithinTrips ==
  ASSUME Rest, EstimateWithinTrips, NEW trip \in MinTrip .. MaxTrip, FoldIn(trip)
  PROVE  smoothed' \in MinTrip .. MaxTrip /\ variation' \in Nat
<1>1. trip \in Nat /\ MinTrip \in Nat /\ MaxTrip \in Nat /\ variation \in Nat
  BY RetransmitAssumption DEF Rest
<1>2. CASE smoothed = None
  BY <1>1, <1>2 DEF FoldIn
<1>3. CASE smoothed # None
  <2>1. smoothed \in MinTrip .. MaxTrip
    BY <1>3 DEF EstimateWithinTrips
  <2> DEFINE delta == IF smoothed >= trip THEN smoothed - trip ELSE trip - smoothed
  <2>2. delta \in Nat
    BY <1>1, <2>1
  <2>3. variation' = (variation * 3 + delta) \div 4 /\ smoothed' = (smoothed * 7 + trip) \div 8
    BY <1>3 DEF FoldIn
  <2> HIDE DEF delta
  <2> QED BY <1>1, <2>1, <2>2, <2>3
<1> QED BY <1>2, <1>3

\* track takes a free slot.
LEMMA NextSlotFree == NextSlot \in SUBSET (Slots \ DOMAIN inFlight)
  BY DEF NextSlot

\* While the session is open and alive no entry has spent its retries.
LEMMA AliveWaited ==
  ASSUME IInv, closed = "open", ~ dead
  PROVE  /\ ticked \in 0 .. TickGap /\ ticked \in Nat /\ InFlightKnown
         /\ \A t \in DOMAIN inFlight : Waited(inFlight[t], ticked) /\ ~ IsSpent(inFlight[t])
         /\ \A t \in DOMAIN inFlight : Lived(inFlight[t], 0)
<1>1. /\ ticked \in 0 .. TickGap /\ ticked \in Nat /\ InFlightKnown
      /\ \A t \in DOMAIN inFlight : Waited(inFlight[t], ticked) /\ ~ IsSpent(inFlight[t])
  BY DEF IInv, Rest, InFlightWaited
<1>2. \A t \in DOMAIN inFlight : inFlight[t] \in Entry
  BY <1>1 DEF InFlightKnown, Known
<1> QED BY <1>1, <1>2, UnspentIsYoung

\* Dead or not, what is in flight in an open session has waited.
LEMMA OpenWaited ==
  ASSUME IInv, closed = "open"
  PROVE  /\ ticked \in 0 .. TickGap /\ ticked \in Nat /\ InFlightKnown
         /\ \A t \in DOMAIN inFlight :
              /\ Waited(inFlight[t], ticked) /\ Lived(inFlight[t], ticked)
              /\ IsSpent(inFlight[t]) => dead
  BY DEF IInv, Rest, InFlightWaited

\* Track keeps the invariant (track).
LEMMA TrackKeeps ==
  ASSUME IInv, Track
  PROVE  IInv'
<1>1. PICK lost \in SUBSET NextSlot : inFlight' = Sent({}, NextSlot, lost)
  BY DEF Track
<1>2. /\ closed = "open" /\ closed' = closed /\ dead' = dead /\ ticked' = ticked
      /\ smoothed' = smoothed /\ variation' = variation
  BY DEF Track, estimate, clocks
<1>3. /\ ticked \in 0 .. TickGap /\ ticked \in Nat /\ InFlightKnown
      /\ \A s \in DOMAIN inFlight :
           /\ Waited(inFlight[s], ticked) /\ Lived(inFlight[s], ticked)
           /\ IsSpent(inFlight[s]) => dead
  BY <1>2, OpenWaited
<1>4. AfterSent(inFlight', {}, NextSlot, ticked)
  <2>1. Sendable({}, NextSlot, ticked)
    BY <1>3, NextSlotFree DEF Sendable
  <2> QED BY <1>1, <1>3, <2>1, SentIsKnown
<1> QED BY <1>2, <1>3, <1>4
       DEF AfterSent, IInv, Rest, EstimateWithinTrips, InFlightKnown, InFlightWaited

\* OnAck keeps the invariant: what it measures is the one copy there was (on_ack).
LEMMA OnAckKeeps ==
  ASSUME IInv, NEW s \in DOMAIN inFlight, OnAck(s)
  PROVE  IInv'
<1>1. /\ inFlight' = [t \in DOMAIN inFlight \ {s} |-> inFlight[t]]
      /\ closed' = closed /\ dead' = dead /\ ticked' = ticked
  BY DEF OnAck
<1>2. InFlightKnown' /\ InFlightWaited'
  BY <1>1 DEF IInv, InFlightKnown, InFlightWaited
<1>3. /\ smoothed' \in Nat \cup {None} /\ variation' \in Nat
      /\ smoothed' = None \/ smoothed' \in MinTrip .. MaxTrip
  <2>1. CASE inFlight[s].retries = 0
    <3>1. inFlight[s].sent \in MinTrip .. MaxTrip
      BY <2>1 DEF IInv, InFlightKnown, Known, OnAck
    <3>2. FoldIn(inFlight[s].sent)
      BY <2>1 DEF OnAck
    <3>3. Rest /\ EstimateWithinTrips
      BY DEF IInv
    <3>4. smoothed' \in MinTrip .. MaxTrip /\ variation' \in Nat
      BY <3>1, <3>2, <3>3, SampleWithinTrips
    <3> QED BY <3>4, RetransmitAssumption
  <2>2. CASE inFlight[s].retries # 0
    BY <2>2 DEF OnAck, estimate, IInv, Rest, EstimateWithinTrips
  <2> QED BY <2>1, <2>2
<1> QED BY <1>1, <1>2, <1>3 DEF IInv, Rest, EstimateWithinTrips

\* OnNack keeps the invariant (on_nack).
LEMMA OnNackKeeps ==
  ASSUME IInv, NEW s \in DOMAIN inFlight, OnNack(s)
  PROVE  IInv'
<1>1. PICK lost \in SUBSET {s} :
        /\ inFlight' = [Sent({s}, {}, lost) EXCEPT ![s].nacked = TRUE]
        /\ dead' = (dead \/ \E t \in DOMAIN Sent({s}, {}, lost) : IsSpent(Sent({s}, {}, lost)[t]))
  BY DEF OnNack
<1>2. PICK sent : sent = Sent({s}, {}, lost)
  OBVIOUS
<1>3. /\ closed = "open" /\ closed' = closed /\ ticked' = ticked
      /\ smoothed' = smoothed /\ variation' = variation
  BY DEF OnNack, estimate
<1>4. /\ ticked \in 0 .. TickGap /\ ticked \in Nat /\ InFlightKnown
      /\ \A t \in DOMAIN inFlight : Waited(inFlight[t], ticked) /\ Lived(inFlight[t], ticked)
  BY <1>3, OpenWaited
<1>5. dead' \in BOOLEAN /\ \A t \in DOMAIN sent : IsSpent(sent[t]) => dead'
  <2>1. dead' = (dead \/ \E t \in DOMAIN sent : IsSpent(sent[t]))
    BY <1>1, <1>2, Zenon
  <2> QED BY <2>1, Zenon
<1>6. /\ sent = [t \in DOMAIN sent |-> sent[t]]
      /\ DOMAIN sent = DOMAIN inFlight /\ DOMAIN sent \subseteq Slots
      /\ \A t \in DOMAIN sent : Known(sent[t]) /\ Waited(sent[t], ticked) /\ Lived(sent[t], ticked)
  <2>1. Sendable({s}, {}, ticked)
    BY <1>4 DEF Sendable
  <2>2. AfterSent(sent, {s}, {}, ticked)
    BY <1>2, <1>4, <2>1, SentIsKnown
  <2> QED BY <1>4, <2>2 DEF AfterSent
<1>7. /\ inFlight' = [t \in DOMAIN sent |-> inFlight'[t]]
      /\ \A t \in DOMAIN sent \ {s} : inFlight'[t] = sent[t]
      /\ inFlight'[s] = [sent[s] EXCEPT !.nacked = TRUE]
  BY <1>1, <1>2, <1>6
<1>8. /\ Known(inFlight'[s]) /\ Waited(inFlight'[s], ticked) /\ Lived(inFlight'[s], ticked)
      /\ inFlight'[s].retries = sent[s].retries
  BY <1>4, <1>6, <1>7, NackedIsKnown
<1>9. \A t \in DOMAIN inFlight' :
        /\ Known(inFlight'[t]) /\ Waited(inFlight'[t], ticked) /\ Lived(inFlight'[t], ticked)
        /\ IsSpent(inFlight'[t]) => dead'
  <2>1. IsSpent(inFlight'[s]) => dead'
    BY <1>5, <1>6, <1>8 DEF IsSpent
  <2>2. ASSUME NEW t \in DOMAIN sent, t # s
        PROVE  /\ Known(inFlight'[t]) /\ Waited(inFlight'[t], ticked) /\ Lived(inFlight'[t], ticked)
               /\ IsSpent(inFlight'[t]) => dead'
    BY <1>5, <1>6, <1>7, <2>2
  <2>3. DOMAIN inFlight' = DOMAIN sent
    BY <1>7
  <2> QED BY <1>8, <2>1, <2>2, <2>3
<1> QED BY <1>3, <1>5, <1>6, <1>7, <1>9
       DEF IInv, Rest, EstimateWithinTrips, InFlightKnown, InFlightWaited

\* A tick that finds the session open and alive: what is due has waited for
\* MaxRto and a tick at most, and what is not due for less than MaxRto.
LEMMA RefreshKeeps ==
  ASSUME IInv, closed = "open", ~ dead, ticked' = 0, Refresh,
         UNCHANGED estimate
  PROVE  IInv'
<1> DEFINE due  == {s \in DOMAIN inFlight : IsDue(inFlight[s])}
           ping == IF pinged >= Keepalive THEN NextSlot ELSE {}
<1>1. PICK lost \in SUBSET (due \cup ping) : inFlight' = Sent(due, ping, lost)
  BY DEF Refresh
<1>2. /\ closed' = "open" /\ smoothed' = smoothed /\ variation' = variation
      /\ dead' = \E s \in DOMAIN inFlight' : IsSpent(inFlight'[s])
  <2>1. dead' = (dead \/ \E s \in DOMAIN inFlight' : IsSpent(inFlight'[s]))
    BY DEF Refresh
  <2>2. dead' = \E s \in DOMAIN inFlight' : IsSpent(inFlight'[s])
    BY <2>1, Zenon DEF IInv, Rest
  <2> QED BY <2>2 DEF Refresh, estimate
<1>3. /\ ticked \in 0 .. TickGap /\ ticked \in Nat /\ InFlightKnown
      /\ \A t \in DOMAIN inFlight : Waited(inFlight[t], ticked) /\ ~ IsSpent(inFlight[t])
      /\ \A t \in DOMAIN inFlight : Lived(inFlight[t], 0)
  BY AliveWaited
<1>4. ASSUME NEW s \in DOMAIN inFlight \ due PROVE Waited(inFlight[s], 0)
  <2>1. inFlight[s] \in Entry /\ Waited(inFlight[s], ticked)
    BY <1>3 DEF InFlightKnown, Known
  <2>2. ~ (inFlight[s].sent >= Backoff(inFlight[s]))
    BY DEF IsDue
  <2>3. Backoff(inFlight[s]) <= MaxRto /\ Backoff(inFlight[s]) \in Int
    BY <2>1, BackoffCapped DEF IInv
  <2>4. inFlight[s].sent \in Nat
    BY <2>1 DEF Entry
  <2> QED BY <2>1, <2>2, <2>3, <2>4, RetransmitAssumption DEF Waited
<1>5. Sendable(due, ping, 0)
  BY <1>3, <1>4, NextSlotFree DEF Sendable
<1> HIDE DEF due, ping
<1>6. AfterSent(inFlight', due, ping, 0)
  BY <1>1, <1>3, <1>5, SentIsKnown
<1>7. \A s \in DOMAIN inFlight' : IsSpent(inFlight'[s]) => dead'
  BY <1>2, Zenon
<1>8. ticked' \in 0 .. TickGap
  BY RetransmitAssumption
<1>9. InFlightWaited'
  BY <1>2, <1>6, <1>7 DEF InFlightWaited, AfterSent
<1> QED BY <1>2, <1>6, <1>8, <1>9
       DEF IInv, Rest, EstimateWithinTrips, InFlightKnown, AfterSent

\* Tick keeps the invariant (Session::tick).
LEMMA TickKeeps ==
  ASSUME IInv, Tick
  PROVE  IInv'
<1>1. /\ closed = "open" /\ ticked' = 0 /\ 0 \in 0 .. TickGap
      /\ smoothed' = smoothed /\ variation' = variation
  BY RetransmitAssumption DEF Tick, estimate
<1>2. CASE closed' \in {"Timeout", "Unreachable"} /\ UNCHANGED <<inFlight, dead, pinged, lossy>>
  BY <1>1, <1>2 DEF IInv, Rest, EstimateWithinTrips, InFlightKnown, InFlightWaited
<1>3. CASE ~ dead /\ Refresh
  BY <1>1, <1>3, RefreshKeeps DEF estimate
<1> QED BY <1>2, <1>3 DEF Tick

\* So does the passing of time.
LEMMA AdvanceKeeps ==
  ASSUME IInv, Advance
  PROVE  IInv'
<1>1. /\ closed = "open" /\ closed' = closed /\ dead' = dead /\ ticked' = ticked + 1
      /\ smoothed' = smoothed /\ variation' = variation
      /\ ticked \in Nat /\ ticked' \in 0 .. TickGap
  <2>1. /\ closed = "open" /\ closed' = closed /\ dead' = dead /\ ticked' = ticked + 1
        /\ smoothed' = smoothed /\ variation' = variation /\ ticked < TickGap
    BY DEF Advance, estimate
  <2>2. ticked \in 0 .. TickGap
    BY DEF IInv, Rest
  <2> QED BY <2>1, <2>2, RetransmitAssumption
<1>2. /\ inFlight' = [s \in DOMAIN inFlight' |-> inFlight'[s]]
      /\ DOMAIN inFlight' = DOMAIN inFlight
      /\ \A s \in DOMAIN inFlight :
           inFlight'[s] = [inFlight[s] EXCEPT !.sent = @ + 1, !.first = @ + 1,
                                              !.copies = {c + 1 : c \in @}]
  BY DEF Advance
<1>3. ASSUME NEW s \in DOMAIN inFlight
      PROVE  /\ Known(inFlight'[s]) /\ Waited(inFlight'[s], ticked + 1)
             /\ Lived(inFlight'[s], ticked + 1)
             /\ IsSpent(inFlight'[s]) => dead'
  <2>1. /\ Known(inFlight[s]) /\ Waited(inFlight[s], ticked) /\ Lived(inFlight[s], ticked)
        /\ IsSpent(inFlight[s]) => dead
    BY <1>1 DEF IInv, InFlightKnown, InFlightWaited
  <2>2. /\ Known(inFlight'[s]) /\ Waited(inFlight'[s], ticked + 1) /\ Lived(inFlight'[s], ticked + 1)
        /\ inFlight'[s].retries = inFlight[s].retries
    <3>1. inFlight'[s] = [inFlight[s] EXCEPT !.sent = @ + 1, !.first = @ + 1,
                                             !.copies = {c + 1 : c \in @}]
      BY <1>2
    <3>2. /\ Known(inFlight'[s]) /\ inFlight'[s].retries = inFlight[s].retries
          /\ \A t \in Nat : Waited(inFlight[s], t) => Waited(inFlight'[s], t + 1)
          /\ \A t \in Nat : Lived(inFlight[s], t) => Lived(inFlight'[s], t + 1)
      BY <2>1, <3>1, OlderIsKnown
    <3>3. ticked \in Nat /\ Waited(inFlight[s], ticked) /\ Lived(inFlight[s], ticked)
      BY <1>1, <2>1
    <3>4. Waited(inFlight'[s], ticked + 1) /\ Lived(inFlight'[s], ticked + 1)
      BY <3>2, <3>3
    <3> QED BY <3>2, <3>4
  <2> QED BY <1>1, <2>1, <2>2 DEF IsSpent
<1> QED BY <1>1, <1>2, <1>3
       DEF IInv, Rest, EstimateWithinTrips, InFlightKnown, InFlightWaited

-----------------------------------------------------------------------------
(* The theorems.                                                            *)

\* The inductive invariant holds of every behaviour.
THEOREM IInvHolds == Spec => []IInv
<1>1. Init => IInv
  <2> SUFFICES ASSUME Init PROVE IInv
    OBVIOUS
  <2>1. DOMAIN inFlight = {} /\ inFlight = [s \in DOMAIN inFlight |-> inFlight[s]]
    BY DEF Init
  <2>2. InFlightKnown /\ InFlightWaited
    BY <2>1 DEF InFlightKnown, InFlightWaited
  <2>3. Rest /\ EstimateWithinTrips
    <3>1. smoothed = None /\ variation = 0 /\ closed = "open" /\ ticked = 0
      BY DEF Init
    <3>2. dead \in BOOLEAN
      BY Zenon DEF Init
    <3>3. 0 \in 0 .. TickGap
      BY RetransmitAssumption
    <3> QED BY <3>1, <3>2, <3>3 DEF Rest, EstimateWithinTrips
  <2> QED BY <2>2, <2>3 DEF IInv
<1>2. IInv /\ [Next]_vars => IInv'
  <2> SUFFICES ASSUME IInv, [Next]_vars PROVE IInv'
    OBVIOUS
  <2>1. CASE Track
    BY <2>1, TrackKeeps
  <2>2. CASE Hear
    BY <2>2 DEF Hear, estimate, IInv, Rest, EstimateWithinTrips, InFlightKnown, InFlightWaited
  <2>3. CASE Tick
    BY <2>3, TickKeeps
  <2>4. CASE Advance
    BY <2>4, AdvanceKeeps
  <2>5. ASSUME NEW s \in DOMAIN inFlight, OnAck(s) PROVE IInv'
    BY <2>5, OnAckKeeps
  <2>6. ASSUME NEW s \in DOMAIN inFlight, OnNack(s) PROVE IInv'
    BY <2>6, OnNackKeeps
  <2>7. CASE UNCHANGED vars
    BY <2>7 DEF vars, IInv, Rest, EstimateWithinTrips, InFlightKnown, InFlightWaited
  <2> QED BY <2>1, <2>2, <2>3, <2>4, <2>5, <2>6, <2>7 DEF Next
<1> QED BY <1>1, <1>2, PTL DEF Spec

\* Types, the timeout within its limits (Rtt::timeout), and a session that has
\* spent the retries of a datagram marked dead (check_retries).
THEOREM TypeCorrect == Spec => []TypeOK
<1>1. IInv => TypeOK
  <2> SUFFICES ASSUME IInv PROVE TypeOK
    OBVIOUS
  <2>1. CurrentTimeout \in MinRto .. MaxRto
    BY RetransmitAssumption DEF CurrentTimeout, Lesser, IInv, Rest, None
  <2>2. ASSUME NEW s \in DOMAIN inFlight
        PROVE  /\ inFlight[s].sent \in Nat /\ inFlight[s].first \in Nat
               /\ inFlight[s].retries \in Nat /\ inFlight[s].copies \subseteq Nat
               /\ IsSpent(inFlight[s]) => dead
    BY DEF IInv, InFlightKnown, InFlightWaited, Known, Entry
  <2> HIDE DEF CurrentTimeout
  <2> QED BY <2>1, <2>2 DEF IInv, Rest, InFlightKnown, TypeOK
<1> QED BY <1>1, IInvHolds, PTL

\* Karn's algorithm keeps the estimate among the round trips the link has,
\* whatever is lost or sent again (Retransmitter::on_ack).
THEOREM KarnHolds == Spec => []EstimateWithinTrips
<1>1. IInv => EstimateWithinTrips
  BY DEF IInv
<1> QED BY <1>1, IInvHolds, PTL

\* Nothing the peer leaves unacknowledged outlives the retries, however often it
\* asks for it (due, on_nack, tick).
THEOREM GivesUp == Spec => []GivenUpInTime
<1>1. IInv => GivenUpInTime
  <2> SUFFICES ASSUME IInv, closed = "open", NEW s \in DOMAIN inFlight
               PROVE  inFlight[s].first <= (MaxRetries + 1) * (MaxRto + TickGap) + TickGap
    BY DEF GivenUpInTime
  <2>1. Lived(inFlight[s], ticked) /\ inFlight[s] \in Entry /\ ticked \in 0 .. TickGap
    BY OpenWaited DEF InFlightKnown, Known
  <2>2. inFlight[s].first <= Limit + TickGap
    BY <2>1, LimitNat, RetransmitAssumption DEF Lived, Entry
  <2> QED BY <2>2 DEF Limit, Gap
<1> QED BY <1>1, IInvHolds, PTL

-----------------------------------------------------------------------------
(* The doubling series.                                                     *)

\* What LeastWait adds for the r-th retry.
WaitMore(wait, r) == wait + Lesser(MinRto * 2 ^ (r - 1), MaxRto)
IsWait(fixed, wait, r) == wait \in Nat

Series == INSTANCE Folding WITH Op <- WaitMore, Holds <- IsWait

\* A shift to the left is a number.
LEMMA PowerNat == ASSUME NEW r \in Nat PROVE 2 ^ r \in Nat
<1>1. IsFiniteSet(1 .. r) /\ Cardinality(1 .. r) = r
  <2>1. IsFiniteSet(1 .. r) /\ Cardinality(1 .. r) = IF 1 > r THEN 0 ELSE r - 1 + 1
    BY FS_Interval
  <2> QED
    BY <2>1
<1>2. IsFiniteSet(SUBSET (1 .. r)) /\ Cardinality(SUBSET (1 .. r)) = 2 ^ r
  BY <1>1, FS_SUBSET
<1> QED
  BY <1>2, FS_CardinalityType

\* LeastWait takes the values its definition says.
LEMMA LeastWaitIs ==
  /\ LeastWait[0] = 0
  /\ \A r \in Nat : LeastWait[r + 1] = LeastWait[r] + Lesser(MinRto * 2 ^ r, MaxRto)
<1> DEFINE f == LeastWait
<1>1. f = CHOOSE g : Series!IsSeries(g, 0)
  BY DEF LeastWait, Series!IsSeries, WaitMore
<1> HIDE DEF f
<1>2. f[0] = 0 /\ \A r \in Nat : f[r + 1] = WaitMore(f[r], r + 1)
  BY <1>1, Series!SeriesIs
<1>3. \A r \in Nat : (r + 1) - 1 = r
  OBVIOUS
<1> QED
  BY <1>2, <1>3 DEF WaitMore, f

LEMMA LeastWaitNat == ASSUME NEW n \in Nat PROVE LeastWait[n] \in Nat
<1> DEFINE T == {r \in 0 .. n : LeastWait[r] \in Nat}
<1>1. 0 \in T
  BY LeastWaitIs
<1>2. ASSUME NEW r \in 0 .. (n - 1), r \in T PROVE r + 1 \in T
  <2>1. r \in Nat /\ LeastWait[r] \in Nat
    BY <1>2
  <2>2. LeastWait[r + 1] = LeastWait[r] + Lesser(MinRto * 2 ^ r, MaxRto)
    BY <2>1, LeastWaitIs
  <2>3. MinRto * 2 ^ r \in Nat /\ MaxRto \in Nat
    BY <2>1, PowerNat, TimesNat, RetransmitAssumption
  <2>4. Lesser(MinRto * 2 ^ r, MaxRto) \in Nat
    BY <2>3 DEF Lesser
  <2> QED
    BY <2>1, <2>2, <2>4
<1>3. \A r \in 0 .. n : r \in T
  <2> HIDE DEF T
  <2> QED
    BY <1>1, <1>2, Series!UpTo
<1> QED
  BY <1>3

\* No backoff is shorter than the series has for that retry (due).
LEMMA BackoffWaits ==
  ASSUME NEW e \in Entry, Rest
  PROVE  Lesser(MinRto * 2 ^ e.retries, MaxRto) <= Backoff(e)
<1> DEFINE t == CurrentTimeout
           p == 2 ^ e.retries
<1>1. t \in MinRto .. MaxRto
  BY BackoffCapped
<1>2. e.retries \in Nat
  BY RetransmitAssumption DEF Entry
<1>3. p \in Nat
  BY <1>2, PowerNat
<1>4. Backoff(e) = Lesser(t * p, MaxRto)
  BY DEF Backoff
<1> HIDE DEF t, p
<1>5. MinRto \in Nat /\ MaxRto \in Nat /\ t \in Nat /\ MinRto <= t
  BY <1>1, RetransmitAssumption
<1>6. MinRto * p <= t * p
  BY <1>3, <1>5, AtMostTimes
<1>7. MinRto * p \in Nat /\ t * p \in Nat
  BY <1>3, <1>5, TimesNat
<1>8. Lesser(MinRto * p, MaxRto) <= Lesser(t * p, MaxRto)
  <2> DEFINE a == MinRto * p
             b == t * p
  <2>1. a \in Nat /\ b \in Nat /\ a <= b /\ MaxRto \in Nat
    BY <1>5, <1>6, <1>7
  <2> HIDE DEF a, b
  <2>2. Lesser(a, MaxRto) <= Lesser(b, MaxRto)
    BY <2>1 DEF Lesser
  <2> QED
    BY <2>2 DEF a, b
<1> QED
  BY <1>4, <1>8 DEF p

-----------------------------------------------------------------------------
(* How early a datagram is given up.                                        *)

Early(e) == ~ e.nacked => e.first - e.sent >= LeastWait[e.retries]

EInv == IInv /\ \A s \in DOMAIN inFlight : Early(inFlight[s])

LEMMA NewIsEarly == ASSUME NEW c PROVE Early(NewEntry(c))
BY LeastWaitIs DEF Early, NewEntry

\* An entry that was due has waited for its retry (due).
LEMMA AgainIsEarly ==
  ASSUME NEW e \in Entry, Rest, Early(e), IsDue(e), NEW c \in SUBSET Nat
  PROVE  Early(Again(e, c))
<1> DEFINE a == Again(e, c)
           w == Lesser(MinRto * 2 ^ e.retries, MaxRto)
<1>1. a.sent = 0 /\ a.retries = e.retries + 1 /\ a.first = e.first /\ a.nacked = e.nacked
  BY AgainIs
<1>2. e.sent \in Nat /\ e.first \in Nat /\ e.retries \in Nat
  BY RetransmitAssumption DEF Entry
<1>3. e.sent >= Backoff(e) /\ w <= Backoff(e) /\ Backoff(e) \in Int
  BY BackoffWaits, BackoffCapped DEF IsDue
<1>4. LeastWait[e.retries + 1] = LeastWait[e.retries] + w /\ LeastWait[e.retries] \in Nat
  BY <1>2, LeastWaitIs, LeastWaitNat
<1>5. w \in Nat
  <2>1. MinRto * 2 ^ e.retries \in Nat /\ MaxRto \in Nat
    BY <1>2, PowerNat, TimesNat, RetransmitAssumption
  <2> QED
    BY <2>1 DEF Lesser
<1> HIDE DEF a, w
<1>6. ~ e.nacked => e.first - e.sent >= LeastWait[e.retries]
  BY DEF Early
<1>7. ~ a.nacked => a.first - a.sent >= LeastWait[a.retries]
  BY <1>1, <1>2, <1>3, <1>4, <1>5, <1>6
<1> QED
  BY <1>7 DEF a, Early

\* What is sent is due, or new.
LEMMA SentIsEarly ==
  ASSUME EInv, NEW slots, NEW fresh, NEW lost, NEW sent, sent = Sent(slots, fresh, lost),
         \A s \in slots \cap DOMAIN inFlight : IsDue(inFlight[s])
  PROVE  \A s \in DOMAIN sent : Early(sent[s])
<1> SUFFICES ASSUME NEW s \in DOMAIN sent PROVE Early(sent[s])
  OBVIOUS
<1> DEFINE c == IF s \in lost THEN {} ELSE {0}
<1>1. DOMAIN sent = DOMAIN inFlight \cup fresh
  BY DEF Sent
<1>2. CASE s \in fresh
  <2>1. sent[s] = NewEntry(c)
    BY <1>1, <1>2 DEF Sent
  <2> QED
    BY <2>1, NewIsEarly
<1>3. CASE s \notin fresh /\ s \in slots
  <2>1. s \in DOMAIN inFlight
    BY <1>1, <1>3
  <2>2. sent[s] = Again(inFlight[s], inFlight[s].copies \cup c)
    BY <1>1, <1>3 DEF Sent
  <2>3. inFlight[s] \in Entry /\ Early(inFlight[s]) /\ IsDue(inFlight[s]) /\ Rest
    BY <1>3, <2>1 DEF EInv, IInv, InFlightKnown, Known
  <2>4. inFlight[s].copies \cup c \in SUBSET Nat
    <3>1. inFlight[s].copies \subseteq Nat /\ c \subseteq Nat
      BY <2>3 DEF Entry
    <3> QED
      BY <3>1
  <2> HIDE DEF c
  <2> QED
    BY <2>2, <2>3, <2>4, AgainIsEarly
<1>4. CASE s \notin fresh /\ s \notin slots
  <2>1. sent[s] = inFlight[s] /\ s \in DOMAIN inFlight
    BY <1>1, <1>4 DEF Sent
  <2> QED
    BY <2>1 DEF EInv
<1> QED
  BY <1>2, <1>3, <1>4

\* An entry that grows older has waited no more retries (Advance).
LEMMA OlderIsEarly ==
  ASSUME NEW e \in Entry, Early(e), NEW a,
         a = [e EXCEPT !.sent = @ + 1, !.first = @ + 1, !.copies = {c + 1 : c \in @}]
  PROVE  Early(a)
<1>1. a.sent = e.sent + 1 /\ a.first = e.first + 1 /\ a.retries = e.retries /\ a.nacked = e.nacked
  BY DEF Entry
<1>2. e.sent \in Nat /\ e.first \in Nat
  BY DEF Entry
<1>3. a.first - a.sent = e.first - e.sent
  BY <1>1, <1>2
<1> QED
  BY <1>1, <1>3 DEF Early

\* One step of the timers keeps it: only due and a NACK send again.
LEMMA StepIsEarly ==
  ASSUME EInv, [Next]_vars
  PROVE  \A s \in DOMAIN inFlight' : Early(inFlight'[s])
<1>1. CASE Track
  <2>1. PICK lost : inFlight' = Sent({}, NextSlot, lost)
    BY <1>1 DEF Track
  <2> QED
    BY <2>1, SentIsEarly
<1>2. CASE Hear \/ UNCHANGED vars
  BY <1>2 DEF Hear, vars, EInv
<1>3. CASE Tick
  <2>1. CASE UNCHANGED <<inFlight, dead, pinged, lossy>>
    BY <2>1 DEF EInv
  <2>2. CASE Refresh
    <3> DEFINE due  == {s \in DOMAIN inFlight : IsDue(inFlight[s])}
               ping == IF pinged >= Keepalive THEN NextSlot ELSE {}
    <3>1. PICK lost : inFlight' = Sent(due, ping, lost)
      BY <2>2 DEF Refresh
    <3>2. \A s \in due \cap DOMAIN inFlight : IsDue(inFlight[s])
      OBVIOUS
    <3> HIDE DEF due, ping
    <3> QED
      BY <3>1, <3>2, SentIsEarly
  <2> QED
    BY <1>3, <2>1, <2>2 DEF Tick
<1>4. CASE Advance
  <2>1. inFlight' = [s \in DOMAIN inFlight |->
          [inFlight[s] EXCEPT !.sent = @ + 1, !.first = @ + 1, !.copies = {c + 1 : c \in @}]]
    BY <1>4 DEF Advance
  <2> SUFFICES ASSUME NEW s \in DOMAIN inFlight' PROVE Early(inFlight'[s])
    OBVIOUS
  <2>2. s \in DOMAIN inFlight
    BY <2>1
  <2>3. inFlight[s] \in Entry /\ Early(inFlight[s])
    BY <2>2 DEF EInv, IInv, InFlightKnown, Known
  <2>4. inFlight'[s] = [inFlight[s] EXCEPT !.sent = @ + 1, !.first = @ + 1, !.copies = {c + 1 : c \in @}]
    BY <2>1, <2>2
  <2> QED
    BY <2>3, <2>4, OlderIsEarly
<1>5. ASSUME NEW s \in DOMAIN inFlight, OnAck(s) PROVE \A t \in DOMAIN inFlight' : Early(inFlight'[t])
  BY <1>5 DEF OnAck, EInv
<1>6. ASSUME NEW s \in DOMAIN inFlight, OnNack(s) PROVE \A t \in DOMAIN inFlight' : Early(inFlight'[t])
  <2>1. PICK lost : inFlight' = [Sent({s}, {}, lost) EXCEPT ![s].nacked = TRUE]
    BY <1>6 DEF OnNack
  <2> DEFINE sent == Sent({s}, {}, lost)
  <2>2. DOMAIN sent = DOMAIN inFlight /\ \A t \in DOMAIN inFlight \ {s} : sent[t] = inFlight[t]
    BY DEF Sent
  <2>3. sent[s] = Again(inFlight[s], inFlight[s].copies \cup IF s \in lost THEN {} ELSE {0})
    BY DEF Sent
  <2>4. inFlight[s] \in Entry
    BY DEF EInv, IInv, InFlightKnown, Known
  <2>5. sent[s].nacked = inFlight[s].nacked /\ sent[s] = [sent[s] EXCEPT !.sent = 0]
    BY <2>3, <2>4 DEF Again, Entry
  <2>6. [sent[s] EXCEPT !.nacked = TRUE].nacked = TRUE
    BY <2>3, <2>4 DEF Again, Entry
  <2> HIDE DEF sent
  <2>7. DOMAIN inFlight' = DOMAIN inFlight /\ inFlight'[s] = [sent[s] EXCEPT !.nacked = TRUE]
        /\ \A t \in DOMAIN inFlight \ {s} : inFlight'[t] = sent[t]
    BY <2>1, <2>2 DEF sent
  <2> QED
    BY <2>2, <2>6, <2>7 DEF Early, EInv
<1> QED
  BY <1>1, <1>2, <1>3, <1>4, <1>5, <1>6 DEF Next

LEMMA EarlyHolds == Spec => []EInv
<1>1. Init => \A s \in DOMAIN inFlight : Early(inFlight[s])
  BY DEF Init
<1>2. IInv /\ (\A s \in DOMAIN inFlight : Early(inFlight[s])) /\ [Next]_vars
        => (\A s \in DOMAIN inFlight : Early(inFlight[s]))'
  BY StepIsEarly DEF EInv
<1> QED
  BY <1>1, <1>2, IInvHolds, PTL DEF Spec, EInv

(* due: a datagram nobody asked for has waited at least the doubling       *)
(* series before each of its retries, for any limits and any link.         *)
THEOREM BacksOff == Spec => []NotGivenUpEarly
<1>1. EInv => NotGivenUpEarly
  BY DEF EInv, Early, NotGivenUpEarly
<1> QED
  BY <1>1, EarlyHolds, PTL

-----------------------------------------------------------------------------
(* A link that loses nothing.                                               *)

(* The limits leave an acknowledgement time to come: the retries of a      *)
(* datagram take longer than a round trip, and the timeout is longer than  *)
(* a ping and its acknowledgement, a tick late, can take. The defaults do  *)
(* for round trips of up to 11 seconds.                                    *)
Patient ==
  /\ Slots # {}
  /\ MaxTrip < LeastWait[MaxRetries + 1]
  /\ Keepalive + TickGap + MaxTrip < Timeout

\* The first copy of a datagram is on the link until it is acknowledged, and only
\* its timer has counted retries.
Held(e) ==
  ~ e.nacked /\ e.first \in e.copies /\ e.first <= MaxTrip /\ e.retries <= MaxRetries + 1

\* Since the last ping something was heard, or what would be heard is on its way.
Answering ==
  \/ heard <= pinged
  \/ \E s \in DOMAIN inFlight : heard <= inFlight[s].first + Keepalive + TickGap

Alive ==
  ~ lossy =>
    /\ closed = "open" /\ ~ dead
    /\ heard \in Nat /\ pinged \in Nat /\ pinged <= Keepalive + ticked
    /\ \A s \in DOMAIN inFlight : Held(inFlight[s])
    /\ Answering

\* What is still held has not spent its retries.
LEMMA HeldIsUnspent ==
  ASSUME Patient, NEW e \in Entry, Early(e), Held(e)
  PROVE  ~ IsSpent(e)
<1> SUFFICES ASSUME IsSpent(e) PROVE FALSE
  OBVIOUS
<1>1. e.retries = MaxRetries + 1
  BY RetransmitAssumption DEF Entry, IsSpent, Held
<1>2. e.first - e.sent >= LeastWait[e.retries] /\ e.first <= MaxTrip
  BY DEF Early, Held
<1>3. MaxTrip < LeastWait[MaxRetries + 1]
  BY DEF Patient
<1>4. e.first \in Nat /\ e.sent \in Nat /\ MaxTrip \in Nat /\ LeastWait[MaxRetries + 1] \in Nat
  BY LeastWaitNat, RetransmitAssumption DEF Entry
<1> QED
  BY <1>1, <1>2, <1>3, <1>4

\* So nobody who is still held is given up.
LEMMA HeldIsHeard ==
  ASSUME Patient, EInv, Alive, ~ lossy
  PROVE  heard < Timeout
<1>1. /\ heard \in Nat /\ pinged \in Nat /\ pinged <= Keepalive + ticked
      /\ ticked \in Nat /\ ticked <= TickGap
      /\ Keepalive \in Nat /\ TickGap \in Nat /\ MaxTrip \in Nat /\ Timeout \in Nat
  BY RetransmitAssumption DEF EInv, IInv, Rest, Alive
<1>2. Keepalive + TickGap + MaxTrip < Timeout
  BY DEF Patient
<1>3. CASE heard <= pinged
  BY <1>1, <1>2, <1>3
<1>4. ASSUME NEW s \in DOMAIN inFlight, heard <= inFlight[s].first + Keepalive + TickGap
      PROVE  heard < Timeout
  <2>1. inFlight[s].first \in Nat
    BY DEF EInv, IInv, InFlightKnown, Known, Entry
  <2>2. inFlight[s].first <= MaxTrip
    BY DEF Alive, Held
  <2> QED
    BY <1>1, <1>2, <1>4, <2>1, <2>2
<1> QED
  BY <1>3, <1>4 DEF Alive, Answering

\* Nothing has become older, or younger, in being sent.
SameAge(sent, fresh) == \A s \in DOMAIN inFlight : s \notin fresh => sent[s].first = inFlight[s].first

\* What is sent over a link that loses nothing.
LEMMA SentIsHeld ==
  ASSUME EInv, \A s \in DOMAIN inFlight : Held(inFlight[s]),
         NEW slots, \A s \in slots \cap DOMAIN inFlight : ~ IsSpent(inFlight[s]), NEW fresh, NEW lost, lost = {}, NEW sent, sent = Sent(slots, fresh, lost)
  PROVE  /\ DOMAIN sent = DOMAIN inFlight \cup fresh
         /\ \A s \in DOMAIN sent : Held(sent[s])
         /\ SameAge(sent, fresh)
<1>1. DOMAIN sent = DOMAIN inFlight \cup fresh
  BY DEF Sent
<1>2. ASSUME NEW s \in fresh PROVE Held(sent[s])
  <2>1. sent[s] = NewEntry({0})
    BY <1>1, <1>2 DEF Sent
  <2>2. 0 <= MaxTrip /\ 0 <= MaxRetries + 1
    BY RetransmitAssumption
  <2> QED
    BY <2>1, <2>2 DEF NewEntry, Held
<1>3. ASSUME NEW s \in DOMAIN inFlight \ fresh
      PROVE  Held(sent[s]) /\ sent[s].first = inFlight[s].first
  <2>1. inFlight[s] \in Entry /\ Held(inFlight[s])
    BY <1>3 DEF EInv, IInv, InFlightKnown, Known
  <2>2. CASE s \in slots
    <3> DEFINE copies == inFlight[s].copies \cup {0}
               a == Again(inFlight[s], copies)
    <3>1. sent[s] = a
      BY <1>1, <1>3, <2>2 DEF Sent
    <3>2. copies \in SUBSET Nat
      <4>1. inFlight[s].copies \subseteq Nat
        BY <2>1 DEF Entry
      <4> QED
        BY <4>1
    <3>3. inFlight[s].first \in copies
      BY <2>1 DEF Held
    <3> HIDE DEF copies
    <3>4. a.first = inFlight[s].first /\ a.copies = copies /\ a.nacked = inFlight[s].nacked
          /\ a.retries = inFlight[s].retries + 1
      BY <2>1, <3>2, AgainIs
    <3>5. a.retries <= MaxRetries + 1
      BY <1>3, <2>1, <2>2, <3>4, RetransmitAssumption DEF IsSpent, Entry
    <3> QED
      BY <2>1, <3>1, <3>3, <3>4, <3>5 DEF Held
  <2>3. CASE s \notin slots
    BY <1>1, <1>3, <2>1, <2>3 DEF Sent
  <2> QED
    BY <2>2, <2>3
<1>4. SameAge(sent, fresh)
  BY <1>3 DEF SameAge
<1> QED
  BY <1>1, <1>2, <1>3, <1>4

\* A place in the window is always found for a ping, or the window is full.
LEMMA SomeInFlight ==
  ASSUME EInv, Patient, NextSlot = {}
  PROVE  DOMAIN inFlight # {}
<1> SUFFICES ASSUME DOMAIN inFlight = {} PROVE FALSE
  OBVIOUS
<1>1. PICK s \in Slots : \A t \in Slots : s <= t
  BY RetransmitAssumption, Series!LeastNatural DEF Patient
<1>2. s \in NextSlot
  BY <1>1 DEF NextSlot
<1> QED
  BY <1>2

\* The waiting for an answer goes on while what is in flight stays there.
LEMMA AnsweringStays ==
  ASSUME Answering, heard' = heard, pinged' = pinged,
         \A s \in DOMAIN inFlight : s \in DOMAIN inFlight' /\ inFlight'[s].first = inFlight[s].first
  PROVE  Answering'
BY DEF Answering

LEMMA TrackAlive ==
  ASSUME EInv, Alive, Track
  PROVE  Alive'
<1> SUFFICES ASSUME ~ lossy' PROVE Alive'
  BY DEF Alive
<1>1. PICK lost \in SUBSET NextSlot : inFlight' = Sent({}, NextSlot, lost) /\ lossy' = (lossy \/ lost # {})
  BY DEF Track
<1>2. ~ lossy /\ lost = {}
  BY <1>1, Zenon
<1>3. closed' = closed /\ dead' = dead /\ heard' = heard /\ pinged' = pinged /\ ticked' = ticked
  BY DEF Track, clocks
<1>4. inFlight' = Sent({}, NextSlot, lost)
  BY <1>1
<1>5. closed = "open" /\ ~ dead /\ heard \in Nat /\ pinged \in Nat /\ pinged <= Keepalive + ticked
      /\ (\A s \in DOMAIN inFlight : Held(inFlight[s])) /\ Answering
  BY <1>2 DEF Alive
<1>6. /\ DOMAIN inFlight' = DOMAIN inFlight \cup NextSlot
      /\ \A s \in DOMAIN inFlight' : Held(inFlight'[s])
      /\ SameAge(inFlight', NextSlot)
  <2>1. lost = {} /\ EInv /\ \A s \in DOMAIN inFlight : Held(inFlight[s])
    BY <1>2, <1>5
  <2>2. \A s \in {} \cap DOMAIN inFlight : ~ IsSpent(inFlight[s])
    OBVIOUS
  <2> QED
    BY ONLY <1>4, <2>1, <2>2, SentIsHeld
<1>7. Answering'
  BY <1>3, <1>5, <1>6, NextSlotFree, AnsweringStays DEF SameAge
<1> QED
  BY <1>3, <1>5, <1>6, <1>7 DEF Alive

LEMMA RefreshAlive ==
  ASSUME Patient, EInv, EInv', Alive, ~ lossy', closed = "open", Refresh,
         ticked' = 0, heard' = heard
  PROVE  Alive'
<1> DEFINE due  == {s \in DOMAIN inFlight : IsDue(inFlight[s])}
           ping == IF pinged >= Keepalive THEN NextSlot ELSE {}
<1>1. PICK lost \in SUBSET (due \cup ping) : inFlight' = Sent(due, ping, lost) /\ lossy' = (lossy \/ lost # {})
  BY DEF Refresh
<1>2. ~ lossy /\ lost = {}
  BY <1>1, Zenon
<1>3. /\ closed' = "open" /\ pinged' = IF pinged >= Keepalive THEN 0 ELSE pinged
      /\ dead' = (dead \/ \E s \in DOMAIN inFlight' : IsSpent(inFlight'[s]))
  BY DEF Refresh
<1>4. /\ ~ dead /\ heard \in Nat /\ pinged \in Nat /\ pinged <= Keepalive + ticked
      /\ (\A s \in DOMAIN inFlight : Held(inFlight[s])) /\ Answering
  BY <1>2 DEF Alive
<1>5. ping \cap DOMAIN inFlight = {}
  BY NextSlotFree
<1>6. pinged >= Keepalive => ping = NextSlot
  OBVIOUS
<1> HIDE DEF due, ping
<1>7. /\ DOMAIN inFlight' = DOMAIN inFlight \cup ping
      /\ \A s \in DOMAIN inFlight' : Held(inFlight'[s])
      /\ \A s \in DOMAIN inFlight : inFlight'[s].first = inFlight[s].first
  <2>1. lost = {} /\ EInv /\ \A s \in DOMAIN inFlight : Held(inFlight[s])
    BY <1>2, <1>4
  <2>2. inFlight' = Sent(due, ping, lost)
    BY <1>1
  <2>3. \A s \in due \cap DOMAIN inFlight : ~ IsSpent(inFlight[s])
    BY <1>4, AliveWaited DEF EInv
  <2>4. /\ DOMAIN inFlight' = DOMAIN inFlight \cup ping
        /\ \A s \in DOMAIN inFlight' : Held(inFlight'[s])
        /\ SameAge(inFlight', ping)
    BY ONLY <2>1, <2>2, <2>3, SentIsHeld
  <2> QED
    BY <1>5, <2>4 DEF SameAge
<1>8. \A s \in DOMAIN inFlight' : inFlight'[s] \in Entry /\ Early(inFlight'[s])
  BY DEF EInv, IInv, InFlightKnown, Known
<1>9. \A s \in DOMAIN inFlight' : ~ IsSpent(inFlight'[s])
  BY <1>7, <1>8, HeldIsUnspent
<1>10. ~ dead'
  BY <1>3, <1>4, <1>9, Zenon
<1>11. Keepalive \in Nat /\ ticked \in Nat /\ ticked <= TickGap /\ TickGap \in Nat
  BY RetransmitAssumption DEF EInv, IInv, Rest
<1>12. pinged' \in Nat /\ pinged' <= Keepalive + ticked'
  BY <1>3, <1>4, <1>11
<1>13. Answering'
  <2>1. CASE ~ (pinged >= Keepalive)
    BY <1>3, <1>4, <1>7, <2>1, AnsweringStays
  <2>2. CASE pinged >= Keepalive /\ heard <= pinged
    <3>1. PICK s \in DOMAIN inFlight' : TRUE
      BY <1>6, <1>7, <2>2, SomeInFlight
    <3>2. inFlight'[s].first \in Nat
      BY <1>8 DEF Entry
    <3>3. heard' <= inFlight'[s].first + Keepalive + TickGap
      BY <1>4, <1>11, <2>2, <3>2
    <3> QED
      BY <3>3 DEF Answering
  <2>3. ASSUME NEW s \in DOMAIN inFlight, heard <= inFlight[s].first + Keepalive + TickGap
        PROVE  Answering'
    BY <1>7, <2>3 DEF Answering
  <2> QED
    BY <1>4, <2>1, <2>2, <2>3 DEF Answering
<1> QED
  BY <1>3, <1>4, <1>7, <1>10, <1>12, <1>13 DEF Alive

LEMMA TickAlive ==
  ASSUME Patient, EInv, EInv', Alive, Tick
  PROVE  Alive'
<1> SUFFICES ASSUME ~ lossy' PROVE Alive'
  BY DEF Alive
<1>1. closed = "open" /\ ticked' = 0 /\ heard' = heard
  BY DEF Tick
<1>2. CASE heard < Timeout /\ ~ dead /\ Refresh
  BY <1>1, <1>2, RefreshAlive
<1>3. CASE heard >= Timeout /\ lossy' = lossy
  <2>1. ~ lossy
    BY <1>3
  <2>2. heard < Timeout /\ heard \in Nat
    BY <2>1, HeldIsHeard DEF Alive
  <2> QED
    BY <1>3, <2>2, RetransmitAssumption
<1>4. CASE dead /\ lossy' = lossy
  BY <1>4 DEF Alive
<1> QED
  BY <1>2, <1>3, <1>4 DEF Tick

LEMMA AdvanceAlive ==
  ASSUME EInv, Alive, Advance
  PROVE  Alive'
<1> SUFFICES ASSUME ~ lossy' PROVE Alive'
  BY DEF Alive
<1>1. /\ ~ lossy /\ closed' = closed /\ dead' = dead
      /\ heard' = heard + 1 /\ pinged' = pinged + 1 /\ ticked' = ticked + 1
  BY DEF Advance
<1>2. /\ closed = "open" /\ ~ dead /\ heard \in Nat /\ pinged \in Nat /\ pinged <= Keepalive + ticked
      /\ (\A s \in DOMAIN inFlight : Held(inFlight[s])) /\ Answering
  BY <1>1 DEF Alive
<1>3. /\ DOMAIN inFlight' = DOMAIN inFlight
      /\ \A s \in DOMAIN inFlight :
           inFlight'[s] = [inFlight[s] EXCEPT !.sent = @ + 1, !.first = @ + 1,
                                              !.copies = {c + 1 : c \in @}]
  BY DEF Advance
<1>4. ASSUME NEW s \in DOMAIN inFlight
      PROVE  Held(inFlight'[s]) /\ inFlight[s].first \in Nat /\ inFlight'[s].first = inFlight[s].first + 1
  <2> DEFINE e == inFlight[s]
             a == inFlight'[s]
  <2>1. e \in Entry /\ Held(e)
    BY <1>2 DEF EInv, IInv, InFlightKnown, Known
  <2>2. a.nacked = e.nacked /\ a.first = e.first + 1 /\ a.copies = {c + 1 : c \in e.copies}
        /\ a.retries = e.retries
    BY <1>3, <2>1 DEF Entry
  <2>3. e.first < MaxTrip
    BY <2>1 DEF Advance, Held
  <2>4. e.first \in Nat /\ MaxTrip \in Nat
    BY <2>1, RetransmitAssumption DEF Entry
  <2> HIDE DEF a, e
  <2>5. Held(a)
    BY <2>1, <2>2, <2>3, <2>4 DEF Held
  <2> QED
    BY <2>2, <2>4, <2>5 DEF a, e
<1>5. Keepalive \in Nat /\ ticked \in Nat /\ TickGap \in Nat
  BY RetransmitAssumption DEF EInv, IInv, Rest
<1>6. Answering'
  <2>1. CASE heard <= pinged
    BY <1>1, <1>2, <2>1 DEF Answering
  <2>2. ASSUME NEW s \in DOMAIN inFlight, heard <= inFlight[s].first + Keepalive + TickGap
        PROVE  Answering'
    <3>1. heard' <= inFlight'[s].first + Keepalive + TickGap
      BY <1>1, <1>2, <1>4, <1>5, <2>2
    <3> QED
      BY <1>3, <3>1 DEF Answering
  <2> QED
    BY <1>2, <2>1, <2>2 DEF Answering
<1>7. heard' \in Nat /\ pinged' \in Nat /\ pinged' <= Keepalive + ticked'
  BY <1>1, <1>2, <1>5
<1>8. \A s \in DOMAIN inFlight' : Held(inFlight'[s])
  BY <1>3, <1>4
<1> QED
  BY <1>1, <1>2, <1>6, <1>7, <1>8 DEF Alive

LEMMA StepAlive ==
  ASSUME Patient, EInv, EInv', Alive, [Next]_vars
  PROVE  Alive'
<1>1. CASE Track
  BY <1>1, TrackAlive
<1>2. CASE Tick
  BY <1>2, TickAlive
<1>3. CASE Advance
  BY <1>3, AdvanceAlive
<1>4. CASE Hear
  BY <1>4 DEF Hear, Alive, Answering
<1>5. ASSUME NEW s \in DOMAIN inFlight, OnAck(s) PROVE Alive'
  BY <1>5 DEF OnAck, Alive, Answering
<1>6. ASSUME NEW s \in DOMAIN inFlight, OnNack(s) PROVE Alive'
  BY <1>6 DEF OnNack, Alive
<1>7. CASE UNCHANGED vars
  BY <1>7 DEF vars, Alive, Answering
<1> QED
  BY <1>1, <1>2, <1>3, <1>4, <1>5, <1>6, <1>7 DEF Next

(* tick and on_ack: over a link that loses nothing a session stays open,   *)
(* however long its callers are silent, if the limits are Patient.         *)
THEOREM AliveIsKept ==
  ASSUME Patient
  PROVE  Spec => []AliveStaysOpen
<1>1. Init => Alive
  BY RetransmitAssumption DEF Init, Alive, Answering
<1>2. EInv /\ EInv' /\ Alive /\ [Next]_vars => Alive'
  BY StepAlive
<1>3. Alive => AliveStaysOpen
  BY DEF Alive, AliveStaysOpen
<1>4. Spec => []EInv
  BY EarlyHolds
<1> QED
  BY <1>1, <1>2, <1>3, <1>4, PTL DEF Spec
=============================================================================
