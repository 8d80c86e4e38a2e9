--------------------------- MODULE ListenerProofs ---------------------------
(***************************************************************************)
(* Theorems about the listener, for any number of clients, of sources and  *)
(* of payloads, any limits, and whatever the network does to requests.     *)
(***************************************************************************)
EXTENDS Listener, FiniteSetTheorems, SequenceTheorems, TLAPS

Session ==
  [state : {"Connecting", "Connected"}, taken : 0 .. Farewell,
   answered : BOOLEAN, quiet : 0 .. Timeout, whole : BOOLEAN]

-----------------------------------------------------------------------------
(* One session, its events, and whether it has dropped payloads.            *)

\* The payloads told: in order, and all up to some number unless some were
\* dropped; up to the last if the client said farewell.
InOrder(events) ==
  \A p, q \in Told(events) : p < q => events[p].k < events[q].k

\* What holds of a session that the listener has.
Going(s, events, dropped) ==
  /\ Ends(events) = {}
  /\ \A j, k \in Joins(events) : j = k
  /\ s.state = "Connected" <=> Joins(events) # {}
  /\ InOrder(events)
  /\ \A p \in Told(events) : events[p].k <= s.taken
  /\ ~ dropped =>
       /\ s.state = "Connected" <=> s.taken >= Incoming
       /\ \A p \in Told(events) : \E j \in Joins(events) : j < p
       /\ Numbers(events) = {k \in User : k <= s.taken}

\* And of one that it had, or never had.
Over(events, dropped) ==
  /\ events # <<>> => Ends(events) = {Len(events)}
  /\ \A j, k \in Joins(events) : j = k
  /\ InOrder(events)
  /\ ~ dropped =>
       \E n \in 0 .. Farewell :
         /\ Numbers(events) = {k \in User : k <= n}
         /\ Those(events, {"left"}) # {} => n = Farewell

LEMMA Numbering == Farewell \in Nat /\ Farewell = MaxUser + 3 /\ Incoming = 2 /\ MaxUser \in Nat
  BY ListenerAssumption DEF Farewell, Incoming

LEMMA NothingTold ==
  /\ Joins(<<>>) = {} /\ Ends(<<>>) = {} /\ Told(<<>>) = {} /\ Numbers(<<>>) = {}
  /\ Those(<<>>, {"left"}) = {}
  BY DEF Joins, Ends, Told, Numbers, Those

LEMMA NewIsGoing == ASSUME NEW whole \in BOOLEAN PROVE Going(NewSession(whole), <<>>, FALSE)
  BY NothingTold, Numbering DEF Going, NewSession, InOrder, User

LEMMA NothingIsOver == ASSUME NEW dropped PROVE Over(<<>>, dropped)
<1>1. \A n \in Nat : n = 0 => {k \in User : k <= n} = {}
  BY Numbering DEF User
<1> QED
  BY <1>1, NothingTold, Numbering DEF Over, InOrder

\* Time makes no difference.
LEMMA QuietIsGoing ==
  ASSUME NEW s \in Session, NEW events, NEW dropped, NEW quiet, Going(s, events, dropped)
  PROVE  Going([s EXCEPT !.quiet = quiet], events, dropped)
  BY DEF Going, Session

-----------------------------------------------------------------------------
(* Events added at the end.                                                 *)

\* What any events so far satisfy; no payload told is beyond most.
Body(events, most) ==
  /\ Ends(events) = {}
  /\ \A j, k \in Joins(events) : j = k
  /\ InOrder(events)
  /\ \A p \in Told(events) : events[p].k <= most

\* Payloads after first and up to last, in order.
Run(events, first, last) ==
  /\ events \in Seq(EventSet)
  /\ \A k \in DOMAIN events :
       events[k].kind = "payload" /\ first < events[k].k /\ events[k].k <= last
  /\ \A j, k \in DOMAIN events : j < k => events[j].k < events[k].k

LEMMA NumberOf ==
  ASSUME NEW events \in Seq(EventSet), NEW k \in DOMAIN events
  PROVE  events[k] \in EventSet /\ events[k].k \in Nat
<1>1. events[k] \in EventSet
  <2> HIDE DEF EventSet
  <2> QED
    BY ElementOfSeq
<1> QED
  BY <1>1 DEF EventSet

LEMMA Joined ==
  ASSUME NEW a \in Seq(EventSet), NEW b \in Seq(EventSet)
  PROVE  /\ a \o b \in Seq(EventSet) /\ Len(a \o b) = Len(a) + Len(b)
         /\ \A k \in DOMAIN a : k \in DOMAIN (a \o b) /\ (a \o b)[k] = a[k]
         /\ \A k \in DOMAIN b : Len(a) + k \in DOMAIN (a \o b) /\ (a \o b)[Len(a) + k] = b[k]
         /\ \A k \in DOMAIN (a \o b) :
              k \in DOMAIN a \/ (k > Len(a) /\ k - Len(a) \in DOMAIN b /\ (a \o b)[k] = b[k - Len(a)])
<1> DEFINE u == a \o b
<1>1. u \in Seq(EventSet) /\ Len(u) = Len(a) + Len(b)
      /\ \A k \in 1 .. (Len(a) + Len(b)) : u[k] = IF k <= Len(a) THEN a[k] ELSE b[k - Len(a)]
  BY ConcatProperties
<1>2. DOMAIN a = 1 .. Len(a) /\ DOMAIN b = 1 .. Len(b) /\ DOMAIN u = 1 .. Len(u)
      /\ Len(a) \in Nat /\ Len(b) \in Nat
  BY <1>1
<1> HIDE DEF u
<1>3. u \in Seq(EventSet) /\ Len(u) = Len(a) + Len(b)
  BY <1>1
<1>4. \A k \in DOMAIN a : k \in DOMAIN u /\ u[k] = a[k]
  BY <1>1, <1>2
<1>5. \A k \in DOMAIN b : Len(a) + k \in DOMAIN u /\ u[Len(a) + k] = b[k]
  BY <1>1, <1>2
<1>6. \A k \in DOMAIN u : k \in DOMAIN a \/ (k > Len(a) /\ k - Len(a) \in DOMAIN b /\ u[k] = b[k - Len(a)])
  BY <1>1, <1>2
<1> QED
  BY <1>3, <1>4, <1>5, <1>6 DEF u

\* The events of b are counted on from those of a.
LEMMA ThoseJoined ==
  ASSUME NEW a \in Seq(EventSet), NEW b \in Seq(EventSet), NEW kinds
  PROVE  Those(a \o b, kinds) = Those(a, kinds) \cup {Len(a) + k : k \in Those(b, kinds)}
<1> DEFINE u == a \o b
<1>1. \A k \in DOMAIN a : k \in DOMAIN u /\ u[k] = a[k]
  BY Joined
<1>2. \A k \in DOMAIN b : Len(a) + k \in DOMAIN u /\ u[Len(a) + k] = b[k]
  BY Joined
<1>3. \A k \in DOMAIN u : k \in DOMAIN a \/ (k > Len(a) /\ k - Len(a) \in DOMAIN b /\ u[k] = b[k - Len(a)])
  BY Joined
<1>4. DOMAIN u \subseteq Int /\ Len(a) \in Nat
  <2>1. u \in Seq(EventSet)
    BY Joined
  <2> QED
    BY <2>1
<1> HIDE DEF u
<1>5. ASSUME NEW k \in Those(u, kinds)
      PROVE  k \in Those(a, kinds) \cup {Len(a) + j : j \in Those(b, kinds)}
  <2>1. k \in DOMAIN u /\ u[k].kind \in kinds
    BY DEF Those
  <2>2. CASE k \in DOMAIN a
    BY <1>1, <2>1, <2>2 DEF Those
  <2>3. CASE k - Len(a) \in DOMAIN b /\ u[k] = b[k - Len(a)]
    <3>1. k - Len(a) \in Those(b, kinds)
      BY <2>1, <2>3 DEF Those
    <3>2. k = Len(a) + (k - Len(a))
      BY <1>4, <2>1
    <3> QED
      BY <3>1, <3>2
  <2> QED
    BY <1>3, <2>1, <2>2, <2>3
<1>6. Those(a, kinds) \subseteq Those(u, kinds)
  BY <1>1 DEF Those
<1>7. \A j \in Those(b, kinds) : Len(a) + j \in Those(u, kinds)
  BY <1>2 DEF Those
<1> QED
  BY <1>5, <1>6, <1>7 DEF u

\* A run of payloads that begins where the others end.
LEMMA RunAfter ==
  ASSUME NEW events \in Seq(EventSet), NEW run, NEW first \in Nat, NEW last \in Nat,
         Body(events, first), Run(run, first, last), first <= last
  PROVE  LET more == events \o run
         IN /\ more \in Seq(EventSet)
            /\ Body(more, last)
            /\ Joins(more) = Joins(events)
            /\ Those(more, {"left"}) = {}
            /\ Numbers(more) = Numbers(events) \cup {run[k].k : k \in DOMAIN run}
            /\ \A p \in Told(more) : p \in Told(events) \/ p > Len(events)
<1> DEFINE u == events \o run
<1>1. run \in Seq(EventSet) /\ \A k \in DOMAIN run : run[k].kind = "payload"
  BY DEF Run
<1>2. /\ u \in Seq(EventSet)
      /\ \A k \in DOMAIN events : k \in DOMAIN u /\ u[k] = events[k]
      /\ \A k \in DOMAIN run : Len(events) + k \in DOMAIN u /\ u[Len(events) + k] = run[k]
      /\ \A k \in DOMAIN u :
           k \in DOMAIN events \/ (k > Len(events) /\ k - Len(events) \in DOMAIN run /\ u[k] = run[k - Len(events)])
  BY <1>1, Joined
<1>3. DOMAIN events = 1 .. Len(events) /\ Len(events) \in Nat /\ DOMAIN run \subseteq Nat \ {0}
  BY <1>1
<1>4. Those(run, {"joined"}) = {} /\ Those(run, {"left", "lost"}) = {} /\ Those(run, {"left"}) = {}
  BY <1>1 DEF Those
<1>5. Joins(u) = Joins(events) /\ Ends(u) = Ends(events)
  <2>1. Joins(u) = Joins(events) \cup {Len(events) + k : k \in Those(run, {"joined"})}
    BY <1>1, ThoseJoined DEF Joins
  <2>2. Ends(u) = Ends(events) \cup {Len(events) + k : k \in Those(run, {"left", "lost"})}
    BY <1>1, ThoseJoined DEF Ends
  <2> QED
    BY <1>4, <2>1, <2>2
<1>6. Those(run, {"payload"}) = DOMAIN run
  BY <1>1 DEF Those
<1>7. Told(u) = Told(events) \cup {Len(events) + k : k \in DOMAIN run}
  <2>1. Told(u) = Told(events) \cup {Len(events) + k : k \in Those(run, {"payload"})}
    BY <1>1, ThoseJoined DEF Told
  <2> QED
    BY <1>6, <2>1
<1>8. Told(events) \subseteq DOMAIN events
  BY DEF Told, Those
<1> HIDE DEF u
<1>9. \A p \in Told(events) : u[p].k = events[p].k /\ events[p].k <= first
  BY <1>2, <1>8 DEF Body
<1>10. \A k \in DOMAIN run : u[Len(events) + k].k = run[k].k /\ first < run[k].k /\ run[k].k <= last
  BY <1>2 DEF Run
<1>11. \A p \in Told(events) : events[p].k \in Nat
  BY <1>8, NumberOf
<1>12. \A k \in DOMAIN run : run[k].k \in Nat
  BY <1>1, NumberOf
<1>13. InOrder(u)
  <2> SUFFICES ASSUME NEW p \in Told(u), NEW q \in Told(u), p < q PROVE u[p].k < u[q].k
    BY DEF InOrder
  <2>1. CASE p \in Told(events) /\ q \in Told(events)
    BY <1>9, <2>1 DEF Body, InOrder
  <2>2. CASE p \in Told(events) /\ q \notin Told(events)
    <3>1. PICK k \in DOMAIN run : q = Len(events) + k
      BY <1>7, <2>2
    <3>2. u[p].k <= first /\ first < u[q].k /\ u[p].k \in Nat /\ u[q].k \in Nat
      BY <1>9, <1>10, <1>11, <1>12, <2>2, <3>1
    <3> QED
      BY <3>2
  <2>3. CASE p \notin Told(events)
    <3>1. PICK j \in DOMAIN run : p = Len(events) + j
      BY <1>7, <2>3
    <3>2. q \notin Told(events)
      BY <1>3, <1>8, <3>1
    <3>3. PICK k \in DOMAIN run : q = Len(events) + k
      BY <1>7, <3>2
    <3>4. j < k
      BY <1>3, <3>1, <3>3
    <3> QED
      BY <1>10, <3>1, <3>3, <3>4 DEF Run
  <2> QED
    BY <2>1, <2>2, <2>3
<1>14. \A p \in Told(u) : u[p].k <= last
  <2> SUFFICES ASSUME NEW p \in Told(u) PROVE u[p].k <= last
    OBVIOUS
  <2>1. CASE p \in Told(events)
    BY <1>9, <1>11, <2>1
  <2>2. CASE p \notin Told(events)
    BY <1>7, <1>10, <2>2
  <2> QED
    BY <2>1, <2>2
<1>15. Body(u, last)
  BY <1>5, <1>13, <1>14 DEF Body
<1>16. Numbers(u) = Numbers(events) \cup {run[k].k : k \in DOMAIN run}
  BY <1>7, <1>9, <1>10 DEF Numbers
<1>17. \A p \in Told(u) : p \in Told(events) \/ p > Len(events)
  BY <1>3, <1>7
<1>18. Those(u, {"left"}) = {}
  BY <1>15 DEF Body, Ends, Those
<1> QED
  BY <1>2, <1>5, <1>15, <1>16, <1>17, <1>18 DEF u

LEMMA NothingIsRun == \A first, last : Run(<<>>, first, last)
  BY DEF Run

\* The payloads of one datagram.
LEMMA PayloadsRun ==
  ASSUME NEW first \in 0 .. Farewell, NEW last \in 0 .. Farewell, first <= last
  PROVE  /\ Run(Payloads(first, last), first, last)
         /\ {Payloads(first, last)[k].k : k \in DOMAIN Payloads(first, last)}
              = {k \in User : first < k /\ k <= last}
<1> DEFINE before == IF first < Incoming THEN Incoming ELSE first
           end    == IF last = Farewell THEN last - 1 ELSE last
           P      == [k \in 1 .. (end - before) |-> Event("payload", before + k)]
<1>1. Payloads(first, last) = P
  BY DEF Payloads
<1>2. /\ before \in Nat /\ end \in Int /\ first \in Nat /\ last \in Nat
      /\ first <= before /\ 2 <= before /\ end <= last
      /\ \A k \in Nat : k \in User /\ first < k /\ k <= last <=> before < k /\ k <= end
  BY Numbering DEF User
<1> HIDE DEF before, end
<1>3. \A k \in 1 .. (end - before) : P[k].k = before + k /\ P[k].kind = "payload" /\ P[k] \in EventSet
  BY <1>2 DEF Event, EventSet
<1>4. P \in Seq(EventSet) /\ DOMAIN P = 1 .. (end - before)
  <2>1. CASE end >= before
    <3>1. end - before \in Nat
      BY <1>2, <2>1
    <3> QED
      BY <1>3, <3>1
  <2>2. CASE end < before
    <3>1. 1 .. (end - before) = {}
      BY <1>2, <2>2
    <3>2. P = <<>>
      BY <3>1
    <3>3. <<>> \in Seq(EventSet) /\ DOMAIN <<>> = {}
      OBVIOUS
    <3> HIDE DEF P
    <3> QED
      BY <3>1, <3>2, <3>3
  <2> QED
    BY <1>2, <2>1, <2>2
<1> HIDE DEF P
<1>5. \A k \in DOMAIN P : P[k].kind = "payload" /\ first < P[k].k /\ P[k].k <= last
  BY <1>2, <1>3, <1>4
<1>6. \A j, k \in DOMAIN P : j < k => P[j].k < P[k].k
  BY <1>2, <1>3, <1>4
<1>7. {P[k].k : k \in DOMAIN P} \subseteq {k \in User : first < k /\ k <= last}
  <2> SUFFICES ASSUME NEW k \in DOMAIN P
               PROVE  P[k].k \in User /\ first < P[k].k /\ P[k].k <= last
    OBVIOUS
  <2>1. P[k].k \in Nat /\ before < P[k].k /\ P[k].k <= end
    BY <1>2, <1>3, <1>4
  <2> QED
    BY <1>2, <2>1
<1>8. {k \in User : first < k /\ k <= last} \subseteq {P[k].k : k \in DOMAIN P}
  <2> SUFFICES ASSUME NEW n \in User, first < n, n <= last
               PROVE  \E k \in DOMAIN P : P[k].k = n
    OBVIOUS
  <2>1. n \in Nat
    BY Numbering DEF User
  <2>2. before < n /\ n <= end
    BY <1>2, <2>1
  <2>3. n - before \in 1 .. (end - before) /\ before + (n - before) = n
    BY <1>2, <2>1, <2>2
  <2>4. P[n - before].k = n
    BY <1>3, <2>3
  <2> QED
    BY <1>4, <2>3, <2>4
<1> QED
  BY <1>1, <1>4, <1>5, <1>6, <1>7, <1>8 DEF Run

\* One event more, not a payload.
LEMMA OneMore ==
  ASSUME NEW events \in Seq(EventSet), NEW e \in EventSet, e.kind # "payload"
  PROVE  LET more == Append(events, e)
         IN /\ more \in Seq(EventSet) /\ Len(more) = Len(events) + 1
            /\ Told(more) = Told(events) /\ Numbers(more) = Numbers(events)
            /\ InOrder(events) => InOrder(more)
            /\ \A p \in Told(more) : more[p].k = events[p].k
            /\ \A kinds : Those(more, kinds) =
                 Those(events, kinds) \cup (IF e.kind \in kinds THEN {Len(events) + 1} ELSE {})
<1> DEFINE u == Append(events, e)
<1>1. /\ u \in Seq(EventSet) /\ Len(u) = Len(events) + 1
      /\ \A k \in 1 .. Len(events) : u[k] = events[k]
      /\ u[Len(events) + 1] = e
  <2> HIDE DEF EventSet
  <2> QED
    BY AppendProperties
<1>2. /\ DOMAIN events = 1 .. Len(events) /\ Len(events) \in Nat
      /\ DOMAIN u = DOMAIN events \cup {Len(events) + 1}
  BY <1>1
<1>3. Len(events) + 1 \notin DOMAIN events
  BY <1>2
<1> HIDE DEF u
<1>4. \A kinds : Those(u, kinds) =
        Those(events, kinds) \cup (IF e.kind \in kinds THEN {Len(events) + 1} ELSE {})
  BY <1>1, <1>2 DEF Those
<1>5. Told(u) = Told(events) /\ Told(events) \subseteq DOMAIN events
  <2>1. "payload" # e.kind /\ e.kind \notin {"payload"}
    OBVIOUS
  <2>2. Those(u, {"payload"}) = Those(events, {"payload"}) \cup {}
    BY <1>4, <2>1
  <2> QED
    BY <2>2 DEF Told, Those
<1>6. \A p \in Told(u) : u[p].k = events[p].k
  BY <1>1, <1>2, <1>5
<1>7. Numbers(u) = Numbers(events)
  BY <1>5, <1>6 DEF Numbers
<1>8. InOrder(events) => InOrder(u)
  BY <1>5, <1>6 DEF InOrder
<1> QED
  BY <1>1, <1>4, <1>5, <1>6, <1>7, <1>8 DEF u

LEMMA JoinAfter ==
  ASSUME NEW events \in Seq(EventSet), NEW most, Body(events, most), Joins(events) = {}
  PROVE  LET more == Append(events, Event("joined", 0))
         IN /\ more \in Seq(EventSet) /\ Body(more, most)
            /\ Joins(more) = {Len(events) + 1} /\ Len(more) = Len(events) + 1
            /\ Told(more) = Told(events) /\ Numbers(more) = Numbers(events)
<1> DEFINE e == Event("joined", 0)
           u == Append(events, e)
<1>1. e \in EventSet /\ e.kind = "joined" /\ e.kind # "payload"
  BY DEF Event, EventSet
<1> HIDE DEF e
<1>2. /\ u \in Seq(EventSet) /\ Len(u) = Len(events) + 1
      /\ Told(u) = Told(events) /\ Numbers(u) = Numbers(events)
      /\ InOrder(events) => InOrder(u)
      /\ \A p \in Told(u) : u[p].k = events[p].k
      /\ \A kinds : Those(u, kinds) =
           Those(events, kinds) \cup (IF e.kind \in kinds THEN {Len(events) + 1} ELSE {})
  BY <1>1, OneMore
<1> HIDE DEF u
<1>3. Joins(u) = {Len(events) + 1}
  BY <1>1, <1>2 DEF Joins
<1>4. Ends(u) = Ends(events)
  BY <1>1, <1>2 DEF Ends
<1>5. Body(u, most)
  BY <1>2, <1>3, <1>4 DEF Body
<1> QED
  BY <1>2, <1>3, <1>5 DEF u, e

\* The end, told after all else.
LEMMA EndAfter ==
  ASSUME NEW events \in Seq(EventSet), NEW most, Body(events, most), NEW kind \in {"left", "lost"}
  PROVE  LET more == Append(events, Event(kind, 0))
         IN /\ more \in Seq(EventSet) /\ more # <<>> /\ Ends(more) = {Len(more)}
            /\ Joins(more) = Joins(events) /\ InOrder(more)
            /\ Numbers(more) = Numbers(events)
            /\ kind = "lost" => Those(more, {"left"}) = {}
<1> DEFINE e == Event(kind, 0)
           u == Append(events, e)
<1>1. e \in EventSet /\ e.kind = kind /\ e.kind # "payload"
  BY DEF Event, EventSet
<1> HIDE DEF e
<1>2. /\ u \in Seq(EventSet) /\ Len(u) = Len(events) + 1
      /\ Told(u) = Told(events) /\ Numbers(u) = Numbers(events)
      /\ InOrder(events) => InOrder(u)
      /\ \A kinds : Those(u, kinds) =
           Those(events, kinds) \cup (IF e.kind \in kinds THEN {Len(events) + 1} ELSE {})
  BY <1>1, OneMore
<1> HIDE DEF u
<1>3. u # <<>>
  <2>1. Len(u) # 0
    BY <1>2, LenProperties
  <2> QED
    BY <2>1
<1>4. Joins(u) = Joins(events)
  BY <1>1, <1>2 DEF Joins
<1>5. Ends(u) = {Len(u)}
  BY <1>1, <1>2 DEF Ends, Body
<1>6. Those(events, {"left"}) = {}
  BY DEF Body, Ends, Those
<1>7. kind = "lost" => Those(u, {"left"}) = {}
  BY <1>1, <1>2, <1>6
<1>8. InOrder(u)
  BY <1>2 DEF Body
<1> QED
  BY <1>2, <1>3, <1>4, <1>5, <1>7, <1>8 DEF u, e

-----------------------------------------------------------------------------
(* A datagram for a session.                                                *)

LEMMA ReceivedIs ==
  ASSUME NEW s \in Session, NEW last \in s.taken .. Farewell, NEW handled \in s.taken .. last
  PROVE  LET after == Received(s, handled, last)
             now   == (s.taken + 1) .. handled
         IN /\ after.taken = last
            /\ after.state = IF Farewell \in now THEN "ByPeer"
                             ELSE IF Incoming \in now THEN "Connected" ELSE s.state
            /\ after.state # "ByPeer" => after \in Session
<1> DEFINE now   == (s.taken + 1) .. handled
           state == IF Farewell \in now THEN "ByPeer"
                    ELSE IF Incoming \in now THEN "Connected" ELSE s.state
           answered == s.answered \/ Request \in now
           after == Received(s, handled, last)
<1>1. after = [s EXCEPT !.state = state, !.answered = answered, !.taken = last, !.quiet = 0]
  BY DEF Received
<1>2. state # "ByPeer" => state \in {"Connecting", "Connected"}
  BY DEF Session
<1>3. answered \in BOOLEAN
  BY DEF Session
<1>4. s.taken \in Nat
  BY Numbering DEF Session
<1>5. last \in 0 .. Farewell /\ 0 \in 0 .. Timeout
  BY <1>4, Numbering, ListenerAssumption
<1> HIDE DEF now, state, answered
<1>6. after.taken = last /\ after.state = state
  BY <1>1 DEF Session
<1>7. state # "ByPeer" => after \in Session
  BY <1>1, <1>2, <1>3, <1>5 DEF Session
<1> QED
  BY <1>6, <1>7 DEF state, now

\* The payloads up to one number and those from there to another.
LEMMA UpTo ==
  ASSUME NEW first \in Nat, NEW last \in Nat, first <= last
  PROVE  {k \in User : k <= first} \cup {k \in User : first < k /\ k <= last} = {k \in User : k <= last}
  BY Numbering DEF User

LEMMA NonePayloads == \A n \in Nat : n < Incoming => {k \in User : k <= n} = {}
  BY Numbering DEF User

\* What the caller is told in consequence.
LEMMA Delivered ==
  ASSUME NEW s \in Session, NEW events \in Seq(EventSet), NEW dropped \in BOOLEAN,
         Going(s, events, dropped),
         NEW last \in s.taken .. Farewell, NEW handled \in s.taken .. last,
         NEW failed \in BOOLEAN, failed \/ handled = last
  PROVE  LET after == Received(s, handled, last)
             more  == events \o Events(s, after, IF failed THEN <<>> ELSE Payloads(s.taken, last))
         IN /\ more \in Seq(EventSet)
            /\ after.state # "ByPeer" => after \in Session /\ Going(after, more, dropped \/ failed)
            /\ after.state = "ByPeer" => Over(more, dropped \/ failed)
<1> DEFINE first == s.taken
           now   == (first + 1) .. handled
           after == Received(s, handled, last)
           run   == IF failed THEN <<>> ELSE Payloads(first, last)
           told1 == events \o run
           more  == events \o Events(s, after, run)
<1>1. first \in 0 .. Farewell /\ last \in 0 .. Farewell /\ first <= last
      /\ first \in Nat /\ last \in Nat /\ handled \in Nat /\ handled <= last
  BY Numbering DEF Session
<1>2. Run(run, first, last) /\ run \in Seq(EventSet)
  BY <1>1, NothingIsRun, PayloadsRun DEF Run
<1>3. ~ failed => {run[k].k : k \in DOMAIN run} = {k \in User : first < k /\ k <= last}
  BY <1>1, PayloadsRun
<1>4. Body(events, first)
  BY DEF Body, Going
<1>5. /\ after.taken = last
      /\ after.state = IF Farewell \in now THEN "ByPeer"
                       ELSE IF Incoming \in now THEN "Connected" ELSE s.state
      /\ after.state # "ByPeer" => after \in Session
  BY ReceivedIs
<1> HIDE DEF first, now, after, run
<1>6. /\ told1 \in Seq(EventSet) /\ Body(told1, last) /\ Joins(told1) = Joins(events)
      /\ Those(told1, {"left"}) = {}
      /\ Numbers(told1) = Numbers(events) \cup {run[k].k : k \in DOMAIN run}
      /\ \A p \in Told(told1) : p \in Told(events) \/ p > Len(events)
  BY <1>1, <1>2, <1>4, RunAfter
<1>7. ~ (dropped \/ failed) => {k \in User : k <= last} = Numbers(events) \cup {run[k].k : k \in DOMAIN run}
  BY <1>1, <1>3, UpTo DEF Going, first
<1>8. CASE after.state = "ByPeer"
  <2>1. Farewell \in now
    BY <1>5, <1>8 DEF Session
  <2>2. last = Farewell
    BY <1>1, <2>1, Numbering DEF now
  <2>3. more = Append(told1, Event("left", 0))
    <3> DEFINE e == Event("left", 0)
    <3>1. e \in EventSet
      BY DEF Event, EventSet
    <3>2. more = events \o Append(run, e)
      BY <1>8 DEF Events
    <3> HIDE DEF e, EventSet
    <3>3. Append(run, e) = run \o <<e>> /\ Append(told1, e) = told1 \o <<e>> /\ <<e>> \in Seq(EventSet)
      BY <1>2, <1>6, <3>1, AppendIsConcat
    <3>4. events \o (run \o <<e>>) = told1 \o <<e>>
      BY <1>2, <3>3, ConcatAssociative
    <3> QED
      BY <3>2, <3>3, <3>4 DEF e
  <2> HIDE DEF told1, more
  <2>4. /\ more \in Seq(EventSet) /\ more # <<>> /\ Ends(more) = {Len(more)}
        /\ Joins(more) = Joins(told1) /\ InOrder(more) /\ Numbers(more) = Numbers(told1)
    BY <1>6, <2>3, EndAfter
  <2>5. \A j, k \in Joins(more) : j = k
    BY <1>6, <2>4 DEF Body
  <2>6. ~ (dropped \/ failed) => Numbers(more) = {k \in User : k <= Farewell}
    BY <1>6, <1>7, <2>2, <2>4
  <2>7. Over(more, dropped \/ failed)
    BY <2>4, <2>5, <2>6, Numbering DEF Over
  <2> QED
    BY <1>8, <2>4, <2>7 DEF more, after, run, first
<1>9. CASE after.state = "Connected" /\ s.state # "Connected"
  <2> DEFINE j  == Event("joined", 0)
             at == Append(events, j)
  <2>1. Joins(events) = {}
    BY <1>9 DEF Going
  <2>2. /\ at \in Seq(EventSet) /\ Body(at, first)
        /\ Joins(at) = {Len(events) + 1} /\ Len(at) = Len(events) + 1
        /\ Told(at) = Told(events) /\ Numbers(at) = Numbers(events)
    BY <1>4, <2>1, JoinAfter
  <2>3. more = at \o run
    <3>1. j \in EventSet
      BY DEF Event, EventSet
    <3>2. more = events \o (<<j>> \o run)
      BY <1>9 DEF Events
    <3> HIDE DEF j, EventSet
    <3>3. at = events \o <<j>> /\ <<j>> \in Seq(EventSet)
      BY <3>1, AppendIsConcat
    <3>4. events \o (<<j>> \o run) = (events \o <<j>>) \o run
      BY <1>2, <3>3, ConcatAssociative
    <3> QED
      BY <3>2, <3>3, <3>4
  <2> HIDE DEF at, more
  <2>4. /\ more \in Seq(EventSet) /\ Body(more, last) /\ Joins(more) = Joins(at)
        /\ Numbers(more) = Numbers(at) \cup {run[k].k : k \in DOMAIN run}
        /\ \A p \in Told(more) : p \in Told(at) \/ p > Len(at)
    BY <1>1, <1>2, <2>2, <2>3, RunAfter
  <2>5. Incoming \in now
    BY <1>5, <1>9
  <2>6. last >= Incoming
    BY <1>1, <2>5, Numbering DEF now
  <2>7. ~ (dropped \/ failed) => Numbers(more) = {k \in User : k <= last}
    BY <1>7, <2>2, <2>4
  <2>8. ASSUME ~ dropped PROVE Told(events) = {}
    <3>1. first < Incoming
      BY <1>1, <1>9, <2>8, Numbering DEF Going, first
    <3>2. Numbers(events) = {k \in User : k <= first}
      BY <2>8 DEF Going, first
    <3>3. Numbers(events) = {}
      BY <1>1, <3>1, <3>2, NonePayloads
    <3> QED
      BY <3>3 DEF Numbers
  <2>9. ~ dropped => \A p \in Told(more) : \E i \in Joins(more) : i < p
    <3> SUFFICES ASSUME ~ dropped, NEW p \in Told(more) PROVE Len(events) + 1 < p
      BY <2>2, <2>4
    <3> QED
      BY <2>2, <2>4, <2>8
  <2>10. Going(after, more, dropped \/ failed)
    BY <1>5, <1>9, <2>2, <2>4, <2>6, <2>7, <2>9 DEF Going, Body
  <2> QED
    BY <1>5, <1>9, <2>4, <2>10 DEF more, after, run, first
<1>10. CASE after.state # "ByPeer" /\ ~ (after.state = "Connected" /\ s.state # "Connected")
  <2>1. more = told1
    BY <1>10 DEF Events
  <2>2. after.state = s.state
    BY <1>5, <1>10
  <2> HIDE DEF told1, more
  <2>3. after.state = "Connected" <=> Joins(more) # {}
    BY <1>6, <2>1, <2>2 DEF Going
  <2>4. ~ (dropped \/ failed) => Numbers(more) = {k \in User : k <= last}
    BY <1>6, <1>7, <2>1
  <2>5. ASSUME ~ (dropped \/ failed) PROVE after.state = "Connected" <=> last >= Incoming
    <3>1. CASE s.state = "Connected"
      BY <1>1, <2>2, <2>5, <3>1, Numbering DEF Going, first
    <3>2. CASE s.state # "Connected"
      <4>1. first < Incoming
        BY <1>1, <2>5, <3>2, Numbering DEF Going, first
      <4>2. Incoming \notin now
        BY <1>5, <1>10, <2>2, <3>2
      <4>3. handled = last
        BY <2>5
      <4> QED
        BY <1>1, <2>2, <3>2, <4>1, <4>2, <4>3, Numbering DEF now
    <3> QED
      BY <3>1, <3>2
  <2>6. ASSUME ~ (dropped \/ failed), NEW p \in Told(more) PROVE \E j \in Joins(more) : j < p
    <3>1. CASE last < Incoming
      <4>1. Numbers(more) = {}
        BY <1>1, <2>4, <2>6, <3>1, NonePayloads
      <4> QED
        BY <2>6, <4>1 DEF Numbers
    <3>2. CASE last >= Incoming
      <4>1. Joins(more) # {}
        BY <2>3, <2>5, <2>6, <3>2
      <4>2. PICK j \in Joins(events) : TRUE
        BY <1>6, <2>1, <4>1
      <4>3. j \in 1 .. Len(events) /\ Len(events) \in Nat
        BY <4>2 DEF Joins, Those
      <4>4. CASE p \in Told(events)
        BY <1>6, <2>1, <2>6, <4>4 DEF Going
      <4>5. CASE p \notin Told(events)
        <5>1. p > Len(events) /\ p \in Int
          <6>1. p \in DOMAIN more
            BY DEF Told, Those
          <6>2. p \in Int
            BY <1>6, <2>1, <6>1, LenProperties
          <6> QED
            BY <1>6, <2>1, <2>6, <4>5, <6>2
        <5>2. j < p
          BY <4>3, <5>1
        <5> QED
          BY <1>6, <2>1, <4>2, <5>2
      <4> QED
        BY <4>4, <4>5
    <3> QED
      BY <1>1, <3>1, <3>2, Numbering
  <2>7. Going(after, more, dropped \/ failed)
    BY <1>5, <1>6, <2>1, <2>3, <2>4, <2>5, <2>6 DEF Going, Body
  <2> QED
    BY <1>5, <1>6, <1>10, <2>1, <2>7 DEF more, after, run, first
<1> QED
  BY <1>8, <1>9, <1>10

-----------------------------------------------------------------------------
(* The inductive invariant, by the variables it is about.                   *)

OnlineTypes ==
  /\ DOMAIN sessions \subseteq Clients /\ IsFiniteSet(DOMAIN sessions)
  /\ Cardinality(DOMAIN sessions) <= MaxSessions
  /\ \A c \in DOMAIN sessions : sessions[c] \in Session
  /\ told \in [Clients -> Seq(EventSet)] /\ broken \subseteq Clients

\* Every session's events tell what became of it.
Telling ==
  \A c \in Clients :
    /\ c \in DOMAIN sessions => Going(sessions[c], told[c], c \in broken)
    /\ c \notin DOMAIN sessions => Over(told[c], c \in broken)

OnlineInv == OnlineTypes /\ Telling

\* A source that had a pong just now is still tracked, with the time of that pong.
PingInv ==
  /\ DOMAIN lastPing \subseteq Sources /\ \A i \in DOMAIN lastPing : lastPing[i] \in 0 .. PingInterval
  /\ sincePong \in [Sources -> 0 .. PingInterval]
  /\ crowded = {}
  /\ \A i \in Sources :
       sincePong[i] < PingInterval => i \in DOMAIN lastPing /\ lastPing[i] = sincePong[i]

OfflineInv ==
  /\ client \in [Clients -> [phase : {"left", "asking1", "asking2", "open"},
                             sent : 0 .. Farewell, starts : 0 .. MaxStarts]]
  /\ requests \subseteq Clients \X (1 .. 2) /\ replies \subseteq Clients \X (1 .. 2)

IInv == OnlineInv /\ PingInv /\ OfflineInv

LEMMA InitHolds == Init => IInv
<1> SUFFICES ASSUME Init PROVE IInv
  OBVIOUS
<1>1. DOMAIN EmptyMap = {}
  BY DEF EmptyMap
<1>2. OnlineTypes
  <2>1. IsFiniteSet({}) /\ Cardinality({}) = 0
    BY FS_EmptySet
  <2>2. <<>> \in Seq(EventSet)
    OBVIOUS
  <2> QED
    BY <1>1, <2>1, <2>2, ListenerAssumption DEF Init, OnlineTypes
<1>3. Telling
  BY <1>1, NothingIsOver DEF Init, Telling
<1>4. PingInv
  BY <1>1, ListenerAssumption DEF Init, PingInv
<1>5. OfflineInv
  BY Numbering, ListenerAssumption DEF Init, OfflineInv
<1> QED
  BY <1>2, <1>3, <1>4, <1>5 DEF IInv, OnlineInv

-----------------------------------------------------------------------------
(* Sessions.                                                                *)

LEMMA RequestKeeps ==
  ASSUME OnlineInv, NEW c \in Clients, c \notin DOMAIN sessions, NEW kind \in 1 .. 2,
         OnRequest(c, kind)
  PROVE  OnlineInv'
<1>1. CASE UNCHANGED onlineVars
  BY <1>1 DEF OnlineInv, OnlineTypes, Telling, onlineVars
<1>2. CASE ~ UNCHANGED onlineVars
  <2>1. HasSlot
    BY <1>2 DEF OnRequest
  <2>2. PICK whole \in {TRUE, client[c].sent = 0} :
          /\ sessions' = Put(sessions, c, NewSession(whole))
          /\ told' = [told EXCEPT ![c] = <<>>]
          /\ broken' = broken \ {c}
    BY <1>2 DEF OnRequest
  <2>3. whole \in BOOLEAN
    OBVIOUS
  <2>4. NewSession(whole) \in Session
    BY <2>3, Numbering, ListenerAssumption DEF NewSession, Session
  <2>5. /\ DOMAIN sessions' = DOMAIN sessions \cup {c}
        /\ sessions'[c] = NewSession(whole)
        /\ \A d \in DOMAIN sessions : d # c => sessions'[d] = sessions[d]
    BY <2>2 DEF Put
  <2>6. IsFiniteSet(DOMAIN sessions') /\ Cardinality(DOMAIN sessions') <= MaxSessions
    <3>1. /\ IsFiniteSet(DOMAIN sessions)
          /\ IsFiniteSet(DOMAIN sessions')
          /\ Cardinality(DOMAIN sessions') = Cardinality(DOMAIN sessions) + 1
      BY <2>5, FS_AddElement DEF OnlineInv, OnlineTypes
    <3>2. Cardinality(DOMAIN sessions) \in Nat
      BY <3>1, FS_CardinalityType
    <3> QED
      BY <2>1, <3>1, <3>2, ListenerAssumption DEF HasSlot
  <2>7. told' \in [Clients -> Seq(EventSet)]
    BY <2>2 DEF OnlineInv, OnlineTypes
  <2>8. OnlineTypes'
    BY <2>2, <2>4, <2>5, <2>6, <2>7 DEF OnlineInv, OnlineTypes
  <2>9. ASSUME NEW d \in Clients
        PROVE  /\ d \in DOMAIN sessions' => Going(sessions'[d], told'[d], d \in broken')
               /\ d \notin DOMAIN sessions' => Over(told'[d], d \in broken')
    <3>1. CASE d = c
      <4>1. told'[d] = <<>> /\ (d \in broken') = FALSE /\ sessions'[d] = NewSession(whole)
        BY <2>2, <2>5, <3>1 DEF OnlineInv, OnlineTypes
      <4> QED
        BY <2>3, <2>5, <3>1, <4>1, NewIsGoing
    <3>2. CASE d # c
      <4>1. told'[d] = told[d] /\ (d \in broken') = (d \in broken)
        BY <2>2, <3>2 DEF OnlineInv, OnlineTypes
      <4> QED
        BY <2>5, <3>2, <4>1 DEF OnlineInv, Telling
    <3> QED
      BY <3>1, <3>2
  <2> QED
    BY <2>8, <2>9 DEF OnlineInv, Telling
<1> QED
  BY <1>1, <1>2

LEMMA DeliverKeeps ==
  ASSUME OnlineInv, NEW c \in DOMAIN sessions,
         NEW last \in sessions[c].taken .. Farewell, NEW handled \in sessions[c].taken .. last,
         NEW failed \in BOOLEAN, failed \/ handled = last,
         Deliver(c, handled, last, failed)
  PROVE  OnlineInv'
<1> DEFINE before == sessions[c]
           after  == Received(before, handled, last)
           more   == told[c] \o Events(before, after, IF failed THEN <<>> ELSE Payloads(before.taken, last))
<1>1. c \in Clients /\ before \in Session /\ told[c] \in Seq(EventSet)
      /\ Going(before, told[c], c \in broken)
  BY DEF OnlineInv, OnlineTypes, Telling
<1>2. /\ sessions' = IF after.state = "ByPeer" THEN Without(sessions, {c}) ELSE Put(sessions, c, after)
      /\ told' = [told EXCEPT ![c] = more]
      /\ broken' = IF failed THEN broken \cup {c} ELSE broken
  BY DEF Deliver
<1>3. /\ more \in Seq(EventSet)
      /\ after.state # "ByPeer" => after \in Session /\ Going(after, more, c \in broken \/ failed)
      /\ after.state = "ByPeer" => Over(more, c \in broken \/ failed)
  <2>1. (c \in broken) \in BOOLEAN
    OBVIOUS
  <2> QED
    BY <1>1, <2>1, Delivered
<1> HIDE DEF before, after, more
<1>4. /\ told'[c] = more /\ \A d \in Clients : d # c => told'[d] = told[d]
      /\ (c \in broken') = (c \in broken \/ failed)
      /\ \A d \in Clients : d # c => (d \in broken') = (d \in broken)
      /\ told' \in [Clients -> Seq(EventSet)] /\ broken' \subseteq Clients
  BY <1>1, <1>2, <1>3 DEF OnlineInv, OnlineTypes
<1>5. /\ DOMAIN sessions' = IF after.state = "ByPeer" THEN DOMAIN sessions \ {c} ELSE DOMAIN sessions
      /\ after.state # "ByPeer" => sessions'[c] = after
      /\ \A d \in DOMAIN sessions : d # c => sessions'[d] = sessions[d]
  <2>1. CASE after.state = "ByPeer"
    BY <1>2, <2>1 DEF Without
  <2>2. CASE after.state # "ByPeer"
    BY <1>2, <2>2 DEF Put
  <2> QED
    BY <2>1, <2>2
<1>6. OnlineTypes'
  <2>1. IsFiniteSet(DOMAIN sessions') /\ Cardinality(DOMAIN sessions') <= Cardinality(DOMAIN sessions)
    <3>1. DOMAIN sessions' \in SUBSET DOMAIN sessions
      BY <1>5
    <3> QED
      BY <3>1, FS_Subset DEF OnlineInv, OnlineTypes
  <2>2. Cardinality(DOMAIN sessions') <= MaxSessions
    <3>1. Cardinality(DOMAIN sessions') \in Nat /\ Cardinality(DOMAIN sessions) \in Nat
      BY <2>1, FS_CardinalityType DEF OnlineInv, OnlineTypes
    <3> QED
      BY <2>1, <3>1, ListenerAssumption DEF OnlineInv, OnlineTypes
  <2>3. \A d \in DOMAIN sessions' : d \in DOMAIN sessions /\ sessions'[d] \in Session
    BY <1>3, <1>5 DEF OnlineInv, OnlineTypes
  <2> QED
    BY <1>4, <2>1, <2>2, <2>3 DEF OnlineInv, OnlineTypes
<1>7. ASSUME NEW d \in Clients
      PROVE  /\ d \in DOMAIN sessions' => Going(sessions'[d], told'[d], d \in broken')
             /\ d \notin DOMAIN sessions' => Over(told'[d], d \in broken')
  <2>1. CASE d = c
    BY <1>3, <1>4, <1>5, <2>1
  <2>2. CASE d # c
    BY <1>4, <1>5, <2>2 DEF OnlineInv, Telling
  <2> QED
    BY <2>1, <2>2
<1> QED
  BY <1>6, <1>7 DEF OnlineInv, Telling

LEMMA EndTickKeeps ==
  ASSUME OnlineInv, NEW silent \in SUBSET DOMAIN sessions, NEW unreachable \in SUBSET DOMAIN sessions,
         EndTick(silent, unreachable)
  PROVE  OnlineInv'
<1> DEFINE gone == silent \cup unreachable
           Quiet(c) == IF sessions[c].quiet < Timeout THEN sessions[c].quiet + 1 ELSE sessions[c].quiet
           Ticked(c) == [sessions[c] EXCEPT !.quiet = Quiet(c)]
<1>1. /\ sessions' = [c \in DOMAIN sessions \ gone |-> Ticked(c)]
      /\ told' = [c \in Clients |-> IF c \in gone THEN Append(told[c], Event("lost", 0)) ELSE told[c]]
      /\ broken' = broken
  BY DEF EndTick
<1>2. gone \subseteq DOMAIN sessions
  OBVIOUS
<1>3. \A c \in DOMAIN sessions : sessions[c] \in Session
  BY DEF OnlineInv, OnlineTypes
<1>4. \A c \in DOMAIN sessions : Ticked(c) \in Session
  <2> SUFFICES ASSUME NEW c \in DOMAIN sessions PROVE Ticked(c) \in Session
    OBVIOUS
  <2>1. sessions[c].quiet \in 0 .. Timeout
    BY <1>3 DEF Session
  <2>2. Quiet(c) \in 0 .. Timeout
    BY <2>1, ListenerAssumption
  <2> HIDE DEF Quiet
  <2> QED
    BY <1>3, <2>2 DEF Session
<1>5. \A c \in gone : LET more == Append(told[c], Event("lost", 0))
                       IN more \in Seq(EventSet) /\ Over(more, c \in broken)
  <2> SUFFICES ASSUME NEW c \in gone
               PROVE  LET more == Append(told[c], Event("lost", 0))
                      IN more \in Seq(EventSet) /\ Over(more, c \in broken)
    OBVIOUS
  <2> DEFINE more == Append(told[c], Event("lost", 0))
             most == sessions[c].taken
  <2>1. told[c] \in Seq(EventSet) /\ Going(sessions[c], told[c], c \in broken) /\ most \in 0 .. Farewell
    BY <1>2, <1>3 DEF OnlineInv, OnlineTypes, Telling, Session
  <2>2. Body(told[c], most)
    BY <2>1 DEF Body, Going
  <2> HIDE DEF more
  <2>3. /\ more \in Seq(EventSet) /\ more # <<>> /\ Ends(more) = {Len(more)}
        /\ Joins(more) = Joins(told[c]) /\ InOrder(more)
        /\ Numbers(more) = Numbers(told[c])
        /\ Those(more, {"left"}) = {}
    BY <2>1, <2>2, EndAfter DEF more
  <2>4. c \notin broken => Numbers(more) = {k \in User : k <= most}
    BY <2>1, <2>3 DEF Going
  <2>5. \A j, k \in Joins(more) : j = k
    BY <2>1, <2>3 DEF Going
  <2> HIDE DEF most
  <2>6. Over(more, c \in broken)
    BY <2>1, <2>3, <2>4, <2>5 DEF Over
  <2> QED
    BY <2>3, <2>6 DEF more
<1> HIDE DEF gone
<1>6. /\ DOMAIN sessions' = DOMAIN sessions \ gone
      /\ \A c \in DOMAIN sessions \ gone : sessions'[c] = Ticked(c)
  BY <1>1
<1>7. OnlineTypes'
  <2>1. IsFiniteSet(DOMAIN sessions') /\ Cardinality(DOMAIN sessions') <= Cardinality(DOMAIN sessions)
    <3>1. DOMAIN sessions' \in SUBSET DOMAIN sessions
      BY <1>6
    <3> QED
      BY <3>1, FS_Subset DEF OnlineInv, OnlineTypes
  <2>2. Cardinality(DOMAIN sessions') <= MaxSessions
    <3>1. Cardinality(DOMAIN sessions') \in Nat /\ Cardinality(DOMAIN sessions) \in Nat
      BY <2>1, FS_CardinalityType DEF OnlineInv, OnlineTypes
    <3> QED
      BY <2>1, <3>1, ListenerAssumption DEF OnlineInv, OnlineTypes
  <2>3. told' \in [Clients -> Seq(EventSet)]
    BY <1>1, <1>5 DEF OnlineInv, OnlineTypes
  <2> HIDE DEF Ticked
  <2>4. \A c \in DOMAIN sessions' : sessions'[c] \in Session
    BY <1>4, <1>6
  <2> QED
    BY <1>1, <1>6, <2>1, <2>2, <2>3, <2>4 DEF OnlineInv, OnlineTypes
<1>8. ASSUME NEW c \in Clients
      PROVE  /\ c \in DOMAIN sessions' => Going(sessions'[c], told'[c], c \in broken')
             /\ c \notin DOMAIN sessions' => Over(told'[c], c \in broken')
  <2>1. CASE c \in gone
    BY <1>1, <1>5, <1>6, <2>1
  <2>2. CASE c \in DOMAIN sessions \ gone
    <3>1. Going(sessions[c], told[c], c \in broken)
      BY <2>2 DEF OnlineInv, Telling
    <3>2. Going(Ticked(c), told[c], c \in broken)
      BY <1>3, <2>2, <3>1, QuietIsGoing
    <3> QED
      BY <1>1, <1>6, <2>2, <3>2
  <2>3. CASE c \notin DOMAIN sessions
    BY <1>1, <1>2, <1>6, <2>3 DEF OnlineInv, Telling, gone
  <2> QED
    BY <2>1, <2>2, <2>3
<1> QED
  BY <1>7, <1>8 DEF OnlineInv, Telling

LEMMA Between ==
  ASSUME NEW a \in 0 .. Farewell, NEW b \in 0 .. Farewell
  PROVE  /\ (a + 1) .. b \subseteq a .. b /\ (a + 0) .. b \subseteq a .. b
         /\ \A n \in a .. b : n \in a .. Farewell /\ n \in a .. n
  BY Numbering

LEMMA ReceiveKeeps ==
  ASSUME OnlineInv, OfflineInv, NEW c \in Clients, Receive(c)
  PROVE  OnlineInv'
<1> DEFINE s    == sessions[c]
           last == IF s.whole THEN client[c].sent ELSE s.taken
<1>1. c \in DOMAIN sessions /\ s \in Session
  BY DEF Receive, OnlineInv, OnlineTypes
<1>2. s.taken \in 0 .. Farewell /\ last \in 0 .. Farewell
  BY <1>1 DEF Session, OfflineInv
<1> HIDE DEF last
<1>3. CASE \E upTo \in (s.taken + IF client[c].phase = "open" THEN 0 ELSE 1) .. last :
             Deliver(c, upTo, upTo, FALSE)
  <2>1. PICK upTo \in s.taken .. last : Deliver(c, upTo, upTo, FALSE)
    <3>1. CASE client[c].phase = "open"
      BY <1>2, <1>3, <3>1, Between
    <3>2. CASE client[c].phase # "open"
      BY <1>2, <1>3, <3>2, Between
    <3> QED
      BY <3>1, <3>2
  <2>2. upTo \in s.taken .. Farewell /\ upTo \in s.taken .. upTo
    BY <1>2, Between
  <2> QED
    BY <1>1, <2>1, <2>2, DeliverKeeps
<1>4. CASE \E upTo \in (s.taken + 1) .. last : \E handled \in s.taken .. upTo :
             Deliver(c, handled, upTo, TRUE)
  <2>1. PICK upTo \in (s.taken + 1) .. last :
          \E handled \in s.taken .. upTo : Deliver(c, handled, upTo, TRUE)
    BY <1>4
  <2>2. PICK handled \in s.taken .. upTo : Deliver(c, handled, upTo, TRUE)
    BY <2>1
  <2>3. upTo \in s.taken .. Farewell
    BY <1>2, Between
  <2> QED
    BY <1>1, <2>2, <2>3, DeliverKeeps
<1> QED
  BY <1>3, <1>4 DEF Receive, last

LEMMA ReceiveRequestKeeps ==
  ASSUME OnlineInv, NEW c \in Clients, NEW kind \in 1 .. 2, ReceiveRequest(c, kind)
  PROVE  OnlineInv'
<1>1. CASE c \in DOMAIN sessions
  <2> DEFINE taken == sessions[c].taken
  <2>1. Deliver(c, taken, taken, FALSE)
    BY <1>1 DEF ReceiveRequest
  <2>2. taken \in 0 .. Farewell
    BY <1>1 DEF OnlineInv, OnlineTypes, Session
  <2>3. taken \in taken .. Farewell /\ taken \in taken .. taken
    BY <2>2
  <2> QED
    BY <1>1, <2>1, <2>3, DeliverKeeps
<1>2. CASE c \notin DOMAIN sessions
  BY <1>2, RequestKeeps DEF ReceiveRequest
<1> QED
  BY <1>1, <1>2

LEMMA OnlineStays == ASSUME OnlineInv, UNCHANGED onlineVars PROVE OnlineInv'
  BY DEF OnlineInv, OnlineTypes, Telling, onlineVars

-----------------------------------------------------------------------------
(* Pings.                                                                   *)

LEMMA TrackedRecent ==
  ASSUME PingInv
  PROVE  /\ DOMAIN Tracked \subseteq DOMAIN lastPing
         /\ \A i \in DOMAIN Tracked : Tracked[i] = lastPing[i]
         /\ \A i \in DOMAIN lastPing : lastPing[i] < PingInterval => i \in DOMAIN Tracked
<1>1. \A i \in DOMAIN lastPing : lastPing[i] \in 0 .. PingInterval
  BY DEF PingInv
<1>2. CASE Cardinality(DOMAIN lastPing) >= MaxTracked
  <2> DEFINE old == {i \in DOMAIN lastPing : lastPing[i] >= PingInterval}
  <2>1. Tracked = [i \in DOMAIN lastPing \ old |-> lastPing[i]]
    BY <1>2 DEF Tracked, Without
  <2>2. \A i \in DOMAIN lastPing : lastPing[i] < PingInterval => i \notin old
    BY <1>1, ListenerAssumption
  <2> QED
    BY <2>1, <2>2
<1>3. CASE ~ Cardinality(DOMAIN lastPing) >= MaxTracked
  BY <1>3 DEF Tracked
<1> QED
  BY <1>2, <1>3

LEMMA PingKeeps ==
  ASSUME PingInv, NEW i \in Sources, Ping(i)
  PROVE  PingInv'
<1>1. /\ DOMAIN Tracked \subseteq DOMAIN lastPing
      /\ \A j \in DOMAIN Tracked : Tracked[j] = lastPing[j]
      /\ \A j \in DOMAIN lastPing : lastPing[j] < PingInterval => j \in DOMAIN Tracked
  BY TrackedRecent
<1>2. \A j \in DOMAIN lastPing : lastPing[j] \in 0 .. PingInterval
  BY DEF PingInv
<1>3. PingInterval \in Nat /\ 0 \in 0 .. PingInterval
  BY ListenerAssumption
<1>4. CASE lastPing' = Tracked /\ UNCHANGED <<sincePong, crowded>>
  BY <1>1, <1>2, <1>3, <1>4 DEF PingInv
<1>5. CASE /\ i \in DOMAIN Tracked => Tracked[i] >= PingInterval
           /\ lastPing' = Put(Tracked, i, 0)
           /\ \/ UNCHANGED <<sincePong, crowded>>
              \/ /\ sincePong' = [sincePong EXCEPT ![i] = 0]
                 /\ crowded' = IF sincePong[i] < PingInterval THEN crowded \cup {i} ELSE crowded
  <2>1. ~ sincePong[i] < PingInterval
    <3> SUFFICES ASSUME sincePong[i] < PingInterval PROVE FALSE
      OBVIOUS
    <3>1. i \in DOMAIN lastPing /\ lastPing[i] < PingInterval
      BY DEF PingInv
    <3>2. i \in DOMAIN Tracked /\ Tracked[i] = lastPing[i]
      BY <1>1, <3>1
    <3>3. lastPing[i] \in Int /\ lastPing[i] >= PingInterval
      BY <1>2, <1>5, <3>1, <3>2
    <3> QED
      BY <1>3, <3>1, <3>3
  <2>2. crowded' = {}
    BY <1>5, <2>1 DEF PingInv
  <2>3. /\ DOMAIN lastPing' = DOMAIN Tracked \cup {i}
        /\ lastPing'[i] = 0
        /\ \A j \in DOMAIN Tracked : j # i => lastPing'[j] = lastPing[j]
    BY <1>1, <1>5 DEF Put
  <2>4. DOMAIN lastPing' \subseteq Sources /\ \A j \in DOMAIN lastPing' : lastPing'[j] \in 0 .. PingInterval
    BY <1>1, <1>2, <1>3, <2>3 DEF PingInv
  <2>5. /\ sincePong' \in [Sources -> 0 .. PingInterval]
        /\ sincePong'[i] = 0 \/ ~ sincePong'[i] < PingInterval
        /\ \A j \in Sources : j # i => sincePong'[j] = sincePong[j]
    <3>1. CASE UNCHANGED <<sincePong, crowded>>
      BY <2>1, <3>1 DEF PingInv
    <3>2. CASE sincePong' = [sincePong EXCEPT ![i] = 0]
      BY <1>3, <3>2 DEF PingInv
    <3> QED
      BY <1>5, <3>1, <3>2
  <2>6. ASSUME NEW j \in Sources, sincePong'[j] < PingInterval
        PROVE  j \in DOMAIN lastPing' /\ lastPing'[j] = sincePong'[j]
    <3>1. CASE j = i
      BY <2>3, <2>5, <2>6, <3>1
    <3>2. CASE j # i
      <4>1. j \in DOMAIN lastPing /\ lastPing[j] = sincePong[j] /\ lastPing[j] < PingInterval
        BY <2>5, <2>6, <3>2 DEF PingInv
      <4> QED
        BY <1>1, <2>3, <2>5, <3>2, <4>1
    <3> QED
      BY <3>1, <3>2
  <2> QED
    BY <2>2, <2>4, <2>5, <2>6 DEF PingInv
<1> QED
  BY <1>4, <1>5 DEF Ping

LEMMA PingClockKeeps ==
  ASSUME PingInv, PingClock
  PROVE  PingInv'
<1>1. PingInterval \in Nat
  BY ListenerAssumption
<1>2. \A age \in 0 .. PingInterval : Older(age) \in 0 .. PingInterval
  BY <1>1 DEF Older
<1>3. \A age \in 0 .. PingInterval : Older(age) < PingInterval => age < PingInterval
  BY <1>1 DEF Older
<1>4. /\ DOMAIN lastPing \subseteq Sources /\ \A i \in DOMAIN lastPing : lastPing[i] \in 0 .. PingInterval
      /\ \A i \in Sources : sincePong[i] \in 0 .. PingInterval
  BY DEF PingInv
<1>5. /\ lastPing' = [i \in DOMAIN lastPing |-> Older(lastPing[i])]
      /\ sincePong' = [i \in Sources |-> Older(sincePong[i])] /\ crowded' = crowded
  BY DEF PingClock
<1>6. sincePong' \in [Sources -> 0 .. PingInterval]
  BY <1>2, <1>4, <1>5
<1>7. DOMAIN lastPing' = DOMAIN lastPing /\ \A i \in DOMAIN lastPing' : lastPing'[i] \in 0 .. PingInterval
  BY <1>2, <1>4, <1>5
<1>8. ASSUME NEW i \in Sources, sincePong'[i] < PingInterval
      PROVE  i \in DOMAIN lastPing' /\ lastPing'[i] = sincePong'[i]
  <2>1. sincePong[i] < PingInterval
    BY <1>3, <1>4, <1>5, <1>8
  <2>2. i \in DOMAIN lastPing /\ lastPing[i] = sincePong[i]
    BY <2>1 DEF PingInv
  <2> QED
    BY <1>5, <2>2
<1> QED
  BY <1>4, <1>5, <1>6, <1>7, <1>8 DEF PingInv

LEMMA PingStays == ASSUME PingInv, UNCHANGED pingVars PROVE PingInv'
  BY DEF PingInv, pingVars

-----------------------------------------------------------------------------
(* Requests, replies and clients.                                           *)

LEMMA OfflineKeeps == ASSUME OfflineInv, Next PROVE OfflineInv'
<1> USE DEF OfflineInv
<1>1. \A c \in Clients, kind \in 1 .. 2 : <<c, kind>> \in Clients \X (1 .. 2)
  OBVIOUS
<1>2. ASSUME NEW c \in Clients, Start(c) PROVE OfflineInv'
  <2>1. client[c].starts + 1 \in 0 .. MaxStarts
    BY <1>2, ListenerAssumption DEF Start
  <2>2. 0 \in 0 .. Farewell
    BY Numbering
  <2> QED
    BY <1>2, <2>1, <2>2 DEF Start
<1>3. ASSUME NEW c \in Clients, Ask(c) PROVE OfflineInv'
  BY <1>1, <1>3 DEF Ask
<1>4. ASSUME NEW c \in Clients, TakeReply(c) PROVE OfflineInv'
  <2>1. PICK kind \in 1 .. 2 :
          SetPhase(c, <<"asking2", "open">>[kind]) /\ replies' = replies \ {<<c, kind>>}
    BY <1>4 DEF TakeReply
  <2>2. <<"asking2", "open">>[kind] \in {"asking2", "open"}
    <3>1. CASE kind = 1
      BY <3>1
    <3>2. CASE kind = 2
      BY <3>2
    <3> QED
      BY <3>1, <3>2
  <2> QED
    BY <1>4, <2>1, <2>2 DEF TakeReply, SetPhase
<1>5. ASSUME NEW c \in Clients, ClientSends(c) PROVE OfflineInv'
  <2> DEFINE phase == IF client[c].sent + 1 = Farewell THEN "left" ELSE client[c].phase
  <2>1. client' = [client EXCEPT ![c] = [client[c] EXCEPT !.sent = client[c].sent + 1, !.phase = phase]]
    BY <1>5 DEF ClientSends
  <2>2. client[c].sent + 1 \in 0 .. Farewell
    BY <1>5, Numbering DEF ClientSends
  <2>3. phase \in {"left", "asking1", "asking2", "open"}
    OBVIOUS
  <2>4. requests' = requests /\ replies' = replies
    BY <1>5 DEF ClientSends
  <2> HIDE DEF phase
  <2>5. [client[c] EXCEPT !.sent = client[c].sent + 1, !.phase = phase]
          \in [phase : {"left", "asking1", "asking2", "open"}, sent : 0 .. Farewell, starts : 0 .. MaxStarts]
    BY <2>2, <2>3
  <2> QED
    BY <2>1, <2>4, <2>5
<1>6. ASSUME NEW c \in Clients, Vanish(c) PROVE OfflineInv'
  BY <1>6 DEF Vanish, SetPhase
<1>7. ASSUME NEW c \in Clients, Receive(c) PROVE OfflineInv'
  BY <1>7 DEF Receive
<1>8. ASSUME NEW c \in Clients, NEW kind \in 1 .. 2, ReceiveRequest(c, kind) PROVE OfflineInv'
  <2>1. requests' \subseteq requests /\ client' = client
    BY <1>8 DEF ReceiveRequest
  <2>2. replies' \subseteq replies \cup {<<c, 1>>, <<c, 2>>}
    BY <1>8 DEF ReceiveRequest, OnRequest, Reply
  <2> QED
    BY <1>1, <2>1, <2>2
<1>9. ASSUME NEW i \in Sources, Ping(i) PROVE OfflineInv'
  BY <1>9 DEF Ping
<1>10. CASE PingClock
  BY <1>10 DEF PingClock
<1>11. CASE Tick
  BY <1>11 DEF Tick, EndTick
<1> QED
  BY <1>2, <1>3, <1>4, <1>5, <1>6, <1>7, <1>8, <1>9, <1>10, <1>11 DEF Next

-----------------------------------------------------------------------------
(* All together.                                                            *)

LEMMA OnlineKeeps == ASSUME OnlineInv, OfflineInv, Next PROVE OnlineInv'
<1>1. ASSUME NEW c \in Clients, Start(c) \/ Ask(c) \/ TakeReply(c) \/ ClientSends(c) \/ Vanish(c)
      PROVE  OnlineInv'
  BY <1>1, OnlineStays DEF Start, Ask, TakeReply, ClientSends, Vanish
<1>2. ASSUME NEW c \in Clients, Receive(c) PROVE OnlineInv'
  BY <1>2, ReceiveKeeps
<1>3. ASSUME NEW c \in Clients, NEW kind \in 1 .. 2, ReceiveRequest(c, kind) PROVE OnlineInv'
  BY <1>3, ReceiveRequestKeeps
<1>4. ASSUME NEW i \in Sources, Ping(i) PROVE OnlineInv'
  BY <1>4, OnlineStays DEF Ping
<1>5. CASE PingClock
  BY <1>5, OnlineStays DEF PingClock
<1>6. CASE Tick
  <2>1. PICK unreachable \in SUBSET (DOMAIN sessions \ Silent) : EndTick(Silent, unreachable)
    BY <1>6 DEF Tick
  <2>2. Silent \in SUBSET DOMAIN sessions /\ unreachable \in SUBSET DOMAIN sessions
    BY DEF Silent
  <2> QED
    BY <2>1, <2>2, EndTickKeeps
<1> QED
  BY <1>1, <1>2, <1>3, <1>4, <1>5, <1>6 DEF Next

LEMMA PingInvKeeps == ASSUME PingInv, Next PROVE PingInv'
<1>1. ASSUME NEW c \in Clients, Start(c) \/ Ask(c) \/ TakeReply(c) \/ ClientSends(c) \/ Vanish(c)
      PROVE  PingInv'
  BY <1>1, PingStays DEF Start, Ask, TakeReply, ClientSends, Vanish
<1>2. ASSUME NEW c \in Clients, Receive(c) \/ \E kind \in 1 .. 2 : ReceiveRequest(c, kind)
      PROVE  PingInv'
  BY <1>2, PingStays DEF Receive, ReceiveRequest
<1>3. ASSUME NEW i \in Sources, Ping(i) PROVE PingInv'
  BY <1>3, PingKeeps
<1>4. CASE PingClock
  BY <1>4, PingClockKeeps
<1>5. CASE Tick
  BY <1>5, PingStays DEF Tick, EndTick
<1> QED
  BY <1>1, <1>2, <1>3, <1>4, <1>5 DEF Next

LEMMA StepHolds == IInv /\ [Next]_vars => IInv'
<1>1. ASSUME IInv, Next PROVE IInv'
  BY <1>1, OnlineKeeps, PingInvKeeps, OfflineKeeps DEF IInv
<1>2. ASSUME IInv, UNCHANGED vars PROVE IInv'
  <2>1. UNCHANGED onlineVars /\ UNCHANGED pingVars /\ UNCHANGED <<client, requests, replies>>
    BY <1>2 DEF vars, onlineVars, pingVars
  <2>2. OfflineInv'
    BY <1>2, <2>1 DEF IInv, OfflineInv
  <2> QED
    BY <1>2, <2>1, <2>2, OnlineStays, PingStays DEF IInv
<1> QED
  BY <1>1, <1>2

LEMMA AlwaysIInv == Spec => []IInv
  BY InitHolds, StepHolds, PTL DEF Spec

\* Every variable has its type and there are never more sessions than
\* max_sessions, whoever asks, however often and in whatever order
\* (Listener::offline).
THEOREM SlotsHold == Spec => []TypeOK
<1>1. IInv => TypeOK
  BY DEF IInv, OnlineInv, OnlineTypes, PingInv, OfflineInv, TypeOK, Session
<1> QED
  BY <1>1, AlwaysIInv, PTL

\* A caller of receive and tick is told of every session that it joined at most
\* once and that it ended exactly once, after all else, whatever a datagram
\* releases and wherever it fails.
THEOREM LifeIsTold == Spec => []EventsTellTheSession
<1>1. IInv => EventsTellTheSession
  <2> SUFFICES ASSUME IInv, NEW c \in Clients
               PROVE  /\ \A j, k \in Joins(told[c]) : j = k
                      /\ c \in DOMAIN sessions =>
                           /\ Ends(told[c]) = {}
                           /\ sessions[c].state = "Connected" <=> Joins(told[c]) # {}
                           /\ c \notin broken => \A p \in Told(told[c]) : \E j \in Joins(told[c]) : j < p
                      /\ c \notin DOMAIN sessions /\ told[c] # <<>> => Ends(told[c]) = {Len(told[c])}
    BY DEF EventsTellTheSession
  <2>1. CASE c \in DOMAIN sessions
    BY <2>1 DEF IInv, OnlineInv, Telling, Going
  <2>2. CASE c \notin DOMAIN sessions
    BY <2>2 DEF IInv, OnlineInv, Telling, Over
  <2> QED
    BY <2>1, <2>2
<1> QED
  BY <1>1, AlwaysIInv, PTL

\* The payloads told of a session are those its client sent the application,
\* in order, each once, with nothing left out unless an error dropped some.
THEOREM PayloadsAreTold == Spec => []PayloadsToldInOrder
<1>1. IInv => PayloadsToldInOrder
  <2> SUFFICES ASSUME IInv, NEW c \in Clients
               PROVE  /\ \A p, q \in Told(told[c]) : p < q => told[c][p].k < told[c][q].k
                      /\ c \notin broken =>
                           \E n \in 0 .. Farewell :
                             /\ Numbers(told[c]) = {k \in User : k <= n}
                             /\ c \in DOMAIN sessions => n = sessions[c].taken
                             /\ Those(told[c], {"left"}) # {} => n = Farewell
    BY DEF PayloadsToldInOrder
  <2>1. CASE c \in DOMAIN sessions
    <3>1. Going(sessions[c], told[c], c \in broken) /\ sessions[c].taken \in 0 .. Farewell
      BY <2>1 DEF IInv, OnlineInv, OnlineTypes, Telling, Session
    <3>2. Those(told[c], {"left"}) = {}
      BY <3>1 DEF Going, Ends, Those
    <3> QED
      BY <3>1, <3>2 DEF Going, InOrder
  <2>2. CASE c \notin DOMAIN sessions
    BY <2>2 DEF IInv, OnlineInv, Telling, Over, InOrder
  <2> QED
    BY <2>1, <2>2
<1> QED
  BY <1>1, AlwaysIInv, PTL

\* No source gets two pongs within ping_interval, however many sources there
\* are and however small the map of them is (allow_ping).
THEOREM PongsAreSpaced == Spec => []PongsSpaced
<1>1. IInv => PongsSpaced
  BY DEF IInv, PingInv, PongsSpaced
<1> QED
  BY <1>1, AlwaysIInv, PTL
=============================================================================
