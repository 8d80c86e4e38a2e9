---------------------------- MODULE IntakeProofs ----------------------------
(***************************************************************************)
(* What Intake guarantees for every window and every number of frames.     *)
(* The argument is one inductive invariant, IInv: the types, the shape of  *)
(* what is held (HeldAhead), the shape of what was released                *)
(* (ReleasedInOrder) and where the refused frames are (RefusedIsLost).     *)
(***************************************************************************)
EXTENDS Intake, WellFoundedInduction, SequenceTheorems, TLAPS

\* The types, in the form the provers use: buffered is a function and the
\* indices are natural numbers. TypeOK follows from it with HeldAhead.
Types ==
  /\ sent \in Nat /\ sent <= MaxSent
  /\ ordering = [expected |-> ordering.expected, buffered |-> ordering.buffered]
  /\ ordering.expected \in Nat /\ ordering.expected <= sent
  /\ DOMAIN ordering.buffered \subseteq 0 .. (sent - 1)
  /\ ordering.buffered = [k \in DOMAIN ordering.buffered |-> ordering.buffered[k]]
  /\ dedup = [floor |-> dedup.floor, seen |-> dedup.seen]
  /\ dedup.floor \in Nat /\ dedup.floor <= sent
  /\ dedup.seen \subseteq 0 .. (sent - 1)
  /\ released \in Seq(Nat)
  /\ refused \subseteq 0 .. (sent - 1)

IInv == Types /\ HeldAhead /\ ReleasedInOrder /\ SeenBounded

-----------------------------------------------------------------------------
(* Lemmas about the operators.                                              *)

\* The least-number principle, for sets.
LEMMA LeastNatural ==
  ASSUME NEW T, T \subseteq Nat, T # {}
  PROVE  \E x \in T : \A y \in T : x <= y
<1>1. IsWellFoundedOn(OpToRel(<, Nat), Nat)
  BY NatLessThanWellFounded
<1>2. PICK x \in T : \A y \in T : ~ (<<y, x>> \in OpToRel(<, Nat))
  BY <1>1, WFMin
<1>3. \A y \in T : ~ (y < x)
  BY <1>2 DEF OpToRel
<1> QED BY <1>3

\* The drain loop stops: if everything held lies within the window there is
\* a first gap, and FirstGap is it.
LEMMA FirstGapExists ==
  ASSUME NEW e \in Nat, NEW held,
         held \subseteq e .. (e + OrderWindow - 1)
  PROVE  /\ FirstGap(e, held) \in e .. (e + OrderWindow)
         /\ FirstGap(e, held) \notin held
         /\ \A k \in e .. (FirstGap(e, held) - 1) : k \in held
<1> DEFINE Gaps == {g \in e .. (e + OrderWindow) : g \notin held}
<1>1. e + OrderWindow \in Gaps
  BY OrderWindowAssumption
<1>2. PICK g \in Gaps : \A k \in Gaps : g <= k
  <2>1. Gaps \subseteq Nat
    BY OrderWindowAssumption
  <2> HIDE DEF Gaps
  <2> QED BY <1>1, <2>1, LeastNatural
<1>3. /\ g \in e .. (e + OrderWindow)
      /\ g \notin held
      /\ \A k \in e .. (g - 1) : k \in held
  BY <1>2, OrderWindowAssumption
<1>4. QED
  BY <1>3 DEF FirstGap

\* What taking a payload inside the window does: the held indices and the
\* new one are cut at the first gap, those below it are released.
LEMMA PushInWindow ==
  ASSUME NEW o, NEW i \in Nat, NEW p,
         o.expected \in Nat,
         \A k \in DOMAIN o.buffered :
           k \in Nat /\ o.expected < k /\ k < o.expected + OrderWindow,
         ~ IsOld(o, i), ~ IsOutOfWindow(o, i)
  PROVE  LET held == Held(o, i, p)
             pushed == OrderingPush(o, i, p)
             gap == pushed.ordering.expected
         IN /\ ~ pushed.refused
            /\ gap \in Nat /\ o.expected <= gap
            /\ gap \notin DOMAIN held
            /\ \A k \in o.expected .. (gap - 1) : k \in DOMAIN held
            /\ pushed.ordering.buffered
                 = [k \in {j \in DOMAIN held : j >= gap} |-> held[k]]
            /\ pushed.ready
                 = [j \in 1 .. (gap - o.expected) |-> held[o.expected + j - 1]]
            /\ pushed.ordering = [expected |-> gap,
                                  buffered |-> pushed.ordering.buffered]
<1> DEFINE held == Held(o, i, p)
           gap  == FirstGap(o.expected, DOMAIN held)
<1>1. DOMAIN held = DOMAIN o.buffered \cup {i}
  BY DEF Held
<1>2. DOMAIN held \subseteq o.expected .. (o.expected + OrderWindow - 1)
  BY <1>1, OrderWindowAssumption DEF IsOld, IsOutOfWindow
<1>3. /\ gap \in o.expected .. (o.expected + OrderWindow)
      /\ gap \notin DOMAIN held
      /\ \A k \in o.expected .. (gap - 1) : k \in DOMAIN held
  <2> HIDE DEF held
  <2> QED BY <1>2, FirstGapExists
<1>4. OrderingPush(o, i, p) =
        [ordering |->
           [expected |-> gap,
            buffered |-> [k \in {j \in DOMAIN held : j >= gap} |-> held[k]]],
         ready    |-> [j \in 1 .. (gap - o.expected) |-> held[o.expected + j - 1]],
         refused  |-> FALSE]
  BY DEF OrderingPush, HeldFrom
<1>5. gap \in Nat /\ o.expected <= gap
  <2> HIDE DEF gap
  <2> QED BY <1>3, OrderWindowAssumption
<1> HIDE DEF gap, held
<1>6. QED
  BY <1>3, <1>4, <1>5, SMTT(60) DEF held

\* Dedup keeps what it marks, keeps it inside its window, and its floor only
\* rises to indices below the highest one marked.
LEMMA AcceptKeeps ==
  ASSUME NEW d, NEW r \in Nat, NEW n \in Nat, r < n,
         d = [floor |-> d.floor, seen |-> d.seen],
         d.floor \in Nat, d.floor <= n,
         d.seen \subseteq 0 .. (n - 1),
         \A k \in d.seen : d.floor <= k /\ k <= d.floor + DedupWindow,
         ~ IsHandled(d, r)
  PROVE  LET e == DedupAccept(d, r)
         IN /\ e = [floor |-> e.floor, seen |-> e.seen]
            /\ e.floor \in Nat /\ e.floor <= n /\ d.floor <= e.floor
            /\ e.seen \subseteq d.seen \cup {r}
            /\ \A k \in d.seen \cup {r} : k < e.floor \/ k \in e.seen
            /\ \A k \in e.seen : e.floor <= k /\ k <= e.floor + DedupWindow
            /\ e.floor = d.floor \/ \E h \in d.seen \cup {r} : e.floor = h - DedupWindow
<1> DEFINE seen == d.seen \cup {r}
           highest == CHOOSE h \in seen : \A k \in seen : k <= h
           floor == highest - DedupWindow
<1>1. seen # {} /\ seen \subseteq 0 .. (n - 1)
  OBVIOUS
<1>2. \E h \in seen : \A k \in seen : k <= h
  <2> DEFINE Below == {n - k : k \in seen}
  <2>1. Below \subseteq Nat /\ Below # {}
    BY <1>1
  <2>2. PICK x \in Below : \A y \in Below : x <= y
    <3> HIDE DEF Below
    <3> QED BY <2>1, LeastNatural
  <2>3. PICK h \in seen : x = n - h
    BY <2>2
  <2>4. ASSUME NEW k \in seen PROVE k <= h
    <3>1. n - k \in Below
      OBVIOUS
    <3>2. n - h <= n - k
      BY <2>2, <2>3, <3>1
    <3> QED BY <1>1, <3>2
  <2> QED BY <2>4
<1>3. highest \in seen /\ \A k \in seen : k <= highest
  <2> HIDE DEF seen
  <2> QED BY <1>2
<1>4. DedupAccept(d, r) = IF floor > d.floor
                            THEN [floor |-> floor, seen |-> {k \in seen : k >= floor}]
                            ELSE [floor |-> d.floor, seen |-> seen]
  BY DEF DedupAccept
<1> HIDE DEF highest
<1>5. highest \in Nat /\ highest < n
  BY <1>1, <1>3
<1>6. CASE floor > d.floor
  BY <1>1, <1>3, <1>4, <1>5, <1>6, DedupWindowAssumption
<1>7. CASE ~ (floor > d.floor)
  <2>1. DedupAccept(d, r) = [floor |-> d.floor, seen |-> seen]
    BY <1>4, <1>7
  <2>2. \A k \in seen : d.floor <= k /\ k <= d.floor + DedupWindow
    BY <1>1, <1>3, <1>5, <1>7, DedupWindowAssumption DEF IsHandled
  <2> QED BY <2>1, <2>2
<1>8. QED
  BY <1>6, <1>7

-----------------------------------------------------------------------------
(* The invariant.                                                           *)

\* Every behaviour starts in IInv.
LEMMA InitIInv == Init => IInv
<1> SUFFICES ASSUME Init PROVE IInv
  OBVIOUS
<1>1. Types
  BY MaxSentAssumption DEF Init, NewOrdering, NewDedup, Types
<1>2. HeldAhead /\ ReleasedInOrder /\ SeenBounded
  BY DEF Init, NewOrdering, NewDedup, HeldAhead, ReleasedInOrder, SeenBounded
<1> QED BY <1>1, <1>2 DEF IInv

\* A refused frame changes nothing but what Dedup remembers.
LEMMA RefusedFrame ==
  ASSUME IInv, NEW i \in 0 .. (sent - 1), TakeFrame(i),
         IsOld(ordering, i) \/ IsOutOfWindow(ordering, i)
  PROVE  /\ ordering' = ordering
         /\ released' = released
         /\ refused' = refused \/ (refused' = refused \cup {i} /\ ~ IsOld(ordering, i))
<1>1. released \o <<>> = released
  BY ConcatEmptySeq DEF IInv, Types
<1> QED BY <1>1 DEF TakeFrame, OrderingPush, HeldFrom

\* A frame inside the window.
LEMMA AcceptedFrame ==
  ASSUME IInv, NEW i \in 0 .. (sent - 1), TakeFrame(i),
         ~ IsOld(ordering, i), ~ IsOutOfWindow(ordering, i)
  PROVE  LET held == Held(ordering, i, i)
             e    == ordering.expected
             gap  == ordering'.expected
         IN /\ DOMAIN held = DOMAIN ordering.buffered \cup {i}
            /\ \A k \in DOMAIN held : held[k] = k
            /\ gap \in Nat /\ e <= gap /\ gap <= sent
            /\ gap \notin DOMAIN held
            /\ \A k \in e .. (gap - 1) : k \in DOMAIN held
            /\ ordering' = [expected |-> gap, buffered |-> ordering'.buffered]
            /\ ordering'.buffered = [k \in {j \in DOMAIN held : j >= gap} |-> held[k]]
            /\ released' = released \o [j \in 1 .. (gap - e) |-> e + j - 1]
            /\ refused' = refused
<1> DEFINE held == Held(ordering, i, i)
           e    == ordering.expected
           pushed == OrderingPush(ordering, i, i)
           gap  == pushed.ordering.expected
<1> USE DEF IInv, Types
<1>1. DOMAIN held = DOMAIN ordering.buffered \cup {i}
  BY DEF Held
<1>2. \A k \in DOMAIN held : held[k] = k
  BY <1>1 DEF Held, HeldAhead
<1>3. /\ ~ pushed.refused
      /\ gap \in Nat /\ e <= gap
      /\ gap \notin DOMAIN held
      /\ \A k \in e .. (gap - 1) : k \in DOMAIN held
      /\ pushed.ordering.buffered = [k \in {j \in DOMAIN held : j >= gap} |-> held[k]]
      /\ pushed.ready = [j \in 1 .. (gap - e) |-> held[e + j - 1]]
      /\ pushed.ordering = [expected |-> gap, buffered |-> pushed.ordering.buffered]
  <2>1. \A k \in DOMAIN ordering.buffered :
          k \in Nat /\ e < k /\ k < e + OrderWindow
    BY DEF HeldAhead
  <2>2. i \in Nat /\ e \in Nat
    OBVIOUS
  <2> QED BY <2>1, <2>2, PushInWindow
<1>4. /\ ordering' = pushed.ordering
      /\ released' = released \o pushed.ready
      /\ refused' = refused
  BY <1>3 DEF TakeFrame
<1> HIDE DEF pushed, held
<1>5. gap <= sent
  <2>1. e \in Nat /\ e <= sent /\ sent \in Nat
    OBVIOUS
  <2>2. DOMAIN held \subseteq 0 .. (sent - 1)
    BY <1>1
  <2>3. gap \in Nat /\ (gap = e \/ gap - 1 \in DOMAIN held)
    BY <1>3, <2>1, SMTT(60)
  <2> HIDE DEF gap, e
  <2> QED BY <2>1, <2>2, <2>3
<1>6. [j \in 1 .. (gap - e) |-> held[e + j - 1]] = [j \in 1 .. (gap - e) |-> e + j - 1]
  <2>1. e \in Nat
    OBVIOUS
  <2> HIDE DEF gap, e
  <2>2. \A j \in 1 .. (gap - e) : held[e + j - 1] = e + j - 1
    BY <1>2, <1>3, <2>1, SMTT(60)
  <2> QED BY <2>2
<1> QED
  BY <1>1, <1>2, <1>3, <1>4, <1>5, <1>6 DEF held

\* The frame's index is handled afterwards, as is everything that was.
LEMMA MarkedFrame ==
  ASSUME IInv, NEW i \in 0 .. (sent - 1), TakeFrame(i)
  PROVE  /\ dedup' = [floor |-> dedup'.floor, seen |-> dedup'.seen]
         /\ dedup'.floor \in Nat /\ dedup'.floor <= sent
         /\ dedup'.seen \subseteq 0 .. (sent - 1)
         /\ SeenBounded'
         /\ \A k \in 0 .. (sent - 1) :
              IsHandled(dedup, k) \/ k = i => IsHandled(dedup', k)
         /\ \A k \in 0 .. (sent - 1) :
              IsHandled(dedup', k) =>
                \/ IsHandled(dedup, k) \/ k = i
                \/ \E h \in dedup.seen \cup {i} : k < h - DedupWindow
<1>1. LET d == DedupAccept(dedup, i)
      IN /\ d = [floor |-> d.floor, seen |-> d.seen]
         /\ d.floor \in Nat /\ d.floor <= sent /\ dedup.floor <= d.floor
         /\ d.seen \subseteq dedup.seen \cup {i}
         /\ \A k \in dedup.seen \cup {i} : k < d.floor \/ k \in d.seen
         /\ \A k \in d.seen : d.floor <= k /\ k <= d.floor + DedupWindow
         /\ \/ d.floor = dedup.floor
            \/ \E h \in dedup.seen \cup {i} : d.floor = h - DedupWindow
  <2>1. /\ sent \in Nat /\ i \in Nat /\ i < sent
        /\ dedup = [floor |-> dedup.floor, seen |-> dedup.seen]
        /\ dedup.floor \in Nat /\ dedup.floor <= sent
        /\ dedup.seen \subseteq 0 .. (sent - 1)
        /\ \A k \in dedup.seen : dedup.floor <= k /\ k <= dedup.floor + DedupWindow
        /\ ~ IsHandled(dedup, i)
    BY DEF IInv, Types, SeenBounded, TakeFrame
  <2> QED BY <2>1, AcceptKeeps
<1>2. dedup' = DedupAccept(dedup, i)
  BY DEF TakeFrame
<1>3. dedup.floor \in Nat /\ dedup.seen \subseteq 0 .. (sent - 1) /\ sent \in Nat
  BY DEF IInv, Types
<1>4. SeenBounded'
  BY <1>1, <1>2 DEF SeenBounded
<1>5. ASSUME NEW k \in 0 .. (sent - 1), IsHandled(dedup, k) \/ k = i
      PROVE  IsHandled(dedup', k)
  BY <1>1, <1>2, <1>3, <1>5 DEF IsHandled
<1>6. ASSUME NEW k \in 0 .. (sent - 1), IsHandled(dedup', k)
      PROVE  \/ IsHandled(dedup, k) \/ k = i
             \/ \E h \in dedup.seen \cup {i} : k < h - DedupWindow
  BY <1>1, <1>2, <1>3, <1>6 DEF IsHandled
<1> QED
  BY <1>1, <1>2, <1>3, <1>4, <1>5, <1>6

\* One frame preserves the invariant: refused or old, it only marks Dedup;
\* inside the window, the release extends the prefix.
LEMMA TakeFrameIInv ==
  ASSUME IInv, NEW i \in 0 .. (sent - 1), TakeFrame(i)
  PROVE  IInv'
<1> DEFINE held == Held(ordering, i, i)
           e    == ordering.expected
           gap  == ordering'.expected
<1>1. sent' = sent /\ sent \in Nat /\ sent <= MaxSent /\ i \in Nat
  BY DEF IInv, Types, TakeFrame
<1>2. CASE IsOld(ordering, i) \/ IsOutOfWindow(ordering, i)
  <2>1. /\ ordering' = ordering /\ released' = released
        /\ refused' \subseteq 0 .. (sent - 1)
    BY <1>2, RefusedFrame DEF IInv, Types
  <2>2. Types'
    BY <2>1, <1>1, MarkedFrame DEF IInv, Types
  <2>3. HeldAhead' /\ ReleasedInOrder'
    BY <2>1 DEF IInv, HeldAhead, ReleasedInOrder
  <2> QED BY <2>2, <2>3, MarkedFrame DEF IInv
<1>3. CASE ~ IsOld(ordering, i) /\ ~ IsOutOfWindow(ordering, i)
  <2>1. /\ DOMAIN held = DOMAIN ordering.buffered \cup {i}
        /\ \A k \in DOMAIN held : held[k] = k
        /\ gap \in Nat /\ e <= gap /\ gap <= sent
        /\ gap \notin DOMAIN held
        /\ ordering' = [expected |-> gap, buffered |-> ordering'.buffered]
        /\ ordering'.buffered = [k \in {j \in DOMAIN held : j >= gap} |-> held[k]]
        /\ released' = released \o [j \in 1 .. (gap - e) |-> e + j - 1]
        /\ refused' = refused
    BY <1>3, AcceptedFrame
  <2>2. /\ e \in Nat /\ DOMAIN ordering.buffered \subseteq 0 .. (sent - 1)
        /\ released \in Seq(Nat) /\ Len(released) = e
        /\ refused \subseteq 0 .. (sent - 1)
    BY DEF IInv, Types, ReleasedInOrder
  <2>3. HeldAhead'
    <3>1. \A k \in DOMAIN ordering.buffered : e < k /\ k < e + OrderWindow
      BY DEF IInv, HeldAhead
    <3>2. i < e + OrderWindow
      BY <1>1, <1>3, <2>2, OrderWindowAssumption DEF IsOutOfWindow
    <3>3. ASSUME NEW k \in DOMAIN ordering'.buffered
          PROVE  gap < k /\ k < gap + OrderWindow /\ ordering'.buffered[k] = k
      <4>1. k \in DOMAIN held /\ k >= gap /\ ordering'.buffered[k] = held[k]
        BY <2>1
      <4>2. k \in Nat /\ k < e + OrderWindow
        BY <4>1, <2>1, <2>2, <3>1, <3>2, <1>1
      <4> HIDE DEF held, gap, e
      <4> QED BY <4>1, <4>2, <2>1, <2>2, OrderWindowAssumption
    <3> QED BY <3>3 DEF HeldAhead
  <2>4. released' \in Seq(Nat) /\ ReleasedInOrder'
    <3> DEFINE ready == [j \in 1 .. (gap - e) |-> e + j - 1]
    <3> HIDE DEF held, gap, e
    <3>1. ready \in Seq(Nat) /\ Len(ready) = gap - e
      <4>1. gap - e \in Nat
        BY <2>1, <2>2
      <4>2. \A j \in 1 .. (gap - e) : e + j - 1 \in Nat
        BY <2>1, <2>2
      <4> QED BY <4>1, <4>2
    <3>2. \A j \in 1 .. e : released[j] = j - 1
      BY <2>2 DEF IInv, ReleasedInOrder, e
    <3>3. released' = released \o ready
      BY <2>1
    <3>4. \A j \in 1 .. (gap - e) : ready[j] = e + j - 1
      OBVIOUS
    <3> HIDE DEF ready
    <3>5. released' \in Seq(Nat) /\ Len(released') = gap
      <4>1. /\ released \o ready \in Seq(Nat)
            /\ Len(released \o ready) = Len(released) + Len(ready)
        BY <2>2, <3>1, ConcatProperties
      <4>2. Len(released) + Len(ready) = gap
        BY <2>1, <2>2, <3>1
      <4> QED BY <4>1, <4>2, <3>3
    <3>6. ASSUME NEW j \in 1 .. gap PROVE released'[j] = j - 1
      <4>1. j \in 1 .. (Len(released) + Len(ready))
        BY <2>1, <2>2, <3>1
      <4>2. (released \o ready)[j]
              = IF j <= Len(released) THEN released[j] ELSE ready[j - Len(released)]
        BY <2>2, <3>1, <4>1, ConcatProperties
      <4> QED BY <4>2, <2>1, <2>2, <3>2, <3>3, <3>4
    <3> QED BY <3>5, <3>6 DEF ReleasedInOrder, gap
  <2>5. Types'
    <3>1. DOMAIN ordering'.buffered \subseteq 0 .. (sent - 1)
      BY <2>1, <2>2
    <3>2. ordering'.buffered = [k \in DOMAIN ordering'.buffered |-> ordering'.buffered[k]]
      BY <2>1
    <3> HIDE DEF held
    <3> QED BY <1>1, <2>1, <2>2, <2>4, <3>1, <3>2, MarkedFrame DEF Types
  <2> QED BY <2>3, <2>4, <2>5, MarkedFrame DEF IInv
<1> QED BY <1>2, <1>3

\* Every step preserves the invariant.
LEMMA NextIInv == IInv /\ [Next]_vars => IInv'
<1> SUFFICES ASSUME IInv, [Next]_vars PROVE IInv'
  OBVIOUS
<1>1. CASE PeerSends
  <2>1. /\ sent' = sent + 1 /\ sent < MaxSent
        /\ ordering' = ordering /\ dedup' = dedup
        /\ released' = released /\ refused' = refused
    BY <1>1 DEF PeerSends
  <2>2. HeldAhead' /\ ReleasedInOrder' /\ SeenBounded'
    BY <2>1 DEF IInv, HeldAhead, ReleasedInOrder, SeenBounded
  <2>3. 0 .. (sent - 1) \subseteq 0 .. (sent' - 1) /\ sent' \in Nat /\ sent <= sent'
    BY <2>1 DEF IInv, Types
  <2>4. sent' <= MaxSent
    BY <2>1, MaxSentAssumption DEF IInv, Types
  <2>5. ordering'.expected <= sent' /\ dedup'.floor <= sent'
    BY <2>1, <2>3 DEF IInv, Types
  <2>6. Types'
    BY <2>1, <2>3, <2>4, <2>5 DEF IInv, Types
  <2> QED BY <2>2, <2>6 DEF IInv
<1>2. ASSUME NEW i \in 0 .. (sent - 1), TakeFrame(i) PROVE IInv'
  BY <1>2, TakeFrameIInv
<1>3. CASE UNCHANGED vars
  BY <1>3 DEF vars, IInv, Types, HeldAhead, ReleasedInOrder, SeenBounded
<1>4. ASSUME NEW i \in 0 .. (sent - 1), SkipDuplicate(i) PROVE UNCHANGED vars
  BY <1>4 DEF SkipDuplicate
<1> QED
  BY <1>1, <1>2, <1>3, <1>4 DEF Next, Arrive

\* Session::receive: what is held, released and remembered fits together, whatever
\* arrives and how often; the inductive invariant behind the theorems below.
THEOREM IInvHolds == Spec => []IInv
<1> QED BY InitIInv, NextIInv, PTL DEF Spec

-----------------------------------------------------------------------------
(* The results.                                                             *)

\* Every variable of the receiving side keeps its type, whatever the windows.
THEOREM TypeCorrect == Spec => []TypeOK
<1>1. IInv => TypeOK
  <2> SUFFICES ASSUME IInv PROVE TypeOK
    OBVIOUS
  <2>1. released \in Seq(0 .. (sent - 1))
    <3>1. /\ released \in Seq(Nat) /\ Len(released) <= sent /\ sent \in Nat
          /\ \A j \in 1 .. Len(released) : released[j] = j - 1
      BY DEF IInv, Types, ReleasedInOrder
    <3>2. \A j \in 1 .. Len(released) : released[j] \in 0 .. (sent - 1)
      BY <3>1
    <3>3. Len(released) \in Nat /\ released = [j \in 1 .. Len(released) |-> released[j]]
      BY <3>1, LenProperties
    <3>4. [j \in 1 .. Len(released) |-> released[j]] \in Seq(0 .. (sent - 1))
      BY <3>2, <3>3
    <3> QED BY <3>3, <3>4
  <2> QED BY <2>1, MaxSentAssumption DEF IInv, Types, HeldAhead, TypeOK
<1> QED BY <1>1, IInvHolds, PTL

\* Ordering::push releases the stream in order and exactly once, for any
\* window and any behaviour of the network.
THEOREM InOrderExactlyOnce == Spec => []ReleasedInOrder
<1>1. IInv => ReleasedInOrder
  BY DEF IInv
<1> QED BY <1>1, IInvHolds, PTL

\* Ordering::push never holds anything outside the window ahead of the
\* awaited index, nor the awaited index itself, and Dedup::accept never
\* remembers more than its window.
THEOREM MemoriesBounded == Spec => []WindowsBounded
<1>1. IInv => WindowsBounded
  BY DEF IInv, WindowsBounded
<1> QED BY <1>1, IInvHolds, PTL

\* A refused index stays where the refusal left it: never released, never
\* held, and taken for a duplicate from then on.
THEOREM RefusalIsFinal == Spec => []RefusedIsLost
<1>1. Init => RefusedIsLost
  BY DEF Init, RefusedIsLost
<1>2. IInv /\ RefusedIsLost /\ [Next]_vars => RefusedIsLost'
  <2> SUFFICES ASSUME IInv, RefusedIsLost, [Next]_vars PROVE RefusedIsLost'
    OBVIOUS
  <2>1. CASE UNCHANGED <<ordering, dedup, refused>>
    BY <2>1 DEF RefusedIsLost
  <2>2. ASSUME NEW i \in 0 .. (sent - 1), TakeFrame(i),
               IsOld(ordering, i) \/ IsOutOfWindow(ordering, i)
        PROVE  RefusedIsLost'
    <3>1. /\ ordering' = ordering
          /\ refused' = refused \/ (refused' = refused \cup {i} /\ ~ IsOld(ordering, i))
      BY <2>2, RefusedFrame
    <3>2. ~ IsOld(ordering, i) => ordering.expected <= i /\ i \notin DOMAIN ordering.buffered
      <4>1. ordering.expected \in Nat /\ i \in Nat
        BY DEF IInv, Types
      <4>2. \A k \in DOMAIN ordering.buffered : k < ordering.expected + OrderWindow
        BY DEF IInv, HeldAhead
      <4> QED BY <2>2, <4>1, <4>2, OrderWindowAssumption DEF IsOld, IsOutOfWindow
    <3>3. \A k \in refused \cup {i} : IsHandled(dedup', k)
      BY <2>2, MarkedFrame DEF RefusedIsLost, IInv, Types
    <3> QED BY <3>1, <3>2, <3>3 DEF RefusedIsLost
  <2>3. ASSUME NEW i \in 0 .. (sent - 1), TakeFrame(i),
               ~ IsOld(ordering, i), ~ IsOutOfWindow(ordering, i)
        PROVE  RefusedIsLost'
    <3> DEFINE held == Held(ordering, i, i)
    <3>1. /\ DOMAIN held = DOMAIN ordering.buffered \cup {i}
          /\ ordering'.expected \in Nat
          /\ \A k \in ordering.expected .. (ordering'.expected - 1) : k \in DOMAIN held
          /\ ordering'.buffered
               = [k \in {j \in DOMAIN held : j >= ordering'.expected} |-> held[k]]
          /\ refused' = refused
      BY <2>3, AcceptedFrame
    <3>2. ASSUME NEW k \in refused
          PROVE  /\ ordering'.expected <= k
                 /\ k \notin DOMAIN ordering'.buffered
                 /\ IsHandled(dedup', k)
      <4>1. k \in 0 .. (sent - 1) /\ ordering.expected \in Nat
        BY DEF IInv, Types
      <4>2. ordering.expected <= k /\ k \notin DOMAIN ordering.buffered /\ IsHandled(dedup, k)
        BY DEF RefusedIsLost
      <4>3. k # i
        BY <2>3, <4>2 DEF TakeFrame
      <4>4. k \notin DOMAIN held
        BY <3>1, <4>2, <4>3
      <4>5. IsHandled(dedup', k)
        BY <2>3, <4>1, <4>2, MarkedFrame
      <4> HIDE DEF held
      <4> QED BY <3>1, <4>1, <4>2, <4>4, <4>5
    <3> QED BY <3>1, <3>2 DEF RefusedIsLost
  <2> QED BY <2>1, <2>2, <2>3 DEF Next, Arrive, SkipDuplicate, PeerSends, vars
<1> QED BY <1>1, <1>2, IInvHolds, PTL DEF Spec

\* If the deduplication window covers the ordering window, then until
\* Ordering refuses a frame Dedup drops only frames that were taken. The
\* defaults (2048 and 4096) satisfy the condition; nothing in the code checks
\* it, and it is tight.
THEOREM NothingDroppedUnread ==
  ASSUME OrderWindow <= DedupWindow + 1
  PROVE  Spec => []DuplicatesWereTaken
<1>1. Init => DuplicatesWereTaken
  BY DEF Init, DuplicatesWereTaken
<1>2. IInv /\ DuplicatesWereTaken /\ [Next]_vars => DuplicatesWereTaken'
  <2> SUFFICES ASSUME IInv, DuplicatesWereTaken, [Next]_vars PROVE DuplicatesWereTaken'
    OBVIOUS
  <2>1. CASE PeerSends
    <3>1. /\ sent' = sent + 1
          /\ ordering' = ordering /\ dedup' = dedup /\ refused' = refused
      BY <2>1 DEF PeerSends
    <3>2. ~ IsHandled(dedup, sent)
      BY DEF IInv, Types, IsHandled
    <3>3. \A k \in 0 .. (sent' - 1) : k \in 0 .. (sent - 1) \/ k = sent
      BY <3>1 DEF IInv, Types
    <3> QED BY <3>1, <3>2, <3>3 DEF DuplicatesWereTaken
  <2>2. CASE UNCHANGED vars
    BY <2>2 DEF vars, DuplicatesWereTaken
  <2>3. ASSUME NEW i \in 0 .. (sent - 1), TakeFrame(i) PROVE DuplicatesWereTaken'
    <3> SUFFICES ASSUME refused' = {}, NEW k \in 0 .. (sent' - 1), IsHandled(dedup', k)
                 PROVE  k < ordering'.expected \/ k \in DOMAIN ordering'.buffered
      BY DEF DuplicatesWereTaken
    <3> DEFINE held == Held(ordering, i, i)
               e == ordering.expected
               gap == ordering'.expected
    <3>1. /\ k \in 0 .. (sent - 1) /\ sent \in Nat /\ e \in Nat /\ i \in Nat /\ k \in Nat
          /\ dedup.seen \subseteq 0 .. (sent - 1)
          /\ DOMAIN ordering.buffered \subseteq 0 .. (sent - 1)
      BY <2>3 DEF TakeFrame, IInv, Types
    <3>2. refused = {}
      BY <2>3 DEF TakeFrame
    <3>3. \A j \in 0 .. (sent - 1) :
            IsHandled(dedup, j) => j < e \/ j \in DOMAIN ordering.buffered
      BY <3>2 DEF DuplicatesWereTaken
    <3>4. \A j \in dedup.seen : j < e + OrderWindow
      BY <3>1, <3>3, OrderWindowAssumption DEF IsHandled, IInv, HeldAhead
    <3>5. i < e + OrderWindow
      <4>1. CASE IsOld(ordering, i)
        BY <4>1, <3>1, OrderWindowAssumption DEF IsOld
      <4>2. CASE ~ IsOld(ordering, i) /\ IsOutOfWindow(ordering, i)
        <5>1. refused' = refused \cup {i}
          BY <4>2, <2>3 DEF TakeFrame, OrderingPush, HeldFrom
        <5> QED BY <5>1
      <4>3. CASE ~ IsOutOfWindow(ordering, i)
        BY <4>3, <3>1, OrderWindowAssumption DEF IsOutOfWindow
      <4> QED BY <4>1, <4>2, <4>3
    <3>6. (\E h \in dedup.seen \cup {i} : k < h - DedupWindow) => k < e
      BY <3>1, <3>4, <3>5, OrderWindowAssumption, DedupWindowAssumption
    <3>7. k < e \/ k \in DOMAIN ordering.buffered \/ k = i
      <4>1. \/ IsHandled(dedup, k) \/ k = i
            \/ \E h \in dedup.seen \cup {i} : k < h - DedupWindow
        BY <2>3, <3>1, MarkedFrame
      <4> QED BY <4>1, <3>1, <3>3, <3>6
    <3>8. CASE IsOld(ordering, i) \/ IsOutOfWindow(ordering, i)
      <4>1. ordering' = ordering /\ IsOld(ordering, i)
        BY <2>3, <3>8, <3>2, RefusedFrame DEF TakeFrame, OrderingPush, HeldFrom
      <4> QED BY <4>1, <3>1, <3>7 DEF IsOld
    <3>9. CASE ~ IsOld(ordering, i) /\ ~ IsOutOfWindow(ordering, i)
      <4>1. /\ DOMAIN held = DOMAIN ordering.buffered \cup {i}
            /\ gap \in Nat /\ e <= gap
            /\ ordering'.buffered = [j \in {n \in DOMAIN held : n >= gap} |-> held[j]]
        BY <2>3, <3>9, AcceptedFrame
      <4>2. k < e \/ k \in DOMAIN held
        BY <4>1, <3>7
      <4> HIDE DEF held, e, gap
      <4>3. k < gap \/ (k \in DOMAIN held /\ k >= gap)
        BY <4>1, <4>2, <3>1
      <4> QED BY <4>1, <4>3 DEF gap
    <3> QED BY <3>8, <3>9
  <2> QED BY <2>1, <2>2, <2>3 DEF Next, Arrive, SkipDuplicate
<1> QED BY <1>1, <1>2, IInvHolds, PTL DEF Spec
=============================================================================
