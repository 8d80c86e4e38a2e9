----------------------------- MODULE Retransmit -----------------------------
(***************************************************************************)
(* The clocks of one session (Retransmitter, Rtt, and the part of          *)
(* Session::tick that reads them) against a link with a round trip of      *)
(* MinTrip to MaxTrip. Session.tla lets every timer run out at any time;   *)
(* here they are computed. Time is counted in whole units, as the caller   *)
(* reads the clock, and ages are kept instead of instants.                 *)
(*                                                                         *)
(* A datagram is known by a slot, not by its sequence number: a slot is    *)
(* taken again once its datagram has been acknowledged.                    *)
(***************************************************************************)
EXTENDS Integers, FiniteSets

CONSTANTS
  Slots,         \* as many as retransmit::Limits::max_in_flight
  MinRto,        \* Limits::min_rto
  MaxRto,        \* Limits::max_rto
  MaxRetries,    \* Limits::max_retries
  Keepalive,     \* Config::keepalive
  Timeout,       \* Config::timeout
  MinTrip,       \* the shortest round trip of the link
  MaxTrip,       \* the longest; what takes longer is lost
  TickGap,       \* the longest time between two ticks
  MaxResends     \* bound: no NACK for what was sent again so many times

ASSUME RetransmitAssumption ==
  /\ {MinRto, MaxRto, MaxRetries, Keepalive, Timeout, MinTrip, MaxTrip, TickGap, MaxResends}
       \subseteq Nat
  /\ MinRto <= MaxRto
  /\ MinTrip <= MaxTrip
  /\ Slots \subseteq Nat

VARIABLES
  smoothed,      \* Rtt.smoothed, None before the first sample
  variation,     \* Rtt.variation
  inFlight,      \* Retransmitter.in_flight: slot to entry
  dead,          \* Retransmitter.dead
  closed,        \* the session's state: "open", "Timeout" or "Unreachable"
  heard,         \* time since last_heard
  pinged,        \* time since last_ping
  ticked,        \* time since the last tick
  lossy          \* history: whether the link has lost a copy or carried a NACK

estimate == <<smoothed, variation>>
clocks == <<heard, pinged, ticked>>
vars == <<smoothed, variation, inFlight, dead, closed, heard, pinged, ticked, lossy>>

None == -1
Lesser(a, b) == IF a <= b THEN a ELSE b

Init ==
  /\ smoothed = None /\ variation = 0
  /\ inFlight = [s \in {} |-> {}]
  /\ dead = FALSE /\ closed = "open"
  /\ heard = 0 /\ pinged = 0 /\ ticked = 0
  /\ lossy = FALSE

-----------------------------------------------------------------------------
(* Rtt                                                                      *)

\* Rtt::sample
FoldIn(trip) ==
  IF smoothed = None
    THEN smoothed' = trip /\ variation' = trip \div 2
    ELSE LET delta == IF smoothed >= trip THEN smoothed - trip ELSE trip - smoothed
         IN /\ variation' = (variation * 3 + delta) \div 4
            /\ smoothed' = (smoothed * 7 + trip) \div 8

\* Mutant: the timeout of a slow link is not capped.
CurrentTimeoutUncapped ==
  IF smoothed = None THEN MaxRto
  ELSE LET raw == smoothed + variation * 4 IN IF raw < MinRto THEN MinRto ELSE raw

\* Rtt::timeout
CurrentTimeout ==
  IF smoothed = None THEN MaxRto
  ELSE LET raw == smoothed + variation * 4
       IN IF raw < MinRto THEN MinRto ELSE Lesser(raw, MaxRto)

-----------------------------------------------------------------------------
(* Retransmitter. An entry's sent is its age since it was last sent, first  *)
(* its age since track, copies the ages of its copies still on the link.    *)

NewEntry(copies) ==
  [sent |-> 0, retries |-> 0, first |-> 0, nacked |-> FALSE, copies |-> copies]

BackoffNever(entry) == CurrentTimeout   \* mutant: every retry waits as long
Backoff(entry) == Lesser(CurrentTimeout * 2 ^ entry.retries, MaxRto)

IsDue(entry) == entry.sent >= Backoff(entry)

\* Mutant: the retry is not counted.
AgainUncounted(entry, copies) == [entry EXCEPT !.sent = 0, !.copies = copies]

\* Sent once more: the copies now on the link are copies.
Again(entry, copies) == [entry EXCEPT !.sent = 0, !.retries = @ + 1, !.copies = copies]

IsSpent(entry) == entry.retries > MaxRetries

\* What is on the link after the datagrams of slots have been sent again and
\* those of fresh for the first time. The link loses the copies of lost.
Sent(slots, fresh, lost) ==
  [s \in DOMAIN inFlight \cup fresh |->
     IF s \in fresh THEN NewEntry(IF s \in lost THEN {} ELSE {0})
     ELSE IF s \in slots
       THEN Again(inFlight[s], inFlight[s].copies \cup IF s \in lost THEN {} ELSE {0})
     ELSE inFlight[s]]

\* track has room for one datagram; it takes the first slot that is free.
NextSlot ==
  LET free == Slots \ DOMAIN inFlight
  IN {s \in free : \A t \in free : s <= t}

\* The caller sends.
Track ==
  /\ closed = "open" /\ NextSlot # {}
  /\ \E lost \in SUBSET NextSlot :
       inFlight' = Sent({}, NextSlot, lost) /\ lossy' = (lossy \/ lost # {})
  /\ UNCHANGED <<estimate, dead, closed, clocks>>

\* Mutant: a datagram sent more than once is measured too.
OnAckMeasured(s) ==
  /\ closed = "open"
  /\ inFlight[s].copies \cap (MinTrip .. MaxTrip) # {}
  /\ FoldIn(inFlight[s].sent)
  /\ inFlight' = [t \in DOMAIN inFlight \ {s} |-> inFlight[t]]
  /\ heard' = 0
  /\ UNCHANGED <<dead, closed, pinged, ticked, lossy>>

\* Mutant: an acknowledgement is no sign of life.
OnAckUnheard(s) ==
  /\ closed = "open"
  /\ inFlight[s].copies \cap (MinTrip .. MaxTrip) # {}
  /\ IF inFlight[s].retries = 0 THEN FoldIn(inFlight[s].sent) ELSE UNCHANGED estimate
  /\ inFlight' = [t \in DOMAIN inFlight \ {s} |-> inFlight[t]]
  /\ UNCHANGED <<dead, closed, clocks, lossy>>

\* The acknowledgement of one of the copies arrives.
OnAck(s) ==
  /\ closed = "open"
  /\ inFlight[s].copies \cap (MinTrip .. MaxTrip) # {}
  /\ IF inFlight[s].retries = 0 THEN FoldIn(inFlight[s].sent) ELSE UNCHANGED estimate
  /\ inFlight' = [t \in DOMAIN inFlight \ {s} |-> inFlight[t]]
  /\ heard' = 0
  /\ UNCHANGED <<dead, closed, pinged, ticked, lossy>>

\* A NACK counts and sends again past the limit too: the session is given up by
\* the next tick and not before. One that names several datagrams, or one of
\* them in several of its ranges, is as many of these at once.
OnNack(s) ==
  /\ closed = "open" /\ inFlight[s].retries < MaxResends
  /\ \E lost \in SUBSET {s} :
       LET sent == Sent({s}, {}, lost)
       IN /\ inFlight' = [sent EXCEPT ![s].nacked = TRUE]
          /\ dead' = (dead \/ \E t \in DOMAIN sent : IsSpent(sent[t]))
  /\ heard' = 0 /\ lossy' = TRUE
  /\ UNCHANGED <<estimate, closed, pinged, ticked>>

\* Any other datagram of the peer.
Hear ==
  /\ closed = "open"
  /\ heard' = 0
  /\ UNCHANGED <<estimate, inFlight, dead, closed, pinged, ticked, lossy>>

\* tick, once the session is known to be open and alive. A ping that finds
\* the window full is not sent, and counts as sent.
Refresh ==
  LET due  == {s \in DOMAIN inFlight : IsDue(inFlight[s])}
      ping == IF pinged >= Keepalive THEN NextSlot ELSE {}
  IN /\ \E lost \in SUBSET (due \cup ping) :
          /\ inFlight' = Sent(due, ping, lost)
          /\ lossy' = (lossy \/ lost # {})
     /\ dead' = (dead \/ \E s \in DOMAIN inFlight' : IsSpent(inFlight'[s]))
     /\ pinged' = IF pinged >= Keepalive THEN 0 ELSE pinged
     /\ closed' = closed

Tick ==
  /\ closed = "open" /\ ticked > 0
  /\ ticked' = 0
  /\ \/ /\ heard >= Timeout /\ closed' = "Timeout"
        /\ UNCHANGED <<inFlight, dead, pinged, lossy>>
     \/ /\ heard < Timeout /\ dead /\ closed' = "Unreachable"
        /\ UNCHANGED <<inFlight, dead, pinged, lossy>>
     \/ heard < Timeout /\ ~ dead /\ Refresh
  /\ UNCHANGED <<estimate, heard>>

\* Time passes: the caller is not late with its tick, and what the link has
\* not lost is acknowledged within MaxTrip.
Advance ==
  /\ closed = "open" /\ ticked < TickGap
  /\ \A s \in DOMAIN inFlight : \A c \in inFlight[s].copies : c < MaxTrip
  /\ inFlight' = [s \in DOMAIN inFlight |->
       [inFlight[s] EXCEPT !.sent = @ + 1, !.first = @ + 1, !.copies = {c + 1 : c \in @}]]
  /\ heard' = heard + 1 /\ pinged' = pinged + 1 /\ ticked' = ticked + 1
  /\ UNCHANGED <<estimate, dead, closed, lossy>>

Next ==
  \/ Track \/ Hear \/ Tick \/ Advance
  \/ \E s \in DOMAIN inFlight : OnAck(s) \/ OnNack(s)

Spec == Init /\ [][Next]_vars

-----------------------------------------------------------------------------
(* Every variable has its type, the timeout stays in its bounds, and what  *)
(* has spent its retries has marked the session dead (check_retries).      *)
TypeOK ==
  /\ smoothed \in Nat \cup {None} /\ variation \in Nat
  /\ DOMAIN inFlight \subseteq Slots
  /\ \A s \in DOMAIN inFlight :
       /\ inFlight[s].sent \in Nat /\ inFlight[s].first \in Nat
       /\ inFlight[s].retries \in Nat /\ inFlight[s].copies \subseteq Nat
       /\ IsSpent(inFlight[s]) => dead
  /\ CurrentTimeout \in MinRto .. MaxRto
  /\ closed \in {"open", "Timeout", "Unreachable"} /\ ticked \in 0 .. TickGap

(* Karn's algorithm in on_ack: whatever is lost, late or sent again, the   *)
(* estimate stays between the shortest and the longest round trip that the *)
(* link has. One sample that mistook a copy for another would take it out. *)
EstimateWithinTrips == smoothed = None \/ smoothed \in MinTrip .. MaxTrip

(* due: retries back off. A datagram nobody has asked for has waited at    *)
(* least the doubling series before each of its retries, so a peer is not  *)
(* declared unreachable by a short hiccup of a fast link.                  *)
LeastWait[r \in Nat] ==
  IF r = 0 THEN 0 ELSE LeastWait[r - 1] + Lesser(MinRto * 2 ^ (r - 1), MaxRto)

NotGivenUpEarly ==
  \A s \in DOMAIN inFlight :
    ~ inFlight[s].nacked =>
      inFlight[s].first - inFlight[s].sent >= LeastWait[inFlight[s].retries]

(* due and tick: a datagram the peer never acknowledges ends the session   *)
(* within a bounded time, whatever else the peer says and however often it *)
(* asks for it again.                                                      *)
GivenUpInTime ==
  closed = "open" =>
    \A s \in DOMAIN inFlight :
      inFlight[s].first <= (MaxRetries + 1) * (MaxRto + TickGap) + TickGap

(* tick: while the link loses nothing the session stays open, however long *)
(* neither caller has anything to say. The keepalive ping and its          *)
(* acknowledgement come before the timeout does.                           *)
AliveStaysOpen == closed # "open" => lossy
=============================================================================
