------------------------------- MODULE Order -------------------------------
(***************************************************************************)
(* The two windows of a RakNet session's receiving side, as operators:     *)
(* Ordering, which holds payloads until the gap ahead of them is filled,   *)
(* and Dedup, which remembers the reliable indices already handled.        *)
(* Session.tla and Intake.tla use them; both windows are constants.        *)
(***************************************************************************)
EXTENDS Integers, Sequences

CONSTANTS
  OrderWindow,   \* payloads held ahead of the awaited one (2048)
  DedupWindow    \* reliable indices remembered below the highest (4096)

\* Config's defaults have order_window < dedup_window; the code enforces
\* neither that nor a positive window.
ASSUME OrderWindowAssumption == OrderWindow \in Nat \ {0}
ASSUME DedupWindowAssumption == DedupWindow \in Nat

-----------------------------------------------------------------------------
(* Ordering: expected is the index awaited, buffered maps the indices held  *)
(* ahead of it to their payloads.                                           *)

NewOrderingFromOne == [expected |-> 1, buffered |-> [i \in {} |-> {}]]   \* mutant
NewOrdering == [expected |-> 0, buffered |-> [i \in {} |-> {}]]

\* Delivered already. Too far ahead to be worth holding.
IsOld(o, i) == i < o.expected
IsOutOfWindow(o, i) == i - o.expected >= OrderWindow

Held(o, i, p) ==
  [k \in DOMAIN o.buffered \cup {i} |-> IF k = i THEN p ELSE o.buffered[k]]

\* Mutant: the drain stops after one payload.
FirstGapOne(e, held) == IF e \in held THEN e + 1 ELSE e

\* The first index from e on that is not held: where the drain loop stops.
FirstGap(e, held) ==
  CHOOSE g \in e .. (e + OrderWindow) :
    /\ g \notin held
    /\ \A k \in e .. (g - 1) : k \in held

\* What stays in the buffer when everything below gap has been released.
\* Mutant: nothing is removed.
HeldFromStart(held, gap) == held
HeldFrom(held, gap) == [k \in {j \in DOMAIN held : j >= gap} |-> held[k]]

\* Mutant: a payload ahead of the gap is released at once.
OrderingPushAtOnce(o, i, p) ==
  IF IsOld(o, i) THEN [ordering |-> o, ready |-> <<>>, refused |-> FALSE]
  ELSE [ordering |-> [o EXCEPT !.expected = i + 1], ready |-> <<p>>, refused |-> FALSE]

\* The outcome of taking payload p at index i: the new state, the payloads
\* released, in order, and whether the index was refused.
OrderingPush(o, i, p) ==
  IF IsOld(o, i) THEN [ordering |-> o, ready |-> <<>>, refused |-> FALSE]
  ELSE IF IsOutOfWindow(o, i)
    THEN [ordering |-> o, ready |-> <<>>, refused |-> TRUE]
  ELSE
    LET held == Held(o, i, p)
        gap  == FirstGap(o.expected, DOMAIN held)
    IN [ordering |->
          [expected |-> gap, buffered |-> HeldFrom(held, gap)],
        ready    |-> [j \in 1 .. (gap - o.expected) |-> held[o.expected + j - 1]],
        refused  |-> FALSE]

-----------------------------------------------------------------------------
(* Dedup: indices below the floor count as handled, seen lists the others.  *)

NewDedup == [floor |-> 0, seen |-> {}]

\* Mutant: only the highest index is remembered.
IsBelowHighest(d, r) == r < d.floor \/ \E k \in d.seen : r <= k
IsHandled(d, r) == r < d.floor \/ r \in d.seen

\* Accepting r: it is marked, and what falls out of the window below the
\* highest index moves into the floor.
DedupAccept(d, r) ==
  LET seen    == d.seen \cup {r}
      highest == CHOOSE h \in seen : \A k \in seen : k <= h
      floor   == highest - DedupWindow
  IN IF floor > d.floor
       THEN [floor |-> floor, seen |-> {k \in seen : k >= floor}]
       ELSE [floor |-> d.floor, seen |-> seen]
=============================================================================
