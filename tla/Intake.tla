------------------------------- MODULE Intake -------------------------------
(***************************************************************************)
(* The receiving side of one session fed by an arbitrary network: unsplit  *)
(* reliable-ordered frames reach Session::receive in any order, any number *)
(* of times, or never. Frame i carries reliable index i and order index i, *)
(* as send_frames numbers them when nothing is split, and the payload is   *)
(* named by the frame that carried it.                                     *)
(*                                                                         *)
(* A frame passes Dedup first and Ordering second. Dedup marks the index   *)
(* before Ordering may refuse it, so a refused frame never comes back:     *)
(* every retransmission of it is taken for a duplicate.                    *)
(***************************************************************************)
EXTENDS Order

CONSTANT MaxSent   \* frames the peer sends at most: the bound of the model

ASSUME MaxSentAssumption == MaxSent \in Nat

VARIABLES
  sent,       \* frames the peer has sent: indices 0 .. sent - 1 exist
  ordering,   \* Session.ordering
  dedup,      \* Session.dedup
  released,   \* history: the payloads Ordering has released, in order
  refused     \* history: the frames Ordering refused as out of its window

vars == <<sent, ordering, dedup, released, refused>>

Init ==
  /\ sent = 0
  /\ ordering = NewOrdering
  /\ dedup = NewDedup
  /\ released = <<>>
  /\ refused = {}

\* The peer numbers one more frame and puts it on the wire.
PeerSends ==
  /\ sent < MaxSent
  /\ sent' = sent + 1
  /\ UNCHANGED <<ordering, dedup, released, refused>>

\* Mutant: Ordering is asked first, and a refused frame is not marked.
TakeFrameUnmarked(i) ==
  LET pushed == OrderingPush(ordering, i, i)
  IN /\ ~IsHandled(dedup, i)
     /\ dedup' = IF pushed.refused THEN dedup ELSE DedupAccept(dedup, i)
     /\ ordering' = pushed.ordering
     /\ released' = released \o pushed.ready
     /\ refused' = IF pushed.refused THEN refused \cup {i} ELSE refused
     /\ UNCHANGED sent

\* The body of receive's loop for one frame: a first copy, or the
\* retransmission of one Dedup has not marked.
TakeFrame(i) ==
  LET pushed == OrderingPush(ordering, i, i)
  IN /\ ~IsHandled(dedup, i)
     /\ dedup' = DedupAccept(dedup, i)
     /\ ordering' = pushed.ordering
     /\ released' = released \o pushed.ready
     /\ refused' = IF pushed.refused THEN refused \cup {i} ELSE refused
     /\ UNCHANGED sent

\* A copy of a frame Dedup has marked: it is skipped.
SkipDuplicate(i) ==
  /\ IsHandled(dedup, i)
  /\ UNCHANGED vars

Arrive(i) == TakeFrame(i) \/ SkipDuplicate(i)

Next ==
  \/ PeerSends
  \/ \E i \in 0 .. (sent - 1) : Arrive(i)

Spec == Init /\ [][Next]_vars

\* The peer retransmits until it is acknowledged and the link does not lose
\* every copy: each frame sent arrives again and again.
FairSpec ==
  Spec /\ \A i \in 0 .. (MaxSent - 1) : WF_vars(i < sent /\ TakeFrame(i))

-----------------------------------------------------------------------------
(* Every variable has its type.                                             *)
TypeOK ==
  /\ sent \in 0 .. MaxSent
  /\ ordering.expected \in 0 .. sent
  /\ DOMAIN ordering.buffered \subseteq 0 .. (sent - 1)
  /\ \A k \in DOMAIN ordering.buffered : ordering.buffered[k] \in 0 .. (sent - 1)
  /\ dedup.floor \in 0 .. sent
  /\ dedup.seen \subseteq 0 .. (sent - 1)
  /\ released \in Seq(0 .. (sent - 1))
  /\ refused \subseteq 0 .. (sent - 1)

(* Ordering::push: whatever the network does, what has been released is    *)
(* exactly the frames below expected, in order, each once.                 *)
ReleasedInOrder ==
  /\ Len(released) = ordering.expected
  /\ \A j \in 1 .. Len(released) : released[j] = j - 1

(* Ordering::push: what is held lies strictly ahead of the awaited index,  *)
(* inside the window, under its own index. The head of the stream is never *)
(* stuck in the buffer, and a peer cannot make the session hold more.      *)
HeldAhead ==
  \A k \in DOMAIN ordering.buffered :
    /\ ordering.expected < k
    /\ k < ordering.expected + OrderWindow
    /\ ordering.buffered[k] = k

(* Dedup::accept against Ordering::push: as long as no frame was refused,  *)
(* a frame that Dedup calls a duplicate has been released or is held; no   *)
(* frame falls below the floor unread. Once a frame has been refused this  *)
(* fails for good, which is what the guard on refused says.                *)
DuplicatesWereTaken ==
  refused = {} =>
    \A i \in 0 .. (sent - 1) :
      IsHandled(dedup, i) =>
        i < ordering.expected \/ i \in DOMAIN ordering.buffered

(* Dedup::accept: what is remembered stays within DedupWindow of the floor,*)
(* so at most DedupWindow + 1 indices are kept.                            *)
SeenBounded ==
  \A r \in dedup.seen : dedup.floor <= r /\ r <= dedup.floor + DedupWindow

(* Both memories of a session are bounded, whatever a peer sends.           *)
WindowsBounded == HeldAhead /\ SeenBounded

(* receive: nothing that was refused is ever released or held. The index a *)
(* refusal loses is lost for good, and the stream stops there.             *)
RefusedIsLost ==
  \A i \in refused :
    /\ ordering.expected <= i
    /\ i \notin DOMAIN ordering.buffered
    /\ IsHandled(dedup, i)

(* If every frame keeps arriving, every frame is released, unless Ordering *)
(* refused one of them.                                                    *)
AllReleased == <>[](refused # {} \/ ordering.expected = sent)
=============================================================================
