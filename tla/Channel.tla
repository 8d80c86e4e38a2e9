------------------------------ MODULE Channel ------------------------------
(***************************************************************************)
(* What the sessions at the ends of a link promise their callers: payloads *)
(* come out in the order they went in, each at most once, and none is      *)
(* missing unless the channel has admitted a loss. Nothing here is         *)
(* numbered, windowed, split or acknowledged. There is a channel towards   *)
(* each end; Link.tla is shown to implement them.                          *)
(***************************************************************************)
EXTENDS Naturals, Sequences

CONSTANTS
  Ends,
  Visible(_)     \* of some payloads, the ones that are not RakNet's own

VARIABLES        \* for the channel towards each end:
  log,           \* the payloads accepted for sending
  next,          \* how many of them have left the channel
  got,           \* the payloads handed to the receiving caller
  lossy          \* whether the channel has admitted a loss

vars == <<log, next, got, lossy>>

Init ==
  /\ log = [e \in Ends |-> <<>>]
  /\ next = [e \in Ends |-> 0]
  /\ got = [e \in Ends |-> <<>>]
  /\ lossy = [e \in Ends |-> FALSE]

Rest(e) == UNCHANGED <<log[e], next[e], got[e], lossy[e]>>

Accept(e) ==
  /\ Len(log'[e]) > Len(log[e])
  /\ SubSeq(log'[e], 1, Len(log[e])) = log[e]
  /\ UNCHANGED <<next[e], got[e], lossy[e]>>

\* The payloads next in line leave the channel; the caller gets its own.
HandOver(e) ==
  /\ next'[e] \in (next[e] + 1) .. Len(log[e])
  /\ got'[e] = got[e] \o Visible(SubSeq(log[e], next[e] + 1, next'[e]))
  /\ UNCHANGED <<log[e], lossy[e]>>

\* The channel admits that something is lost: those payloads may be some that
\* leave it now, or some that never will.
Lose(e) ==
  /\ lossy'[e] = TRUE
  /\ next'[e] \in next[e] .. Len(log[e])
  /\ UNCHANGED <<log[e], got[e]>>

\* The two channels are used at the same time: a payload that one end answers
\* leaves one channel while the answer enters the other.
Next == \A e \in Ends : Rest(e) \/ Accept(e) \/ HandOver(e) \/ Lose(e)

Spec == Init /\ [][Next]_vars
=============================================================================
