-------------------------------- MODULE Link --------------------------------
(***************************************************************************)
(* Two sessions on a network that loses, duplicates and reorders datagrams *)
(* (tests/loopback.rs, with a worse network). Each end sends its script of *)
(* payloads, ticks at any time with any combination of timers due, and may *)
(* close. The network never forgets: a datagram once transmitted may be    *)
(* delivered at any later time, any number of times, or never.             *)
(***************************************************************************)
EXTENDS Session

CONSTANTS
  Ends,          \* the two ends
  Script,        \* for each end, the payloads its caller sends, in order
  Allowed,       \* for each end, which of "silence", "expiry", "nack", "ping"
                 \* and "close" may happen there
  MaxNet,        \* datagrams on their way to one end at a time
  MaxRanges,     \* ranges of a NACK
  MaxResends,    \* bound: no NACK that has a datagram sent again more often
  MaxLog         \* no ping once an end has sent so many payloads

ASSUME LinkAssumption ==
  /\ IsFiniteSet(Ends) /\ Cardinality(Ends) = 2
  /\ DOMAIN Script = Ends
  /\ \A e \in Ends :
       Script[e] \in Seq([kind : {"user", "request", "incoming"}, id : Nat, parts : Nat \ {0}])
  /\ Allowed \in [Ends -> SUBSET {"silence", "expiry", "nack", "ping", "close"}]
  /\ {MaxNet, MaxRanges, MaxResends, MaxLog} \subseteq Nat

VARIABLES
  ses,         \* the session of each end
  net,         \* for each end, the datagrams transmitted towards it
  delivered,   \* for each end, the payloads receive has returned to the caller
  pos          \* for each end, how much of its script it has called send with

vars == <<ses, net, delivered, pos>>

Other(e) == CHOOSE x \in Ends : x # e

Init ==
  /\ ses = [e \in Ends |-> NewSession]
  /\ net = [e \in Ends |-> {}]
  /\ delivered = [e \in Ends |-> <<>>]
  /\ pos = [e \in Ends |-> 0]

\* What follows every call: the caller polls the outbox until it is empty, as
\* Listener::drain does, and the network loses some of those datagrams. netNow
\* is what is on its way besides them.
Drain(e, s, netNow) ==
  /\ ses' = [ses EXCEPT ![e] = [s EXCEPT !.outbox = <<>>]]
  /\ \E through \in SUBSET Range(s.outbox) :
       net' = [netNow EXCEPT ![Other(e)] = @ \cup through]
  /\ Cardinality(net'[Other(e)]) <= MaxNet

\* The caller sends the next payload, and does not try again if it is refused.
CallSend(e) ==
  /\ pos[e] < Len(Script[e])
  /\ pos' = [pos EXCEPT ![e] = @ + 1]
  /\ Drain(e, Send(ses[e], Script[e][pos[e] + 1]).s, net)
  /\ UNCHANGED delivered

Take(e, d, netNow) ==
  LET got == Receive(ses[e], d)
  IN /\ Drain(e, got.s, netNow)
     /\ delivered' = [delivered EXCEPT ![e] = @ \o got.out]
     /\ UNCHANGED pos

\* One copy of d arrives; another may still be on its way.
Deliver(e, d) == \E left \in {net[e], net[e] \ {d}} : Take(e, d, [net EXCEPT ![e] = left])

\* A NACK, which no session sends but receive answers. Its ranges may overlap;
\* those that name nothing in flight are left out.
DeliverNack(e, ranges) ==
  /\ "nack" \in Allowed[e]
  /\ \A q \in DOMAIN ses[e].inFlight :
       ses[e].inFlight[q].retries + Cardinality({k \in DOMAIN ranges : q \in ranges[k]}) <= MaxResends
  /\ Take(e, [type |-> "nack", ranges |-> ranges], net)

CallTick(e, due, expired, silent, ping) ==
  /\ expired # {} => "expiry" \in Allowed[e]
  /\ silent => "silence" \in Allowed[e]
  /\ ping => "ping" \in Allowed[e] /\ Len(ses[e].log) < MaxLog
  /\ Drain(e, Tick(ses[e], due, expired, silent, ping), net)
  /\ UNCHANGED <<delivered, pos>>

CallClose(e) ==
  /\ "close" \in Allowed[e]
  /\ Drain(e, Close(ses[e]), net)
  /\ UNCHANGED <<delivered, pos>>

Next ==
  \E e \in Ends :
    \/ CallSend(e)
    \/ \E d \in net[e] : Deliver(e, d)
    \/ \E ranges \in SeqOf(SUBSET DOMAIN ses[e].inFlight \ {{}}, MaxRanges) :
         DeliverNack(e, ranges)
    \/ \E due \in SUBSET DOMAIN ses[e].inFlight,
          expired \in SUBSET DOMAIN ses[e].pending, silent, ping \in BOOLEAN :
         CallTick(e, due, expired, silent, ping)
    \/ CallClose(e)

Spec == Init /\ [][Next]_vars

-----------------------------------------------------------------------------
(* Fairness. The program ticks forever (the loop of bedrock-cli), and the   *)
(* retransmission timer of each unacknowledged datagram runs out: in the    *)
(* end a tick finds it due. Nothing is assumed of the network.              *)

TickWithDue(e, q) ==
  \E due \in SUBSET DOMAIN ses[e].inFlight :
    q \in due /\ CallTick(e, due, {}, FALSE, FALSE)

FairCaller ==
  \A e \in Ends :
    /\ WF_vars(CallSend(e))
    /\ \A q \in 0 .. (MaxLog * MaxFragments) : WF_vars(TickWithDue(e, q))

FairSpec == Spec /\ FairCaller

-----------------------------------------------------------------------------
(* The payload sent k-th and the frames it went out in.                     *)
FirstFrame(log, k) == FoldLeft(LAMBDA n, p : n + p.parts, 0, SubSeq(log, 1, k - 1))

IsInFlight(s, rel) ==
  \E q \in DOMAIN s.inFlight :
    \E f \in Range(s.inFlight[q].datagram.frames) : f.rel = rel

IsForCaller(p) == p.kind = "user"

(* The payloads of log that are the caller's, in order.                     *)
AddForCaller(got, p) == IF IsForCaller(p) THEN Append(got, p) ELSE got
ForCaller(log) == FoldLeft(AddForCaller, <<>>, log)

Pieces(s) == UNION {{<<id, j>> : j \in DOMAIN s.pending[id].pieces} : id \in DOMAIN s.pending}

(* Every variable has its type.                                             *)
TypeOK ==
  \A e \in Ends :
    /\ ses[e].state \in {"Connecting", "Connected"} \cup Reasons
    /\ ses[e].dead \in BOOLEAN
    /\ ses[e].faults \subseteq {"split", "order", "reply", "expired"}
    /\ \A q \in DOMAIN ses[e].inFlight : q < ses[e].nextSeq
    /\ \A d \in net[e] : d.type \in {"frames", "ack"}
    /\ pos[e] \in 0 .. Len(Script[e])
    /\ \A p \in Range(delivered[e]) : IsForCaller(p)

(* Reassembler and Ordering against the sender: whatever order fragments   *)
(* arrive in, a payload held or being put together is the one the peer     *)
(* sent under that order index or cut into those fragments.                *)
BuffersMatchSent ==
  \A e \in Ends :
    LET r   == ses[e]
        log == ses[Other(e)].log
    IN /\ \A k \in DOMAIN r.ordering.buffered :
            k < Len(log) /\ r.ordering.buffered[k] = log[k + 1]
       /\ \A id \in DOMAIN r.pending : \A j \in DOMAIN r.pending[id].pieces :
            /\ r.pending[id].pieces[j] \in Range(log)
            /\ r.pending[id].pieces[j].parts = r.pending[id].count
            /\ r.pending[id].pieces[j] = r.pending[id].pieces[CHOOSE i \in DOMAIN r.pending[id].pieces : TRUE]

(* receive: while nothing was refused or given up, the caller has been     *)
(* handed exactly the payloads of its kind below the awaited index.        *)
NothingSkipped ==
  \A e \in Ends :
    ses[e].faults \subseteq {"expired"} =>
      delivered[e] = ForCaller(SubSeq(ses[Other(e)].log, 1, ses[e].ordering.expected))

(* receive, as session.rs:346 describes it: every payload completed is     *)
(* returned, also when the answer to another one does not fit.             *)
CompletedIsReturned ==
  \A e \in Ends :
    delivered[e] = ForCaller(SubSeq(ses[Other(e)].log, 1, ses[e].ordering.expected))

(* The acknowledgement: receive acknowledges the datagram, so the sender   *)
(* forgets it, before anything is done with its frames. As long as no      *)
(* error has dropped a frame, a fragment that is no longer in flight is    *)
(* being put together, is held, or has been released. It takes a dedup     *)
(* window as wide as the fragments sent since the oldest one missing:      *)
(* below the floor a first copy counts as a duplicate.                     *)
Kept(e) ==
  LET s == ses[Other(e)]
      r == ses[e]
  IN \A k \in 1 .. Len(s.log) : \A j \in 0 .. (s.log[k].parts - 1) :
       \/ IsInFlight(s, Wire(FirstFrame(s.log, k) + j))
       \/ k <= r.ordering.expected
       \/ k - 1 \in DOMAIN r.ordering.buffered
       \/ \E id \in DOMAIN r.pending :
            j \in DOMAIN r.pending[id].pieces /\ r.pending[id].pieces[j] = s.log[k]

AckedIsKept == \A e \in Ends : ses[e].faults = {} => Kept(e)

(* send_frames reserves room for all of a payload or refuses all of it: no *)
(* index is spent on a payload that was not sent whole, so the stream of   *)
(* order indices has no hole the receiver would wait on forever.           *)
PayloadsWhole ==
  \A e \in Ends :
    /\ ses[e].nextOrd = Len(ses[e].log)
    /\ ses[e].nextRel = FirstFrame(ses[e].log, Len(ses[e].log) + 1)

(* What one peer can make this end hold stays bounded: the reassembler     *)
(* believes it holds the bytes it does hold, whatever completed, was       *)
(* refused or expired; the window of unacknowledged datagrams keeps its    *)
(* bound through sends, replies, pings and a disconnect; and a datagram    *)
(* that has gone past the retry limit, by timers or by NACKs, has marked   *)
(* the session dead, so the next tick closes it. How far past the limit    *)
(* NACKs take it until then is not bounded.                                *)
BuffersBounded ==
  \A e \in Ends :
    /\ ses[e].buffered = Cardinality(Pieces(ses[e]))
    /\ ses[e].buffered <= MaxBuffered
    /\ Cardinality(DOMAIN ses[e].pending) <= MaxPending
    /\ Cardinality(DOMAIN ses[e].inFlight) <= MaxInFlight
    /\ \A q \in DOMAIN ses[e].inFlight : Exhausted(ses[e].inFlight[q]) => ses[e].dead

(* close and handle_internal: the disconnect is the last payload of its    *)
(* end, and the session that has taken it is closed.                       *)
DisconnectCloses ==
  \A e \in Ends :
    LET log == ses[Other(e)].log
    IN \A k \in 1 .. Len(log) :
         log[k].kind = "disconnect" =>
           /\ k = Len(log)
           /\ k <= ses[e].ordering.expected /\ ses[e].faults = {} => IsClosed(ses[e])

(* How many of the first n payloads of log are of these kinds.              *)
Those(log, n, kinds) == Cardinality({k \in 1 .. n : log[k].kind \in kinds})

(* handle_internal: however often the network repeats it, a request or a   *)
(* ping that has been released has been answered, and once. A refused      *)
(* answer surfaces as an error.                                            *)
AnsweredOnce ==
  \A e \in Ends :
    ses[e].faults = {} =>
      Those(ses[e].log, Len(ses[e].log), {"accepted", "pong"})
        = Those(ses[Other(e)].log, ses[e].ordering.expected, {"request", "ping"})

(* tick: no datagram stays in flight for ever. It is acknowledged, or its  *)
(* retries run out and the session closes as unreachable, whatever the     *)
(* network does.                                                           *)
InFlightSettles ==
  \A e \in Ends : <>[](ses[e].inFlight = EmptyMap \/ IsClosed(ses[e]))

(* The abstract channels, one towards each end.                             *)
Channels ==
  INSTANCE Channel WITH
    log <- [e \in Ends |-> ses[Other(e)].log],
    next <- [e \in Ends |-> ses[e].ordering.expected],
    got <- delivered,
    lossy <- [e \in Ends |-> ses[e].faults # {}],
    Visible <- ForCaller

(* receive, seen from both callers: the link is two channels that deliver  *)
(* in order, at most once, and skip nothing without having admitted it.    *)
IsTwoChannels == Channels!Spec
=============================================================================
