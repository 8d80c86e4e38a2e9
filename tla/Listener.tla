------------------------------ MODULE Listener ------------------------------
(***************************************************************************)
(* The listener (Listener): the offline phase, one session per address and *)
(* the events its caller is told. A session here is what Link.tla shows it *)
(* to be from outside, a channel: it releases what its client sent in      *)
(* order, any number of payloads per datagram, and may drop those of a     *)
(* datagram in which an error occurs. What the caller sends is left out.   *)
(*                                                                         *)
(* The clients are external. A client asks for a session, repeats itself   *)
(* while it waits, then sends its script in order. It may vanish without a *)
(* word. It starts again on an address only when no session is left there. *)
(***************************************************************************)
EXTENDS Integers, FiniteSets, Sequences

CONSTANTS
  Clients,       \* addresses, port and all
  Speakers,      \* bound: those that send anything once they have a session
  Sources,       \* other IP addresses, which only ping
  MaxUser,       \* payloads a client sends for the application
  MaxStarts,     \* times a client starts
  MaxSessions,   \* ListenerConfig::max_sessions
  MaxTracked,    \* ListenerConfig::max_tracked_sources
  PingInterval,  \* ListenerConfig::ping_interval
  Timeout        \* Config::timeout, in ticks

ASSUME ListenerAssumption ==
  /\ {MaxUser, MaxStarts, MaxSessions, MaxTracked, PingInterval, Timeout} \subseteq Nat
  /\ Speakers \subseteq Clients

VARIABLES
  sessions,      \* Listener.sessions: address to session
  lastPing,      \* Listener.last_ping: source to the time since then
  client,        \* what the client at each address is doing (external)
  requests,      \* requests on their way, as <<address, 1 or 2>>
  replies,       \* replies on their way, in the same form
  told,          \* for each address, the events of its last session, in order
  broken,        \* history: addresses whose last session has dropped payloads
  sincePong,     \* history: source to the time since its last pong
  crowded        \* history: sources that got a pong too soon after another

vars == <<sessions, lastPing, client, requests, replies, told, broken, sincePong, crowded>>
onlineVars == <<sessions, told, broken>>
pingVars == <<lastPing, sincePong, crowded>>

EmptyMap == [x \in {} |-> {}]
Put(f, x, v) == [y \in DOMAIN f \cup {x} |-> IF y = x THEN v ELSE f[y]]
Without(f, xs) == [y \in DOMAIN f \ xs |-> f[y]]

\* What a client sends, by number: its handshake (a connection request, then a
\* new incoming connection), the application's payloads, a farewell.
Request == 1
Incoming == 2
Farewell == MaxUser + 3
User == 3 .. MaxUser + 2

\* Session::new. quiet counts the ticks since the peer was last heard; whole
\* says whether the session can get all its client sent: one that a late
\* request opens cannot when an earlier session has acknowledged a part of it.
NewSession(whole) ==
  [state |-> "Connecting", taken |-> 0, answered |-> FALSE, quiet |-> 0, whole |-> whole]

Init ==
  /\ sessions = EmptyMap /\ lastPing = EmptyMap
  /\ sincePong = [i \in Sources |-> PingInterval] /\ crowded = {}
  /\ client = [c \in Clients |-> [phase |-> "left", sent |-> 0, starts |-> 0]]
  /\ requests = {} /\ replies = {}
  /\ told = [c \in Clients |-> <<>>] /\ broken = {}

-----------------------------------------------------------------------------
(* The offline phase.                                                       *)

\* A reply that the network loses is one that is never taken.
Reply(c, kind) == replies' = replies \cup {<<c, kind>>}

\* Mutant: one session too many.
HasSlotLate == Cardinality(DOMAIN sessions) <= MaxSessions
HasSlot == Cardinality(DOMAIN sessions) < MaxSessions

\* The first request is answered from its own bytes; the second one opens.
OnRequest(c, kind) ==
  \/ kind = 1 /\ Reply(c, 1) /\ UNCHANGED onlineVars
  \/ /\ kind = 2 /\ HasSlot
     /\ Reply(c, 2)
     /\ \E whole \in {TRUE, client[c].sent = 0} :
          sessions' = Put(sessions, c, NewSession(whole))
     /\ told' = [told EXCEPT ![c] = <<>>]
     /\ broken' = broken \ {c}
  \/ kind = 2 /\ ~ HasSlot /\ UNCHANGED <<onlineVars, replies>>

\* Mutant: with the map at its limit every source is dropped.
TrackedForgetful ==
  IF Cardinality(DOMAIN lastPing) >= MaxTracked THEN EmptyMap ELSE lastPing

\* allow_ping: with the map at its limit the sources free to ping are dropped.
Tracked ==
  IF Cardinality(DOMAIN lastPing) >= MaxTracked
    THEN Without(lastPing, {i \in DOMAIN lastPing : lastPing[i] >= PingInterval})
    ELSE lastPing

\* A source pings; it gets a pong unless it had one just now, or the ping is cut
\* short, which counts like any other.
Ping(i) ==
  /\ \/ /\ i \in DOMAIN Tracked /\ Tracked[i] < PingInterval
        /\ lastPing' = Tracked
        /\ UNCHANGED <<sincePong, crowded>>
     \/ /\ i \in DOMAIN Tracked => Tracked[i] >= PingInterval
        /\ lastPing' = Put(Tracked, i, 0)
        /\ \/ UNCHANGED <<sincePong, crowded>>
           \/ /\ sincePong' = [sincePong EXCEPT ![i] = 0]
              /\ crowded' = IF sincePong[i] < PingInterval THEN crowded \cup {i} ELSE crowded
  /\ UNCHANGED <<onlineVars, client, requests, replies>>

\* Times stop at the interval: what is older is all alike.
Older(age) == IF age < PingInterval THEN age + 1 ELSE PingInterval

PingClock ==
  /\ lastPing' = [i \in DOMAIN lastPing |-> Older(lastPing[i])]
  /\ sincePong' = [i \in Sources |-> Older(sincePong[i])]
  /\ UNCHANGED <<onlineVars, client, requests, replies, crowded>>

-----------------------------------------------------------------------------
(* A datagram for a session.                                                *)

\* Session::receive with a datagram that releases the next payloads up to
\* last. handle_internal takes those up to handled in their order; an error
\* loses the others, and what was to be returned.
Received(s, handled, last) ==
  LET now == (s.taken + 1) .. handled
  IN [s EXCEPT
        !.state = IF Farewell \in now THEN "ByPeer"
                  ELSE IF Incoming \in now THEN "Connected" ELSE @,
        !.answered = @ \/ Request \in now, !.taken = last, !.quiet = 0]

Event(kind, k) == [kind |-> kind, k |-> k]

\* Of the payloads after first up to last, those of the application, in order.
Payloads(first, last) ==
  LET before == IF first < Incoming THEN Incoming ELSE first
      end    == IF last = Farewell THEN last - 1 ELSE last
  IN [k \in 1 .. (end - before) |-> Event("payload", before + k)]

\* Mutant: a session that closes tells nothing else any more.
EventsLastOnly(before, after, payloads) ==
  IF after.state = "ByPeer" THEN <<Event("left", 0)>>
  ELSE IF before.state # "Connected" /\ after.state = "Connected"
    THEN <<Event("joined", 0)>> \o payloads
  ELSE payloads

\* Mutant: every datagram of a connected session says that it joined.
EventsEveryTime(before, after, payloads) ==
  IF after.state = "ByPeer" THEN Append(payloads, Event("left", 0))
  ELSE IF after.state = "Connected" THEN <<Event("joined", 0)>> \o payloads
  ELSE payloads

\* receive: what the caller is told. A session that connects and closes
\* within one datagram is not announced.
Events(before, after, payloads) ==
  IF after.state = "ByPeer" THEN Append(payloads, Event("left", 0))
  ELSE IF before.state # "Connected" /\ after.state = "Connected"
    THEN <<Event("joined", 0)>> \o payloads
  ELSE payloads

Deliver(c, handled, last, failed) ==
  LET before == sessions[c]
      after  == Received(before, handled, last)
  IN /\ sessions' = IF after.state = "ByPeer" THEN Without(sessions, {c})
                    ELSE Put(sessions, c, after)
     /\ told' = [told EXCEPT ![c] =
          @ \o Events(before, after, IF failed THEN <<>> ELSE Payloads(before.taken, last))]
     /\ broken' = IF failed THEN broken \cup {c} ELSE broken

\* Frames of the client, or an acknowledgement, which releases nothing.
Receive(c) ==
  /\ c \in DOMAIN sessions
  /\ LET s    == sessions[c]
         last == IF s.whole THEN client[c].sent ELSE s.taken
     IN \/ /\ client[c].phase = "open" \/ s.taken < last
           /\ \E upTo \in (s.taken + IF client[c].phase = "open" THEN 0 ELSE 1) .. last :
                Deliver(c, upTo, upTo, FALSE)
        \/ \E upTo \in (s.taken + 1) .. last : \E handled \in s.taken .. upTo :
             Deliver(c, handled, upTo, TRUE)
  /\ UNCHANGED <<pingVars, client, requests, replies>>

\* A request arrives. One from an address with a session is given to that
\* session, which cannot decode it and has heard of its peer.
ReceiveRequest(c, kind) ==
  /\ <<c, kind>> \in requests
  /\ requests' = requests \ {<<c, kind>>}
  /\ \/ /\ c \in DOMAIN sessions
        /\ Deliver(c, sessions[c].taken, sessions[c].taken, FALSE)
        /\ UNCHANGED replies
     \/ c \notin DOMAIN sessions /\ OnRequest(c, kind)
  /\ UNCHANGED <<pingVars, client>>

-----------------------------------------------------------------------------
(* tick: each session ticks; those that have ended are removed and told of. *)

EndTick(silent, unreachable) ==
  LET gone == silent \cup unreachable
  IN /\ sessions' = [c \in DOMAIN sessions \ gone |->
                       [sessions[c] EXCEPT !.quiet = IF @ < Timeout THEN @ + 1 ELSE @]]
     /\ told' = [c \in Clients |->
                   IF c \in gone THEN Append(told[c], Event("lost", 0)) ELSE told[c]]
     /\ UNCHANGED <<pingVars, client, requests, replies, broken>>

\* Mutant: a session still connecting never times out.
SilentConnected ==
  {c \in DOMAIN sessions : sessions[c].quiet >= Timeout /\ sessions[c].state = "Connected"}

Silent == {c \in DOMAIN sessions : sessions[c].quiet >= Timeout}

\* A session pings while it is connecting too, so a peer that is heard of but
\* acknowledges nothing may prove unreachable in either state.
Tick ==
  /\ DOMAIN sessions # {}
  /\ \E unreachable \in SUBSET (DOMAIN sessions \ Silent) : EndTick(Silent, unreachable)

-----------------------------------------------------------------------------
(* The clients (external).                                                  *)

SetPhase(c, phase) == client' = [client EXCEPT ![c].phase = phase]

\* A client begins anew: it takes no reply from before.
Start(c) ==
  /\ client[c].phase = "left" /\ client[c].starts < MaxStarts
  /\ c \notin DOMAIN sessions
  /\ client' = [client EXCEPT ![c] = [phase |-> "asking1", sent |-> 0, starts |-> @.starts + 1]]
  /\ replies' = {r \in replies : r[1] # c}
  /\ UNCHANGED <<onlineVars, pingVars, requests>>

\* It sends the request it waits on, for the first time or again.
Ask(c) ==
  /\ \E kind \in 1 .. 2 :
       /\ client[c].phase = <<"asking1", "asking2">>[kind]
       /\ <<c, kind>> \notin requests
       /\ requests' = requests \cup {<<c, kind>>}
  /\ UNCHANGED <<onlineVars, pingVars, client, replies>>

TakeReply(c) ==
  /\ \E kind \in 1 .. 2 :
       /\ <<c, kind>> \in replies
       /\ client[c].phase = <<"asking1", "asking2">>[kind]
       /\ SetPhase(c, <<"asking2", "open">>[kind])
       /\ replies' = replies \ {<<c, kind>>}
  /\ UNCHANGED <<onlineVars, pingVars, requests>>

\* It sends the next of its script; its "incoming" answers the session's
\* answer, and after its "disconnect" it has left.
ClientSends(c) ==
  /\ c \in Speakers /\ client[c].phase = "open" /\ client[c].sent < Farewell
  /\ client[c].sent = Request => c \in DOMAIN sessions /\ sessions[c].answered
  /\ client' = [client EXCEPT ![c].sent = @ + 1,
                  ![c].phase = IF client[c].sent + 1 = Farewell THEN "left" ELSE @]
  /\ UNCHANGED <<onlineVars, pingVars, requests, replies>>

\* It goes without a word.
Vanish(c) ==
  /\ client[c].phase # "left"
  /\ SetPhase(c, "left")
  /\ UNCHANGED <<onlineVars, pingVars, requests, replies>>

Next ==
  \/ \E c \in Clients :
       \/ Start(c) \/ Ask(c) \/ TakeReply(c) \/ ClientSends(c) \/ Vanish(c)
       \/ Receive(c) \/ \E kind \in 1 .. 2 : ReceiveRequest(c, kind)
  \/ \E i \in Sources : Ping(i)
  \/ PingClock
  \/ Tick

Spec == Init /\ [][Next]_vars

\* Silence grows by a tick, or ends a session by it.
SilenceCounts == \E c \in DOMAIN sessions : c \in Silent \/ sessions[c].quiet < Timeout

\* The caller's loop ticks for ever, and silence adds up. Nothing is assumed of
\* the clients, nor that a tick ever finds one of them unreachable.
FairSpec == Spec /\ WF_vars(Tick /\ SilenceCounts)

-----------------------------------------------------------------------------
(* Properties.                                                              *)

EventSet == [kind : {"joined", "payload", "left", "lost"}, k : Nat]

\* Where in the events of a session those of some kinds stand.
Those(events, kinds) == {k \in DOMAIN events : events[k].kind \in kinds}
Joins(events) == Those(events, {"joined"})
Ends(events) == Those(events, {"left", "lost"})
Told(events) == Those(events, {"payload"})
Numbers(events) == {events[p].k : p \in Told(events)}

\* The variables have their types, and never are there more sessions than
\* ListenerConfig::max_sessions.
TypeOK ==
  /\ DOMAIN sessions \subseteq Clients /\ Cardinality(DOMAIN sessions) <= MaxSessions
  /\ \A c \in DOMAIN sessions :
       sessions[c] \in [state : {"Connecting", "Connected"}, taken : 0 .. Farewell,
                       answered : BOOLEAN, quiet : 0 .. Timeout, whole : BOOLEAN]
  /\ DOMAIN lastPing \subseteq Sources /\ \A i \in DOMAIN lastPing : lastPing[i] \in 0 .. PingInterval
  /\ client \in [Clients -> [phase : {"left", "asking1", "asking2", "open"},
                             sent : 0 .. Farewell, starts : 0 .. MaxStarts]]
  /\ requests \subseteq Clients \X (1 .. 2) /\ replies \subseteq Clients \X (1 .. 2)
  /\ told \in [Clients -> Seq(EventSet)] /\ broken \subseteq Clients
  /\ sincePong \in [Sources -> 0 .. PingInterval] /\ crowded \subseteq Sources

\* The events of a session tell its life: at most one joined, and a session is
\* Connected just when it has been told; exactly one end, after all else, just
\* when the listener has dropped it; and no payload before the join of a
\* session that goes on, unless it has dropped payloads (receive, tick).
EventsTellTheSession ==
  \A c \in Clients :
    /\ \A j, k \in Joins(told[c]) : j = k
    /\ c \in DOMAIN sessions =>
         /\ Ends(told[c]) = {}
         /\ sessions[c].state = "Connected" <=> Joins(told[c]) # {}
         /\ c \notin broken => \A p \in Told(told[c]) : \E j \in Joins(told[c]) : j < p
    /\ c \notin DOMAIN sessions /\ told[c] # <<>> => Ends(told[c]) = {Len(told[c])}

\* The payloads told of a session are what its client sent the application, in
\* order and each once; of a session that has dropped none, all up to some
\* point: up to what it has taken, and all there were if its client said
\* farewell (receive).
PayloadsToldInOrder ==
  \A c \in Clients :
    /\ \A p, q \in Told(told[c]) : p < q => told[c][p].k < told[c][q].k
    /\ c \notin broken =>
         \E n \in 0 .. Farewell :
           /\ Numbers(told[c]) = {k \in User : k <= n}
           /\ c \in DOMAIN sessions => n = sessions[c].taken
           /\ Those(told[c], {"left"}) # {} => n = Farewell

\* No source gets two pongs within ping_interval, not even when the map of
\* sources overflows and is pruned in between (allow_ping).
PongsSpaced == crowded = {}

\* The session of a client that has left, in whatever phase of the handshake
\* and with whatever is still on its way, ends and frees its slot (tick).
SlotsFreed == \A c \in Clients : client[c].phase = "left" ~> c \notin DOMAIN sessions
=============================================================================
