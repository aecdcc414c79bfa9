----------------------------- MODULE Signaling -----------------------------
(***************************************************************************)
(* How a device and the host find each other: the rendezvous (serveWS and  *)
(* its hub, cmd/nc-rendezvous/main.go), the host's half (runSignaling,     *)
(* send, handleOffer and closeSession, cmd/nc-host/main.go) and the        *)
(* device's half (openPeer and onSignal, cmd/nc-rendezvous/web).           *)
(*                                                                         *)
(* A peer is one websocket connection to the rendezvous: an attempt of a   *)
(* device to connect, or one of the host's successive dials. The WebRTC    *)
(* session an attempt leads to lives on the host and outlives the          *)
(* websocket, and also outlives the rendezvous. Attempts and dials are     *)
(* numbered in the order in which they are made.                           *)
(***************************************************************************)
EXTENDS Naturals, Sequences, FiniteSets

CONSTANTS
  Attempts,     \* websocket connections of devices, one per openPeer
  Dials,        \* websocket connections of the host, one per runSignaling
  MaxRestarts,  \* how often the rendezvous may be restarted (bound)
  None

ASSUME SignalingAssumption ==
  /\ Attempts \subseteq Nat /\ Dials \subseteq Nat
  /\ IsFiniteSet(Attempts) /\ IsFiniteSet(Dials)
  /\ Attempts \cap Dials = {}
  /\ MaxRestarts \in Nat
  /\ None \notin Attempts \cup Dials

Peers == Attempts \cup Dials
Ids   == 1..Cardinality(Peers)

\* A message is addressed to a client id, or to 0: the host's registered name.
HostName == 0

VARIABLES
  ws,        \* each connection: none, open, cut (the server has not noticed), gone
  id,        \* client.id, "c<n>", given when the rendezvous accepts
  seq,       \* hub.seq
  hosts,     \* hub.hosts at the host's name
  up,        \* messages on their way to the rendezvous, per connection
  down,      \* messages on their way from it
  restarts,  \* restarts of the rendezvous so far
  hostWs,    \* host.ws
  task,      \* the handleOffer goroutine of each offer
  peer,      \* the From of that offer, as the goroutine sees it
  sessions,  \* host.sessions
  sess,      \* each session: none, open, closed (closeSession to come), over
  view,      \* what the device's page knows of its attempt
  evicted,   \* history: sessions closed because an offer took their place
  misled     \* history: attempts that were given the answer to another offer

rvVars   == <<id, seq, hosts, restarts>>
hostVars == <<hostWs, task, peer, sessions, sess>>
vars     == <<ws, up, down, rvVars, hostVars, view, evicted, misled>>

Message(type, to, of) == [type |-> type, to |-> to, from |-> 0, of |-> of]

Init ==
  /\ ws = [p \in Peers |-> "none"]
  /\ id = [p \in Peers |-> 0]
  /\ seq = 0
  /\ hosts = None
  /\ up = [p \in Peers |-> <<>>]
  /\ down = [p \in Peers |-> <<>>]
  /\ restarts = 0
  /\ hostWs = None
  /\ task = [a \in Attempts |-> "none"]
  /\ peer = [a \in Attempts |-> 0]
  /\ sessions = [i \in Ids |-> None]
  /\ sess = [a \in Attempts |-> "none"]
  /\ view = [a \in Attempts |-> "new"]
  /\ evicted = {}
  /\ misled = {}

---------------------------------------------------------------------------
(* The rendezvous. *)

\* hub.clients: added on accept, removed when the read loop ends.
Clients == {p \in Peers : ws[p] \in {"open", "cut"}}

\* Mutant of Accept: ids are counted from the clients there are now.
AcceptReusing(p, first) ==
  /\ ws[p] = "none"
  /\ ws' = [ws EXCEPT ![p] = "open"]
  /\ seq' = seq
  /\ id' = [id EXCEPT ![p] = Cardinality(Clients) + 1]
  /\ up' = [up EXCEPT ![p] = <<first>>]

\* serveWS accepts: a fresh id from the sequence, and the first message of the
\* connection is on its way.
Accept(p, first) ==
  /\ ws[p] = "none"
  /\ ws' = [ws EXCEPT ![p] = "open"]
  /\ seq' = seq + 1
  /\ id' = [id EXCEPT ![p] = seq + 1]
  /\ up' = [up EXCEPT ![p] = <<first>>]

\* The numbering: those before p in S have been made.
InTurn(p, S) == \A q \in S : q < p => ws[q] # "none"

\* hub.lookup: a host's name first, then a client's id.
Found(to) ==
  IF to = HostName /\ hosts # None THEN {hosts} ELSE {c \in Clients : id[c] = to}

\* The read loop of p takes a "register".
ServeRegister(p) ==
  /\ up[p] # <<>> /\ Head(up[p]).type = "register"
  /\ hosts' = p
  /\ up' = [up EXCEPT ![p] = Tail(@)]
  /\ UNCHANGED <<ws, down, id, seq, restarts, hostVars, view, evicted, misled>>

\* Mutant of Routed: the sender's id is not put on the message.
RoutedUnstamped(c, p) == [down EXCEPT ![c] = Append(@, Head(up[p]))]

\* The message of p on its way to c, with the sender's id on it.
Routed(c, p) == [down EXCEPT ![c] = Append(@, [Head(up[p]) EXCEPT !.from = id[p]])]

\* The read loop of p routes an offer, an answer or an error. An unknown peer
\* and a peer that is gone are reported back; a write to a connection that is
\* cut may also seem to succeed.
ServeRoute(p) ==
  /\ up[p] # <<>> /\ Head(up[p]).type \in {"offer", "answer", "error"}
  /\ LET m     == Head(up[p])
         reply == [down EXCEPT ![p] = Append(@, Message("error", id[p], m.of))]
     IN \/ Found(m.to) = {} /\ down' = IF ws[p] = "open" THEN reply ELSE down
        \/ \E c \in Found(m.to) :
             \/ ws[c] = "open" /\ down' = Routed(c, p)
             \/ ws[c] = "cut" /\ down' \in {down,
                                           IF ws[p] = "open" THEN reply ELSE down}
  /\ up' = [up EXCEPT ![p] = Tail(@)]
  /\ UNCHANGED <<ws, rvVars, hostVars, view, evicted, misled>>

\* Mutant of ServeEnds: the host's name is removed whoever has it by now.
ServeEndsUnchecked(p) ==
  /\ ws[p] = "cut"
  /\ up[p] = <<>>
  /\ ws' = [ws EXCEPT ![p] = "gone"]
  /\ hosts' = IF p \in Dials THEN None ELSE hosts
  /\ id' = [id EXCEPT ![p] = 0]
  /\ UNCHANGED <<up, down, seq, restarts, hostVars, view, evicted, misled>>

\* The read loop of p has read everything and fails: remove(p).
ServeEnds(p) ==
  /\ ws[p] = "cut"
  /\ up[p] = <<>>
  /\ ws' = [ws EXCEPT ![p] = "gone"]
  /\ hosts' = IF hosts = p THEN None ELSE hosts
  /\ id' = [id EXCEPT ![p] = 0]
  /\ UNCHANGED <<up, down, seq, restarts, hostVars, view, evicted, misled>>

\* The rendezvous is restarted: every connection and all it knew is lost, and
\* ids are counted from c1 again.
Restart ==
  /\ restarts < MaxRestarts
  /\ restarts' = restarts + 1
  /\ ws' = [p \in Peers |-> IF p \in Clients THEN "gone" ELSE ws[p]]
  /\ seq' = 0
  /\ hosts' = None
  /\ up' = [p \in Peers |-> <<>>]
  /\ down' = [p \in Peers |-> <<>>]
  /\ id' = [p \in Peers |-> 0]
  /\ UNCHANGED <<hostVars, view, evicted, misled>>

\* A connection breaks: what was on its way down is lost, what was on its way
\* up may still be read.
Cut(p) ==
  /\ ws[p] = "open"
  /\ ws' = [ws EXCEPT ![p] = "cut"]
  /\ down' = [down EXCEPT ![p] = <<>>]
  /\ up' \in {up, [up EXCEPT ![p] = <<>>]}
  /\ UNCHANGED <<rvVars, hostVars, view, evicted, misled>>

---------------------------------------------------------------------------
(* The host. *)

\* runSignaling dials when the connection before has failed. Its 3 s pause is
\* longer than a register of that connection stays unread.
HostDials(h) ==
  /\ InTurn(h, Dials)
  /\ hostWs # None => ws[hostWs] # "open" /\ up[hostWs] = <<>>
  /\ Accept(h, Message("register", 0, None))
  /\ hostWs' = h
  /\ UNCHANGED <<down, hosts, restarts, task, peer, sessions, sess, view, evicted, misled>>

\* The read loop: an offer gets a goroutine of its own, an error is logged.
HostReads ==
  /\ hostWs # None /\ ws[hostWs] = "open" /\ down[hostWs] # <<>>
  /\ LET m == Head(down[hostWs]) IN
       IF m.type = "offer"
       THEN /\ task' = [task EXCEPT ![m.of] = "offered"]
            /\ peer' = [peer EXCEPT ![m.of] = m.from]
       ELSE UNCHANGED <<task, peer>>
  /\ down' = [down EXCEPT ![hostWs] = Tail(@)]
  /\ UNCHANGED <<ws, up, rvVars, hostWs, sessions, sess, view, evicted, misled>>

\* host.send: on whatever connection the host has now; a failure is ignored.
HostSends(m) ==
  up' = IF hostWs # None /\ ws[hostWs] = "open"
        THEN [up EXCEPT ![hostWs] = Append(@, m)] ELSE up

\* Mutant of OfferRefused: the refusal is only logged.
OfferRefusedSilently(a) ==
  /\ task[a] = "offered"
  /\ task' = [task EXCEPT ![a] = "done"]
  /\ UNCHANGED <<ws, up, down, rvVars, hostWs, peer, sessions, sess, view, evicted, misled>>

\* handleOffer, wrong PIN and no valid pairing.
OfferRefused(a) ==
  /\ task[a] = "offered"
  /\ task' = [task EXCEPT ![a] = "done"]
  /\ HostSends(Message("error", peer[a], a))
  /\ UNCHANGED <<ws, down, rvVars, hostWs, peer, sessions, sess, view, evicted, misled>>

\* handleOffer: register the session, closing the one this peer had before.
OfferAccepted(a) ==
  /\ task[a] = "offered"
  /\ task' = [task EXCEPT ![a] = "building"]
  /\ LET old == sessions[peer[a]] IN
       /\ sess' = [b \in Attempts |->
                     IF b = a THEN "open"
                     ELSE IF b = old /\ sess[b] = "open" THEN "closed" ELSE sess[b]]
       /\ evicted' = evicted \cup {b \in Attempts : b = old /\ sess[b] = "open"}
  /\ sessions' = [sessions EXCEPT ![peer[a]] = a]
  /\ UNCHANGED <<ws, up, down, rvVars, hostWs, peer, view, misled>>

\* handleOffer: the answer, unless the session was closed in the meantime (then
\* setting the descriptions fails and the goroutine closes it once more).
OfferAnswered(a) ==
  /\ task[a] = "building"
  /\ task' = [task EXCEPT ![a] = "done"]
  /\ IF sess[a] = "open" THEN HostSends(Message("answer", peer[a], a)) ELSE UNCHANGED up
  /\ UNCHANGED <<ws, down, rvVars, hostWs, peer, sessions, sess, view, evicted, misled>>

\* The peer connection fails, or the device goes away.
SessionFails(a) ==
  /\ sess[a] = "open"
  /\ sess' = [sess EXCEPT ![a] = "closed"]
  /\ UNCHANGED <<ws, up, down, rvVars, hostWs, task, peer, sessions, view, evicted, misled>>

\* Mutant of CloseSession: whatever session the peer has is forgotten.
CloseSessionUnchecked(a) ==
  /\ sess[a] = "closed"
  /\ sess' = [sess EXCEPT ![a] = "over"]
  /\ sessions' = [sessions EXCEPT ![peer[a]] = None]
  /\ UNCHANGED <<ws, up, down, rvVars, hostWs, task, peer, view, evicted, misled>>

\* closeSession: forget the session, unless a newer one has its place.
CloseSession(a) ==
  /\ sess[a] = "closed"
  /\ sess' = [sess EXCEPT ![a] = "over"]
  /\ sessions' = IF sessions[peer[a]] = a
                 THEN [sessions EXCEPT ![peer[a]] = None] ELSE sessions
  /\ UNCHANGED <<ws, up, down, rvVars, hostWs, task, peer, view, evicted, misled>>

---------------------------------------------------------------------------
(* A device. *)

\* openPeer: open a websocket and send the offer.
DeviceOffers(a) ==
  /\ InTurn(a, Attempts)
  /\ Accept(a, Message("offer", HostName, a))
  /\ view' = [view EXCEPT ![a] = "offered"]
  /\ UNCHANGED <<down, hosts, restarts, hostVars, evicted, misled>>

\* onSignal: an answer is applied, whichever offer it was made for; an error is
\* shown.
DeviceReads(a) ==
  /\ ws[a] = "open" /\ down[a] # <<>>
  /\ LET m == Head(down[a]) IN
       /\ view' = [view EXCEPT ![a] = IF m.type = "answer" THEN "answered" ELSE "refused"]
       /\ misled' = misled \cup {b \in {a} : m.type = "answer" /\ m.of # a}
  /\ down' = [down EXCEPT ![a] = Tail(@)]
  /\ UNCHANGED <<ws, up, rvVars, hostVars, evicted>>

---------------------------------------------------------------------------
Serve(p)  == ServeRegister(p) \/ ServeRoute(p) \/ ServeEnds(p)
Handle(a) == OfferRefused(a) \/ OfferAccepted(a) \/ OfferAnswered(a)

Next ==
  \/ \E p \in Peers : Serve(p) \/ Cut(p)
  \/ \E h \in Dials : HostDials(h)
  \/ HostReads
  \/ \E a \in Attempts : Handle(a) \/ SessionFails(a) \/ CloseSession(a)
  \/ \E a \in Attempts : DeviceOffers(a) \/ DeviceReads(a)
  \/ Restart

Spec == Init /\ [][Next]_vars

\* As long as some read loop or handler can run, one of them does. Each step takes
\* a message or ends a handler, so none can be passed over for ever. Nothing makes
\* a device connect or a connection stay up.
Fairness ==
  WF_vars(\/ \E p \in Peers : Serve(p)
          \/ HostReads
          \/ \E a \in Attempts : Handle(a) \/ CloseSession(a) \/ DeviceReads(a))

FairSpec == Spec /\ Fairness

---------------------------------------------------------------------------
(* Properties. *)

Messages == [type : {"register", "offer", "answer", "error"}, to : Ids \cup {0},
             from : Ids \cup {0}, of : Attempts \cup {None}]

TypeOK ==
  /\ ws \in [Peers -> {"none", "open", "cut", "gone"}]
  /\ id \in [Peers -> Ids \cup {0}]
  /\ seq \in Ids \cup {0}
  /\ hosts \in Dials \cup {None}
  /\ up \in [Peers -> Seq(Messages)] /\ down \in [Peers -> Seq(Messages)]
  /\ restarts \in 0..MaxRestarts
  /\ hostWs \in Dials \cup {None}
  /\ task \in [Attempts -> {"none", "offered", "building", "done"}]
  /\ peer \in [Attempts -> Ids \cup {0}]
  /\ \A a \in Attempts : task[a] # "none" => peer[a] \in Ids
  /\ sessions \in [Ids -> Attempts \cup {None}]
  /\ sess \in [Attempts -> {"none", "open", "closed", "over"}]
  /\ view \in [Attempts -> {"new", "offered", "answered", "refused"}]
  /\ evicted \subseteq Attempts
  /\ misled \subseteq Attempts

\* A reconnecting host stays reachable: once the host's current connection has
\* been registered, its name leads to that connection until it breaks, although
\* the rendezvous notices the end of the connection before only later.
HostReachable ==
  hostWs # None /\ ws[hostWs] = "open" /\ up[hostWs] = <<>> => hosts = hostWs

\* The host's list of sessions is exact: an open session is listed under its
\* peer, and a session that has been closed for good is not listed.
SessionsListed ==
  \A a \in Attempts :
    /\ sess[a] = "open" => sessions[peer[a]] = a
    /\ sess[a] = "over" => \A i \in Ids : sessions[i] # a

\* As long as the rendezvous keeps counting, devices do not disturb each other:
\* no attempt is given the answer to another one's offer, and no offer closes a
\* session that is not the offering device's own.
DevicesApart == restarts = 0 => misled = {} /\ evicted = {}

\* An offer is answered or refused, unless a connection breaks on the way or
\* the session the host made of it fails before it is answered.
OfferSettles ==
  \A a \in Attempts :
    view[a] = "offered" ~> \/ view[a] \in {"answered", "refused"}
                           \/ \E p \in {a} \cup Dials : ws[p] \in {"cut", "gone"}
                           \/ sess[a] \in {"closed", "over"}
=============================================================================
