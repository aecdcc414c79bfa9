-------------------------- MODULE SignalingProofs --------------------------
(***************************************************************************)
(* Proofs about Signaling, for any number of devices, dials of the host    *)
(* and restarts of the rendezvous: a reconnecting host stays reachable,    *)
(* its list of sessions is exact, and devices do not disturb each other.   *)
(***************************************************************************)
EXTENDS Signaling, FiniteSetTheorems, SequenceTheorems, TLAPS

Accepted == {p \in Peers : ws[p] # "none"}

\* Ids are counted from the connections accepted, and a client has one.
IdsCounted ==
  /\ seq <= Cardinality(Accepted)
  /\ \A p \in Peers : ws[p] \in {"open", "cut"} => id[p] \in 1..seq

\* Messages are on their way only where somebody may still read them.
WiresInUse ==
  \A p \in Peers : /\ up[p] # <<>> => ws[p] \in {"open", "cut"}
                   /\ down[p] # <<>> => ws[p] = "open"

\* A device says one thing, its offer, before the host has heard of it.
OfferFirst ==
  \A a \in Attempts :
    /\ up[a] \in {<<>>, <<Message("offer", HostName, a)>>}
    /\ up[a] # <<>> \/ ws[a] = "none" => task[a] = "none"

Register == Message("register", 0, None)

\* What the host says to the device whose offer it has handled.
Said(m) ==
  /\ m.type \in {"answer", "error"} /\ m.of \in Attempts
  /\ m.to = peer[m.of] /\ task[m.of] = "done"

\* The host says who it is before anything else, and only on its newest
\* connection.
HostSays ==
  \A h \in Dials :
    /\ \A i \in 1..Len(up[h]) : (i = 1 /\ up[h][i] = Register) \/ Said(up[h][i])
    /\ h # hostWs => up[h] = <<>>

\* The newest connection has the host's name, or is about to get it.
NameOrRegister ==
  hostWs # None /\ ws[hostWs] = "open" =>
    hosts = hostWs \/ (up[hostWs] # <<>> /\ up[hostWs][1] = Register)

\* An offer on its way down has left its device and has not been read.
OfferDown(q, i, a) == i \in 1..Len(down[q]) /\ down[q][i].type = "offer" /\ down[q][i].of = a

OffersToHost ==
  \A q \in Peers : \A i \in 1..Len(down[q]) :
    LET m == down[q][i] IN
    \/ /\ m.type = "offer" /\ q \in Dials /\ m.of \in Attempts /\ m.from \in Ids
       /\ task[m.of] = "none" /\ up[m.of] = <<>> /\ ws[m.of] # "none"
    \/ m.type = "answer" /\ m.of \in Attempts /\ task[m.of] = "done"
    \/ m.type = "error"

\* There is one offer of each attempt.
OneOffer ==
  \A a \in Attempts, q \in Peers, r \in Peers, i \in Nat, j \in Nat :
    OfferDown(q, i, a) /\ OfferDown(r, j, a) => q = r /\ i = j

WireInv == /\ TypeOK /\ IdsCounted /\ WiresInUse /\ OfferFirst /\ HostSays
           /\ NameOrRegister /\ OffersToHost /\ OneOffer

\* The host's list of sessions and the sessions.
SessionInv ==
  \A a \in Attempts :
    /\ task[a] \in {"none", "offered"} => sess[a] = "none"
    /\ \A i \in Ids : sessions[i] = a => peer[a] = i /\ sess[a] # "none"
    /\ sess[a] = "open" => sessions[peer[a]] = a
    /\ sess[a] = "over" => sessions[peer[a]] # a

\* The ids that lead to p, or did when p sent what is known of it.
Belongs(p, n) ==
  \/ ws[p] \in {"open", "cut"} /\ id[p] = n
  \/ p \in Attempts /\ task[p] # "none" /\ peer[p] = n
  \/ \E q \in Peers : \E i \in 1..Len(down[q]) : OfferDown(q, i, p) /\ down[q][i].from = n

\* Without a restart no id is given twice, not even after its client is gone.
IdsApart ==
  /\ \A p \in Peers, q \in Peers, n \in Ids : Belongs(p, n) /\ Belongs(q, n) => p = q
  /\ \A p \in Peers, n \in Ids : Belongs(p, n) => n <= seq

AnswersHome == \A p \in Peers : \A i \in 1..Len(down[p]) : down[p][i].type = "answer" => down[p][i].of = p

ApartInv == restarts = 0 => IdsApart /\ AnswersHome /\ misled = {} /\ evicted = {}

---------------------------------------------------------------------------
(* Constants, wires. *)

LEMMA PeerFacts ==
  /\ Attempts \subseteq Peers /\ Dials \subseteq Peers /\ Attempts \cap Dials = {}
  /\ None \notin Peers /\ IsFiniteSet(Peers) /\ Cardinality(Peers) \in Nat
  /\ Ids \subseteq Nat /\ 0 \notin Ids /\ MaxRestarts \in Nat
<1>1. IsFiniteSet(Peers)
  BY SignalingAssumption, FS_Union DEF Peers
<1> QED BY <1>1, SignalingAssumption, FS_CardinalityType DEF Peers, Ids

LEMMA MessageTypes ==
  /\ Register \in Messages
  /\ \A a \in Attempts : Message("offer", HostName, a) \in Messages
  /\ \A a \in Attempts, n \in Ids \cup {0}, t \in {"answer", "error"} : Message(t, n, a) \in Messages
  /\ \A m \in Messages, n \in Ids \cup {0} : [m EXCEPT !.from = n] \in Messages
BY DEF Messages, Message, Register, HostName

\* The message at the head of a wire is taken.
LEMMA Taken ==
  ASSUME NEW w \in Seq(Messages), w # <<>>
  PROVE  /\ Head(w) \in Messages /\ Head(w) = w[1] /\ 1 \in 1..Len(w)
         /\ Tail(w) \in Seq(Messages) /\ Len(w) \in Nat /\ Len(Tail(w)) = Len(w) - 1
         /\ \A i \in 1..Len(Tail(w)) : i + 1 \in 1..Len(w) /\ Tail(w)[i] = w[i + 1]
BY HeadTailProperties, EmptySeq, LenProperties

\* A message is put on a wire.
LEMMA Put ==
  ASSUME NEW w \in Seq(Messages), NEW m \in Messages
  PROVE  /\ Append(w, m) \in Seq(Messages) /\ Append(w, m) # <<>>
         /\ Len(w) \in Nat /\ Len(Append(w, m)) = Len(w) + 1
         /\ \A i \in 1..Len(Append(w, m)) :
              \/ i \in 1..Len(w) /\ Append(w, m)[i] = w[i]
              \/ i = Len(w) + 1 /\ Append(w, m)[i] = m
         /\ w # <<>> => Append(w, m)[1] = w[1]
BY AppendProperties, LenProperties, EmptySeq

\* The rendezvous accepts: there is an id left.
LEMMA Accepts ==
  ASSUME TypeOK, IdsCounted, NEW p \in Peers, ws[p] = "none", ws' = [ws EXCEPT ![p] = "open"]
  PROVE  /\ seq + 1 \in Ids
         /\ seq + 1 <= Cardinality(Accepted')
<1>1. Accepted \subseteq Peers /\ p \notin Accepted /\ Accepted' = Accepted \cup {p}
  BY DEF Accepted, TypeOK
<1>2. IsFiniteSet(Accepted)
  BY <1>1, PeerFacts, FS_Subset
<1>3. Cardinality(Accepted') = Cardinality(Accepted) + 1 /\ Cardinality(Accepted) \in Nat
  BY <1>1, <1>2, FS_AddElement, FS_CardinalityType
<1>4. Cardinality(Accepted') <= Cardinality(Peers)
  BY <1>1, PeerFacts, FS_Subset
<1>5. seq \in Nat /\ seq <= Cardinality(Accepted)
  BY PeerFacts DEF TypeOK, IdsCounted
<1> QED BY <1>3, <1>4, <1>5, PeerFacts DEF Ids

LEMMA InitWires == Init => WireInv
<1> SUFFICES ASSUME Init PROVE WireInv
  OBVIOUS
<1> USE PeerFacts DEF Init
<1>1. TypeOK
  BY EmptySeq DEF TypeOK
<1>2. IdsCounted
  <2>1. Accepted = {}
    BY DEF Accepted
  <2> QED BY <2>1, FS_EmptySet DEF IdsCounted
<1>3. WiresInUse /\ OfferFirst /\ HostSays /\ NameOrRegister
  BY EmptySeq DEF WiresInUse, OfferFirst, HostSays, NameOrRegister
<1>4. OffersToHost /\ OneOffer
  BY EmptySeq DEF OffersToHost, OneOffer, OfferDown
<1> QED BY <1>1, <1>2, <1>3, <1>4 DEF WireInv

---------------------------------------------------------------------------
(* What is on its way down. *)

\* On each wire the first message is taken, or all are lost, or nothing happens.
Shrinks ==
  \A r \in Peers : \/ down'[r] = down[r]
                   \/ down'[r] = <<>>
                   \/ down[r] # <<>> /\ down'[r] = Tail(down[r])

LEMMA ShrunkWires ==
  ASSUME TypeOK, Shrinks
  PROVE  \A r \in Peers : /\ down'[r] \in Seq(Messages)
                          /\ down'[r] # <<>> => down[r] # <<>>
                          /\ \E k \in {0, 1} : \A i \in 1..Len(down'[r]) :
                               i + k \in 1..Len(down[r]) /\ down'[r][i] = down[r][i + k]
<1> SUFFICES ASSUME NEW r \in Peers
             PROVE  /\ down'[r] \in Seq(Messages)
                    /\ down'[r] # <<>> => down[r] # <<>>
                    /\ \E k \in {0, 1} : \A i \in 1..Len(down'[r]) :
                         i + k \in 1..Len(down[r]) /\ down'[r][i] = down[r][i + k]
  OBVIOUS
<1>1. down[r] \in Seq(Messages)
  BY DEF TypeOK
<1>2. CASE down'[r] = down[r]
  BY <1>1, <1>2, LenProperties
<1>3. CASE down'[r] = <<>>
  BY <1>3, EmptySeq
<1>4. CASE down[r] # <<>> /\ down'[r] = Tail(down[r])
  BY <1>1, <1>4, Taken
<1> QED BY <1>2, <1>3, <1>4 DEF Shrinks

\* Then there are no other offers than before, nor more.
LEMMA ShrunkOffers ==
  ASSUME TypeOK, OneOffer, Shrinks
  PROVE  OneOffer'
<1> SUFFICES ASSUME NEW a \in Attempts, NEW q \in Peers, NEW r \in Peers, NEW i \in Nat, NEW j \in Nat,
                    OfferDown(q, i, a)', OfferDown(r, j, a)'
             PROVE  q = r /\ i = j
  BY DEF OneOffer
<1>1. PICK k \in {0, 1} : \A n \in 1..Len(down'[q]) :
                            n + k \in 1..Len(down[q]) /\ down'[q][n] = down[q][n + k]
  BY ShrunkWires
<1>2. PICK l \in {0, 1} : \A n \in 1..Len(down'[r]) :
                            n + l \in 1..Len(down[r]) /\ down'[r][n] = down[r][n + l]
  BY ShrunkWires
<1>3. OfferDown(q, i + k, a)
  BY <1>1 DEF OfferDown
<1>4. OfferDown(r, j + l, a)
  BY <1>2 DEF OfferDown
<1>5. q = r /\ i + k = j + l
  BY <1>3, <1>4 DEF OneOffer
<1>6. OfferDown(q, i + l, a)
  BY <1>2, <1>5 DEF OfferDown
<1>7. i + l = i + k
  BY <1>3, <1>6 DEF OneOffer
<1> QED BY <1>5, <1>7

LEMMA OfferUnread ==
  ASSUME OffersToHost, NEW a \in Attempts, NEW q \in Peers, NEW i, OfferDown(q, i, a)
  PROVE  q \in Dials /\ task[a] = "none" /\ up[a] = <<>> /\ ws[a] # "none" /\ down[q][i].from \in Ids
BY DEF OffersToHost, OfferDown

LEMMA ShrunkContents ==
  ASSUME TypeOK, OffersToHost, Shrinks,
         \A a \in Attempts : task[a] = "done" => task'[a] = "done",
         \A a \in Attempts : (\E r \in Peers, i \in Nat : OfferDown(r, i, a)')
           => task'[a] = "none" /\ up'[a] = <<>> /\ ws'[a] # "none"
  PROVE  OffersToHost'
<1> SUFFICES ASSUME NEW q \in Peers, NEW i \in 1..Len(down'[q])
             PROVE  LET m == down'[q][i] IN
                    \/ /\ m.type = "offer" /\ q \in Dials /\ m.of \in Attempts /\ m.from \in Ids
                       /\ task'[m.of] = "none" /\ up'[m.of] = <<>> /\ ws'[m.of] # "none"
                    \/ m.type = "answer" /\ m.of \in Attempts /\ task'[m.of] = "done"
                    \/ m.type = "error"
  BY DEF OffersToHost
<1> DEFINE m == down'[q][i]
<1>1. PICK j \in 1..Len(down[q]) : m = down[q][j]
  BY ShrunkWires
<1>2. CASE m.type = "offer"
  <2>1. q \in Dials /\ m.of \in Attempts /\ m.from \in Ids
    BY <1>1, <1>2 DEF OffersToHost
  <2>2. PICK a \in Attempts : a = m.of
    BY <2>1
  <2>3. OfferDown(q, i, a)'
    BY <1>2, <2>2 DEF OfferDown
  <2>4. i \in Nat
    BY ShrunkWires, LenProperties
  <2>5. task'[a] = "none" /\ up'[a] = <<>> /\ ws'[a] # "none"
    BY <2>3, <2>4
  <2> QED BY <1>2, <2>1, <2>2, <2>5
<1>3. CASE m.type # "offer"
  BY <1>1, <1>3 DEF OffersToHost
<1> QED BY <1>2, <1>3

\* A message is put on the wire to c.
Grows(c, m) == down' = [down EXCEPT ![c] = Append(@, m)]

LEMMA GrownWires ==
  ASSUME TypeOK, NEW c \in Peers, NEW m \in Messages, Grows(c, m)
  PROVE  \A r \in Peers :
           /\ down'[r] \in Seq(Messages)
           /\ down'[r] # <<>> => r = c \/ down[r] # <<>>
           /\ \A i \in 1..Len(down'[r]) :
                \/ i \in 1..Len(down[r]) /\ down'[r][i] = down[r][i]
                \/ r = c /\ i = Len(down[c]) + 1 /\ down'[r][i] = m
<1>1. \A r \in Peers : down[r] \in Seq(Messages) /\ Len(down[r]) \in Nat
  BY LenProperties DEF TypeOK
<1>2. down'[c] = Append(down[c], m) /\ \A r \in Peers \ {c} : down'[r] = down[r]
  BY DEF Grows, TypeOK
<1> SUFFICES ASSUME NEW r \in Peers
             PROVE  /\ down'[r] \in Seq(Messages)
                    /\ down'[r] # <<>> => r = c \/ down[r] # <<>>
                    /\ \A i \in 1..Len(down'[r]) :
                         \/ i \in 1..Len(down[r]) /\ down'[r][i] = down[r][i]
                         \/ r = c /\ i = Len(down[c]) + 1 /\ down'[r][i] = m
  OBVIOUS
<1>3. CASE r = c
  <2>1. /\ Append(down[c], m) \in Seq(Messages)
        /\ \A i \in 1..Len(Append(down[c], m)) :
             \/ i \in 1..Len(down[c]) /\ Append(down[c], m)[i] = down[c][i]
             \/ i = Len(down[c]) + 1 /\ Append(down[c], m)[i] = m
    BY <1>1, Put
  <2> QED BY <1>2, <1>3, <2>1
<1>4. CASE r # c
  BY <1>1, <1>2, <1>4
<1> QED BY <1>3, <1>4

LEMMA GrownOffers ==
  ASSUME TypeOK, OneOffer, NEW c \in Peers, NEW m \in Messages, Grows(c, m),
         m.type = "offer" => \A q \in Peers, i \in Nat : ~OfferDown(q, i, m.of)
  PROVE  OneOffer'
<1> SUFFICES ASSUME NEW a \in Attempts, NEW q \in Peers, NEW r \in Peers, NEW i \in Nat, NEW j \in Nat,
                    OfferDown(q, i, a)', OfferDown(r, j, a)'
             PROVE  q = r /\ i = j
  BY DEF OneOffer
<1>1. OfferDown(q, i, a) \/ (q = c /\ i = Len(down[c]) + 1 /\ m.type = "offer" /\ m.of = a)
  BY GrownWires DEF OfferDown
<1>2. OfferDown(r, j, a) \/ (r = c /\ j = Len(down[c]) + 1 /\ m.type = "offer" /\ m.of = a)
  BY GrownWires DEF OfferDown
<1> QED BY <1>1, <1>2 DEF OneOffer

---------------------------------------------------------------------------
(* The rendezvous. *)

\* A read loop takes a message.
LEMMA LoopTakes ==
  ASSUME WireInv, NEW p \in Peers, up[p] # <<>>, up' = [up EXCEPT ![p] = Tail(@)],
         UNCHANGED <<ws, id, seq, task, peer, hostWs>>
  PROVE  /\ up' \in [Peers -> Seq(Messages)] /\ IdsCounted' /\ OfferFirst' /\ HostSays'
         /\ \A q \in Peers : up'[q] # <<>> => ws'[q] \in {"open", "cut"}
         /\ \A a \in Attempts : up[a] = <<>> => up'[a] = <<>>
         /\ p \in Dials => p = hostWs
<1> USE DEF WireInv
<1>1. /\ up \in [Peers -> Seq(Messages)] /\ up[p] \in Seq(Messages) /\ Tail(up[p]) \in Seq(Messages)
      /\ Len(up[p]) \in Nat /\ Len(Tail(up[p])) = Len(up[p]) - 1
      /\ \A i \in 1..Len(Tail(up[p])) : i + 1 \in 1..Len(up[p]) /\ Tail(up[p])[i] = up[p][i + 1]
  BY Taken DEF TypeOK
<1>2. up'[p] = Tail(up[p]) /\ \A q \in Peers \ {p} : up'[q] = up[q]
  BY <1>1
<1>3. up' \in [Peers -> Seq(Messages)]
  BY <1>1
<1>4. IdsCounted'
  BY DEF IdsCounted, Accepted
<1>5. OfferFirst'
  <2> SUFFICES ASSUME NEW a \in Attempts
               PROVE  /\ up'[a] \in {<<>>, <<Message("offer", HostName, a)>>}
                      /\ up'[a] # <<>> \/ ws'[a] = "none" => task'[a] = "none"
    BY DEF OfferFirst
  <2>1. CASE a = p
    <3>1. up[a] = <<Message("offer", HostName, a)>>
      BY <2>1 DEF OfferFirst
    <3>2. Tail(up[p]) = <<>>
      BY <2>1, <3>1
    <3> QED BY <1>2, <2>1, <3>2 DEF OfferFirst
  <2>2. CASE a # p
    BY <1>2, <2>2, PeerFacts DEF OfferFirst
  <2> QED BY <2>1, <2>2
<1>6. p \in Dials => p = hostWs
  BY DEF HostSays
<1>7. HostSays'
  <2> SUFFICES ASSUME NEW h \in Dials
               PROVE  /\ \A i \in 1..Len(up'[h]) : (i = 1 /\ up'[h][i] = Register) \/ Said(up[h][i])'
                      /\ h # hostWs => up'[h] = <<>>
    BY DEF HostSays
  <2>1. \A m : Said(m)' <=> Said(m)
    BY DEF Said
  <2>2. CASE h = p
    <3>1. \A i \in 1..Len(up'[h]) : up'[h][i] = up[p][i + 1] /\ i + 1 \in 1..Len(up[p]) /\ i + 1 # 1
      BY <1>1, <1>2, <2>2
    <3> QED BY <1>6, <2>1, <2>2, <3>1 DEF HostSays
  <2>3. CASE h # p
    BY <1>2, <2>1, <2>3, PeerFacts DEF HostSays
  <2> QED BY <2>2, <2>3
<1>8. \A q \in Peers : up'[q] # <<>> => ws'[q] \in {"open", "cut"}
  BY <1>2 DEF WiresInUse
<1>9. \A a \in Attempts : up[a] = <<>> => up'[a] = <<>>
  BY <1>2, PeerFacts
<1> QED BY <1>3, <1>4, <1>5, <1>6, <1>7, <1>8, <1>9

\* When nothing is added to what is on its way down, and no offer that is there
\* is handled or sent again, that part of the invariant stays.
LEMMA DownStays ==
  ASSUME WireInv, Shrinks,
         \A a \in Attempts : task[a] = "done" => task'[a] = "done",
         \A a \in Attempts : (\E r \in Peers, i \in Nat : OfferDown(r, i, a)')
           => task'[a] = task[a] /\ (up[a] = <<>> => up'[a] = <<>>) /\ (ws[a] # "none" => ws'[a] # "none")
  PROVE  OffersToHost' /\ OneOffer'
<1> USE DEF WireInv
<1>1. ASSUME NEW a \in Attempts, NEW r \in Peers, NEW i \in Nat, OfferDown(r, i, a)'
      PROVE  task'[a] = "none" /\ up'[a] = <<>> /\ ws'[a] # "none"
  <2>1. PICK k \in {0, 1} : \A n \in 1..Len(down'[r]) :
                              n + k \in 1..Len(down[r]) /\ down'[r][n] = down[r][n + k]
    BY ShrunkWires
  <2>2. OfferDown(r, i + k, a)
    BY <1>1, <2>1 DEF OfferDown
  <2>3. task[a] = "none" /\ up[a] = <<>> /\ ws[a] # "none"
    BY <2>2, OfferUnread
  <2> QED BY <1>1, <2>3
<1> QED BY <1>1, ShrunkContents, ShrunkOffers

LEMMA RegisterWires ==
  ASSUME WireInv, NEW p \in Peers, ServeRegister(p)
  PROVE  WireInv' /\ p \in Dials
<1>1. /\ up[p] \in Seq(Messages) /\ up[p] # <<>> /\ up[p][1].type = "register"
      /\ up' = [up EXCEPT ![p] = Tail(@)] /\ hosts' = p
      /\ UNCHANGED <<ws, down, id, seq, restarts, hostVars, view, evicted, misled>>
  BY Taken DEF ServeRegister, TypeOK, WireInv
<1>2. /\ up' \in [Peers -> Seq(Messages)] /\ IdsCounted' /\ OfferFirst' /\ HostSays'
      /\ \A q \in Peers : up'[q] # <<>> => ws'[q] \in {"open", "cut"}
      /\ \A a \in Attempts : up[a] = <<>> => up'[a] = <<>>
      /\ p \in Dials => p = hostWs
  BY <1>1, LoopTakes DEF hostVars
<1>3. p \in Dials
  <2>1. p \notin Attempts
    BY <1>1 DEF WireInv, OfferFirst, Message
  <2> QED BY <2>1 DEF Peers
<1>4. TypeOK'
  BY <1>1, <1>2, <1>3 DEF WireInv, TypeOK, hostVars
<1>5. WiresInUse'
  BY <1>1, <1>2 DEF WireInv, WiresInUse
<1>6. NameOrRegister'
  BY <1>1, <1>2, <1>3 DEF NameOrRegister, hostVars
<1>7. OffersToHost' /\ OneOffer'
  <2>1. Shrinks
    BY <1>1 DEF Shrinks
  <2> QED BY <1>1, <1>2, <2>1, DownStays DEF hostVars
<1> QED BY <1>2, <1>3, <1>4, <1>5, <1>6, <1>7 DEF WireInv

\* What is routed: an offer to the host's connection, an answer or an error of
\* the host to a client, an error of the rendezvous to the sender.
LEMMA RouteEffect ==
  ASSUME WireInv, NEW p \in Peers, ServeRoute(p)
  PROVE  LET m == up[p][1] IN
         /\ up[p] \in Seq(Messages) /\ up[p] # <<>> /\ m \in Messages /\ id[p] \in Ids
         /\ up' = [up EXCEPT ![p] = Tail(@)]
         /\ UNCHANGED <<ws, rvVars, hostVars, view, evicted, misled>>
         /\ \/ /\ p \in Attempts /\ m = Message("offer", HostName, p)
               /\ up[p] = <<m>>
            \/ p \in Dials /\ p = hostWs /\ Said(m)
         /\ \/ UNCHANGED down
            \/ \E c \in Peers, e \in Messages :
                 /\ Grows(c, e) /\ ws[c] = "open"
                 /\ e.type = "error" \/ (e = [m EXCEPT !.from = id[p]] /\ c \in Found(m.to))
<1> USE DEF WireInv
<1> DEFINE m == up[p][1]
<1>1. /\ up[p] \in Seq(Messages) /\ up[p] # <<>> /\ m \in Messages /\ Head(up[p]) = m
      /\ m.type \in {"offer", "answer", "error"} /\ 1 \in 1..Len(up[p])
  BY Taken DEF ServeRoute, TypeOK
<1>2. ws[p] \in {"open", "cut"} /\ id[p] \in Ids
  <2>1. ws[p] \in {"open", "cut"}
    BY <1>1 DEF WiresInUse
  <2>2. id[p] \in 1..seq /\ id[p] \in Ids \cup {0}
    BY <2>1 DEF IdsCounted, TypeOK
  <2> QED BY <2>1, <2>2
<1>3. \/ p \in Attempts /\ m = Message("offer", HostName, p) /\ up[p] = <<m>>
      \/ p \in Dials /\ p = hostWs /\ Said(m)
  <2>1. CASE p \in Attempts
    BY <1>1, <2>1 DEF OfferFirst
  <2>2. CASE p \in Dials
    BY <1>1, <2>2 DEF HostSays, Register, Message
  <2> QED BY <2>1, <2>2 DEF Peers
<1>4. m.of \in Attempts
  BY <1>3 DEF Said, Message
<1>5. Message("error", id[p], m.of) \in Messages /\ Message("error", id[p], m.of).type = "error"
  BY <1>2, <1>4, MessageTypes DEF Message
<1>6. [m EXCEPT !.from = id[p]] \in Messages
  BY <1>1, <1>2, MessageTypes
<1>7. \A c \in Found(m.to) : c \in Peers
  BY PeerFacts DEF Found, Clients, TypeOK
<1>8. \/ UNCHANGED down
      \/ Grows(p, Message("error", id[p], m.of)) /\ ws[p] = "open"
      \/ \E c \in Found(m.to) : Grows(c, [m EXCEPT !.from = id[p]]) /\ ws[c] = "open"
  BY <1>1 DEF ServeRoute, Routed, Grows
<1>9. \/ UNCHANGED down
      \/ \E c \in Peers, e \in Messages :
           /\ Grows(c, e) /\ ws[c] = "open"
           /\ e.type = "error" \/ (e = [m EXCEPT !.from = id[p]] /\ c \in Found(m.to))
  BY <1>5, <1>6, <1>7, <1>8
<1>10. up' = [up EXCEPT ![p] = Tail(@)] /\ UNCHANGED <<ws, rvVars, hostVars, view, evicted, misled>>
  BY DEF ServeRoute
<1> QED BY <1>1, <1>2, <1>3, <1>9, <1>10

LEMMA RouteWires ==
  ASSUME WireInv, NEW p \in Peers, ServeRoute(p)
  PROVE  WireInv'
<1> DEFINE m == up[p][1]
<1>1. /\ up[p] \in Seq(Messages) /\ up[p] # <<>> /\ m \in Messages /\ id[p] \in Ids
      /\ up' = [up EXCEPT ![p] = Tail(@)]
      /\ UNCHANGED <<ws, rvVars, hostVars, view, evicted, misled>>
      /\ \/ p \in Attempts /\ m = Message("offer", HostName, p) /\ up[p] = <<m>>
         \/ p \in Dials /\ p = hostWs /\ Said(m)
      /\ \/ UNCHANGED down
         \/ \E c \in Peers, e \in Messages :
              /\ Grows(c, e) /\ ws[c] = "open"
              /\ e.type = "error" \/ (e = [m EXCEPT !.from = id[p]] /\ c \in Found(m.to))
  BY RouteEffect
<1>2. /\ up' \in [Peers -> Seq(Messages)] /\ IdsCounted' /\ OfferFirst' /\ HostSays'
      /\ \A q \in Peers : up'[q] # <<>> => ws'[q] \in {"open", "cut"}
      /\ \A a \in Attempts : up[a] = <<>> => up'[a] = <<>>
  BY <1>1, LoopTakes DEF hostVars, rvVars
<1>3. NameOrRegister'
  <2> SUFFICES ASSUME hostWs # None, ws[hostWs] = "open"
               PROVE  hosts = hostWs \/ (up'[hostWs] # <<>> /\ up'[hostWs][1] = Register)
    BY <1>1 DEF NameOrRegister, rvVars, hostVars
  <2>1. CASE p = hostWs
    <3>1. m # Register
      <4>1. p \notin Attempts
        BY <2>1, PeerFacts DEF WireInv, TypeOK
      <4> QED BY <1>1, <4>1 DEF Said, Register, Message
    <3> QED BY <2>1, <3>1 DEF WireInv, NameOrRegister
  <2>2. CASE p # hostWs
    <3>1. hostWs \in Peers
      BY PeerFacts DEF WireInv, TypeOK
    <3>2. up'[hostWs] = up[hostWs]
      BY <1>1, <2>2, <3>1 DEF WireInv, TypeOK
    <3> QED BY <3>2 DEF WireInv, NameOrRegister
  <2> QED BY <2>1, <2>2
<1>4. CASE UNCHANGED down
  <2>1. TypeOK' /\ WiresInUse'
    BY <1>1, <1>2, <1>4 DEF WireInv, TypeOK, WiresInUse, rvVars, hostVars
  <2>2. Shrinks
    BY <1>4 DEF Shrinks
  <2>3. OffersToHost' /\ OneOffer'
    BY <1>1, <1>2, <2>2, DownStays DEF hostVars
  <2> QED BY <1>2, <1>3, <2>1, <2>3 DEF WireInv
<1>5. ASSUME NEW c \in Peers, NEW e \in Messages, Grows(c, e), ws[c] = "open",
             e.type = "error" \/ (e = [m EXCEPT !.from = id[p]] /\ c \in Found(m.to))
      PROVE  WireInv'
  <2>1. \A r \in Peers : /\ down'[r] \in Seq(Messages)
                         /\ down'[r] # <<>> => r = c \/ down[r] # <<>>
                         /\ \A i \in 1..Len(down'[r]) :
                              \/ i \in 1..Len(down[r]) /\ down'[r][i] = down[r][i]
                              \/ r = c /\ i = Len(down[c]) + 1 /\ down'[r][i] = e
    BY <1>5, GrownWires DEF WireInv
  <2>2. down' \in [Peers -> Seq(Messages)]
    BY <1>5, <2>1 DEF Grows, WireInv, TypeOK
  <2>3. TypeOK' /\ WiresInUse'
    BY <1>1, <1>2, <1>5, <2>1, <2>2 DEF WireInv, TypeOK, WiresInUse, rvVars, hostVars
  <2>4. e.type = "offer" =>
          /\ p \in Attempts /\ c \in Dials /\ e.of = p /\ e.from = id[p]
          /\ up[p] # <<>> /\ up'[p] = <<>>
    <3> SUFFICES ASSUME e.type = "offer"
                 PROVE  /\ p \in Attempts /\ c \in Dials /\ e.of = p /\ e.from = id[p]
                        /\ up[p] # <<>> /\ up'[p] = <<>>
      OBVIOUS
    <3>1. e = [m EXCEPT !.from = id[p]] /\ c \in Found(m.to)
      BY <1>5
    <3>2. e.of = m.of /\ e.type = m.type /\ e.from = id[p]
      BY <1>1, <3>1 DEF Messages
    <3>3. p \in Attempts /\ m = Message("offer", HostName, p) /\ up[p] = <<m>>
      BY <1>1, <3>2 DEF Said
    <3>4. m.to = HostName /\ m.of = p
      BY <3>3 DEF Message
    <3>5. \A q \in Clients : id[q] # HostName
      BY PeerFacts DEF Clients, WireInv, IdsCounted, HostName, TypeOK
    <3>6. c \in Dials
      BY <3>1, <3>4, <3>5 DEF Found, WireInv, TypeOK
    <3>7. up'[p] = <<>>
      <4>1. up'[p] = Tail(up[p])
        BY <1>1 DEF WireInv, TypeOK
      <4>2. Tail(<<m>>) = <<>>
        BY <1>1
      <4> QED BY <3>3, <4>1, <4>2
    <3> QED BY <3>2, <3>3, <3>4, <3>6, <3>7
  <2>5. e.type = "answer" => e.of \in Attempts /\ task[e.of] = "done"
    <3> SUFFICES ASSUME e.type = "answer" PROVE e.of \in Attempts /\ task[e.of] = "done"
      OBVIOUS
    <3>1. e = [m EXCEPT !.from = id[p]]
      BY <1>5
    <3>2. e.of = m.of /\ e.type = m.type
      BY <1>1, <3>1 DEF Messages
    <3>3. Said(m)
      BY <1>1, <3>2 DEF Message
    <3> QED BY <3>2, <3>3 DEF Said
  <2>6. e.type \in {"offer", "answer", "error"}
    <3>1. m.type \in {"offer", "answer", "error"}
      BY <1>1 DEF Said, Message
    <3> QED BY <1>1, <1>5, <3>1 DEF Messages
  <2>7. OneOffer'
    <3>1. ASSUME e.type = "offer", NEW q \in Peers, NEW i \in Nat, OfferDown(q, i, e.of)
          PROVE  FALSE
      BY <2>4, <3>1, OfferUnread DEF WireInv
    <3> QED BY <1>5, <3>1, GrownOffers DEF WireInv
  <2>8. OffersToHost'
    <3> SUFFICES ASSUME NEW r \in Peers, NEW i \in 1..Len(down'[r])
                 PROVE  LET n == down'[r][i] IN
                        \/ /\ n.type = "offer" /\ r \in Dials /\ n.of \in Attempts /\ n.from \in Ids
                           /\ task'[n.of] = "none" /\ up'[n.of] = <<>> /\ ws'[n.of] # "none"
                        \/ n.type = "answer" /\ n.of \in Attempts /\ task'[n.of] = "done"
                        \/ n.type = "error"
      BY DEF OffersToHost
    <3>1. CASE i \in 1..Len(down[r]) /\ down'[r][i] = down[r][i]
      BY <1>1, <1>2, <3>1 DEF WireInv, OffersToHost, hostVars
    <3>2. CASE r = c /\ down'[r][i] = e
      <4>1. e.type = "offer" => task[p] = "none" /\ ws[p] # "none"
        BY <2>4 DEF WireInv, OfferFirst, WiresInUse
      <4> QED BY <1>1, <2>4, <2>5, <2>6, <3>2, <4>1 DEF hostVars
    <3> QED BY <2>1, <3>1, <3>2
  <2> QED BY <1>2, <1>3, <2>3, <2>7, <2>8 DEF WireInv
<1> QED BY <1>1, <1>4, <1>5

LEMMA EndsWires ==
  ASSUME WireInv, NEW p \in Peers, ServeEnds(p)
  PROVE  WireInv'
<1> USE DEF WireInv
<1>1. /\ ws' = [ws EXCEPT ![p] = "gone"] /\ id' = [id EXCEPT ![p] = 0] /\ ws[p] = "cut" /\ up[p] = <<>>
      /\ hosts' = (IF hosts = p THEN None ELSE hosts)
      /\ UNCHANGED <<up, down, seq, restarts, hostVars, view, evicted, misled>>
  BY DEF ServeEnds
<1>2. /\ ws'[p] = "gone" /\ id'[p] = 0
      /\ \A q \in Peers \ {p} : ws'[q] = ws[q] /\ id'[q] = id[q]
  BY <1>1 DEF TypeOK
<1>3. TypeOK'
  BY <1>1, PeerFacts DEF TypeOK, hostVars
<1>4. IdsCounted'
  <2>1. Accepted' = Accepted
    BY <1>1, <1>2 DEF Accepted
  <2> QED BY <1>1, <1>2, <2>1 DEF IdsCounted
<1>5. WiresInUse'
  BY <1>1, <1>2 DEF WiresInUse
<1>6. OfferFirst' /\ HostSays'
  <2>1. \A m : Said(m)' <=> Said(m)
    BY <1>1 DEF Said, hostVars
  <2>2. \A a \in Attempts : ws'[a] = "none" <=> ws[a] = "none"
    BY <1>1, <1>2, PeerFacts
  <2> QED BY <1>1, <2>1, <2>2 DEF OfferFirst, HostSays, hostVars
<1>7. NameOrRegister'
  <2>1. hostWs # None => hostWs \in Peers
    BY PeerFacts DEF TypeOK
  <2> QED BY <1>1, <1>2, <2>1 DEF NameOrRegister, hostVars
<1>8. OffersToHost' /\ OneOffer'
  <2>1. Shrinks
    BY <1>1 DEF Shrinks
  <2>2. \A a \in Attempts : ws[a] # "none" => ws'[a] # "none"
    BY <1>1, <1>2, PeerFacts
  <2> QED BY <1>1, <2>1, <2>2, DownStays DEF hostVars
<1> QED BY <1>3, <1>4, <1>5, <1>6, <1>7, <1>8

LEMMA CutWires ==
  ASSUME WireInv, NEW p \in Peers, Cut(p)
  PROVE  WireInv'
<1> USE DEF WireInv
<1>1. /\ ws' = [ws EXCEPT ![p] = "cut"] /\ ws[p] = "open"
      /\ down' = [down EXCEPT ![p] = <<>>]
      /\ up' = up \/ up' = [up EXCEPT ![p] = <<>>]
      /\ UNCHANGED <<rvVars, hostVars, view, evicted, misled>>
  BY DEF Cut
<1>2. /\ ws'[p] = "cut" /\ down'[p] = <<>>
      /\ \A q \in Peers \ {p} : ws'[q] = ws[q] /\ down'[q] = down[q] /\ up'[q] = up[q]
      /\ up'[p] = up[p] \/ up'[p] = <<>>
  BY <1>1 DEF TypeOK
<1>3. TypeOK'
  <2>1. ws' \in [Peers -> {"none", "open", "cut", "gone"}] /\ down' \in [Peers -> Seq(Messages)]
    BY <1>1, EmptySeq DEF TypeOK
  <2>2. up' \in [Peers -> Seq(Messages)]
    BY <1>1, EmptySeq DEF TypeOK
  <2> QED BY <1>1, <2>1, <2>2 DEF TypeOK, hostVars, rvVars
<1>4. IdsCounted'
  <2>1. Accepted' = Accepted
    BY <1>1, <1>2 DEF Accepted
  <2> QED BY <1>1, <1>2, <2>1 DEF IdsCounted, rvVars
<1>5. WiresInUse'
  BY <1>1, <1>2 DEF WiresInUse
<1>6. OfferFirst'
  <2>1. \A a \in Attempts : /\ ws'[a] = "none" <=> ws[a] = "none"
                            /\ up'[a] = up[a] \/ up'[a] = <<>>
    BY <1>1, <1>2, PeerFacts
  <2> QED BY <1>1, <2>1 DEF OfferFirst, hostVars
<1>7. HostSays'
  <2>1. \A m : Said(m)' <=> Said(m)
    BY <1>1 DEF Said, hostVars
  <2>2. \A h \in Dials : up'[h] = up[h] \/ up'[h] = <<>>
    BY <1>1, <1>2, PeerFacts
  <2> QED BY <1>1, <2>1, <2>2, EmptySeq DEF HostSays, hostVars
<1>8. NameOrRegister'
  <2>1. hostWs # None => hostWs \in Peers
    BY PeerFacts DEF TypeOK
  <2> QED BY <1>1, <1>2, <2>1 DEF NameOrRegister, hostVars, rvVars
<1>9. OffersToHost' /\ OneOffer'
  <2>1. Shrinks
    BY <1>2 DEF Shrinks
  <2>2. \A a \in Attempts : /\ ws[a] # "none" => ws'[a] # "none"
                            /\ up[a] = <<>> => up'[a] = <<>>
    BY <1>1, <1>2, PeerFacts
  <2> QED BY <1>1, <2>1, <2>2, DownStays DEF hostVars
<1> QED BY <1>3, <1>4, <1>5, <1>6, <1>7, <1>8, <1>9

LEMMA RestartWires ==
  ASSUME WireInv, Restart
  PROVE  WireInv'
<1> USE DEF WireInv
<1>1. /\ ws' = [q \in Peers |-> IF q \in Clients THEN "gone" ELSE ws[q]]
      /\ up' = [q \in Peers |-> <<>>] /\ down' = [q \in Peers |-> <<>>] /\ id' = [q \in Peers |-> 0]
      /\ seq' = 0 /\ hosts' = None /\ restarts' = restarts + 1 /\ restarts < MaxRestarts
      /\ UNCHANGED <<hostVars, view, evicted, misled>>
  BY DEF Restart
<1>2. \A q \in Peers : /\ ws'[q] \in {"none", "gone"} /\ (ws'[q] = "none" <=> ws[q] = "none")
                       /\ up'[q] = <<>> /\ down'[q] = <<>>
  BY <1>1 DEF TypeOK, Clients
<1>3. TypeOK'
  <2>1. /\ up' \in [Peers -> Seq(Messages)] /\ down' \in [Peers -> Seq(Messages)]
        /\ ws' \in [Peers -> {"none", "open", "cut", "gone"}]
    BY <1>1, EmptySeq DEF TypeOK
  <2>2. restarts' \in 0..MaxRestarts
    BY <1>1, PeerFacts DEF TypeOK
  <2> QED BY <1>1, <2>1, <2>2 DEF TypeOK, hostVars
<1>4. IdsCounted'
  <2>1. Accepted' \subseteq Peers /\ \A q \in Peers : ws'[q] \notin {"open", "cut"}
    BY <1>2 DEF Accepted
  <2>2. Cardinality(Accepted') \in Nat
    BY <2>1, PeerFacts, FS_Subset, FS_CardinalityType
  <2> QED BY <1>1, <2>1, <2>2 DEF IdsCounted
<1>5. WiresInUse' /\ NameOrRegister'
  <2>1. hostWs # None => hostWs \in Peers
    BY PeerFacts DEF TypeOK
  <2> QED BY <1>1, <1>2, <2>1 DEF WiresInUse, NameOrRegister, hostVars
<1>6. OfferFirst' /\ HostSays'
  BY <1>1, <1>2, PeerFacts, EmptySeq DEF OfferFirst, HostSays, hostVars
<1>7. OffersToHost' /\ OneOffer'
  <2>1. Shrinks
    BY <1>2 DEF Shrinks
  <2>2. \A a \in Attempts : /\ ws[a] # "none" => ws'[a] # "none"
                            /\ up[a] = <<>> => up'[a] = <<>>
    BY <1>2, PeerFacts
  <2> QED BY <1>1, <2>1, <2>2, DownStays DEF hostVars
<1> QED BY <1>3, <1>4, <1>5, <1>6, <1>7

---------------------------------------------------------------------------
(* The devices. *)

LEMMA DeviceOffersWires ==
  ASSUME WireInv, NEW a \in Attempts, DeviceOffers(a)
  PROVE  WireInv'
<1> USE DEF WireInv
<1>1. /\ ws[a] = "none" /\ ws' = [ws EXCEPT ![a] = "open"] /\ seq' = seq + 1 /\ id' = [id EXCEPT ![a] = seq + 1]
      /\ up' = [up EXCEPT ![a] = <<Message("offer", HostName, a)>>] /\ view' = [view EXCEPT ![a] = "offered"]
      /\ UNCHANGED <<down, hosts, restarts, hostVars, evicted, misled>>
  BY DEF DeviceOffers, Accept
<1>2. /\ a \in Peers /\ ws'[a] = "open" /\ id'[a] = seq + 1 /\ up'[a] = <<Message("offer", HostName, a)>>
      /\ \A q \in Peers \ {a} : ws'[q] = ws[q] /\ id'[q] = id[q] /\ up'[q] = up[q]
  BY <1>1, PeerFacts DEF TypeOK
<1>3. seq + 1 \in Ids /\ seq + 1 <= Cardinality(Accepted')
  BY <1>1, <1>2, Accepts
<1>4. TypeOK'
  <2>1. up' \in [Peers -> Seq(Messages)]
    <3>1. <<Message("offer", HostName, a)>> \in Seq(Messages)
      BY MessageTypes
    <3> QED BY <1>1, <3>1 DEF TypeOK
  <2>2. ws' \in [Peers -> {"none", "open", "cut", "gone"}] /\ id' \in [Peers -> Ids \cup {0}]
    BY <1>1, <1>3 DEF TypeOK
  <2> QED BY <1>1, <1>3, <2>1, <2>2 DEF TypeOK, hostVars
<1>5. IdsCounted'
  <2>1. seq \in Nat
    BY PeerFacts DEF TypeOK
  <2> QED BY <1>1, <1>2, <1>3, <2>1 DEF IdsCounted
<1>6. WiresInUse'
  BY <1>1, <1>2 DEF WiresInUse
<1>7. OfferFirst'
  BY <1>1, <1>2, PeerFacts DEF OfferFirst, hostVars
<1>8. HostSays' /\ NameOrRegister'
  <2>1. \A m : Said(m)' <=> Said(m)
    BY <1>1 DEF Said, hostVars
  <2>2. \A h \in Dials : h \in Peers /\ up'[h] = up[h] /\ ws'[h] = ws[h]
    BY <1>2, PeerFacts
  <2>3. hostWs # None => hostWs \in Dials
    BY DEF TypeOK
  <2> QED BY <1>1, <2>1, <2>2, <2>3 DEF HostSays, NameOrRegister, hostVars
<1>9. OffersToHost' /\ OneOffer'
  <2>1. Shrinks
    BY <1>1 DEF Shrinks
  <2>2. ASSUME NEW b \in Attempts, NEW r \in Peers, NEW i \in Nat, OfferDown(r, i, b)'
        PROVE  task'[b] = task[b] /\ (up[b] = <<>> => up'[b] = <<>>) /\ (ws[b] # "none" => ws'[b] # "none")
    <3>1. ws[b] # "none"
      BY <1>1, <2>2, OfferUnread DEF OfferDown
    <3> QED BY <1>1, <1>2, <3>1, PeerFacts DEF hostVars
  <2>3. \A b \in Attempts : task[b] = "done" => task'[b] = "done"
    BY <1>1 DEF hostVars
  <2> QED BY <2>1, <2>2, <2>3, DownStays
<1> QED BY <1>4, <1>5, <1>6, <1>7, <1>8, <1>9

LEMMA DeviceReadsWires ==
  ASSUME WireInv, NEW a \in Attempts, DeviceReads(a)
  PROVE  WireInv'
<1> USE DEF WireInv
<1>1. /\ down[a] # <<>> /\ down' = [down EXCEPT ![a] = Tail(@)]
      /\ UNCHANGED <<ws, up, rvVars, hostVars, evicted>>
  BY DEF DeviceReads
<1>2. a \in Peers /\ down[a] \in Seq(Messages) /\ Tail(down[a]) \in Seq(Messages)
  BY <1>1, PeerFacts, Taken DEF TypeOK
<1>3. down'[a] = Tail(down[a]) /\ \A q \in Peers \ {a} : down'[q] = down[q]
  BY <1>1, <1>2 DEF TypeOK
<1>4. TypeOK'
  <2>1. down' \in [Peers -> Seq(Messages)]
    BY <1>1, <1>2 DEF TypeOK
  <2>2. view' \in [Attempts -> {"new", "offered", "answered", "refused"}] /\ misled' \subseteq Attempts
    BY DEF DeviceReads, TypeOK
  <2> QED BY <1>1, <2>1, <2>2 DEF TypeOK, rvVars, hostVars
<1>5. IdsCounted' /\ OfferFirst' /\ HostSays' /\ NameOrRegister'
  <2>1. \A m : Said(m)' <=> Said(m)
    BY <1>1 DEF Said, hostVars
  <2>2. Accepted' = Accepted
    BY <1>1 DEF Accepted
  <2> QED BY <1>1, <2>1, <2>2 DEF IdsCounted, OfferFirst, HostSays, NameOrRegister, rvVars, hostVars
<1>6. WiresInUse'
  BY <1>1, <1>3 DEF WiresInUse
<1>7. OffersToHost' /\ OneOffer'
  <2>1. Shrinks
    BY <1>1, <1>3 DEF Shrinks
  <2> QED BY <1>1, <2>1, DownStays DEF hostVars
<1> QED BY <1>4, <1>5, <1>6, <1>7

---------------------------------------------------------------------------
(* The host. *)

LEMMA HostDialsWires ==
  ASSUME WireInv, NEW h \in Dials, HostDials(h)
  PROVE  WireInv'
<1> USE DEF WireInv
<1>1. /\ hostWs # None => ws[hostWs] # "open" /\ up[hostWs] = <<>>
      /\ ws[h] = "none" /\ ws' = [ws EXCEPT ![h] = "open"] /\ seq' = seq + 1 /\ id' = [id EXCEPT ![h] = seq + 1]
      /\ up' = [up EXCEPT ![h] = <<Register>>] /\ hostWs' = h
      /\ UNCHANGED <<down, hosts, restarts, task, peer, sessions, sess, view, evicted, misled>>
  BY DEF HostDials, Accept, Register
<1>2. /\ h \in Peers /\ ws'[h] = "open" /\ id'[h] = seq + 1 /\ up'[h] = <<Register>>
      /\ \A q \in Peers \ {h} : ws'[q] = ws[q] /\ id'[q] = id[q] /\ up'[q] = up[q]
  BY <1>1, PeerFacts DEF TypeOK
<1>3. seq + 1 \in Ids /\ seq + 1 <= Cardinality(Accepted')
  BY <1>1, <1>2, Accepts
<1>4. TypeOK'
  <2>1. up' \in [Peers -> Seq(Messages)]
    <3>1. <<Register>> \in Seq(Messages)
      BY MessageTypes
    <3> QED BY <1>1, <3>1 DEF TypeOK
  <2>2. ws' \in [Peers -> {"none", "open", "cut", "gone"}] /\ id' \in [Peers -> Ids \cup {0}]
    BY <1>1, <1>3 DEF TypeOK
  <2> QED BY <1>1, <1>3, <2>1, <2>2 DEF TypeOK
<1>5. IdsCounted'
  <2>1. seq \in Nat
    BY PeerFacts DEF TypeOK
  <2> QED BY <1>1, <1>2, <1>3, <2>1 DEF IdsCounted
<1>6. WiresInUse'
  BY <1>1, <1>2 DEF WiresInUse
<1>7. OfferFirst'
  <2>1. \A a \in Attempts : a \in Peers /\ a # h /\ up'[a] = up[a] /\ ws'[a] = ws[a]
    BY <1>2, PeerFacts
  <2> QED BY <1>1, <2>1 DEF OfferFirst
<1>8. HostSays'
  <2>1. \A g \in Dials : g # h => up'[g] = <<>>
    BY <1>1, <1>2, PeerFacts DEF HostSays
  <2>2. Len(up'[h]) = 1 /\ up'[h][1] = Register
    BY <1>2
  <2>3. \A g \in Dials : \A i \in 1..Len(up'[g]) : i = 1 /\ up'[g][i] = Register
    BY <2>1, <2>2, EmptySeq
  <2> QED BY <1>1, <2>1, <2>3 DEF HostSays
<1>9. NameOrRegister'
  BY <1>1, <1>2 DEF NameOrRegister
<1>10. OffersToHost' /\ OneOffer'
  <2>1. Shrinks
    BY <1>1 DEF Shrinks
  <2>2. \A a \in Attempts : up'[a] = up[a] /\ ws'[a] = ws[a]
    BY <1>2, PeerFacts
  <2> QED BY <1>1, <2>1, <2>2, DownStays
<1> QED BY <1>4, <1>5, <1>6, <1>7, <1>8, <1>9, <1>10

LEMMA HostReadsWires ==
  ASSUME WireInv, HostReads
  PROVE  WireInv'
<1> USE DEF WireInv
<1> DEFINE m == down[hostWs][1]
<1>1. /\ hostWs \in Dials /\ hostWs \in Peers
      /\ down[hostWs] \in Seq(Messages) /\ down[hostWs] # <<>> /\ Head(down[hostWs]) = m
      /\ Tail(down[hostWs]) \in Seq(Messages) /\ 1 \in 1..Len(down[hostWs])
      /\ \A i \in 1..Len(Tail(down[hostWs])) :
           i + 1 \in 1..Len(down[hostWs]) /\ Tail(down[hostWs])[i] = down[hostWs][i + 1]
  BY PeerFacts, Taken DEF HostReads, TypeOK
<1>2. /\ IF m.type = "offer"
         THEN task' = [task EXCEPT ![m.of] = "offered"] /\ peer' = [peer EXCEPT ![m.of] = m.from]
         ELSE UNCHANGED <<task, peer>>
      /\ down' = [down EXCEPT ![hostWs] = Tail(@)]
      /\ UNCHANGED <<ws, up, rvVars, hostWs, sessions, sess, view, evicted, misled>>
  BY <1>1 DEF HostReads
<1>3. down'[hostWs] = Tail(down[hostWs]) /\ \A q \in Peers \ {hostWs} : down'[q] = down[q]
  BY <1>1, <1>2 DEF TypeOK
<1>4. m.type = "offer" => /\ m.of \in Attempts /\ m.from \in Ids /\ OfferDown(hostWs, 1, m.of)
                          /\ task[m.of] = "none" /\ up[m.of] = <<>> /\ ws[m.of] # "none"
  BY <1>1 DEF OffersToHost, OfferDown
<1>5. /\ \A a \in Attempts : \/ task'[a] = task[a] /\ peer'[a] = peer[a]
                             \/ m.type = "offer" /\ a = m.of /\ task'[a] = "offered" /\ peer'[a] = m.from
      /\ task' \in [Attempts -> {"none", "offered", "building", "done"}]
      /\ peer' \in [Attempts -> Ids \cup {0}]
  <2>1. CASE m.type = "offer"
    <3>1. task' = [task EXCEPT ![m.of] = "offered"] /\ peer' = [peer EXCEPT ![m.of] = m.from]
      BY <1>2, <2>1
    <3>2. m.of \in Attempts /\ m.from \in Ids \cup {0}
      BY <1>4, <2>1
    <3>3. task' \in [Attempts -> {"none", "offered", "building", "done"}]
      BY <3>1, <3>2 DEF TypeOK
    <3>4. peer' \in [Attempts -> Ids \cup {0}]
      BY <3>1, <3>2 DEF TypeOK
    <3> QED BY <2>1, <3>1, <3>2, <3>3, <3>4 DEF TypeOK
  <2>2. CASE m.type # "offer"
    BY <1>2, <2>2 DEF TypeOK
  <2> QED BY <2>1, <2>2
<1>6. TypeOK'
  <2>1. down' \in [Peers -> Seq(Messages)]
    BY <1>1, <1>2 DEF TypeOK
  <2>2. \A a \in Attempts : task'[a] # "none" => peer'[a] \in Ids
    BY <1>4, <1>5 DEF TypeOK
  <2> QED BY <1>2, <1>5, <2>1, <2>2 DEF TypeOK, rvVars
<1>7. IdsCounted' /\ NameOrRegister'
  BY <1>2 DEF IdsCounted, Accepted, NameOrRegister, rvVars
<1>8. WiresInUse'
  BY <1>1, <1>2, <1>3 DEF WiresInUse
<1>9. OfferFirst'
  BY <1>2, <1>4, <1>5 DEF OfferFirst
<1>10. HostSays'
  <2>1. ASSUME NEW n, Said(n) PROVE Said(n)'
    BY <1>4, <1>5, <2>1 DEF Said
  <2> QED BY <1>2, <2>1 DEF HostSays
<1>11. OffersToHost' /\ OneOffer'
  <2>1. Shrinks
    BY <1>1, <1>3 DEF Shrinks
  <2>2. \A a \in Attempts : task[a] = "done" => task'[a] = "done"
    BY <1>4, <1>5
  <2>3. ASSUME NEW a \in Attempts, NEW r \in Peers, NEW i \in Nat, OfferDown(r, i, a)'
        PROVE  task'[a] = task[a]
    <3> SUFFICES ASSUME m.type = "offer", a = m.of PROVE FALSE
      BY <1>5
    <3>1. OfferDown(hostWs, 1, a)
      BY <1>4
    <3>2. CASE r = hostWs
      <4>1. OfferDown(hostWs, i + 1, a) /\ i + 1 # 1
        <5>1. i \in 1..Len(Tail(down[hostWs]))
          BY <1>3, <2>3, <3>2 DEF OfferDown
        <5>2. i + 1 \in 1..Len(down[hostWs]) /\ down'[r][i] = down[hostWs][i + 1]
          BY <1>1, <1>3, <3>2, <5>1
        <5> QED BY <2>3, <5>2 DEF OfferDown
      <4> QED BY <1>1, <3>1, <4>1 DEF OneOffer
    <3>3. CASE r # hostWs
      <4>1. OfferDown(r, i, a)
        BY <1>3, <2>3, <3>3 DEF OfferDown
      <4> QED BY <1>1, <3>1, <3>3, <4>1 DEF OneOffer
    <3> QED BY <3>2, <3>3
  <2> QED BY <1>2, <2>1, <2>2, <2>3, DownStays
<1> QED BY <1>6, <1>7, <1>8, <1>9, <1>10, <1>11

\* A handler ends, with a message to the device or without one.
LEMMA HandlerEndsWires ==
  ASSUME WireInv, NEW a \in Attempts, task[a] # "none", task' = [task EXCEPT ![a] = "done"],
         NEW t \in {"answer", "error"}, HostSends(Message(t, peer[a], a)) \/ UNCHANGED up,
         UNCHANGED <<ws, down, rvVars, hostWs, peer, sessions, sess, view, evicted, misled>>
  PROVE  WireInv'
<1> USE DEF WireInv
<1> DEFINE m == Message(t, peer[a], a)
<1>1. m \in Messages /\ m.type = t /\ m.of = a /\ m.to = peer[a]
  <2>1. peer[a] \in Ids \cup {0}
    BY DEF TypeOK
  <2> QED BY <2>1, MessageTypes DEF Message
<1>2. up[a] = <<>> /\ ws[a] # "none"
  BY DEF OfferFirst
<1>3. task'[a] = "done" /\ \A b \in Attempts \ {a} : task'[b] = task[b]
  BY DEF TypeOK
<1>4. \/ UNCHANGED up
      \/ /\ hostWs \in Dials /\ ws[hostWs] = "open" /\ up' = [up EXCEPT ![hostWs] = Append(@, m)]
  BY DEF HostSends, TypeOK
<1>5. ASSUME hostWs \in Dials
      PROVE  /\ up[hostWs] \in Seq(Messages)
             /\ Append(up[hostWs], m) \in Seq(Messages) /\ Append(up[hostWs], m) # <<>>
             /\ \A i \in 1..Len(Append(up[hostWs], m)) :
                  \/ i \in 1..Len(up[hostWs]) /\ Append(up[hostWs], m)[i] = up[hostWs][i]
                  \/ Append(up[hostWs], m)[i] = m
             /\ up[hostWs] # <<>> => Append(up[hostWs], m)[1] = up[hostWs][1]
  <2>1. up[hostWs] \in Seq(Messages)
    BY <1>5, PeerFacts DEF TypeOK
  <2> QED BY <1>1, <2>1, Put
<1>6. \A q \in Peers : \/ up'[q] = up[q]
                       \/ q = hostWs /\ hostWs \in Dials /\ ws[q] = "open" /\ up'[q] = Append(up[q], m)
  BY <1>4 DEF TypeOK
<1>7. \A b \in Attempts : up'[b] = up[b]
  BY <1>6, PeerFacts
<1>8. TypeOK'
  <2>1. up' \in [Peers -> Seq(Messages)]
    <3>1. up \in [Peers -> Seq(Messages)]
      BY DEF TypeOK
    <3>2. CASE UNCHANGED up
      BY <3>1, <3>2
    <3>3. CASE hostWs \in Dials /\ up' = [up EXCEPT ![hostWs] = Append(@, m)]
      <4>1. Append(up[hostWs], m) \in Seq(Messages)
        BY <1>5, <3>3
      <4> QED BY <3>1, <3>3, <4>1
    <3> QED BY <1>4, <3>2, <3>3
  <2>2. task' \in [Attempts -> {"none", "offered", "building", "done"}]
    BY DEF TypeOK
  <2>3. \A b \in Attempts : task'[b] # "none" => peer[b] \in Ids
    BY <1>3 DEF TypeOK
  <2> QED BY <2>1, <2>2, <2>3 DEF TypeOK, rvVars
<1>9. IdsCounted'
  BY DEF IdsCounted, Accepted, rvVars
<1>10. WiresInUse'
  BY <1>6 DEF WiresInUse
<1>11. OfferFirst'
  BY <1>2, <1>3, <1>7 DEF OfferFirst
<1>12. HostSays'
  <2>1. ASSUME NEW n, Said(n) PROVE Said(n)'
    BY <1>3, <2>1 DEF Said
  <2>2. Said(m)'
    BY <1>1, <1>3 DEF Said
  <2> SUFFICES ASSUME NEW h \in Dials
               PROVE  /\ \A i \in 1..Len(up'[h]) : (i = 1 /\ up'[h][i] = Register) \/ Said(up[h][i])'
                      /\ h # hostWs => up'[h] = <<>>
    BY DEF HostSays
  <2>3. CASE up'[h] = up[h]
    BY <2>1, <2>3 DEF HostSays
  <2>4. CASE h = hostWs /\ up'[h] = Append(up[h], m)
    <3>1. ASSUME NEW i \in 1..Len(up'[h]), up'[h][i] # m
          PROVE  up'[h][i] = up[h][i] /\ i \in 1..Len(up[h])
      BY <1>5, <2>4, <3>1
    <3> QED BY <2>1, <2>2, <2>4, <3>1 DEF HostSays
  <2> QED BY <1>6, <2>3, <2>4, PeerFacts
<1>13. NameOrRegister'
  <2>1. hostWs # None => hostWs \in Dials /\ hostWs \in Peers
    BY PeerFacts DEF TypeOK
  <2> QED BY <1>5, <1>6, <2>1 DEF NameOrRegister, rvVars
<1>14. OffersToHost' /\ OneOffer'
  <2>1. Shrinks
    BY DEF Shrinks
  <2>2. ASSUME NEW b \in Attempts, NEW r \in Peers, NEW i \in Nat, OfferDown(r, i, b)'
        PROVE  task'[b] = task[b]
    <3>1. task[b] = "none"
      BY <2>2, OfferUnread DEF OfferDown
    <3> QED BY <1>3, <3>1
  <2>3. \A b \in Attempts : task[b] = "done" => task'[b] = "done"
    BY <1>3
  <2> QED BY <1>7, <2>1, <2>2, <2>3, DownStays
<1> QED BY <1>8, <1>9, <1>10, <1>11, <1>12, <1>13, <1>14

LEMMA OfferAcceptedWires ==
  ASSUME WireInv, NEW a \in Attempts, OfferAccepted(a)
  PROVE  WireInv'
<1> USE DEF WireInv
<1>1. /\ task[a] = "offered" /\ task' = [task EXCEPT ![a] = "building"]
      /\ sess' = [b \in Attempts |->
                    IF b = a THEN "open"
                    ELSE IF b = sessions[peer[a]] /\ sess[b] = "open" THEN "closed" ELSE sess[b]]
      /\ evicted' = evicted \cup {b \in Attempts : b = sessions[peer[a]] /\ sess[b] = "open"}
      /\ sessions' = [sessions EXCEPT ![peer[a]] = a]
      /\ UNCHANGED <<ws, up, down, rvVars, hostWs, peer, view, misled>>
  BY DEF OfferAccepted
<1>2. task'[a] = "building" /\ \A b \in Attempts \ {a} : task'[b] = task[b]
  BY <1>1 DEF TypeOK
<1>3. TypeOK'
  <2>1. task' \in [Attempts -> {"none", "offered", "building", "done"}] /\ peer[a] \in Ids
    BY <1>1 DEF TypeOK
  <2>2. \A b \in Attempts : task'[b] # "none" => peer[b] \in Ids
    BY <1>1, <1>2 DEF TypeOK
  <2>3. sess' \in [Attempts -> {"none", "open", "closed", "over"}]
    BY <1>1 DEF TypeOK
  <2>4. sessions' \in [Ids -> Attempts \cup {None}] /\ evicted' \subseteq Attempts
    BY <1>1 DEF TypeOK
  <2> QED BY <1>1, <2>1, <2>2, <2>3, <2>4 DEF TypeOK, rvVars
<1>4. IdsCounted' /\ WiresInUse' /\ NameOrRegister'
  BY <1>1 DEF IdsCounted, Accepted, WiresInUse, NameOrRegister, rvVars
<1>5. OfferFirst'
  BY <1>1, <1>2 DEF OfferFirst
<1>6. HostSays'
  <2>1. ASSUME NEW n, Said(n) PROVE Said(n)'
    BY <1>1, <1>2, <2>1 DEF Said
  <2> QED BY <1>1, <2>1 DEF HostSays
<1>7. OffersToHost' /\ OneOffer'
  <2>1. Shrinks
    BY <1>1 DEF Shrinks
  <2>2. ASSUME NEW b \in Attempts, NEW r \in Peers, NEW i \in Nat, OfferDown(r, i, b)'
        PROVE  task'[b] = task[b]
    <3>1. task[b] = "none"
      BY <1>1, <2>2, OfferUnread DEF OfferDown
    <3> QED BY <1>1, <1>2, <3>1
  <2>3. \A b \in Attempts : task[b] = "done" => task'[b] = "done"
    BY <1>1, <1>2
  <2> QED BY <1>1, <2>1, <2>2, <2>3, DownStays
<1> QED BY <1>3, <1>4, <1>5, <1>6, <1>7

\* A step that leaves the wires, the clients and the handlers alone.
LEMMA ElsewhereWires ==
  ASSUME WireInv, TypeOK', UNCHANGED <<ws, up, down, rvVars, hostWs, task, peer>>
  PROVE  WireInv'
<1>1. \A m : Said(m)' <=> Said(m)
  BY DEF Said
<1>2. \A q, i, a : OfferDown(q, i, a)' <=> OfferDown(q, i, a)
  BY DEF OfferDown
<1>3. HostSays'
  BY <1>1 DEF WireInv, HostSays
<1>4. OneOffer'
  BY <1>2 DEF WireInv, OneOffer
<1> QED BY <1>3, <1>4 DEF WireInv, IdsCounted, Accepted, WiresInUse, OfferFirst, NameOrRegister, OffersToHost, rvVars

LEMMA SessionEndsWires ==
  ASSUME WireInv, NEW a \in Attempts, SessionFails(a) \/ CloseSession(a)
  PROVE  WireInv'
<1>1. UNCHANGED <<ws, up, down, rvVars, hostWs, task, peer>>
  BY DEF SessionFails, CloseSession
<1>2. TypeOK'
  <2>1. CASE SessionFails(a)
    BY <2>1 DEF WireInv, TypeOK, SessionFails, rvVars
  <2>2. CASE CloseSession(a)
    BY <2>2 DEF WireInv, TypeOK, CloseSession, rvVars
  <2> QED BY <2>1, <2>2
<1> QED BY <1>1, <1>2, ElsewhereWires

LEMMA NextWires == WireInv /\ [Next]_vars => WireInv'
<1> SUFFICES ASSUME WireInv, [Next]_vars PROVE WireInv'
  OBVIOUS
<1>1. ASSUME NEW p \in Peers, Serve(p) \/ Cut(p) PROVE WireInv'
  BY <1>1, RegisterWires, RouteWires, EndsWires, CutWires DEF Serve
<1>2. ASSUME NEW h \in Dials, HostDials(h) PROVE WireInv'
  BY <1>2, HostDialsWires
<1>3. CASE HostReads
  BY <1>3, HostReadsWires
<1>4. ASSUME NEW a \in Attempts, Handle(a) PROVE WireInv'
  <2>1. CASE OfferRefused(a)
    BY <2>1, HandlerEndsWires DEF OfferRefused
  <2>2. CASE OfferAccepted(a)
    BY <2>2, OfferAcceptedWires
  <2>3. CASE OfferAnswered(a)
    BY <2>3, HandlerEndsWires DEF OfferAnswered
  <2> QED BY <1>4, <2>1, <2>2, <2>3 DEF Handle
<1>5. ASSUME NEW a \in Attempts, SessionFails(a) \/ CloseSession(a) PROVE WireInv'
  BY <1>5, SessionEndsWires
<1>6. ASSUME NEW a \in Attempts, DeviceOffers(a) \/ DeviceReads(a) PROVE WireInv'
  BY <1>6, DeviceOffersWires, DeviceReadsWires
<1>7. CASE Restart
  BY <1>7, RestartWires
<1>8. CASE UNCHANGED vars
  <2>1. TypeOK' /\ UNCHANGED <<ws, up, down, rvVars, hostWs, task, peer>>
    BY <1>8 DEF vars, rvVars, hostVars, WireInv, TypeOK
  <2> QED BY <2>1, ElsewhereWires
<1> QED BY <1>1, <1>2, <1>3, <1>4, <1>5, <1>6, <1>7, <1>8 DEF Next

---------------------------------------------------------------------------
(* The list of sessions. *)

\* A handler of an offer moves on, and nothing happens to the sessions.
LEMMA SessionsUntouched ==
  ASSUME SessionInv, UNCHANGED <<peer, sessions, sess>>,
         \A a \in Attempts : task'[a] \in {"none", "offered"} => task[a] \in {"none", "offered"}
  PROVE  SessionInv'
BY DEF SessionInv

LEMMA HostReadsSessions ==
  ASSUME WireInv, SessionInv, HostReads
  PROVE  SessionInv'
<1> DEFINE m == down[hostWs][1]
<1>1. hostWs \in Peers /\ 1 \in 1..Len(down[hostWs]) /\ Head(down[hostWs]) = m
  BY PeerFacts, Taken DEF HostReads, WireInv, TypeOK
<1>2. UNCHANGED <<sessions, sess>>
  BY DEF HostReads
<1>3. CASE m.type # "offer"
  <2>1. UNCHANGED <<task, peer>>
    BY <1>1, <1>3 DEF HostReads
  <2> QED BY <1>2, <2>1, SessionsUntouched
<1>4. CASE m.type = "offer"
  <2>1. m.of \in Attempts /\ task[m.of] = "none"
    BY <1>1, <1>4 DEF WireInv, OffersToHost
  <2>2. task' = [task EXCEPT ![m.of] = "offered"] /\ peer' = [peer EXCEPT ![m.of] = m.from]
    BY <1>1, <1>4 DEF HostReads
  <2>3. \A a \in Attempts \ {m.of} : task'[a] = task[a] /\ peer'[a] = peer[a]
    BY <2>2 DEF WireInv, TypeOK
  <2>4. sess[m.of] = "none" /\ \A i \in Ids : sessions[i] # m.of
    BY <2>1 DEF SessionInv
  <2> QED BY <1>2, <2>3, <2>4 DEF SessionInv
<1> QED BY <1>3, <1>4

LEMMA OfferAcceptedSessions ==
  ASSUME WireInv, SessionInv, NEW a \in Attempts, OfferAccepted(a)
  PROVE  SessionInv'
<1> DEFINE old == sessions[peer[a]]
<1>1. /\ task[a] = "offered" /\ task' = [task EXCEPT ![a] = "building"] /\ UNCHANGED peer
      /\ \A b \in Attempts : sess'[b] = IF b = a THEN "open"
                                        ELSE IF b = old /\ sess[b] = "open" THEN "closed" ELSE sess[b]
      /\ sessions' = [sessions EXCEPT ![peer[a]] = a]
  BY DEF OfferAccepted
<1>2. task'[a] = "building" /\ \A b \in Attempts \ {a} : task'[b] = task[b]
  BY <1>1 DEF WireInv, TypeOK
<1>3. peer[a] \in Ids
  BY <1>1 DEF WireInv, TypeOK
<1>4. sessions'[peer[a]] = a /\ \A i \in Ids \ {peer[a]} : sessions'[i] = sessions[i]
  BY <1>1, <1>3 DEF WireInv, TypeOK
<1>5. sess[a] = "none" /\ \A i \in Ids : sessions[i] # a
  BY <1>1 DEF SessionInv
<1> SUFFICES ASSUME NEW b \in Attempts
             PROVE  /\ task'[b] \in {"none", "offered"} => sess'[b] = "none"
                    /\ \A i \in Ids : sessions'[i] = b => peer'[b] = i /\ sess'[b] # "none"
                    /\ sess'[b] = "open" => sessions'[peer'[b]] = b
                    /\ sess'[b] = "over" => sessions'[peer'[b]] # b
  BY DEF SessionInv
<1>6. CASE b = a
  BY <1>1, <1>2, <1>3, <1>4, <1>5, <1>6
<1>7. CASE b # a
  <2>1. sess'[b] = "open" => sess[b] = "open" /\ b # old
    BY <1>1, <1>7
  <2>2. sess[b] # "none" => peer[b] \in Ids
    BY DEF SessionInv, WireInv, TypeOK
  <2>3. sess'[b] = "over" => sess[b] = "over"
    BY <1>1, <1>7
  <2>4. sess'[b] = "none" <=> sess[b] = "none"
    BY <1>1, <1>7
  <2> QED BY <1>1, <1>2, <1>4, <1>7, <2>1, <2>2, <2>3, <2>4 DEF SessionInv
<1> QED BY <1>6, <1>7

LEMMA SessionEndsSessions ==
  ASSUME WireInv, SessionInv, NEW a \in Attempts, SessionFails(a) \/ CloseSession(a)
  PROVE  SessionInv'
<1>1. /\ UNCHANGED <<task, peer>>
      /\ sess[a] \in {"open", "closed"} /\ sess'[a] \in {"closed", "over"}
      /\ \A b \in Attempts \ {a} : sess'[b] = sess[b]
  BY DEF SessionFails, CloseSession, WireInv, TypeOK
<1>2. peer[a] \in Ids /\ task[a] \notin {"none", "offered"}
  BY <1>1 DEF SessionInv, WireInv, TypeOK
<1>3. CASE SessionFails(a)
  <2>1. UNCHANGED sessions /\ sess'[a] = "closed"
    BY <1>3 DEF SessionFails, WireInv, TypeOK
  <2> QED BY <1>1, <1>2, <2>1 DEF SessionInv
<1>4. CASE CloseSession(a)
  <2>1. /\ \A i \in Ids : sessions'[i] = sessions[i] \/ (i = peer[a] /\ sessions[i] = a /\ sessions'[i] = None)
        /\ sessions'[peer[a]] # a
    BY <1>2, <1>4, PeerFacts DEF CloseSession, WireInv, TypeOK
  <2>2. sess'[a] = "over"
    BY <1>4 DEF CloseSession, WireInv, TypeOK
  <2>3. \A b \in Attempts : b # None /\ (sess[b] # "none" => peer[b] \in Ids)
    BY PeerFacts DEF SessionInv, WireInv, TypeOK
  <2> QED BY <1>1, <1>2, <2>1, <2>2, <2>3 DEF SessionInv
<1> QED BY <1>3, <1>4

LEMMA NextSessions ==
  ASSUME WireInv, SessionInv, [Next]_vars
  PROVE  SessionInv'
<1>1. ASSUME NEW p \in Peers, Serve(p) \/ Cut(p) PROVE SessionInv'
  <2>1. UNCHANGED <<peer, sessions, sess, task>>
    BY <1>1 DEF Serve, ServeRegister, ServeRoute, ServeEnds, Cut, hostVars
  <2> QED BY <2>1, SessionsUntouched
<1>2. ASSUME NEW h \in Dials, HostDials(h) PROVE SessionInv'
  BY <1>2, SessionsUntouched DEF HostDials
<1>3. CASE HostReads
  BY <1>3, HostReadsSessions
<1>4. ASSUME NEW a \in Attempts, Handle(a) PROVE SessionInv'
  <2>1. CASE OfferRefused(a) \/ OfferAnswered(a)
    <3>1. task' = [task EXCEPT ![a] = "done"] /\ UNCHANGED <<peer, sessions, sess>>
      BY <2>1 DEF OfferRefused, OfferAnswered
    <3> QED BY <3>1, SessionsUntouched DEF WireInv, TypeOK
  <2>2. CASE OfferAccepted(a)
    BY <2>2, OfferAcceptedSessions
  <2> QED BY <1>4, <2>1, <2>2 DEF Handle
<1>5. ASSUME NEW a \in Attempts, SessionFails(a) \/ CloseSession(a) PROVE SessionInv'
  BY <1>5, SessionEndsSessions
<1>6. ASSUME NEW a \in Attempts, DeviceOffers(a) \/ DeviceReads(a) PROVE SessionInv'
  <2>1. UNCHANGED <<peer, sessions, sess, task>>
    BY <1>6 DEF DeviceOffers, DeviceReads, hostVars
  <2> QED BY <2>1, SessionsUntouched
<1>7. CASE Restart \/ UNCHANGED vars
  <2>1. UNCHANGED <<peer, sessions, sess, task>>
    BY <1>7 DEF Restart, vars, hostVars
  <2> QED BY <2>1, SessionsUntouched
<1> QED BY <1>1, <1>2, <1>3, <1>4, <1>5, <1>6, <1>7 DEF Next

---------------------------------------------------------------------------
(* Devices apart. *)

\* Nobody gets an id, no offer is sent or read, nothing is added on the way
\* down: the ids stay apart.
LEMMA ApartStays ==
  ASSUME WireInv, IdsApart, AnswersHome, Shrinks, seq' = seq,
         \A a \in Attempts : task'[a] # "none" => task[a] # "none" /\ peer'[a] = peer[a],
         \A p \in Peers : ws'[p] \in {"open", "cut"} => ws[p] \in {"open", "cut"} /\ id'[p] = id[p]
  PROVE  IdsApart' /\ AnswersHome'
<1>1. \A r \in Peers : \E k \in {0, 1} : \A i \in 1..Len(down'[r]) :
                         i + k \in 1..Len(down[r]) /\ down'[r][i] = down[r][i + k]
  BY ShrunkWires DEF WireInv
<1>2. ASSUME NEW p \in Peers, NEW n \in Ids, Belongs(p, n)'
      PROVE  Belongs(p, n)
  <2>1. CASE ws'[p] \in {"open", "cut"} /\ id'[p] = n
    BY <2>1 DEF Belongs
  <2>2. CASE p \in Attempts /\ task'[p] # "none" /\ peer'[p] = n
    BY <2>2 DEF Belongs
  <2>3. ASSUME NEW q \in Peers, NEW i \in 1..Len(down'[q]), OfferDown(q, i, p)', down'[q][i].from = n
        PROVE  Belongs(p, n)
    <3>1. PICK j \in 1..Len(down[q]) : down'[q][i] = down[q][j]
      BY <1>1
    <3>2. OfferDown(q, j, p) /\ down[q][j].from = n
      BY <2>3, <3>1 DEF OfferDown
    <3> QED BY <3>2 DEF Belongs
  <2> QED BY <1>2, <2>1, <2>2, <2>3 DEF Belongs
<1>3. IdsApart'
  BY <1>2 DEF IdsApart
<1>4. AnswersHome'
  BY <1>1 DEF AnswersHome
<1> QED BY <1>3, <1>4

\* A connection is accepted: its id is new.
LEMMA AcceptApart ==
  ASSUME WireInv, IdsApart, AnswersHome, NEW x \in Peers, ws' = [ws EXCEPT ![x] = "open"],
         id' = [id EXCEPT ![x] = seq + 1], seq' = seq + 1, UNCHANGED <<down, task, peer>>
  PROVE  IdsApart' /\ AnswersHome'
<1>1. /\ id'[x] = seq + 1 /\ \A p \in Peers \ {x} : ws'[p] = ws[p] /\ id'[p] = id[p]
      /\ seq \in Nat
  BY PeerFacts DEF WireInv, TypeOK
<1>2. ASSUME NEW p \in Peers, NEW n \in Ids, Belongs(p, n)'
      PROVE  Belongs(p, n) \/ (p = x /\ n = seq + 1)
  BY <1>1, <1>2 DEF Belongs, OfferDown
<1>3. \A p \in Peers : ~Belongs(p, seq + 1) \/ seq + 1 \notin Ids
  BY <1>1 DEF IdsApart
<1>4. \A n \in Ids : n \in Nat
  BY PeerFacts
<1>5. IdsApart'
  BY <1>1, <1>2, <1>3, <1>4 DEF IdsApart
<1> QED BY <1>5 DEF AnswersHome

\* A routed message tells its own sender's id, and an answer finds its device.
LEMMA RouteApart ==
  ASSUME WireInv, IdsApart, AnswersHome, NEW p \in Peers, ServeRoute(p)
  PROVE  IdsApart' /\ AnswersHome'
<1> DEFINE m == up[p][1]
<1>1. /\ up[p] # <<>> /\ m \in Messages /\ id[p] \in Ids
      /\ UNCHANGED <<ws, rvVars, hostVars, view, evicted, misled>>
      /\ \/ p \in Attempts /\ m = Message("offer", HostName, p)
         \/ p \in Dials /\ Said(m)
      /\ \/ UNCHANGED down
         \/ \E c \in Peers, e \in Messages :
              /\ Grows(c, e) /\ ws[c] = "open"
              /\ e.type = "error" \/ (e = [m EXCEPT !.from = id[p]] /\ c \in Found(m.to))
  BY RouteEffect
<1>2. CASE UNCHANGED down
  <2>1. Shrinks
    BY <1>2 DEF Shrinks
  <2> QED BY <1>1, <2>1, ApartStays DEF rvVars, hostVars
<1>3. ASSUME NEW c \in Peers, NEW e \in Messages, Grows(c, e),
             e.type = "error" \/ (e = [m EXCEPT !.from = id[p]] /\ c \in Found(m.to))
      PROVE  IdsApart' /\ AnswersHome'
  <2>1. \A r \in Peers : \A i \in 1..Len(down'[r]) :
          \/ i \in 1..Len(down[r]) /\ down'[r][i] = down[r][i]
          \/ r = c /\ i = Len(down[c]) + 1 /\ down'[r][i] = e
    BY <1>3, GrownWires DEF WireInv
  <2>2. e.type # "error" => /\ e = [m EXCEPT !.from = id[p]] /\ c \in Found(m.to)
                            /\ e.type = m.type /\ e.of = m.of /\ e.from = id[p]
    BY <1>1, <1>3 DEF Messages
  <2>3. e.type = "offer" => e.of = p /\ e.from = id[p] /\ ws[p] \in {"open", "cut"}
    <3>1. ws[p] \in {"open", "cut"}
      BY <1>1 DEF WireInv, WiresInUse
    <3> QED BY <1>1, <2>2, <3>1 DEF Said, Message
  <2>4. e.type = "answer" => e.of = c
    <3> SUFFICES ASSUME e.type = "answer" PROVE m.of = c
      BY <2>2
    <3>1. Said(m)
      BY <1>1, <2>2 DEF Message
    <3>2. m.of \in Attempts /\ m.to = peer[m.of] /\ task[m.of] = "done" /\ m.to \in Ids
      BY <3>1 DEF Said, WireInv, TypeOK
    <3>3. c \in Clients /\ id[c] = m.to
      BY <2>2, <3>2, PeerFacts DEF Found, HostName
    <3>4. Belongs(c, m.to) /\ Belongs(m.of, m.to) /\ m.of \in Peers
      BY <3>2, <3>3, PeerFacts DEF Belongs, Clients
    <3> QED BY <3>2, <3>4 DEF IdsApart
  <2>5. ASSUME NEW q \in Peers, NEW n \in Ids, Belongs(q, n)'
        PROVE  Belongs(q, n)
    <3>1. CASE ws'[q] \in {"open", "cut"} /\ id'[q] = n
      BY <1>1, <3>1 DEF Belongs, rvVars
    <3>2. CASE q \in Attempts /\ task'[q] # "none" /\ peer'[q] = n
      BY <1>1, <3>2 DEF Belongs, hostVars
    <3>3. ASSUME NEW r \in Peers, NEW i \in 1..Len(down'[r]), OfferDown(r, i, q)', down'[r][i].from = n
          PROVE  Belongs(q, n)
      <4>1. CASE i \in 1..Len(down[r]) /\ down'[r][i] = down[r][i]
        <5>1. OfferDown(r, i, q) /\ down[r][i].from = n
          BY <3>3, <4>1 DEF OfferDown
        <5> QED BY <4>1, <5>1 DEF Belongs
      <4>2. CASE down'[r][i] = e
        BY <2>3, <3>3, <4>2 DEF OfferDown, Belongs
      <4> QED BY <2>1, <4>1, <4>2
    <3> QED BY <2>5, <3>1, <3>2, <3>3 DEF Belongs
  <2>6. IdsApart'
    BY <1>1, <2>5 DEF IdsApart, rvVars
  <2>7. AnswersHome'
    BY <2>1, <2>4 DEF AnswersHome
  <2> QED BY <2>6, <2>7
<1> QED BY <1>1, <1>2, <1>3

\* The handler of an offer has the id that was put on it.
LEMMA HostReadsApart ==
  ASSUME WireInv, IdsApart, AnswersHome, HostReads
  PROVE  IdsApart' /\ AnswersHome'
<1> DEFINE m == down[hostWs][1]
<1>1. /\ hostWs \in Peers /\ down[hostWs] # <<>> /\ 1 \in 1..Len(down[hostWs]) /\ Head(down[hostWs]) = m
      /\ down' = [down EXCEPT ![hostWs] = Tail(@)] /\ UNCHANGED <<ws, rvVars>>
  BY PeerFacts, Taken DEF HostReads, WireInv, TypeOK
<1>2. Shrinks
  BY <1>1 DEF Shrinks, WireInv, TypeOK
<1>3. CASE m.type # "offer"
  <2>1. UNCHANGED <<task, peer>>
    BY <1>1, <1>3 DEF HostReads
  <2> QED BY <1>1, <1>2, <2>1, ApartStays DEF rvVars
<1>4. CASE m.type = "offer"
  <2>1. task' = [task EXCEPT ![m.of] = "offered"] /\ peer' = [peer EXCEPT ![m.of] = m.from]
    BY <1>1, <1>4 DEF HostReads
  <2>2. m.of \in Attempts
    BY <1>1, <1>4 DEF WireInv, OffersToHost
  <2>3. peer'[m.of] = m.from /\ \A a \in Attempts \ {m.of} : task'[a] = task[a] /\ peer'[a] = peer[a]
    BY <2>1, <2>2 DEF WireInv, TypeOK
  <2>4. \A r \in Peers : \E k \in {0, 1} : \A i \in 1..Len(down'[r]) :
                           i + k \in 1..Len(down[r]) /\ down'[r][i] = down[r][i + k]
    BY <1>2, ShrunkWires DEF WireInv
  <2>5. ASSUME NEW p \in Peers, NEW n \in Ids, Belongs(p, n)'
        PROVE  Belongs(p, n)
    <3>1. CASE ws'[p] \in {"open", "cut"} /\ id'[p] = n
      BY <1>1, <3>1 DEF Belongs, rvVars
    <3>2. CASE p \in Attempts /\ task'[p] # "none" /\ peer'[p] = n
      <4>1. CASE p = m.of
        <5>1. OfferDown(hostWs, 1, p) /\ down[hostWs][1].from = n
          BY <1>1, <1>4, <2>3, <3>2, <4>1 DEF OfferDown
        <5> QED BY <1>1, <5>1 DEF Belongs
      <4>2. CASE p # m.of
        BY <2>3, <3>2, <4>2 DEF Belongs
      <4> QED BY <4>1, <4>2
    <3>3. ASSUME NEW q \in Peers, NEW i \in 1..Len(down'[q]), OfferDown(q, i, p)', down'[q][i].from = n
          PROVE  Belongs(p, n)
      <4>1. PICK j \in 1..Len(down[q]) : down'[q][i] = down[q][j]
        BY <2>4
      <4>2. OfferDown(q, j, p) /\ down[q][j].from = n
        BY <3>3, <4>1 DEF OfferDown
      <4> QED BY <4>2 DEF Belongs
    <3> QED BY <2>5, <3>1, <3>2, <3>3 DEF Belongs
  <2>6. IdsApart'
    BY <1>1, <2>5 DEF IdsApart, rvVars
  <2>7. AnswersHome'
    BY <2>4 DEF AnswersHome
  <2> QED BY <2>6, <2>7
<1> QED BY <1>3, <1>4

\* The session an offer would close belongs to its own device, which has none.
LEMMA NothingEvicted ==
  ASSUME WireInv, SessionInv, IdsApart, NEW a \in Attempts, OfferAccepted(a)
  PROVE  evicted' = evicted
<1>1. task[a] = "offered" /\ peer[a] \in Ids /\ sess[a] = "none"
  BY DEF OfferAccepted, WireInv, TypeOK, SessionInv
<1>2. ASSUME NEW b \in Attempts, b = sessions[peer[a]], sess[b] = "open"
      PROVE  FALSE
  <2>1. peer[b] = peer[a] /\ task[b] # "none"
    BY <1>1, <1>2 DEF SessionInv
  <2>2. Belongs(a, peer[a]) /\ Belongs(b, peer[a]) /\ a \in Peers /\ b \in Peers
    BY <1>1, <2>1, PeerFacts DEF Belongs
  <2>3. a = b
    BY <1>1, <2>2 DEF IdsApart
  <2> QED BY <1>1, <1>2, <2>3
<1> QED BY <1>2 DEF OfferAccepted

LEMMA NextApart ==
  ASSUME WireInv, SessionInv, ApartInv, [Next]_vars
  PROVE  ApartInv'
<1>1. CASE Restart
  BY <1>1, PeerFacts DEF Restart, ApartInv, WireInv, TypeOK
<1> SUFFICES ASSUME ~Restart, restarts = 0, IdsApart, AnswersHome, misled = {}, evicted = {}
             PROVE  IdsApart' /\ AnswersHome' /\ misled' = {} /\ evicted' = {}
  <2>1. ~Restart => restarts' = restarts
    BY DEF Next, vars, rvVars, Serve, ServeRegister, ServeRoute, ServeEnds, Cut, HostDials, HostReads, Handle,
           OfferRefused, OfferAccepted, OfferAnswered, SessionFails, CloseSession, DeviceOffers, DeviceReads
  <2> QED BY <1>1, <2>1 DEF ApartInv
<1>2. ASSUME NEW p \in Peers, Serve(p) \/ Cut(p)
      PROVE  IdsApart' /\ AnswersHome' /\ misled' = {} /\ evicted' = {}
  <2>1. UNCHANGED <<misled, evicted, hostVars, seq>>
    BY <1>2 DEF Serve, ServeRegister, ServeRoute, ServeEnds, Cut, rvVars
  <2>2. CASE ServeRoute(p)
    BY <2>1, <2>2, RouteApart
  <2>3. CASE ServeRegister(p) \/ ServeEnds(p) \/ Cut(p)
    <3>1. Shrinks
      BY <2>3 DEF Shrinks, ServeRegister, ServeEnds, Cut, WireInv, TypeOK
    <3>2. \A q \in Peers : ws'[q] \in {"open", "cut"} => ws[q] \in {"open", "cut"} /\ id'[q] = id[q]
      BY <2>3 DEF ServeRegister, ServeEnds, Cut, WireInv, TypeOK, rvVars
    <3> QED BY <2>1, <3>1, <3>2, ApartStays DEF hostVars
  <2> QED BY <1>2, <2>2, <2>3 DEF Serve
<1>3. ASSUME NEW h \in Dials, HostDials(h)
      PROVE  IdsApart' /\ AnswersHome' /\ misled' = {} /\ evicted' = {}
  BY <1>3, AcceptApart, PeerFacts DEF HostDials, Accept
<1>4. CASE HostReads
  BY <1>4, HostReadsApart DEF HostReads
<1>5. ASSUME NEW a \in Attempts, Handle(a) \/ SessionFails(a) \/ CloseSession(a)
      PROVE  IdsApart' /\ AnswersHome' /\ misled' = {} /\ evicted' = {}
  <2>1. UNCHANGED <<ws, id, seq, down, peer, misled>> /\ (OfferAccepted(a) \/ evicted' = evicted)
    BY <1>5 DEF Handle, OfferRefused, OfferAccepted, OfferAnswered, SessionFails, CloseSession, rvVars
  <2>2. \A b \in Attempts : task'[b] # "none" => task[b] # "none"
    BY <1>5 DEF Handle, OfferRefused, OfferAccepted, OfferAnswered, SessionFails, CloseSession, WireInv, TypeOK
  <2>3. Shrinks
    BY <2>1 DEF Shrinks
  <2>4. IdsApart' /\ AnswersHome'
    BY <2>1, <2>2, <2>3, ApartStays
  <2> QED BY <2>1, <2>4, NothingEvicted
<1>6. ASSUME NEW a \in Attempts, DeviceOffers(a)
      PROVE  IdsApart' /\ AnswersHome' /\ misled' = {} /\ evicted' = {}
  BY <1>6, AcceptApart, PeerFacts DEF DeviceOffers, Accept, hostVars
<1>7. ASSUME NEW a \in Attempts, DeviceReads(a)
      PROVE  IdsApart' /\ AnswersHome' /\ misled' = {} /\ evicted' = {}
  <2>1. /\ a \in Peers /\ down[a] \in Seq(Messages) /\ down[a] # <<>> /\ down' = [down EXCEPT ![a] = Tail(@)]
        /\ UNCHANGED <<ws, rvVars, hostVars, evicted>>
        /\ misled' = misled \cup {b \in {a} : Head(down[a]).type = "answer" /\ Head(down[a]).of # a}
    BY <1>7, PeerFacts DEF DeviceReads, WireInv, TypeOK
  <2>2. Shrinks
    BY <2>1 DEF Shrinks, WireInv, TypeOK
  <2>3. IdsApart' /\ AnswersHome'
    BY <2>1, <2>2, ApartStays DEF rvVars, hostVars
  <2>4. Head(down[a]).type = "answer" => Head(down[a]).of = a
    BY <2>1, Taken DEF AnswersHome
  <2> QED BY <2>1, <2>3, <2>4
<1>8. CASE UNCHANGED vars
  <2>1. Shrinks
    BY <1>8 DEF Shrinks, vars
  <2> QED BY <1>8, <2>1, ApartStays DEF vars, rvVars, hostVars
<1> QED BY <1>2, <1>3, <1>4, <1>5, <1>6, <1>7, <1>8 DEF Next

---------------------------------------------------------------------------
(* The theorems. *)

IInv == WireInv /\ SessionInv /\ ApartInv

LEMMA InitInvariant == Init => IInv
<1> SUFFICES ASSUME Init PROVE IInv
  OBVIOUS
<1>1. SessionInv
  BY PeerFacts DEF Init, SessionInv
<1>2. ApartInv
  BY PeerFacts, EmptySeq DEF Init, ApartInv, IdsApart, AnswersHome, Belongs, OfferDown
<1> QED BY <1>1, <1>2, InitWires DEF IInv

LEMMA NextInvariant == IInv /\ [Next]_vars => IInv'
BY NextWires, NextSessions, NextApart DEF IInv

LEMMA Invariance == Spec => []IInv
BY InitInvariant, NextInvariant, PTL DEF Spec

\* Every variable stays in its range, whatever the number of devices and of the
\* host's dials: the rendezvous gives each connection an id, and a handler of
\* the host knows whom it answers.
THEOREM TypeCorrect == Spec => []TypeOK
<1>1. IInv => TypeOK
  BY DEF IInv, WireInv
<1> QED BY <1>1, Invariance, PTL

\* A host that has dialled again is reachable under its name as soon as it has
\* registered, although its old connection ends in the rendezvous only later:
\* remove takes the name from the connection that has it and from no other.
THEOREM HostStaysReachable == Spec => []HostReachable
<1>1. IInv => HostReachable
  BY DEF IInv, WireInv, NameOrRegister, HostReachable
<1> QED BY <1>1, Invariance, PTL

\* host.sessions lists every open session under its peer's id and no session
\* that closeSession is done with, however offers, failures and closings mix.
THEOREM SessionListExact == Spec => []SessionsListed
<1>1. IInv => SessionsListed
  BY DEF IInv, SessionInv, SessionsListed
<1> QED BY <1>1, Invariance, PTL

\* As long as the rendezvous is not restarted no device gets the answer to the
\* offer of another, and no offer closes the session of another device.
THEOREM DevicesUndisturbed == Spec => []DevicesApart
<1>1. IInv => DevicesApart
  BY DEF IInv, ApartInv, DevicesApart
<1> QED BY <1>1, Invariance, PTL
=============================================================================
