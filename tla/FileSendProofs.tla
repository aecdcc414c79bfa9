--------------------------- MODULE FileSendProofs ---------------------------
(***************************************************************************)
(* Proofs about FileSend, for any requests, sizes and devices: what a      *)
(* device saves is whole, and what counts as taken is saved.               *)
(***************************************************************************)
EXTENDS FileSend, SequenceTheorems, TLAPS

Pieces   == [kind : {"hdr", "piece", "end"}, of : Requests]
Receiver == [hdr : Requests \cup {"none"}, parts : Seq(Requests)]
Answers  == {"ok", "err"}

Types ==
  /\ TypeOK
  /\ leg \in [Requests -> [Devices -> {"none", "start", "stream", "await", "ok", "err"}]]
  /\ sent \in [Requests -> [Devices -> Nat]]
  /\ wire \in [Channels -> Seq(Pieces)]
  /\ recv \in [Channels -> Receiver]
  /\ back \in [Channels -> Seq(Answers)]
  /\ reply \in [Channels -> Seq(Answers)]
  /\ saved \in [Devices -> SUBSET [name : Requests, parts : Seq(Requests)]]

\* fileOut.mu: a channel works on one file at a time.
OneAtATime ==
  \A r \in Requests, s \in Requests, d \in Devices, e \in Devices :
    leg[r][d] \in Working /\ leg[s][e] \in Working /\ Chan(r, d) = Chan(s, e) => r = s /\ d = e

\* Nothing is on its way on a channel that has gone with its connection.
DeadQuiet == \A c \in Channels : c[2] \notin up => wire[c] = <<>> /\ back[c] = <<>>

\* A file is sent only after its request was taken.
NewUnsent == \A r \in Requests, d \in Devices : status[r] = "new" => leg[r][d] = "none"

\* Everything the channel and its receiver hold is of the file r.
Own(r, c) ==
  /\ \A i \in 1..Len(wire[c]) : wire[c][i].of = r
  /\ recv[c].hdr \in {"none", r}
  /\ \A i \in 1..Len(recv[c].parts) : recv[c].parts[i] = r

\* The receiver works on the file, or its header is on its way.
Pending(r, c) == recv[c].hdr = r \/ \E i \in 1..Len(wire[c]) : wire[c][i] = Msg("hdr", r)

\* An "ok" is on its way to the host or waits there.
Oks(c) == \/ \E i \in 1..Len(back[c]) : back[c][i] = "ok"
          \/ \E i \in 1..Len(reply[c]) : reply[c][i] = "ok"

\* After k messages come the pieces that are left and, once sent, the "end".
Rest(r, d, k, left) ==
  LET w == wire[Chan(r, d)] IN
  /\ Len(w) >= k + left
  /\ \A i \in k + 1..k + left : w[i] = Msg("piece", r)
  /\ IF leg[r][d] = "stream" THEN Len(w) = k + left
     ELSE Len(w) > k + left /\ w[k + left + 1] = Msg("end", r) /\ sent[r][d] = Size[r]

\* The file has arrived up to some piece, or not at all, and the rest follows.
Ahead(r, d) ==
  LET c == Chan(r, d)
      g == recv[c]
  IN \/ /\ g.hdr = "none" /\ g.parts = <<>>
        /\ wire[c][1] = Msg("hdr", r) /\ Rest(r, d, 1, sent[r][d])
     \/ /\ g.hdr = r /\ \A i \in 1..Len(g.parts) : g.parts[i] = r
        /\ Len(g.parts) <= sent[r][d] /\ Rest(r, d, 0, sent[r][d] - Len(g.parts))

\* Before its header nothing is known of a file.
Unsent(r, d) ==
  leg[r][d] \in {"none", "start"} =>
    /\ sent[r][d] = 0 /\ <<r, d>> \notin clean /\ ~Pending(r, Chan(r, d))
    /\ \A f \in saved[d] : f.name # r

\* A page's channel is for one file, a quiet channel is for the file on it.
Private(r, d) ==
  d \in Pages \/ (<<r, d>> \in clean /\ leg[r][d] \in Working) => Own(r, Chan(r, d))

Got(r, d) == [name |-> r, parts |-> Whole(r)] \in saved[d]

\* An "ok" then is about this file.
OkOwn(r, d) == <<r, d>> \in clean /\ leg[r][d] \in Working /\ Oks(Chan(r, d)) => Got(r, d)

\* A file that found its channel quiet, and is not cut, comes first on it and
\* whole, whatever is sent after it.
InOrder(r, d) ==
  <<r, d>> \in clean /\ <<r, d>> \notin cut /\ d \in up =>
    LET w == wire[Chan(r, d)] IN
    /\ \A i \in 1..Len(w) : w[i] = Msg("hdr", r) => i = 1
    /\ Pending(r, Chan(r, d)) => Ahead(r, d)

\* The two halves of DeliveredWhole.
WholeOf(r, d) ==
  \A f \in saved[d] :
    f.name = r /\ (d \in Pages \/ (<<r, d>> \in clean /\ <<r, d>> \notin cut)) => f.parts = Whole(r)

OkOf(r, d) == leg[r][d] = "ok" /\ <<r, d>> \in clean => Got(r, d)

PairInv(r, d) == /\ Unsent(r, d) /\ Private(r, d) /\ OkOwn(r, d) /\ InOrder(r, d)
                 /\ WholeOf(r, d) /\ OkOf(r, d)

IInv == /\ Types /\ OneAtATime /\ DeadQuiet /\ NewUnsent
        /\ \A r \in Requests, d \in Devices : PairInv(r, d)

---------------------------------------------------------------------------
(* Channels and messages. *)

LEMMA ChanFacts ==
  /\ \A r \in Requests, d \in Devices : Chan(r, d) \in Channels /\ Chan(r, d)[2] = d
  /\ \A r \in Requests, s \in Requests, d \in Devices, e \in Devices :
       Chan(r, d) = Chan(s, e) => d = e /\ (d \in Pages => r = s)
  /\ \A c \in Channels : c[2] \in Devices
BY FileSendAssumption DEF Chan, Channels, Devices

\* One piece more is sent, or one more is received.
LEMMA LeftToGo ==
  /\ \A k \in Nat, l \in Nat : (k + 1) - l = (k - l) + 1
  /\ \A n \in Nat, k \in Nat, l \in Nat : n + 1 = k - l => n = k - (l + 1) /\ l + 1 <= k
OBVIOUS

LEMMA MsgFacts ==
  /\ \A k \in {"hdr", "piece", "end"}, r \in Requests : Msg(k, r) \in Pieces
  /\ \A k, r : Msg(k, r).kind = k /\ Msg(k, r).of = r
  /\ \A k, l, r, s : Msg(k, r) = Msg(l, s) => k = l /\ r = s
  /\ \A m \in Pieces : m = Msg(m.kind, m.of) /\ m.of \in Requests /\ m.kind \in {"hdr", "piece", "end"}
BY DEF Msg, Pieces

\* A message is taken from a channel.
LEMMA Taken ==
  ASSUME NEW w \in Seq(Pieces), w # <<>>
  PROVE  /\ Head(w) \in Pieces /\ Head(w) = w[1] /\ 1 \in 1..Len(w)
         /\ Tail(w) \in Seq(Pieces) /\ Len(w) \in Nat /\ Len(Tail(w)) = Len(w) - 1
         /\ \A i \in 1..Len(Tail(w)) : i + 1 \in 1..Len(w) /\ Tail(w)[i] = w[i + 1]
BY HeadTailProperties, EmptySeq, LenProperties

\* A message is sent on a channel.
LEMMA Put ==
  ASSUME NEW w \in Seq(Pieces), NEW m \in Pieces
  PROVE  /\ Append(w, m) \in Seq(Pieces)
         /\ Len(w) \in Nat /\ Len(Append(w, m)) = Len(w) + 1
         /\ \A i \in 1..Len(w) : Append(w, m)[i] = w[i]
         /\ Append(w, m)[Len(w) + 1] = m
BY AppendProperties, LenProperties

\* A queue of answers is emptied by its reader, or filled from the other.
LEMMA AnswerQueues ==
  /\ \A q \in Seq(Answers), a \in Answers :
       Append(q, a) \in Seq(Answers) /\ \A i \in 1..Len(Append(q, a)) :
         (i \in 1..Len(q) /\ Append(q, a)[i] = q[i]) \/ Append(q, a)[i] = a
  /\ \A q \in Seq(Answers) : q # <<>> =>
       /\ Head(q) \in Answers /\ Tail(q) \in Seq(Answers) /\ Head(q) = q[1] /\ 1 \in 1..Len(q)
       /\ \A i \in 1..Len(Tail(q)) : i + 1 \in 1..Len(q) /\ Tail(q)[i] = q[i + 1]
<1>1. ASSUME NEW q \in Seq(Answers), NEW a \in Answers
      PROVE  Append(q, a) \in Seq(Answers) /\ \A i \in 1..Len(Append(q, a)) :
               (i \in 1..Len(q) /\ Append(q, a)[i] = q[i]) \/ Append(q, a)[i] = a
  BY AppendProperties, LenProperties
<1>2. ASSUME NEW q \in Seq(Answers), q # <<>>
      PROVE  /\ Head(q) \in Answers /\ Tail(q) \in Seq(Answers) /\ Head(q) = q[1] /\ 1 \in 1..Len(q)
             /\ \A i \in 1..Len(Tail(q)) : i + 1 \in 1..Len(q) /\ Tail(q)[i] = q[i + 1]
  BY <1>2, HeadTailProperties, EmptySeq, LenProperties
<1> QED BY <1>1, <1>2

---------------------------------------------------------------------------
(* One sending to one device, while something else happens. *)

\* Nothing that concerns the file s and the device e changes, or e has gone.
Untouched(s, e) ==
  LET c == Chan(s, e) IN
  /\ leg'[s][e] = leg[s][e] /\ sent'[s][e] = sent[s][e]
  /\ <<s, e>> \in clean' <=> <<s, e>> \in clean
  /\ <<s, e>> \in cut' <=> <<s, e>> \in cut
  /\ recv'[c] = recv[c]
  /\ wire'[c] = wire[c] \/ (wire'[c] = <<>> /\ e \notin up')
  /\ Oks(c)' => Oks(c)
  /\ saved[e] \subseteq saved'[e]
  /\ \A f \in saved'[e] : f \in saved[e] \/ f.name # s
  /\ up' \subseteq up

LEMMA PairUntouched ==
  ASSUME NEW s \in Requests, NEW e \in Devices, PairInv(s, e), Untouched(s, e)
  PROVE  PairInv(s, e)'
<1> DEFINE c == Chan(s, e)
<1> USE DEF PairInv
<1>1. \A i \in 1..Len(wire'[c]) : i \in 1..Len(wire[c]) /\ wire'[c][i] = wire[c][i]
  BY EmptySeq DEF Untouched
<1>2. Pending(s, c)' => Pending(s, c)
  BY <1>1 DEF Pending, Untouched
<1>3. Unsent(s, e)'
  BY <1>2 DEF Unsent, Untouched
<1>4. Private(s, e)'
  BY <1>1 DEF Private, Own, Untouched
<1>5. OkOwn(s, e)' /\ OkOf(s, e)'
  BY DEF OkOwn, OkOf, Got, Untouched
<1>6. InOrder(s, e)'
  <2> SUFFICES ASSUME <<s, e>> \in clean', <<s, e>> \notin cut', e \in up'
               PROVE  /\ \A i \in 1..Len(wire'[c]) : wire'[c][i] = Msg("hdr", s) => i = 1
                      /\ Pending(s, c)' => Ahead(s, e)'
    BY DEF InOrder
  <2>1. wire'[c] = wire[c] /\ e \in up /\ <<s, e>> \in clean /\ <<s, e>> \notin cut
    BY DEF Untouched
  <2>2. Ahead(s, e) => Ahead(s, e)'
    BY <2>1 DEF Ahead, Rest, Untouched
  <2> QED BY <1>2, <2>1, <2>2 DEF InOrder
<1>7. WholeOf(s, e)'
  BY DEF WholeOf, Untouched
<1> QED BY <1>3, <1>4, <1>5, <1>6, <1>7

\* The rest of a file that has been sent to its end stays when more is sent.
LEMMA RestStays ==
  ASSUME NEW s, NEW e, NEW m \in Pieces, wire[Chan(s, e)] \in Seq(Pieces),
         wire'[Chan(s, e)] = Append(wire[Chan(s, e)], m),
         leg'[s][e] = leg[s][e], leg[s][e] # "stream", sent'[s][e] = sent[s][e],
         NEW k \in Nat, NEW left \in Nat, Rest(s, e, k, left)
  PROVE  Rest(s, e, k, left)'
<1> DEFINE w == wire[Chan(s, e)]
<1>1. /\ Len(w) \in Nat /\ Len(wire'[Chan(s, e)]) = Len(w) + 1
      /\ \A i \in 1..Len(w) : wire'[Chan(s, e)][i] = w[i]
  BY Put
<1>2. /\ Len(w) > k + left /\ w[k + left + 1] = Msg("end", s) /\ sent[s][e] = Size[s]
      /\ \A i \in k + 1..k + left : w[i] = Msg("piece", s)
  BY DEF Rest
<1>3. wire'[Chan(s, e)][k + left + 1] = Msg("end", s)
  BY <1>1, <1>2
<1>4. \A i \in k + 1..k + left : wire'[Chan(s, e)][i] = Msg("piece", s)
  BY <1>1, <1>2
<1> QED BY <1>1, <1>2, <1>3, <1>4 DEF Rest

\* Another file is sent on the channel after it.
LEMMA PairFollowed ==
  ASSUME Types, NEW s \in Requests, NEW e \in Devices \ Pages, PairInv(s, e), NEW m \in Pieces, m.of # s,
         leg[s][e] \notin Working, leg'[s][e] = leg[s][e], sent'[s][e] = sent[s][e],
         <<s, e>> \in clean' <=> <<s, e>> \in clean, UNCHANGED <<cut, recv, saved, up>>,
         wire'[Chan(s, e)] = Append(wire[Chan(s, e)], m)
  PROVE  PairInv(s, e)'
<1> DEFINE c == Chan(s, e)
           w == wire[c]
<1> USE DEF PairInv
<1>1. w \in Seq(Pieces) /\ sent[s][e] \in Nat /\ recv[c].parts \in Seq(Requests)
  BY ChanFacts DEF Types, Receiver
<1>2. /\ Len(w) \in Nat /\ Len(wire'[c]) = Len(w) + 1
      /\ \A i \in 1..Len(wire'[c]) : (i \in 1..Len(w) /\ wire'[c][i] = w[i]) \/ wire'[c][i] = m
      /\ \A i \in 1..Len(w) : wire'[c][i] = w[i]
  BY <1>1, Put
<1>3. m # Msg("hdr", s)
  BY MsgFacts
<1>4. Pending(s, c)' <=> Pending(s, c)
  <2>1. Pending(s, c)' => Pending(s, c)
    BY <1>2, <1>3 DEF Pending
  <2>2. Pending(s, c) => Pending(s, c)'
    BY <1>2 DEF Pending
  <2> QED BY <2>1, <2>2
<1>5. Unsent(s, e)'
  BY <1>4 DEF Unsent
<1>6. Private(s, e)' /\ OkOwn(s, e)' /\ OkOf(s, e)' /\ WholeOf(s, e)'
  BY DEF Private, OkOwn, OkOf, WholeOf, Got
<1>7. InOrder(s, e)'
  <2> SUFFICES ASSUME <<s, e>> \in clean, <<s, e>> \notin cut, e \in up
               PROVE  /\ \A i \in 1..Len(wire'[c]) : wire'[c][i] = Msg("hdr", s) => i = 1
                      /\ Pending(s, c) => Ahead(s, e)'
    BY <1>4 DEF InOrder
  <2>1. \A i \in 1..Len(wire'[c]) : wire'[c][i] = Msg("hdr", s) => i = 1
    BY <1>2, <1>3 DEF InOrder
  <2>2. ASSUME Ahead(s, e) PROVE Ahead(s, e)'
    <3>1. CASE /\ recv[c].hdr = "none" /\ recv[c].parts = <<>>
               /\ w[1] = Msg("hdr", s) /\ Rest(s, e, 1, sent[s][e])
      <4>1. Rest(s, e, 1, sent[s][e])'
        BY <1>1, <3>1, RestStays DEF Working
      <4>2. wire'[c][1] = Msg("hdr", s)
        BY <1>1, <1>2, <3>1 DEF Rest
      <4> QED BY <3>1, <4>1, <4>2 DEF Ahead
    <3>2. CASE /\ recv[c].hdr = s /\ \A i \in 1..Len(recv[c].parts) : recv[c].parts[i] = s
               /\ Len(recv[c].parts) <= sent[s][e] /\ Rest(s, e, 0, sent[s][e] - Len(recv[c].parts))
      <4>1. sent[s][e] - Len(recv[c].parts) \in Nat
        BY <1>1, <3>2, LenProperties
      <4>2. Rest(s, e, 0, sent[s][e] - Len(recv[c].parts))'
        BY <1>1, <3>2, <4>1, RestStays DEF Working
      <4> QED BY <3>2, <4>2 DEF Ahead
    <3> QED BY <2>2, <3>1, <3>2 DEF Ahead
  <2> QED BY <2>1, <2>2 DEF InOrder
<1> QED BY <1>5, <1>6, <1>7

\* A sending ends: what is on its channel stays.
LEMMA PairEnds ==
  ASSUME NEW r \in Requests, NEW d \in Devices, PairInv(r, d),
         leg'[r][d] \in {"ok", "err"}, leg'[r][d] = "ok" /\ <<r, d>> \in clean => Got(r, d),
         leg[r][d] = "stream" => <<r, d>> \in cut', cut \subseteq cut',
         UNCHANGED <<sent, clean, wire, recv, saved, up>>
  PROVE  PairInv(r, d)'
<1> USE DEF PairInv
<1>1. Unsent(r, d)' /\ OkOwn(r, d)' /\ OkOf(r, d)' /\ WholeOf(r, d)'
  BY DEF Unsent, OkOwn, OkOf, WholeOf, Got, Working
<1>2. Private(r, d)'
  BY DEF Private, Own, Working
<1>3. InOrder(r, d)'
  <2> SUFFICES ASSUME <<r, d>> \in clean, <<r, d>> \notin cut, d \in up, leg[r][d] # "stream"
               PROVE  /\ \A i \in 1..Len(wire[Chan(r, d)]) : wire[Chan(r, d)][i] = Msg("hdr", r) => i = 1
                      /\ Pending(r, Chan(r, d)) => Ahead(r, d)'
    BY DEF InOrder, Pending
  <2>1. Ahead(r, d) => Ahead(r, d)'
    BY DEF Ahead, Rest
  <2> QED BY <2>1 DEF InOrder
<1> QED BY <1>1, <1>2, <1>3

---------------------------------------------------------------------------
(* Requests, answers and connections. *)

LEMMA InitKeeps == Init => IInv
<1> SUFFICES ASSUME Init PROVE IInv
  OBVIOUS
<1>1. /\ \A r \in Requests, d \in Devices : leg[r][d] = "none" /\ sent[r][d] = 0
      /\ \A c \in Channels : /\ wire[c] = <<>> /\ back[c] = <<>> /\ reply[c] = <<>>
                             /\ recv[c] = [hdr |-> "none", parts |-> <<>>]
      /\ \A d \in Devices : saved[d] = {}
      /\ clean = {}
  BY DEF Init
<1>2. Types
  <2>1. TypeOK
    <3>1. \A r \in Requests : sent[r] \in [Devices -> 0..Size[r]]
      BY FileSendAssumption DEF Init
    <3> QED BY <1>1, <3>1, FileSendAssumption, EmptySeq DEF Init, TypeOK
  <2> QED BY <2>1, EmptySeq DEF Init, Types, Receiver
<1>3. OneAtATime /\ DeadQuiet /\ NewUnsent
  BY <1>1 DEF OneAtATime, DeadQuiet, NewUnsent, Working
<1>4. ASSUME NEW r \in Requests, NEW d \in Devices PROVE PairInv(r, d)
  <2>1. Chan(r, d) \in Channels
    BY ChanFacts
  <2>2. "none" # r
    BY FileSendAssumption
  <2> QED BY <1>1, <2>1, <2>2, EmptySeq
          DEF PairInv, Unsent, Private, OkOwn, InOrder, WholeOf, OkOf, Own, Pending
<1> QED BY <1>2, <1>3, <1>4 DEF IInv

LEMMA PutFileKeeps ==
  ASSUME IInv, NEW r \in Requests, PutFile(r)
  PROVE  IInv'
<1> USE DEF IInv
<1>1. /\ status[r] = "new" /\ status' = [status EXCEPT ![r] = IF up = {} THEN "503" ELSE "sending"]
      /\ leg' = [leg EXCEPT ![r] = [d \in Devices |-> IF d \in up THEN "start" ELSE "none"]]
      /\ UNCHANGED <<up, over, sent, devVars, wire, back, reply, histVars>>
  BY DEF PutFile
<1>2. /\ \A d \in Devices : leg[r][d] = "none" /\ leg'[r][d] \in {"none", "start"}
      /\ \A s \in Requests \ {r}, d \in Devices : leg'[s][d] = leg[s][d]
  BY <1>1 DEF NewUnsent, Types
<1>3. Types'
  BY <1>1 DEF Types, TypeOK, devVars, histVars
<1>4. OneAtATime' /\ DeadQuiet'
  BY <1>1, <1>2 DEF OneAtATime, DeadQuiet, Working
<1>5. NewUnsent'
  <2>1. status'[r] # "new" /\ \A s \in Requests \ {r} : status'[s] = status[s]
    BY <1>1 DEF Types, TypeOK
  <2> QED BY <1>2, <2>1 DEF NewUnsent
<1>6. ASSUME NEW s \in Requests, NEW e \in Devices PROVE PairInv(s, e)'
  <2>1. PairInv(s, e)
    OBVIOUS
  <2>2. CASE s = r
    <3>1. leg[s][e] = "none" /\ leg'[s][e] \in {"none", "start"}
      BY <1>2, <2>2
    <3>2. Unsent(s, e)' /\ OkOwn(s, e)' /\ OkOf(s, e)' /\ WholeOf(s, e)'
      BY <1>1, <2>1, <3>1 DEF PairInv, Unsent, OkOwn, OkOf, WholeOf, Pending, devVars, histVars, Working
    <3>3. Private(s, e)'
      BY <1>1, <2>1, <3>1 DEF PairInv, Private, Own, devVars, histVars, Working
    <3>4. InOrder(s, e)'
      BY <1>1, <2>1, <3>1 DEF PairInv, InOrder, Unsent, histVars
    <3> QED BY <3>2, <3>3, <3>4 DEF PairInv
  <2>3. CASE s # r
    <3>1. Untouched(s, e)
      BY <1>1, <1>2, <2>3 DEF Untouched, Oks, devVars, histVars
    <3> QED BY <2>1, <3>1, PairUntouched
  <2> QED BY <2>2, <2>3
<1> QED BY <1>3, <1>4, <1>5, <1>6

LEMMA RequestKeeps ==
  ASSUME IInv, NEW r \in Requests, Expire(r) \/ Finish(r)
  PROVE  IInv'
<1> USE DEF IInv
<1>1. /\ UNCHANGED <<up, leg, sent, devVars, wire, back, reply, histVars>>
      /\ status \in [Requests -> {"new", "sending", "200", "502", "503"}]
      /\ status' \in [Requests -> {"new", "sending", "200", "502", "503"}] /\ over' \subseteq Requests
      /\ \A s \in Requests : status'[s] = "new" => status[s] = "new"
  BY DEF Expire, Finish, Types, TypeOK
<1>2. Types'
  BY <1>1 DEF Types, TypeOK, devVars, histVars
<1>3. OneAtATime' /\ DeadQuiet' /\ NewUnsent'
  BY <1>1 DEF OneAtATime, DeadQuiet, NewUnsent
<1>4. ASSUME NEW s \in Requests, NEW e \in Devices PROVE PairInv(s, e)'
  <2>1. Untouched(s, e)
    BY <1>1 DEF Untouched, Oks, devVars, histVars
  <2> QED BY <2>1, PairUntouched
<1> QED BY <1>2, <1>3, <1>4

LEMMA OnMessageKeeps ==
  ASSUME IInv, NEW c \in Channels, OnMessage(c)
  PROVE  IInv'
<1> USE DEF IInv
<1>1. /\ back[c] # <<>> /\ back' = [back EXCEPT ![c] = Tail(@)]
      /\ reply' = [reply EXCEPT ![c] = IF Len(@) < ReplyCap THEN Append(@, Head(back[c])) ELSE @]
      /\ UNCHANGED <<up, hostVars, devVars, wire, histVars>>
  BY DEF OnMessage
<1>2. /\ back[c] \in Seq(Answers) /\ reply[c] \in Seq(Answers) /\ Head(back[c]) \in Answers
      /\ Tail(back[c]) \in Seq(Answers) /\ Append(reply[c], Head(back[c])) \in Seq(Answers)
      /\ Head(back[c]) = back[c][1] /\ 1 \in 1..Len(back[c])
      /\ \A i \in 1..Len(Tail(back[c])) : i + 1 \in 1..Len(back[c]) /\ Tail(back[c])[i] = back[c][i + 1]
      /\ \A i \in 1..Len(Append(reply[c], Head(back[c]))) :
           \/ i \in 1..Len(reply[c]) /\ Append(reply[c], Head(back[c]))[i] = reply[c][i]
           \/ Append(reply[c], Head(back[c]))[i] = back[c][1]
  <2>1. back[c] \in Seq(Answers) /\ reply[c] \in Seq(Answers)
    BY DEF Types
  <2>2. Head(back[c]) \in Answers
    BY <1>1, <2>1, AnswerQueues
  <2> QED BY <1>1, <2>1, <2>2, AnswerQueues
<1>3. /\ back'[c] = Tail(back[c]) /\ reply'[c] \in {reply[c], Append(reply[c], Head(back[c]))}
      /\ \A b \in Channels \ {c} : back'[b] = back[b] /\ reply'[b] = reply[b]
  BY <1>1 DEF Types
<1>4. Types'
  <2>1. back' \in [Channels -> Seq(Answers)]
    BY <1>1, <1>2 DEF Types
  <2>2. reply' \in [Channels -> Seq(Answers)]
    BY <1>1, <1>2 DEF Types
  <2>3. Len(reply'[c]) <= ReplyCap
    <3>1. CASE Len(reply[c]) < ReplyCap
      <4>1. reply'[c] = Append(reply[c], Head(back[c]))
        BY <1>1, <3>1 DEF Types
      <4>2. Len(reply'[c]) = Len(reply[c]) + 1 /\ Len(reply[c]) \in Nat
        BY <1>2, <4>1, AppendProperties, LenProperties
      <4> QED BY <3>1, <4>2, FileSendAssumption
    <3>2. CASE ~(Len(reply[c]) < ReplyCap)
      BY <1>1, <3>2 DEF Types, TypeOK
    <3> QED BY <3>1, <3>2
  <2>4. TypeOK'
    BY <1>1, <1>3, <2>3 DEF Types, TypeOK, hostVars, devVars, histVars
  <2> QED BY <1>1, <2>1, <2>2, <2>4 DEF Types, hostVars, devVars, histVars
<1>5. OneAtATime' /\ NewUnsent'
  BY <1>1 DEF OneAtATime, NewUnsent, hostVars
<1>6. DeadQuiet'
  BY <1>1, <1>3 DEF DeadQuiet
<1>7. ASSUME NEW s \in Requests, NEW e \in Devices PROVE PairInv(s, e)'
  <2>1. Oks(Chan(s, e))' => Oks(Chan(s, e))
    <3>1. CASE Chan(s, e) = c
      <4>1. ASSUME NEW i \in 1..Len(back'[c]), back'[c][i] = "ok" PROVE Oks(c)
        BY <1>2, <1>3, <4>1 DEF Oks
      <4>2. ASSUME NEW i \in 1..Len(reply'[c]), reply'[c][i] = "ok" PROVE Oks(c)
        <5>1. CASE reply'[c] = reply[c]
          BY <4>2, <5>1 DEF Oks
        <5>2. CASE reply'[c] = Append(reply[c], Head(back[c]))
          BY <1>2, <4>2, <5>2 DEF Oks
        <5> QED BY <1>3, <5>1, <5>2
      <4> QED BY <3>1, <4>1, <4>2 DEF Oks
    <3>2. CASE Chan(s, e) # c
      BY <1>3, <3>2, ChanFacts DEF Oks
    <3> QED BY <3>1, <3>2
  <2>2. Untouched(s, e)
    BY <1>1, <2>1 DEF Untouched, hostVars, devVars, histVars
  <2> QED BY <2>2, PairUntouched
<1> QED BY <1>4, <1>5, <1>6, <1>7

LEMMA DisconnectKeeps ==
  ASSUME IInv, NEW d \in Devices, Disconnect(d)
  PROVE  IInv'
<1> USE DEF IInv
<1>1. /\ up' = up \ {d}
      /\ \A c \in Channels : /\ wire'[c] = IF c[2] = d THEN <<>> ELSE wire[c]
                             /\ back'[c] = IF c[2] = d THEN <<>> ELSE back[c]
      /\ UNCHANGED <<hostVars, devVars, reply, histVars>>
  BY DEF Disconnect
<1>2. Types'
  <2>1. wire' \in [Channels -> Seq(Pieces)] /\ back' \in [Channels -> Seq(Answers)]
    BY EmptySeq DEF Disconnect, Types
  <2> QED BY <1>1, <2>1 DEF Types, TypeOK, hostVars, devVars, histVars
<1>3. OneAtATime' /\ NewUnsent'
  BY <1>1 DEF OneAtATime, NewUnsent, hostVars
<1>4. DeadQuiet'
  BY <1>1 DEF DeadQuiet
<1>5. ASSUME NEW s \in Requests, NEW e \in Devices PROVE PairInv(s, e)'
  <2>1. Chan(s, e) \in Channels /\ Chan(s, e)[2] = e
    BY ChanFacts
  <2>2. Oks(Chan(s, e))' => Oks(Chan(s, e))
    BY <1>1, <2>1, EmptySeq DEF Oks
  <2>3. Untouched(s, e)
    BY <1>1, <2>1, <2>2 DEF Untouched, hostVars, devVars, histVars
  <2> QED BY <2>3, PairUntouched
<1> QED BY <1>2, <1>3, <1>4, <1>5

---------------------------------------------------------------------------
(* fileOut.send. *)

LEMMA Moved ==
  ASSUME Types, NEW r \in Requests, NEW d \in Devices,
         NEW to \in {"none", "start", "stream", "await", "ok", "err"}, Move(r, d, to)
  PROVE  /\ leg' \in [Requests -> [Devices -> {"none", "start", "stream", "await", "ok", "err"}]]
         /\ leg'[r][d] = to
         /\ \A s \in Requests, e \in Devices : s # r \/ e # d => leg'[s][e] = leg[s][e]
BY DEF Move, Types

\* A sending ends, with an answer taken or without one.
LEMMA EndingKeeps ==
  ASSUME IInv, NEW r \in Requests, NEW d \in Devices, NEW to \in Answers, Move(r, d, to),
         leg[r][d] \in {"start", "stream", "await"},
         \/ UNCHANGED reply
         \/ leg[r][d] \in Working /\ Refused(r, d),
         to = "ok" => leg[r][d] = "await" /\ reply[Chan(r, d)] # <<>> /\ Head(reply[Chan(r, d)]) = "ok",
         cut' = IF leg[r][d] = "stream" THEN cut \cup {<<r, d>>} ELSE cut,
         UNCHANGED <<up, status, over, sent, devVars, wire, back, clean>>
  PROVE  IInv'
<1> DEFINE c == Chan(r, d)
<1> USE DEF IInv
<1>1. /\ leg' \in [Requests -> [Devices -> {"none", "start", "stream", "await", "ok", "err"}]]
      /\ leg'[r][d] = to
      /\ \A s \in Requests, e \in Devices : s # r \/ e # d => leg'[s][e] = leg[s][e]
  BY Moved DEF Answers
<1>2. c \in Channels /\ reply[c] \in Seq(Answers)
  BY ChanFacts DEF Types
<1>3. reply[c] # <<>> =>
        /\ Tail(reply[c]) \in Seq(Answers) /\ Head(reply[c]) = reply[c][1] /\ 1 \in 1..Len(reply[c])
        /\ \A i \in 1..Len(Tail(reply[c])) : i + 1 \in 1..Len(reply[c]) /\ Tail(reply[c])[i] = reply[c][i + 1]
  BY <1>2, AnswerQueues
<1>4. /\ \A b \in Channels \ {c} : reply'[b] = reply[b]
      /\ \/ reply' = reply
         \/ leg[r][d] \in Working /\ reply[c] # <<>> /\ reply' = [reply EXCEPT ![c] = Tail(@)]
  BY DEF Refused, Types
<1>5. Types'
  <2>1. reply' \in [Channels -> Seq(Answers)]
    BY <1>2, <1>3, <1>4 DEF Types
  <2>2. Len(reply'[c]) <= ReplyCap
    <3>1. CASE reply' = reply
      BY <1>2, <3>1 DEF Types, TypeOK
    <3>2. CASE reply[c] # <<>> /\ reply' = [reply EXCEPT ![c] = Tail(@)]
      <4>1. Len(reply'[c]) = Len(reply[c]) - 1 /\ Len(reply[c]) \in Nat /\ Len(reply[c]) <= ReplyCap
        BY <1>2, <3>2, HeadTailProperties, LenProperties DEF Types, TypeOK
      <4> QED BY <4>1, FileSendAssumption
    <3> QED BY <1>4, <3>1, <3>2
  <2>3. TypeOK'
    BY <1>1, <1>4, <2>2 DEF Types, TypeOK, devVars
  <2> QED BY <1>1, <2>1, <2>3 DEF Types, devVars
<1>6. OneAtATime'
  BY <1>1 DEF OneAtATime, Working, Answers
<1>7. DeadQuiet' /\ NewUnsent'
  BY <1>1 DEF DeadQuiet, NewUnsent
<1>8. ASSUME NEW s \in Requests, NEW e \in Devices PROVE PairInv(s, e)'
  <2>1. PairInv(s, e)
    OBVIOUS
  <2>2. CASE s = r /\ e = d
    <3>1. to = "ok" /\ <<r, d>> \in clean => Got(r, d)
      <4> SUFFICES ASSUME to = "ok", <<r, d>> \in clean PROVE Got(r, d)
        OBVIOUS
      <4>1. Oks(c) /\ leg[r][d] \in Working
        BY <1>3 DEF Oks, Working
      <4> QED BY <2>1, <2>2, <4>1 DEF PairInv, OkOwn
    <3> QED BY <1>1, <2>1, <2>2, <3>1, PairEnds DEF devVars, Answers
  <2>3. CASE s # r \/ e # d
    <3>1. CASE Chan(s, e) = c /\ reply' # reply
      <4>1. leg[r][d] \in Working
        BY <1>4, <3>1
      <4>2. leg[s][e] \notin Working
        BY <2>3, <3>1, <4>1 DEF OneAtATime
      <4>3. Oks(Chan(s, e))' => Oks(Chan(s, e))
        <5>1. ASSUME NEW i \in 1..Len(reply'[c]), reply'[c][i] = "ok" PROVE Oks(c)
          <6>1. reply'[c] = Tail(reply[c]) /\ reply[c] # <<>>
            BY <1>2, <1>4, <3>1 DEF Types
          <6> QED BY <1>3, <5>1, <6>1 DEF Oks
        <5> QED BY <3>1, <5>1 DEF Oks
      <4>4. Untouched(s, e)
        BY <1>1, <2>3, <4>3 DEF Untouched, devVars
      <4> QED BY <2>1, <4>4, PairUntouched
    <3>2. CASE Chan(s, e) # c \/ reply' = reply
      <4>1. Oks(Chan(s, e))' => Oks(Chan(s, e))
        BY <1>4, <3>2, ChanFacts DEF Oks
      <4>2. Untouched(s, e)
        BY <1>1, <2>3, <4>1 DEF Untouched, devVars
      <4> QED BY <2>1, <4>2, PairUntouched
    <3> QED BY <3>1, <3>2
  <2> QED BY <2>2, <2>3
<1> QED BY <1>5, <1>6, <1>7, <1>8

LEMMA EndsKeep ==
  ASSUME IInv, NEW r \in Requests, NEW d \in Devices,
         NotOpened(r, d) \/ Stop(r, d) \/ Answer(r, d) \/ NoAnswer(r, d)
  PROVE  IInv'
<1>1. CASE NotOpened(r, d) \/ NoAnswer(r, d)
  BY <1>1, EndingKeeps DEF NotOpened, NoAnswer, Answers, histVars
<1>2. CASE Stop(r, d)
  BY <1>2, EndingKeeps DEF Stop, CutShort, Answers, Working
<1>3. CASE Answer(r, d)
  <2>1. reply[Chan(r, d)] \in Seq(Answers) /\ reply[Chan(r, d)] # <<>>
    BY <1>3, ChanFacts DEF Answer, IInv, Types
  <2>2. PICK to \in Answers : to = Head(reply[Chan(r, d)])
    BY <2>1, AnswerQueues
  <2>3. Move(r, d, to) /\ Refused(r, d)
    BY <1>3, <2>2 DEF Answer, Refused
  <2> QED BY <1>3, <2>1, <2>2, <2>3, EndingKeeps DEF Answer, Working, histVars
<1> QED BY <1>1, <1>2, <1>3

\* What is sent goes to one channel.
LEMMA Transmitted ==
  ASSUME Types, NEW c \in Channels, NEW m \in Pieces, Transmit(c, m)
  PROVE  /\ wire' \in [Channels -> Seq(Pieces)]
         /\ wire'[c] = Append(wire[c], m)
         /\ \A b \in Channels \ {c} : wire'[b] = wire[b]
<1>1. Append(wire[c], m) \in Seq(Pieces)
  BY Put DEF Types
<1> QED BY <1>1 DEF Transmit, Types

\* While a file is sent the other files' sendings are as before, or they are
\* over on this channel and the file follows them.
LEMMA OthersFollowed ==
  ASSUME IInv, NEW r \in Requests, NEW d \in Devices, NEW m \in Pieces, m.of = r,
         Transmit(Chan(r, d), m), UNCHANGED <<up, devVars, cut>>,
         \A s \in Requests, e \in Devices :
           s # r \/ e # d => /\ leg'[s][e] = leg[s][e] /\ sent'[s][e] = sent[s][e]
                             /\ <<s, e>> \in clean' <=> <<s, e>> \in clean
                             /\ Oks(Chan(s, e))' => Oks(Chan(s, e))
                             /\ Chan(s, e) = Chan(r, d) => leg[s][e] \notin Working,
         NEW s \in Requests, NEW e \in Devices, s # r \/ e # d
  PROVE  PairInv(s, e)'
<1> DEFINE c == Chan(r, d)
<1> USE DEF IInv
<1>1. c \in Channels /\ Chan(s, e) \in Channels /\ PairInv(s, e)
  BY ChanFacts
<1>2. wire'[c] = Append(wire[c], m) /\ \A b \in Channels \ {c} : wire'[b] = wire[b]
  BY <1>1, Transmitted
<1>3. CASE Chan(s, e) = c
  <2>1. e = d /\ e \notin Pages
    BY <1>3, ChanFacts
  <2>2. m.of # s
    BY <2>1
  <2>3. /\ leg'[s][e] = leg[s][e] /\ sent'[s][e] = sent[s][e] /\ leg[s][e] \notin Working
        /\ <<s, e>> \in clean' <=> <<s, e>> \in clean
    BY <1>3
  <2>4. wire'[Chan(s, e)] = Append(wire[Chan(s, e)], m)
    BY <1>2, <1>3
  <2>5. UNCHANGED <<cut, recv, saved, up>> /\ Types
    BY DEF devVars
  <2> QED BY <1>1, <2>1, <2>2, <2>3, <2>4, <2>5, PairFollowed
<1>4. CASE Chan(s, e) # c
  <2>1. wire'[Chan(s, e)] = wire[Chan(s, e)]
    BY <1>1, <1>2, <1>4
  <2>2. Untouched(s, e)
    BY <2>1 DEF Untouched, devVars
  <2> QED BY <1>1, <2>2, PairUntouched
<1> QED BY <1>3, <1>4

LEMMA StartKeeps ==
  ASSUME IInv, NEW r \in Requests, NEW d \in Devices, Start(r, d)
  PROVE  IInv'
<1> DEFINE c == Chan(r, d)
           m == Msg("hdr", r)
<1> USE DEF IInv
<1>1. /\ leg[r][d] = "start" /\ reply' = [reply EXCEPT ![c] = <<>>]
      /\ clean' = IF Quiet(c) THEN clean \cup {<<r, d>>} ELSE clean
      /\ UNCHANGED <<up, status, over, sent, devVars, back, cut>>
      /\ \A s \in Requests, e \in Devices : Chan(s, e) = c => leg[s][e] \notin Working
  BY DEF Start, StartOn, Locked
<1>2. /\ c \in Channels /\ c[2] = d /\ PairInv(r, d) /\ m \in Pieces /\ m.of = r /\ wire[c] \in Seq(Pieces)
      /\ recv[c] \in Receiver
  BY ChanFacts, MsgFacts DEF Types
<1>3. reply'[c] = <<>> /\ \A b \in Channels \ {c} : reply'[b] = reply[b]
  BY <1>1, <1>2 DEF Types
<1>4. reply' \in [Channels -> Seq(Answers)] /\ \A b \in Channels : Len(reply'[b]) <= ReplyCap
  <2>1. reply' \in [Channels -> Seq(Answers)]
    BY <1>1, <1>2, EmptySeq DEF Types
  <2>2. Len(reply'[c]) <= ReplyCap
    BY <1>3, EmptySeq, FileSendAssumption
  <2> QED BY <1>3, <2>1, <2>2 DEF Types, TypeOK
<1>5. ASSUME NEW s \in Requests, NEW e \in Devices PROVE Oks(Chan(s, e))' => Oks(Chan(s, e))
  BY <1>1, <1>3, ChanFacts, EmptySeq DEF Oks
<1>6. CASE d \notin up
  <2>1. Move(r, d, "err") /\ UNCHANGED wire
    BY <1>6 DEF Start, StartOn
  <2>2. /\ leg' \in [Requests -> [Devices -> {"none", "start", "stream", "await", "ok", "err"}]]
        /\ leg'[r][d] = "err"
        /\ \A s \in Requests, e \in Devices : s # r \/ e # d => leg'[s][e] = leg[s][e]
    BY <2>1, Moved
  <2>3. Types'
    <3>1. TypeOK'
      BY <1>1, <1>4, <2>2 DEF Types, TypeOK, devVars
    <3> QED BY <1>1, <1>4, <2>1, <2>2, <3>1 DEF Types, devVars
  <2>4. OneAtATime' /\ DeadQuiet' /\ NewUnsent'
    BY <1>1, <2>1, <2>2 DEF OneAtATime, DeadQuiet, NewUnsent, Working
  <2>5. ASSUME NEW s \in Requests, NEW e \in Devices PROVE PairInv(s, e)'
    <3>1. PairInv(s, e)
      OBVIOUS
    <3>2. CASE s = r /\ e = d
      <4>1. \A f \in saved[e] : f.name # s
        BY <1>1, <3>1, <3>2 DEF PairInv, Unsent
      <4>2. Unsent(s, e)' /\ OkOwn(s, e)' /\ OkOf(s, e)' /\ InOrder(s, e)' /\ WholeOf(s, e)'
        BY <1>1, <1>6, <2>2, <3>2, <4>1 DEF Unsent, OkOwn, OkOf, InOrder, WholeOf, Working, devVars
      <4>3. Private(s, e)'
        BY <1>1, <2>1, <2>2, <3>1, <3>2 DEF PairInv, Private, Own, Working, devVars
      <4> QED BY <4>2, <4>3 DEF PairInv
    <3>3. CASE s # r \/ e # d
      <4>1. <<s, e>> \in clean' <=> <<s, e>> \in clean
        BY <1>1, <3>3
      <4>2. Untouched(s, e)
        BY <1>1, <1>5, <2>1, <2>2, <3>3, <4>1 DEF Untouched, devVars
      <4> QED BY <3>1, <4>2, PairUntouched
    <3> QED BY <3>2, <3>3
  <2> QED BY <2>3, <2>4, <2>5
<1>7. CASE d \in up
  <2>1. Move(r, d, "stream") /\ Transmit(c, m)
    BY <1>7 DEF Start, StartOn
  <2>2. /\ leg' \in [Requests -> [Devices -> {"none", "start", "stream", "await", "ok", "err"}]]
        /\ leg'[r][d] = "stream"
        /\ \A s \in Requests, e \in Devices : s # r \/ e # d => leg'[s][e] = leg[s][e]
    BY <2>1, Moved
  <2>3. /\ wire' \in [Channels -> Seq(Pieces)]
        /\ wire'[c] = Append(wire[c], m)
        /\ \A b \in Channels \ {c} : wire'[b] = wire[b]
    BY <1>2, <2>1, Transmitted
  <2>4. /\ Len(wire[c]) \in Nat /\ Len(wire'[c]) = Len(wire[c]) + 1
        /\ \A i \in 1..Len(wire'[c]) : (i \in 1..Len(wire[c]) /\ wire'[c][i] = wire[c][i]) \/ wire'[c][i] = m
        /\ wire'[c][Len(wire[c]) + 1] = m
    BY <1>2, <2>3, Put
  <2>5. Types'
    <3>1. TypeOK'
      BY <1>1, <1>4, <2>2 DEF Types, TypeOK, devVars
    <3> QED BY <1>1, <1>4, <2>2, <2>3, <3>1 DEF Types, devVars
  <2>6. OneAtATime'
    <3> SUFFICES ASSUME NEW p \in Requests, NEW s \in Requests, NEW q \in Devices, NEW e \in Devices,
                        leg'[p][q] \in Working, leg'[s][e] \in Working, Chan(p, q) = Chan(s, e)
                 PROVE  p = s /\ q = e
      BY DEF OneAtATime
    <3>1. CASE p = r /\ q = d
      BY <1>1, <2>2, <3>1
    <3>2. CASE s = r /\ e = d
      BY <1>1, <2>2, <3>2
    <3>3. CASE (p # r \/ q # d) /\ (s # r \/ e # d)
      BY <2>2, <3>3 DEF OneAtATime
    <3> QED BY <3>1, <3>2, <3>3
  <2>7. DeadQuiet' /\ NewUnsent'
    <3>1. DeadQuiet'
      BY <1>1, <1>2, <1>7, <2>3 DEF DeadQuiet
    <3>2. status[r] # "new"
      BY <1>1 DEF NewUnsent
    <3> QED BY <1>1, <2>2, <3>1, <3>2 DEF NewUnsent
  <2>8. PairInv(r, d)'
    <3>1. Unsent(r, d)' /\ OkOf(r, d)'
      BY <2>2 DEF Unsent, OkOf
    <3>2. WholeOf(r, d)'
      BY <1>1, <1>2 DEF PairInv, Unsent, WholeOf, devVars
    <3>3. sent[r][d] = 0 /\ <<r, d>> \notin clean
      BY <1>1, <1>2 DEF PairInv, Unsent
    <3>4. <<r, d>> \in clean' => Quiet(c)
      BY <1>1, <3>3
    <3>5. Quiet(c) => /\ Len(wire'[c]) = 1 /\ wire'[c][1] = m /\ back'[c] = <<>>
                      /\ recv'[c].hdr = "none" /\ recv'[c].parts = <<>>
      BY <1>1, <2>3 DEF Quiet, devVars
    <3>6. Private(r, d)'
      <4>1. CASE d \in Pages
        <5>1. Own(r, c)
          BY <1>2, <4>1 DEF PairInv, Private
        <5> QED BY <1>1, <1>2, <2>4, <5>1 DEF Private, Own, devVars
      <4>2. CASE d \notin Pages /\ <<r, d>> \in clean'
        BY <1>2, <3>4, <3>5, <4>2, EmptySeq DEF Private, Own
      <4> QED BY <4>1, <4>2 DEF Private
    <3>7. OkOwn(r, d)'
      BY <1>3, <3>4, <3>5, EmptySeq DEF OkOwn, Oks
    <3>8. InOrder(r, d)'
      <4> SUFFICES ASSUME Quiet(c)
                   PROVE  /\ \A i \in 1..Len(wire'[c]) : wire'[c][i] = Msg("hdr", r) => i = 1
                          /\ Ahead(r, d)'
        BY <3>4 DEF InOrder
      <4>1. Rest(r, d, 1, 0)'
        BY <2>2, <3>5 DEF Rest
      <4>2. sent'[r][d] = 0
        BY <1>1, <3>3
      <4>3. Ahead(r, d)'
        BY <3>5, <4>1, <4>2 DEF Ahead
      <4> QED BY <3>5, <4>3
    <3> QED BY <3>1, <3>2, <3>6, <3>7, <3>8 DEF PairInv
  <2>9. ASSUME NEW s \in Requests, NEW e \in Devices, s # r \/ e # d PROVE PairInv(s, e)'
    <3>1. ASSUME NEW p \in Requests, NEW q \in Devices, p # r \/ q # d
          PROVE  <<p, q>> \in clean' <=> <<p, q>> \in clean
      BY <1>1, <3>1
    <3> QED BY <1>1, <1>2, <1>5, <2>1, <2>2, <2>9, <3>1, OthersFollowed
  <2> QED BY <2>5, <2>6, <2>7, <2>8, <2>9
<1> QED BY <1>6, <1>7

\* What is left of the file r on its channel, when one more message of it is
\* sent: a piece, or the "end".
LEMMA RestSent ==
  ASSUME Types, NEW r \in Requests, NEW d \in Devices, leg[r][d] = "stream",
         NEW kind \in {"piece", "end"}, wire'[Chan(r, d)] = Append(wire[Chan(r, d)], Msg(kind, r)),
         kind = "piece" => leg'[r][d] = "stream",
         kind = "end" => leg'[r][d] = "await" /\ sent'[r][d] = Size[r],
         NEW k \in Nat, NEW left \in Nat, Rest(r, d, k, left)
  PROVE  Rest(r, d, k, IF kind = "piece" THEN left + 1 ELSE left)'
<1> DEFINE w == wire[Chan(r, d)]
           v == wire'[Chan(r, d)]
<1>1. w \in Seq(Pieces) /\ Msg(kind, r) \in Pieces
  BY ChanFacts, MsgFacts DEF Types
<1>2. /\ Len(w) \in Nat /\ Len(v) = Len(w) + 1 /\ v[Len(w) + 1] = Msg(kind, r)
      /\ \A i \in 1..Len(w) : v[i] = w[i]
  BY <1>1, Put
<1>3. Len(w) = k + left /\ \A i \in k + 1..k + left : w[i] = Msg("piece", r)
  BY DEF Rest
<1>4. \A i \in k + 1..k + left : v[i] = Msg("piece", r)
  BY <1>2, <1>3
<1>5. CASE kind = "piece"
  <2>1. \A i \in k + 1..k + left + 1 : v[i] = Msg("piece", r)
    BY <1>2, <1>3, <1>4, <1>5
  <2> QED BY <1>2, <1>3, <1>5, <2>1 DEF Rest
<1>6. CASE kind = "end"
  BY <1>2, <1>3, <1>4, <1>6 DEF Rest
<1> QED BY <1>5, <1>6

LEMMA SendKeeps ==
  ASSUME IInv, NEW r \in Requests, NEW d \in Devices, Piece(r, d) \/ End(r, d)
  PROVE  IInv'
<1> DEFINE c == Chan(r, d)
           w == wire[c]
           v == wire'[c]
<1> USE DEF IInv
<1>1. PICK kind \in {"piece", "end"} :
        /\ leg[r][d] = "stream" /\ d \in up /\ Transmit(c, Msg(kind, r))
        /\ kind = "piece" => sent[r][d] < Size[r] /\ sent' = [sent EXCEPT ![r][d] = @ + 1] /\ UNCHANGED leg
        /\ kind = "end" => sent[r][d] = Size[r] /\ Move(r, d, "await") /\ UNCHANGED sent
        /\ UNCHANGED <<up, status, over, devVars, back, reply, clean, cut>>
  BY DEF Piece, End, histVars
<1> DEFINE m == Msg(kind, r)
<1>2. /\ c \in Channels /\ c[2] = d /\ PairInv(r, d) /\ m \in Pieces /\ m.of = r /\ w \in Seq(Pieces)
      /\ m # Msg("hdr", r) /\ sent[r][d] \in Nat /\ recv[c].parts \in Seq(Requests)
  BY ChanFacts, MsgFacts DEF Types, Receiver
<1>3. /\ v = Append(w, m) /\ wire' \in [Channels -> Seq(Pieces)]
      /\ \A b \in Channels \ {c} : wire'[b] = wire[b]
  BY <1>1, <1>2, Transmitted
<1>4. /\ Len(w) \in Nat /\ Len(v) = Len(w) + 1 /\ v[Len(w) + 1] = m
      /\ \A i \in 1..Len(v) : (i \in 1..Len(w) /\ v[i] = w[i]) \/ v[i] = m
      /\ \A i \in 1..Len(w) : v[i] = w[i]
  BY <1>2, <1>3, Put
<1>5. /\ leg' \in [Requests -> [Devices -> {"none", "start", "stream", "await", "ok", "err"}]]
      /\ leg'[r][d] = IF kind = "piece" THEN "stream" ELSE "await"
      /\ \A s \in Requests, e \in Devices : s # r \/ e # d => leg'[s][e] = leg[s][e]
  <2>1. CASE kind = "piece"
    BY <1>1, <2>1 DEF Types
  <2>2. CASE kind = "end"
    BY <1>1, <2>2, Moved
  <2> QED BY <2>1, <2>2
<1>6. /\ sent' \in [Requests -> [Devices -> Nat]]
      /\ sent'[r][d] = IF kind = "piece" THEN sent[r][d] + 1 ELSE sent[r][d]
      /\ \A s \in Requests, e \in Devices : s # r \/ e # d => sent'[s][e] = sent[s][e]
  <2>1. CASE kind = "piece"
    <3>1. [sent[r] EXCEPT ![d] = sent[r][d] + 1] \in [Devices -> Nat]
      BY <1>2 DEF Types
    <3>2. sent' = [sent EXCEPT ![r] = [sent[r] EXCEPT ![d] = sent[r][d] + 1]]
      BY <1>1, <2>1
    <3> QED BY <2>1, <3>1, <3>2 DEF Types
  <2>2. CASE kind = "end"
    BY <1>1, <2>2 DEF Types
  <2> QED BY <2>1, <2>2
<1>7. Types'
  <2>1. \A s \in Requests : sent'[s] \in [Devices -> 0..Size[s]]
    <3> SUFFICES ASSUME NEW s \in Requests, NEW e \in Devices PROVE sent'[s][e] \in 0..Size[s]
      BY <1>6
    <3>1. sent[s][e] \in 0..Size[s] /\ Size[s] \in Nat
      BY FileSendAssumption DEF Types, TypeOK
    <3>2. CASE s = r /\ e = d
      BY <1>1, <1>6, <3>1, <3>2
    <3>3. CASE s # r \/ e # d
      BY <1>6, <3>1, <3>3
    <3> QED BY <3>2, <3>3
  <2>2. TypeOK'
    BY <1>1, <1>5, <2>1 DEF Types, TypeOK, devVars
  <2> QED BY <1>1, <1>3, <1>5, <1>6, <2>2 DEF Types, devVars
<1>8. OneAtATime'
  <2>1. \A s \in Requests, e \in Devices : leg'[s][e] \in Working => leg[s][e] \in Working
    BY <1>1, <1>5 DEF Working
  <2> QED BY <2>1 DEF OneAtATime
<1>9. DeadQuiet'
  BY <1>1, <1>2, <1>3 DEF DeadQuiet
<1>10. NewUnsent'
  <2>1. status[r] # "new"
    BY <1>1 DEF NewUnsent
  <2> QED BY <1>1, <1>5, <2>1 DEF NewUnsent
<1>11. PairInv(r, d)'
  <2>1. Unsent(r, d)' /\ OkOf(r, d)'
    BY <1>5 DEF Unsent, OkOf
  <2>2. WholeOf(r, d)'
    BY <1>1, <1>2 DEF PairInv, WholeOf, devVars
  <2>3. Private(r, d)'
    <3>1. Own(r, c) => Own(r, c)'
      BY <1>1, <1>2, <1>4 DEF Own, devVars
    <3> QED BY <1>1, <1>2, <3>1 DEF PairInv, Private, Working
  <2>4. OkOwn(r, d)'
    BY <1>1, <1>2 DEF PairInv, OkOwn, Oks, Got, Working, devVars
  <2>5. InOrder(r, d)'
    <3> SUFFICES ASSUME <<r, d>> \in clean, <<r, d>> \notin cut
                 PROVE  /\ \A i \in 1..Len(v) : v[i] = Msg("hdr", r) => i = 1
                        /\ Pending(r, c)' => Ahead(r, d)'
      BY <1>1 DEF InOrder
    <3>1. \A i \in 1..Len(v) : v[i] = Msg("hdr", r) => i \in 1..Len(w) /\ w[i] = Msg("hdr", r)
      BY <1>2, <1>4
    <3>2. \A i \in 1..Len(w) : w[i] = Msg("hdr", r) => i = 1
      BY <1>1, <1>2 DEF PairInv, InOrder
    <3>3. Pending(r, c)' => Ahead(r, d)
      <4>1. Pending(r, c)' => Pending(r, c)
        BY <1>1, <3>1 DEF Pending, devVars
      <4> QED BY <1>1, <1>2, <4>1 DEF PairInv, InOrder
    <3>4. ASSUME NEW k \in Nat, NEW left \in Nat, Rest(r, d, k, left)
          PROVE  Rest(r, d, k, IF kind = "piece" THEN left + 1 ELSE left)'
      BY <1>1, <1>3, <1>5, <1>6, <3>4, RestSent
    <3>5. ASSUME Ahead(r, d) PROVE Ahead(r, d)'
      <4>1. CASE /\ recv[c].hdr = "none" /\ recv[c].parts = <<>>
                 /\ w[1] = Msg("hdr", r) /\ Rest(r, d, 1, sent[r][d])
        <5>1. Rest(r, d, 1, sent[r][d])'
          BY <1>2, <1>6, <3>4, <4>1
        <5>2. v[1] = Msg("hdr", r)
          BY <1>2, <1>4, <4>1 DEF Rest
        <5> QED BY <1>1, <4>1, <5>1, <5>2 DEF Ahead, devVars
      <4>2. CASE /\ recv[c].hdr = r /\ \A i \in 1..Len(recv[c].parts) : recv[c].parts[i] = r
                 /\ Len(recv[c].parts) <= sent[r][d] /\ Rest(r, d, 0, sent[r][d] - Len(recv[c].parts))
        <5> DEFINE l == Len(recv[c].parts)
        <5>1. l \in Nat /\ sent[r][d] - l \in Nat
          BY <1>2, <4>2, LenProperties
        <5>2. sent'[r][d] - l = IF kind = "piece" THEN (sent[r][d] - l) + 1 ELSE sent[r][d] - l
          <6>1. CASE kind = "piece"
            <7>1. sent'[r][d] = sent[r][d] + 1
              BY <1>6, <6>1
            <7>2. (sent[r][d] + 1) - l = (sent[r][d] - l) + 1
              BY <1>2, <5>1, LeftToGo
            <7> QED BY <6>1, <7>1, <7>2
          <6>2. CASE kind # "piece"
            BY <1>6, <6>2
          <6> QED BY <6>1, <6>2
        <5>3. PICK n \in Nat : n = sent[r][d] - l
          BY <5>1
        <5>4. Rest(r, d, 0, IF kind = "piece" THEN n + 1 ELSE n)'
          BY <3>4, <4>2, <5>3
        <5>5. recv' = recv /\ l <= sent'[r][d]
          BY <1>1, <1>2, <1>6, <4>2, <5>1 DEF devVars
        <5>6. PICK n1 \in Nat : n1 = (IF kind = "piece" THEN n + 1 ELSE n)
          OBVIOUS
        <5>7. Rest(r, d, 0, n1)' /\ n1 = sent'[r][d] - l
          BY <5>2, <5>3, <5>4, <5>6
        <5>8. Rest(r, d, 0, sent[r][d] - Len(recv[c].parts))'
          BY <5>5, <5>7
        <5> QED BY <4>2, <5>5, <5>8 DEF Ahead
      <4> QED BY <3>5, <4>1, <4>2 DEF Ahead
    <3> QED BY <3>1, <3>2, <3>3, <3>5
  <2> QED BY <2>1, <2>2, <2>3, <2>4, <2>5 DEF PairInv
<1>12. ASSUME NEW s \in Requests, NEW e \in Devices, s # r \/ e # d PROVE PairInv(s, e)'
  <2>1. ASSUME NEW p \in Requests, NEW q \in Devices, p # r \/ q # d
        PROVE  /\ leg'[p][q] = leg[p][q] /\ sent'[p][q] = sent[p][q]
               /\ <<p, q>> \in clean' <=> <<p, q>> \in clean
               /\ Oks(Chan(p, q))' => Oks(Chan(p, q))
               /\ Chan(p, q) = c => leg[p][q] \notin Working
    <3>1. leg'[p][q] = leg[p][q] /\ sent'[p][q] = sent[p][q] /\ clean' = clean
      BY <1>1, <1>5, <1>6, <2>1
    <3>2. Oks(Chan(p, q))' => Oks(Chan(p, q))
      BY <1>1 DEF Oks
    <3>3. Chan(p, q) = c => leg[p][q] \notin Working
      BY <1>1, <2>1 DEF OneAtATime, Working
    <3> QED BY <3>1, <3>2, <3>3
  <2> QED BY <1>1, <1>2, <1>12, <2>1, OthersFollowed
<1> QED BY <1>7, <1>8, <1>9, <1>10, <1>11, <1>12

---------------------------------------------------------------------------
(* receiveFile. *)

LEMMA WholeParts ==
  ASSUME NEW r \in Requests, NEW q \in Seq(Requests), Len(q) = Size[r], \A i \in 1..Len(q) : q[i] = r
  PROVE  q = Whole(r)
BY DEF Whole

LEMMA OneMore ==
  ASSUME NEW r \in Requests, NEW q \in Seq(Requests), \A i \in 1..Len(q) : q[i] = r
  PROVE  /\ Len(Append(q, r)) = Len(q) + 1
         /\ \A i \in 1..Len(q) + 1 : Append(q, r)[i] = r
BY AppendProperties, LenProperties

\* A message of the file s is taken from the front: its header or a piece.
LEMMA RestTaken ==
  ASSUME Types, NEW s \in Requests, NEW e \in Devices, wire[Chan(s, e)] # <<>>,
         wire'[Chan(s, e)] = Tail(wire[Chan(s, e)]), leg'[s][e] = leg[s][e], sent'[s][e] = sent[s][e],
         NEW left \in Nat
  PROVE  /\ Rest(s, e, 1, left) => Rest(s, e, 0, left)'
         /\ Rest(s, e, 0, left + 1) => Rest(s, e, 0, left)'
<1> DEFINE w == wire[Chan(s, e)]
           v == wire'[Chan(s, e)]
<1>1. Len(w) \in Nat /\ Len(v) = Len(w) - 1 /\ \A i \in 1..Len(v) : v[i] = w[i + 1]
  BY ChanFacts, Taken DEF Types
<1>2. ASSUME Rest(s, e, 1, left) PROVE Rest(s, e, 0, left)'
  <2>1. \A i \in 1..left : v[i] = Msg("piece", s)
    BY <1>1, <1>2 DEF Rest
  <2>2. leg[s][e] = "stream" => Len(v) = left
    BY <1>1, <1>2 DEF Rest
  <2>3. leg[s][e] # "stream" => Len(v) > left /\ v[left + 1] = Msg("end", s) /\ sent[s][e] = Size[s]
    BY <1>1, <1>2 DEF Rest
  <2> QED BY <1>1, <2>1, <2>2, <2>3 DEF Rest
<1>3. ASSUME Rest(s, e, 0, left + 1) PROVE Rest(s, e, 0, left)'
  <2>1. \A i \in 1..left : v[i] = Msg("piece", s)
    BY <1>1, <1>3 DEF Rest
  <2>2. leg[s][e] = "stream" => Len(v) = left
    BY <1>1, <1>3 DEF Rest
  <2>3. leg[s][e] # "stream" => Len(v) > left /\ v[left + 1] = Msg("end", s) /\ sent[s][e] = Size[s]
    BY <1>1, <1>3 DEF Rest
  <2> QED BY <1>1, <2>1, <2>2, <2>3 DEF Rest
<1> QED BY <1>2, <1>3

\* The cases of receiveFile: a header, a text that is ignored, a piece, an end
\* that is right, an end that is not.
Begins(c, m)  == /\ m.kind = "hdr" /\ recv[c].hdr = "none"
                 /\ recv'[c] = [hdr |-> m.of, parts |-> recv[c].parts]
                 /\ UNCHANGED <<back, saved>>
Ignores(c, m) == m.kind = "hdr" /\ recv[c].hdr # "none" /\ UNCHANGED <<recv, back, saved>>
Collects(c, m) == /\ m.kind = "piece"
                  /\ recv'[c] = [hdr |-> recv[c].hdr, parts |-> Append(recv[c].parts, m.of)]
                  /\ UNCHANGED <<back, saved>>
Saves(c, m)   == /\ m.kind = "end" /\ recv[c].hdr # "none" /\ Len(recv[c].parts) = Size[recv[c].hdr]
                 /\ saved' = [saved EXCEPT ![c[2]] = @ \cup {[name |-> recv[c].hdr, parts |-> recv[c].parts]}]
                 /\ recv'[c] = [hdr |-> "none", parts |-> <<>>]
                 /\ back' = [back EXCEPT ![c] = Append(@, "ok")]
Refuses(c, m) == /\ m.kind = "end" /\ (recv[c].hdr = "none" \/ Len(recv[c].parts) # Size[recv[c].hdr])
                 /\ back' = [back EXCEPT ![c] = Append(@, "err")]
                 /\ UNCHANGED <<recv, saved>>

LEMMA ReceiverFields ==
  ASSUME NEW g \in Receiver
  PROVE  /\ \A x : [g EXCEPT !.hdr = x] = [hdr |-> x, parts |-> g.parts]
         /\ \A x : [g EXCEPT !.parts = x] = [hdr |-> g.hdr, parts |-> x]
BY DEF Receiver

LEMMA ReceiveCases ==
  ASSUME IInv, NEW c \in Channels, Receive(c)
  PROVE  LET m == wire[c][1] IN
         /\ wire[c] \in Seq(Pieces) /\ wire[c] # <<>> /\ m \in Pieces /\ c[2] \in up
         /\ recv[c].hdr \in Requests \cup {"none"} /\ recv[c].parts \in Seq(Requests)
         /\ wire' = [wire EXCEPT ![c] = Tail(@)]
         /\ UNCHANGED <<up, hostVars, reply, histVars>>
         /\ recv' \in [Channels -> Receiver] /\ \A b \in Channels \ {c} : recv'[b] = recv[b]
         /\ Begins(c, m) \/ Ignores(c, m) \/ Collects(c, m) \/ Saves(c, m) \/ Refuses(c, m)
<1> DEFINE m == wire[c][1]
<1>1. /\ wire[c] \in Seq(Pieces) /\ wire[c] # <<>> /\ m \in Pieces /\ Head(wire[c]) = m
  BY Taken DEF IInv, Types, Receive
<1>2. c[2] \in up
  BY <1>1 DEF IInv, DeadQuiet
<1>3. /\ recv \in [Channels -> Receiver]
      /\ recv[c].hdr \in Requests \cup {"none"} /\ recv[c].parts \in Seq(Requests)
      /\ recv[c] = [hdr |-> recv[c].hdr, parts |-> recv[c].parts]
  BY DEF IInv, Types, Receiver
<1>4. m.of \in Requests /\ Append(recv[c].parts, m.of) \in Seq(Requests)
  BY <1>1, <1>3, AppendProperties DEF Pieces
<1>5. wire' = [wire EXCEPT ![c] = Tail(@)] /\ UNCHANGED <<up, hostVars, reply, histVars>>
  BY DEF Receive
<1>6. \/ /\ m.kind = "hdr" /\ recv[c].hdr = "none"
         /\ recv' = [recv EXCEPT ![c].hdr = m.of] /\ UNCHANGED <<back, saved>>
      \/ Ignores(c, m)
      \/ /\ m.kind = "piece"
         /\ recv' = [recv EXCEPT ![c].parts = Append(@, m.of)] /\ UNCHANGED <<back, saved>>
      \/ /\ m.kind = "end" /\ recv[c].hdr # "none" /\ Len(recv[c].parts) = Size[recv[c].hdr]
         /\ saved' = [saved EXCEPT ![c[2]] = @ \cup {[name |-> recv[c].hdr, parts |-> recv[c].parts]}]
         /\ recv' = [recv EXCEPT ![c] = [hdr |-> "none", parts |-> <<>>]]
         /\ back' = [back EXCEPT ![c] = Append(@, "ok")]
      \/ Refuses(c, m)
  BY <1>1 DEF Receive, Ignores, Refuses
<1> DEFINE Goal == /\ recv' \in [Channels -> Receiver] /\ \A b \in Channels \ {c} : recv'[b] = recv[b]
                   /\ Begins(c, m) \/ Ignores(c, m) \/ Collects(c, m) \/ Saves(c, m) \/ Refuses(c, m)
<1>7. ASSUME NEW x \in Receiver, recv' = [recv EXCEPT ![c] = x]
      PROVE  recv'[c] = x /\ recv' \in [Channels -> Receiver] /\ \A b \in Channels \ {c} : recv'[b] = recv[b]
  BY <1>3, <1>7
<1>8. ASSUME m.kind = "hdr", recv[c].hdr = "none",
             recv' = [recv EXCEPT ![c].hdr = m.of], UNCHANGED <<back, saved>>
      PROVE  Goal
  <2>1. [hdr |-> m.of, parts |-> recv[c].parts] \in Receiver
    BY <1>3, <1>4 DEF Receiver
  <2>2. recv' = [recv EXCEPT ![c] = [hdr |-> m.of, parts |-> recv[c].parts]]
    <3>1. [recv[c] EXCEPT !.hdr = m.of] = [hdr |-> m.of, parts |-> recv[c].parts]
      BY <1>3, ReceiverFields
    <3> QED BY <1>3, <1>8, <3>1
  <2> QED BY <1>7, <1>8, <2>1, <2>2 DEF Begins
<1>9. ASSUME m.kind = "piece",
             recv' = [recv EXCEPT ![c].parts = Append(@, m.of)], UNCHANGED <<back, saved>>
      PROVE  Goal
  <2>1. [hdr |-> recv[c].hdr, parts |-> Append(recv[c].parts, m.of)] \in Receiver
    BY <1>3, <1>4 DEF Receiver
  <2>2. recv' = [recv EXCEPT ![c] = [hdr |-> recv[c].hdr, parts |-> Append(recv[c].parts, m.of)]]
    <3>1. [recv[c] EXCEPT !.parts = Append(recv[c].parts, m.of)]
            = [hdr |-> recv[c].hdr, parts |-> Append(recv[c].parts, m.of)]
      BY <1>3, ReceiverFields
    <3> QED BY <1>3, <1>9, <3>1
  <2> QED BY <1>7, <1>9, <2>1, <2>2 DEF Collects
<1>10. ASSUME m.kind = "end", recv[c].hdr # "none", Len(recv[c].parts) = Size[recv[c].hdr],
              saved' = [saved EXCEPT ![c[2]] = @ \cup {[name |-> recv[c].hdr, parts |-> recv[c].parts]}],
              recv' = [recv EXCEPT ![c] = [hdr |-> "none", parts |-> <<>>]],
              back' = [back EXCEPT ![c] = Append(@, "ok")]
       PROVE  Goal
  <2>1. [hdr |-> "none", parts |-> <<>>] \in Receiver
    BY EmptySeq DEF Receiver
  <2> QED BY <1>7, <1>10, <2>1 DEF Saves
<1>11. ASSUME Ignores(c, m) \/ Refuses(c, m)
       PROVE  Goal
  BY <1>3, <1>11 DEF Ignores, Refuses
<1>12. Goal
  BY <1>6, <1>8, <1>9, <1>10, <1>11
<1> QED BY <1>1, <1>2, <1>3, <1>5, <1>12

\* What is saved is the file the receiver works on, and nothing is lost.
LEMMA ReceiveSaves ==
  ASSUME IInv, NEW c \in Channels, Receive(c)
  PROVE  /\ Types'
         /\ \A e \in Devices : saved[e] \subseteq saved'[e]
         /\ \A e \in Devices : \A f \in saved'[e] :
              f \in saved[e] \/ (e = c[2] /\ Saves(c, wire[c][1]) /\ f.name = recv[c].hdr /\ f.parts = recv[c].parts)
         /\ \A b \in Channels : Oks(b)' => Oks(b) \/ (b = c /\ Saves(c, wire[c][1]))
<1> DEFINE m == wire[c][1]
<1> USE DEF IInv
<1>1. /\ wire[c] \in Seq(Pieces) /\ wire[c] # <<>> /\ m \in Pieces /\ c[2] \in up
      /\ recv[c].hdr \in Requests \cup {"none"} /\ recv[c].parts \in Seq(Requests)
      /\ wire' = [wire EXCEPT ![c] = Tail(@)]
      /\ UNCHANGED <<up, hostVars, reply, histVars>>
      /\ recv' \in [Channels -> Receiver] /\ \A b \in Channels \ {c} : recv'[b] = recv[b]
      /\ Begins(c, m) \/ Ignores(c, m) \/ Collects(c, m) \/ Saves(c, m) \/ Refuses(c, m)
  BY ReceiveCases
<1>2. c[2] \in Devices /\ back[c] \in Seq(Answers)
  BY ChanFacts DEF Types
<1> DEFINE f0 == [name |-> recv[c].hdr, parts |-> recv[c].parts]
<1>3. \/ saved' = saved
      \/ /\ Saves(c, m) /\ f0 \in [name : Requests, parts : Seq(Requests)]
         /\ saved'[c[2]] = saved[c[2]] \cup {f0} /\ \A e \in Devices \ {c[2]} : saved'[e] = saved[e]
  <2>1. CASE Saves(c, m)
    BY <1>1, <1>2, <2>1 DEF Saves, Types
  <2>2. CASE ~Saves(c, m)
    BY <1>1, <2>2 DEF Begins, Ignores, Collects, Refuses
  <2> QED BY <2>1, <2>2
<1>4. saved' \in [Devices -> SUBSET [name : Requests, parts : Seq(Requests)]]
  <2>1. CASE Saves(c, m)
    <3>1. saved' = [saved EXCEPT ![c[2]] = @ \cup {f0}]
      BY <2>1 DEF Saves
    <3>2. f0 \in [name : Requests, parts : Seq(Requests)]
      BY <1>1, <2>1 DEF Saves
    <3> QED BY <1>2, <3>1, <3>2 DEF Types
  <2>2. CASE ~Saves(c, m)
    BY <1>1, <2>2 DEF Begins, Ignores, Collects, Refuses, Types
  <2> QED BY <2>1, <2>2
<1>5. PICK a \in Answers : /\ UNCHANGED back \/ back' = [back EXCEPT ![c] = Append(@, a)]
                           /\ a = "ok" => Saves(c, m)
  <2>1. CASE Saves(c, m)
    <3>1. "ok" \in Answers
      BY DEF Answers
    <3> QED BY <2>1, <3>1 DEF Saves
  <2>2. CASE ~Saves(c, m)
    <3>1. "err" \in Answers
      BY DEF Answers
    <3> QED BY <1>1, <2>2, <3>1 DEF Begins, Ignores, Collects, Refuses
  <2> QED BY <2>1, <2>2
<1>6. /\ Append(back[c], a) \in Seq(Answers)
      /\ \A i \in 1..Len(Append(back[c], a)) :
           (i \in 1..Len(back[c]) /\ Append(back[c], a)[i] = back[c][i]) \/ Append(back[c], a)[i] = a
  BY <1>2, AnswerQueues
<1>7. back' \in [Channels -> Seq(Answers)]
  BY <1>5, <1>6 DEF Types
<1>8. wire' \in [Channels -> Seq(Pieces)]
  <2>1. Tail(wire[c]) \in Seq(Pieces)
    BY <1>1, Taken
  <2> QED BY <1>1, <2>1 DEF Types
<1>9. Types'
  <2>1. TypeOK'
    <3>1. \A b \in Channels : recv'[b].hdr \in Requests \cup {"none"}
      BY <1>1 DEF Receiver
    <3> QED BY <1>1, <3>1 DEF Types, TypeOK, hostVars, histVars
  <2> QED BY <1>1, <1>4, <1>7, <1>8, <2>1 DEF Types, hostVars
<1>10. ASSUME NEW b \in Channels, Oks(b)' PROVE Oks(b) \/ (b = c /\ Saves(c, m))
  <2>1. CASE UNCHANGED back
    BY <1>1, <1>10, <2>1 DEF Oks
  <2>2. CASE b # c
    <3>1. back'[b] = back[b]
      BY <1>5, <2>2 DEF Types
    <3> QED BY <1>1, <1>10, <3>1 DEF Oks
  <2>3. CASE b = c /\ back' = [back EXCEPT ![c] = Append(@, a)]
    <3>1. back'[c] = Append(back[c], a)
      BY <2>3 DEF Types
    <3> QED BY <1>1, <1>5, <1>6, <1>10, <2>3, <3>1 DEF Oks
  <2> QED BY <1>5, <2>1, <2>2, <2>3
<1> QED BY <1>3, <1>9, <1>10

\* The order of a file on its channel when its device handles a message.
LEMMA OrderReceived ==
  ASSUME IInv, NEW s \in Requests, NEW e \in Devices, Receive(Chan(s, e))
  PROVE  InOrder(s, e)'
<1> DEFINE c == Chan(s, e)
           w == wire[c]
           m == w[1]
           g == recv[c]
           v == wire'[c]
           l == Len(g.parts)
<1> USE DEF IInv
<1>1. /\ c \in Channels /\ c[2] = e /\ PairInv(s, e) /\ s # "none" /\ sent[s][e] \in Nat
  BY ChanFacts, FileSendAssumption DEF Types
<1>2. /\ w \in Seq(Pieces) /\ w # <<>> /\ m \in Pieces /\ e \in up
      /\ g.hdr \in Requests \cup {"none"} /\ g.parts \in Seq(Requests)
      /\ wire' = [wire EXCEPT ![c] = Tail(@)]
      /\ UNCHANGED <<up, hostVars, reply, histVars>>
      /\ recv' \in [Channels -> Receiver]
      /\ Begins(c, m) \/ Ignores(c, m) \/ Collects(c, m) \/ Saves(c, m) \/ Refuses(c, m)
  BY <1>1, ReceiveCases
<1>3. /\ v = Tail(w) /\ Len(w) \in Nat /\ Len(v) = Len(w) - 1 /\ 1 \in 1..Len(w)
      /\ \A i \in 1..Len(v) : i + 1 \in 1..Len(w) /\ v[i] = w[i + 1]
  BY <1>1, <1>2, Taken DEF Types
<1>4. l \in Nat
  BY <1>2, LenProperties
<1>5. leg'[s][e] = leg[s][e] /\ sent'[s][e] = sent[s][e] /\ clean' = clean /\ cut' = cut
  BY <1>2 DEF hostVars, histVars
<1> SUFFICES ASSUME <<s, e>> \in clean, <<s, e>> \notin cut
             PROVE  /\ \A i \in 1..Len(v) : v[i] = Msg("hdr", s) => i = 1
                    /\ Pending(s, c)' => Ahead(s, e)'
  BY <1>5 DEF InOrder
<1>6. /\ \A i \in 1..Len(w) : w[i] = Msg("hdr", s) => i = 1
      /\ Pending(s, c) => Ahead(s, e)
  BY <1>1, <1>2 DEF PairInv, InOrder
<1>7. \A i \in 1..Len(v) : v[i] # Msg("hdr", s)
  <2> SUFFICES ASSUME NEW i \in 1..Len(v), v[i] = Msg("hdr", s) PROVE FALSE
    OBVIOUS
  <2>1. i + 1 = 1
    BY <1>3, <1>6
  <2> QED BY <2>1
<1>8. ASSUME Pending(s, c)' PROVE Pending(s, c) /\ recv'[c].hdr = s
  <2>1. recv'[c].hdr = s
    BY <1>7, <1>8 DEF Pending
  <2>2. CASE g.hdr = s
    BY <2>1, <2>2 DEF Pending
  <2>3. CASE g.hdr # s
    <3>1. m.kind = "hdr" /\ m.of = s
      BY <1>1, <1>2, <2>1, <2>3 DEF Begins, Ignores, Collects, Saves, Refuses
    <3>2. m = Msg("hdr", s)
      BY <1>2, <3>1, MsgFacts
    <3> QED BY <1>3, <2>1, <3>2 DEF Pending
  <2> QED BY <2>2, <2>3
<1>9. ASSUME NEW left \in Nat
      PROVE  /\ Rest(s, e, 1, left) => Rest(s, e, 0, left)'
             /\ Rest(s, e, 0, left + 1) => Rest(s, e, 0, left)'
  BY <1>2, <1>3, <1>5, RestTaken
<1>10. ASSUME Pending(s, c)' PROVE Ahead(s, e)'
  <2>1. Ahead(s, e) /\ recv'[c].hdr = s
    BY <1>6, <1>8, <1>10
  <2>2. CASE g.hdr = "none" /\ g.parts = <<>> /\ m = Msg("hdr", s) /\ Rest(s, e, 1, sent[s][e])
    <3>1. m.kind = "hdr" /\ m.of = s
      BY <2>2, MsgFacts
    <3>2. recv'[c] = [hdr |-> s, parts |-> <<>>]
      BY <1>2, <2>2, <3>1 DEF Begins, Ignores, Collects, Saves, Refuses
    <3>3. PICK n \in Nat : n = sent[s][e]
      BY <1>1
    <3>4. recv'[c].parts = <<>> /\ Len(recv'[c].parts) = 0 /\ n - 0 = n
      BY <3>2
    <3>5. Rest(s, e, 0, n)'
      BY <1>9, <2>2, <3>3
    <3>6. Rest(s, e, 0, n)' /\ n = sent'[s][e] - Len(recv'[c].parts)
      BY <1>5, <3>3, <3>4, <3>5
    <3>7. Rest(s, e, 0, sent[s][e] - Len(recv[c].parts))'
      BY <3>6
    <3> QED BY <1>1, <1>5, <2>1, <3>4, <3>7, EmptySeq DEF Ahead
  <2>3. CASE /\ g.hdr = s /\ \A i \in 1..l : g.parts[i] = s
             /\ l <= sent[s][e] /\ Rest(s, e, 0, sent[s][e] - l)
    <3>1. CASE l < sent[s][e]
      <4>1. PICK n \in Nat : n + 1 = sent[s][e] - l
        <5>1. sent[s][e] - l - 1 \in Nat /\ (sent[s][e] - l - 1) + 1 = sent[s][e] - l
          BY <1>1, <1>4, <3>1
        <5> QED BY <5>1
      <4>2. Rest(s, e, 0, n + 1) /\ Rest(s, e, 0, n)'
        BY <1>9, <2>3, <4>1
      <4>3. m = Msg("piece", s)
        BY <4>2 DEF Rest
      <4>4. recv'[c] = [hdr |-> s, parts |-> Append(g.parts, s)]
        <5>1. m.kind = "piece" /\ m.of = s
          BY <4>3, MsgFacts
        <5> QED BY <1>2, <2>3, <5>1 DEF Begins, Ignores, Collects, Saves, Refuses
      <4>5. /\ Len(Append(g.parts, s)) = l + 1
            /\ \A i \in 1..l + 1 : Append(g.parts, s)[i] = s
        <5>1. s \in Requests /\ g.parts \in Seq(Requests)
          BY <1>2
        <5> QED BY <2>3, <5>1, OneMore
      <4>6. n = sent'[s][e] - Len(recv'[c].parts) /\ Len(recv'[c].parts) <= sent'[s][e]
        <5>1. recv'[c].parts = Append(g.parts, s)
          BY <4>4
        <5>2. Len(recv'[c].parts) = l + 1
          BY <4>5, <5>1
        <5>3. n = sent[s][e] - (l + 1) /\ l + 1 <= sent[s][e]
          BY <1>1, <1>4, <4>1, LeftToGo
        <5> QED BY <1>5, <5>2, <5>3
      <4>7. Rest(s, e, 0, sent[s][e] - Len(recv[c].parts))'
        BY <4>2, <4>6
      <4>8. \A i \in 1..Len(recv'[c].parts) : recv'[c].parts[i] = s
        BY <4>4, <4>5
      <4> QED BY <2>1, <4>6, <4>7, <4>8 DEF Ahead
    <3>2. CASE l = sent[s][e]
      <4>1. Rest(s, e, 0, 0)
        BY <1>1, <1>4, <2>3, <3>2
      <4>2. m = Msg("end", s) /\ sent[s][e] = Size[s]
        BY <1>3, <4>1 DEF Rest
      <4>3. m.kind = "end"
        BY <4>2, MsgFacts
      <4>4. recv'[c].hdr = "none"
        BY <1>1, <1>2, <2>3, <3>2, <4>2, <4>3 DEF Begins, Ignores, Collects, Saves, Refuses
      <4> QED BY <1>1, <2>1, <4>4
    <3> QED BY <1>1, <1>4, <2>3, <3>1, <3>2
  <2> QED BY <2>1, <2>2, <2>3 DEF Ahead
<1> QED BY <1>7, <1>10

\* A sending on the channel whose device handles a message.
LEMMA PairReceives ==
  ASSUME IInv, NEW s \in Requests, NEW e \in Devices, Receive(Chan(s, e))
  PROVE  PairInv(s, e)'
<1> DEFINE c == Chan(s, e)
           w == wire[c]
           m == w[1]
           g == recv[c]
           v == wire'[c]
<1> USE DEF IInv
<1>1. /\ c \in Channels /\ c[2] = e /\ PairInv(s, e) /\ s # "none"
  BY ChanFacts, FileSendAssumption
<1>2. /\ w \in Seq(Pieces) /\ w # <<>> /\ m \in Pieces /\ e \in up
      /\ g.hdr \in Requests \cup {"none"} /\ g.parts \in Seq(Requests)
      /\ wire' = [wire EXCEPT ![c] = Tail(@)]
      /\ UNCHANGED <<up, hostVars, reply, histVars>>
      /\ Begins(c, m) \/ Ignores(c, m) \/ Collects(c, m) \/ Saves(c, m) \/ Refuses(c, m)
  BY <1>1, ReceiveCases
<1>3. /\ saved[e] \subseteq saved'[e]
      /\ \A f \in saved'[e] :
           f \in saved[e] \/ (Saves(c, m) /\ f.name = g.hdr /\ f.parts = g.parts)
      /\ Oks(c)' => Oks(c) \/ Saves(c, m)
  BY <1>1, ReceiveSaves
<1>4. /\ v = Tail(w) /\ 1 \in 1..Len(w)
      /\ \A i \in 1..Len(v) : i + 1 \in 1..Len(w) /\ v[i] = w[i + 1]
  BY <1>1, <1>2, Taken DEF Types
<1>5. leg' = leg /\ sent' = sent /\ clean' = clean /\ cut' = cut
  BY <1>2 DEF hostVars, histVars
<1>6. Unsent(s, e)'
  <2> SUFFICES ASSUME leg[s][e] \in {"none", "start"}
               PROVE  ~Pending(s, c)' /\ \A f \in saved'[e] : f.name # s
    BY <1>1, <1>5 DEF Unsent, PairInv
  <2>1. ~Pending(s, c) /\ \A f \in saved[e] : f.name # s
    BY <1>1 DEF Unsent, PairInv
  <2>2. g.hdr # s /\ \A i \in 1..Len(w) : w[i] # Msg("hdr", s)
    BY <2>1 DEF Pending
  <2>3. \A i \in 1..Len(v) : v[i] # Msg("hdr", s)
    BY <1>4, <2>2
  <2>4. m.kind = "hdr" => m.of # s
    BY <1>2, <1>4, <2>2, MsgFacts
  <2>5. recv'[c].hdr # s
    BY <1>1, <1>2, <2>2, <2>4 DEF Begins, Ignores, Collects, Saves, Refuses
  <2> QED BY <1>3, <2>1, <2>2, <2>3, <2>5 DEF Pending
<1>7. Own(s, c) => Own(s, c)' /\ (Saves(c, m) => Got(s, e)')
  <2> SUFFICES ASSUME Own(s, c) PROVE Own(s, c)' /\ (Saves(c, m) => Got(s, e)')
    OBVIOUS
  <2>1. m.of = s /\ \A i \in 1..Len(v) : v[i].of = s
    BY <1>4 DEF Own
  <2>2. recv'[c].hdr \in {"none", s}
    BY <1>2, <2>1 DEF Begins, Ignores, Collects, Saves, Refuses, Own
  <2>3. \A i \in 1..Len(recv'[c].parts) : recv'[c].parts[i] = s
    <3>1. CASE Collects(c, m)
      <4>1. recv'[c].parts = Append(g.parts, s)
        BY <2>1, <3>1 DEF Collects
      <4>2. \A i \in 1..Len(Append(g.parts, s)) : Append(g.parts, s)[i] = s
        BY <1>2, AppendProperties, LenProperties DEF Own
      <4> QED BY <4>1, <4>2
    <3>2. CASE Saves(c, m)
      BY <3>2, EmptySeq DEF Saves
    <3>3. CASE Begins(c, m) \/ Ignores(c, m) \/ Refuses(c, m)
      BY <3>3 DEF Begins, Ignores, Refuses, Own
    <3> QED BY <1>2, <3>1, <3>2, <3>3
  <2>4. Saves(c, m) => Got(s, e)'
    <3> SUFFICES ASSUME Saves(c, m) PROVE Got(s, e)'
      OBVIOUS
    <3>1. g.hdr = s /\ Len(g.parts) = Size[s]
      BY DEF Saves, Own
    <3>2. g.parts = Whole(s)
      BY <1>2, <3>1, WholeParts DEF Own
    <3>3. saved' = [saved EXCEPT ![e] = @ \cup {[name |-> s, parts |-> Whole(s)]}]
      BY <1>1, <3>1, <3>2 DEF Saves
    <3> QED BY <3>3 DEF Got, Types
  <2> QED BY <2>1, <2>2, <2>3, <2>4 DEF Own
<1>8. Private(s, e)'
  BY <1>1, <1>5, <1>7 DEF PairInv, Private
<1>9. OkOwn(s, e)' /\ OkOf(s, e)'
  <2>1. Got(s, e) => Got(s, e)'
    BY <1>3 DEF Got
  <2> QED BY <1>1, <1>3, <1>5, <1>7, <2>1 DEF PairInv, Private, OkOwn, OkOf
<1>10. WholeOf(s, e)'
  <2> SUFFICES ASSUME Saves(c, m), g.hdr = s,
                      e \in Pages \/ (<<s, e>> \in clean /\ <<s, e>> \notin cut)
               PROVE  g.parts = Whole(s)
    BY <1>1, <1>3, <1>5 DEF PairInv, WholeOf
  <2>1. Len(g.parts) = Size[s]
    BY DEF Saves
  <2>2. \A i \in 1..Len(g.parts) : g.parts[i] = s
    <3>1. CASE e \in Pages
      BY <1>1, <3>1 DEF PairInv, Private, Own
    <3>2. CASE <<s, e>> \in clean /\ <<s, e>> \notin cut
      <4>1. Ahead(s, e)
        BY <1>1, <1>2, <3>2 DEF PairInv, InOrder, Pending
      <4> QED BY <1>1, <4>1 DEF Ahead
    <3> QED BY <3>1, <3>2
  <2> QED BY <1>2, <2>1, <2>2, WholeParts
<1> QED BY <1>6, <1>8, <1>9, <1>10, OrderReceived DEF PairInv

LEMMA ReceiveKeeps ==
  ASSUME IInv, NEW c \in Channels, Receive(c)
  PROVE  IInv'
<1> DEFINE m == wire[c][1]
<1> USE DEF IInv
<1>1. /\ c[2] \in up /\ recv[c].hdr \in Requests \cup {"none"}
      /\ wire' = [wire EXCEPT ![c] = Tail(@)]
      /\ UNCHANGED <<up, hostVars, reply, histVars>>
      /\ \A b \in Channels \ {c} : recv'[b] = recv[b]
      /\ Begins(c, m) \/ Ignores(c, m) \/ Collects(c, m) \/ Saves(c, m) \/ Refuses(c, m)
  BY ReceiveCases
<1>2. /\ Types'
      /\ \A e \in Devices : saved[e] \subseteq saved'[e]
      /\ \A e \in Devices : \A f \in saved'[e] :
           f \in saved[e] \/ (e = c[2] /\ Saves(c, m) /\ f.name = recv[c].hdr)
      /\ \A b \in Channels : Oks(b)' => Oks(b) \/ b = c
  BY ReceiveSaves
<1>3. \A b \in Channels \ {c} : wire'[b] = wire[b]
  BY <1>1 DEF Types
<1>4. OneAtATime' /\ NewUnsent'
  BY <1>1 DEF OneAtATime, NewUnsent, hostVars
<1>5. DeadQuiet'
  <2>1. \A b \in Channels \ {c} : back'[b] = back[b]
    BY <1>1 DEF Begins, Ignores, Collects, Saves, Refuses, Types
  <2> QED BY <1>1, <1>3, <2>1 DEF DeadQuiet
<1>6. ASSUME NEW s \in Requests, NEW e \in Devices PROVE PairInv(s, e)'
  <2>1. CASE Chan(s, e) = c
    BY <2>1, PairReceives
  <2>2. CASE Chan(s, e) # c
    <3>1. Saves(c, m) /\ e = c[2] => recv[c].hdr # s
      <4> SUFFICES ASSUME Saves(c, m), e = c[2], recv[c].hdr = s PROVE FALSE
        OBVIOUS
      <4>1. e \in Pages /\ c[1] \in Requests /\ c = Chan(c[1], e)
        BY <2>2, FileSendAssumption DEF Chan, Channels, Devices
      <4>2. Own(c[1], c)
        BY <4>1 DEF PairInv, Private
      <4> QED BY <1>1, <2>2, <4>1, <4>2, FileSendAssumption DEF Own
    <3>2. \A f \in saved'[e] : f \in saved[e] \/ f.name # s
      BY <1>2, <3>1
    <3>3. Chan(s, e) \in Channels \ {c} /\ PairInv(s, e)
      BY <2>2, ChanFacts
    <3>4. Untouched(s, e)
      BY <1>1, <1>2, <1>3, <3>2, <3>3 DEF Untouched, hostVars, histVars
    <3> QED BY <3>3, <3>4, PairUntouched
  <2> QED BY <2>1, <2>2
<1> QED BY <1>2, <1>4, <1>5, <1>6

---------------------------------------------------------------------------
(* The theorems. *)

LEMMA NextKeeps == IInv /\ [Next]_vars => IInv'
<1> SUFFICES ASSUME IInv, [Next]_vars PROVE IInv'
  OBVIOUS
<1>1. ASSUME NEW r \in Requests, PutFile(r) \/ Expire(r) \/ Finish(r) PROVE IInv'
  BY <1>1, PutFileKeeps, RequestKeeps
<1>2. ASSUME NEW r \in Requests, NEW d \in Devices, Sending(r, d) PROVE IInv'
  BY <1>2, StartKeeps, SendKeeps, EndsKeep DEF Sending
<1>3. ASSUME NEW c \in Channels, OnMessage(c) \/ Receive(c) PROVE IInv'
  BY <1>3, OnMessageKeeps, ReceiveKeeps
<1>4. ASSUME NEW d \in Devices, Disconnect(d) PROVE IInv'
  BY <1>4, DisconnectKeeps
<1>5. CASE UNCHANGED vars
  <2>1. UNCHANGED <<up, hostVars, devVars, wire, back, reply, histVars>>
    BY <1>5 DEF vars
  <2>2. Types'
    BY <2>1 DEF IInv, Types, TypeOK, hostVars, devVars, histVars
  <2>3. OneAtATime' /\ DeadQuiet' /\ NewUnsent'
    BY <2>1 DEF IInv, OneAtATime, DeadQuiet, NewUnsent, hostVars
  <2>4. ASSUME NEW s \in Requests, NEW e \in Devices PROVE PairInv(s, e)'
    <3>1. PairInv(s, e) /\ Untouched(s, e)
      BY <2>1 DEF IInv, Untouched, Oks, hostVars, devVars, histVars
    <3> QED BY <3>1, PairUntouched
  <2> QED BY <2>2, <2>3, <2>4 DEF IInv
<1> QED BY <1>1, <1>2, <1>3, <1>4, <1>5 DEF Next

LEMMA Invariance == Spec => []IInv
BY InitKeeps, NextKeeps, PTL DEF Spec

\* Every variable stays in its range: a sending sends no piece its file does not
\* have, and no channel keeps more answers than its queue has room for.
THEOREM TypeCorrect == Spec => []TypeOK
<1>1. IInv => TypeOK
  BY DEF IInv, Types
<1> QED BY <1>1, Invariance, PTL

\* A saved file is whole and its name's own, and a sending that counts as taken
\* is a file the device has saved: on a page's channel always, on the app's one
\* channel when the sending found it quiet (and, for the first, was not cut).
THEOREM DeliveryWhole == Spec => []DeliveredWhole
<1>1. IInv => SavedWhole
  <2> SUFFICES ASSUME IInv, NEW d \in Devices, NEW f \in saved[d],
                      d \in Pages \/ (<<f.name, d>> \in clean /\ <<f.name, d>> \notin cut)
               PROVE  f.parts = Whole(f.name)
    BY DEF SavedWhole
  <2>1. f.name \in Requests
    BY DEF IInv, Types
  <2> QED BY <2>1 DEF IInv, PairInv, WholeOf
<1>2. IInv => OkMeansSaved
  BY DEF IInv, PairInv, OkOf, Got, OkMeansSaved
<1> QED BY <1>1, <1>2, Invariance, PTL DEF DeliveredWhole
=============================================================================
