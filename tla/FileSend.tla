----------------------------- MODULE FileSend -----------------------------
(***************************************************************************)
(* cmd/nc-host/files.go, serveSend, sendFile and fileOut: programs of the  *)
(* desk send files to every connected device. A page gets a new channel    *)
(* for each file; the app opened one channel ("file-in") when it connected *)
(* and all files to it share that channel, one at a time. The page's side  *)
(* is receiveFile in index.html; the app, which is not in the repository,  *)
(* is taken to read its channel in the same way.                           *)
(*                                                                         *)
(* A channel is reliable and ordered. A device may stop reading or never   *)
(* answer: its steps have no fairness.                                     *)
(***************************************************************************)
EXTENDS Naturals, Sequences, FiniteSets

CONSTANTS
  Requests,   \* PUTs on the send socket, each with its file
  Size,       \* the number of pieces of each file
  Pages,      \* devices with the page open
  Apps,       \* devices with the app
  ReplyCap    \* answers kept unread on a channel (4 in the code)

Devices == Pages \cup Apps

ASSUME FileSendAssumption ==
  /\ Size \in [Requests -> Nat \ {0}]
  /\ Pages \cap Apps = {}
  /\ ReplyCap \in Nat \ {0}
  /\ "none" \notin Requests

VARIABLES
  up,      \* the devices whose connection is up
  status,  \* of each request: its HTTP status
  over,    \* the requests whose context is done
  leg,     \* where the sending of each request's file to each device stands
  sent,    \* pieces sent so far
  wire,    \* channel to the device: what was sent and is not handled yet
  recv,    \* the device's receiver: the header it works on, the pieces it has
  back,    \* answers under way to the host
  reply,   \* answers the host has and nobody has read
  saved,   \* files each device has saved, by the name of the header
  clean,   \* history: sendings that found their channel quiet
  cut      \* history: sendings given up before their "end"

hostVars == <<status, over, leg, sent>>
devVars  == <<recv, saved>>
histVars == <<clean, cut>>
vars     == <<up, hostVars, devVars, wire, back, reply, histVars>>

\* The channel a file travels on: the app's own, or one of this sending's.
Chan(r, d) == IF d \in Apps THEN <<"all", d>> ELSE <<r, d>>
Channels   == ({"all"} \X Apps) \cup (Requests \X Pages)

Legs(r)     == {d \in Devices : leg[r][d] # "none"}
Working     == {"stream", "await"}
\* fileOut.mu: one file at a time.
Locked(c)   == \E r \in Requests, d \in Devices : Chan(r, d) = c /\ leg[r][d] \in Working
Quiet(c)    == wire[c] = <<>> /\ back[c] = <<>> /\ recv[c] = [hdr |-> "none", parts |-> <<>>]
Whole(r)    == [i \in 1..Size[r] |-> r]
Msg(k, r)   == [kind |-> k, of |-> r]
Move(r, d, to)    == leg' = [leg EXCEPT ![r][d] = to]
Transmit(c, m)    == wire' = [wire EXCEPT ![c] = Append(@, m)]

Init ==
  /\ up \in SUBSET Devices
  /\ status = [r \in Requests |-> "new"]
  /\ over = {}
  /\ leg = [r \in Requests |-> [d \in Devices |-> "none"]]
  /\ sent = [r \in Requests |-> [d \in Devices |-> 0]]
  /\ wire = [c \in Channels |-> <<>>]
  /\ recv = [c \in Channels |-> [hdr |-> "none", parts |-> <<>>]]
  /\ back = [c \in Channels |-> <<>>]
  /\ reply = [c \in Channels |-> <<>>]
  /\ saved = [d \in Devices |-> {}]
  /\ clean = {}
  /\ cut = {}

---------------------------------------------------------------------------
(* The request. *)

\* The devices connected at this moment are the targets; 503 if there are none.
PutFile(r) ==
  /\ status[r] = "new"
  /\ status' = [status EXCEPT ![r] = IF up = {} THEN "503" ELSE "sending"]
  /\ leg' = [leg EXCEPT ![r] = [d \in Devices |-> IF d \in up THEN "start" ELSE "none"]]
  /\ UNCHANGED <<up, over, sent, devVars, wire, back, reply, histVars>>

\* The program goes away, or half an hour has passed: the context is done.
Expire(r) ==
  /\ status[r] = "sending"
  /\ over' = over \cup {r}
  /\ UNCHANGED <<up, status, leg, sent, devVars, wire, back, reply, histVars>>

\* All sendings have ended: how many devices took the file decides.
Finish(r) ==
  /\ status[r] = "sending"
  /\ \A d \in Legs(r) : leg[r][d] \in {"ok", "err"}
  /\ status' = [status EXCEPT ![r] = IF \E d \in Devices : leg[r][d] = "ok" THEN "200" ELSE "502"]
  /\ UNCHANGED <<up, over, leg, sent, devVars, wire, back, reply, histVars>>

---------------------------------------------------------------------------
(* fileOut.send, one sending to one device. *)

\* The header is sent. Answers left from an earlier file are thrown away first.
StartOn(r, d, left) ==
  LET c == Chan(r, d) IN
  /\ leg[r][d] = "start"
  /\ reply' = [reply EXCEPT ![c] = left]
  /\ clean' = IF Quiet(c) THEN clean \cup {<<r, d>>} ELSE clean
  /\ IF d \in up
     THEN Transmit(c, Msg("hdr", r)) /\ Move(r, d, "stream")
     ELSE Move(r, d, "err") /\ UNCHANGED wire
  /\ UNCHANGED <<up, status, over, sent, devVars, back, cut>>

\* Mutants of Start: the answers left are not thrown away; the lock is not taken.
StartUndrained(r, d) == ~Locked(Chan(r, d)) /\ StartOn(r, d, reply[Chan(r, d)])
StartUnlocked(r, d)  == StartOn(r, d, <<>>)

Start(r, d) == ~Locked(Chan(r, d)) /\ StartOn(r, d, <<>>)

\* sendFile: the new channel did not open in ten seconds, or in time.
NotOpened(r, d) ==
  /\ d \in Pages /\ leg[r][d] = "start"
  /\ Move(r, d, "err")
  /\ UNCHANGED <<up, status, over, sent, devVars, wire, back, reply, histVars>>

Piece(r, d) ==
  /\ leg[r][d] = "stream" /\ d \in up /\ sent[r][d] < Size[r]
  /\ Transmit(Chan(r, d), Msg("piece", r))
  /\ sent' = [sent EXCEPT ![r][d] = @ + 1]
  /\ UNCHANGED <<up, status, over, leg, devVars, back, reply, histVars>>

\* The sending ends early: taking an answer from the queue, or not.
Refused(r, d) ==
  /\ reply[Chan(r, d)] # <<>>
  /\ reply' = [reply EXCEPT ![Chan(r, d)] = Tail(@)]

CutShort(r, d) ==
  /\ leg[r][d] = "stream"
  /\ Move(r, d, "err")
  /\ cut' = cut \cup {<<r, d>>}
  /\ UNCHANGED <<up, status, over, sent, devVars, wire, back, clean>>

\* Mutant of Stop: a sender that waits for room does not look at the context.
StopRefused(r, d) ==
  /\ CutShort(r, d)
  /\ Refused(r, d) \/ (d \notin up /\ UNCHANGED reply)

\* While the buffer is too full to send: an answer means the file is refused,
\* and the context may be done. A send on a closed connection fails.
Stop(r, d) ==
  /\ CutShort(r, d)
  /\ Refused(r, d) \/ ((r \in over \/ d \notin up) /\ UNCHANGED reply)

End(r, d) ==
  /\ leg[r][d] = "stream" /\ d \in up /\ sent[r][d] = Size[r]
  /\ Transmit(Chan(r, d), Msg("end", r))
  /\ Move(r, d, "await")
  /\ UNCHANGED <<up, status, over, sent, devVars, back, reply, histVars>>

Answer(r, d) ==
  LET c == Chan(r, d) IN
  /\ leg[r][d] = "await" /\ reply[c] # <<>>
  /\ Move(r, d, Head(reply[c]))
  /\ reply' = [reply EXCEPT ![c] = Tail(@)]
  /\ UNCHANGED <<up, status, over, sent, devVars, wire, back, histVars>>

\* The two minutes are over, or the context is done.
NoAnswer(r, d) ==
  /\ leg[r][d] = "await"
  /\ Move(r, d, "err")
  /\ UNCHANGED <<up, status, over, sent, devVars, wire, back, reply, histVars>>

\* Mutant of OnMessage: the answers nobody has taken are all kept.
OnMessageKeepingAll(c) ==
  /\ back[c] # <<>>
  /\ back' = [back EXCEPT ![c] = Tail(@)]
  /\ reply' = [reply EXCEPT ![c] = Append(@, Head(back[c]))]
  /\ UNCHANGED <<up, hostVars, devVars, wire, histVars>>

\* newFileOut, OnMessage: an answer arrives; it is dropped when nobody reads.
OnMessage(c) ==
  /\ back[c] # <<>>
  /\ back' = [back EXCEPT ![c] = Tail(@)]
  /\ reply' = [reply EXCEPT ![c] = IF Len(@) < ReplyCap THEN Append(@, Head(back[c])) ELSE @]
  /\ UNCHANGED <<up, hostVars, devVars, wire, histVars>>

---------------------------------------------------------------------------
(* The device. *)

\* receiveFile. A text while a file is under way is its "end" or is ignored;
\* an end that comes at the wrong size leaves the receiver as it is.
Receive(c) ==
  LET m == Head(wire[c])
      g == recv[c]
      say(a) == back' = [back EXCEPT ![c] = Append(@, a)]
  IN
  /\ wire[c] # <<>>
  /\ wire' = [wire EXCEPT ![c] = Tail(@)]
  /\ \/ /\ m.kind = "hdr" /\ g.hdr = "none"
        /\ recv' = [recv EXCEPT ![c].hdr = m.of]
        /\ UNCHANGED <<back, saved>>
     \/ /\ m.kind = "hdr" /\ g.hdr # "none"
        /\ UNCHANGED <<recv, back, saved>>
     \/ /\ m.kind = "piece"
        /\ recv' = [recv EXCEPT ![c].parts = Append(@, m.of)]
        /\ UNCHANGED <<back, saved>>
     \/ /\ m.kind = "end" /\ g.hdr # "none" /\ Len(g.parts) = Size[g.hdr]
        /\ saved' = [saved EXCEPT ![c[2]] = @ \cup {[name |-> g.hdr, parts |-> g.parts]}]
        /\ recv' = [recv EXCEPT ![c] = [hdr |-> "none", parts |-> <<>>]]
        /\ say("ok")
     \/ /\ m.kind = "end" /\ (g.hdr = "none" \/ Len(g.parts) # Size[g.hdr])
        /\ say("err")
        /\ UNCHANGED <<recv, saved>>
  /\ UNCHANGED <<up, hostVars, reply, histVars>>

\* The connection ends: what is under way on its channels is lost.
Disconnect(d) ==
  /\ d \in up
  /\ up' = up \ {d}
  /\ wire' = [c \in Channels |-> IF c[2] = d THEN <<>> ELSE wire[c]]
  /\ back' = [c \in Channels |-> IF c[2] = d THEN <<>> ELSE back[c]]
  /\ UNCHANGED <<hostVars, devVars, reply, histVars>>

Sending(r, d) ==
  \/ Start(r, d) \/ NotOpened(r, d) \/ Piece(r, d) \/ Stop(r, d)
  \/ End(r, d) \/ Answer(r, d) \/ NoAnswer(r, d)

Next ==
  \/ \E r \in Requests : PutFile(r) \/ Expire(r) \/ Finish(r)
  \/ \E r \in Requests, d \in Devices : Sending(r, d)
  \/ \E c \in Channels : OnMessage(c) \/ Receive(c)
  \/ \E d \in Devices : Disconnect(d)

\* The host's goroutines run and its timers fire; nothing is asked of devices,
\* so a buffer may stay full and Piece need not happen.
Fairness ==
  /\ \A r \in Requests : WF_vars(Expire(r)) /\ WF_vars(Finish(r))
  /\ \A r \in Requests, d \in Devices :
       /\ WF_vars(Start(r, d)) /\ WF_vars(Stop(r, d)) /\ WF_vars(NoAnswer(r, d))

Spec == Init /\ [][Next]_vars /\ Fairness

---------------------------------------------------------------------------
(* Properties. *)

TypeOK ==
  /\ up \subseteq Devices
  /\ status \in [Requests -> {"new", "sending", "200", "502", "503"}]
  /\ over \subseteq Requests
  /\ leg \in [Requests -> [Devices -> {"none", "start", "stream", "await", "ok", "err"}]]
  /\ \A r \in Requests : sent[r] \in [Devices -> 0..Size[r]]
  /\ \A c \in Channels : Len(reply[c]) <= ReplyCap
  /\ \A c \in Channels : recv[c].hdr \in Requests \cup {"none"}

\* A file a device saves holds the pieces of the file its name belongs to, all
\* of them in order, however many files are sent at a time. On the app's one
\* channel this needs the sending to have found the channel quiet and to have
\* run to its "end": a sending that is cut short leaves its half there, and the
\* next file completes it.
SavedWhole ==
  \A d \in Devices : \A f \in saved[d] :
    d \in Pages \/ (<<f.name, d>> \in clean /\ <<f.name, d>> \notin cut)
      => f.parts = Whole(f.name)

\* A sending that counts as taken is a file the device has saved: the answer is
\* the answer to this file and not a late one to another, unless an earlier
\* sending was given up and its answer was still under way.
OkMeansSaved ==
  \A r \in Requests, d \in Devices :
    leg[r][d] = "ok" /\ <<r, d>> \in clean => [name |-> r, parts |-> Whole(r)] \in saved[d]

\* What is delivered is whole, and counts as delivered only if it is.
DeliveredWhole == SavedWhole /\ OkMeansSaved

\* Every program is answered, whatever the devices do or fail to do, also when
\* it waits for the app's channel behind another file.
AllAnswered == \A r \in Requests : status[r] = "sending" ~> status[r] \in {"200", "502"}
=============================================================================
