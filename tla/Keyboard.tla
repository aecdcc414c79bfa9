------------------------------ MODULE Keyboard ------------------------------
(***************************************************************************)
(* Keys from the pages of the devices to the desk's one virtual keyboard:  *)
(* the page's handlers (cmd/nc-rendezvous/web), the "input" channel, which *)
(* neither orders nor repeats its messages, and the injector that all      *)
(* sessions of the host share (internal/input/input_linux.go,              *)
(* cmd/nc-host/main.go). The keys of the clipboard's shortcuts are left    *)
(* out.                                                                    *)
(***************************************************************************)
EXTENDS Naturals, SequencesExt

CONSTANTS
  Pages,      \* the devices' pages, one session each
  Macs,       \* the pages in a browser of a Mac
  Keys,       \* the physical keys
  MaxEvents   \* key presses, clicks, losses of focus and reconnections (bound)

Modifiers == {"Shift", "Meta"}

ASSUME KeyboardAssumption ==
  /\ Macs \subseteq Pages
  /\ Keys \subseteq Modifiers \cup {"Seven", "Escape"}
  /\ MaxEvents \in Nat

VARIABLES
  fingers,   \* the keys held down at each device
  grabbing,  \* the page's grabbing
  focus,     \* the page has the keyboard's focus
  downAs,    \* the page's downAs: the code sent for each key, or ""
  chan,      \* messages on their way from the page, oldest first
  st,        \* each session: up, dropping, closing, over
  held,      \* the injector's heldKeys
  events,    \* those of MaxEvents so far
  garbled,   \* history: codes of which a keyup was or a message overtaken
  missed,    \* history: codes of which the page missed a keyup, without mouse or focus
  replaced   \* history: codes of keys pressed again, before their keyup, as another

pageVars == <<fingers, grabbing, focus, downAs, events>>
histVars == <<garbled, missed, replaced>>
vars     == <<pageVars, chan, st, held, histVars>>

Init ==
  /\ fingers = [p \in Pages |-> {}]
  /\ grabbing = [p \in Pages |-> FALSE]
  /\ focus = [p \in Pages |-> TRUE]
  /\ downAs = [p \in Pages |-> [k \in Keys |-> ""]]
  /\ chan = [p \in Pages |-> <<>>]
  /\ st = [p \in Pages |-> "up"]
  /\ held = {}
  /\ events = 0
  /\ garbled = {}
  /\ missed = {}
  /\ replaced = {}

\* Mutant of CodeFor: Command is sent as it is.
CodeForRaw(p, k) == IF k = "Seven" /\ "Shift" \in fingers[p] THEN "Slash" ELSE k

\* codeFor, with the automatic layout on a German keyboard: 7 is the key that
\* types a slash with Shift. On a Mac, Command is sent as Control.
CodeFor(p, k) ==
  CASE k = "Meta" /\ p \in Macs                 -> "Control"
    [] k = "Seven" /\ "Shift" \in fingers[p]    -> "Slash"
    [] OTHER                                    -> k

Down(c) == [t |-> "down", code |-> c, overtaken |-> FALSE]
Up(c)   == [t |-> "up", code |-> c, overtaken |-> FALSE]

\* send: nothing, once the channel is no longer open.
Send(p, ms) == chan' = [chan EXCEPT ![p] = IF st[p] \in {"up", "dropping"} THEN @ \o ms ELSE @]

Count == events < MaxEvents /\ events' = events + 1

---------------------------------------------------------------------------
(* The page. *)

Releases(p, k) == k = "Escape" /\ "Shift" \in fingers[p]

\* The page's handlers get a key, and heed it.
Sees(p) == focus[p] /\ grabbing[p]

\* keydown. Shift+Escape releases the mouse and is not sent; without the mouse
\* nothing is.
KeyDown(p, k) ==
  /\ k \notin fingers[p]
  /\ Count
  /\ fingers' = [fingers EXCEPT ![p] = @ \cup {k}]
  /\ \/ /\ ~Sees(p)
        /\ UNCHANGED <<grabbing, downAs, chan, replaced>>
     \/ /\ Sees(p) /\ Releases(p, k)
        /\ grabbing' = [grabbing EXCEPT ![p] = FALSE]
        /\ UNCHANGED <<downAs, chan, replaced>>
     \/ /\ Sees(p) /\ ~Releases(p, k)
        /\ downAs' = [downAs EXCEPT ![p][k] = CodeFor(p, k)]
        /\ replaced' = replaced \cup ({downAs[p][k]} \ {"", CodeFor(p, k)})
        /\ Send(p, <<Down(CodeFor(p, k))>>)
        /\ UNCHANGED grabbing
  /\ UNCHANGED <<focus, st, held, garbled, missed>>

\* The keydown a held Escape repeats once Shift is down.
EscapeRepeats(p) ==
  /\ Sees(p) /\ "Escape" \in fingers[p] /\ Releases(p, "Escape")
  /\ grabbing' = [grabbing EXCEPT ![p] = FALSE]
  /\ UNCHANGED <<fingers, focus, downAs, events, chan, st, held, histVars>>

\* Mutant of UpCode: the code is looked up again.
UpCodeNow(p, k) == CodeFor(p, k)

\* The code a keyup is sent with: the one its keydown was.
UpCode(p, k) == IF downAs[p][k] # "" THEN downAs[p][k] ELSE CodeFor(p, k)

\* "macOS browsers send no keyup for keys released while Command is held".
Hidden(p, k) == p \in Macs /\ "Meta" \in fingers[p] /\ k \notin Modifiers

\* Mutant of WithMeta: no key is released with Command.
WithMetaNone(p, k) == {}

\* They are released with it, whether they are up by now or not.
WithMeta(p, k) == IF k = "Meta" THEN {j \in Keys \ Modifiers : downAs[p][j] # ""} ELSE {}

\* keyup.
KeyUp(p, k) ==
  /\ k \in fingers[p]
  /\ fingers' = [fingers EXCEPT ![p] = @ \ {k}]
  /\ \/ /\ ~Sees(p)
        /\ missed' = missed \cup ({downAs[p][j] : j \in WithMeta(p, k) \cup {k}} \ {""})
        /\ UNCHANGED <<downAs, chan>>
     \/ /\ Sees(p) /\ Hidden(p, k)
        /\ UNCHANGED <<downAs, chan, missed>>
     \/ /\ Sees(p) /\ ~Hidden(p, k)
        /\ Send(p, <<Up(UpCode(p, k))>> \o
                   SetToSeq({Up(downAs[p][j]) : j \in WithMeta(p, k)}))
        /\ downAs' = [downAs EXCEPT ![p] =
                        [j \in Keys |-> IF j \in WithMeta(p, k) \cup {k} THEN "" ELSE @[j]]]
        /\ UNCHANGED missed
  /\ UNCHANGED <<grabbing, focus, events, st, held, garbled, replaced>>

\* A click on the picture takes the mouse, and with it the keyboard.
Click(p) ==
  /\ focus[p] /\ ~grabbing[p]
  /\ Count
  /\ grabbing' = [grabbing EXCEPT ![p] = TRUE]
  /\ UNCHANGED <<fingers, focus, downAs, chan, st, held, histVars>>

\* Another app or window gets the keyboard: the blur handler only shows a hint, so
\* what is down stays down.
Blur(p) ==
  /\ focus[p]
  /\ Count
  /\ focus' = [focus EXCEPT ![p] = FALSE]
  /\ UNCHANGED <<fingers, grabbing, downAs, chan, st, held, histVars>>

Focus(p) ==
  /\ ~focus[p]
  /\ focus' = [focus EXCEPT ![p] = TRUE]
  /\ UNCHANGED <<fingers, grabbing, downAs, events, chan, st, held, histVars>>

---------------------------------------------------------------------------
(* The channel, and the injector at its end. *)

\* The messages of q but the i-th; those sent before it with its code are overtaken.
Without(q, i) ==
  RemoveAt([j \in DOMAIN q |->
              IF j < i /\ q[j].code = q[i].code THEN [q[j] EXCEPT !.overtaken = TRUE] ELSE q[j]], i)

\* Any message may arrive next: Handle presses or releases the key.
Arrives(p, i) ==
  /\ st[p] \in {"up", "dropping"} /\ i \in DOMAIN chan[p]
  /\ LET m == chan[p][i] IN
       /\ held' = IF m.t = "down" THEN held \cup {m.code} ELSE held \ {m.code}
       /\ garbled' = IF m.overtaken THEN garbled \cup {m.code} ELSE garbled
  /\ chan' = [chan EXCEPT ![p] = Without(@, i)]
  /\ UNCHANGED <<pageVars, st, missed, replaced>>

\* Any message may be lost: the channel does not send it again.
Lost(p, i) ==
  /\ i \in DOMAIN chan[p]
  /\ garbled' = IF chan[p][i].t = "up" THEN garbled \cup {chan[p][i].code} ELSE garbled
  /\ chan' = [chan EXCEPT ![p] = RemoveAt(@, i)]
  /\ UNCHANGED <<pageVars, st, held, missed, replaced>>

---------------------------------------------------------------------------
(* The session. *)

\* The connection is lost: ReleaseAll, for every device, while messages may
\* still come.
Disconnected(p) ==
  /\ st[p] = "up"
  /\ st' = [st EXCEPT ![p] = "dropping"]
  /\ held' = {}
  /\ UNCHANGED <<pageVars, chan, histVars>>

\* closeSession closes the peer connection and its channels.
PcCloses(p) ==
  /\ st[p] = "dropping"
  /\ st' = [st EXCEPT ![p] = "closing"]
  /\ chan' = [chan EXCEPT ![p] = <<>>]
  /\ UNCHANGED <<pageVars, held, histVars>>

\* Mutant of Closed: keys are released when the connection is lost only.
ClosedKeeping(p) ==
  /\ st[p] = "closing"
  /\ st' = [st EXCEPT ![p] = "over"]
  /\ UNCHANGED <<pageVars, chan, held, histVars>>

\* The state change to Closed that follows: ReleaseAll again.
Closed(p) ==
  /\ st[p] = "closing"
  /\ st' = [st EXCEPT ![p] = "over"]
  /\ held' = {}
  /\ UNCHANGED <<pageVars, chan, histVars>>

\* The page connects again, with what it remembers.
Reconnects(p) ==
  /\ st[p] = "over"
  /\ Count
  /\ st' = [st EXCEPT ![p] = "up"]
  /\ UNCHANGED <<fingers, grabbing, focus, downAs, chan, held, histVars>>

Page(p) ==
  \/ \E k \in Keys : KeyDown(p, k) \/ KeyUp(p, k)
  \/ EscapeRepeats(p) \/ Click(p) \/ Blur(p) \/ Focus(p)

Channel(p) == \E i \in DOMAIN chan[p] : Arrives(p, i) \/ Lost(p, i)

Session(p) == Disconnected(p) \/ PcCloses(p) \/ Closed(p) \/ Reconnects(p)

Next == \E p \in Pages : Page(p) \/ Channel(p) \/ Session(p)

Spec == Init /\ [][Next]_vars

---------------------------------------------------------------------------
(* Properties. *)

CodesOf(p) == (Keys \ IF p \in Macs THEN {"Meta"} ELSE {}) \cup {"Control", "Slash"}
Codes      == UNION {CodesOf(p) : p \in Pages}
Excused    == garbled \cup missed \cup replaced

TypeOK ==
  /\ fingers \in [Pages -> SUBSET Keys]
  /\ grabbing \in [Pages -> BOOLEAN] /\ focus \in [Pages -> BOOLEAN]
  /\ \A p \in Pages : downAs[p] \in [Keys -> CodesOf(p) \cup {""}]
  /\ chan \in [Pages -> Seq([t : {"down", "up"}, code : Codes, overtaken : BOOLEAN])]
  /\ st \in [Pages -> {"up", "dropping", "closing", "over"}]
  /\ held \subseteq Codes
  /\ events \in 0..MaxEvents
  /\ Excused \subseteq Codes

\* The codes the page has down: of the keys held, and on a Mac of all keys
\* until Command is released.
DownAt(p) ==
  {downAs[p][k] : k \in IF p \in Macs /\ "Meta" \in fingers[p] THEN Keys ELSE fingers[p]}

UpComing(p) == {chan[p][i].code : i \in {j \in DOMAIN chan[p] : chan[p][j].t = "up"}}

\* Nothing but these keeps a key down at the desk: a finger on it, a keyup
\* under way, or a session about to release everything.
Accounted(c) ==
  \E p \in Pages : \/ st[p] = "up" /\ c \in DownAt(p) \cup UpComing(p)
                   \/ st[p] \in {"dropping", "closing"}

\* A key stays down at the desk only after the channel garbled its messages, the
\* page missed its keyup, because it had not the mouse or not the focus by then, or
\* forgot it for another code of the same key, whatever was pressed with it and
\* wherever sessions ended and began again.
NoStuckKey == \A c \in held : c \in Excused \/ Accounted(c)

\* index.html:1065, of downAs: "so the keyup always matches". It does not: on a
\* Mac, a key whose keyup Command hid may be pressed again as another code, which
\* takes the place of the first in downAs, and nothing releases that one.
KeyupMatches == \A c \in held : c \in garbled \cup missed \/ Accounted(c)

\* input.go: "release held buttons and keys, e.g. when a client drops". With no
\* session left nothing is down, although messages arrived after the first release.
AllGoneAllUp == (\A p \in Pages : st[p] = "over") => held = {}
=============================================================================
